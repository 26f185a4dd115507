----------------------------- MODULE MCStreamTransform -----------------------------
(***************************************************************************)
(* A small instance of StreamTransform.                                    *)
(***************************************************************************)
EXTENDS StreamTransform

MCDocuments == {<<"{", "x", "}">>, <<"{", "}">>, <<"1">>, <<"1", "2">>}

================================================================================

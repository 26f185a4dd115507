------------------------------- MODULE MCHttpCall -------------------------------
(***************************************************************************)
(* Small instances of HttpCall: upload takes a stream, download returns    *)
(* one; they belong to two services.                                       *)
(***************************************************************************)
EXTENDS HttpCall

CONSTANTS upload, download, files, media, f1, m1

MCServiceOf == [k \in Methods |-> IF k = upload THEN files ELSE media]
MCRunsService == [r \in Replicas |-> IF r = f1 THEN files ELSE media]

(* Handlers that keep to their description, and throw errors that say what.*)
PlainReturns ==
  [k \in Methods |-> IF k = download THEN {"stream", "error"} ELSE {"value", "error"}]

(* Errors may have no message. *)
AllReturns ==
  [k \in Methods |-> PlainReturns[k] \cup {"silentError"}]

================================================================================

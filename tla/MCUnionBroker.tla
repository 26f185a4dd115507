----------------------------- MODULE MCUnionBroker -----------------------------
(***************************************************************************)
(* Small instances of UnionBroker: one server has all methods, another one *)
(* of them again.                                                          *)
(***************************************************************************)
EXTENDS UnionBroker

CONSTANTS whole, part, plain, racing

MCServes == [s \in Servers |-> IF s = whole THEN Keys ELSE {racing}]

================================================================================

------------------------------- MODULE MCLifecycle -------------------------------
(***************************************************************************)
(* Small instances of Lifecycle.  The gateway has two additional services, *)
(* another service of the process has one.                                 *)
(***************************************************************************)
EXTENDS Lifecycle

CONSTANTS gateway, other, database, metrics, queue

MCAdditional ==
  [s \in Services |-> IF s = gateway THEN <<database, metrics>> ELSE <<queue>>]

================================================================================

----------------------------- MODULE MCRequestReply -----------------------------
(***************************************************************************)
(* Small instances of RequestReply.                                        *)
(***************************************************************************)
EXTENDS RequestReply, TLC

CONSTANTS
  OwnTimeoutKeys   \* the keys of methods that set options.timeout

MCOwnTimeout == [k \in Keys |-> IF k \in OwnTimeoutKeys THEN 1 ELSE Absent]

(* Replicas are alike.                                                     *)
Symmetry == Permutations(Instances)

================================================================================

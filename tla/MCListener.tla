------------------------------- MODULE MCListener -------------------------------
(***************************************************************************)
(* A small instance of Listener: two listeners, of two clients.            *)
(***************************************************************************)
EXTENDS Listener, TLC

CONSTANTS a1, b1, clientA, clientB

MCClientOf == [l \in Listeners |-> IF l = b1 THEN clientB ELSE clientA]

Explicit == [ack |-> "explicit", deliver |-> "all"]

MCOptions ==
  [l \in Listeners |->
     IF l \in BatchListeners
     THEN {Explicit, [ack |-> "all", deliver |-> "all"], [ack |-> "none", deliver |-> "new"]}
     ELSE {Explicit}]

(* Calls of on, and messages, are alike.                                   *)
Symmetry == Permutations(Subs) \cup Permutations(Messages)

================================================================================

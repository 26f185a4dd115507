------------------------------- MODULE MCContainer -------------------------------
(***************************************************************************)
(* Small instances of Container: a class (Outer) into which another key is *)
(* injected, and one (Inner) that needs nothing.                           *)
(***************************************************************************)
EXTENDS Container, TLC

CONSTANTS outerKey, innerKey, Outer, Inner

MCNeeds == [i \in Impls |-> IF i = Outer THEN {innerKey} ELSE {}]

MCByProperty == {<<Outer, innerKey>>}

Adapter(i, o) == [type |-> "adapter", impl |-> i, option |-> o]
Constant(i)   == [type |-> "constant", impl |-> i, option |-> "singleton"]

AllBindable ==
  [k \in Keys |-> IF k = outerKey
                    THEN {Adapter(Outer, "init")}
                    ELSE {Adapter(Inner, "init"), Adapter(Inner, "singleton"), Constant(Inner)}]

(* Calls of initDependencies are alike, and so are those of unbind.        *)
Symmetry == Permutations(Initers) \cup Permutations(Unbinders)

================================================================================

-------------------------------- MODULE MCStreams --------------------------------
(***************************************************************************)
(* Small instances of Streams: replicas of up to four versions.           *)
(***************************************************************************)
EXTENDS Streams, TLC

CONSTANTS w1, w2, m1, n1, wide, moved, narrow, star, l1, l2, few, many

MCVersion ==
  [r \in Replicas |-> CASE r \in {w1, w2} -> wide
                        [] r = m1 -> moved
                        [] r = n1 -> narrow
                        [] OTHER -> star]

MCActions ==
  [v \in {wide, moved, narrow, star} |->
     CASE v \in {wide, moved} -> <<">">>
       [] v = star -> <<"*">>
       [] OTHER -> <<"Elapsed", "Notify">>]

(* One version keeps its stream in memory, the others have the default.    *)
MCFixed == [c \in Configs |-> IF c.version = moved THEN "memory" ELSE "file"]

MCEventOf == [l \in Listeners |-> "Elapsed"]
MCSetting == [l \in Listeners |-> IF l = l1 THEN few ELSE many]

Symmetry == Permutations({w1, w2})

================================================================================

-------------------------------- MODULE MCHandling --------------------------------
(***************************************************************************)
(* A small instance of Handling: left extends base, lone and twin stand    *)
(* alone, but twin has the action of base.                                 *)
(***************************************************************************)
EXTENDS Handling, TLC

CONSTANTS
  r1, r2, e1, base, left, lone, twin,
  Users, Mail, Clock, Disk, Limit    \* what is injected

MCSuper  == [c \in Methods |-> IF c = left THEN base ELSE None]
MCAction == [c \in Methods |-> IF c = twin THEN base ELSE c]

MCDecorated ==
  [service  |-> [c \in Methods |-> CASE c = base -> [users |-> Users]
                                     [] c = lone -> [mail |-> Mail]
                                     [] c = twin -> [users |-> Mail]
                                     [] OTHER -> NoMap],
   instance |-> [c \in Methods |-> IF c = left THEN [clock |-> Clock] ELSE NoMap],
   inject   |-> [c \in Methods |-> CASE c = base -> [clock |-> Disk, p0 |-> Limit]
                                     [] c = left -> [mail |-> Mail]
                                     [] c = lone -> [mail |-> Users, p0 |-> Disk]
                                     [] c = twin -> [audit |-> Mail]
                                     [] OTHER -> NoMap]]

MCTypeOf ==
  [d \in {Users, Mail, Clock, Disk, Limit} |->
     CASE d \in {Users, Mail} -> "service"
       [] d \in {Clock, Disk} -> "adapter"
       [] OTHER -> "constant"]

MCHeaders == {None, [trace |-> 99, flags |-> 0], [trace |-> 99, flags |-> 1]}

Symmetry == Permutations({r1, r2})

================================================================================

---------------------------- MODULE LifecycleProofs ----------------------------
(***************************************************************************)
(* Theorems about Lifecycle, for any number of services, of additional     *)
(* services and of stops, any timeout, and both brokers.                   *)
(***************************************************************************)
EXTENDS Lifecycle, TLAPS

USE DEF Runs, Waiting

(* The process goes on as long as a step is taken.                         *)
LEMMA NextCases ==
  ASSUME [Next]_vars
  PROVE  \/ exit = None /\ \E s \in Services : ServiceStep(s)
         \/ exit = None /\ Signal
         \/ exit = None /\ \E r \in Runs : RunStep(r)
         \/ exit = None /\ (FatalError \/ Tick)
         \/ UNCHANGED vars
BY DEF Next

(* The services that begin to clean up are services of the process.        *)
LEMMA BeginType ==
  ASSUME TypeOK, NEW S \in SUBSET Services, Begin(S)
  PROVE  /\ stops' = stops + 1 /\ stops' \in 1 .. MaxStops
         /\ connection' \in {"open", "draining", "closed"}
         /\ began' \in [Runs -> Nat] /\ alarm' \in [Runs -> Nat]
         /\ pc' \in [Runs -> {"idle", "draining", "closing", "failed", "done"}]
         /\ \A r \in S \X {stops'} :
              /\ pc'[r] \in {"draining", "failed"}
              /\ began'[r] = now /\ alarm'[r] = now + Timeout
         /\ \A r \in Runs \ (S \X {stops'}) :
              pc'[r] = pc[r] /\ began'[r] = began[r] /\ alarm'[r] = alarm[r]
<1> DEFINE new == S \X {stops + 1}
<1>1. stops' = stops + 1 /\ stops' \in 1 .. MaxStops
  BY BoundsAssumption DEF Begin, TypeOK
<1>2. new \subseteq Runs
  BY <1>1
<1>3. connection' \in {"open", "draining", "closed"}
  BY DEF Begin, TypeOK
<1>4. now + Timeout \in Nat
  BY BoundsAssumption DEF TypeOK
<1>5. /\ began' = [r \in Runs |-> IF r \in new THEN now ELSE began[r]]
      /\ alarm' = [r \in Runs |-> IF r \in new THEN now + Timeout ELSE alarm[r]]
  BY DEF Begin, Alarm
<1>6. PICK accepted \in SUBSET new :
        pc' = [r \in Runs |-> IF r \in accepted THEN "draining"
                              ELSE IF r \in new THEN "failed" ELSE pc[r]]
  BY DEF Begin
<1>7. began' \in [Runs -> Nat] /\ alarm' \in [Runs -> Nat]
  BY <1>4, <1>5 DEF TypeOK
<1>8. pc' \in [Runs -> {"idle", "draining", "closing", "failed", "done"}]
  BY <1>6 DEF TypeOK
<1> HIDE DEF Runs
<1>9. ASSUME NEW r \in new
      PROVE  pc'[r] \in {"draining", "failed"} /\ began'[r] = now /\ alarm'[r] = now + Timeout
  BY <1>2, <1>5, <1>6
<1>10. ASSUME NEW r \in Runs \ new
       PROVE  pc'[r] = pc[r] /\ began'[r] = began[r] /\ alarm'[r] = alarm[r]
  BY <1>5, <1>6
<1> QED BY <1>1, <1>3, <1>7, <1>8, <1>9, <1>10

(* The run closes the additional service whose turn it is, with a new      *)
(* timer.                                                                  *)
GoesOn(r) ==
  /\ pc' = [pc EXCEPT ![r] = "closing"]
  /\ turn' = [turn EXCEPT ![r] = First(r)]
  /\ alarm' = [alarm EXCEPT ![r] = now + Timeout]
  /\ First(r) \in DOMAIN Additional[r[1]]
  /\ asked' = asked \cup {Additional[r[1]][First(r)]}
  /\ asked' \subseteq Closeables
  /\ UNCHANGED exit

(* The run has closed them all.                                            *)
IsDone(r) ==
  /\ First(r) \notin DOMAIN Additional[r[1]]
  /\ pc' = [pc EXCEPT ![r] = "done"]
  /\ exit' = "zero"
  /\ UNCHANGED <<turn, alarm, asked>>

(* GoOn, with its index.                                                   *)
LEMMA GoOnType ==
  ASSUME TypeOK, NEW r \in Runs, GoOn(r)
  PROVE  GoesOn(r) \/ IsDone(r)
<1>1. CASE First(r) \in DOMAIN Additional[r[1]]
  <2>1. Additional[r[1]] \in Seq(Closeables)
    BY AdditionalAssumption
  <2>2. Additional[r[1]][First(r)] \in Closeables
    BY <1>1, <2>1
  <2> QED BY <1>1, <2>2 DEF GoOn, GoesOn, Alarm, TypeOK
<1>2. CASE First(r) \notin DOMAIN Additional[r[1]]
  BY <1>2 DEF GoOn, IsDone
<1> QED BY <1>1, <1>2

LEMMA FirstType ==
  ASSUME TypeOK, NEW r \in Runs
  PROVE  First(r) \in Nat \ {0}
BY DEF TypeOK, First

--------------------------------------------------------------------------------
(***************************************************************************)
(* Types                                                                   *)
(***************************************************************************)

(* Runs that begin leave the other variables alone.                        *)
LEMMA BeginUntouched ==
  ASSUME TypeOK, NEW S \in SUBSET Services, Begin(S),
         UNCHANGED <<now, phase, server, turn, exit, asked, failed>>
  PROVE  TypeOK'
<1>1. /\ stops' = stops + 1 /\ stops' \in 1 .. MaxStops
      /\ connection' \in {"open", "draining", "closed"}
      /\ began' \in [Runs -> Nat] /\ alarm' \in [Runs -> Nat]
      /\ pc' \in [Runs -> {"idle", "draining", "closing", "failed", "done"}]
  BY BeginType
<1>2. ASSUME NEW r \in Runs
      PROVE  \/ pc'[r] = pc[r] /\ alarm'[r] = alarm[r]
             \/ pc'[r] # "closing" /\ alarm'[r] = now + Timeout
  <2> DEFINE new == S \X {stops'}
  <2>1. /\ \A q \in new : pc'[q] \in {"draining", "failed"} /\ alarm'[q] = now + Timeout
        /\ \A q \in Runs \ new : pc'[q] = pc[q] /\ alarm'[q] = alarm[q]
    BY BeginType
  <2>2. r \in new \/ r \in Runs \ new
    OBVIOUS
  <2> HIDE DEF new
  <2>3. CASE r \in new
    BY <2>1, <2>3
  <2>4. CASE r \in Runs \ new
    BY <2>1, <2>4
  <2> QED BY <2>2, <2>3, <2>4
<1>3. \A r \in Runs : pc'[r] = "closing" => turn'[r] \in DOMAIN Additional[r[1]]
  BY <1>2 DEF TypeOK
<1>4. Timeout \in Nat /\ now \in Nat
  BY BoundsAssumption DEF TypeOK
<1>5. \A r \in Waiting' : alarm'[r] <= now' + Timeout
  <2> TAKE r \in Waiting'
  <2>1. r \in Runs /\ pc'[r] \in {"draining", "closing"}
    BY DEF Waiting
  <2>2. CASE pc'[r] = pc[r] /\ alarm'[r] = alarm[r]
    BY <2>1, <2>2 DEF TypeOK, Waiting
  <2>3. CASE alarm'[r] = now + Timeout
    BY <2>3, <1>4
  <2> QED BY <2>1, <2>2, <2>3, <1>2
<1>6. /\ now' \in Nat
      /\ phase' \in [Services -> {"new", "http", "streams", "started"}]
      /\ server' \in [Services -> {"none", "listening", "closed"}]
      /\ turn' \in [Runs -> Nat]
      /\ exit' \in {None, "zero", "one", "killed"}
      /\ asked' \subseteq Closeables
      /\ failed' \in BOOLEAN
      /\ stops' \in 0 .. MaxStops
  <2>1. stops' \in 0 .. MaxStops
    BY <1>1, BoundsAssumption
  <2> QED BY <2>1, Zenon DEF TypeOK
<1> QED BY <1>1, <1>3, <1>5, <1>6 DEF TypeOK

(* What the steps of start leave alone, and what they keep.                *)
LEMMA ServiceStepType ==
  ASSUME TypeOK, NEW s \in Services, ServiceStep(s)
  PROVE  TypeOK'
<1>1. CASE Start(s) \/ ListenResolves(s) \/ CreateStreamsResolves(s) \/ StartFails(s)
  <2>1. UNCHANGED startVars /\ exit' \in {None, "zero", "one", "killed"}
    BY <1>1 DEF Start, ListenResolves, Subscribe, CreateStreamsResolves, StartFails, TypeOK
  <2>2. phase' \in [Services -> {"new", "http", "streams", "started"}]
    BY <1>1 DEF Start, ListenResolves, CreateStreamsResolves, StartFails, Register, TypeOK
  <2>3. server' \in [Services -> {"none", "listening", "closed"}]
    BY <1>1 DEF Start, ListenResolves, CreateStreamsResolves, StartFails, TypeOK
  <2>4. failed' \in BOOLEAN
    BY <1>1, ZenonT(20) DEF Start, ListenResolves, CreateStreamsResolves, StartFails, TypeOK
  <2> QED BY <2>1, <2>2, <2>3, <2>4 DEF startVars, TypeOK
<1>2. CASE Stop(s)
  <2>1. Begin({s}) /\ UNCHANGED <<now, phase, server, turn, exit, asked, failed>>
    BY <1>2 DEF Stop
  <2> QED BY <2>1, BeginUntouched
<1> QED BY <1>1, <1>2 DEF ServiceStep

LEMMA RunStepType ==
  ASSUME TypeOK, NEW r \in Runs, RunStep(r)
  PROVE  TypeOK'
<1>1. ASSUME r \in Waiting, GoOn(r), UNCHANGED <<now, phase, server, stops, began, failed>>,
             connection' \in {connection, "closed"}
      PROVE  TypeOK'
  <2>1. First(r) \in Nat \ {0}
    BY FirstType
  <2>2. now + Timeout \in Nat
    BY BoundsAssumption DEF TypeOK
  <2>3. CASE GoesOn(r)
    BY <1>1, <2>1, <2>2, <2>3 DEF GoesOn, TypeOK
  <2>4. CASE IsDone(r)
    BY <1>1, <2>4 DEF IsDone, TypeOK
  <2> QED BY <1>1, <2>3, <2>4, GoOnType
<1>2. CASE DrainResolves(r) \/ CloseResolves(r) \/ TimesOut(r)
  BY <1>1, <1>2 DEF DrainResolves, CloseResolves, TimesOut
<1>3. CASE Rejects(r) \/ ExitAfterFailure(r)
  BY <1>3 DEF Rejects, ExitAfterFailure, TypeOK
<1> QED BY <1>2, <1>3 DEF RunStep

LEMMA TypeStep == TypeOK /\ [Next]_vars => TypeOK'
<1> SUFFICES ASSUME TypeOK, [Next]_vars PROVE TypeOK'
  OBVIOUS
<1>1. ASSUME NEW s \in Services, ServiceStep(s) PROVE TypeOK'
  BY <1>1, ServiceStepType
<1>2. CASE Signal
  <2> DEFINE S == {s \in Services : Registered(s)}
  <2>1. CASE Begin(S) /\ UNCHANGED <<now, phase, server, turn, exit, asked, failed>>
    BY <2>1, BeginUntouched
  <2>2. CASE exit' = "killed" /\ UNCHANGED <<now, phase, server, connection, stops, pc,
                                             turn, alarm, began, asked, failed>>
    BY <2>2 DEF TypeOK
  <2> QED BY <1>2, <2>1, <2>2 DEF Signal
<1>3. ASSUME NEW r \in Runs, RunStep(r) PROVE TypeOK'
  BY <1>3, RunStepType
<1>4. CASE FatalError
  BY <1>4 DEF FatalError, startVars, TypeOK
<1>5. CASE Tick
  BY <1>5, BoundsAssumption DEF Tick, TypeOK
<1>6. CASE UNCHANGED vars
  BY <1>6 DEF vars, TypeOK
<1> QED BY <1>1, <1>2, <1>3, <1>4, <1>5, <1>6, NextCases

LEMMA TypeInit == Init => TypeOK
<1> SUFFICES ASSUME Init PROVE TypeOK
  OBVIOUS
<1>1. Waiting = {} /\ \A r \in Runs : pc[r] = "idle"
  BY DEF Init
<1>2. failed \in BOOLEAN
  BY Zenon DEF Init
<1> QED BY <1>1, <1>2, BoundsAssumption DEF Init, TypeOK

(* The state of a process and of its cleanups keeps its type; in particular*)
(* no wait of cleanupAndExit has more than a timeout left (Service.ts:620).*)
THEOREM TypeCorrect == Spec => []TypeOK
BY TypeInit, TypeStep, PTL DEF Spec

--------------------------------------------------------------------------------
(***************************************************************************)
(* The bound of a cleanup                                                  *)
(***************************************************************************)

(* The waits of a run so far, the present one included.                    *)
Waits(r) == IF pc[r] = "draining" THEN 1 ELSE 1 + turn[r]

(* No timer is overdue, and each run has had one timeout for each wait.    *)
Paced == \A r \in Waiting : now <= alarm[r] /\ alarm[r] <= began[r] + Waits(r) * Timeout

BoundInv == TypeOK /\ Paced

LEMMA TimesMonotonic ==
  ASSUME NEW m \in Nat, NEW n \in Nat, NEW t \in Nat, m <= n
  PROVE  m * t <= n * t
<1>1. PICK d \in Nat : n = m + d
  <2>1. n - m \in Nat /\ n = m + (n - m)
    OBVIOUS
  <2> QED BY <2>1
<1>2. (m + d) * t = m * t + d * t /\ d * t \in Nat /\ m * t \in Nat
  OBVIOUS
<1> QED BY <1>1, <1>2

LEMMA PacedGoOn ==
  ASSUME BoundInv, NEW r \in Runs, r \in Waiting, GoOn(r), UNCHANGED <<now, began>>
  PROVE  Paced'
<1>1. First(r) = Waits(r) /\ Waits(r) \in Nat
  <2>1. turn[r] \in Nat
    BY DEF BoundInv, TypeOK
  <2> QED BY <2>1 DEF First, Waits
<1>2. /\ now \in Nat /\ Timeout \in Nat /\ alarm[r] \in Nat /\ began[r] \in Nat
      /\ now <= alarm[r] /\ alarm[r] <= began[r] + Waits(r) * Timeout
  BY BoundsAssumption DEF BoundInv, TypeOK, Paced
<1>3. (1 + Waits(r)) * Timeout = Waits(r) * Timeout + Timeout /\ Waits(r) * Timeout \in Nat
  BY <1>1, <1>2
<1>4. now + Timeout <= began[r] + (1 + Waits(r)) * Timeout
  BY <1>2, <1>3
<1>5. SUFFICES ASSUME NEW q \in Runs, q \in Waiting'
               PROVE  now' <= alarm'[q] /\ alarm'[q] <= began'[q] + Waits(q)' * Timeout
  BY DEF Paced
<1>6. CASE q = r
  <2>1. GoesOn(r)
    BY <1>5, <1>6, GoOnType DEF BoundInv, IsDone, TypeOK
  <2>2. Waits(r)' = 1 + Waits(r) /\ alarm'[r] = now + Timeout
    BY <1>1, <2>1 DEF GoesOn, Waits, BoundInv, TypeOK
  <2> QED BY <1>2, <1>4, <1>6, <2>2
<1>7. CASE q # r
  <2>1. pc'[q] = pc[q] /\ turn'[q] = turn[q] /\ alarm'[q] = alarm[q]
    BY <1>7, GoOnType DEF GoesOn, IsDone, BoundInv, TypeOK
  <2>2. q \in Waiting /\ Waits(q)' = Waits(q)
    BY <1>5, <2>1 DEF Waits
  <2> QED BY <2>1, <2>2 DEF BoundInv, Paced
<1> QED BY <1>6, <1>7

LEMMA PacedBegin ==
  ASSUME BoundInv, NEW S \in SUBSET Services, Begin(S), UNCHANGED <<now, turn>>
  PROVE  Paced'
<1>1. SUFFICES ASSUME NEW q \in Runs, q \in Waiting'
               PROVE  now' <= alarm'[q] /\ alarm'[q] <= began'[q] + Waits(q)' * Timeout
  BY DEF Paced
<1>2. now \in Nat /\ Timeout \in Nat
  BY BoundsAssumption DEF BoundInv, TypeOK
<1>3. CASE q \in S \X {stops'}
  <2>1. pc'[q] = "draining" /\ alarm'[q] = now + Timeout /\ began'[q] = now
    BY <1>1, <1>3, BeginType DEF BoundInv
  <2>2. Waits(q)' = 1
    BY <2>1 DEF Waits
  <2> QED BY <1>2, <2>1, <2>2
<1>4. CASE q \notin S \X {stops'}
  <2>1. pc'[q] = pc[q] /\ alarm'[q] = alarm[q] /\ began'[q] = began[q]
    BY <1>4, BeginType DEF BoundInv
  <2>2. q \in Waiting /\ Waits(q)' = Waits(q)
    BY <1>1, <2>1 DEF Waits
  <2> QED BY <2>1, <2>2 DEF BoundInv, Paced
<1> QED BY <1>3, <1>4

LEMMA PacedStep == BoundInv /\ [Next]_vars => Paced'
<1> SUFFICES ASSUME BoundInv, [Next]_vars PROVE Paced'
  OBVIOUS
<1>1. ASSUME UNCHANGED <<now, pc, turn, alarm, began>> PROVE Paced'
  BY <1>1 DEF BoundInv, Paced, Waits
<1>2. ASSUME NEW s \in Services, ServiceStep(s) PROVE Paced'
  <2>1. CASE Stop(s)
    BY <2>1, PacedBegin DEF Stop
  <2>2. CASE ~Stop(s)
    BY <1>1, <1>2, <2>2 DEF ServiceStep, Start, ListenResolves, CreateStreamsResolves,
                            StartFails, startVars
  <2> QED BY <2>1, <2>2
<1>3. CASE Signal
  <2>1. {s \in Services : Registered(s)} \in SUBSET Services
    OBVIOUS
  <2> QED BY <1>1, <1>3, <2>1, PacedBegin DEF Signal
<1>4. ASSUME NEW r \in Runs, RunStep(r) PROVE Paced'
  <2>1. CASE DrainResolves(r) \/ CloseResolves(r) \/ TimesOut(r)
    BY <2>1, PacedGoOn DEF DrainResolves, CloseResolves, TimesOut
  <2>2. CASE Rejects(r)
    <3>1. \A q \in Waiting' : q \in Waiting /\ pc'[q] = pc[q]
      BY <2>2 DEF Rejects, BoundInv, TypeOK
    <3> QED BY <2>2, <3>1 DEF Rejects, BoundInv, Paced, Waits
  <2>3. CASE ExitAfterFailure(r)
    BY <1>1, <2>3 DEF ExitAfterFailure
  <2> QED BY <1>4, <2>1, <2>2, <2>3 DEF RunStep
<1>5. CASE FatalError
  BY <1>1, <1>5 DEF FatalError, startVars
<1>6. CASE Tick
  <2>1. \A r \in Waiting : now + 1 <= alarm[r]
    BY <1>6 DEF Tick, BoundInv, TypeOK
  <2>2. Waiting' = Waiting /\ \A r \in Waiting : Waits(r)' = Waits(r)
    BY <1>6 DEF Tick, Waits
  <2> QED BY <1>6, <2>1, <2>2 DEF Tick, BoundInv, Paced
<1>7. CASE UNCHANGED vars
  BY <1>1, <1>7 DEF vars
<1> QED BY <1>2, <1>3, <1>4, <1>5, <1>6, <1>7, NextCases

LEMMA PacedIsBound == BoundInv => ExitBound
<1> SUFFICES ASSUME BoundInv, NEW r \in Waiting
             PROVE  now <= began[r] + (1 + Len(Additional[r[1]])) * Timeout
  BY DEF ExitBound
<1> DEFINE n == Len(Additional[r[1]])
<1>1. n \in Nat /\ (pc[r] = "closing" => turn[r] \in 1 .. n)
  <2>1. Additional[r[1]] \in Seq(Closeables)
    BY AdditionalAssumption
  <2> QED BY <2>1 DEF BoundInv, TypeOK
<1>2. /\ now \in Nat /\ Timeout \in Nat /\ began[r] \in Nat /\ alarm[r] \in Nat
      /\ now <= alarm[r] /\ alarm[r] <= began[r] + Waits(r) * Timeout
  BY BoundsAssumption DEF BoundInv, TypeOK, Paced
<1>3. Waits(r) \in Nat /\ 1 + n \in Nat /\ Waits(r) <= 1 + n
  BY <1>1 DEF Waits
<1> HIDE DEF n
<1>4. Waits(r) * Timeout <= (1 + n) * Timeout
  BY <1>2, <1>3, TimesMonotonic
<1>5. Waits(r) * Timeout \in Nat /\ (1 + n) * Timeout \in Nat
  BY <1>2, <1>3
<1>6. now <= began[r] + (1 + n) * Timeout
  BY <1>2, <1>4, <1>5
<1> QED BY <1>6 DEF n

(* A process that cleans up ends within a timeout for the broker and one   *)
(* for each additional service, whatever hangs, is refused or is signalled *)
(* meanwhile (Service.cleanupAndExit, 616-645).                            *)
THEOREM CleanupIsBounded == Spec => []ExitBound
<1>1. Init => BoundInv
  BY TypeInit DEF Init, BoundInv, Paced
<1>2. BoundInv /\ [Next]_vars => BoundInv'
  BY TypeStep, PacedStep DEF BoundInv
<1> QED BY <1>1, <1>2, PacedIsBound, PTL DEF Spec

--------------------------------------------------------------------------------
(***************************************************************************)
(* What a cleanup that nothing interferes with has closed                  *)
(***************************************************************************)

Begun(q) == pc[q] # "idle"

Numbered == \A q \in Runs : Begun(q) => q[2] <= stops

(* Nobody but a cleanup touches the connection.                            *)
Drained == connection # "open" => \E q \in Runs : Begun(q)

(* A drain is refused because of another run, if it does not fail.         *)
Refused ==
  \A r \in Runs : pc[r] = "failed" /\ ~failed => \E q \in Runs \ {r} : Begun(q)

(* A run has asked those whose turn it was, and is done when it was all's. *)
Closed ==
  \A r \in Runs :
    /\ pc[r] = "closing" => \A i \in 1 .. turn[r] : Additional[r[1]][i] \in asked
    /\ pc[r] = "done" => \A i \in DOMAIN Additional[r[1]] : Additional[r[1]][i] \in asked

Alone(r) == {q \in Runs : Begun(q)} = {r}

(* If a run that nothing interferes with ends the process, it is done; what*)
(* ends it otherwise is a start that finds the connection gone.            *)
Finished ==
  /\ exit = "zero" /\ ~failed => \A r \in Runs : Alone(r) => pc[r] = "done"
  /\ exit = "one" /\ ~failed => Gone

CleanupInv == TypeOK /\ Numbered /\ Drained /\ Refused /\ Closed /\ Finished

LEMMA CleanupInit == Init => CleanupInv
<1> SUFFICES ASSUME Init PROVE CleanupInv
  OBVIOUS
<1>1. exit \notin {"zero", "one"}
  BY NoneAssumption DEF Init
<1> QED BY <1>1, TypeInit
        DEF Init, CleanupInv, Numbered, Drained, Refused, Closed, Finished, Begun

(* Steps that leave the runs alone.                                        *)
LEMMA CleanupIdle ==
  ASSUME CleanupInv, TypeOK', UNCHANGED <<stops, connection, pc, turn, asked>>,
         failed => failed', Finished'
  PROVE  CleanupInv'
BY DEF CleanupInv, Numbered, Drained, Refused, Closed, Begun

LEMMA CleanupBegin ==
  ASSUME CleanupInv, TypeOK', NEW S \in SUBSET Services, Begin(S),
         UNCHANGED <<turn, exit, asked, failed>>, exit = None
  PROVE  CleanupInv'
<1>1. /\ stops' = stops + 1 /\ stops \in Nat
      /\ S \X {stops'} \subseteq Runs
      /\ \A q \in S \X {stops'} : pc'[q] \in {"draining", "failed"}
      /\ \A q \in Runs \ (S \X {stops'}) : pc'[q] = pc[q]
  BY BeginType, BoundsAssumption DEF CleanupInv, TypeOK
<1>2. \A q \in Runs : Begun(q) => Begun(q)' /\ q \notin S \X {stops'}
  BY <1>1 DEF CleanupInv, Numbered, Begun
<1>3. Numbered'
  BY <1>1 DEF CleanupInv, Numbered, Begun
<1>4. Drained'
  <2>1. CASE connection' = connection
    BY <1>2, <2>1 DEF CleanupInv, Drained
  <2>2. CASE connection' # connection
    <3>1. PICK s \in S : TRUE
      BY <2>2 DEF Begin
    <3>2. <<s, stops'>> \in Runs /\ pc'[<<s, stops'>>] \in {"draining", "failed"}
      BY <1>1
    <3> QED BY <3>2 DEF Drained, Begun
  <2> QED BY <2>1, <2>2
<1>5. Refused'
  <2>1. SUFFICES ASSUME NEW r \in Runs, pc'[r] = "failed", ~failed
                 PROVE  \E q \in Runs \ {r} : Begun(q)'
    BY DEF Refused
  <2>2. CASE r \notin S \X {stops'}
    <3>1. PICK q \in Runs \ {r} : Begun(q)
      BY <1>1, <2>1, <2>2 DEF CleanupInv, Refused
    <3> QED BY <1>2, <3>1
  <2>3. CASE r \in S \X {stops'}
    <3> DEFINE new == S \X {stops + 1}
    <3>1. PICK accepted \in SUBSET new :
            /\ Union => accepted = new
            /\ ~Union /\ connection = "open" => \E q \in new : accepted = {q}
            /\ pc' = [q \in Runs |-> IF q \in accepted THEN "draining"
                                     ELSE IF q \in new THEN "failed" ELSE pc[q]]
      BY DEF Begin
    <3>2. r \notin accepted
      BY <2>1, <3>1
    <3>3. ~Union
      BY <1>1, <2>3, <3>1, <3>2
    <3>4. CASE connection = "open"
      <4>1. PICK q \in new : accepted = {q}
        BY <3>1, <3>3, <3>4
      <4>2. q # r /\ q \in Runs /\ pc'[q] = "draining"
        BY <1>1, <3>1, <3>2, <4>1
      <4> QED BY <4>2 DEF Begun
    <3>5. CASE connection # "open"
      <4>1. PICK q \in Runs : Begun(q)
        BY <3>5 DEF CleanupInv, Drained
      <4>2. q # r /\ Begun(q)'
        BY <1>2, <2>3, <4>1
      <4> QED BY <4>2
    <3> QED BY <3>4, <3>5
  <2> QED BY <2>2, <2>3
<1>6. Closed'
  BY <1>1 DEF CleanupInv, Closed
<1>7. Finished'
  BY NoneAssumption DEF Finished
<1> QED BY <1>3, <1>4, <1>5, <1>6, <1>7 DEF CleanupInv

LEMMA CleanupGoOn ==
  ASSUME CleanupInv, TypeOK', NEW r \in Runs, r \in Waiting, GoOn(r),
         UNCHANGED <<phase, stops, failed>>, exit = None
  PROVE  CleanupInv'
<1>1. GoesOn(r) \/ IsDone(r)
  BY GoOnType DEF CleanupInv
<1>2. /\ \A q \in Runs : q # r => pc'[q] = pc[q] /\ turn'[q] = turn[q]
      /\ pc'[r] \in {"closing", "done"} /\ asked \subseteq asked'
  BY <1>1 DEF GoesOn, IsDone, CleanupInv, TypeOK
<1>3. Begun(r) /\ \A q \in Runs : Begun(q)' <=> Begun(q)
  BY <1>2 DEF Begun
<1>4. Numbered' /\ Drained' /\ Refused'
  BY <1>2, <1>3 DEF CleanupInv, Numbered, Drained, Refused
<1>5. First(r) \in Nat /\ First(r) - 1 \in Nat
      /\ \A i \in 1 .. First(r) - 1 : Additional[r[1]][i] \in asked
  <2>1. turn[r] \in Nat
    BY DEF CleanupInv, TypeOK
  <2> QED BY <2>1 DEF First, CleanupInv, Closed
<1>6. Closed'
  <2>1. SUFFICES /\ pc'[r] = "closing" =>
                      \A i \in 1 .. turn'[r] : Additional[r[1]][i] \in asked'
                 /\ pc'[r] = "done" =>
                      \A i \in DOMAIN Additional[r[1]] : Additional[r[1]][i] \in asked'
    BY <1>2 DEF CleanupInv, Closed
  <2>2. CASE GoesOn(r)
    <3>1. /\ pc'[r] = "closing" /\ turn'[r] = First(r)
          /\ asked' = asked \cup {Additional[r[1]][First(r)]}
      BY <2>2 DEF GoesOn, CleanupInv, TypeOK
    <3>2. \A i \in 1 .. First(r) : i = First(r) \/ i \in 1 .. First(r) - 1
      BY <1>5
    <3> QED BY <1>5, <3>1, <3>2
  <2>3. CASE IsDone(r)
    <3>1. pc'[r] = "done" /\ asked' = asked /\ First(r) \notin DOMAIN Additional[r[1]]
      BY <2>3 DEF IsDone, CleanupInv, TypeOK
    <3>2. Additional[r[1]] \in Seq(Closeables)
      BY AdditionalAssumption
    <3>3. CASE pc[r] = "draining"
      <4>1. Len(Additional[r[1]]) = 0
        BY <3>1, <3>2, <3>3 DEF First
      <4> QED BY <3>1, <3>2, <4>1
    <3>4. CASE pc[r] = "closing"
      <4>1. turn[r] \in 1 .. Len(Additional[r[1]]) /\ First(r) = turn[r] + 1
        BY <3>2, <3>4 DEF First, CleanupInv, TypeOK
      <4>2. DOMAIN Additional[r[1]] = 1 .. First(r) - 1
        BY <3>1, <3>2, <4>1
      <4> QED BY <1>5, <3>1, <4>2
    <3> QED BY <3>3, <3>4
  <2> QED BY <1>1, <2>2, <2>3
<1>7. Finished'
  <2>1. exit' \in {None, "zero"} /\ (exit' = "zero" => IsDone(r))
    BY <1>1, NoneAssumption DEF GoesOn, IsDone
  <2>2. exit' # "one"
    BY <2>1, NoneAssumption
  <2>3. SUFFICES ASSUME exit' = "zero", NEW q \in Runs, Alone(q)' PROVE pc'[q] = "done"
    BY <2>2 DEF Finished
  <2>4. q = r
    BY <1>3, <2>3 DEF Alone
  <2> QED BY <2>1, <2>3, <2>4 DEF IsDone, CleanupInv, TypeOK
<1> QED BY <1>4, <1>6, <1>7 DEF CleanupInv

LEMMA CleanupServiceStep ==
  ASSUME CleanupInv, TypeOK', NEW s \in Services, ServiceStep(s), exit = None
  PROVE  CleanupInv'
<1>1. CASE Stop(s)
  BY <1>1, CleanupBegin DEF Stop
<1>2. CASE Start(s) \/ ListenResolves(s)
  <2>1. exit' # exit => exit' = "one" /\ Gone
    BY <1>2 DEF Start, ListenResolves, Subscribe
  <2>2. UNCHANGED <<stops, connection, pc, turn, asked, failed>>
    BY <1>2 DEF Start, ListenResolves, startVars
  <2>3. Finished'
    BY <2>1, <2>2, NoneAssumption DEF Finished, Gone
  <2> QED BY <2>2, <2>3, CleanupIdle
<1>3. CASE CreateStreamsResolves(s)
  BY <1>3, CleanupIdle, NoneAssumption DEF CreateStreamsResolves, startVars, Finished
<1>4. CASE StartFails(s)
  <2>1. /\ exit' = "one" /\ UNCHANGED <<stops, connection, pc, turn, asked>>
        /\ failed' = (failed \/ phase[s] = "http" \/ ~Gone)
    BY <1>4 DEF StartFails, startVars
  <2>2. ~failed' => ~failed /\ Gone
    BY <2>1
  <2>3. Finished'
    BY <2>1, <2>2 DEF Finished, Gone
  <2> QED BY <2>1, <2>2, <2>3, CleanupIdle
<1> QED BY <1>1, <1>2, <1>3, <1>4 DEF ServiceStep

LEMMA CleanupSignal ==
  ASSUME CleanupInv, TypeOK', Signal, exit = None
  PROVE  CleanupInv'
<1> DEFINE S == {s \in Services : Registered(s)}
<1>1. CASE Begin(S) /\ UNCHANGED <<turn, exit, asked, failed>>
  BY <1>1, CleanupBegin
<1>2. CASE exit' = "killed" /\ UNCHANGED <<phase, stops, connection, pc, turn, asked, failed>>
  <2>1. Finished'
    BY <1>2 DEF Finished
  <2> QED BY <1>2, <2>1, CleanupIdle
<1> QED BY <1>1, <1>2 DEF Signal

LEMMA CleanupRunStep ==
  ASSUME CleanupInv, TypeOK', NEW r \in Runs, RunStep(r), exit = None
  PROVE  CleanupInv'
<1>1. CASE DrainResolves(r) \/ CloseResolves(r) \/ TimesOut(r)
  BY <1>1, CleanupGoOn DEF DrainResolves, CloseResolves, TimesOut
<1>2. CASE Rejects(r)
  <2>1. /\ pc'[r] = "failed" /\ pc[r] \in {"draining", "closing"}
        /\ \A q \in Runs : q # r => pc'[q] = pc[q]
    BY <1>2 DEF Rejects, CleanupInv, TypeOK
  <2>2. \A q \in Runs : Begun(q)' <=> Begun(q)
    BY <2>1 DEF Begun
  <2>3. Numbered' /\ Drained'
    BY <1>2, <2>2 DEF Rejects, CleanupInv, Numbered, Drained
  <2>4. Refused' /\ Finished'
    BY <1>2 DEF Rejects, Refused, Finished
  <2>5. Closed'
    BY <1>2, <2>1 DEF Rejects, CleanupInv, Closed
  <2> QED BY <2>3, <2>4, <2>5 DEF CleanupInv
<1>3. CASE ExitAfterFailure(r)
  <2>1. ~failed => \A q \in Runs : ~Alone(q)
    <3>1. SUFFICES ASSUME ~failed, NEW q \in Runs, Alone(q) PROVE FALSE
      OBVIOUS
    <3>2. PICK p \in Runs \ {r} : Begun(p)
      BY <1>3, <3>1 DEF ExitAfterFailure, CleanupInv, Refused
    <3>3. Begun(r)
      BY <1>3 DEF ExitAfterFailure, Begun
    <3> QED BY <3>1, <3>2, <3>3 DEF Alone
  <2>2. Finished'
    <3>1. exit' = "zero" /\ failed' = failed /\ \A q \in Runs : Alone(q)' <=> Alone(q)
      BY <1>3 DEF ExitAfterFailure, Alone, Begun
    <3> QED BY <2>1, <3>1 DEF Finished
  <2> QED BY <1>3, <2>2, CleanupIdle DEF ExitAfterFailure
<1> QED BY <1>1, <1>2, <1>3 DEF RunStep

LEMMA CleanupStep == CleanupInv /\ [Next]_vars => CleanupInv'
<1> SUFFICES ASSUME CleanupInv, [Next]_vars PROVE CleanupInv'
  OBVIOUS
<1>1. TypeOK'
  BY TypeStep DEF CleanupInv
<1>2. CASE exit = None /\ \E s \in Services : ServiceStep(s)
  BY <1>1, <1>2, CleanupServiceStep
<1>3. CASE exit = None /\ Signal
  BY <1>1, <1>3, CleanupSignal
<1>4. CASE exit = None /\ \E r \in Runs : RunStep(r)
  BY <1>1, <1>4, CleanupRunStep
<1>5. CASE FatalError
  BY <1>1, <1>5, CleanupIdle DEF FatalError, startVars, Finished
<1>6. CASE exit = None /\ Tick
  BY <1>1, <1>6, CleanupIdle, NoneAssumption DEF Tick, Finished
<1>7. CASE UNCHANGED vars
  BY <1>1, <1>7, CleanupIdle DEF vars, CleanupInv, Finished, Alone, Begun, Gone
<1> QED BY <1>2, <1>3, <1>4, <1>5, <1>6, <1>7, NextCases

(* If nothing fails and no other cleanup interferes, no process ends before*)
(* all additional services of the one that cleans up were asked to close,  *)
(* unless a start ends it that finds the connection gone                   *)
(* (Service.cleanupAndExit, 616-645).                                      *)
THEOREM AloneClosesAll == Spec => []ClosedIfAlone
<1>1. CleanupInv => ClosedIfAlone
  <2> SUFFICES ASSUME CleanupInv, NEW r \in Runs, exit \in {"zero", "one"}, ~failed,
                      {q \in Runs : pc[q] # "idle"} = {r}
               PROVE  \/ \A i \in DOMAIN Additional[r[1]] : Additional[r[1]][i] \in asked
                      \/ exit = "one" /\ Gone
    BY DEF ClosedIfAlone
  <2>1. Alone(r)
    BY DEF Alone, Begun
  <2> HIDE DEF Runs
  <2>2. pc[r] = "done" \/ (exit = "one" /\ Gone)
    <3>1. CASE exit = "zero"
      BY <2>1, <3>1 DEF CleanupInv, Finished
    <3>2. CASE exit = "one"
      BY <3>2 DEF CleanupInv, Finished
    <3> QED BY <3>1, <3>2
  <2>3. r \in Runs
    OBVIOUS
  <2> QED BY <2>2, <2>3 DEF CleanupInv, Closed
<1> QED BY <1>1, CleanupInit, CleanupStep, PTL DEF Spec

================================================================================

-------------------------------- MODULE Lifecycle --------------------------------
(***************************************************************************)
(* The life of a process with one service, or with all the services of a   *)
(* monolith: Service.start, the signal handlers it registers, stop, and    *)
(* cleanupAndExit, which waits for the broker and the additional services, *)
(* each against a timer of its own, and ends the process.                  *)
(***************************************************************************)
EXTENDS Integers, Sequences

CONSTANTS
  Services,     \* the Service objects of the process
  Closeables,   \* what services give as gracefulShutdown.additional
  Additional,   \* the sequence that each service gives
  MethodServices,  \* services with methods without streams: they subscribe to them
  HttpServices,    \* services with streaming methods: they listen for HTTP
  StreamServices,  \* services with events in streams: they create them
  Union,        \* the broker is the one of the monolith
  Timeout,      \* gracefulShutdown.timeout
  MaxStops,     \* bound: how many signals and calls of stop there are
  None

ASSUME AdditionalAssumption ==
  /\ Additional \in [Services -> Seq(Closeables)]
  /\ MethodServices \subseteq Services
  /\ HttpServices \subseteq Services
  /\ StreamServices \subseteq Services
  /\ Union \in BOOLEAN
ASSUME BoundsAssumption == Timeout \in Nat \ {0} /\ MaxStops \in Nat
ASSUME NoneAssumption == None \notin {"zero", "one", "killed"}

(* The n-th stop, for service s, is a run of s.cleanupAndExit.             *)
Runs == Services \X (1 .. MaxStops)

VARIABLES
  now,         \* the clock
  phase,       \* how far each service's start is
  server,      \* the HTTP server of each service
  connection,  \* to the broker, shared by the services of the process
  stops,       \* how many signals and calls of stop there were
  pc,          \* where each run is
  turn,        \* the additional service it is closing
  alarm,       \* when the timer it waits for goes off
  exit,        \* the code the process ended with, None while it runs
  began,       \* history: when each run began
  asked,       \* history: the additional services that were asked to close
  failed       \* history: something failed that is not the services' doing

vars == <<now, phase, server, connection, stops, pc, turn, alarm, exit, began,
          asked, failed>>

Waiting == {r \in Runs : pc[r] \in {"draining", "closing"}}

TypeOK ==
  /\ now \in Nat
  /\ phase \in [Services -> {"new", "http", "streams", "started"}]
  /\ server \in [Services -> {"none", "listening", "closed"}]
  /\ connection \in {"open", "draining", "closed"}
  /\ stops \in 0 .. MaxStops
  /\ pc \in [Runs -> {"idle", "draining", "closing", "failed", "done"}]
  /\ turn \in [Runs -> Nat]
  /\ alarm \in [Runs -> Nat]
  /\ exit \in {None, "zero", "one", "killed"}
  /\ began \in [Runs -> Nat]
  /\ asked \subseteq Closeables
  /\ failed \in BOOLEAN
  /\ \A r \in Runs : pc[r] = "closing" => turn[r] \in DOMAIN Additional[r[1]]
  /\ \A r \in Waiting : alarm[r] <= now + Timeout

Init ==
  /\ now = 0
  /\ phase = [s \in Services |-> "new"]
  /\ server = [s \in Services |-> "none"]
  /\ connection = "open"
  /\ stops = 0
  /\ pc = [r \in Runs |-> "idle"]
  /\ turn = [r \in Runs |-> 0]
  /\ alarm = [r \in Runs |-> 0]
  /\ exit = None
  /\ began = [r \in Runs |-> 0]
  /\ asked = {}
  /\ failed = FALSE

--------------------------------------------------------------------------------
(***************************************************************************)
(* start                                                                   *)
(***************************************************************************)

startVars == <<now, connection, stops, pc, turn, alarm, began, asked>>

(* registerGracefulShutdown has run.                                       *)
Registered(s) == phase[s] \in {"streams", "started"}

(* What start does when the HTTP server listens, or none is needed: it     *)
(* registers its signal handlers and goes on to the streams.               *)
Register(s) ==
  phase' = [phase EXCEPT ![s] = IF s \in StreamServices THEN "streams" ELSE "started"]

(* Subscribing over a connection that is draining or closed throws.        *)
Gone == connection # "open" /\ ~Union

(* It does so in an async function that nobody awaits: start goes on to its*)
(* next await, and then the rejection that nobody handles ends the process.*)
Subscribe(does) == exit' = IF does /\ Gone THEN "one" ELSE exit

(* start up to its first await.                                            *)
Start(s) ==
  /\ phase[s] = "new"
  /\ \/ s \in HttpServices /\ phase' = [phase EXCEPT ![s] = "http"]
     \/ s \notin HttpServices /\ Register(s)
  /\ Subscribe(s \in MethodServices)
  /\ UNCHANGED <<startVars, server, failed>>

(* The server listens, and runServiceMethodForHttp subscribes.             *)
ListenResolves(s) ==
  /\ phase[s] = "http"
  /\ server' = [server EXCEPT ![s] = "listening"]
  /\ Register(s)
  /\ Subscribe(TRUE)
  /\ UNCHANGED <<startVars, failed>>

CreateStreamsResolves(s) ==
  /\ phase[s] = "streams"
  /\ ~Gone
  /\ phase' = [phase EXCEPT ![s] = "started"]
  /\ UNCHANGED <<startVars, server, exit, failed>>

(* The catch of start ends the process.  createStreams rejects when the    *)
(* broker does, and when the connection is gone.                           *)
StartFails(s) ==
  /\ phase[s] \in {"http", "streams"}
  /\ exit' = "one"
  /\ failed' = (failed \/ phase[s] = "http" \/ ~Gone)
  /\ UNCHANGED <<startVars, phase, server>>

--------------------------------------------------------------------------------
(***************************************************************************)
(* cleanupAndExit                                                          *)
(***************************************************************************)

(* Mutant: a timer that is much too long. *)
Alarm_Long == now + 10 * Timeout

(* The timer of one Promise.race.                                          *)
Alarm == now + Timeout

(* The runs of services S begin, one after another: each asks the broker   *)
(* to drain.  NATS does so once and refuses the others.                    *)
Begin(S) ==
  LET n   == stops + 1
      new == S \X {n}
  IN  /\ stops < MaxStops
      /\ stops' = n
      /\ connection' = IF S # {} /\ connection = "open" THEN "draining" ELSE connection
      /\ began' = [r \in Runs |-> IF r \in new THEN now ELSE began[r]]
      /\ alarm' = [r \in Runs |-> IF r \in new THEN Alarm ELSE alarm[r]]
      /\ \E accepted \in SUBSET new :
           /\ Union => accepted = new
           /\ ~Union /\ connection = "open" => \E r \in new : accepted = {r}
           /\ ~Union /\ connection # "open" => accepted = {}
           /\ pc' = [r \in Runs |-> IF r \in accepted THEN "draining"
                                    ELSE IF r \in new THEN "failed" ELSE pc[r]]

Stop(s) ==
  /\ Begin({s})
  /\ UNCHANGED <<now, phase, server, turn, exit, asked, failed>>

(* A signal: every service that has registered its handler cleans up.      *)
(* With none the signal ends the process.                                  *)
Signal ==
  LET S == {s \in Services : Registered(s)}
  IN  \/ /\ S # {}
         /\ Begin(S)
         /\ UNCHANGED <<now, phase, server, turn, exit, asked, failed>>
      \/ /\ S = {}
         /\ exit' = "killed"
         /\ UNCHANGED <<now, phase, server, connection, stops, pc, turn, alarm, began,
                        asked, failed>>

(* Mutant: the first of the additional services is left out. *)
First_Second(r) == IF pc[r] = "draining" THEN 2 ELSE turn[r] + 1

(* The additional service whose turn is next.                              *)
First(r) == IF pc[r] = "draining" THEN 1 ELSE turn[r] + 1

(* The run goes on: past the HTTP and probe servers, whose close is made   *)
(* a promise function and not called, to the next additional service, or to*)
(* process.exit(0).                                                        *)
GoOn(r) ==
  LET i == First(r)
  IN  \/ /\ i \in DOMAIN Additional[r[1]]
         /\ pc' = [pc EXCEPT ![r] = "closing"]
         /\ turn' = [turn EXCEPT ![r] = i]
         /\ alarm' = [alarm EXCEPT ![r] = Alarm]
         /\ asked' = asked \cup {Additional[r[1]][i]}
         /\ UNCHANGED exit
      \/ /\ i \notin DOMAIN Additional[r[1]]
         /\ pc' = [pc EXCEPT ![r] = "done"]
         /\ exit' = "zero"
         /\ UNCHANGED <<turn, alarm, asked>>

DrainResolves(r) ==
  /\ pc[r] = "draining"
  /\ connection' = "closed"
  /\ GoOn(r)
  /\ UNCHANGED <<now, phase, server, stops, began, failed>>

CloseResolves(r) ==
  /\ pc[r] = "closing"
  /\ GoOn(r)
  /\ UNCHANGED <<now, phase, server, connection, stops, began, failed>>

(* Mutant: the wait has no timer. *)
TimesOut_Never(r) == FALSE /\ UNCHANGED vars

(* The timer wins the race against drain or close.                         *)
TimesOut(r) ==
  /\ r \in Waiting
  /\ now >= alarm[r]
  /\ GoOn(r)
  /\ UNCHANGED <<now, phase, server, connection, stops, began, failed>>

(* drain or close rejects: the catch skips what is left.                   *)
Rejects(r) ==
  /\ r \in Waiting
  /\ pc' = [pc EXCEPT ![r] = "failed"]
  /\ failed' = TRUE
  /\ UNCHANGED <<now, phase, server, connection, stops, turn, alarm, exit, began, asked>>

(* process.exit(0) after the catch.                                        *)
ExitAfterFailure(r) ==
  /\ pc[r] = "failed"
  /\ exit' = "zero"
  /\ UNCHANGED <<now, phase, server, connection, stops, pc, turn, alarm, began, asked,
                 failed>>

(* An exception that nobody catches, a rejection that nobody handles; over *)
(* NATS also the probe server, when its port is taken.                     *)
FatalError ==
  /\ exit' = "one"
  /\ failed' = TRUE
  /\ UNCHANGED <<startVars, phase, server>>

(* Time passes; timers are ideal, and with none running the clock rests.   *)
Tick ==
  /\ Waiting # {}
  /\ \A r \in Waiting : now < alarm[r]
  /\ now' = now + 1
  /\ UNCHANGED <<phase, server, connection, stops, pc, turn, alarm, exit, began, asked,
                 failed>>

--------------------------------------------------------------------------------
ServiceStep(s) ==
  Start(s) \/ ListenResolves(s) \/ CreateStreamsResolves(s) \/ StartFails(s) \/ Stop(s)

RunStep(r) ==
  \/ DrainResolves(r)
  \/ CloseResolves(r)
  \/ TimesOut(r)
  \/ Rejects(r)
  \/ ExitAfterFailure(r)

Next ==
  /\ exit = None
  /\ \/ \E s \in Services : ServiceStep(s)
     \/ Signal
     \/ \E r \in Runs : RunStep(r)
     \/ FatalError
     \/ Tick

Spec == Init /\ [][Next]_vars

(* The clock moves, timers go off, and what follows a catch is run.        *)
Fairness ==
  /\ WF_vars(exit = None /\ Tick)
  /\ \A r \in Runs : WF_vars(exit = None /\ (TimesOut(r) \/ ExitAfterFailure(r)))

FairSpec == Spec /\ Fairness

--------------------------------------------------------------------------------
(***************************************************************************)
(* Properties                                                              *)
(***************************************************************************)

(* The process ends within a timeout for the broker and one for each       *)
(* additional service, whatever hangs, and however many signals come       *)
(* (Service.cleanupAndExit, lines 616-645).                                *)
ExitBound ==
  \A r \in Waiting : now <= began[r] + (1 + Len(Additional[r[1]])) * Timeout

(* Once a cleanup has begun the process ends.                              *)
CleanupEnds == \A r \in Runs : r \in Waiting ~> exit # None

(* "Correct finish all connections" (Service.ts:614): if nothing fails, the *)
(* process does not end before the additional services of a service that   *)
(* cleans up were asked to close.  The code keeps this only for a cleanup  *)
(* that nothing interferes with - no other cleanup, of which the drain     *)
(* would be refused (620, 640-644), and no start of a service, which ends  *)
(* the process with 1 when it finds the connection gone: when it subscribes*)
(* (361, 567) and when it creates its streams (599, 609) - and for its own *)
(* service only.  A signal before any handler is registered just kills.    *)
ClosedIfAlone ==
  \A r \in Runs :
    (/\ exit \in {"zero", "one"} /\ ~failed
     /\ {q \in Runs : pc[q] # "idle"} = {r}) =>
      \/ \A i \in DOMAIN Additional[r[1]] : Additional[r[1]][i] \in asked
      \/ exit = "one" /\ Gone

================================================================================

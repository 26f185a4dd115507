------------------------------- MODULE UnionBroker -------------------------------
(***************************************************************************)
(* A monolith: the services of an application, their clients and listeners *)
(* in one process, over the broker of src/Union, an EventEmitter.  What a  *)
(* message passes on its way is a PassThrough stream of each subscription. *)
(* The cache and the checks of data are as in RequestReply and left out.   *)
(***************************************************************************)
EXTENDS Integers, Sequences, FiniteSets

CONSTANTS
  Calls,      \* calls of Client.request, of which each is made once
  Keys,       \* what can be asked for: a subject with its data
  Payloads,   \* what handlers return
  Falsy,      \* the values among them that are false to an if
  RaceKeys,   \* keys of methods with options.race
  Servers,    \* the Service objects of the process
  Serves,     \* the keys that each of them serves
  Ons,        \* calls of on, each on a listener of its own, to one event
  MaxEvents,  \* bound: how many events are emitted
  None

Errors == {"Refused", "BrokerTimeout", "ServiceError"}

ASSUME SubsetsAssumption ==
  Falsy \subseteq Payloads /\ RaceKeys \subseteq Keys /\ Serves \in [Servers -> SUBSET Keys]
ASSUME BoundAssumption == MaxEvents \in Nat
ASSUME NamesAssumption ==
  None \notin Keys \cup Nat \cup Payloads \cup Errors /\ Payloads \cap Errors = {}

VARIABLES
  alive,     \* the process
  up,        \* the servers that have subscribed
  pc,        \* where each call is
  key,       \* what it asks for
  result,    \* what its caller got
  once,      \* the calls whose answer the emitter has a listener for
  written,   \* requests in the streams of subscriptions
  running,   \* requests that are being handled
  answers,   \* what handlers ended with and has not been answered yet
  since,     \* how much had been emitted when a listener subscribed
  buffer,    \* events in the stream of a listener
  emitted,   \* how many events have been emitted: the n-th is event n
  got,       \* history: what each listener's handler got
  offed,     \* history: the listeners whose off was called
  computed   \* history: the values that handlers returned for each key

callVars  == <<pc, key, result, once>>
netVars   == <<written, running, answers, computed>>
eventVars == <<since, buffer, emitted, got, offed>>
vars      == <<alive, up, callVars, netVars, eventVars>>

Sent == [call : Calls, at : Servers]

TypeOK ==
  /\ alive \in BOOLEAN
  /\ up \subseteq Servers
  /\ pc \in [Calls -> {"idle", "pending", "resolved", "rejected", "lost"}]
  /\ key \in [Calls -> Keys \cup {None}]
  /\ result \in [Calls -> Payloads \cup Errors \cup {None}]
  /\ once \subseteq Calls
  /\ written \subseteq Sent /\ running \subseteq Sent
  /\ answers \subseteq [call : Calls, outcome : Payloads \cup {"ServiceError"}]
  /\ computed \in [Keys -> SUBSET Payloads]
  /\ since \in [Ons -> Nat \cup {None}]
  /\ {buffer, got} \subseteq [Ons -> Seq(1 .. MaxEvents)]
  /\ emitted \in 0 .. MaxEvents
  /\ offed \subseteq Ons
  /\ \A c \in Calls :
       /\ pc[c] = "idle" <=> key[c] = None
       /\ pc[c] = "resolved" => result[c] \in Payloads
       /\ pc[c] = "rejected" => result[c] \in Errors
       /\ pc[c] \in {"idle", "pending", "lost"} => result[c] = None

Init ==
  /\ alive = TRUE
  /\ up = {}
  /\ pc = [c \in Calls |-> "idle"]
  /\ key = [c \in Calls |-> None]
  /\ result = [c \in Calls |-> None]
  /\ once = {}
  /\ written = {} /\ running = {} /\ answers = {}
  /\ computed = [k \in Keys |-> {}]
  /\ since = [o \in Ons |-> None]
  /\ buffer = [o \in Ons |-> <<>>]
  /\ emitted = 0
  /\ got = [o \in Ons |-> <<>>]
  /\ offed = {}

--------------------------------------------------------------------------------
(***************************************************************************)
(* Requests                                                                *)
(***************************************************************************)

(* A service subscribes to its methods.  The broker has no queues.         *)
Start(s) ==
  /\ s \notin up
  /\ up' = up \cup {s}
  /\ UNCHANGED <<alive, callVars, netVars, eventVars>>

(* The call c is over.                                                     *)
Settle(c, how, value) ==
  /\ pc' = [pc EXCEPT ![c] = how]
  /\ result' = [result EXCEPT ![c] = value]

(* emitter.emit(subject): into the streams of all who have subscribed.     *)
Receivers(k) == {s \in up : k \in Serves[s]}

(* Client.request, and the broker's.  With no receiver the call waits.     *)
Request(c, k) ==
  /\ pc[c] = "idle"
  /\ key' = [key EXCEPT ![c] = k]
  /\ \/ /\ Settle(c, "rejected", "Refused")   \* invalid data, or no time left
        /\ UNCHANGED <<once, written>>
     \/ /\ pc' = [pc EXCEPT ![c] = "pending"]
        /\ once' = once \cup {c}
        /\ written' = written \cup {[call |-> c, at |-> s] : s \in Receivers(k)}
        /\ UNCHANGED result
  /\ UNCHANGED <<alive, up, running, answers, computed, eventVars>>

(* The timer of the request: the promise is rejected, the listener stays.  *)
Timeout(c) ==
  /\ pc[c] = "pending"
  /\ Settle(c, "rejected", "BrokerTimeout")
  /\ UNCHANGED <<alive, up, key, once, netVars, eventVars>>

(* The loop of Service.start takes a request and does not wait for handled.*)
Handle(m) ==
  /\ m \in written
  /\ written' = written \ {m}
  /\ running' = running \cup {m}
  /\ UNCHANGED <<alive, up, callVars, answers, computed, eventVars>>

(* handled is over with a payload, or an error and no payload.             *)
Return(r, v) ==
  /\ r \in running
  /\ running' = running \ {r}
  /\ computed' = [computed EXCEPT ![key[r.call]] = @ \cup {v}]
  /\ answers' = answers \cup {[call |-> r.call, outcome |-> v]}
  /\ UNCHANGED <<alive, up, callVars, written, eventVars>>

Throw(r) ==
  /\ r \in running
  /\ running' = running \ {r}
  /\ answers' = answers \cup {[call |-> r.call, outcome |-> "ServiceError"]}
  /\ UNCHANGED <<alive, up, callVars, written, computed, eventVars>>

(* Mutant: on instead of once. *)
Forget_Not(c) == {}

(* The listener of a call goes with the first answer.                      *)
Forget(c) == {c}

(* Mutant: an answer that comes after the timeout settles the call again. *)
Awaited_Always(c) == TRUE

(* Resolving a promise that was rejected changes nothing.                  *)
Awaited(c) == pc[c] = "pending"

(* respond: the emitter calls the listener of the call, if it is there.    *)
Emit(c, outcome) ==
  /\ once' = once \ Forget(c)
  /\ \/ /\ c \in once /\ Awaited(c)
        /\ Settle(c, IF outcome = "ServiceError" THEN "rejected" ELSE "resolved", outcome)
     \/ /\ ~(c \in once /\ Awaited(c))
        /\ UNCHANGED <<pc, result>>

(* In race mode only a payload is answered.                                *)
Answered(a) == key[a.call] \notin RaceKeys \/ a.outcome \in Payloads \ Falsy

(* What follows on handled.  What cannot be written as JSON is answered as *)
(* an error.                                                               *)
Respond(a) ==
  /\ a \in answers
  /\ answers' = answers \ {a}
  /\ \/ Answered(a) /\ \E outcome \in {a.outcome, "ServiceError"} : Emit(a.call, outcome)
     \/ ~Answered(a) /\ UNCHANGED <<pc, result, once>>
  /\ UNCHANGED <<alive, up, key, written, running, computed, eventVars>>

--------------------------------------------------------------------------------
(***************************************************************************)
(* Events                                                                  *)
(***************************************************************************)

On(o) ==
  /\ since[o] = None
  /\ since' = [since EXCEPT ![o] = emitted]
  /\ UNCHANGED <<alive, up, callVars, netVars, buffer, emitted, got, offed>>

(* Mutant: events are put in front. *)
Write_First(s, n) == <<n>> \o s

Write(s, n) == Append(s, n)

(* emitter.emit(subject): into the streams of all who have subscribed.     *)
Publish ==
  /\ emitted < MaxEvents
  /\ emitted' = emitted + 1
  /\ buffer' = [o \in Ons |-> IF since[o] = None THEN buffer[o]
                              ELSE Write(buffer[o], emitted')]
  /\ UNCHANGED <<alive, up, callVars, netVars, since, got, offed>>

(* Mutant: the loop ends with the first event. *)
Receive_One(o) ==
  /\ buffer[o] # <<>> /\ got[o] = <<>>
  /\ got' = [got EXCEPT ![o] = Append(@, Head(buffer[o]))]
  /\ buffer' = [buffer EXCEPT ![o] = Tail(@)]
  /\ UNCHANGED <<alive, up, callVars, netVars, since, emitted, offed>>

(* A turn of startWatch.                                                   *)
Receive(o) ==
  /\ buffer[o] # <<>>
  /\ got' = [got EXCEPT ![o] = Append(@, Head(buffer[o]))]
  /\ buffer' = [buffer EXCEPT ![o] = Tail(@)]
  /\ UNCHANGED <<alive, up, callVars, netVars, since, emitted, offed>>

(* off: unsubscribe destroys the stream, and destroy throws.  Nothing else *)
(* of off is done: the listener is subscribed, and its handler attached.   *)
Off(o) ==
  /\ since[o] # None
  /\ offed' = offed \cup {o}
  /\ UNCHANGED <<alive, up, callVars, netVars, since, buffer, emitted, got>>

--------------------------------------------------------------------------------
(* The calls whose promises go with the process.                           *)
Gone == {c \in Calls : pc[c] = "pending"}

(* A signal, or an exception that nobody catches, ends all of it.          *)
Exit ==
  /\ alive' = FALSE
  /\ up' = {} /\ once' = {} /\ written' = {} /\ running' = {} /\ answers' = {}
  /\ pc' = [c \in Calls |-> IF c \in Gone THEN "lost" ELSE pc[c]]
  /\ buffer' = [o \in Ons |-> <<>>]
  /\ UNCHANGED <<key, result, computed, since, emitted, got, offed>>

Next ==
  /\ alive
  /\ \/ \E s \in Servers : Start(s)
     \/ \E c \in Calls, k \in Keys : Request(c, k)
     \/ \E c \in Calls : Timeout(c)
     \/ \E m \in written : Handle(m)
     \/ \E r \in running : Throw(r) \/ \E v \in Payloads : Return(r, v)
     \/ \E a \in answers : Respond(a)
     \/ \E o \in Ons : On(o) \/ Receive(o) \/ Off(o)
     \/ Publish
     \/ Exit

Spec == Init /\ [][Next]_vars

(* Timers go off, and loops over streams with something in them go on.     *)
Fairness ==
  /\ \A c \in Calls : WF_vars(alive /\ Timeout(c))
  /\ \A o \in Ons : WF_vars(alive /\ Receive(o))

FairSpec == Spec /\ Fairness

--------------------------------------------------------------------------------
(***************************************************************************)
(* Properties                                                              *)
(***************************************************************************)

(* The emitter has a listener for the answer of every call that waits for  *)
(* one, so that each can be answered; and of those that are over only for  *)
(* calls that timed out and were not answered since - one is left behind   *)
(* for each (UnionBroker.request, lines 79-92).                            *)
AnswerListeners ==
  alive => \A c \in Calls :
    /\ pc[c] = "pending" => c \in once
    /\ c \in once /\ pc[c] # "pending" => result[c] = "BrokerTimeout"

Promise == INSTANCE RequestPromise WITH
  phase  <- pc,
  asked  <- key,
  answer <- result

(* The monolith's broker keeps what RequestPromise promises a caller, too, *)
(* as RequestReply does over NATS: several services that answer one        *)
(* request, late answers and subjects nobody serves included.              *)
PromiseSpec == Promise!Spec

(* A listener gets all that is emitted once it has subscribed, once, and in*)
(* order: what its handler got, with what is in its stream, is the end of  *)
(* what was emitted (UnionBroker.subscribe, publish, Client.startWatch).   *)
EventsInOrder ==
  alive => \A o \in Ons : since[o] # None =>
    got[o] \o buffer[o] = [i \in 1 .. emitted - since[o] |-> since[o] + i]

(* And all of it is handled, unless the process ends.                      *)
EventsHandled == \A o \in Ons : buffer[o] # <<>> ~> (buffer[o] = <<>> \/ ~alive)

(* "Auto subscribe and unsubscribe to subject" (Client.ts:123): after   *)
(* off the handler gets nothing.  As the code of the monolith has it, off  *)
(* throws, and the handler gets everything.                                *)
NothingAfterOff == [][\A o \in offed : got'[o] = got[o]]_vars

================================================================================

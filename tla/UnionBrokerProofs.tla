---------------------------- MODULE UnionBrokerProofs ----------------------------
(***************************************************************************)
(* Theorems about the monolith's broker, for any number of calls, services,*)
(* listeners and events.                                                   *)
(***************************************************************************)
EXTENDS UnionBroker, SequenceTheorems, TLAPS

(* Steps that are about requests, and steps that are about events.         *)
RequestStep ==
  \/ \E s \in Servers : Start(s)
  \/ \E c \in Calls, k \in Keys : Request(c, k)
  \/ \E c \in Calls : Timeout(c)
  \/ \E m \in written : Handle(m)
  \/ \E r \in running : Throw(r) \/ \E v \in Payloads : Return(r, v)
  \/ \E a \in answers : Respond(a)

EventStep == (\E o \in Ons : On(o) \/ Receive(o) \/ Off(o)) \/ Publish

LEMMA NextCases ==
  [Next]_vars <=> (alive /\ (RequestStep \/ EventStep \/ Exit)) \/ UNCHANGED vars
BY DEF Next, RequestStep, EventStep

LEMMA RequestFrame == RequestStep => UNCHANGED <<alive, eventVars>>
BY DEF RequestStep, Start, Request, Timeout, Handle, Throw, Return, Respond

LEMMA EventFrame == EventStep => UNCHANGED <<alive, up, callVars, netVars>>
BY DEF EventStep, On, Receive, Off, Publish

--------------------------------------------------------------------------------
(***************************************************************************)
(* Types                                                                   *)
(***************************************************************************)

CallTypes ==
  /\ up \subseteq Servers
  /\ pc \in [Calls -> {"idle", "pending", "resolved", "rejected", "lost"}]
  /\ key \in [Calls -> Keys \cup {None}]
  /\ result \in [Calls -> Payloads \cup Errors \cup {None}]
  /\ once \subseteq Calls
  /\ \A c \in Calls :
       /\ pc[c] = "idle" <=> key[c] = None
       /\ pc[c] = "resolved" => result[c] \in Payloads
       /\ pc[c] = "rejected" => result[c] \in Errors
       /\ pc[c] \in {"idle", "pending", "lost"} => result[c] = None

NetTypes ==
  /\ written \subseteq Sent /\ running \subseteq Sent
  /\ answers \subseteq [call : Calls, outcome : Payloads \cup {"ServiceError"}]
  /\ computed \in [Keys -> SUBSET Payloads]

EventTypes ==
  /\ since \in [Ons -> Nat \cup {None}]
  /\ {buffer, got} \subseteq [Ons -> Seq(1 .. MaxEvents)]
  /\ emitted \in 0 .. MaxEvents
  /\ offed \subseteq Ons

LEMMA Types == TypeOK <=> alive \in BOOLEAN /\ CallTypes /\ NetTypes /\ EventTypes
BY DEF TypeOK, CallTypes, NetTypes, EventTypes

LEMMA RequestType ==
  ASSUME CallTypes, NetTypes, NEW c \in Calls, NEW k \in Keys, Request(c, k)
  PROVE  CallTypes' /\ NetTypes'
<1>1. key' = [key EXCEPT ![c] = k] /\ pc[c] = "idle" /\ k # None
  BY NamesAssumption DEF Request
<1>2. CASE Settle(c, "rejected", "Refused") /\ UNCHANGED <<once, written>>
  BY <1>1, <1>2 DEF Request, Settle, CallTypes, NetTypes, Errors
<1>3. CASE /\ pc' = [pc EXCEPT ![c] = "pending"] /\ once' = once \cup {c}
           /\ written' = written \cup {[call |-> c, at |-> s] : s \in Receivers(k)}
           /\ UNCHANGED result
  <2>1. {[call |-> c, at |-> s] : s \in Receivers(k)} \subseteq Sent
    BY DEF Receivers, Sent, CallTypes
  <2> QED BY <1>1, <1>3, <2>1 DEF Request, CallTypes, NetTypes
<1> QED BY <1>2, <1>3 DEF Request

LEMMA RespondType ==
  ASSUME CallTypes, NetTypes, NEW a \in answers, Respond(a)
  PROVE  CallTypes' /\ NetTypes'
<1>1. a.call \in Calls /\ a.outcome \in Payloads \cup {"ServiceError"}
  BY DEF NetTypes
<1>2. ASSUME NEW outcome \in Payloads \cup {"ServiceError"}, Emit(a.call, outcome)
      PROVE  CallTypes'
  <2>1. once' \subseteq Calls /\ UNCHANGED <<up, key>>
    BY <1>2 DEF Emit, Respond, CallTypes
  <2>2. CASE UNCHANGED <<pc, result>>
    BY <2>1, <2>2 DEF CallTypes
  <2>3. CASE outcome = "ServiceError" /\ pc[a.call] = "pending"
             /\ Settle(a.call, "rejected", outcome)
    BY <1>1, <2>1, <2>3 DEF Settle, CallTypes, Errors
  <2>4. CASE outcome \in Payloads /\ pc[a.call] = "pending"
             /\ Settle(a.call, "resolved", outcome)
    BY <1>1, <2>1, <2>4 DEF Settle, CallTypes
  <2> QED BY <1>2, <2>2, <2>3, <2>4 DEF Emit, Awaited
<1>3. CallTypes'
  BY <1>1, <1>2 DEF Respond, CallTypes
<1> QED BY <1>3 DEF Respond, NetTypes

LEMMA RequestStepType ==
  ASSUME CallTypes, NetTypes, RequestStep
  PROVE  CallTypes' /\ NetTypes'
<1>1. ASSUME NEW s \in Servers, Start(s) PROVE CallTypes' /\ NetTypes'
  BY <1>1 DEF Start, CallTypes, NetTypes, callVars, netVars
<1>2. ASSUME NEW c \in Calls, Timeout(c) PROVE CallTypes' /\ NetTypes'
  BY <1>2 DEF Timeout, Settle, CallTypes, NetTypes, netVars, Errors
<1>3. ASSUME NEW m \in written, Handle(m) PROVE CallTypes' /\ NetTypes'
  BY <1>3 DEF Handle, CallTypes, NetTypes, callVars
<1>4. ASSUME NEW r \in running, Throw(r) PROVE CallTypes' /\ NetTypes'
  BY <1>4 DEF Throw, CallTypes, NetTypes, callVars, Sent
<1>5. ASSUME NEW r \in running, NEW v \in Payloads, Return(r, v)
      PROVE  CallTypes' /\ NetTypes'
  <2>1. r.call \in Calls /\ computed' \in [Keys -> SUBSET Payloads]
    BY <1>5 DEF Return, NetTypes, Sent
  <2> QED BY <1>5, <2>1 DEF Return, CallTypes, NetTypes, callVars
<1> QED BY <1>1, <1>2, <1>3, <1>4, <1>5, RequestType, RespondType DEF RequestStep

LEMMA EventStepType ==
  ASSUME EventTypes, EventStep
  PROVE  EventTypes'
<1>1. ASSUME NEW o \in Ons, On(o) PROVE EventTypes'
  BY <1>1, BoundAssumption DEF On, EventTypes
<1>2. ASSUME NEW o \in Ons, Receive(o) PROVE EventTypes'
  <2>1. buffer[o] \in Seq(1 .. MaxEvents) /\ got[o] \in Seq(1 .. MaxEvents) /\ buffer[o] # <<>>
    BY <1>2 DEF Receive, EventTypes
  <2>2. Head(buffer[o]) \in 1 .. MaxEvents /\ Tail(buffer[o]) \in Seq(1 .. MaxEvents)
    BY <2>1, HeadTailProperties
  <2>3. Append(got[o], Head(buffer[o])) \in Seq(1 .. MaxEvents)
    BY <2>1, <2>2
  <2> QED BY <1>2, <2>2, <2>3 DEF Receive, EventTypes
<1>3. ASSUME NEW o \in Ons, Off(o) PROVE EventTypes'
  BY <1>3 DEF Off, EventTypes
<1>4. CASE Publish
  <2>1. emitted' \in 1 .. MaxEvents /\ UNCHANGED <<since, got, offed>>
    BY <1>4, BoundAssumption DEF Publish, EventTypes
  <2>2. \A o \in Ons : Append(buffer[o], emitted') \in Seq(1 .. MaxEvents)
    BY <2>1 DEF EventTypes
  <2>3. buffer' \in [Ons -> Seq(1 .. MaxEvents)]
    BY <1>4, <2>2 DEF Publish, Write, EventTypes
  <2> QED BY <2>1, <2>3 DEF EventTypes
<1> QED BY <1>1, <1>2, <1>3, <1>4 DEF EventStep

LEMMA ExitType ==
  ASSUME CallTypes, NetTypes, EventTypes, Exit
  PROVE  CallTypes' /\ NetTypes' /\ EventTypes'
<1>1. CallTypes'
  BY DEF Exit, Gone, CallTypes
<1>2. NetTypes'
  BY DEF Exit, NetTypes
<1>3. <<>> \in Seq(1 .. MaxEvents)
  OBVIOUS
<1>4. EventTypes'
  BY <1>3 DEF Exit, EventTypes
<1> QED BY <1>1, <1>2, <1>4

LEMMA TypeInit == Init => TypeOK
<1> SUFFICES ASSUME Init PROVE TypeOK
  OBVIOUS
<1>1. alive \in BOOLEAN
  BY Zenon DEF Init
<1>2. CallTypes /\ NetTypes
  BY DEF Init, CallTypes, NetTypes
<1>3. <<>> \in Seq(1 .. MaxEvents)
  OBVIOUS
<1>4. EventTypes
  BY <1>3, BoundAssumption DEF Init, EventTypes
<1> QED BY <1>1, <1>2, <1>4, Types

LEMMA TypeStep == TypeOK /\ [Next]_vars => TypeOK'
<1> SUFFICES ASSUME TypeOK, [Next]_vars PROVE TypeOK'
  OBVIOUS
<1> CallTypes /\ NetTypes /\ EventTypes
  BY Types
<1>1. alive' \in BOOLEAN
  <2>1. CASE UNCHANGED alive
    BY <2>1, Zenon DEF TypeOK
  <2>2. CASE Exit
    BY <2>2, Zenon DEF Exit
  <2> QED BY <2>1, <2>2, NextCases, RequestFrame, EventFrame DEF vars
<1> SUFFICES CallTypes' /\ NetTypes' /\ EventTypes'
  BY <1>1 DEF TypeOK, CallTypes, NetTypes, EventTypes
<1>2. CASE RequestStep
  <2>1. EventTypes'
    BY <1>2, RequestFrame DEF eventVars, EventTypes
  <2> QED BY <1>2, <2>1, RequestStepType
<1>3. CASE EventStep
  <2>1. CallTypes' /\ NetTypes'
    BY <1>3, EventFrame DEF callVars, netVars, CallTypes, NetTypes
  <2> QED BY <1>3, <2>1, EventStepType
<1>4. CASE Exit
  BY <1>4, ExitType
<1>5. CASE UNCHANGED vars
  BY <1>5 DEF vars, callVars, netVars, eventVars, CallTypes, NetTypes, EventTypes
<1> QED BY <1>2, <1>3, <1>4, <1>5, NextCases

LEMMA TypeCorrect == Spec => []TypeOK
BY TypeInit, TypeStep, PTL DEF Spec

--------------------------------------------------------------------------------
(***************************************************************************)
(* Listeners of the emitter                                                *)
(***************************************************************************)

ListenersInv == TypeOK /\ AnswerListeners

LEMMA ListenersStep == ListenersInv /\ [Next]_vars => AnswerListeners'
<1> SUFFICES ASSUME ListenersInv, [Next]_vars, alive', NEW d \in Calls
             PROVE  /\ pc'[d] = "pending" => d \in once'
                    /\ d \in once' /\ pc'[d] # "pending" => result'[d] = "BrokerTimeout"
  BY DEF AnswerListeners
<1> alive
  BY NextCases DEF vars
<1>1. /\ pc[d] = "pending" => d \in once
      /\ d \in once /\ pc[d] # "pending" => result[d] = "BrokerTimeout"
  BY DEF ListenersInv, AnswerListeners
<1> CallTypes /\ NetTypes
  BY Types DEF ListenersInv
<1>2. CASE UNCHANGED <<pc, result, once>>
  BY <1>1, <1>2
<1>3. ASSUME NEW c \in Calls, NEW k \in Keys, Request(c, k)
      PROVE  /\ pc'[d] = "pending" => d \in once'
             /\ d \in once' /\ pc'[d] # "pending" => result'[d] = "BrokerTimeout"
  <2>1. pc[c] = "idle" /\ result[c] = None /\ c \notin once
    <3>1. pc[c] = "idle" /\ result[c] = None /\ None # "BrokerTimeout"
      BY <1>3, NamesAssumption DEF Request, CallTypes, Errors
    <3> QED BY <3>1 DEF ListenersInv, AnswerListeners
  <2>2. CASE Settle(c, "rejected", "Refused") /\ UNCHANGED once
    BY <1>1, <2>1, <2>2 DEF Settle, CallTypes
  <2>3. CASE pc' = [pc EXCEPT ![c] = "pending"] /\ once' = once \cup {c} /\ UNCHANGED result
    BY <1>1, <2>3 DEF CallTypes
  <2> QED BY <1>3, <2>2, <2>3 DEF Request
<1>4. ASSUME NEW c \in Calls, Timeout(c)
      PROVE  /\ pc'[d] = "pending" => d \in once'
             /\ d \in once' /\ pc'[d] # "pending" => result'[d] = "BrokerTimeout"
  BY <1>1, <1>4 DEF Timeout, Settle, CallTypes
<1>5. ASSUME NEW a \in answers, Respond(a)
      PROVE  /\ pc'[d] = "pending" => d \in once'
             /\ d \in once' /\ pc'[d] # "pending" => result'[d] = "BrokerTimeout"
  <2>1. a.call \in Calls
    BY DEF NetTypes
  <2>2. ASSUME NEW outcome, Emit(a.call, outcome)
        PROVE  /\ pc'[d] = "pending" => d \in once'
               /\ d \in once' /\ pc'[d] # "pending" => result'[d] = "BrokerTimeout"
    <3>1. once' = once \ {a.call}
      BY <2>2 DEF Emit, Forget
    <3>2. CASE d = a.call
      <4>1. pc'[d] # "pending"
        BY <1>1, <2>1, <2>2, <3>2 DEF Emit, Awaited, Settle, CallTypes
      <4> QED BY <3>1, <3>2, <4>1
    <3>3. CASE d # a.call
      <4>1. pc'[d] = pc[d] /\ result'[d] = result[d]
        BY <2>1, <2>2, <3>3 DEF Emit, Settle, CallTypes
      <4> QED BY <1>1, <3>1, <3>3, <4>1
    <3> QED BY <3>2, <3>3
  <2> QED BY <1>2, <1>5, <2>2 DEF Respond
<1>6. CASE RequestStep
  <2>1. ASSUME \/ \E s \in Servers : Start(s)
               \/ \E m \in written : Handle(m)
               \/ \E r \in running : Throw(r) \/ \E v \in Payloads : Return(r, v)
        PROVE  UNCHANGED <<pc, result, once>>
    BY <2>1 DEF Start, Handle, Throw, Return, callVars
  <2> QED BY <1>2, <1>3, <1>4, <1>5, <1>6, <2>1 DEF RequestStep
<1>7. CASE EventStep
  BY <1>2, <1>7, EventFrame DEF callVars
<1>8. CASE Exit
  BY <1>8 DEF Exit
<1>9. CASE UNCHANGED vars
  BY <1>2, <1>9 DEF vars, callVars
<1> QED BY <1>6, <1>7, <1>8, <1>9, NextCases

(* The emitter has a listener for the answer of each call that waits, and  *)
(* leaves one behind only for a call that timed out (Union/Broker.ts,      *)
(* request, 79-92).                                                        *)
THEOREM ListenersAreKept == Spec => []AnswerListeners
<1>1. Init => ListenersInv
  BY TypeInit DEF Init, ListenersInv, AnswerListeners
<1>2. ListenersInv /\ [Next]_vars => ListenersInv'
  BY TypeStep, ListenersStep DEF ListenersInv
<1> QED BY <1>1, <1>2, PTL DEF Spec, ListenersInv

--------------------------------------------------------------------------------
(***************************************************************************)
(* The order of events                                                     *)
(***************************************************************************)

(* Nothing is written to the stream of a listener before it subscribes.    *)
Quiet == \A o \in Ons : since[o] = None => buffer[o] = <<>> /\ got[o] = <<>>

(* The events from m + 1 to n.                                             *)
Between(m, n) == [i \in 1 .. n - m |-> m + i]

(* What listener o got and will get is what was emitted since.             *)
InOrder(o) ==
  since[o] # None => since[o] <= emitted /\ got[o] \o buffer[o] = Between(since[o], emitted)

OrderInv == TypeOK /\ Quiet /\ (alive => \A o \in Ons : InOrder(o))

LEMMA BetweenNext ==
  ASSUME NEW M, NEW s \in Seq(M), NEW m \in Nat, NEW n \in Nat, m <= n,
         s = Between(m, n), n + 1 \in M
  PROVE  Append(s, n + 1) = Between(m, n + 1)
<1> DEFINE t == Append(s, n + 1)
<1>1. Len(s) = n - m /\ n - m \in Nat
  <2>1. DOMAIN s = 1 .. n - m
    BY DEF Between
  <2> QED BY <2>1, LenProperties
<1>2. t \in [1 .. Len(s) + 1 -> M]
  <2>1. t \in Seq(M) /\ Len(t) = Len(s) + 1
    OBVIOUS
  <2> HIDE DEF t
  <2> QED BY <2>1, LenProperties
<1>3. \A i \in 1 .. Len(s) + 1 : t[i] = IF i <= Len(s) THEN s[i] ELSE n + 1
  OBVIOUS
<1>4. \A i \in 1 .. n + 1 - m : t[i] = m + i
  BY <1>1, <1>3 DEF Between
<1>5. (n - m) + 1 = n + 1 - m
  OBVIOUS
<1> HIDE DEF t
<1>6. t = [i \in 1 .. n + 1 - m |-> m + i]
  BY <1>1, <1>2, <1>4, <1>5
<1> QED BY <1>6 DEF Between, t

LEMMA MoveHead ==
  ASSUME NEW M, NEW s \in Seq(M), NEW t \in Seq(M), t # <<>>
  PROVE  Append(s, Head(t)) \o Tail(t) = s \o t
<1>1. Head(t) \in M /\ Tail(t) \in Seq(M) /\ <<Head(t)>> \in Seq(M)
  BY HeadTailProperties
<1>2. Append(s, Head(t)) = s \o <<Head(t)>>
  BY <1>1
<1>3. <<Head(t)>> \o Tail(t) = t
  BY <1>1
<1> QED BY <1>1, <1>2, <1>3, ConcatAssociative

LEMMA ConcatAppend ==
  ASSUME NEW M, NEW s \in Seq(M), NEW t \in Seq(M), NEW x \in M
  PROVE  s \o Append(t, x) = Append(s \o t, x)
<1>1. <<x>> \in Seq(M) /\ s \o t \in Seq(M)
  BY ConcatProperties
<1>2. Append(t, x) = t \o <<x>> /\ Append(s \o t, x) = (s \o t) \o <<x>>
  BY <1>1
<1> QED BY <1>1, <1>2, ConcatAssociative

LEMMA OrderOn ==
  ASSUME EventTypes, Quiet, NEW o \in Ons, On(o), \A p \in Ons : InOrder(p)
  PROVE  Quiet' /\ \A p \in Ons : InOrder(p)'
<1>1. /\ since' = [since EXCEPT ![o] = emitted]
      /\ UNCHANGED <<buffer, emitted, got>> /\ emitted \in Nat /\ emitted # None
  BY BoundAssumption, NamesAssumption DEF On, EventTypes
<1>2. Quiet'
  BY <1>1 DEF Quiet, EventTypes
<1>3. ASSUME NEW p \in Ons PROVE InOrder(p)'
  <2>1. CASE p # o
    BY <1>1, <2>1 DEF InOrder, EventTypes
  <2>2. CASE p = o
    <3>1. got[o] \o buffer[o] = <<>>
      BY DEF On, Quiet
    <3>2. Between(emitted, emitted) = <<>>
      BY <1>1 DEF Between
    <3> QED BY <1>1, <2>2, <3>1, <3>2 DEF InOrder, EventTypes
  <2> QED BY <2>1, <2>2
<1> QED BY <1>2, <1>3

LEMMA OrderReceive ==
  ASSUME EventTypes, Quiet, NEW o \in Ons, Receive(o), \A p \in Ons : InOrder(p)
  PROVE  Quiet' /\ \A p \in Ons : InOrder(p)'
<1>1. /\ buffer[o] # <<>> /\ UNCHANGED <<since, emitted>>
      /\ got' = [got EXCEPT ![o] = Append(@, Head(buffer[o]))]
      /\ buffer' = [buffer EXCEPT ![o] = Tail(@)]
  BY DEF Receive
<1>2. since[o] # None
  BY <1>1 DEF Quiet
<1>3. Quiet'
  BY <1>1, <1>2 DEF Quiet, EventTypes
<1>4. got'[o] \o buffer'[o] = got[o] \o buffer[o]
  <2>1. got[o] \in Seq(1 .. MaxEvents) /\ buffer[o] \in Seq(1 .. MaxEvents)
    BY DEF EventTypes
  <2>2. got'[o] = Append(got[o], Head(buffer[o])) /\ buffer'[o] = Tail(buffer[o])
    BY <1>1 DEF EventTypes
  <2> QED BY <1>1, <2>1, <2>2, MoveHead
<1>5. \A p \in Ons \ {o} : got'[p] = got[p] /\ buffer'[p] = buffer[p]
  BY <1>1 DEF EventTypes
<1> QED BY <1>1, <1>3, <1>4, <1>5 DEF InOrder

LEMMA OrderPublish ==
  ASSUME EventTypes, Quiet, Publish, \A p \in Ons : InOrder(p)
  PROVE  Quiet' /\ \A p \in Ons : InOrder(p)'
<1>1. /\ emitted \in Nat /\ emitted' = emitted + 1 /\ emitted + 1 \in 1 .. MaxEvents
      /\ UNCHANGED <<since, got>>
      /\ \A o \in Ons : buffer'[o] = IF since[o] = None THEN buffer[o]
                                     ELSE Append(buffer[o], emitted + 1)
  BY BoundAssumption DEF Publish, Write, EventTypes
<1>2. Quiet'
  BY <1>1 DEF Quiet
<1>3. ASSUME NEW o \in Ons, since[o] # None
      PROVE  since[o] <= emitted + 1
             /\ got[o] \o buffer'[o] = Between(since[o], emitted + 1)
  <2>1. /\ got[o] \in Seq(1 .. MaxEvents) /\ buffer[o] \in Seq(1 .. MaxEvents)
        /\ since[o] \in Nat
    BY <1>3 DEF EventTypes
  <2>2. got[o] \o buffer[o] \in Seq(1 .. MaxEvents)
    BY <2>1, ConcatProperties
  <2>3. since[o] <= emitted /\ got[o] \o buffer[o] = Between(since[o], emitted)
    BY <1>3 DEF InOrder
  <2>4. got[o] \o buffer'[o] = Append(got[o] \o buffer[o], emitted + 1)
    <3>1. buffer'[o] = Append(buffer[o], emitted + 1)
      BY <1>1, <1>3
    <3>2. got[o] \o Append(buffer[o], emitted + 1) = Append(got[o] \o buffer[o], emitted + 1)
      <4> DEFINE M == 1 .. MaxEvents
                 s == got[o]
                 t == buffer[o]
                 n == emitted + 1
      <4>1. n \in M
        BY <1>1
      <4>2. s \in Seq(M) /\ t \in Seq(M)
        BY <2>1
      <4> HIDE DEF M, s, t, n
      <4>3. s \o Append(t, n) = Append(s \o t, n)
        BY <4>1, <4>2, ConcatAppend
      <4> QED BY <4>3 DEF s, t, n
    <3> QED BY <3>1, <3>2
  <2>5. Append(got[o] \o buffer[o], emitted + 1) = Between(since[o], emitted + 1)
    BY <1>1, <2>1, <2>2, <2>3, BetweenNext
  <2> QED BY <1>1, <2>1, <2>3, <2>4, <2>5
<1>4. \A o \in Ons : InOrder(o)'
  BY <1>1, <1>3 DEF InOrder
<1> QED BY <1>2, <1>4

LEMMA OrderStep == OrderInv /\ [Next]_vars => OrderInv'
<1> SUFFICES ASSUME OrderInv, [Next]_vars PROVE OrderInv'
  OBVIOUS
<1> TypeOK' /\ EventTypes
  BY TypeStep, Types DEF OrderInv
<1>1. CASE UNCHANGED <<alive, eventVars>>
  <2>1. Quiet'
    BY <1>1 DEF OrderInv, Quiet, eventVars
  <2>2. alive' => \A o \in Ons : InOrder(o)'
    BY <1>1 DEF OrderInv, InOrder, eventVars
  <2> QED BY <2>1, <2>2 DEF OrderInv
<1>2. CASE alive /\ EventStep
  <2>1. Quiet /\ \A o \in Ons : InOrder(o)
    BY <1>2 DEF OrderInv
  <2>2. ASSUME NEW o \in Ons, Off(o) PROVE Quiet' /\ \A p \in Ons : InOrder(p)'
    BY <2>1, <2>2 DEF Off, Quiet, InOrder
  <2>3. Quiet' /\ \A p \in Ons : InOrder(p)'
    BY <1>2, <2>1, <2>2, OrderOn, OrderReceive, OrderPublish DEF EventStep
  <2> QED BY <2>3 DEF OrderInv
<1>3. CASE Exit
  BY <1>3 DEF Exit, OrderInv, Quiet
<1> QED BY <1>1, <1>2, <1>3, NextCases, RequestFrame DEF vars

(* A listener gets what is emitted once it has subscribed, all of it, once *)
(* and in order (UnionBroker.subscribe and publish, Client.startWatch).    *)
THEOREM EventsKeepOrder == Spec => []EventsInOrder
<1>1. Init => OrderInv
  BY TypeInit DEF Init, OrderInv, Quiet, InOrder
<1>2. OrderInv => EventsInOrder
  BY DEF OrderInv, InOrder, EventsInOrder, Between
<1> QED BY <1>1, <1>2, OrderStep, PTL DEF Spec

--------------------------------------------------------------------------------
(***************************************************************************)
(* The promise                                                             *)
(***************************************************************************)

(* Requests on their way are those of calls that were made, and a payload  *)
(* that is to be answered was returned for what the call asks.             *)
HonestAnswers ==
  /\ \A m \in written \cup running \cup answers : key[m.call] # None
  /\ \A a \in answers : a.outcome \in Payloads => a.outcome \in computed[key[a.call]]

PromiseInv == TypeOK /\ HonestAnswers

LEMMA HonestStep == PromiseInv /\ [Next]_vars => HonestAnswers'
<1> SUFFICES ASSUME PromiseInv, [Next]_vars PROVE HonestAnswers'
  OBVIOUS
<1> CallTypes /\ NetTypes
  BY Types DEF PromiseInv
<1>1. ASSUME written' \subseteq written, running' \subseteq written \cup running,
             answers' \subseteq answers, UNCHANGED <<key, computed>>
      PROVE  HonestAnswers'
  BY <1>1 DEF PromiseInv, HonestAnswers
<1>2. ASSUME NEW c \in Calls, NEW k \in Keys, Request(c, k)
      PROVE  HonestAnswers'
  <2>1. /\ key' = [key EXCEPT ![c] = k] /\ k # None /\ key[c] = None
        /\ UNCHANGED <<running, answers, computed>>
    BY <1>2, NamesAssumption DEF Request, CallTypes
  <2>2. \A m \in written' : m \in written \/ m.call = c
    BY <1>2 DEF Request
  <2>3. \A d \in Calls : key[d] # None => key'[d] = key[d]
    BY <2>1 DEF CallTypes
  <2>4. key'[c] # None
    BY <2>1 DEF CallTypes
  <2> QED BY <2>1, <2>2, <2>3, <2>4 DEF PromiseInv, HonestAnswers, NetTypes, Sent
<1>3. ASSUME NEW r \in running, NEW v \in Payloads, Return(r, v)
      PROVE  HonestAnswers'
  <2>1. /\ UNCHANGED <<key, written>> /\ running' \subseteq running
        /\ computed' = [computed EXCEPT ![key[r.call]] = @ \cup {v}]
        /\ answers' = answers \cup {[call |-> r.call, outcome |-> v]}
    BY <1>3 DEF Return, callVars
  <2>2. r.call \in Calls /\ key[r.call] \in Keys
    BY DEF PromiseInv, HonestAnswers, CallTypes, NetTypes, Sent
  <2>3. v \in computed'[key[r.call]] /\ \A k \in Keys : computed[k] \subseteq computed'[k]
    BY <2>1, <2>2 DEF NetTypes
  <2>4. \A a \in answers : key[a.call] \in Keys
    BY DEF PromiseInv, HonestAnswers, CallTypes, NetTypes
  <2> QED BY <2>1, <2>2, <2>3, <2>4 DEF PromiseInv, HonestAnswers
<1>4. ASSUME NEW r \in running, Throw(r)
      PROVE  HonestAnswers'
  <2>1. "ServiceError" \notin Payloads
    BY NamesAssumption DEF Errors
  <2> QED BY <1>4, <2>1 DEF Throw, callVars, PromiseInv, HonestAnswers
<1>5. CASE RequestStep
  <2>1. ASSUME \/ \E s \in Servers : Start(s)
               \/ \E c \in Calls : Timeout(c)
               \/ \E m \in written : Handle(m)
               \/ \E a \in answers : Respond(a)
        PROVE  HonestAnswers'
    BY <1>1, <2>1 DEF Start, Timeout, Handle, Respond, callVars, netVars
  <2> QED BY <1>2, <1>3, <1>4, <1>5, <2>1 DEF RequestStep
<1>6. CASE EventStep
  BY <1>1, <1>6, EventFrame DEF callVars, netVars
<1>7. CASE Exit
  BY <1>1, <1>7 DEF Exit
<1>8. CASE UNCHANGED vars
  BY <1>1, <1>8 DEF vars, callVars, netVars
<1> QED BY <1>5, <1>6, <1>7, <1>8, NextCases

LEMMA PromiseRequest ==
  ASSUME CallTypes, NEW c \in Calls, NEW k \in Keys, Request(c, k)
  PROVE  Promise!Next
<1>1. pc[c] = "idle" /\ key' = [key EXCEPT ![c] = k] /\ UNCHANGED computed
  BY DEF Request
<1>2. CASE Settle(c, "rejected", "Refused")
  <2>1. Promise!Refuse(c, k, "Refused")
    BY <1>1, <1>2 DEF Promise!Refuse, Settle
  <2> QED BY <2>1 DEF Promise!Next, Errors
<1>3. CASE pc' = [pc EXCEPT ![c] = "pending"] /\ UNCHANGED result
  <2>1. Promise!Ask(c, k)
    BY <1>1, <1>3 DEF Promise!Ask
  <2> QED BY <2>1 DEF Promise!Next
<1> QED BY <1>2, <1>3 DEF Request

LEMMA PromiseRespond ==
  ASSUME PromiseInv, NEW a \in answers, Respond(a)
  PROVE  Promise!Next \/ UNCHANGED Promise!promiseVars
<1> CallTypes /\ NetTypes
  BY Types DEF PromiseInv
<1>1. a.call \in Calls /\ a.outcome \in Payloads \cup {"ServiceError"}
      /\ UNCHANGED <<key, computed>>
  BY DEF Respond, NetTypes
<1>2. CASE UNCHANGED <<pc, result>>
  BY <1>1, <1>2 DEF Promise!promiseVars
<1>3. CASE pc[a.call] = "pending" /\ Settle(a.call, "rejected", "ServiceError")
  <2>1. Promise!Reject(a.call, "ServiceError")
    BY <1>1, <1>3 DEF Promise!Reject, Settle
  <2> QED BY <1>1, <2>1 DEF Promise!Next, Errors
<1>4. CASE /\ pc[a.call] = "pending" /\ a.outcome \in Payloads
           /\ Settle(a.call, "resolved", a.outcome)
  <2>1. a.outcome \in computed[key[a.call]]
    BY <1>4 DEF PromiseInv, HonestAnswers
  <2>2. Promise!Resolve(a.call)
    BY <1>1, <1>4, <2>1 DEF Promise!Resolve, Settle
  <2> QED BY <1>1, <2>2 DEF Promise!Next
<1>5. ASSUME NEW outcome \in {a.outcome, "ServiceError"}, Emit(a.call, outcome)
      PROVE  \/ UNCHANGED <<pc, result>>
             \/ /\ pc[a.call] = "pending"
                /\ Settle(a.call, IF outcome = "ServiceError" THEN "rejected"
                                  ELSE "resolved", outcome)
  BY <1>5 DEF Emit, Awaited
<1> QED BY <1>1, <1>2, <1>3, <1>4, <1>5 DEF Respond

LEMMA PromiseStep == PromiseInv /\ [Next]_vars => [Promise!Next]_(Promise!promiseVars)
<1> SUFFICES ASSUME PromiseInv, [Next]_vars
             PROVE  Promise!Next \/ UNCHANGED Promise!promiseVars
  OBVIOUS
<1> CallTypes /\ NetTypes
  BY Types DEF PromiseInv
<1>1. CASE UNCHANGED <<pc, key, result, computed>>
  BY <1>1 DEF Promise!promiseVars
<1>2. ASSUME NEW c \in Calls, Timeout(c)
      PROVE  Promise!Next
  <2>1. Promise!Reject(c, "BrokerTimeout")
    BY <1>2 DEF Timeout, Promise!Reject, Settle, netVars
  <2> QED BY <2>1 DEF Promise!Next, Errors
<1>3. ASSUME NEW r \in running, NEW v \in Payloads, Return(r, v)
      PROVE  Promise!Next
  <2>1. key[r.call] \in Keys
    BY DEF PromiseInv, HonestAnswers, CallTypes, NetTypes, Sent
  <2>2. Promise!Compute(key[r.call], v)
    BY <1>3 DEF Return, Promise!Compute, callVars
  <2> QED BY <2>1, <2>2 DEF Promise!Next
<1>4. CASE RequestStep
  <2>1. ASSUME \/ \E s \in Servers : Start(s)
               \/ \E m \in written : Handle(m)
               \/ \E r \in running : Throw(r)
        PROVE  UNCHANGED <<pc, key, result, computed>>
    BY <2>1 DEF Start, Handle, Throw, callVars, netVars
  <2> QED BY <1>1, <1>2, <1>3, <1>4, <2>1, PromiseRequest, PromiseRespond DEF RequestStep
<1>5. CASE EventStep
  BY <1>1, <1>5, EventFrame DEF callVars, netVars
<1>6. CASE Exit
  <2>1. Promise!Lose(Gone)
    BY <1>6 DEF Exit, Gone, Promise!Lose
  <2> QED BY <2>1 DEF Promise!Next, Gone
<1>7. CASE UNCHANGED vars
  BY <1>1, <1>7 DEF vars, callVars, netVars
<1> QED BY <1>4, <1>5, <1>6, <1>7, NextCases

(* The monolith keeps the promise that the services keep over NATS: a call *)
(* is asked once, settles once and for ever, and with a value only if the  *)
(* service returned it for what was asked (UnionBroker.request, subscribe).*)
THEOREM KeepsPromise == Spec => Promise!Safety
<1>1. Init => PromiseInv /\ Promise!Init
  BY TypeInit DEF Init, PromiseInv, HonestAnswers, Promise!Init
<1>2. PromiseInv /\ [Next]_vars => PromiseInv'
  BY TypeStep, HonestStep DEF PromiseInv
<1> QED BY <1>1, <1>2, PromiseStep, PTL DEF Spec, Promise!Safety

================================================================================

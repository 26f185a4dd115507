----------------------------- MODULE ListenerProofs -----------------------------
(***************************************************************************)
(* Proofs about Listener, for any clients, listeners, events, calls of on  *)
(* and messages.                                                           *)
(***************************************************************************)
EXTENDS Listener, FiniteSetTheorems, TLAPS

LEMMA NextCases ==
  ASSUME [Next]_vars
  PROVE  \/ \E s \in Subs, l \in Listeners, e \in Events : On(s, l, e)
         \/ \E s \in Subs : \/ AddConsumer(s)
                            \/ CreateConsumerResolves(s)
                            \/ CreateConsumerRejects(s)
                            \/ Off(s)
                            \/ Fetch(s)
                            \/ Receive(s)
         \/ \E m \in Messages, e \in Events : Publish(m, e)
         \/ \E p \in inbox : Lose(p)
         \/ \E m \in Messages : Redeliver(m)
         \/ \E h \in Subs, m \in Messages : Ack(h, m)
         \/ \E c \in Clients : Exit(c)
         \/ UNCHANGED vars
BY DEF Next

--------------------------------------------------------------------------------
(***************************************************************************)
(* Types                                                                   *)
(***************************************************************************)

States == {"unused", "creating", "open", "closing", "closed", "failed", "dead"}

SubTypes ==
  /\ policy \in [Listeners -> Policy]
  /\ state \in [Subs -> States]
  /\ listener \in [Subs -> Listeners \cup {None}]
  /\ event \in [Subs -> Events \cup {None}]
  /\ subscriptions \in [Slots -> Subs \cup {None}]
  /\ handlers \subseteq Subs
  /\ untidy \subseteq Slots

(* What the Map has is open, and was made for that entry of the Map.       *)
Mapped ==
  \A x \in Slots : subscriptions[x] # None =>
    state[subscriptions[x]] = "open" /\ Slot(subscriptions[x]) = x

(* A call of on that was made has a listener and an event; no other has a  *)
(* handler.                                                                *)
Used ==
  \A s \in Subs :
    /\ state[s] # "unused" => listener[s] \in Listeners /\ event[s] \in Events
    /\ s \in handlers => state[s] # "unused"

SubInv == SubTypes /\ Mapped /\ Used

LEMMA SlotType ==
  ASSUME SubInv, NEW s \in Subs, state[s] # "unused"
  PROVE  /\ Slot(s) \in Slots
         /\ listener[s] \in Listeners /\ event[s] \in Events
         /\ Slot(s) = <<ClientOf[listener[s]], event[s]>>
         /\ Slot(s)[1] = ClientOf[listener[s]]
<1>1. listener[s] \in Listeners /\ event[s] \in Events
  BY DEF SubInv, Used
<1>2. ClientOf[listener[s]] \in Clients
  BY <1>1, ListenersAssumption
<1> QED BY <1>1, <1>2 DEF Slot, Slots

(* What on is called for.                                                  *)
LEMMA OnSlot ==
  ASSUME NEW l \in Listeners, NEW e \in Events
  PROVE  <<ClientOf[l], e>> \in Slots
BY ListenersAssumption DEF Slots

(* The listener and event of a call of on that was made stay.              *)
LEMMA UsedStays ==
  ASSUME SubInv, [Next]_vars, NEW s \in Subs, state[s] # "unused"
  PROVE  /\ listener'[s] = listener[s] /\ event'[s] = event[s]
         /\ Slot(s)' = Slot(s)
         /\ state'[s] # "unused"
<1>1. SubTypes
  BY DEF SubInv
<1>2. ASSUME NEW t \in Subs, NEW l \in Listeners, NEW e \in Events, On(t, l, e)
      PROVE  listener'[s] = listener[s] /\ event'[s] = event[s] /\ state'[s] # "unused"
  <2>1. t # s
    BY <1>2 DEF On
  <2> QED BY <1>1, <1>2, <2>1 DEF On, Opened, SubTypes
<1>3. ASSUME UNCHANGED <<listener, event>>, state'[s] # "unused"
      PROVE  listener'[s] = listener[s] /\ event'[s] = event[s] /\ state'[s] # "unused"
  BY <1>3
<1>4. ASSUME NEW t \in Subs, CreateConsumerResolves(t) \/ CreateConsumerRejects(t)
      PROVE  UNCHANGED <<listener, event>> /\ state'[s] # "unused"
  BY <1>1, <1>4 DEF CreateConsumerResolves, CreateConsumerRejects, Opened, SubTypes
<1>5. ASSUME NEW t \in Subs, Off(t)
      PROVE  UNCHANGED <<listener, event>> /\ state'[s] # "unused"
  BY <1>1, <1>5 DEF Off, Unsubscribed, SubTypes
<1>6. ASSUME NEW t \in Subs, Receive(t)
      PROVE  UNCHANGED <<listener, event>> /\ state'[s] # "unused"
  BY <1>1, <1>6 DEF Receive, Ended, SubTypes
<1>7. ASSUME NEW c \in Clients, Exit(c)
      PROVE  UNCHANGED <<listener, event>> /\ state'[s] # "unused"
  BY <1>1, <1>7 DEF Exit, SubTypes
<1>8. ASSUME UNCHANGED subVars
      PROVE  UNCHANGED <<listener, event>> /\ state'[s] # "unused"
  BY <1>8 DEF subVars
<1>9. listener'[s] = listener[s] /\ event'[s] = event[s] /\ state'[s] # "unused"
  BY <1>2, <1>3, <1>4, <1>5, <1>6, <1>7, <1>8, NextCases
     DEF AddConsumer, Fetch, Publish, Lose, Redeliver, Ack, vars
<1> QED BY <1>9 DEF Slot

LEMMA NoSub == \A s \in Subs : s # None
BY NoneAssumption

LEMMA SubTypesStep ==
  ASSUME SubInv, [Next]_vars
  PROVE  SubTypes'
<1>1. SubTypes
  BY DEF SubInv
<1>2. \A x \in {"creating", "open", "closing", "closed", "failed", "dead"} : x \in States
  BY DEF States
<1> HIDE DEF States
<1>3. ASSUME NEW s \in Subs, NEW l \in Listeners, NEW e \in Events, On(s, l, e)
      PROVE  SubTypes'
  BY <1>1, <1>2, <1>3, OnSlot DEF On, Opened, SubTypes
<1>4. ASSUME NEW s \in Subs, CreateConsumerResolves(s) PROVE SubTypes'
  <2>1. state[s] # "unused"
    BY <1>4 DEF CreateConsumerResolves
  <2> QED BY <1>1, <1>2, <1>4, <2>1, SlotType DEF CreateConsumerResolves, Opened, SubTypes
<1>5. ASSUME NEW s \in Subs, CreateConsumerRejects(s) PROVE SubTypes'
  BY <1>1, <1>2, <1>5 DEF CreateConsumerRejects, SubTypes
<1>6. ASSUME NEW s \in Subs, Off(s) PROVE SubTypes'
  <2>1. Slot(s) \in Slots
    BY <1>6, SlotType DEF Off
  <2>2. \A t : Unsubscribed(t) \in States
    BY <1>2 DEF Unsubscribed
  <2>3. untidy' \subseteq Slots
    BY <1>1, <1>6, <2>1 DEF Off, SubTypes
  <2>4. handlers' \subseteq Subs /\ UNCHANGED <<policy, listener, event>>
    BY <1>1, <1>6 DEF Off, SubTypes
  <2>5. /\ subscriptions' \in [Slots -> Subs \cup {None}]
        /\ state' \in [Subs -> States]
    BY <1>1, <1>6, <2>1, <2>2 DEF Off, Forget, SubTypes
  <2> QED BY <1>1, <2>3, <2>4, <2>5 DEF SubTypes
<1>7. ASSUME NEW s \in Subs, Receive(s) PROVE SubTypes'
  BY <1>1, <1>2, <1>7 DEF Receive, Ended, SubTypes
<1>8. ASSUME NEW c \in Clients, Exit(c) PROVE SubTypes'
  BY <1>1, <1>2, <1>8 DEF Exit, SubTypes
<1>9. CASE UNCHANGED <<subVars, untidy>>
  BY <1>1, <1>9 DEF subVars, SubTypes
<1> QED BY <1>3, <1>4, <1>5, <1>6, <1>7, <1>8, <1>9, NextCases
        DEF AddConsumer, Fetch, Publish, Lose, Redeliver, Ack, vars

(* Only on makes a call of on.                                             *)
LEMMA UnusedStays ==
  ASSUME SubInv, [Next]_vars, NEW s \in Subs, state[s] = "unused"
  PROVE  \/ \E l \in Listeners, e \in Events : On(s, l, e)
         \/ state'[s] = "unused" /\ s \notin handlers'
<1>1. SubTypes /\ s \notin handlers
  BY DEF SubInv, Used
<1>2. ASSUME NEW t \in Subs, t # s, NEW l \in Listeners, NEW e \in Events, On(t, l, e)
      PROVE  state'[s] = "unused" /\ s \notin handlers'
  BY <1>1, <1>2 DEF On, Opened, SubTypes
<1>3. ASSUME NEW t \in Subs, CreateConsumerResolves(t) \/ CreateConsumerRejects(t)
      PROVE  state'[s] = "unused" /\ s \notin handlers'
  BY <1>1, <1>3 DEF CreateConsumerResolves, CreateConsumerRejects, Opened, SubTypes
<1>4. ASSUME NEW t \in Subs, Off(t) PROVE state'[s] = "unused" /\ s \notin handlers'
  <2>1. Slot(t) \in Slots
    BY <1>4, SlotType DEF Off
  <2>2. subscriptions[Slot(t)] # s
    BY <2>1, NoSub DEF SubInv, Mapped
  <2> QED BY <1>1, <1>4, <2>2 DEF Off, SubTypes
<1>5. ASSUME NEW t \in Subs, Receive(t) PROVE state'[s] = "unused" /\ s \notin handlers'
  BY <1>1, <1>5 DEF Receive, Ended, Done, SubTypes
<1>6. ASSUME NEW c \in Clients, Exit(c) PROVE state'[s] = "unused" /\ s \notin handlers'
  BY <1>1, <1>6 DEF Exit, SubTypes
<1>7. ASSUME UNCHANGED subVars PROVE state'[s] = "unused" /\ s \notin handlers'
  BY <1>1, <1>7 DEF subVars
<1> QED BY <1>2, <1>3, <1>4, <1>5, <1>6, <1>7, NextCases
        DEF AddConsumer, Fetch, Publish, Lose, Redeliver, Ack, vars

LEMMA UsedStep ==
  ASSUME SubInv, [Next]_vars
  PROVE  Used'
<1> SUFFICES ASSUME NEW s \in Subs
             PROVE  /\ state'[s] # "unused" => listener'[s] \in Listeners /\ event'[s] \in Events
                    /\ s \in handlers' => state'[s] # "unused"
  BY DEF Used
<1>1. CASE state[s] # "unused"
  BY <1>1, UsedStays DEF SubInv, Used
<1>2. ASSUME NEW l \in Listeners, NEW e \in Events, On(s, l, e)
      PROVE  /\ listener'[s] \in Listeners /\ event'[s] \in Events
             /\ state'[s] # "unused"
  BY <1>2 DEF On, Opened, SubInv, SubTypes
<1> QED BY <1>1, <1>2, UnusedStays

(* The slot of the call of on that is opened.                              *)
LEMMA OnSlotIs ==
  ASSUME SubInv, NEW s \in Subs, NEW l \in Listeners, NEW e \in Events, On(s, l, e)
  PROVE  /\ Slot(s)' = <<ClientOf[l], e>> /\ Slot(s)' \in Slots
         /\ state[s] = "unused"
<1>1. listener'[s] = l /\ event'[s] = e
  BY DEF On, SubInv, SubTypes
<1> QED BY <1>1, OnSlot DEF Slot, On

LEMMA MappedStep ==
  ASSUME SubInv, [Next]_vars
  PROVE  Mapped'
<1> SUFFICES ASSUME NEW x \in Slots, subscriptions'[x] # None
             PROVE  \E s \in Subs : s = subscriptions'[x] /\ state'[s] = "open" /\ Slot(s)' = x
  BY DEF Mapped, Slot
<1> DEFINE Goal == \E s \in Subs : s = subscriptions'[x] /\ state'[s] = "open" /\ Slot(s)' = x
<1>1. SubTypes
  BY DEF SubInv
<1>2. ASSUME subscriptions'[x] = subscriptions[x],
             state'[subscriptions[x]] = state[subscriptions[x]]
      PROVE  Goal
  <2>1. PICK s \in Subs : s = subscriptions[x] /\ state[s] = "open" /\ Slot(s) = x
    BY <1>1, <1>2 DEF SubInv, Mapped, SubTypes
  <2>2. Slot(s)' = Slot(s)
    BY <2>1, UsedStays
  <2> QED BY <1>2, <2>1, <2>2
<1>3. ASSUME NEW s \in Subs, Opened(s, x), Slot(s)' = x PROVE Goal
  BY <1>1, <1>3 DEF Opened, SubTypes
<1>4. ASSUME NEW s \in Subs, NEW y \in Slots, Opened(s, y), Slot(s)' = y,
             state[s] \in {"unused", "creating"}
      PROVE  Goal
  <2>1. CASE x = y
    BY <1>3, <1>4, <2>1
  <2>2. CASE x # y
    <3>1. subscriptions'[x] = subscriptions[x]
      BY <1>1, <1>4, <2>2 DEF Opened, SubTypes
    <3>2. subscriptions[x] # s
      BY <1>4, <3>1 DEF SubInv, Mapped
    <3> QED BY <1>1, <1>2, <1>4, <3>1, <3>2 DEF Opened, SubTypes
  <2> QED BY <2>1, <2>2
<1>5. ASSUME NEW s \in Subs, NEW l \in Listeners, NEW e \in Events, On(s, l, e) PROVE Goal
  <2>1. /\ Slot(s)' = <<ClientOf[l], e>> /\ Slot(s)' \in Slots
        /\ state[s] = "unused"
    BY <1>5, OnSlotIs
  <2>2. CASE Opened(s, <<ClientOf[l], e>>)
    BY <1>4, <2>1, <2>2
  <2>3. CASE /\ state' = [state EXCEPT ![s] = "creating"]
             /\ UNCHANGED subscriptions
    <3>1. subscriptions[x] # s
      BY <2>1, <2>3 DEF SubInv, Mapped
    <3> QED BY <1>1, <1>2, <2>3, <3>1 DEF SubTypes
  <2> QED BY <1>5, <2>2, <2>3 DEF On
<1>6. ASSUME NEW s \in Subs, CreateConsumerResolves(s) PROVE Goal
  <2>1. state[s] = "creating" /\ Opened(s, Slot(s))
    BY <1>6 DEF CreateConsumerResolves
  <2>2. Slot(s)' = Slot(s) /\ Slot(s) \in Slots
    BY <2>1, SlotType, UsedStays
  <2> QED BY <1>4, <2>1, <2>2
<1>7. ASSUME NEW s \in Subs, CreateConsumerRejects(s) PROVE Goal
  <2>1. subscriptions[x] # s
    BY <1>7 DEF SubInv, Mapped, CreateConsumerRejects
  <2> QED BY <1>1, <1>2, <1>7, <2>1 DEF CreateConsumerRejects, SubTypes
<1>8. ASSUME NEW s \in Subs, Off(s) PROVE Goal
  <2>1. Slot(s) \in Slots
    BY <1>8, SlotType DEF Off
  <2>2. CASE UNCHANGED <<state, subscriptions>>
    BY <1>2, <2>2
  <2>3. CASE /\ subscriptions[Slot(s)] # None
             /\ state' = [state EXCEPT ![subscriptions[Slot(s)]] = Unsubscribed(subscriptions[Slot(s)])]
             /\ Forget(Slot(s))
    <3>1. x # Slot(s) /\ subscriptions'[x] = subscriptions[x]
      BY <1>1, <2>1, <2>3 DEF Forget, SubTypes
    <3>2. subscriptions[x] # subscriptions[Slot(s)]
      BY <2>1, <2>3, <3>1 DEF SubInv, Mapped
    <3>3. state'[subscriptions[x]] = state[subscriptions[x]]
      BY <1>1, <2>3, <3>1, <3>2 DEF SubTypes
    <3> QED BY <1>2, <3>1, <3>3
  <2> QED BY <1>8, <2>2, <2>3 DEF Off
<1>9. ASSUME NEW s \in Subs, Receive(s) PROVE Goal
  <2>1. CASE UNCHANGED state
    BY <1>2, <1>9, <2>1 DEF Receive
  <2>2. CASE Done(s) /\ Ended(s)
    <3>1. subscriptions' = subscriptions /\ subscriptions[x] # s
      BY <1>9, <2>2 DEF Receive, Done, SubInv, Mapped
    <3> QED BY <1>1, <1>2, <2>2, <3>1 DEF Ended, SubTypes
  <2> QED BY <1>9, <2>1, <2>2 DEF Receive
<1>10. ASSUME NEW c \in Clients, Exit(c) PROVE Goal
  <2>1. x[1] # c /\ subscriptions'[x] = subscriptions[x]
    BY <1>1, <1>10 DEF Exit, SubTypes
  <2>2. /\ subscriptions[x] \in Subs
        /\ state[subscriptions[x]] = "open" /\ Slot(subscriptions[x]) = x
    BY <1>1, <2>1 DEF SubInv, Mapped, SubTypes
  <2>3. ClientOf[listener[subscriptions[x]]] # c
    BY <2>1, <2>2, SlotType
  <2>4. state'[subscriptions[x]] = state[subscriptions[x]]
    BY <1>1, <1>10, <2>2, <2>3 DEF Exit, SubTypes
  <2> QED BY <1>2, <2>1, <2>4
<1>11. CASE UNCHANGED <<state, subscriptions>>
  BY <1>2, <1>11
<1> QED BY <1>5, <1>6, <1>7, <1>8, <1>9, <1>10, <1>11, NextCases
        DEF AddConsumer, Fetch, Publish, Lose, Redeliver, Ack, subVars, vars

LEMMA SubInvariant == Spec => []SubInv
<1>1. Init => SubInv
  BY DEF Init, SubInv, SubTypes, Mapped, Used, States
<1>2. SubInv /\ [Next]_vars => SubInv'
  BY SubTypesStep, MappedStep, UsedStep DEF SubInv
<1> QED BY <1>1, <1>2, PTL DEF Spec

--------------------------------------------------------------------------------
(***************************************************************************)
(* Taking turns                                                            *)
(***************************************************************************)

LEMMA UntidyGrows ==
  ASSUME [Next]_vars
  PROVE  untidy \subseteq untidy'
BY NextCases
   DEF On, AddConsumer, CreateConsumerResolves, CreateConsumerRejects, Off, Fetch, Receive,
       Publish, Lose, Redeliver, Ack, Exit, vars

(* A call of on that waits for its consumer is the only one to have to do  *)
(* with its entry of the Map, if its listeners take turns.                 *)
CreatingAlone ==
  \A s \in Subs : state[s] = "creating" /\ Slot(s) \notin untidy =>
    /\ subscriptions[Slot(s)] = None
    /\ \A t \in Subs : state[t] = "creating" /\ Slot(t) = Slot(s) => t = s

(* on, called in turn, finds its entry of the Map free.                    *)
LEMMA OnInTurn ==
  ASSUME SubInv, NEW s \in Subs, NEW l \in Listeners, NEW e \in Events, On(s, l, e),
         <<ClientOf[l], e>> \notin untidy'
  PROVE  subscriptions[<<ClientOf[l], e>>] = None /\ ~Creating(<<ClientOf[l], e>>)
BY DEF On

(* What Opened does to the calls of on and entries of the Map.             *)
LEMMA OpenedEffect ==
  ASSUME SubTypes, NEW s \in Subs, NEW x \in Slots, Opened(s, x)
  PROVE  /\ state'[s] = "open" /\ s \in handlers' /\ subscriptions'[x] = s
         /\ \A t \in Subs \ {s} : state'[t] = state[t] /\ (t \in handlers' <=> t \in handlers)
         /\ \A y \in Slots \ {x} : subscriptions'[y] = subscriptions[y]
BY DEF Opened, SubTypes

(* off, called in turn, with its own handler.                              *)
LEMMA OffInTurn ==
  ASSUME SubInv, NEW h \in Subs, Off(h), Slot(h) \notin untidy'
  PROVE  /\ Slot(h) \in Slots
         /\ \/ /\ subscriptions[Slot(h)] = None
               /\ UNCHANGED <<state, subscriptions>> /\ handlers' = handlers \ {h}
            \/ /\ subscriptions[Slot(h)] = h
               /\ state' = [state EXCEPT ![h] = Unsubscribed(h)]
               /\ Forget(Slot(h)) /\ handlers' = handlers \ {h}
         /\ ~Creating(Slot(h))
<1>1. Slot(h) \in Slots
  BY SlotType DEF Off
<1> QED BY <1>1 DEF Off

LEMMA TidyStep ==
  ASSUME SubInv, CreatingAlone, TakingTurnsIsTidy, [Next]_vars
  PROVE  TakingTurnsIsTidy'
<1> SUFFICES ASSUME NEW s \in Subs, NEW x, x = Slot(s)', state'[s] # "unused", x \notin untidy'
             PROVE  /\ state'[s] = "open" <=> s \in handlers'
                    /\ state'[s] = "open" <=> subscriptions'[x] = s
  BY DEF TakingTurnsIsTidy, Slot
<1> DEFINE Goal == /\ state'[s] = "open" <=> s \in handlers'
                   /\ state'[s] = "open" <=> subscriptions'[x] = s
<1>1. SubTypes
  BY DEF SubInv
<1>2. ASSUME NEW l \in Listeners, NEW e \in Events, On(s, l, e) PROVE Goal
  <2>1. x = <<ClientOf[l], e>> /\ x \in Slots /\ state[s] = "unused"
    BY <1>2, OnSlotIs
  <2>2. subscriptions[x] = None /\ s \notin handlers
    BY <1>2, <2>1, OnInTurn DEF SubInv, Used
  <2> QED BY <1>1, <1>2, <2>1, <2>2, NoSub, OpenedEffect DEF On, SubTypes
<1>3. CASE state[s] # "unused"
  <2>1. /\ x = Slot(s) /\ x \in Slots /\ x \notin untidy
        /\ x[1] = ClientOf[listener[s]]
    BY <1>3, UsedStays, SlotType, UntidyGrows
  <2>2. /\ state[s] = "open" <=> s \in handlers
        /\ state[s] = "open" <=> subscriptions[x] = s
    BY <1>3, <2>1 DEF TakingTurnsIsTidy
  <2>3. ASSUME NEW t \in Subs, NEW y \in Slots, Opened(t, y), t # s,
               y = x => subscriptions[x] = None
        PROVE  Goal
    BY <1>1, <2>1, <2>2, <2>3, OpenedEffect, NoSub
  <2>4. ASSUME NEW t \in Subs, NEW l \in Listeners, NEW e \in Events, On(t, l, e)
        PROVE  Goal
    <3>1. t # s /\ <<ClientOf[l], e>> \in Slots
      BY <1>3, <2>4, OnSlot DEF On
    <3>2. <<ClientOf[l], e>> = x => subscriptions[x] = None
      BY <2>4, OnInTurn
    <3>3. CASE Opened(t, <<ClientOf[l], e>>)
      BY <2>3, <3>1, <3>2, <3>3
    <3>4. CASE /\ state' = [state EXCEPT ![t] = "creating"]
               /\ UNCHANGED <<subscriptions, handlers>>
      BY <1>1, <2>2, <3>1, <3>4 DEF SubTypes
    <3> QED BY <2>4, <3>3, <3>4 DEF On
  <2>5. ASSUME NEW t \in Subs, CreateConsumerResolves(t) PROVE Goal
    <3>1. state[t] = "creating" /\ Opened(t, Slot(t)) /\ Slot(t) \in Slots
      BY <2>5, SlotType DEF CreateConsumerResolves
    <3>2. CASE t = s
      BY <1>1, <2>1, <3>1, <3>2, OpenedEffect
    <3>3. CASE t # s
      <4>1. Slot(t) = x => subscriptions[x] = None
        BY <2>1, <3>1 DEF CreatingAlone
      <4> QED BY <2>3, <3>1, <3>3, <4>1
    <3> QED BY <3>2, <3>3
  <2>6. ASSUME NEW t \in Subs, CreateConsumerRejects(t) PROVE Goal
    BY <1>1, <2>2, <2>6 DEF CreateConsumerRejects, SubTypes
  <2>7. ASSUME NEW h \in Subs, Off(h) PROVE Goal
    <3>1. CASE Slot(h) = x
      <4>1. \/ /\ subscriptions[x] = None
               /\ UNCHANGED <<state, subscriptions>> /\ handlers' = handlers \ {h}
            \/ /\ subscriptions[x] = h
               /\ state' = [state EXCEPT ![h] = Unsubscribed(h)]
               /\ Forget(x) /\ handlers' = handlers \ {h}
        BY <2>7, <3>1, OffInTurn
      <4>2. \A t : Unsubscribed(t) # "open"
        BY DEF Unsubscribed
      <4> QED BY <1>1, <2>1, <2>2, <4>1, <4>2, NoSub DEF Forget, SubTypes
    <3>2. CASE Slot(h) # x
      <4>1. h # s /\ Slot(h) \in Slots
        BY <2>1, <2>7, <3>2, SlotType DEF Off
      <4>2. subscriptions[Slot(h)] # s
        BY <2>1, <3>2, <4>1, NoSub DEF SubInv, Mapped
      <4>3. state'[s] = state[s] /\ subscriptions'[x] = subscriptions[x]
        BY <1>1, <2>1, <2>7, <3>2, <4>1, <4>2 DEF Off, Forget, SubTypes
      <4>4. s \in handlers' <=> s \in handlers
        BY <2>7, <4>1 DEF Off
      <4> QED BY <2>2, <4>3, <4>4
    <3> QED BY <3>1, <3>2
  <2>8. ASSUME NEW t \in Subs, Receive(t) PROVE Goal
    BY <1>1, <2>2, <2>8 DEF Receive, Ended, Done, SubTypes
  <2>9. ASSUME NEW c \in Clients, Exit(c) PROVE Goal
    BY <1>1, <1>3, <2>1, <2>2, <2>9, NoSub DEF Exit, SubTypes
  <2>10. ASSUME UNCHANGED subVars PROVE Goal
    BY <2>2, <2>10 DEF subVars
  <2> QED BY <2>4, <2>5, <2>6, <2>7, <2>8, <2>9, <2>10, NextCases
          DEF AddConsumer, Fetch, Publish, Lose, Redeliver, Ack, vars
<1> QED BY <1>2, <1>3, UnusedStays

(* Calls of on wait for their consumers from the moment they are made.     *)
LEMMA CreatingBefore ==
  ASSUME SubInv, [Next]_vars, NEW s \in Subs, state'[s] = "creating"
  PROVE  \/ state[s] = "creating"
         \/ \E l \in Listeners, e \in Events : On(s, l, e)
<1>1. SubTypes
  BY DEF SubInv
<1>2. ASSUME NEW t \in Subs, NEW l \in Listeners, NEW e \in Events, On(t, l, e), t # s
      PROVE  state[s] = "creating"
  BY <1>1, <1>2 DEF On, Opened, SubTypes
<1>3. ASSUME NEW t \in Subs, CreateConsumerResolves(t) \/ CreateConsumerRejects(t) \/ Receive(t)
      PROVE  state[s] = "creating"
  BY <1>1, <1>3 DEF CreateConsumerResolves, CreateConsumerRejects, Opened, Receive, Ended, SubTypes
<1>4. ASSUME NEW t \in Subs, Off(t) PROVE state[s] = "creating"
  BY <1>1, <1>4 DEF Off, Unsubscribed, SubTypes
<1>5. ASSUME NEW c \in Clients, Exit(c) PROVE state[s] = "creating"
  BY <1>1, <1>5 DEF Exit, SubTypes
<1>6. ASSUME UNCHANGED subVars PROVE state[s] = "creating"
  BY <1>6 DEF subVars
<1> QED BY <1>2, <1>3, <1>4, <1>5, <1>6, NextCases
        DEF AddConsumer, Fetch, Publish, Lose, Redeliver, Ack, vars

LEMMA CreatingAloneStep ==
  ASSUME SubInv, CreatingAlone, [Next]_vars
  PROVE  CreatingAlone'
<1> SUFFICES ASSUME NEW s \in Subs, NEW x, x = Slot(s)', state'[s] = "creating", x \notin untidy'
             PROVE  /\ subscriptions'[x] = None
                    /\ \A t \in Subs : state'[t] = "creating" /\ Slot(t)' = x => t = s
  BY DEF CreatingAlone, Slot
<1>1. SubTypes
  BY DEF SubInv
<1>2. ASSUME NEW l \in Listeners, NEW e \in Events, On(s, l, e)
      PROVE  /\ subscriptions'[x] = None
             /\ \A t \in Subs : state'[t] = "creating" /\ Slot(t)' = x => t = s
  <2>1. x = <<ClientOf[l], e>> /\ x \in Slots /\ state[s] = "unused"
    BY <1>2, OnSlotIs
  <2>2. subscriptions[x] = None /\ ~Creating(x)
    BY <1>2, <2>1, OnInTurn
  <2>3. ~Opened(s, x)
    BY <1>1, <2>1, OpenedEffect
  <2>4. UNCHANGED subscriptions
    BY <1>2, <2>1, <2>3 DEF On
  <2>5. ASSUME NEW t \in Subs, t # s, state'[t] = "creating", Slot(t)' = x PROVE FALSE
    <3>1. state[t] = "creating"
      BY <1>1, <1>2, <2>1, <2>3, <2>5 DEF On, SubTypes
    <3>2. Slot(t) = x
      BY <2>5, <3>1, UsedStays
    <3> QED BY <2>2, <3>1, <3>2 DEF Creating
  <2> QED BY <2>2, <2>4, <2>5
<1>3. CASE state[s] = "creating"
  <2>1. x = Slot(s) /\ x \in Slots /\ x \notin untidy
    BY <1>3, UsedStays, SlotType, UntidyGrows
  <2>2. /\ subscriptions[x] = None
        /\ \A t \in Subs : state[t] = "creating" /\ Slot(t) = x => t = s
    BY <1>3, <2>1 DEF CreatingAlone
  <2>3. ASSUME NEW t \in Subs, NEW l \in Listeners, NEW e \in Events, On(t, l, e)
        PROVE  <<ClientOf[l], e>> # x
    BY <1>3, <2>1, <2>3, OnInTurn DEF Creating
  <2>4. ASSUME NEW t \in Subs, state'[t] = "creating", Slot(t)' = x PROVE t = s
    <3>1. CASE state[t] = "creating"
      BY <2>2, <2>4, <3>1, UsedStays
    <3>2. ASSUME NEW l \in Listeners, NEW e \in Events, On(t, l, e) PROVE FALSE
      BY <2>3, <2>4, <3>2, OnSlotIs
    <3> QED BY <2>4, <3>1, <3>2, CreatingBefore
  <2>5. subscriptions'[x] = None
    <3>1. ASSUME NEW t \in Subs, NEW l \in Listeners, NEW e \in Events, On(t, l, e)
          PROVE  subscriptions'[x] = None
      <4>1. <<ClientOf[l], e>> # x /\ <<ClientOf[l], e>> \in Slots
        BY <2>3, <3>1, OnSlot
      <4>2. CASE Opened(t, <<ClientOf[l], e>>)
        BY <1>1, <2>1, <2>2, <4>1, <4>2, OpenedEffect
      <4>3. CASE UNCHANGED subscriptions
        BY <2>2, <4>3
      <4> QED BY <3>1, <4>2, <4>3 DEF On
    <3>2. ASSUME NEW t \in Subs, CreateConsumerResolves(t) PROVE subscriptions'[x] = None
      <4>1. state[t] = "creating" /\ Opened(t, Slot(t)) /\ Slot(t) \in Slots
        BY <3>2, SlotType DEF CreateConsumerResolves
      <4>2. t # s
        BY <1>1, <4>1, OpenedEffect
      <4> QED BY <1>1, <2>1, <2>2, <4>1, <4>2, OpenedEffect
    <3>3. ASSUME NEW t \in Subs, Off(t) PROVE subscriptions'[x] = None
      <4>1. Slot(t) \in Slots
        BY <3>3, SlotType DEF Off
      <4> QED BY <1>1, <2>1, <2>2, <3>3, <4>1 DEF Off, Forget, SubTypes
    <3>4. ASSUME NEW c \in Clients, Exit(c) PROVE subscriptions'[x] = None
      BY <2>1, <2>2, <3>4 DEF Exit
    <3>5. ASSUME UNCHANGED subscriptions PROVE subscriptions'[x] = None
      BY <2>2, <3>5
    <3> QED BY <3>1, <3>2, <3>3, <3>4, <3>5, NextCases
            DEF AddConsumer, CreateConsumerRejects, Fetch, Receive, Publish, Lose, Redeliver,
                Ack, subVars, vars
  <2> QED BY <2>4, <2>5
<1> QED BY <1>2, <1>3, CreatingBefore

LEMMA TurnsInvariant == Spec => [](SubInv /\ CreatingAlone /\ TakingTurnsIsTidy)
<1>1. Init => CreatingAlone /\ TakingTurnsIsTidy
  BY DEF Init, CreatingAlone, TakingTurnsIsTidy
<1>2. SubInv /\ CreatingAlone /\ TakingTurnsIsTidy /\ [Next]_vars
        => CreatingAlone' /\ TakingTurnsIsTidy'
  BY TidyStep, CreatingAloneStep
<1> QED BY <1>1, <1>2, SubInvariant, PTL DEF Spec

(* As long as the listeners of a client take turns at an event, what is    *)
(* open, what has its handler attached and what the Map has are the same   *)
(* (Client.getListener, lines 141-191).                                    *)
THEOREM TurnsAreTidy == Spec => []TakingTurnsIsTidy
BY TurnsInvariant, PTL

--------------------------------------------------------------------------------
(***************************************************************************)
(* Messages                                                                *)
(***************************************************************************)

MsgTypes ==
  /\ published \in [Messages -> Events \cup {None}]
  /\ seq \in [Messages -> Nat]
  /\ inbox \subseteq [sub : Subs, msg : Messages]
  /\ stored \subseteq Messages
  /\ awaiting \subseteq stored /\ again \subseteq stored /\ again \cap awaiting = {}
  /\ consumers \in [StreamEvents -> Policy \cup {None}]
  /\ got \subseteq [handler : Subs, msg : Messages, via : Subs]

(* Messages are where they belong: on their way to, or with, those who     *)
(* listen to what they were published as, and, of streams, in them.        *)
Belong ==
  /\ \A p \in inbox : state[p.sub] # "unused" /\ published[p.msg] = event[p.sub]
  /\ \A g \in got : /\ state[g.via] # "unused" /\ state[g.handler] # "unused"
                    /\ Same(g.handler, g.via)
                    /\ published[g.msg] = event[g.via]
  /\ \A m \in stored : published[m] \in StreamEvents

(* The loop of a stream goes with the consumer that it was made for; what  *)
(* was given out was given out by a consumer.                              *)
Consuming ==
  /\ \A s \in Subs : IsStream(s) /\ state[s] \in {"open", "closing"} =>
       consumers[event[s]] = policy[listener[s]]
  /\ \A m \in awaiting \cup again : consumers[published[m]] # None

(* The numbers of messages in streams.                                     *)
Numbers == {m \in Messages : seq[m] # 0}

Numbered ==
  /\ IsFiniteSet(Numbers)
  /\ \A m \in Messages : seq[m] <= Cardinality(Numbers)
  /\ \A m \in Messages : published[m] = None => seq[m] = 0

MsgInv == MsgTypes /\ Belong /\ Consuming /\ Numbered

(* What is published stays so.                                             *)
LEMMA PublishedStays ==
  ASSUME MsgTypes, [Next]_vars, NEW m \in Messages, published[m] # None
  PROVE  published'[m] = published[m]
<1>1. ASSUME NEW n \in Messages, NEW e \in Events, Publish(n, e)
      PROVE  published'[m] = published[m]
  BY <1>1 DEF Publish, MsgTypes
<1>2. ASSUME UNCHANGED published PROVE published'[m] = published[m]
  BY <1>2
<1> QED BY <1>1, <1>2, NextCases
        DEF On, AddConsumer, CreateConsumerResolves, CreateConsumerRejects, Off, Fetch, Receive,
            Lose, Redeliver, Ack, Exit, msgVars, vars

LEMMA EventsAre ==
  /\ StreamEvents \subseteq Events
  /\ \A e \in Events : e # None
  /\ \A p \in Policy : p # None
BY EventsAssumption, NoneAssumption

(* What the loop of a stream is given.                                     *)
LEMMA FetchEffect ==
  ASSUME MsgInv, NEW s \in Subs, Fetch(s)
  PROVE  \E M \in SUBSET Ready(event[s]) :
           /\ event[s] \in StreamEvents /\ state[s] \in {"open", "closing"} /\ Inbox(s) = {}
           /\ consumers[event[s]] = policy[listener[s]]
           /\ M \subseteq stored /\ NextOf(event[s], M)
           /\ \A m \in M : published[m] = event[s]
           /\ ~IsBatch(s) => Single(M)
           /\ inbox' = inbox \cup {[sub |-> s, msg |-> m] : m \in M}
           /\ again' = again \ M
           /\ \/ consumers[event[s]].ack = "none" /\ stored' = stored \ M /\ UNCHANGED awaiting
              \/ awaiting' = awaiting \cup M /\ UNCHANGED stored
           /\ UNCHANGED <<subVars, published, seq, consumers, got, untidy>>
<1>1. /\ Ready(event[s]) \subseteq stored
      /\ \A m \in Ready(event[s]) : published[m] = event[s]
  BY DEF Ready, Fresh, MsgInv, MsgTypes
<1>2. event[s] \in StreamEvents /\ state[s] \in {"open", "closing"} /\ Inbox(s) = {}
  BY DEF Fetch, IsStream
<1>3. consumers[event[s]] = policy[listener[s]]
  BY <1>2 DEF MsgInv, Consuming, IsStream
<1>4. PICK M \in SUBSET Ready(event[s]) :
        /\ NextOf(event[s], M)
        /\ ~IsBatch(s) => Single(M)
        /\ inbox' = inbox \cup {[sub |-> s, msg |-> m] : m \in M}
        /\ again' = again \ M
        /\ \/ consumers[event[s]].ack = "none" /\ stored' = stored \ M /\ UNCHANGED awaiting
           \/ awaiting' = awaiting \cup M /\ UNCHANGED stored
  BY DEF Fetch
<1>5. UNCHANGED <<subVars, published, seq, consumers, got, untidy>>
  BY DEF Fetch
<1> QED BY <1>1, <1>2, <1>3, <1>4, <1>5

(* Who gets a message of core NATS.                                        *)
LEMMA RecipientsListen ==
  ASSUME NEW e, NEW to \in Recipients(e), NEW s \in to
  PROVE  s \in Subs /\ state[s] = "open" /\ event[s] = e
BY DEF Recipients

LEMMA PublishEffect ==
  ASSUME NEW m \in Messages, NEW e \in Events, Publish(m, e)
  PROVE  /\ published[m] = None
         /\ published' = [published EXCEPT ![m] = e]
         /\ UNCHANGED <<subVars, consumers, awaiting, again, got, untidy>>
         /\ \/ /\ e \in StreamEvents
               /\ seq' = [seq EXCEPT ![m] = 1 + Cardinality(Numbers)]
               /\ stored' = stored \cup {m}
               /\ UNCHANGED inbox
            \/ /\ e \notin StreamEvents
               /\ \A p \in inbox' \ inbox : /\ p.msg = m /\ p = [sub |-> p.sub, msg |-> m]
                                            /\ p.sub \in Subs
                                            /\ state[p.sub] = "open" /\ event[p.sub] = e
               /\ UNCHANGED <<seq, stored>>
BY RecipientsListen DEF Publish, Numbers

LEMMA MsgTypesStep ==
  ASSUME SubInv, MsgInv, [Next]_vars
  PROVE  MsgTypes'
<1>1. MsgTypes
  BY DEF MsgInv
<1>2. ASSUME NEW s \in Subs, AddConsumer(s) PROVE MsgTypes'
  <2>1. policy[listener[s]] \in Policy
    BY <1>2, SlotType DEF AddConsumer, SubInv, SubTypes
  <2>2. consumers' \in [StreamEvents -> Policy \cup {None}]
    BY <1>1, <1>2, <2>1 DEF AddConsumer, MsgTypes
  <2>3. \A m \in awaiting \cup again : published[m] # event[s]
    BY <1>2 DEF AddConsumer, MsgInv, Consuming
  <2>4. stored' \subseteq stored /\ awaiting \subseteq stored' /\ again \subseteq stored'
    BY <1>1, <1>2, <2>3 DEF AddConsumer, MsgTypes
  <2> QED BY <1>1, <1>2, <2>2, <2>4 DEF AddConsumer, MsgTypes
<1>3. ASSUME NEW m \in Messages, NEW e \in Events, Publish(m, e) PROVE MsgTypes'
  <2>1. 1 + Cardinality(Numbers) \in Nat
    BY FS_CardinalityType DEF MsgInv, Numbered
  <2>2. /\ seq' \in [Messages -> Nat]
        /\ stored \subseteq stored' /\ stored' \subseteq Messages
        /\ published' \in [Messages -> Events \cup {None}]
        /\ UNCHANGED <<consumers, awaiting, again, got>>
    BY <1>1, <1>3, <2>1, PublishEffect DEF MsgTypes
  <2>3. inbox' \subseteq [sub : Subs, msg : Messages]
    <3> SUFFICES ASSUME NEW p \in inbox', p \notin inbox
                 PROVE  p \in [sub : Subs, msg : Messages]
      BY <1>1 DEF MsgTypes
    <3> QED BY <1>3, PublishEffect
  <2> QED BY <1>1, <2>2, <2>3 DEF MsgTypes
<1>4. ASSUME NEW p \in inbox, Lose(p) PROVE MsgTypes'
  BY <1>1, <1>4 DEF Lose, jsVars, MsgTypes
<1>5. ASSUME NEW m \in Messages, Redeliver(m) PROVE MsgTypes'
  BY <1>1, <1>5 DEF Redeliver, MsgTypes
<1>6. ASSUME NEW h \in Subs, NEW m \in Messages, Ack(h, m) PROVE MsgTypes'
  BY <1>1, <1>6 DEF Ack, MsgTypes
<1>7. ASSUME NEW s \in Subs, Fetch(s) PROVE MsgTypes'
  <2>1. PICK M \in SUBSET Ready(event[s]) :
           /\ M \subseteq stored
           /\ inbox' = inbox \cup {[sub |-> s, msg |-> m] : m \in M}
           /\ again' = again \ M
           /\ \/ consumers[event[s]].ack = "none" /\ stored' = stored \ M /\ UNCHANGED awaiting
              \/ awaiting' = awaiting \cup M /\ UNCHANGED stored
           /\ UNCHANGED <<subVars, published, seq, consumers, got, untidy>>
    BY <1>7, FetchEffect
  <2>2. \A m \in M : m \notin awaiting
    BY <1>1 DEF Ready, Fresh, MsgTypes
  <2>3. inbox' \subseteq [sub : Subs, msg : Messages]
    BY <1>1, <2>1 DEF MsgTypes
  <2>4. /\ stored' \subseteq Messages
        /\ awaiting' \subseteq stored' /\ again' \subseteq stored' /\ again' \cap awaiting' = {}
    BY <1>1, <2>1, <2>2 DEF MsgTypes
  <2> QED BY <1>1, <2>1, <2>3, <2>4 DEF MsgTypes
<1>8. ASSUME NEW s \in Subs, Receive(s) PROVE MsgTypes'
  <2>1. PICK P \in SUBSET Inbox(s) :
          /\ inbox' = inbox \ P
          /\ got' = got \/ Emit(s, {p.msg : p \in P})
          /\ UNCHANGED <<published, seq, jsVars>>
    BY <1>8 DEF Receive
  <2>2. \A p \in P : p.msg \in Messages
    BY <1>1 DEF Inbox, MsgTypes
  <2>3. handlers \subseteq Subs
    BY DEF SubInv, SubTypes
  <2>4. got' \subseteq [handler : Subs, msg : Messages, via : Subs]
    BY <1>1, <2>1, <2>2, <2>3 DEF Emit, MsgTypes
  <2> QED BY <1>1, <2>1, <2>4 DEF MsgTypes, jsVars
<1>9. ASSUME NEW c \in Clients, Exit(c) PROVE MsgTypes'
  BY <1>1, <1>9 DEF Exit, jsVars, MsgTypes
<1>10. ASSUME UNCHANGED <<msgVars, got>> PROVE MsgTypes'
  BY <1>1, <1>10 DEF msgVars, jsVars, MsgTypes
<1> QED BY <1>2, <1>3, <1>4, <1>5, <1>6, <1>7, <1>8, <1>9, <1>10, NextCases
        DEF On, CreateConsumerResolves, CreateConsumerRejects, Off, vars

LEMMA NumberedStep ==
  ASSUME MsgInv, [Next]_vars
  PROVE  Numbered'
<1>1. MsgTypes /\ Numbered
  BY DEF MsgInv
<1>2. ASSUME NEW m \in Messages, NEW e \in Events, Publish(m, e) PROVE Numbered'
  <2>1. Cardinality(Numbers) \in Nat /\ m \notin Numbers
    BY <1>1, <1>2, PublishEffect, FS_CardinalityType DEF Numbered, Numbers
  <2>2. published'[m] # None /\ \A n \in Messages \ {m} : published'[n] = published[n]
    BY <1>1, <1>2, PublishEffect, EventsAre DEF MsgTypes
  <2>3. CASE seq' = [seq EXCEPT ![m] = 1 + Cardinality(Numbers)]
    <3>1. seq'[m] = 1 + Cardinality(Numbers) /\ \A n \in Messages \ {m} : seq'[n] = seq[n]
      BY <1>1, <2>3 DEF MsgTypes
    <3>2. Numbers' = Numbers \cup {m}
      BY <2>1, <3>1 DEF Numbers
    <3>3. IsFiniteSet(Numbers') /\ Cardinality(Numbers') = Cardinality(Numbers) + 1
      BY <1>1, <2>1, <3>2, FS_AddElement DEF Numbered
    <3>4. \A n \in Messages : seq'[n] <= Cardinality(Numbers')
      BY <1>1, <2>1, <3>1, <3>3 DEF Numbered, MsgTypes
    <3> QED BY <1>1, <2>2, <3>1, <3>3, <3>4 DEF Numbered
  <2>4. CASE UNCHANGED seq
    BY <1>1, <2>2, <2>4 DEF Numbered, Numbers
  <2> QED BY <1>2, <2>3, <2>4, PublishEffect
<1>3. ASSUME UNCHANGED <<seq, published>> PROVE Numbered'
  BY <1>1, <1>3 DEF Numbered, Numbers
<1> QED BY <1>2, <1>3, NextCases
        DEF On, AddConsumer, CreateConsumerResolves, CreateConsumerRejects, Off, Fetch, Receive,
            Lose, Redeliver, Ack, Exit, msgVars, vars

(* A consumer that is there stays as it is.                                *)
LEMMA ConsumersStay ==
  ASSUME MsgTypes, [Next]_vars, NEW e \in StreamEvents, consumers[e] # None
  PROVE  consumers'[e] = consumers[e]
<1>1. ASSUME NEW s \in Subs, AddConsumer(s) PROVE consumers'[e] = consumers[e]
  BY <1>1 DEF AddConsumer, MsgTypes
<1>2. ASSUME UNCHANGED consumers PROVE consumers'[e] = consumers[e]
  BY <1>2
<1> QED BY <1>1, <1>2, NextCases
        DEF On, CreateConsumerResolves, CreateConsumerRejects, Off, Fetch, Receive, Publish,
            Lose, Redeliver, Ack, Exit, jsVars, msgVars, vars

(* The messages of streams that a step gives out, or stores.               *)
LEMMA GivenBefore ==
  ASSUME SubInv, MsgInv, [Next]_vars, NEW m \in awaiting' \cup again'
  PROVE  /\ m \in stored
         /\ \/ m \in awaiting \cup again
            \/ \E s \in Subs : Fetch(s) /\ published[m] = event[s]
                                        /\ consumers[event[s]] # None
<1>1. MsgTypes
  BY DEF MsgInv
<1>2. ASSUME NEW s \in Subs, Fetch(s), m \notin awaiting \cup again
      PROVE  /\ m \in stored
             /\ published[m] = event[s] /\ consumers[event[s]] # None
  <2>1. m \in stored /\ published[m] = event[s] /\ event[s] \in StreamEvents
        /\ state[s] \in {"open", "closing"} /\ consumers[event[s]] = policy[listener[s]]
    BY <1>2, FetchEffect
  <2>2. policy[listener[s]] \in Policy
    BY <2>1, SlotType DEF SubInv, SubTypes
  <2> QED BY <2>1, <2>2, EventsAre
<1>3. ASSUME NEW s \in Subs, Receive(s) PROVE m \in awaiting \cup again
  BY <1>3 DEF Receive, jsVars
<1>4. ASSUME NEW n \in Messages, Redeliver(n) PROVE m \in awaiting \cup again
  BY <1>4 DEF Redeliver
<1>5. ASSUME NEW h \in Subs, NEW n \in Messages, Ack(h, n) PROVE m \in awaiting \cup again
  BY <1>5 DEF Ack
<1>6. m \in awaiting \cup again => m \in stored
  BY <1>1 DEF MsgTypes
<1>7. \/ m \in awaiting \cup again
      \/ \E s \in Subs : Fetch(s)
  BY <1>3, <1>4, <1>5, NextCases
     DEF On, AddConsumer, CreateConsumerResolves, CreateConsumerRejects, Off, Publish, Lose,
         Exit, jsVars, msgVars, vars
<1> QED BY <1>2, <1>6, <1>7

LEMMA ConsumingStep ==
  ASSUME SubInv, MsgInv, [Next]_vars
  PROVE  Consuming'
<1>1. MsgTypes /\ Consuming /\ SubTypes
  BY DEF MsgInv, SubInv
<1>2. ASSUME NEW m \in awaiting' \cup again' PROVE consumers'[published'[m]] # None
  <2>1. m \in stored /\ consumers[published[m]] # None
    BY <1>1, GivenBefore DEF Consuming
  <2>2. m \in Messages /\ published[m] \in StreamEvents /\ published[m] # None
    BY <1>1, <2>1, EventsAre DEF MsgInv, MsgTypes, Belong
  <2>3. published'[m] = published[m]
    BY <1>1, <2>2, PublishedStays
  <2> QED BY <1>1, <2>1, <2>2, <2>3, ConsumersStay
<1>3. UNCHANGED policy
  BY NextCases
     DEF On, AddConsumer, CreateConsumerResolves, CreateConsumerRejects, Off, Publish, Lose,
         Fetch, Receive, Redeliver, Ack, Exit, subVars, vars
<1>4. ASSUME NEW s \in Subs, IsStream(s)', state'[s] \in {"open", "closing"}
      PROVE  consumers'[event'[s]] = policy'[listener'[s]]
  <2>1. CASE IsStream(s) /\ state[s] \in {"open", "closing"}
    <3>1. /\ event[s] \in StreamEvents /\ consumers[event[s]] = policy[listener[s]]
          /\ event'[s] = event[s] /\ listener'[s] = listener[s]
      BY <1>1, <2>1, UsedStays DEF Consuming, IsStream
    <3>2. policy[listener[s]] \in Policy
      BY <1>1, <2>1, SlotType DEF SubTypes
    <3> QED BY <1>1, <1>3, <3>1, <3>2, EventsAre, ConsumersStay
  <2>2. CASE state[s] \notin {"open", "closing"}
    <3>1. ASSUME NEW t \in Subs, NEW l \in Listeners, NEW e \in Events, On(t, l, e)
          PROVE  FALSE
      <4>1. t = s /\ event'[s] = e
        BY <1>1, <1>4, <2>2, <3>1 DEF On, Opened, SubTypes
      <4>2. e \in StreamEvents
        BY <1>4, <4>1 DEF IsStream
      <4>3. state'[s] = "creating"
        BY <1>1, <3>1, <4>1, <4>2 DEF On, SubTypes
      <4> QED BY <1>4, <4>3
    <3>2. ASSUME NEW t \in Subs, CreateConsumerResolves(t)
          PROVE  consumers'[event'[s]] = policy'[listener'[s]]
      <4>1. t = s
        BY <1>1, <1>4, <2>2, <3>2 DEF CreateConsumerResolves, Opened, SubTypes
      <4> QED BY <1>3, <3>2, <4>1 DEF CreateConsumerResolves, jsVars, msgVars
    <3>3. ASSUME NEW t \in Subs, CreateConsumerRejects(t) PROVE FALSE
      BY <1>1, <1>4, <2>2, <3>3 DEF CreateConsumerRejects, SubTypes
    <3>4. ASSUME NEW t \in Subs, Receive(t) PROVE FALSE
      BY <1>1, <1>4, <2>2, <3>4 DEF Receive, Ended, SubTypes
    <3>5. ASSUME NEW t \in Subs, Off(t) PROVE FALSE
      <4>1. Slot(t) \in Slots
        BY <3>5, SlotType DEF Off
      <4>2. subscriptions[Slot(t)] # None => subscriptions[Slot(t)] # s
        BY <2>2, <4>1 DEF SubInv, Mapped
      <4> QED BY <1>1, <1>4, <2>2, <3>5, <4>2 DEF Off, SubTypes
    <3>6. ASSUME NEW c \in Clients, Exit(c) PROVE FALSE
      BY <1>1, <1>4, <2>2, <3>6 DEF Exit, SubTypes
    <3>7. ASSUME UNCHANGED subVars PROVE FALSE
      BY <1>4, <2>2, <3>7 DEF subVars
    <3> QED BY <3>1, <3>2, <3>3, <3>4, <3>5, <3>6, <3>7, NextCases
            DEF AddConsumer, Fetch, Publish, Lose, Redeliver, Ack, vars
  <2>3. CASE state[s] \in {"open", "closing"} /\ ~IsStream(s)
    BY <1>4, <2>3, UsedStays DEF IsStream
  <2> QED BY <2>1, <2>2, <2>3
<1>5. \A s \in Subs : IsStream(s)' <=> event'[s] \in StreamEvents
  BY DEF IsStream
<1> QED BY <1>2, <1>4, <1>5 DEF Consuming, IsStream

(* What comes into an inbox: a message of core NATS as it is published, or *)
(* what the loop of a stream asked for.                                    *)
LEMMA InboxBefore ==
  ASSUME MsgInv, [Next]_vars, NEW p \in inbox', p \notin inbox
  PROVE  /\ UNCHANGED <<subVars, consumers, got, untidy>>
         /\ \/ \E e \in Events \ StreamEvents :
                 Publish(p.msg, e) /\ state[p.sub] = "open" /\ event[p.sub] = e
            \/ Fetch(p.sub) /\ published[p.msg] = event[p.sub] /\ p.msg \in stored
<1>1. ASSUME NEW m \in Messages, NEW e \in Events, Publish(m, e)
      PROVE  /\ UNCHANGED <<subVars, consumers, got, untidy>>
             /\ e \notin StreamEvents
             /\ p.msg = m /\ state[p.sub] = "open" /\ event[p.sub] = e
  BY <1>1, PublishEffect
<1>2. ASSUME NEW s \in Subs, Fetch(s)
      PROVE  /\ UNCHANGED <<subVars, consumers, got, untidy>>
             /\ p.sub = s /\ published[p.msg] = event[p.sub] /\ p.msg \in stored
  BY <1>2, FetchEffect
<1> QED BY <1>1, <1>2, NextCases
        DEF On, AddConsumer, CreateConsumerResolves, CreateConsumerRejects, Off, Receive,
            Lose, Redeliver, Ack, Exit, msgVars, vars

(* A handler gets what is in the inbox of a loop of its listener.          *)
LEMMA ReceiveEffect ==
  ASSUME NEW s \in Subs, Receive(s)
  PROVE  \E P \in SUBSET Inbox(s) :
           /\ P # {}
           /\ IF IsBatch(s) THEN P = Inbox(s) ELSE Single(P)
           /\ inbox' = inbox \ P
           /\ \/ Done(s) /\ Ended(s) /\ UNCHANGED got
              \/ ~Done(s) /\ Emit(s, {p.msg : p \in P}) /\ UNCHANGED state
           /\ UNCHANGED <<policy, listener, event, subscriptions, handlers, published, seq,
                          consumers, stored, awaiting, again, untidy>>
BY DEF Receive, jsVars

LEMMA GotBefore ==
  ASSUME [Next]_vars, NEW g \in got', g \notin got
  PROVE  /\ Receive(g.via) /\ ~Done(g.via) /\ g.via \in Subs
         /\ UNCHANGED <<subVars, published, seq, jsVars, untidy>>
         /\ g.handler \in handlers /\ Same(g.handler, g.via)
         /\ \E p \in inbox : p.sub = g.via /\ p.msg = g.msg
<1>1. PICK s \in Subs : Receive(s)
  BY NextCases
     DEF On, AddConsumer, CreateConsumerResolves, CreateConsumerRejects, Off, Fetch, Publish,
         Lose, Redeliver, Ack, Exit, vars
<1>2. PICK P \in SUBSET Inbox(s) :
        /\ ~Done(s) /\ Emit(s, {p.msg : p \in P}) /\ UNCHANGED state
        /\ UNCHANGED <<policy, listener, event, subscriptions, handlers, published, seq,
                       jsVars, untidy>>
  BY <1>1 DEF Receive
<1>3. PICK h \in handlers, p \in P : Same(h, s) /\ g = [handler |-> h, msg |-> p.msg, via |-> s]
  BY <1>2 DEF Emit
<1>4. p \in inbox /\ p.sub = s
  BY DEF Inbox
<1> QED BY <1>1, <1>2, <1>3, <1>4 DEF subVars

LEMMA StoredBefore ==
  ASSUME [Next]_vars, NEW m \in stored', m \notin stored
  PROVE  \E e \in StreamEvents : Publish(m, e)
<1>1. ASSUME NEW n \in Messages, NEW e \in Events, Publish(n, e)
      PROVE  n = m /\ e \in StreamEvents
  BY <1>1 DEF Publish
<1> QED BY <1>1, NextCases
        DEF On, AddConsumer, CreateConsumerResolves, CreateConsumerRejects, Off, Fetch, Receive,
            Lose, Redeliver, Ack, Exit, jsVars, msgVars, vars

LEMMA BelongStep ==
  ASSUME SubInv, MsgInv, [Next]_vars
  PROVE  Belong'
<1>1. MsgTypes /\ Belong /\ SubTypes
  BY DEF MsgInv, SubInv
<1>2. ASSUME NEW p \in inbox'
      PROVE  /\ p.sub \in Subs /\ p.msg \in Messages
             /\ state'[p.sub] # "unused" /\ published'[p.msg] = event'[p.sub]
  <2>1. MsgTypes'
    BY MsgTypesStep
  <2>2. p.sub \in Subs /\ p.msg \in Messages
    BY <1>2, <2>1 DEF MsgTypes
  <2>3. ASSUME state[p.sub] # "unused", published[p.msg] = event[p.sub]
        PROVE  state'[p.sub] # "unused" /\ published'[p.msg] = event'[p.sub]
    <3>1. published[p.msg] # None
      BY <2>2, <2>3, SlotType, EventsAre
    <3> QED BY <1>1, <2>2, <2>3, <3>1, UsedStays, PublishedStays
  <2>4. ASSUME NEW e \in Events, Publish(p.msg, e), state[p.sub] = "open", event[p.sub] = e
        PROVE  state'[p.sub] # "unused" /\ published'[p.msg] = event'[p.sub]
    BY <1>1, <2>2, <2>4, PublishEffect DEF subVars, MsgTypes
  <2>5. Fetch(p.sub) => state[p.sub] # "unused"
    BY DEF Fetch
  <2> QED BY <1>1, <2>2, <2>3, <2>4, <2>5, InboxBefore DEF Belong
<1>3. ASSUME NEW g \in got'
      PROVE  /\ state'[g.via] # "unused" /\ state'[g.handler] # "unused"
             /\ listener'[g.handler] = listener'[g.via] /\ event'[g.handler] = event'[g.via]
             /\ published'[g.msg] = event'[g.via]
  <2>1. /\ g.via \in Subs /\ g.handler \in Subs /\ g.msg \in Messages
        /\ state[g.via] # "unused" /\ state[g.handler] # "unused"
        /\ Same(g.handler, g.via) /\ published[g.msg] = event[g.via]
    <3>1. CASE g \in got
      BY <1>1, <3>1 DEF MsgTypes, Belong
    <3>2. CASE g \notin got
      <4>1. PICK p \in inbox : p.sub = g.via /\ p.msg = g.msg
        BY <1>3, <3>2, GotBefore
      <4>2. g.handler \in handlers /\ Same(g.handler, g.via) /\ g.via \in Subs
        BY <1>3, <3>2, GotBefore
      <4>3. g.handler \in Subs /\ state[g.handler] # "unused"
        BY <1>1, <4>2 DEF SubInv, SubTypes, Used
      <4> QED BY <1>1, <4>1, <4>2, <4>3 DEF MsgTypes, Belong
    <3> QED BY <3>1, <3>2
  <2>2. published[g.msg] # None
    BY <2>1, SlotType, EventsAre
  <2> QED BY <1>1, <2>1, <2>2, UsedStays, PublishedStays DEF Same
<1>4. ASSUME NEW m \in stored' PROVE published'[m] \in StreamEvents
  <2>1. CASE m \in stored
    BY <1>1, <2>1, PublishedStays, EventsAre DEF MsgTypes, Belong
  <2>2. CASE m \notin stored
    <3>1. PICK e \in StreamEvents : Publish(m, e)
      BY <1>4, <2>2, StoredBefore
    <3>2. m \in Messages
      BY <1>1, <1>4, MsgTypesStep DEF MsgTypes
    <3> QED BY <1>1, <3>1, <3>2 DEF Publish, MsgTypes
  <2> QED BY <2>1, <2>2
<1> QED BY <1>2, <1>3, <1>4 DEF Belong, Same

LEMMA MsgInvariant == Spec => [](SubInv /\ MsgInv)
<1>1. Init => MsgInv
  <2> SUFFICES ASSUME Init PROVE MsgInv
    OBVIOUS
  <2>1. MsgTypes /\ Belong /\ Consuming
    BY DEF Init, MsgTypes, Belong, Consuming
  <2>2. Numbers = {}
    BY DEF Init, Numbers
  <2>3. Numbered
    BY <2>2, FS_EmptySet DEF Init, Numbered
  <2> QED BY <2>1, <2>3 DEF MsgInv
<1>2. SubInv /\ MsgInv /\ [Next]_vars => MsgInv'
  BY MsgTypesStep, BelongStep, ConsumingStep, NumberedStep DEF MsgInv
<1> QED BY <1>1, <1>2, SubInvariant, PTL DEF Spec

(* Every listener, call of on, message and consumer is where it can be,    *)
(* and what the Map of a client has is open and was made for that entry.   *)
THEOREM TypeCorrect == Spec => []TypeOK
<1>1. SubInv /\ MsgInv => TypeOK
  BY DEF SubInv, SubTypes, States, Mapped, MsgInv, MsgTypes, TypeOK
<1> QED BY <1>1, MsgInvariant, PTL

--------------------------------------------------------------------------------
(***************************************************************************)
(* A message comes to a handler from one loop                              *)
(***************************************************************************)

(* What a fetcher gave out waits for a loop that goes on; the loop of a    *)
(* single fetcher has one message at a time.                               *)
InboxLive ==
  \A s \in Subs : IsStream(s) /\ Inbox(s) # {} =>
    /\ state[s] \in {"open", "closing"}
    /\ ~IsBatch(s) => Single(Inbox(s))

(* The loop of a stream goes on until it ends, or its process does.        *)
LEMMA LoopGoesOn ==
  ASSUME SubInv, [Next]_vars, NEW s \in Subs, IsStream(s), state[s] \in {"open", "closing"}
  PROVE  \/ state'[s] \in {"open", "closing"}
         \/ Receive(s) /\ Done(s)
         \/ \E c \in Clients : Exit(c) /\ ClientOf[listener[s]] = c
<1>1. SubTypes
  BY DEF SubInv
<1>2. ASSUME NEW t \in Subs, NEW l \in Listeners, NEW e \in Events, On(t, l, e)
      PROVE  state'[s] \in {"open", "closing"}
  BY <1>1, <1>2 DEF On, Opened, SubTypes
<1>3. ASSUME NEW t \in Subs, CreateConsumerResolves(t) \/ CreateConsumerRejects(t)
      PROVE  state'[s] \in {"open", "closing"}
  BY <1>1, <1>3 DEF CreateConsumerResolves, CreateConsumerRejects, Opened, SubTypes
<1>4. ASSUME NEW t \in Subs, Off(t) PROVE state'[s] \in {"open", "closing"}
  BY <1>1, <1>4 DEF Off, Unsubscribed, SubTypes
<1>5. ASSUME NEW t \in Subs, Receive(t), ~(t = s /\ Done(s))
      PROVE  state'[s] \in {"open", "closing"}
  BY <1>1, <1>5 DEF Receive, Ended, SubTypes
<1>6. ASSUME NEW c \in Clients, Exit(c), ClientOf[listener[s]] # c
      PROVE  state'[s] \in {"open", "closing"}
  BY <1>1, <1>6 DEF Exit, SubTypes
<1>7. ASSUME UNCHANGED subVars PROVE state'[s] \in {"open", "closing"}
  BY <1>7 DEF subVars
<1> QED BY <1>2, <1>3, <1>4, <1>5, <1>6, <1>7, NextCases
        DEF AddConsumer, Fetch, Publish, Lose, Redeliver, Ack, vars

LEMMA InboxLiveStep ==
  ASSUME SubInv, MsgInv, InboxLive, [Next]_vars
  PROVE  InboxLive'
<1> SUFFICES ASSUME NEW s \in Subs, IsStream(s)', NEW q \in inbox', q.sub = s
             PROVE  /\ state'[s] \in {"open", "closing"}
                    /\ ~IsBatch(s)' => Single(Inbox(s)')
  BY DEF InboxLive, Inbox, IsStream, IsBatch, Single
<1>1. SubTypes /\ MsgTypes
  BY DEF SubInv, MsgInv
<1>2. state[s] # "unused"
  <2>1. CASE q \in inbox
    BY <2>1 DEF MsgInv, Belong
  <2>2. CASE q \notin inbox
    BY <2>2, InboxBefore DEF Fetch
  <2> QED BY <2>1, <2>2
<1>3. /\ IsStream(s) /\ event'[s] = event[s] /\ listener'[s] = listener[s]
      /\ IsBatch(s)' <=> IsBatch(s)
  BY <1>2, UsedStays DEF IsStream, IsBatch
<1>4. CASE Inbox(s)' \subseteq Inbox(s)
  <2>1. /\ Inbox(s) # {} /\ state[s] \in {"open", "closing"}
        /\ ~IsBatch(s) => Single(Inbox(s))
    BY <1>3, <1>4 DEF InboxLive, Inbox
  <2>2. ~IsBatch(s)' => Single(Inbox(s)')
    BY <1>3, <1>4, <2>1 DEF Single
  <2>3. ~(Receive(s) /\ Done(s))
    <3> SUFFICES ASSUME Receive(s), Done(s) PROVE FALSE
      OBVIOUS
    <3>1. PICK P \in SUBSET Inbox(s) :
            /\ P # {} /\ inbox' = inbox \ P
            /\ IF IsBatch(s) THEN P = Inbox(s) ELSE Single(P)
      BY ReceiveEffect
    <3>2. P = Inbox(s)
      BY <2>1, <3>1 DEF Single
    <3> QED BY <3>1, <3>2 DEF Inbox
  <2>4. ASSUME NEW c \in Clients, Exit(c), ClientOf[listener[s]] = c PROVE FALSE
    <3>1. s \in {t \in Subs : state[t] # "unused" /\ ClientOf[listener[t]] = c}
      BY <1>2, <2>4
    <3> QED BY <2>4, <3>1 DEF Exit
  <2> QED BY <1>3, <2>1, <2>2, <2>3, <2>4, LoopGoesOn
<1>5. CASE ~(Inbox(s)' \subseteq Inbox(s))
  <2>1. PICK p \in inbox' : p \notin inbox /\ p.sub = s
    BY <1>5 DEF Inbox
  <2>2. UNCHANGED subVars /\ Fetch(s)
    BY <1>3, <2>1, InboxBefore DEF IsStream
  <2>3. PICK M \in SUBSET Ready(event[s]) :
          /\ state[s] \in {"open", "closing"} /\ Inbox(s) = {}
          /\ ~IsBatch(s) => Single(M)
          /\ inbox' = inbox \cup {[sub |-> s, msg |-> m] : m \in M}
    BY <2>2, FetchEffect
  <2>4. \A p1 \in Inbox(s)' : \E m \in M : p1 = [sub |-> s, msg |-> m]
    BY <2>3 DEF Inbox
  <2> QED BY <1>3, <2>2, <2>3, <2>4 DEF subVars, Single
<1> QED BY <1>4, <1>5

(* The loop s has message m, or gave it to a handler.                      *)
Carried(m, s) ==
  \/ \E p \in inbox : p.sub = s /\ p.msg = m
  \/ \E g \in got : g.via = s /\ g.msg = m

(* In turn, one loop of a client has a message of core NATS.               *)
OneCarrier ==
  \A m \in Messages : \A s, t \in Subs :
    /\ Carried(m, s) /\ Carried(m, t)
    /\ published[m] \notin StreamEvents
    /\ Slot(s) = Slot(t) /\ Slot(s) \notin untidy
    => s = t

(* In turn, a handler gets the messages of streams from the loop that its  *)
(* own call of on started.                                                 *)
OwnLoop ==
  \A g \in got :
    published[g.msg] \in StreamEvents /\ Slot(g.handler) \notin untidy => g.via = g.handler

LEMMA CarriedIs ==
  ASSUME SubInv, MsgInv, NEW m \in Messages, NEW s \in Subs, Carried(m, s)
  PROVE  /\ state[s] # "unused" /\ published[m] = event[s]
         /\ published[m] \in Events /\ published[m] # None
<1>1. state[s] # "unused" /\ published[m] = event[s]
  BY DEF Carried, MsgInv, Belong
<1> QED BY <1>1, SlotType, EventsAre

LEMMA CarriedBefore ==
  ASSUME SubInv, MsgInv, [Next]_vars, NEW m \in Messages, NEW s \in Subs, Carried(m, s)'
  PROVE  \/ Carried(m, s)
         \/ \E e \in Events \ StreamEvents :
              Publish(m, e) /\ state[s] = "open" /\ event[s] = e
         \/ Fetch(s) /\ published[m] \in StreamEvents
<1>1. CASE \E p \in inbox' : p.sub = s /\ p.msg = m /\ p \notin inbox
  BY <1>1, InboxBefore DEF Fetch, IsStream
<1>2. CASE \E g \in got' : g.via = s /\ g.msg = m /\ g \notin got
  BY <1>2, GotBefore DEF Carried
<1> QED BY <1>1, <1>2 DEF Carried

LEMMA OneCarrierStep ==
  ASSUME SubInv, MsgInv, OneCarrier, TakingTurnsIsTidy, [Next]_vars
  PROVE  OneCarrier'
<1> SUFFICES ASSUME NEW m \in Messages, NEW s \in Subs, NEW t \in Subs,
                    Carried(m, s)', Carried(m, t)', published'[m] \notin StreamEvents,
                    Slot(s)' = Slot(t)', Slot(s)' \notin untidy'
             PROVE  s = t
  BY DEF OneCarrier, Slot
<1>1. SubTypes /\ MsgTypes
  BY DEF SubInv, MsgInv
<1>2. published[m] # None => published[m] \notin StreamEvents
  BY <1>1, PublishedStays
<1>3. published[m] \notin StreamEvents
  BY <1>2, EventsAre
<1>4. CASE Carried(m, s) /\ Carried(m, t)
  BY <1>3, <1>4, CarriedIs, UsedStays, UntidyGrows DEF OneCarrier
<1>5. ASSUME NEW e \in Events, Publish(m, e), Carried(m, s) \/ Carried(m, t)
      PROVE  FALSE
  BY <1>5, CarriedIs, PublishEffect
<1>6. ASSUME NEW e \in Events, Publish(m, e),
             state[s] = "open", state[t] = "open"
      PROVE  s = t
  <2>1. UNCHANGED <<subVars, untidy>>
    BY <1>6, PublishEffect
  <2>2. Slot(s) = Slot(t) /\ Slot(s) \notin untidy
    BY <2>1 DEF Slot, subVars
  <2> QED BY <1>6, <2>2 DEF TakingTurnsIsTidy
<1> QED BY <1>3, <1>4, <1>5, <1>6, CarriedBefore

LEMMA OwnLoopStep ==
  ASSUME SubInv, MsgInv, InboxLive, OwnLoop, TakingTurnsIsTidy, [Next]_vars
  PROVE  OwnLoop'
<1> SUFFICES ASSUME NEW g \in got', published'[g.msg] \in StreamEvents,
                    NEW x, x = Slot(g.handler)', x \notin untidy'
             PROVE  g.via = g.handler
  BY DEF OwnLoop, Slot
<1>1. SubTypes /\ MsgTypes
  BY DEF SubInv, MsgInv
<1>2. CASE g \in got
  <2>1. /\ g.handler \in Subs /\ g.msg \in Messages /\ state[g.handler] # "unused"
        /\ g.via \in Subs /\ state[g.via] # "unused" /\ published[g.msg] = event[g.via]
    BY <1>1, <1>2 DEF MsgTypes, MsgInv, Belong
  <2>2. published'[g.msg] = published[g.msg]
    BY <1>1, <2>1, PublishedStays, SlotType, EventsAre
  <2> QED BY <1>2, <2>1, <2>2, UsedStays, UntidyGrows DEF OwnLoop
<1>3. CASE g \notin got
  <2>1. /\ g.via \in Subs /\ ~Done(g.via) /\ g.handler \in handlers
        /\ Same(g.handler, g.via) /\ UNCHANGED <<subVars, published, untidy>>
    BY <1>3, GotBefore
  <2>2. PICK p \in inbox : p.sub = g.via /\ p.msg = g.msg
    BY <1>3, GotBefore
  <2>3. IsStream(g.via) /\ state[g.via] # "unused"
    BY <2>1, <2>2 DEF MsgInv, Belong, IsStream
  <2>4. state[g.via] = "open"
    BY <2>1, <2>2, <2>3 DEF InboxLive, Inbox, Done
  <2>5. g.handler \in Subs /\ state[g.handler] # "unused"
    BY <1>1, <2>1 DEF SubTypes, SubInv, Used
  <2>6. Slot(g.handler) = x /\ Slot(g.via) = x /\ x \notin untidy
    BY <2>1 DEF Slot, Same, subVars
  <2> QED BY <2>1, <2>3, <2>4, <2>5, <2>6 DEF TakingTurnsIsTidy
<1> QED BY <1>2, <1>3

OnceInv == InboxLive /\ OneCarrier /\ OwnLoop

LEMMA OnceInvariant == Spec => [](SubInv /\ TakingTurnsIsTidy /\ MsgInv /\ OnceInv)
<1>1. Init => OnceInv
  BY DEF Init, OnceInv, InboxLive, Inbox, OneCarrier, Carried, OwnLoop
<1>2. SubInv /\ TakingTurnsIsTidy /\ MsgInv /\ OnceInv /\ [Next]_vars => OnceInv'
  BY InboxLiveStep, OneCarrierStep, OwnLoopStep DEF OnceInv
<1> QED BY <1>1, <1>2, TurnsInvariant, MsgInvariant, PTL DEF Spec

(* Then, a handler gets a message from one loop only, over failures,       *)
(* redelivery and restarts (Client.startWatch, startBatchWatch).           *)
THEOREM OnceInTurn == Spec => []OnceIfTidy
<1>1. SubInv /\ MsgInv /\ OnceInv => OnceIfTidy
  <2> SUFFICES ASSUME SubInv, MsgInv, OnceInv, NEW g \in got, NEW h \in got,
                      g.handler = h.handler, g.msg = h.msg, Slot(g.handler) \notin untidy
               PROVE  g.via = h.via
    BY DEF OnceIfTidy
  <2>1. CASE published[g.msg] \in StreamEvents
    BY <2>1 DEF OnceInv, OwnLoop
  <2>2. CASE published[g.msg] \notin StreamEvents
    <3>1. g.via \in Subs /\ h.via \in Subs /\ g.msg \in Messages
      BY DEF MsgInv, MsgTypes
    <3>2. Slot(g.via) = Slot(g.handler) /\ Slot(h.via) = Slot(g.handler)
      BY DEF MsgInv, Belong, Same, Slot
    <3>3. Carried(g.msg, g.via) /\ Carried(g.msg, h.via)
      BY DEF Carried
    <3> QED BY <2>2, <3>1, <3>2, <3>3 DEF OnceInv, OneCarrier
  <2> QED BY <2>1, <2>2
<1> QED BY <1>1, OnceInvariant, PTL

--------------------------------------------------------------------------------
(***************************************************************************)
(* What is gone from a stream was handled                                  *)
(***************************************************************************)

(* The policies of listeners are among their options, only calls of on     *)
(* that were made have an event, and only those that got as far as a loop  *)
(* have a handler.                                                         *)
Settled ==
  /\ \A l \in Listeners : policy[l] \in Options[l]
  /\ \A s \in Subs : event[s] # None => state[s] # "unused"
  /\ \A h \in handlers : state[h] \notin {"creating", "failed"}

(* A call of on that got as far as a loop stays among them; its loop does  *)
(* not go on, nor is its handler attached, once that is over.              *)
LEMMA PastOn ==
  ASSUME SubInv, [Next]_vars, NEW s \in Subs, state[s] \notin {"unused", "creating", "failed"}
  PROVE  /\ state'[s] \notin {"creating", "failed"}
         /\ state'[s] \in {"open", "closing"} => state[s] \in {"open", "closing"}
         /\ s \in handlers' => s \in handlers
<1> DEFINE Goal == /\ state'[s] \notin {"creating", "failed"}
                   /\ state'[s] \in {"open", "closing"} => state[s] \in {"open", "closing"}
                   /\ s \in handlers' => s \in handlers
<1>1. SubTypes
  BY DEF SubInv
<1>2. ASSUME NEW t \in Subs, NEW l \in Listeners, NEW e \in Events, On(t, l, e) PROVE Goal
  BY <1>1, <1>2 DEF On, Opened, SubTypes
<1>3. ASSUME NEW t \in Subs, CreateConsumerResolves(t) \/ CreateConsumerRejects(t) PROVE Goal
  BY <1>1, <1>3 DEF CreateConsumerResolves, CreateConsumerRejects, Opened, SubTypes
<1>4. ASSUME NEW t \in Subs, Off(t) PROVE Goal
  <2>1. Slot(t) \in Slots
    BY <1>4, SlotType DEF Off
  <2>2. subscriptions[Slot(t)] = s => state[s] = "open"
    BY <2>1, NoSub DEF SubInv, Mapped
  <2> QED BY <1>1, <1>4, <2>2 DEF Off, Unsubscribed, SubTypes
<1>5. ASSUME NEW t \in Subs, Receive(t) PROVE Goal
  BY <1>1, <1>5 DEF Receive, Ended, SubTypes
<1>6. ASSUME NEW c \in Clients, Exit(c) PROVE Goal
  BY <1>1, <1>6 DEF Exit, SubTypes
<1>7. ASSUME UNCHANGED subVars PROVE Goal
  BY <1>7 DEF subVars
<1> QED BY <1>2, <1>3, <1>4, <1>5, <1>6, <1>7, NextCases
        DEF AddConsumer, Fetch, Publish, Lose, Redeliver, Ack, vars

(* Only Opened attaches a handler.                                         *)
LEMMA AttachedBefore ==
  ASSUME [Next]_vars, NEW h \in handlers', h \notin handlers
  PROVE  \E x : Opened(h, x)
<1>1. ASSUME NEW s \in Subs, NEW x, Opened(s, x) PROVE s = h
  BY <1>1 DEF Opened
<1> QED BY <1>1, NextCases
        DEF On, AddConsumer, CreateConsumerResolves, CreateConsumerRejects, Off, Fetch, Receive,
            Publish, Lose, Redeliver, Ack, Exit, subVars, vars

LEMMA SettledStep ==
  ASSUME SubInv, Settled, [Next]_vars
  PROVE  Settled'
<1>1. SubTypes
  BY DEF SubInv
<1>2. UNCHANGED policy
  BY NextCases
     DEF On, AddConsumer, CreateConsumerResolves, CreateConsumerRejects, Off, Publish, Lose,
         Fetch, Receive, Redeliver, Ack, Exit, subVars, vars
<1>3. ASSUME NEW s \in Subs, event'[s] # None PROVE state'[s] # "unused"
  <2>1. CASE event'[s] = event[s]
    BY <1>3, <2>1, UsedStays DEF Settled
  <2>2. ASSUME NEW t \in Subs, NEW l \in Listeners, NEW e \in Events, On(t, l, e),
               event'[s] # event[s]
        PROVE  state'[s] # "unused"
    BY <1>1, <2>2 DEF On, Opened, SubTypes
  <2> QED BY <2>1, <2>2, NextCases
          DEF AddConsumer, CreateConsumerResolves, CreateConsumerRejects, Off, Publish, Lose,
              Fetch, Receive, Redeliver, Ack, Exit, subVars, vars
<1>4. ASSUME NEW h \in handlers' PROVE state'[h] \notin {"creating", "failed"}
  <2>1. CASE h \in handlers
    BY <1>1, <2>1, PastOn DEF SubTypes, SubInv, Used, Settled
  <2>2. CASE h \notin handlers
    <3>1. h \in Subs
      BY <1>4, SubTypesStep DEF SubTypes
    <3>2. state'[h] = "open"
      BY <1>1, <1>4, <2>2, <3>1, AttachedBefore DEF Opened, SubTypes
    <3> QED BY <3>2
  <2> QED BY <2>1, <2>2
<1> QED BY <1>2, <1>3, <1>4 DEF Settled

LEMMA LoopIs ==
  ASSUME Settled, NEW e \in Events, NEW s \in Loops(e)
  PROVE  s \in Subs /\ event[s] = e /\ state[s] \notin {"unused", "creating", "failed"}
BY EventsAre DEF Loops, Settled

LEMMA LoopsGrow ==
  ASSUME SubInv, Settled, [Next]_vars, NEW e \in Events
  PROVE  Loops(e) \subseteq Loops(e)'
BY LoopIs, PastOn, UsedStays DEF Loops

(* What was given out, and is in the stream still.                         *)
Given(m) == m \in awaiting \cup again

(* What left the stream, to be given to a handler.                         *)
Out(m) == Given(m) \/ \E s \in Subs : Carried(m, s)

(* The consumer of e takes an acknowledgement for all before it, and one   *)
(* loop asks it for messages.                                              *)
OneForAll(e) ==
  /\ consumers[e] # None
  /\ consumers[e].ack = "all"
  /\ Single(Loops(e))

(* What is in a stream before a message that went out went out, too.       *)
GivenInOrder ==
  \A m \in Messages, n \in stored :
    Out(m) /\ published[n] = published[m] /\ seq[n] < seq[m] => Given(n)

(* There is a loop, and a consumer, where something went out.              *)
SomeLoop ==
  \A m \in Messages : Out(m) /\ published[m] \in StreamEvents =>
    consumers[published[m]] # None /\ Loops(published[m]) # {}

(* With one loop for all, what was given out was handled, or the loop has  *)
(* it yet, or it is over.                                                  *)
InHand ==
  \A m \in stored : Given(m) /\ OneForAll(published[m]) =>
    \A s \in Loops(published[m]) :
      s \in handlers /\ state[s] \in {"open", "closing"} => Carried(m, s)

(* Then what is in a stream before a message that was handled was handled. *)
HandledInOrder ==
  \A g \in got, n \in stored :
    /\ published[n] = published[g.msg] /\ seq[n] < seq[g.msg]
    /\ OneForAll(published[n])
    => \E h \in got : h.msg = n

GoneInv == Settled /\ GivenInOrder /\ SomeLoop /\ InHand /\ HandledInOrder

LEMMA OutIs ==
  ASSUME SubInv, MsgInv, NEW m \in Messages, Out(m)
  PROVE  published[m] \in Events /\ published[m] # None
<1>1. CASE Given(m)
  BY <1>1, EventsAre DEF Given, MsgInv, MsgTypes, Belong
<1>2. ASSUME NEW s \in Subs, Carried(m, s)
      PROVE  published[m] \in Events /\ published[m] # None
  BY <1>2, CarriedIs
<1> QED BY <1>1, <1>2 DEF Out

(* What goes out of a stream in a step is given to a loop that asks.       *)
LEMMA OutBefore ==
  ASSUME SubInv, MsgInv, [Next]_vars, NEW m \in Messages,
         \/ Out(m)' /\ ~Out(m) /\ published'[m] \in StreamEvents
         \/ Given(m)' /\ ~Given(m)
  PROVE  \E s \in Subs, M \in SUBSET stored :
           /\ m \in M /\ M \subseteq Ready(event[s])
           /\ event[s] \in StreamEvents /\ state[s] \in {"open", "closing"}
           /\ consumers[event[s]] = policy[listener[s]]
           /\ NextOf(event[s], M)
           /\ \A n \in M : published[n] = event[s]
           /\ inbox' = inbox \cup {[sub |-> s, msg |-> n] : n \in M}
           /\ \/ consumers[event[s]].ack = "none" /\ stored' = stored \ M
              \/ awaiting' = awaiting \cup M /\ UNCHANGED stored
           /\ UNCHANGED <<subVars, published, seq, consumers, got>>
<1>1. \E s \in Subs : Fetch(s)
  <2>1. CASE Given(m)' /\ ~Given(m)
    BY <2>1, GivenBefore DEF Given
  <2>2. ASSUME NEW s \in Subs, Carried(m, s)', ~Carried(m, s), published'[m] \in StreamEvents
        PROVE  Fetch(s)
    <3>1. ASSUME NEW e \in Events \ StreamEvents, Publish(m, e) PROVE FALSE
      BY <2>2, <3>1, PublishEffect DEF MsgInv, MsgTypes
    <3> QED BY <2>2, <3>1, CarriedBefore
  <2> QED BY <2>1, <2>2 DEF Out
<1>2. PICK s \in Subs : Fetch(s)
  BY <1>1
<1>3. PICK M \in SUBSET Ready(event[s]) :
           /\ event[s] \in StreamEvents /\ state[s] \in {"open", "closing"}
           /\ consumers[event[s]] = policy[listener[s]]
           /\ M \subseteq stored /\ NextOf(event[s], M)
           /\ \A n \in M : published[n] = event[s]
           /\ inbox' = inbox \cup {[sub |-> s, msg |-> n] : n \in M}
           /\ again' = again \ M
           /\ \/ consumers[event[s]].ack = "none" /\ stored' = stored \ M /\ UNCHANGED awaiting
              \/ awaiting' = awaiting \cup M /\ UNCHANGED stored
           /\ UNCHANGED <<subVars, published, seq, consumers, got>>
  BY <1>2, FetchEffect
<1>4. ASSUME m \notin M PROVE Given(m)' => Given(m)
  BY <1>3, <1>4 DEF Given
<1>5. ASSUME m \notin M, NEW t \in Subs, Carried(m, t)' PROVE Carried(m, t)
  BY <1>3, <1>5 DEF Carried
<1>6. m \in M
  BY <1>4, <1>5 DEF Out
<1> QED BY <1>3, <1>6

(* What was given out stays so, until it is acknowledged.                  *)
LEMMA GivenStays ==
  ASSUME SubInv, MsgInv, [Next]_vars, NEW m \in stored', Given(m)
  PROVE  Given(m)'
<1>1. ASSUME NEW s \in Subs, Fetch(s) PROVE Given(m)'
  BY <1>1, FetchEffect DEF Given
<1>2. ASSUME NEW n \in Messages, Redeliver(n) PROVE Given(m)'
  BY <1>2 DEF Redeliver, Given
<1>3. ASSUME NEW h \in Subs, NEW n \in Messages, Ack(h, n) PROVE Given(m)'
  BY <1>3 DEF Ack, Given
<1>4. ASSUME UNCHANGED <<awaiting, again>> PROVE Given(m)'
  BY <1>4 DEF Given
<1> QED BY <1>1, <1>2, <1>3, <1>4, NextCases
        DEF On, AddConsumer, CreateConsumerResolves, CreateConsumerRejects, Off, Publish,
            Receive, Lose, Exit, jsVars, msgVars, vars

(* The number of a message stays.                                          *)
LEMMA SeqStays ==
  ASSUME MsgTypes, [Next]_vars, NEW m \in Messages, published[m] # None
  PROVE  seq'[m] = seq[m]
<1>1. ASSUME NEW n \in Messages, NEW e \in Events, Publish(n, e)
      PROVE  seq'[m] = seq[m]
  BY <1>1 DEF Publish, MsgTypes
<1>2. ASSUME UNCHANGED seq PROVE seq'[m] = seq[m]
  BY <1>2
<1> QED BY <1>1, <1>2, NextCases
        DEF On, AddConsumer, CreateConsumerResolves, CreateConsumerRejects, Off, Fetch, Receive,
            Lose, Redeliver, Ack, Exit, msgVars, vars

(* What is before a message in a stream was there when it was published.   *)
LEMMA StoredFirst ==
  ASSUME SubInv, MsgInv, [Next]_vars, NEW m \in Messages, published[m] # None,
         NEW n \in stored', published'[n] = published'[m], seq'[n] < seq'[m]
  PROVE  /\ n \in stored /\ n \in Messages
         /\ published[n] = published[m] /\ seq[n] < seq[m]
         /\ published'[n] = published[n] /\ published[n] \in StreamEvents
<1>1. MsgTypes /\ n \in Messages
  BY MsgTypesStep DEF MsgInv, MsgTypes
<1>2. published'[m] = published[m] /\ seq'[m] = seq[m]
  BY <1>1, PublishedStays, SeqStays
<1>3. n \in stored
  <2> SUFFICES ASSUME n \notin stored PROVE FALSE
    OBVIOUS
  <2>1. PICK e \in StreamEvents : Publish(n, e)
    BY StoredBefore
  <2>2. seq' = [seq EXCEPT ![n] = 1 + Cardinality(Numbers)]
    BY <1>1, <2>1, PublishEffect, EventsAre
  <2>3. Cardinality(Numbers) \in Nat /\ seq[m] \in Nat /\ seq[m] <= Cardinality(Numbers)
    BY <1>1, FS_CardinalityType DEF MsgInv, MsgTypes, Numbered
  <2>4. seq'[n] = 1 + Cardinality(Numbers)
    BY <1>1, <2>2 DEF MsgTypes
  <2> QED BY <1>2, <2>3, <2>4
<1>4. published[n] \in StreamEvents /\ published[n] # None
  BY <1>3, EventsAre DEF MsgInv, Belong
<1>5. published'[n] = published[n] /\ seq'[n] = seq[n]
  BY <1>1, <1>4, PublishedStays, SeqStays
<1> QED BY <1>1, <1>2, <1>3, <1>4, <1>5

LEMMA GivenInOrderStep ==
  ASSUME SubInv, MsgInv, GivenInOrder, [Next]_vars
  PROVE  GivenInOrder'
<1> SUFFICES ASSUME NEW m \in Messages, NEW n \in stored',
                    Out(m)', published'[n] = published'[m], seq'[n] < seq'[m]
             PROVE  Given(n)'
  BY DEF GivenInOrder
<1>1. published'[m] \in StreamEvents
  BY BelongStep DEF Belong
<1>2. CASE Out(m)
  <2>1. /\ n \in stored /\ published[n] = published[m] /\ seq[n] < seq[m]
    BY <1>2, OutIs, StoredFirst
  <2> QED BY <1>2, <2>1, GivenStays DEF GivenInOrder
<1>3. CASE ~Out(m)
  <2>1. PICK s \in Subs, M \in SUBSET stored :
           /\ m \in M /\ M \subseteq Ready(event[s])
           /\ NextOf(event[s], M)
           /\ \A k \in M : published[k] = event[s]
           /\ \/ stored' = stored \ M
              \/ awaiting' = awaiting \cup M
    BY <1>1, <1>3, OutBefore
  <2>2. published[m] = event[s] /\ published[m] # None
    BY <2>1, EventsAre DEF MsgInv, Belong
  <2>3. /\ n \in stored /\ published[n] = event[s] /\ seq[n] < seq[m]
    BY <2>2, StoredFirst
  <2>4. m \in M \cap Fresh(event[s])
    BY <1>3, <2>1, <2>2 DEF Ready, Fresh, Out, Given
  <2>5. CASE Given(n)
    BY <2>5, GivenStays
  <2>6. CASE ~Given(n)
    <3>1. n \in Fresh(event[s])
      BY <2>3, <2>6 DEF Fresh, Given
    <3>2. n \in M
      BY <2>1, <2>3, <2>4, <3>1 DEF NextOf
    <3> QED BY <2>1, <3>2 DEF Given
  <2> QED BY <2>5, <2>6
<1> QED BY <1>2, <1>3

LEMMA SomeLoopStep ==
  ASSUME SubInv, MsgInv, Settled, SomeLoop, [Next]_vars
  PROVE  SomeLoop'
<1> SUFFICES ASSUME NEW m \in Messages, Out(m)', NEW e \in StreamEvents, e = published'[m]
             PROVE  consumers'[e] # None /\ Loops(e)' # {}
  BY DEF SomeLoop, Loops
<1>1. MsgTypes /\ e \in Events
  BY EventsAre DEF MsgInv
<1>2. ASSUME consumers[e] # None, Loops(e) # {}
      PROVE  consumers'[e] # None /\ Loops(e)' # {}
  BY <1>1, <1>2, ConsumersStay, LoopsGrow
<1>3. CASE Out(m)
  <2>1. published[m] = e
    BY <1>1, <1>3, OutIs, PublishedStays
  <2> QED BY <1>2, <1>3, <2>1 DEF SomeLoop
<1>4. CASE ~Out(m)
  <2>1. PICK s \in Subs :
          /\ published[m] = event[s] /\ event[s] \in StreamEvents
          /\ state[s] \in {"open", "closing"}
          /\ consumers[event[s]] = policy[listener[s]]
          /\ UNCHANGED published
    BY <1>4, OutBefore
  <2>2. event[s] = e /\ s \in Loops(e)
    BY <2>1 DEF Loops
  <2>3. policy[listener[s]] \in Policy
    BY <2>1, SlotType DEF SubInv, SubTypes
  <2> QED BY <1>2, <2>1, <2>2, <2>3, EventsAre
<1> QED BY <1>3, <1>4

LEMMA GotGrows ==
  ASSUME [Next]_vars
  PROVE  got \subseteq got'
<1>1. ASSUME NEW s \in Subs, Receive(s) PROVE got \subseteq got'
  BY <1>1, ReceiveEffect DEF Emit
<1> QED BY <1>1, NextCases
        DEF On, AddConsumer, CreateConsumerResolves, CreateConsumerRejects, Off, Fetch, Publish,
            Lose, Redeliver, Ack, Exit, vars

(* The handler of the loop itself gets what the loop takes out.            *)
LEMMA EmitGives ==
  ASSUME NEW s \in handlers, NEW P, NEW p \in P, Emit(s, {q.msg : q \in P})
  PROVE  \E g \in got' : g.via = s /\ g.msg = p.msg
<1> DEFINE M == {q.msg : q \in P}
           H == {h \in handlers : Same(h, s)}
<1>1. s \in H /\ p.msg \in M
  BY DEF Same
<1>2. got' = got \cup {[handler |-> h, msg |-> m, via |-> s] : h \in H, m \in M}
  BY DEF Emit
<1>3. [handler |-> s, msg |-> p.msg, via |-> s] \in got'
  <2> HIDE DEF H, M
  <2> QED BY <1>1, <1>2
<1> QED BY <1>3

(* One loop for all, as it is and as it was.                               *)
LEMMA OneForAllBefore ==
  ASSUME SubInv, MsgInv, Settled, [Next]_vars, NEW e \in StreamEvents, consumers[e] # None,
         consumers'[e].ack = "all", Single(Loops(e)')
  PROVE  OneForAll(e) /\ Loops(e) \subseteq Loops(e)'
<1>1. Loops(e) \subseteq Loops(e)'
  BY EventsAre, LoopsGrow
<1>2. consumers'[e] = consumers[e]
  BY ConsumersStay DEF MsgInv
<1> QED BY <1>1, <1>2 DEF OneForAll, Single

(* A loop of a stream keeps what it has, or gives it to its handler.       *)
LEMMA CarriedStays ==
  ASSUME SubInv, MsgInv, [Next]_vars, NEW m \in Messages, NEW s \in Subs,
         Carried(m, s), IsStream(s), s \in handlers, state'[s] \in {"open", "closing"}
  PROVE  Carried(m, s)'
<1>1. SubTypes /\ MsgTypes /\ state[s] # "unused"
  BY DEF SubInv, MsgInv, Used
<1>2. ASSUME NEW g \in got, g.via = s, g.msg = m PROVE Carried(m, s)'
  BY <1>2, GotGrows DEF Carried
<1>3. ASSUME NEW p \in inbox, p.sub = s, p.msg = m PROVE Carried(m, s)'
  <2>1. CASE p \in inbox'
    BY <1>3, <2>1 DEF Carried
  <2>2. ASSUME p \notin inbox', NEW t \in Subs, Receive(t) PROVE Carried(m, s)'
    <3>1. PICK P \in SUBSET Inbox(t) :
            /\ inbox' = inbox \ P
            /\ \/ Done(t) /\ Ended(t)
               \/ ~Done(t) /\ Emit(t, {q.msg : q \in P})
      BY <2>2, ReceiveEffect
    <3>2. p \in P /\ t = s
      BY <1>3, <2>2, <3>1 DEF Inbox
    <3>3. Emit(s, {q.msg : q \in P})
      BY <1>1, <3>1, <3>2 DEF Ended, SubTypes
    <3> QED BY <1>3, <3>2, <3>3, EmitGives DEF Carried
  <2>3. ASSUME p \notin inbox', NEW q \in inbox, Lose(q) PROVE FALSE
    BY <1>3, <2>3 DEF Lose
  <2>4. ASSUME p \notin inbox', NEW c \in Clients, Exit(c) PROVE FALSE
    BY <1>1, <1>3, <2>4 DEF Exit, SubTypes
  <2>5. ASSUME NEW n \in Messages, NEW e \in Events, Publish(n, e) PROVE p \in inbox'
    BY <1>3, <2>5 DEF Publish
  <2>6. ASSUME NEW t \in Subs, Fetch(t) PROVE p \in inbox'
    BY <1>3, <2>6 DEF Fetch
  <2> QED BY <1>3, <2>1, <2>2, <2>3, <2>4, <2>5, <2>6, NextCases
          DEF On, AddConsumer, CreateConsumerResolves, CreateConsumerRejects, Off, Redeliver,
              Ack, msgVars, vars
<1> QED BY <1>2, <1>3 DEF Carried

LEMMA InHandStep ==
  ASSUME SubInv, MsgInv, Settled, SomeLoop, InHand, [Next]_vars
  PROVE  InHand'
<1> SUFFICES ASSUME NEW m \in stored', Given(m)', NEW e, e = published'[m],
                    consumers'[e].ack = "all", Single(Loops(e)'),
                    NEW s \in Loops(e)', s \in handlers', state'[s] \in {"open", "closing"}
             PROVE  Carried(m, s)'
  BY DEF InHand, OneForAll, Loops
<1>1. MsgTypes /\ SubTypes
  BY DEF SubInv, MsgInv
<1>2. m \in stored /\ m \in Messages
  BY <1>1, GivenBefore DEF Given, MsgTypes
<1>3. published[m] \in StreamEvents /\ published[m] \in Events /\ published[m] # None
  BY <1>2, EventsAre DEF MsgInv, Belong
<1>4. published[m] = e /\ e \in StreamEvents /\ e \in Events
  BY <1>1, <1>2, <1>3, PublishedStays
<1>5. CASE Given(m)
  <2>1. consumers[e] # None /\ Loops(e) # {}
    BY <1>2, <1>4, <1>5 DEF SomeLoop, Out
  <2>2. OneForAll(e) /\ Loops(e) \subseteq Loops(e)'
    BY <1>4, <2>1, OneForAllBefore
  <2>3. s \in Loops(e)
    BY <2>1, <2>2 DEF Single
  <2>4. s \in Subs /\ event[s] = e /\ state[s] \notin {"unused", "creating", "failed"}
    BY <1>4, <2>3, LoopIs
  <2>5. state[s] \in {"open", "closing"} /\ s \in handlers
    BY <2>4, PastOn
  <2>6. Carried(m, s) /\ IsStream(s)
    BY <1>2, <1>4, <1>5, <2>2, <2>3, <2>4, <2>5 DEF InHand, IsStream
  <2> QED BY <1>2, <2>4, <2>5, <2>6, CarriedStays
<1>6. CASE ~Given(m)
  <2>1. PICK t \in Subs, M \in SUBSET stored :
          /\ m \in M /\ state[t] \in {"open", "closing"}
          /\ \A n \in M : published[n] = event[t]
          /\ inbox' = inbox \cup {[sub |-> t, msg |-> n] : n \in M}
          /\ UNCHANGED subVars
    BY <1>2, <1>6, OutBefore
  <2>2. t \in Loops(e)'
    BY <1>4, <2>1 DEF Loops, subVars
  <2>3. t = s
    BY <2>2 DEF Single
  <2>4. [sub |-> s, msg |-> m] \in inbox'
    BY <2>1, <2>3
  <2> QED BY <2>4 DEF Carried
<1> QED BY <1>5, <1>6

(* What a handler with one loop for all gets next is after what it had.    *)
LEMMA HandledNext ==
  ASSUME SubInv, MsgInv, InboxLive, GoneInv, [Next]_vars,
         NEW g \in got', g \notin got, NEW n \in stored, published[n] = published[g.msg],
         seq[n] < seq[g.msg], OneForAll(published[n])
  PROVE  \E h \in got' : h.msg = n
<1> DEFINE s == g.via
           e == published[n]
<1>1. MsgTypes /\ SubTypes
  BY DEF SubInv, MsgInv
<1>2. /\ s \in Subs /\ Receive(s) /\ ~Done(s) /\ UNCHANGED subVars
      /\ g.handler \in handlers /\ Same(g.handler, s)
  BY GotBefore
<1>3. PICK p \in inbox : p.sub = s /\ p.msg = g.msg
  BY GotBefore
<1>4. event[s] = e /\ IsStream(s) /\ e \in StreamEvents /\ e \in Events /\ n \in Messages
  BY <1>1, <1>3, EventsAre DEF MsgInv, Belong, IsStream, MsgTypes
<1>5. state[s] \in {"open", "closing"}
  BY <1>2, <1>3, <1>4 DEF InboxLive, Inbox
<1>6. s \in Loops(e) /\ g.handler \in Loops(e)
  BY <1>1, <1>2, <1>4, <1>5 DEF Loops, Same, GoneInv, Settled, SubTypes
<1>7. s \in handlers
  BY <1>2, <1>6 DEF OneForAll, Single
<1>8. Given(n)
  <2>1. g.msg \in Messages /\ Out(g.msg)
    BY <1>1, <1>2, <1>3 DEF Out, Carried, MsgTypes
  <2> QED BY <2>1 DEF GoneInv, GivenInOrder
<1>9. Carried(n, s)
  BY <1>5, <1>6, <1>7, <1>8 DEF GoneInv, InHand
<1>10. ASSUME NEW h \in got, h.msg = n PROVE \E k \in got' : k.msg = n
  BY <1>2, <1>10 DEF Receive, Emit
<1>11. ASSUME NEW q \in inbox, q.sub = s, q.msg = n PROVE \E h \in got' : h.msg = n
  <2>1. listener[s] \in Listeners /\ consumers[e] = policy[listener[s]]
    BY <1>2, <1>4, <1>5, SlotType DEF MsgInv, Consuming
  <2>2. policy[listener[s]].ack = "all" /\ policy[listener[s]] \in Options[listener[s]]
    BY <2>1 DEF OneForAll, GoneInv, Settled
  <2>3. IsBatch(s)
    BY <1>4, <2>1, <2>2, ListenersAssumption DEF IsBatch
  <2>4. PICK P \in SUBSET Inbox(s) :
          /\ P = Inbox(s)
          /\ Emit(s, {r.msg : r \in P})
    BY <1>2, <2>3, ReceiveEffect
  <2>5. q \in P
    BY <1>11, <2>4 DEF Inbox
  <2> QED BY <1>7, <1>11, <2>4, <2>5, EmitGives
<1> QED BY <1>9, <1>10, <1>11 DEF Carried

LEMMA HandledInOrderStep ==
  ASSUME SubInv, MsgInv, InboxLive, GoneInv, [Next]_vars
  PROVE  HandledInOrder'
<1> SUFFICES ASSUME NEW g \in got', NEW n \in stored', published'[n] = published'[g.msg],
                    seq'[n] < seq'[g.msg],
                    NEW e, e = published'[n], consumers'[e].ack = "all", Single(Loops(e)')
             PROVE  \E h \in got' : h.msg = n
  BY DEF HandledInOrder, OneForAll, Loops
<1>1. g.msg \in Messages
  BY MsgTypesStep DEF MsgTypes
<1>2. Out(g.msg)
  <2>1. CASE g \in got
    BY <2>1 DEF Out, Carried, MsgInv, MsgTypes
  <2>2. CASE g \notin got
    BY <2>2, GotBefore DEF Out, Carried
  <2> QED BY <2>1, <2>2
<1>3. /\ n \in stored /\ published[n] = published[g.msg] /\ seq[n] < seq[g.msg]
      /\ published[n] = e /\ e \in StreamEvents
  BY <1>1, <1>2, OutIs, StoredFirst
<1>4. consumers[e] # None
  BY <1>1, <1>2, <1>3 DEF GoneInv, SomeLoop
<1>5. OneForAll(e)
  BY <1>3, <1>4, OneForAllBefore DEF GoneInv
<1>6. CASE g \in got
  <2>1. PICK h \in got : h.msg = n
    BY <1>3, <1>5, <1>6 DEF GoneInv, HandledInOrder
  <2> QED BY <2>1, GotGrows
<1>7. CASE g \notin got
  BY <1>3, <1>5, <1>7, HandledNext
<1> QED BY <1>6, <1>7

LEMMA GoneInvariant == Spec => [](SubInv /\ MsgInv /\ OnceInv /\ GoneInv)
<1>1. Init => GoneInv
  <2> SUFFICES ASSUME Init PROVE GoneInv
    OBVIOUS
  <2>1. inbox = {} /\ got = {} /\ awaiting = {} /\ again = {} /\ stored = {}
    BY DEF Init
  <2>2. \A m \in Messages : ~Out(m)
    BY <2>1 DEF Out, Given, Carried
  <2>3. Settled
    BY DEF Init, Settled
  <2> QED BY <2>1, <2>2, <2>3
          DEF GoneInv, GivenInOrder, SomeLoop, InHand, HandledInOrder
<1>2. SubInv /\ MsgInv /\ OnceInv /\ GoneInv /\ [Next]_vars => GoneInv'
  BY SettledStep, GivenInOrderStep, SomeLoopStep, InHandStep, HandledInOrderStep
     DEF GoneInv, OnceInv
<1> QED BY <1>1, <1>2, OnceInvariant, PTL DEF Spec

(* A message of a stream goes out of it only when a handler has had it,    *)
(* but for what deliverNew, ackNone, and ackAll of several loops do not    *)
(* wait for (StreamManager.createConsumer, lines 114-150).                 *)
THEOREM HandledThenGone == Spec => HandledBeforeGone
<1>1. SubInv /\ MsgInv /\ GoneInv /\ [Next]_vars => HandledIfGone
  <2> SUFFICES ASSUME SubInv, MsgInv, GoneInv, [Next]_vars, NEW m \in stored \ stored',
                      NEW c, c = consumers[published[m]],
                      c # None, c.ack # "none", c.ack = "all" => Single(Loops(published[m]))
               PROVE  \E g \in got : g.msg = m
    BY DEF HandledIfGone
  <2>1. ASSUME NEW s \in Subs, AddConsumer(s) PROVE FALSE
    BY <2>1 DEF AddConsumer
  <2>2. ASSUME NEW s \in Subs, Fetch(s) PROVE FALSE
    BY <2>2, FetchEffect
  <2>3. ASSUME NEW h \in Subs, NEW n \in Messages, Ack(h, n)
        PROVE  \E g \in got : g.msg = m
    <3>1. PICK g \in got : g.msg = n
      BY <2>3 DEF Ack
    <3>2. /\ published[m] = published[n]
          /\ m = n \/ (c.ack = "all" /\ seq[m] < seq[n])
      BY <2>3 DEF Ack, Acknowledged
    <3> QED BY <3>1, <3>2 DEF GoneInv, HandledInOrder, OneForAll
  <2>4. ASSUME stored \subseteq stored' PROVE FALSE
    BY <2>4
  <2> QED BY <2>1, <2>2, <2>3, <2>4, NextCases
          DEF On, CreateConsumerResolves, CreateConsumerRejects, Off, Publish, Receive, Lose,
              Redeliver, Exit, jsVars, msgVars, vars
<1> QED BY <1>1, GoneInvariant, PTL DEF Spec, HandledBeforeGone

================================================================================

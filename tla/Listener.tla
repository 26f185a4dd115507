-------------------------------- MODULE Listener --------------------------------
(***************************************************************************)
(* Listening to the events of a service: Client.getListener with its on    *)
(* and off, the loops startWatch and startBatchWatch, and the fetchers     *)
(* StreamSingleMsgFetcher and StreamBatchMsgFetcher.  An event is either   *)
(* published to whoever is subscribed (core NATS) or kept in a stream      *)
(* until a handler acknowledges it (JetStream).                            *)
(*                                                                         *)
(* A client keeps its subscriptions in a Map by the name of the event,     *)
(* whichever of its listeners they were made for.                          *)
(***************************************************************************)
EXTENDS Naturals, FiniteSets

CONSTANTS
  Clients,         \* client objects, each in a process of its own
  Listeners,       \* what getListener returned
  ClientOf,        \* the client each listener belongs to
  QueueListeners,  \* listeners with options.queue, all the same queue
  BatchListeners,  \* listeners with options.batch
  Options,         \* what else the options of each may be, see Policy
  Events,
  StreamEvents,    \* events with options.stream
  Subs,            \* the calls of on, each made once, with a handler each
  Messages,        \* what is published, each once
  None

Policy == [ack : {"explicit", "all", "none"}, deliver : {"all", "new"}]

ASSUME ListenersAssumption ==
  /\ ClientOf \in [Listeners -> Clients]
  /\ QueueListeners \subseteq Listeners
  /\ BatchListeners \subseteq Listeners
  /\ Options \in [Listeners -> SUBSET Policy]
  /\ \A l \in Listeners \ BatchListeners : \A o \in Options[l] : o.ack = "explicit"
ASSUME EventsAssumption == StreamEvents \subseteq Events
ASSUME NoneAssumption == None \notin Subs \cup Listeners \cup Events \cup Policy

VARIABLES
  policy,         \* the options of each listener
  state,          \* where each call of on, and the loop it starts, is
  listener,       \* the listener it was made on
  event,          \* the event it was made for
  subscriptions,  \* the Map of that name, of each client
  handlers,       \* the calls of on whose handler is attached
  published,      \* the event that each message was published as
  seq,            \* the number of each in the order of those in streams
  inbox,          \* messages on their way to the loop of a subscription
  consumers,      \* the policy of the durable consumer of each stream event
  stored,         \* messages of streams, not acknowledged
  awaiting,       \* those that were given out and wait to be acknowledged
  again,          \* those that were not in time, and are to be given out again
  got,            \* history: which handler got which message from which loop
  untidy          \* history: the events of a client whose on and off were
                  \*   not called in turn

subVars == <<policy, state, listener, event, subscriptions, handlers>>
jsVars  == <<consumers, stored, awaiting, again>>
msgVars == <<published, seq, inbox, jsVars>>
vars == <<subVars, msgVars, got, untidy>>

Slots == Clients \X Events

(* The key of the Map entry that call s of on uses.                        *)
Slot(s) == <<ClientOf[listener[s]], event[s]>>

Same(s, t) == listener[s] = listener[t] /\ event[s] = event[t]

TypeOK ==
  /\ policy \in [Listeners -> Policy]
  /\ state \in [Subs -> {"unused", "creating", "open", "closing", "closed", "failed", "dead"}]
  /\ listener \in [Subs -> Listeners \cup {None}]
  /\ event \in [Subs -> Events \cup {None}]
  /\ subscriptions \in [Slots -> Subs \cup {None}]
  /\ handlers \subseteq Subs
  /\ published \in [Messages -> Events \cup {None}]
  /\ inbox \subseteq [sub : Subs, msg : Messages]
  /\ stored \subseteq Messages
  /\ awaiting \subseteq stored /\ again \subseteq stored /\ again \cap awaiting = {}
  /\ seq \in [Messages -> Nat]
  /\ consumers \in [StreamEvents -> Policy \cup {None}]
  /\ got \subseteq [handler : Subs, msg : Messages, via : Subs]
  /\ untidy \subseteq Slots
  /\ \A x \in Slots : subscriptions[x] # None =>
       state[subscriptions[x]] = "open" /\ Slot(subscriptions[x]) = x

Init ==
  /\ policy \in {p \in [Listeners -> Policy] : \A l \in Listeners : p[l] \in Options[l]}
  /\ state = [s \in Subs |-> "unused"]
  /\ listener = [s \in Subs |-> None]
  /\ event = [s \in Subs |-> None]
  /\ subscriptions = [x \in Slots |-> None]
  /\ handlers = {}
  /\ published = [m \in Messages |-> None]
  /\ seq = [m \in Messages |-> 0]
  /\ inbox = {}
  /\ consumers = [e \in StreamEvents |-> None]
  /\ stored = {}
  /\ awaiting = {}
  /\ again = {}
  /\ got = {}
  /\ untidy = {}

--------------------------------------------------------------------------------
(***************************************************************************)
(* on                                                                      *)
(***************************************************************************)

(* Some call of on for x waits for its consumer.                           *)
Creating(x) == \E s \in Subs : state[s] = "creating" /\ Slot(s) = x

(* The subscription is there: it goes to the Map, its loop starts, and the *)
(* handler is attached to the emitter.                                     *)
Opened(s, x) ==
  /\ state' = [state EXCEPT ![s] = "open"]
  /\ subscriptions' = [subscriptions EXCEPT ![x] = s]
  /\ handlers' = handlers \cup {s}

(* on: for a stream the rest has to wait for createConsumer.               *)
On(s, l, e) ==
  LET x == <<ClientOf[l], e>>
  IN  /\ state[s] = "unused"
      /\ listener' = [listener EXCEPT ![s] = l]
      /\ UNCHANGED policy
      /\ event' = [event EXCEPT ![s] = e]
      /\ \/ /\ e \in StreamEvents
            /\ state' = [state EXCEPT ![s] = "creating"]
            /\ UNCHANGED <<subscriptions, handlers>>
         \/ /\ e \notin StreamEvents
            /\ Opened(s, x)
      /\ untidy' = untidy \cup {y \in {x} : subscriptions[x] # None \/ Creating(x)}
      /\ UNCHANGED <<msgVars, got>>

(* createConsumer makes the consumer that all listeners of a service to an *)
(* event have in common, with the policies of the first of them; that of   *)
(* deliverNew does not get what is in the stream by then.                  *)
AddConsumer(s) ==
  LET p == policy[listener[s]]
  IN  /\ state[s] = "creating"
      /\ consumers[event[s]] = None
      /\ consumers' = [consumers EXCEPT ![event[s]] = p]
      /\ stored' = IF p.deliver = "new" THEN {m \in stored : published[m] # event[s]}
                                        ELSE stored
      /\ UNCHANGED <<subVars, published, seq, inbox, awaiting, again, got, untidy>>

(* The policies of a consumer that is there are not changed: the broker    *)
(* refuses another one, and createConsumer rejects.                        *)
CreateConsumerResolves(s) ==
  /\ state[s] = "creating"
  /\ consumers[event[s]] = policy[listener[s]]
  /\ Opened(s, Slot(s))
  /\ UNCHANGED <<policy, listener, event, msgVars, got, untidy>>

(* createConsumer rejected, and on with it.                                *)
CreateConsumerRejects(s) ==
  /\ state[s] = "creating"
  /\ state' = [state EXCEPT ![s] = "failed"]
  /\ UNCHANGED <<policy, listener, event, subscriptions, handlers, msgVars, got, untidy>>

--------------------------------------------------------------------------------
(***************************************************************************)
(* off                                                                     *)
(***************************************************************************)

IsStream(s) == event[s] \in StreamEvents
IsBatch(s)  == IsStream(s) /\ listener[s] \in BatchListeners

(* Mutant: off does not unsubscribe. *)
Unsubscribed_Not(s) == "open"

(* subscription.unsubscribe(): a subscription of core NATS ends, the loop  *)
(* of a single fetcher only notes that it is to end.                       *)
Unsubscribed(s) == IF IsStream(s) THEN "closing" ELSE "closed"

(* this.subscriptions.delete                                               *)
Forget(x) == subscriptions' = [subscriptions EXCEPT ![x] = None]

(* off, with the listener, the event and the handler of call h of on.  A   *)
(* batch fetcher has no unsubscribe: off throws.                           *)
Off(h) ==
  LET x   == Slot(h)
      cur == subscriptions[x]
  IN  /\ state[h] \notin {"unused", "dead"}
      /\ \/ /\ cur = None
            /\ handlers' = handlers \ {h}
            /\ UNCHANGED <<state, subscriptions>>
         \/ /\ cur # None /\ IsBatch(cur)
            /\ UNCHANGED <<state, subscriptions, handlers>>
         \/ /\ cur # None /\ ~IsBatch(cur)
            /\ state' = [state EXCEPT ![cur] = Unsubscribed(cur)]
            /\ Forget(x)
            /\ handlers' = handlers \ {h}
      /\ untidy' = untidy \cup
           {y \in {x} : Creating(x) \/ (cur # None /\ (cur # h \/ IsBatch(cur)))}
      /\ UNCHANGED <<policy, listener, event, msgVars, got>>

--------------------------------------------------------------------------------
(***************************************************************************)
(* The broker, as the code uses it                                         *)
(***************************************************************************)

(* The sets of subscriptions that the broker may give a message of e to:   *)
(* all of those without a queue, and one of the queue.                     *)
Recipients(e) ==
  LET open   == {s \in Subs : state[s] = "open" /\ event[s] = e}
      queued == {s \in open : listener[s] \in QueueListeners}
  IN  IF queued = {} THEN {open}
      ELSE {(open \ queued) \cup {s} : s \in queued}

Publish(m, e) ==
  /\ published[m] = None
  /\ published' = [published EXCEPT ![m] = e]
  /\ \/ /\ e \in StreamEvents
        /\ seq' = [seq EXCEPT ![m] = 1 + Cardinality({n \in Messages : seq[n] # 0})]
        /\ stored' = stored \cup {m}
        /\ UNCHANGED inbox
     \/ /\ e \notin StreamEvents
        /\ \E to \in Recipients(e) :
             inbox' = inbox \cup {[sub |-> s, msg |-> m] : s \in to}
        /\ UNCHANGED <<seq, stored>>
  /\ UNCHANGED <<subVars, consumers, awaiting, again, got, untidy>>

(* Core NATS: a message is lost, or is still on its way when unsubscribed. *)
Lose(p) ==
  /\ ~IsStream(p.sub)
  /\ inbox' = inbox \ {p}
  /\ UNCHANGED <<subVars, published, seq, jsVars, got, untidy>>

(* Nobody acknowledged m in time, or its handler refused it.               *)
Redeliver(m) ==
  /\ m \in awaiting
  /\ awaiting' = awaiting \ {m}
  /\ again' = again \cup {m}
  /\ UNCHANGED <<subVars, published, seq, inbox, consumers, stored, got, untidy>>

(* Mutant: what has come before m is acknowledged with it, anyway. *)
Acknowledged_All(m) == {n \in stored : published[n] = published[m] /\ seq[n] <= seq[m]}

(* What an acknowledgement of m is for: with ackAll for all before it, too,*)
(* whoever they were given to.                                             *)
Acknowledged(m) ==
  {n \in stored :
     /\ published[n] = published[m]
     /\ n = m \/ (consumers[published[m]].ack = "all" /\ seq[n] < seq[m])}

(* The handler h acknowledges m.                                           *)
Ack(h, m) ==
  /\ \E g \in got : g.handler = h /\ g.msg = m
  /\ state[h] # "dead"
  /\ m \in stored
  /\ stored' = stored \ Acknowledged(m)
  /\ awaiting' = awaiting \ Acknowledged(m)
  /\ again' = again \ Acknowledged(m)
  /\ UNCHANGED <<subVars, published, seq, inbox, consumers, got, untidy>>

--------------------------------------------------------------------------------
(***************************************************************************)
(* The loops startWatch and startBatchWatch                                *)
(***************************************************************************)

Inbox(s) == {p \in inbox : p.sub = s}

Single(S) == \A x, y \in S : x = y

(* What the consumer may give out: what is to be given out again, and, in  *)
(* order, what was not given out before.                                   *)
Fresh(e) == {m \in stored \ (awaiting \cup again) : published[m] = e}
Ready(e) == {m \in again : published[m] = e} \cup Fresh(e)
NextOf(e, M) == \A m \in M \cap Fresh(e), n \in Fresh(e) : seq[n] < seq[m] => n \in M

(* The loop of a stream asks for the next message, or the next batch, when *)
(* it is through with the last.  All listeners of a service have one       *)
(* consumer in common: its name is made of the names of service and event. *)
Fetch(s) ==
  LET e == event[s]
  IN  /\ IsStream(s)
      /\ state[s] \in {"open", "closing"}
      /\ Inbox(s) = {}
      /\ \E M \in SUBSET Ready(e) :
           /\ M # {} /\ NextOf(e, M)
           /\ ~IsBatch(s) => Single(M)
           /\ inbox' = inbox \cup {[sub |-> s, msg |-> m] : m \in M}
           /\ again' = again \ M
           /\ \/ /\ consumers[e].ack = "none"
                 /\ stored' = stored \ M
                 /\ UNCHANGED awaiting
              \/ /\ consumers[e].ack # "none"
                 /\ awaiting' = awaiting \cup M
                 /\ UNCHANGED stored
      /\ UNCHANGED <<subVars, published, seq, consumers, got, untidy>>

(* Mutant: the fetcher does not look at done. *)
Done_Ignored(s) == FALSE /\ state[s] = "closing"

(* { value, done: this.done }                                              *)
Done(s) == IsStream(s) /\ state[s] = "closing"

(* Mutant: the loop drops the message and goes on. *)
Ended_Not(s) == UNCHANGED state /\ state[s] = "closing"

Ended(s) == state' = [state EXCEPT ![s] = "closed"]

(* listener.emit: to all handlers that the listener has for the event.     *)
Emit(s, M) ==
  got' = got \cup {[handler |-> h, msg |-> m, via |-> s] :
                     h \in {h \in handlers : Same(h, s)}, m \in M}

(* The loop gets what was on its way.  A fetcher that is done ends with    *)
(* the message in its hand, which no handler sees.                         *)
Receive(s) ==
  \E P \in SUBSET Inbox(s) :
    /\ P # {}
    /\ IF IsBatch(s) THEN P = Inbox(s) ELSE Single(P)
    /\ inbox' = inbox \ P
    /\ \/ /\ Done(s)
          /\ Ended(s)
          /\ UNCHANGED got
       \/ /\ ~Done(s)
          /\ Emit(s, {p.msg : p \in P})
          /\ UNCHANGED state
    /\ UNCHANGED <<policy, listener, event, subscriptions, handlers, published, seq,
                   jsVars, untidy>>

(* The process of client c ends: by a signal, or because a handler threw   *)
(* and nobody catches what startWatch rejects with.                        *)
Exit(c) ==
  LET gone == {s \in Subs : state[s] # "unused" /\ ClientOf[listener[s]] = c}
  IN  /\ \E s \in gone : state[s] # "dead"
      /\ state' = [s \in Subs |-> IF s \in gone THEN "dead" ELSE state[s]]
      /\ subscriptions' = [x \in Slots |-> IF x[1] = c THEN None ELSE subscriptions[x]]
      /\ handlers' = handlers \ gone
      /\ inbox' = {p \in inbox : p.sub \notin gone}
      /\ UNCHANGED <<policy, listener, event, published, seq, jsVars, got, untidy>>

--------------------------------------------------------------------------------
Next ==
  \/ \E s \in Subs, l \in Listeners, e \in Events : On(s, l, e)
  \/ \E s \in Subs :
       \/ AddConsumer(s)
       \/ CreateConsumerResolves(s)
       \/ CreateConsumerRejects(s)
       \/ Off(s)
       \/ Fetch(s)
       \/ Receive(s)
  \/ \E m \in Messages, e \in Events : Publish(m, e)
  \/ \E p \in inbox : Lose(p)
  \/ \E m \in Messages : Redeliver(m)
  \/ \E h \in Subs, m \in Messages : Ack(h, m)
  \/ \E c \in Clients : Exit(c)

Spec == Init /\ [][Next]_vars

(* Loops go on, the broker gives out again what was not acknowledged, and  *)
(* handlers acknowledge what they get.                                     *)
Fairness ==
  /\ \A s \in Subs : WF_vars(Fetch(s)) /\ WF_vars(Receive(s))
  /\ \A m \in Messages : WF_vars(Redeliver(m))
  /\ \A h \in Subs, m \in Messages : WF_vars(Ack(h, m))

FairSpec == Spec /\ Fairness

--------------------------------------------------------------------------------
(***************************************************************************)
(* Properties                                                              *)
(***************************************************************************)

(* As long as a client's listeners take turns at an event (one on, awaited,*)
(* then its own off, then the next), a subscription of the event is open   *)
(* exactly while its handler is attached, and the Map has it: nothing      *)
(* leaks, over failures and restarts (Client.getListener, lines 141-191).  *)
TakingTurnsIsTidy ==
  \A s \in Subs : state[s] # "unused" /\ Slot(s) \notin untidy =>
    /\ state[s] = "open" <=> s \in handlers
    /\ state[s] = "open" <=> subscriptions[Slot(s)] = s

(* Then, too, a handler gets a message from one loop only: with core NATS  *)
(* once, from a stream again only if it is given out again                 *)
(* (Client.startWatch, startBatchWatch, StreamSingleMsgFetcher).           *)
OnceIfTidy ==
  \A g, h \in got :
    (g.handler = h.handler /\ g.msg = h.msg /\ Slot(g.handler) \notin untidy)
      => g.via = h.via

(* A message in a stream, an event of which some listener handles, tidily. *)
Waiting(m) ==
  /\ m \in stored
  /\ \E s \in Subs : /\ s \in handlers
                     /\ state[s] = "open"
                     /\ event[s] = published[m]
  /\ \A c \in Clients : <<c, published[m]>> \notin untidy

(* No message of a stream waits for ever while somebody listens, though    *)
(* fetchers that were unsubscribed take messages and drop them, and        *)
(* processes exit with messages in hand (StreamSingleMsgFetcher, 10-25).   *)
StreamEventsHandled == \A m \in Messages : []<>~Waiting(m)

(* The calls of on for e that got as far as a loop.                        *)
Loops(e) == {s \in Subs : event[s] = e /\ state[s] \notin {"creating", "failed"}}

(* What goes out of the streams in a step has been handled, or need not be.*)
HandledIfGone ==
  \A m \in stored \ stored' :
    \/ \E g \in got : g.msg = m
    \/ LET c == consumers[published[m]]
       IN  \/ c = None
           \/ c.ack = "none"
           \/ c.ack = "all" /\ ~Single(Loops(published[m]))

(* A message of a stream is gone only when a handler has had it, through   *)
(* redelivery, processes that exit and listeners that share the consumer;  *)
(* but for what a consumer with deliverNew passes over when it is made,    *)
(* for ackNone, and for ackAll with more than one loop: there the handler  *)
(* of one acknowledges what the other has in hand                          *)
(* (StreamManager.createConsumer, lines 114-150).                          *)
HandledBeforeGone == [][HandledIfGone]_vars

================================================================================

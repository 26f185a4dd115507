--------------------------------- MODULE Streams ---------------------------------
(***************************************************************************)
(* The streams of a service's events: how its replicas, as they start,     *)
(* create and update them (StreamManager.createStreams), how listeners find*)
(* them and create the consumer they share (createConsumer), and what of   *)
(* the events that are emitted meanwhile gets into them.  Each call of the *)
(* broker is a step; between two, others make theirs.                      *)
(***************************************************************************)
EXTENDS Integers, Sequences

CONSTANTS
  Replicas,    \* of the emitting service
  Version,     \* the version of the service that each of them is
  Actions,     \* streamOptions.actions of each version, a sequence
  Fixed,       \* what of a stream as a version configures it no update of it can
               \*   change: its storage, its retention policy
  Events,      \* names of events with options.stream
  Listeners,   \* calls of on by processes of one listening service
  EventOf,     \* the event that each of them is for
  Setting,     \* the settings it gives its consumer
  None

ASSUME ActionsAssumption ==
  /\ DOMAIN Version = Replicas
  /\ \A r \in Replicas : Actions[Version[r]] \in Seq({"*", ">"} \cup Events)
(* What a version lists does not overlap: it could never start.            *)
ASSUME NoOverlapAssumption ==
  \A r \in Replicas : \A i, j \in DOMAIN Actions[Version[r]] :
    i # j => /\ Actions[Version[r]][i] # Actions[Version[r]][j]
             /\ Actions[Version[r]][i] \in Events
ASSUME ListenersAssumption == EventOf \in [Listeners -> Events] /\ DOMAIN Setting = Listeners
ASSUME NamesAssumption == {"*", ">", "all"} \cap Events = {}

Versions == {Version[r] : r \in Replicas}
Settings == {Setting[l] : l \in Listeners}
Configs  == [action : {"*", ">"} \cup Events, version : Versions]

ASSUME NoneAssumption == None \notin Settings \cup Versions \cup Configs
ASSUME FixedAssumption == DOMAIN Fixed = Configs

--------------------------------------------------------------------------------
(***************************************************************************)
(* Subjects, without the names of service and prefix that all begin with   *)
(***************************************************************************)

(* A stream is named for its action, and has one subject, the action.      *)
StreamName(action) == IF action \in {"*", ">"} THEN "all" ELSE action

Names == {StreamName(a) : a \in {"*"} \cup Events}

(* What NATS takes for a match of a subject with a pattern, which may have *)
(* the token * for any one token, and > at its end for any one or more.    *)
Matches(pattern, subject) ==
  LET n == Len(pattern)
      Fits(i) == pattern[i] \in {"*", subject[i]}
  IN  \/ pattern[n] = ">" /\ Len(subject) >= n /\ \A i \in 1 .. n - 1 : Fits(i)
      \/ pattern[n] # ">" /\ Len(subject) = n /\ \A i \in 1 .. n : Fits(i)

(* The subject of an event, which ends in a rollup id or in "base".        *)
Subject(e) == <<e, "base">>

(* Some subject matches both actions: NATS refuses a second such stream.   *)
Overlap(a, b) == a = b \/ "*" \in {a, b} \/ ">" \in {a, b}

(* Version v of the service has one stream for all events, with the action *)
(* that is for all of them, or with that or *.                             *)
ForAll(v) == \E i \in DOMAIN Actions[v] : Actions[v][i] = ">"
Wild(v)   == \E i \in DOMAIN Actions[v] : Actions[v][i] \in {"*", ">"}

(* The stream of a version's action as it configures it.                   *)
ConfigOf(v, i) == [action |-> Actions[v][i], version |-> v]

(* The stream named n as v has it cannot become what w has it, by an update*)
Differ(v, w, n) ==
  \E i \in DOMAIN Actions[v], j \in DOMAIN Actions[w] :
    /\ {StreamName(Actions[v][i]), StreamName(Actions[w][j])} = {n}
    /\ Fixed[ConfigOf(v, i)] # Fixed[ConfigOf(w, j)]

--------------------------------------------------------------------------------
VARIABLES
  phase,      \* of the start of each replica
  at,         \* the action it has come to
  streams,    \* of the broker: their configurations by name
  lpc,        \* where each call of createConsumer is
  found,      \* the stream it has found
  consumers,  \* of the broker: the settings of the consumer of each event
  absent,     \* history: the streams there were not when a start began
  clashed,    \* history: the streams because of which a start was refused, and
              \*   whether they were created meanwhile
  lost        \* history: the replica that had started and emitted an event that
              \*   no stream took, and the version that had configured the
              \*   stream for all events by then; as of the last step of either

replicaVars  == <<phase, at, absent>>
listenerVars == <<lpc, found, consumers>>
history      == <<clashed, lost>>
vars == <<replicaVars, streams, listenerVars, history>>

Starting == {"info", "add", "update"}

TypeOK ==
  /\ phase \in [Replicas -> {"down", "started"} \cup Starting]
  /\ at \in [Replicas -> Nat \ {0}]
  /\ \A r \in Replicas : phase[r] \in Starting => at[r] \in DOMAIN Actions[Version[r]]
  /\ streams \in [Names -> Configs \cup {None}]
  /\ \A n \in Names : streams[n] # None =>
       /\ \E i \in DOMAIN Actions[streams[n].version] :
            streams[n].action = Actions[streams[n].version][i]
       /\ StreamName(streams[n].action) = n
  /\ lpc \in [Listeners -> {"idle", "find", "info", "add", "update", "get", "ready",
                            "failed"}]
  /\ found \in [Listeners -> Names \cup {None}]
  /\ \A l \in Listeners : lpc[l] \in {"info", "add", "update", "get", "ready"} =>
       found[l] \in Names
  /\ consumers \in [Events -> Settings \cup {None}]
  /\ absent \in [Replicas -> SUBSET Names]
  /\ clashed \subseteq [by : Replicas, stream : Names, version : Versions, new : BOOLEAN]
  /\ lost \subseteq [by : Replicas, all : Versions \cup {None}]

Init ==
  /\ phase = [r \in Replicas |-> "down"]
  /\ at = [r \in Replicas |-> 1]
  /\ streams = [n \in Names |-> None]
  /\ lpc = [l \in Listeners |-> "idle"]
  /\ found = [l \in Listeners |-> None]
  /\ consumers = [e \in Events |-> None]
  /\ absent = [r \in Replicas |-> {}]
  /\ clashed = {} /\ lost = {}

--------------------------------------------------------------------------------
(***************************************************************************)
(* createStreams                                                           *)
(***************************************************************************)

Action(r) == Actions[Version[r]][at[r]]
Stream(r) == StreamName(Action(r))

(* Mutant: start does not wait for createStreams. *)
First_NotAwaited(r) == IF r \in Replicas THEN "started" ELSE "down"

First(r) == IF Actions[Version[r]] = <<>> THEN "started" ELSE "info"

Forget == clashed' = {} /\ lost' = {}

(* start comes to its streams; its methods have been served for a while.   *)
Start(r) ==
  /\ phase[r] = "down"
  /\ phase' = [phase EXCEPT ![r] = First(r)]
  /\ at' = [at EXCEPT ![r] = 1]
  /\ absent' = [absent EXCEPT ![r] = {n \in Names : streams[n] = None}]
  /\ Forget
  /\ UNCHANGED <<streams, listenerVars>>

(* Mutant: streams are always added. *)
Exists_Never(r) == FALSE

Exists(r) == streams[Stream(r)] # None

Info(r) ==
  /\ phase[r] = "info"
  /\ phase' = [phase EXCEPT ![r] = IF Exists(r) THEN "update" ELSE "add"]
  /\ Forget
  /\ UNCHANGED <<at, absent, streams, listenerVars>>

(* Mutant: start does not wait for the last stream. *)
Last_Early(r) == at[r] + 1 >= Len(Actions[Version[r]])

(* Mutant: one action too many. *)
Last_Late(r) == at[r] > Len(Actions[Version[r]])

Last(r) == at[r] = Len(Actions[Version[r]])

(* createStreams is over, and what is known of this start with it.         *)
Ends(r, state) ==
  /\ phase' = [phase EXCEPT ![r] = state]
  /\ at' = [at EXCEPT ![r] = 1]
  /\ absent' = [absent EXCEPT ![r] = {}]

(* The stream is there: on to the next action, or start is over.           *)
GoOn(r) ==
  \/ /\ Last(r)
     /\ Ends(r, "started")
  \/ /\ ~Last(r)
     /\ phase' = [phase EXCEPT ![r] = "info"]
     /\ at' = [at EXCEPT ![r] = @ + 1]
     /\ UNCHANGED absent

Config(r) == ConfigOf(Version[r], at[r])

(* The streams for which the broker refuses the replica's: one of another  *)
(* name for some of the subjects; and one of its name, if it is to be added*)
(* and is not the same, or to be updated and what is fixed is another.     *)
Blocking(r) ==
  {n \in Names :
    /\ streams[n] # None
    /\ \/ n # Stream(r) /\ Overlap(streams[n].action, Action(r))
       \/ n = Stream(r) /\ phase[r] = "add" /\ streams[n] # Config(r)
       \/ n = Stream(r) /\ phase[r] = "update" /\ Fixed[streams[n]] # Fixed[Config(r)]}

(* Its answer is awaited.                                                  *)
Put(r) == phase[r] \in {"add", "update"}

AddOrUpdate(r) ==
  /\ Put(r)
  /\ Blocking(r) = {}
  /\ streams' = [streams EXCEPT ![Stream(r)] = Config(r)]
  /\ GoOn(r)
  /\ Forget
  /\ UNCHANGED listenerVars

(* The broker refuses: createStreams rejects, and start ends the process.  *)
Refused(r) ==
  /\ Put(r)
  /\ Blocking(r) # {}
  /\ Ends(r, "down")
  /\ clashed' =
       {[by |-> r, stream |-> n, version |-> streams[n].version, new |-> n \in absent[r]] :
          n \in Blocking(r)}
  /\ lost' = {}
  /\ UNCHANGED <<streams, listenerVars>>

(* The same for any other failure; and a process can stop at any time.     *)
Down(r) ==
  /\ phase[r] # "down"
  /\ Ends(r, "down")
  /\ Forget
  /\ UNCHANGED <<streams, listenerVars>>

--------------------------------------------------------------------------------
Stored(e) ==
  \E n \in Names : streams[n] # None /\ Matches(<<streams[n].action>>, Subject(e))

(* The version that configured the stream for all events last.             *)
Owner == IF streams["all"] = None THEN None ELSE streams["all"].version

(* A handler emits an event: it is published as it is in core NATS, and a  *)
(* stream takes it or nobody does.                                         *)
Emit(r, e) ==
  /\ phase[r] # "down"
  /\ lost' = IF phase[r] = "started" /\ ~Stored(e)
             THEN {[by |-> r, all |-> Owner]} ELSE {}
  /\ clashed' = {}
  /\ UNCHANGED <<replicaVars, streams, listenerVars>>

--------------------------------------------------------------------------------
(***************************************************************************)
(* createConsumer                                                          *)
(***************************************************************************)

On(l) ==
  /\ lpc[l] = "idle"
  /\ lpc' = [lpc EXCEPT ![l] = "find"]
  /\ UNCHANGED <<replicaVars, streams, found, consumers, history>>

(* Mutant: any stream of the service will do. *)
Candidates_Any(e) == {n \in Names : streams[n] # None /\ e \in Events}

(* The broker looks for a stream with subjects that match <<event, "*">>.  *)
Candidates(e) ==
  {n \in Names : streams[n] # None /\ Matches(<<streams[n].action>>, <<e, "*">>)}

(* Without one createConsumer fails.                                       *)
Find(l) ==
  /\ lpc[l] = "find"
  /\ \/ \E n \in Candidates(EventOf[l]) :
          /\ found' = [found EXCEPT ![l] = n]
          /\ lpc' = [lpc EXCEPT ![l] = "info"]
     \/ /\ Candidates(EventOf[l]) = {}
        /\ lpc' = [lpc EXCEPT ![l] = "failed"]
        /\ UNCHANGED found
  /\ UNCHANGED <<replicaVars, streams, consumers, history>>

ConsumerInfo(l) ==
  /\ lpc[l] = "info"
  /\ lpc' = [lpc EXCEPT ![l] = IF consumers[EventOf[l]] = None THEN "add" ELSE "update"]
  /\ UNCHANGED <<replicaVars, streams, found, consumers, history>>

(* All listeners of a service for an event have one durable consumer.      *)
ConsumerAddOrUpdate(l) ==
  LET e == EventOf[l]
  IN  /\ lpc[l] \in {"add", "update"}
      /\ \/ /\ lpc[l] = "update" \/ consumers[e] \in {None, Setting[l]}
            /\ consumers' = [consumers EXCEPT ![e] = Setting[l]]
            /\ lpc' = [lpc EXCEPT ![l] = "get"]
         \/ /\ lpc[l] = "add" /\ consumers[e] \notin {None, Setting[l]}
            /\ lpc' = [lpc EXCEPT ![l] = "failed"]
            /\ UNCHANGED consumers
      /\ UNCHANGED <<replicaVars, streams, found, history>>

Get(l) ==
  /\ lpc[l] = "get"
  /\ lpc' = [lpc EXCEPT ![l] = IF consumers[EventOf[l]] = None THEN "failed" ELSE "ready"]
  /\ UNCHANGED <<replicaVars, streams, found, consumers, history>>

(* Any call of the broker may fail, and on with it.                        *)
OnFails(l) ==
  /\ lpc[l] \in {"find", "info", "add", "update", "get"}
  /\ lpc' = [lpc EXCEPT ![l] = "failed"]
  /\ UNCHANGED <<replicaVars, streams, found, consumers, history>>

--------------------------------------------------------------------------------
Next ==
  \/ \E r \in Replicas :
       Start(r) \/ Info(r) \/ AddOrUpdate(r) \/ Refused(r) \/ Down(r)
  \/ \E r \in Replicas, e \in Events : Emit(r, e)
  \/ \E l \in Listeners :
       \/ On(l)
       \/ Find(l)
       \/ ConsumerInfo(l)
       \/ ConsumerAddOrUpdate(l)
       \/ Get(l)
       \/ OnFails(l)

Spec == Init /\ [][Next]_vars

--------------------------------------------------------------------------------
(***************************************************************************)
(* Properties                                                              *)
(***************************************************************************)

(* Once start is over the streams of all the replica's actions are there,  *)
(* as it or another replica, perhaps of another version, configured them   *)
(* (StreamManager.createStreams, lines 49-79).                             *)
StartedHasStreams ==
  \A r \in Replicas : phase[r] = "started" =>
    \A i \in DOMAIN Actions[Version[r]] : streams[StreamName(Actions[Version[r]][i])] # None

(* "Events with no subscribers will not be lost" (README, Jet-streams): if *)
(* the service has a stream with the action >, no event is lost that is    *)
(* emitted once start is over, whatever other replicas do - unless one of  *)
(* a version with the action * took the stream over, as they have the same *)
(* name (StreamManager.getStreamName, lines 190-201).                      *)
NothingLost ==
  \A x \in lost : ForAll(Version[x.by]) => x.all # None /\ ~ForAll(x.all)

(* README on action: "if it is *, it is for all events with the option     *)
(* stream".  As the code has it, * does not match the suffix that every    *)
(* event of a stream has.                                                  *)
StarIsForAll ==
  \A x \in lost : \A i \in DOMAIN Actions[Version[x.by]] : Actions[Version[x.by]][i] # "*"

(* Replicas that start together do not keep each other from it: a start    *)
(* fails because of a stream only if another version configured it, and,   *)
(* unless one of the two is for all events and the other for one, or they  *)
(* differ in what no update can change, only if it was created meanwhile   *)
(* (StreamManager.createStreams, lines 52-78).                             *)
ClashOnlyAtBirth ==
  \A x \in clashed :
    /\ x.version # Version[x.by]
    /\ \/ x.new
       \/ Wild(x.version) # Wild(Version[x.by])
       \/ Differ(x.version, Version[x.by], x.stream)

(* Listeners that are ready have a consumer, of a stream that is there and *)
(* takes their event, unless a version with the action * took it over      *)
(* (StreamManager.createConsumer, lines 157-188).                          *)
ReadyHasConsumer ==
  \A l \in Listeners : lpc[l] = "ready" =>
    /\ consumers[EventOf[l]] # None
    /\ streams[found[l]] # None
    /\ \/ Matches(<<streams[found[l]].action>>, Subject(EventOf[l]))
       \/ streams[found[l]].action = "*"

================================================================================

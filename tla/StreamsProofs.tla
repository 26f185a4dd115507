------------------------------ MODULE StreamsProofs ------------------------------
(***************************************************************************)
(* Proofs about Streams, for any number of replicas, versions, events and  *)
(* listeners: what starts leave in the broker, what of the events gets     *)
(* into it, and what listeners find.                                       *)
(***************************************************************************)
EXTENDS Streams, TLAPS

ActionNames == {"*", ">"} \cup Events

(* The actions of a version are a sequence, in which no two overlap.       *)
LEMMA VersionActions ==
  ASSUME NEW v \in Versions
  PROVE  /\ Len(Actions[v]) \in Nat
         /\ DOMAIN Actions[v] = 1 .. Len(Actions[v])
         /\ \A i \in DOMAIN Actions[v] : Actions[v][i] \in ActionNames
         /\ \A i, j \in DOMAIN Actions[v] : i # j =>
              /\ Actions[v][i] # Actions[v][j]
              /\ Actions[v][i] \in Events
<1>1. PICK r \in Replicas : v = Version[r]
  BY DEF Versions
<1>2. Actions[v] \in Seq(ActionNames)
  BY <1>1, ActionsAssumption DEF ActionNames
<1>3. \A i, j \in DOMAIN Actions[v] : i # j =>
        Actions[v][i] # Actions[v][j] /\ Actions[v][i] \in Events
  BY <1>1, NoOverlapAssumption
<1> QED BY <1>2, <1>3

LEMMA ReplicaVersion == ASSUME NEW r \in Replicas PROVE Version[r] \in Versions
BY DEF Versions

(* A version with an action for all events has no other.                   *)
LEMMA WildIsOnly ==
  ASSUME NEW v \in Versions, NEW i \in DOMAIN Actions[v], NEW j \in DOMAIN Actions[v],
         Actions[v][i] \in {"*", ">"}
  PROVE  i = j
BY VersionActions, NamesAssumption

LEMMA StreamNames ==
  /\ \A a \in ActionNames : StreamName(a) \in Names
  /\ \A a \in {"*", ">"} : StreamName(a) = "all"
  /\ "all" \in Names
  /\ \A e \in Events : StreamName(e) = e /\ e # "all"
BY NamesAssumption DEF StreamName, Names, ActionNames

(* Of all actions only > is for the subjects of events, which have two     *)
(* tokens.                                                                 *)
LEMMA OnlyGreaterMatches ==
  ASSUME NEW a, NEW e, NEW suffix
  PROVE  Matches(<<a>>, <<e, suffix>>) <=> a = ">"
<1>1. Len(<<a>>) = 1 /\ Len(<<e, suffix>>) = 2 /\ <<a>>[1] = a
  OBVIOUS
<1> QED BY <1>1 DEF Matches

LEMMA NextCases ==
  ASSUME [Next]_vars
  PROVE  \/ \E r \in Replicas : \/ Start(r)
                                \/ Info(r)
                                \/ AddOrUpdate(r)
                                \/ Refused(r)
                                \/ Down(r)
         \/ \E r \in Replicas, e \in Events : Emit(r, e)
         \/ \E l \in Listeners : \/ On(l)
                                 \/ Find(l)
                                 \/ ConsumerInfo(l)
                                 \/ ConsumerAddOrUpdate(l)
                                 \/ Get(l)
                                 \/ OnFails(l)
         \/ UNCHANGED vars
BY DEF Next

--------------------------------------------------------------------------------
(***************************************************************************)
(* Types                                                                   *)
(***************************************************************************)

Phases == {"down", "started"} \cup Starting

(* The conjuncts of TypeOK for the replicas, the streams and the listeners.*)
ReplicaTypes ==
  /\ phase \in [Replicas -> Phases]
  /\ at \in [Replicas -> Nat \ {0}]
  /\ \A r \in Replicas : phase[r] \in Starting => at[r] \in DOMAIN Actions[Version[r]]
  /\ absent \in [Replicas -> SUBSET Names]

ClashTypes ==
  clashed \subseteq [by : Replicas, stream : Names, version : Versions, new : BOOLEAN]

StreamTypes ==
  /\ streams \in [Names -> Configs \cup {None}]
  /\ \A n \in Names : streams[n] # None =>
       /\ \E i \in DOMAIN Actions[streams[n].version] :
            streams[n].action = Actions[streams[n].version][i]
       /\ StreamName(streams[n].action) = n

ListenerTypes ==
  /\ lpc \in [Listeners -> {"idle", "find", "info", "add", "update", "get", "ready",
                            "failed"}]
  /\ found \in [Listeners -> Names \cup {None}]
  /\ \A l \in Listeners : lpc[l] \in {"info", "add", "update", "get", "ready"} =>
       found[l] \in Names
  /\ consumers \in [Events -> Settings \cup {None}]

LostTypes == lost \subseteq [by : Replicas, all : Versions \cup {None}]

LEMMA TypeParts ==
  TypeOK <=> ReplicaTypes /\ ClashTypes /\ StreamTypes /\ ListenerTypes /\ LostTypes
BY DEF TypeOK, ReplicaTypes, ClashTypes, StreamTypes, ListenerTypes, LostTypes, Phases

(* A stream that is there has a configuration of some version.             *)
LEMMA StreamConfig ==
  ASSUME StreamTypes, NEW n \in Names, streams[n] # None
  PROVE  /\ streams[n] \in Configs
         /\ streams[n].version \in Versions /\ streams[n].action \in ActionNames
         /\ StreamName(streams[n].action) = n
         /\ \E i \in DOMAIN Actions[streams[n].version] :
              streams[n].action = Actions[streams[n].version][i]
BY DEF StreamTypes, Configs, ActionNames

(* The action that a start has come to.                                    *)
LEMMA ActionType ==
  ASSUME ReplicaTypes, NEW r \in Replicas, phase[r] \in Starting
  PROVE  /\ Version[r] \in Versions
         /\ at[r] \in DOMAIN Actions[Version[r]]
         /\ Action(r) = Actions[Version[r]][at[r]]
         /\ Action(r) \in ActionNames
         /\ Stream(r) \in Names
         /\ Config(r) \in Configs /\ Config(r) # None
         /\ Config(r).version = Version[r] /\ Config(r).action = Action(r)
<1>1. Version[r] \in Versions /\ at[r] \in DOMAIN Actions[Version[r]]
  BY ReplicaVersion DEF ReplicaTypes
<1>2. Action(r) = Actions[Version[r]][at[r]] /\ Action(r) \in ActionNames
  BY <1>1, VersionActions DEF Action
<1>3. Stream(r) \in Names
  BY <1>2, StreamNames DEF Stream
<1>4. Config(r) = [action |-> Action(r), version |-> Version[r]]
  BY DEF Config, ConfigOf, Action
<1>5. Config(r) \in Configs
  BY <1>1, <1>2, <1>4 DEF Configs, ActionNames
<1> QED BY <1>1, <1>2, <1>3, <1>4, <1>5, NoneAssumption

(* What a call of add or update that succeeds does.                        *)
LEMMA PutStreams ==
  ASSUME ReplicaTypes, StreamTypes, NEW r \in Replicas, AddOrUpdate(r)
  PROVE  /\ phase[r] \in {"add", "update"} /\ phase[r] \in Starting
         /\ streams'[Stream(r)] = Config(r)
         /\ \A n \in Names \ {Stream(r)} : streams'[n] = streams[n]
         /\ StreamTypes'
<1>1. phase[r] \in {"add", "update"} /\ phase[r] \in Starting
  BY DEF AddOrUpdate, Put, Starting
<1>2. /\ Stream(r) \in Names
      /\ Config(r) \in Configs
      /\ Config(r).version = Version[r] /\ Config(r).action = Action(r)
      /\ at[r] \in DOMAIN Actions[Version[r]] /\ Action(r) = Actions[Version[r]][at[r]]
  BY <1>1, ActionType
<1>3. streams' = [streams EXCEPT ![Stream(r)] = Config(r)]
  BY DEF AddOrUpdate
<1>4. /\ streams' \in [Names -> Configs \cup {None}]
      /\ streams'[Stream(r)] = Config(r)
      /\ \A n \in Names \ {Stream(r)} : streams'[n] = streams[n]
  BY <1>2, <1>3 DEF StreamTypes
<1>5. StreamName(Action(r)) = Stream(r)
  BY DEF Stream
<1>6. ASSUME NEW n \in Names, streams'[n] # None
      PROVE  /\ \E i \in DOMAIN Actions[streams'[n].version] :
                  streams'[n].action = Actions[streams'[n].version][i]
             /\ StreamName(streams'[n].action) = n
  <2>1. CASE n = Stream(r)
    BY <2>1, <1>2, <1>4, <1>5
  <2>2. CASE n # Stream(r)
    BY <1>4, <1>6, <2>2 DEF StreamTypes
  <2> QED BY <2>1, <2>2
<1>7. StreamTypes'
  BY <1>4, <1>6 DEF StreamTypes
<1> QED BY <1>1, <1>4, <1>7

LEMMA EndsType ==
  ASSUME ReplicaTypes, NEW r \in Replicas, NEW state \in {"down", "started"}, Ends(r, state)
  PROVE  ReplicaTypes'
<1>1. state \in Phases /\ state \notin Starting
  BY DEF Phases, Starting
<1> HIDE DEF Phases, Starting
<1> QED BY <1>1 DEF Ends, ReplicaTypes

LEMMA GoOnType ==
  ASSUME ReplicaTypes, NEW r \in Replicas, phase[r] \in Starting, GoOn(r)
  PROVE  ReplicaTypes'
<1>1. CASE Ends(r, "started")
  BY <1>1, EndsType
<1>2. CASE /\ ~Last(r)
           /\ phase' = [phase EXCEPT ![r] = "info"]
           /\ at' = [at EXCEPT ![r] = @ + 1]
           /\ UNCHANGED absent
  <2>1. at[r] + 1 \in DOMAIN Actions[Version[r]]
    <3>1. at[r] \in DOMAIN Actions[Version[r]] /\ Version[r] \in Versions
      BY ActionType
    <3> QED BY <1>2, <3>1, VersionActions DEF Last
  <2>2. "info" \in Phases /\ at[r] + 1 \in Nat \ {0}
    BY DEF Phases, Starting, ReplicaTypes
  <2> QED BY <1>2, <2>1, <2>2 DEF ReplicaTypes
<1> QED BY <1>1, <1>2 DEF GoOn

LEMMA ReplicaTypesStep ==
  ASSUME ReplicaTypes, [Next]_vars
  PROVE  ReplicaTypes'
<1>1. ASSUME NEW r \in Replicas, Start(r) PROVE ReplicaTypes'
  <2>1. /\ First(r) \in Phases
        /\ First(r) \in Starting => 1 \in DOMAIN Actions[Version[r]]
    <3>1. Actions[Version[r]] \in Seq(ActionNames)
      BY ActionsAssumption DEF ActionNames
    <3> QED BY <3>1 DEF First, Phases, Starting
  <2> HIDE DEF Phases, Starting
  <2>2. /\ phase' = [phase EXCEPT ![r] = First(r)]
        /\ at' = [at EXCEPT ![r] = 1]
        /\ absent' = [absent EXCEPT ![r] = {n \in Names : streams[n] = None}]
    BY <1>1 DEF Start
  <2> QED BY <2>1, <2>2 DEF ReplicaTypes
<1>2. ASSUME NEW r \in Replicas, Info(r) PROVE ReplicaTypes'
  <2>1. /\ "update" \in Starting /\ "add" \in Starting /\ "info" \in Starting
        /\ \A p \in Starting : p \in Phases
    BY DEF Phases, Starting
  <2> HIDE DEF Phases, Starting
  <2>2. /\ phase[r] = "info"
        /\ \E p \in {"add", "update"} : phase' = [phase EXCEPT ![r] = p]
        /\ UNCHANGED <<at, absent>>
    BY <1>2 DEF Info
  <2> QED BY <2>1, <2>2 DEF ReplicaTypes
<1>3. ASSUME NEW r \in Replicas, AddOrUpdate(r) PROVE ReplicaTypes'
  BY <1>3, GoOnType DEF AddOrUpdate, Put, Starting
<1>4. ASSUME NEW r \in Replicas, Refused(r) \/ Down(r) PROVE ReplicaTypes'
  BY <1>4, EndsType DEF Refused, Down
<1>5. CASE UNCHANGED replicaVars
  BY <1>5 DEF ReplicaTypes, replicaVars
<1> QED BY <1>1, <1>2, <1>3, <1>4, <1>5, NextCases
        DEF Emit, On, Find, ConsumerInfo, ConsumerAddOrUpdate, Get, OnFails, vars

LEMMA StreamTypesStep ==
  ASSUME ReplicaTypes, StreamTypes, [Next]_vars
  PROVE  StreamTypes'
<1>1. ASSUME NEW r \in Replicas, AddOrUpdate(r) PROVE StreamTypes'
  BY <1>1, PutStreams
<1>2. CASE UNCHANGED streams
  BY <1>2 DEF StreamTypes
<1> QED BY <1>1, <1>2, NextCases
        DEF Start, Info, Refused, Down, Emit, On, Find, ConsumerInfo, ConsumerAddOrUpdate,
            Get, OnFails, vars

(* What a start that is refused is refused for.                            *)
LEMMA BlockingType ==
  ASSUME ReplicaTypes, StreamTypes, NEW r \in Replicas, NEW n \in Blocking(r)
  PROVE  [by |-> r, stream |-> n, version |-> streams[n].version, new |-> n \in absent[r]]
           \in [by : Replicas, stream : Names, version : Versions, new : BOOLEAN]
<1>1. n \in Names /\ streams[n].version \in Versions
  BY StreamConfig DEF Blocking
<1>2. (n \in absent[r]) \in BOOLEAN
  <2>1. CASE n \in absent[r]
    BY <2>1
  <2>2. CASE n \notin absent[r]
    BY <2>2
  <2> QED BY <2>1, <2>2
<1> QED BY <1>1, <1>2

LEMMA ClashTypesStep ==
  ASSUME ReplicaTypes, StreamTypes, ClashTypes, [Next]_vars
  PROVE  ClashTypes'
<1>1. CASE clashed' \subseteq clashed
  BY <1>1 DEF ClashTypes
<1>2. ASSUME NEW r \in Replicas, Refused(r) PROVE ClashTypes'
  <2> SUFFICES ASSUME NEW x \in clashed'
               PROVE  x \in [by : Replicas, stream : Names, version : Versions, new : BOOLEAN]
    BY DEF ClashTypes
  <2>1. PICK n \in Blocking(r) :
          x = [by |-> r, stream |-> n, version |-> streams[n].version, new |-> n \in absent[r]]
    BY <1>2 DEF Refused
  <2> QED BY <2>1, BlockingType
<1> QED BY <1>1, <1>2, NextCases
        DEF Forget, Start, Info, AddOrUpdate, Down, Emit, On, Find, ConsumerInfo,
            ConsumerAddOrUpdate, Get, OnFails, history, vars

LEMMA ListenerTypesStep ==
  ASSUME ListenerTypes, [Next]_vars
  PROVE  ListenerTypes'
<1>1. ASSUME NEW l \in Listeners, On(l) \/ ConsumerInfo(l) \/ Get(l) \/ OnFails(l)
      PROVE  ListenerTypes'
  <2>1. \E p : /\ lpc' = [lpc EXCEPT ![l] = p]
               /\ \/ p \in {"find", "failed"}
                  \/ p \in {"add", "update", "ready"} /\ lpc[l] \in {"info", "get"}
    BY <1>1 DEF On, ConsumerInfo, Get, OnFails
  <2>2. UNCHANGED <<found, consumers>>
    BY <1>1 DEF On, ConsumerInfo, Get, OnFails
  <2> QED BY <2>1, <2>2 DEF ListenerTypes
<1>2. ASSUME NEW l \in Listeners, Find(l) PROVE ListenerTypes'
  <2>1. CASE \E n \in Names : found' = [found EXCEPT ![l] = n] /\ lpc' = [lpc EXCEPT ![l] = "info"]
    BY <1>2, <2>1 DEF Find, ListenerTypes
  <2>2. CASE lpc' = [lpc EXCEPT ![l] = "failed"] /\ UNCHANGED found
    BY <1>2, <2>2 DEF Find, ListenerTypes
  <2> QED BY <1>2, <2>1, <2>2 DEF Find, Candidates
<1>3. ASSUME NEW l \in Listeners, ConsumerAddOrUpdate(l) PROVE ListenerTypes'
  <2>1. EventOf[l] \in Events /\ Setting[l] \in Settings
    BY ListenersAssumption DEF Settings
  <2> QED BY <1>3, <2>1 DEF ConsumerAddOrUpdate, ListenerTypes
<1>4. CASE UNCHANGED listenerVars
  BY <1>4 DEF ListenerTypes, listenerVars
<1> QED BY <1>1, <1>2, <1>3, <1>4, NextCases
        DEF Start, Info, AddOrUpdate, Refused, Down, Emit, vars

LEMMA LostTypesStep ==
  ASSUME StreamTypes, LostTypes, [Next]_vars
  PROVE  LostTypes'
<1>1. Owner \in Versions \cup {None}
  <2>1. "all" \in Names
    BY StreamNames
  <2>2. CASE streams["all"] = None
    BY <2>2 DEF Owner
  <2>3. CASE streams["all"] # None
    BY <2>1, <2>3, StreamConfig DEF Owner
  <2> QED BY <2>2, <2>3
<1>2. ASSUME NEW r \in Replicas, NEW e \in Events, Emit(r, e) PROVE LostTypes'
  BY <1>1, <1>2 DEF Emit, LostTypes
<1>3. CASE lost' \subseteq lost
  BY <1>3 DEF LostTypes
<1> QED BY <1>2, <1>3, NextCases
        DEF Forget, Start, Info, AddOrUpdate, Refused, Down, On, Find, ConsumerInfo,
            ConsumerAddOrUpdate, Get, OnFails, history, vars

LEMMA TypeStep == TypeOK /\ [Next]_vars => TypeOK'
<1> SUFFICES ASSUME TypeOK, [Next]_vars PROVE TypeOK'
  OBVIOUS
<1>1. ReplicaTypes /\ ClashTypes /\ StreamTypes /\ ListenerTypes /\ LostTypes
  BY TypeParts
<1>2. ReplicaTypes' /\ ClashTypes' /\ StreamTypes' /\ ListenerTypes' /\ LostTypes'
  BY <1>1, ReplicaTypesStep, ClashTypesStep, StreamTypesStep, ListenerTypesStep, LostTypesStep
<1> QED BY <1>2
        DEF TypeOK, ReplicaTypes, ClashTypes, StreamTypes, ListenerTypes, LostTypes, Phases

LEMMA TypeInit == Init => TypeOK
BY DEF Init, TypeOK, Starting

(* What the broker has and what starts and listeners know of it keep their *)
(* types; every stream is as a version of the service configured it.       *)
THEOREM TypeCorrect == Spec => []TypeOK
BY TypeInit, TypeStep, PTL DEF Spec

--------------------------------------------------------------------------------
(***************************************************************************)
(* Starts                                                                  *)
(***************************************************************************)

(* No step takes a stream away.                                            *)
LEMMA StreamsStay ==
  ASSUME TypeOK, [Next]_vars, NEW n \in Names, streams[n] # None
  PROVE  streams'[n] # None
<1> ReplicaTypes /\ StreamTypes
  BY TypeParts
<1>1. ASSUME NEW r \in Replicas, AddOrUpdate(r) PROVE streams'[n] # None
  <2>1. streams'[Stream(r)] = Config(r) /\ (n # Stream(r) => streams'[n] = streams[n])
    BY <1>1, PutStreams
  <2>2. Config(r) # None
    BY <1>1, ActionType, PutStreams
  <2> QED BY <2>1, <2>2
<1>2. CASE UNCHANGED streams
  BY <1>2
<1> QED BY <1>1, <1>2, NextCases
        DEF Start, Info, Refused, Down, Emit, On, Find, ConsumerInfo, ConsumerAddOrUpdate,
            Get, OnFails, vars

(* The stream of the i-th action of r's version is there.                  *)
HasStream(r, i) == streams[StreamName(Actions[Version[r]][i])] # None

(* A start has the streams of the actions that it is past.                 *)
Progress ==
  \A r \in Replicas :
    /\ phase[r] \in Starting =>
         \A i \in DOMAIN Actions[Version[r]] : i < at[r] => HasStream(r, i)
    /\ phase[r] = "started" =>
         \A i \in DOMAIN Actions[Version[r]] : HasStream(r, i)

(* It knows which streams there were not when it began, and adds those.    *)
Begun ==
  \A r \in Replicas : phase[r] \in Starting =>
    /\ \A n \in Names : streams[n] = None => n \in absent[r]
    /\ phase[r] = "add" => Stream(r) \in absent[r]

StartsInv == TypeOK /\ Progress /\ Begun /\ ClashOnlyAtBirth

LEMMA HasStreamStays ==
  ASSUME TypeOK, [Next]_vars, NEW r \in Replicas, NEW i \in DOMAIN Actions[Version[r]],
         HasStream(r, i)
  PROVE  HasStream(r, i)'
<1>1. StreamName(Actions[Version[r]][i]) \in Names
  BY ReplicaVersion, VersionActions, StreamNames
<1> QED BY <1>1, StreamsStay DEF HasStream

LEMMA ProgressStep ==
  ASSUME TypeOK, Progress, [Next]_vars
  PROVE  Progress'
<1> ReplicaTypes /\ StreamTypes
  BY TypeParts
<1>1. ASSUME NEW r \in Replicas, \A q \in Replicas \ {r} : phase'[q] = phase[q] /\ at'[q] = at[q],
             phase'[r] \in Starting =>
               \A i \in DOMAIN Actions[Version[r]] : i < at'[r] => HasStream(r, i)',
             phase'[r] = "started" =>
               \A i \in DOMAIN Actions[Version[r]] : HasStream(r, i)'
      PROVE  Progress'
  BY <1>1, HasStreamStays DEF Progress
<1>2. ASSUME NEW r \in Replicas, Start(r) PROVE Progress'
  <2>1. /\ phase'[r] = First(r) /\ at'[r] = 1
        /\ \A q \in Replicas \ {r} : phase'[q] = phase[q] /\ at'[q] = at[q]
    BY <1>2 DEF Start, ReplicaTypes
  <2>2. \A i \in DOMAIN Actions[Version[r]] : ~(i < 1) /\ First(r) # "started"
    BY ReplicaVersion, VersionActions DEF First
  <2> QED BY <1>1, <2>1, <2>2
<1>3. ASSUME NEW r \in Replicas, Info(r) PROVE Progress'
  <2>1. /\ phase[r] \in Starting /\ phase'[r] # "started" /\ at'[r] = at[r]
        /\ \A q \in Replicas \ {r} : phase'[q] = phase[q] /\ at'[q] = at[q]
    BY <1>3 DEF Info, ReplicaTypes, Starting
  <2> QED BY <1>1, <2>1, HasStreamStays DEF Progress
<1>4. ASSUME NEW r \in Replicas, AddOrUpdate(r) PROVE Progress'
  <2>1. phase[r] \in Starting /\ streams'[StreamName(Actions[Version[r]][at[r]])] # None
    BY <1>4, PutStreams, ActionType DEF Stream, Action
  <2>2. /\ at[r] \in DOMAIN Actions[Version[r]]
        /\ Len(Actions[Version[r]]) \in Nat
        /\ DOMAIN Actions[Version[r]] = 1 .. Len(Actions[Version[r]])
    BY <2>1, ActionType, VersionActions
  <2>3. \A i \in DOMAIN Actions[Version[r]] : i <= at[r] => HasStream(r, i)'
    <3> SUFFICES ASSUME NEW i \in DOMAIN Actions[Version[r]], i <= at[r]
                 PROVE  HasStream(r, i)'
      OBVIOUS
    <3>1. CASE i < at[r]
      BY <2>1, <3>1, HasStreamStays DEF Progress
    <3>2. CASE i = at[r]
      BY <2>1, <3>2 DEF HasStream
    <3> QED BY <2>2, <3>1, <3>2
  <2>4. \A q \in Replicas \ {r} : phase'[q] = phase[q] /\ at'[q] = at[q]
    BY <1>4 DEF AddOrUpdate, GoOn, Ends, ReplicaTypes
  <2>5. CASE Last(r) /\ phase'[r] = "started"
    BY <1>1, <2>2, <2>3, <2>4, <2>5 DEF Last, Starting
  <2>6. CASE phase'[r] = "info" /\ at'[r] = at[r] + 1
    BY <1>1, <2>2, <2>3, <2>4, <2>6
  <2>7. \/ Last(r) /\ phase'[r] = "started"
        \/ phase'[r] = "info" /\ at'[r] = at[r] + 1
    BY <1>4 DEF AddOrUpdate, GoOn, Ends, ReplicaTypes
  <2> QED BY <2>5, <2>6, <2>7
<1>5. ASSUME NEW r \in Replicas, Refused(r) \/ Down(r) PROVE Progress'
  <2>1. /\ phase'[r] = "down"
        /\ \A q \in Replicas \ {r} : phase'[q] = phase[q] /\ at'[q] = at[q]
    BY <1>5 DEF Refused, Down, Ends, ReplicaTypes
  <2> QED BY <1>1, <2>1 DEF Starting
<1>6. CASE UNCHANGED replicaVars
  BY <1>6, HasStreamStays DEF Progress, replicaVars
<1> QED BY <1>2, <1>3, <1>4, <1>5, <1>6, NextCases
        DEF Emit, On, Find, ConsumerInfo, ConsumerAddOrUpdate, Get, OnFails, vars

LEMMA BegunStep ==
  ASSUME TypeOK, Begun, [Next]_vars
  PROVE  Begun'
<1> ReplicaTypes /\ StreamTypes
  BY TypeParts
<1>1. ASSUME NEW r \in Replicas, phase'[r] \in Starting =>
               /\ \A n \in Names : streams'[n] = None => n \in absent'[r]
               /\ phase'[r] = "add" => Stream(r)' \in absent'[r],
             \A q \in Replicas \ {r} :
               phase'[q] = phase[q] /\ at'[q] = at[q] /\ absent'[q] = absent[q]
      PROVE  Begun'
  BY <1>1, StreamsStay DEF Begun, Stream, Action
<1>2. ASSUME NEW r \in Replicas, Start(r) PROVE Begun'
  <2>1. /\ phase'[r] # "add" /\ UNCHANGED streams
        /\ absent'[r] = {n \in Names : streams[n] = None}
        /\ \A q \in Replicas \ {r} :
             phase'[q] = phase[q] /\ at'[q] = at[q] /\ absent'[q] = absent[q]
    BY <1>2 DEF Start, First, ReplicaTypes
  <2> QED BY <1>1, <2>1
<1>3. ASSUME NEW r \in Replicas, Info(r) PROVE Begun'
  <2>1. /\ phase[r] \in Starting /\ (phase'[r] = "add" => streams[Stream(r)] = None)
        /\ UNCHANGED <<at, absent, streams>>
        /\ \A q \in Replicas \ {r} : phase'[q] = phase[q]
    BY <1>3 DEF Info, Exists, ReplicaTypes, Starting
  <2>2. Stream(r)' = Stream(r) /\ Stream(r) \in Names
    BY <2>1, ActionType DEF Stream, Action
  <2> QED BY <1>1, <2>1, <2>2 DEF Begun
<1>4. ASSUME NEW r \in Replicas, AddOrUpdate(r) PROVE Begun'
  <2>1. phase[r] \in Starting
    BY <1>4, PutStreams
  <2>2. /\ phase'[r] = "started" \/ (phase'[r] = "info" /\ absent'[r] = absent[r])
        /\ \A q \in Replicas \ {r} :
             phase'[q] = phase[q] /\ at'[q] = at[q] /\ absent'[q] = absent[q]
    BY <1>4 DEF AddOrUpdate, GoOn, Ends, ReplicaTypes
  <2> QED BY <1>1, <2>1, <2>2, StreamsStay DEF Begun, Starting
<1>5. ASSUME NEW r \in Replicas, Refused(r) \/ Down(r) PROVE Begun'
  <2>1. /\ phase'[r] = "down"
        /\ \A q \in Replicas \ {r} :
             phase'[q] = phase[q] /\ at'[q] = at[q] /\ absent'[q] = absent[q]
    BY <1>5 DEF Refused, Down, Ends, ReplicaTypes
  <2> QED BY <1>1, <2>1 DEF Starting
<1>6. CASE UNCHANGED replicaVars
  BY <1>6, StreamsStay DEF Begun, replicaVars, Stream, Action
<1> QED BY <1>2, <1>3, <1>4, <1>5, <1>6, NextCases
        DEF Emit, On, Find, ConsumerInfo, ConsumerAddOrUpdate, Get, OnFails, vars

(* What a start is refused for.                                            *)
LEMMA RefusedFor ==
  ASSUME TypeOK, Begun, NEW r \in Replicas, Put(r), NEW n \in Blocking(r)
  PROVE  /\ streams[n].version # Version[r]
         /\ \/ n \in absent[r]
            \/ Wild(streams[n].version) # Wild(Version[r])
            \/ Differ(streams[n].version, Version[r], n)
<1> ReplicaTypes /\ StreamTypes
  BY TypeParts
<1> DEFINE v == streams[n].version
           a == streams[n].action
           w == Version[r]
           b == Action(r)
<1>1. phase[r] \in Starting /\ n \in Names /\ streams[n] # None
  BY DEF Put, Starting, Blocking
<1>2. PICK i \in DOMAIN Actions[v] : a = Actions[v][i]
  BY <1>1, StreamConfig
<1>3. v \in Versions /\ a \in ActionNames /\ StreamName(a) = n /\ streams[n] \in Configs
  BY <1>1, StreamConfig
<1>4. PICK j \in DOMAIN Actions[w] : b = Actions[w][j]
  BY <1>1, ActionType
<1>5. /\ w \in Versions /\ b \in ActionNames /\ Stream(r) = StreamName(b)
      /\ Config(r) = [action |-> b, version |-> w]
  BY <1>1, ActionType DEF Stream, Config, ConfigOf, Action
<1>0. ASSUME n = Stream(r), streams[n] # Config(r)
      PROVE  v # w
  <2> SUFFICES ASSUME v = w PROVE FALSE
    OBVIOUS
  <2>1. a # b
    <3>1. streams[n] = [action |-> a, version |-> v]
      BY <1>3 DEF Configs
    <3> QED BY <1>0, <1>5, <3>1
  <2>2. a \in Events /\ b \in Events
    BY <1>2, <1>3, <1>4, <2>1, VersionActions
  <2>3. a = b
    BY <1>0, <1>3, <1>5, <2>2, StreamNames
  <2> QED BY <2>1, <2>3
<1>6. CASE n # Stream(r) /\ Overlap(a, b)
  <2>1. StreamName(a) # StreamName(b) /\ a # b
    BY <1>3, <1>5, <1>6
  <2>2. v # w
    <3>1. a \in {"*", ">"} \/ b \in {"*", ">"}
      BY <1>6, <2>1 DEF Overlap
    <3> QED BY <1>2, <1>3, <1>4, <2>1, <3>1, WildIsOnly
  <2>3. Wild(v) <=> a \in {"*", ">"}
    BY <1>2, <1>3, WildIsOnly DEF Wild
  <2>4. Wild(w) <=> b \in {"*", ">"}
    BY <1>4, <1>5, WildIsOnly DEF Wild
  <2>5. Wild(v) # Wild(w)
    <3>1. ~(a \in {"*", ">"} /\ b \in {"*", ">"})
      BY <2>1, StreamNames
    <3>2. a \in {"*", ">"} \/ b \in {"*", ">"}
      BY <1>6, <2>1 DEF Overlap
    <3> HIDE DEF a, b, v, w
    <3> QED BY <2>3, <2>4, <3>1, <3>2
  <2> QED BY <2>2, <2>5
<1>7. CASE n = Stream(r) /\ phase[r] = "add" /\ streams[n] # Config(r)
  BY <1>0, <1>1, <1>7 DEF Begun
<1>8. CASE n = Stream(r) /\ phase[r] = "update" /\ Fixed[streams[n]] # Fixed[Config(r)]
  <2>1. \E k \in DOMAIN Actions[w] : Actions[w][k] = b /\ ConfigOf(w, k) = Config(r)
    BY <1>1, ActionType DEF Config
  <2>2. ConfigOf(v, i) = streams[n]
    BY <1>2, <1>3 DEF ConfigOf, Configs
  <2>3. Differ(v, w, n)
    BY <1>2, <1>3, <1>5, <1>8, <2>1, <2>2 DEF Differ
  <2> QED BY <1>0, <1>8, <2>3
<1> QED BY <1>6, <1>7, <1>8 DEF Blocking

LEMMA ClashStep ==
  ASSUME TypeOK, Begun, ClashOnlyAtBirth, [Next]_vars
  PROVE  ClashOnlyAtBirth'
<1>1. ASSUME NEW r \in Replicas, Refused(r) PROVE ClashOnlyAtBirth'
  <2> SUFFICES ASSUME NEW x \in clashed'
               PROVE  /\ x.version # Version[x.by]
                      /\ \/ x.new
                         \/ Wild(x.version) # Wild(Version[x.by])
                         \/ Differ(x.version, Version[x.by], x.stream)
    BY DEF ClashOnlyAtBirth
  <2>1. PICK n \in Blocking(r) :
          x = [by |-> r, stream |-> n, version |-> streams[n].version, new |-> n \in absent[r]]
    BY <1>1 DEF Refused
  <2>2. /\ x.by = r /\ x.stream = n /\ x.version = streams[n].version
        /\ x.new <=> n \in absent[r]
    BY <2>1
  <2> QED BY <1>1, <2>2, RefusedFor DEF Refused
<1>2. CASE clashed' \subseteq clashed
  BY <1>2 DEF ClashOnlyAtBirth
<1> QED BY <1>1, <1>2, NextCases
        DEF Forget, Start, Info, AddOrUpdate, Down, Emit, On, Find, ConsumerInfo,
            ConsumerAddOrUpdate, Get, OnFails, history, vars

LEMMA StartsStep == StartsInv /\ [Next]_vars => StartsInv'
BY TypeStep, ProgressStep, BegunStep, ClashStep DEF StartsInv

LEMMA StartsInit == Init => StartsInv
<1> SUFFICES ASSUME Init PROVE StartsInv
  OBVIOUS
<1>1. Progress /\ Begun /\ ClashOnlyAtBirth
  BY DEF Init, Progress, Begun, ClashOnlyAtBirth, Starting
<1> QED BY <1>1, TypeInit DEF StartsInv

LEMMA StartsHold == Spec => []StartsInv
BY StartsInit, StartsStep, PTL DEF Spec

(* A replica whose start is over has a stream for each of its actions,     *)
(* whatever starts, stops and fails together with it                       *)
(* (StreamManager.createStreams, lines 49-79).                             *)
THEOREM StartsLeaveStreams == Spec => []StartedHasStreams
<1>1. StartsInv => StartedHasStreams
  BY DEF StartsInv, Progress, HasStream, StartedHasStreams
<1> QED BY <1>1, StartsHold, PTL

(* A start is refused only for the stream of another version, and only for *)
(* one made since it began, of the other kind, or with another value of    *)
(* what no update can change (StreamManager.createStreams, lines 52-78).   *)
THEOREM ClashesAreOfVersions == Spec => []ClashOnlyAtBirth
<1>1. StartsInv => ClashOnlyAtBirth
  BY DEF StartsInv
<1> QED BY <1>1, StartsHold, PTL

--------------------------------------------------------------------------------
(***************************************************************************)
(* Events                                                                  *)
(***************************************************************************)

(* The stream named for no event has an action for all of them.            *)
LEMMA StreamForAll ==
  ASSUME StreamTypes, NEW n \in Names, streams[n] # None
  PROVE  streams[n].action \in {"*", ">"} <=> n = "all"
<1>1. streams[n].action \in ActionNames /\ StreamName(streams[n].action) = n
  BY StreamConfig
<1> QED BY <1>1, StreamNames DEF ActionNames

(* What keeps an event of a replica whose start is over from a stream.     *)
LEMMA LostTo ==
  ASSUME TypeOK, Progress, NEW r \in Replicas, NEW e \in Events,
         phase[r] = "started", ~Stored(e), ForAll(Version[r])
  PROVE  Owner # None /\ ~ForAll(Owner)
<1> StreamTypes
  BY TypeParts
<1>1. "all" \in Names /\ streams["all"] # None
  BY StreamNames DEF Progress, HasStream, ForAll
<1>2. streams["all"].action = "*"
  <2>1. streams["all"].action \in {"*", ">"}
    BY <1>1, StreamForAll
  <2>2. streams["all"].action # ">"
    BY <1>1, OnlyGreaterMatches DEF Stored, Subject
  <2> QED BY <2>1, <2>2
<1>3. Owner = streams["all"].version /\ Owner \in Versions
  BY <1>1, StreamConfig DEF Owner
<1>4. PICK i \in DOMAIN Actions[Owner] : Actions[Owner][i] = "*"
  BY <1>1, <1>2, <1>3, StreamConfig
<1>5. ~ForAll(Owner)
  BY <1>3, <1>4, WildIsOnly DEF ForAll
<1> QED BY <1>3, <1>5, NoneAssumption

LEMMA LostStep ==
  ASSUME StartsInv, NothingLost, [Next]_vars
  PROVE  NothingLost'
<1>1. ASSUME NEW r \in Replicas, NEW e \in Events, Emit(r, e) PROVE NothingLost'
  <2> SUFFICES ASSUME NEW x \in lost', ForAll(Version[x.by])
               PROVE  x.all # None /\ ~ForAll(x.all)
    BY DEF NothingLost
  <2>1. x = [by |-> r, all |-> Owner] /\ phase[r] = "started" /\ ~Stored(e)
    BY <1>1 DEF Emit
  <2>2. x.by = r /\ x.all = Owner
    BY <2>1
  <2> QED BY <2>1, <2>2, LostTo DEF StartsInv
<1>2. CASE lost' \subseteq lost
  BY <1>2 DEF NothingLost
<1> QED BY <1>1, <1>2, NextCases
        DEF Forget, Start, Info, AddOrUpdate, Refused, Down, On, Find, ConsumerInfo,
            ConsumerAddOrUpdate, Get, OnFails, history, vars

(* An event that is emitted once start is over is not lost to a service    *)
(* with the action >, for any replicas of any versions, unless one with    *)
(* the action * has taken the stream over (StreamManager.createStreams,    *)
(* lines 49-79; Service.ts:96-121).                                        *)
THEOREM EventsAreStored == Spec => []NothingLost
<1>1. Init => NothingLost
  BY DEF Init, NothingLost
<1>2. StartsInv /\ NothingLost /\ [Next]_vars => NothingLost'
  BY LostStep
<1> QED BY <1>1, <1>2, StartsHold, PTL DEF Spec

--------------------------------------------------------------------------------
(***************************************************************************)
(* Listeners                                                               *)
(***************************************************************************)

(* A listener that is past the search has found the stream for all events; *)
(* once it has asked for its consumer there is one.                        *)
Served ==
  \A l \in Listeners :
    /\ lpc[l] \in {"info", "add", "update", "get", "ready"} =>
         found[l] = "all" /\ streams["all"] # None
    /\ lpc[l] \in {"get", "ready"} => consumers[EventOf[l]] # None

LEMMA ServedStep ==
  ASSUME TypeOK, Served, [Next]_vars
  PROVE  Served'
<1> ListenerTypes /\ StreamTypes
  BY TypeParts
<1> "all" \in Names
  BY StreamNames
<1>1. ASSUME NEW l \in Listeners, On(l) \/ OnFails(l) PROVE Served'
  BY <1>1 DEF On, OnFails, Served, ListenerTypes
<1>2. ASSUME NEW l \in Listeners, Find(l) PROVE Served'
  <2>1. CASE Candidates(EventOf[l]) = {} /\ lpc' = [lpc EXCEPT ![l] = "failed"] /\ UNCHANGED found
    BY <1>2, <2>1 DEF Find, Served, ListenerTypes
  <2>2. ASSUME NEW n \in Candidates(EventOf[l]), found' = [found EXCEPT ![l] = n],
               lpc' = [lpc EXCEPT ![l] = "info"]
        PROVE  Served'
    <3>1. n = "all" /\ streams["all"] # None
      BY StreamForAll, OnlyGreaterMatches DEF Candidates
    <3> QED BY <1>2, <2>2, <3>1 DEF Find, Served, ListenerTypes
  <2> QED BY <1>2, <2>1, <2>2 DEF Find
<1>3. ASSUME NEW l \in Listeners, ConsumerInfo(l) PROVE Served'
  BY <1>3 DEF ConsumerInfo, Served, ListenerTypes
<1>4. ASSUME NEW l \in Listeners, ConsumerAddOrUpdate(l) PROVE Served'
  <2>1. EventOf[l] \in Events /\ Setting[l] # None
    BY ListenersAssumption, NoneAssumption DEF Settings
  <2>2. \A e \in Events : consumers[e] # None => consumers'[e] # None
    BY <1>4, <2>1 DEF ConsumerAddOrUpdate, ListenerTypes
  <2>3. /\ lpc'[l] = "failed" \/ (lpc'[l] = "get" /\ consumers'[EventOf[l]] # None)
        /\ lpc[l] \in {"add", "update"}
        /\ \A k \in Listeners \ {l} : lpc'[k] = lpc[k]
    BY <1>4, <2>1 DEF ConsumerAddOrUpdate, ListenerTypes
  <2>4. UNCHANGED <<found, streams>> /\ \A k \in Listeners : EventOf[k] \in Events
    BY <1>4, ListenersAssumption DEF ConsumerAddOrUpdate
  <2> QED BY <2>2, <2>3, <2>4 DEF Served
<1>5. ASSUME NEW l \in Listeners, Get(l) PROVE Served'
  BY <1>5 DEF Get, Served, ListenerTypes
<1>6. CASE UNCHANGED listenerVars
  BY <1>6, StreamsStay DEF Served, listenerVars
<1> QED BY <1>1, <1>2, <1>3, <1>4, <1>5, <1>6, NextCases
        DEF Start, Info, AddOrUpdate, Refused, Down, Emit, vars

(* A listener whose on has resolved has a consumer, and a stream that      *)
(* takes its event or was taken over by a version with the action *        *)
(* (StreamManager.createConsumer, lines 157-188).                          *)
THEOREM ListenersAreServed == Spec => []ReadyHasConsumer
<1>1. Init => Served
  BY DEF Init, Served
<1>2. TypeOK /\ Served /\ [Next]_vars => Served'
  BY ServedStep
<1>3. TypeOK /\ Served => ReadyHasConsumer
  <2> SUFFICES ASSUME TypeOK, Served, NEW l \in Listeners, lpc[l] = "ready"
               PROVE  /\ consumers[EventOf[l]] # None
                      /\ streams[found[l]] # None
                      /\ \/ Matches(<<streams[found[l]].action>>, Subject(EventOf[l]))
                         \/ streams[found[l]].action = "*"
    BY DEF ReadyHasConsumer
  <2>1. found[l] = "all" /\ streams["all"] # None /\ consumers[EventOf[l]] # None
    BY DEF Served
  <2>2. streams["all"].action \in {"*", ">"}
    BY <2>1, StreamForAll, StreamNames, TypeParts
  <2>3. streams["all"].action = ">" =>
          Matches(<<streams["all"].action>>, Subject(EventOf[l]))
    BY OnlyGreaterMatches DEF Subject
  <2> QED BY <2>1, <2>2, <2>3
<1> QED BY <1>1, <1>2, <1>3, TypeCorrect, PTL DEF Spec

================================================================================

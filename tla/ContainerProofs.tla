----------------------------- MODULE ContainerProofs -----------------------------
(***************************************************************************)
(* Proofs about Container, for any keys, classes, bindings and numbers of  *)
(* calls of initDependencies and unbind.                                   *)
(***************************************************************************)
EXTENDS Container, FiniteSetTheorems, TLAPS

--------------------------------------------------------------------------------
(***************************************************************************)
(* What an adapter needs                                                   *)
(***************************************************************************)

LEMMA InjectedKeys ==
  ASSUME TypeOK, NEW k \in Keys
  PROVE  Injected(k) \subseteq Keys
<1>1. bound[k] \in Binding \cup {None}
  BY DEF TypeOK
<1> QED BY <1>1, NeedsAssumption DEF Injected, IsAdapter, Binding

(* All that is needed is injected, too, with what it needs.                *)
LEMMA NeededClosed ==
  ASSUME TypeOK, NEW k \in Keys
  PROVE  /\ Needed(k) \subseteq Keys
         /\ k \in Needed(k)
         /\ \A x \in Needed(k) : Injected(x) \subseteq Needed(k)
<1>1. Needed(k) \subseteq Keys /\ k \in Needed(k)
  BY DEF Needed
<1>2. ASSUME NEW x \in Needed(k), NEW y \in Injected(x) PROVE y \in Needed(k)
  <2>1. y \in Keys
    BY <1>1, <1>2, InjectedKeys
  <2>2. ASSUME NEW S \in SUBSET Keys, k \in S, \A z \in S : Injected(z) \subseteq S
        PROVE  y \in S
    <3>1. x \in S
      BY <2>2 DEF Needed
    <3> QED BY <2>2, <3>1
  <2> QED BY <2>1, <2>2 DEF Needed
<1> QED BY <1>1, <1>2

--------------------------------------------------------------------------------
(***************************************************************************)
(* What getInstance does                                                   *)
(***************************************************************************)

(* getInstance, for all keys in S, with what is injected by property.      *)
Builds(S, P) ==
  /\ S \subseteq Keys /\ P \subseteq ByProperty
  /\ \A k \in S : bound[k] # None
  /\ \A p \in P : p[2] \in S
  /\ Make(S)
  /\ Inject(P)

(* Of a key that has been asked for the container has the instance.        *)
LEMMA PropertiesNeeded ==
  ASSUME TypeOK, NEW k \in Keys
  PROVE  /\ Properties(Needed(k)) \subseteq ByProperty
         /\ \A p \in Properties(Needed(k)) : p[2] \in Needed(k)
<1>1. Properties(Needed(k)) \subseteq ByProperty
  BY DEF Properties
<1>2. ASSUME NEW p \in Properties(Needed(k)) PROVE p[2] \in Needed(k)
  <2>1. PICK x \in Needed(k) : IsAdapter(x) /\ bound[x].impl = p[1]
    BY DEF Properties
  <2>2. p[2] \in Needs[p[1]]
    BY <1>1, ByPropertyAssumption
  <2>3. p[2] \in Injected(x)
    BY <2>1, <2>2 DEF Injected
  <2> QED BY <2>3, NeededClosed
<1> QED BY <1>1, <1>2

LEMMA BuildsNeeded ==
  ASSUME TypeOK, NEW k \in Keys, Buildable(k), Make(Needed(k)), Inject(Properties(Needed(k)))
  PROVE  Builds(Needed(k), Properties(Needed(k)))
BY NeededClosed, PropertiesNeeded DEF Builds, Buildable

LEMMA BuildsSome ==
  ASSUME TypeOK, NEW k \in Keys, MakeSome(k)
  PROVE  \E S, P : Builds(S, P)
<1>1. PICK S \in SUBSET (Needed(k) \ {k}) :
        /\ \A q \in S : Buildable(q)
        /\ Make(S)
        /\ \E P \in SUBSET {p \in Properties(Needed(k)) : p[2] \in S} : Inject(P)
  BY DEF MakeSome
<1>2. PICK P \in SUBSET {p \in Properties(Needed(k)) : p[2] \in S} : Inject(P)
  BY <1>1
<1>3. S \subseteq Keys
  BY NeededClosed
<1>4. \A q \in S : bound[q] # None
  BY <1>1, <1>3, NeededClosed DEF Buildable
<1> QED BY <1>1, <1>2, <1>3, <1>4, PropertiesNeeded DEF Builds

LEMMA GetInstanceBuilds ==
  ASSUME TypeOK, NEW k \in Keys, GetInstance(k)
  PROVE  \E S, P : Builds(S, P)
BY BuildsNeeded, BuildsSome DEF GetInstance

(* An instance of its key, the last that was made.                         *)
Keyed ==
  \A k \in Keys : singletons[k] # None =>
    /\ singletons[k].object.key = k
    /\ singletons[k].object.n = made[k]
    /\ made[k] >= 1

(* Every instance after the first was made because a call of unbind that   *)
(* is done has dropped the one before.                                     *)
Closers == {u \in Unbinders : unbinder[u].pc = "done"}

Counted ==
  \A k \in Keys :
    made[k] <= Cardinality(Closers) + (IF singletons[k] = None THEN 0 ELSE 1)

LEMMA ClosersFinite ==
  /\ Cardinality(Closers) \in Nat
  /\ Cardinality(Unbinders) \in Nat
  /\ Cardinality(Closers) <= Cardinality(Unbinders)
<1>1. Closers \in SUBSET Unbinders
  BY DEF Closers
<1> QED BY <1>1, UnbindersAssumption, FS_Subset, FS_CardinalityType

(* What the container has for a key is an object of the key.               *)
LEMMA SingletonType ==
  ASSUME TypeOK, NEW k \in Keys, singletons[k] # None
  PROVE  singletons[k] \in Singleton /\ singletons[k].object \in Objects
                                     /\ singletons[k].object # None
BY NoneAssumption DEF TypeOK, Singleton

LEMMA SingletonMade ==
  ASSUME NEW o \in Objects, NEW init \in BOOLEAN
  PROVE  /\ [object |-> o, init |-> init] \in Singleton
         /\ [object |-> o, init |-> init] # None
         /\ [object |-> o, init |-> init].object = o
<1>1. [object |-> o, init |-> init] \in Singleton
  BY DEF Singleton
<1> QED BY <1>1, NoneAssumption

LEMMA InstanceType ==
  ASSUME TypeOK, Keyed, Counted, NEW k \in Keys, Shared(k)
  PROVE  /\ Instance(k) \in Objects /\ Instance(k) # None
         /\ Instance(k).key = k /\ Instance(k).n # 0
         /\ singletons[k] = None => Instance(k).n = made[k] + 1
         /\ singletons[k] = None => made[k] + 1 \in 0 .. 1 + Cardinality(Unbinders)
<1>1. CASE singletons[k] # None
  <2>1. singletons[k].object.n # 0
    BY <1>1 DEF Keyed, TypeOK
  <2> QED BY <1>1, <2>1, SingletonType DEF Instance, Keyed
<1>2. CASE singletons[k] = None
  <2>1. bound[k] \in Binding
    BY DEF Shared, IsAdapter, TypeOK
  <2>2. made[k] \in 0 .. 1 + Cardinality(Unbinders) /\ made[k] <= Cardinality(Unbinders)
    BY <1>2, ClosersFinite DEF TypeOK, Counted
  <2>3. made[k] + 1 \in 1 .. 1 + Cardinality(Unbinders)
    BY <2>2, ClosersFinite
  <2>4. Instance(k) = [key |-> k, impl |-> bound[k].impl, n |-> made[k] + 1]
    BY <1>2 DEF Instance
  <2>5. Instance(k) \in Objects
    BY <2>1, <2>3, <2>4, ClosersFinite DEF Objects, Binding
  <2> QED BY <2>3, <2>4, <2>5, ClosersFinite, NoneAssumption
<1> QED BY <1>1, <1>2

(* What getInstance returns is of the key, and kept unless its n is 0.     *)
LEMMA GivenType ==
  ASSUME TypeOK, Keyed, Counted, NEW k \in Keys, bound[k] # None
  PROVE  /\ Given(k) \in Objects /\ Given(k) # None
         /\ Given(k).key = k
         /\ Shared(k) => Given(k) = Instance(k) /\ Given(k).n # 0
         /\ ~Shared(k) => Given(k).n = 0
<1>1. CASE Shared(k)
  BY <1>1, InstanceType DEF Given
<1>2. CASE ~Shared(k)
  <2>1. bound[k] \in Binding
    BY DEF TypeOK
  <2>2. Given(k) = [key |-> k, impl |-> bound[k].impl, n |-> 0]
    BY <1>2 DEF Given
  <2>3. Given(k) \in Objects
    BY <2>1, <2>2, ClosersFinite DEF Objects, Binding
  <2> QED BY <1>2, <2>2, <2>3, NoneAssumption
<1> QED BY <1>1, <1>2

(* What getInstance leaves alone and what it makes.                        *)
LEMMA BuildsKeeps ==
  ASSUME TypeOK, NEW S, NEW P, Builds(S, P), NEW k \in Keys
  PROVE  /\ singletons[k] # None => singletons'[k] = singletons[k] /\ made'[k] = made[k]
         /\ singletons[k] = None /\ ~(k \in S /\ Kept(k)) =>
              singletons'[k] = None /\ made'[k] = made[k]
         /\ singletons[k] = None /\ k \in S /\ Kept(k) =>
              /\ singletons'[k] = [object |-> Instance(k), init |-> bound[k].option = "init"]
              /\ made'[k] = made[k] + 1
BY DEF Builds, Make, Missing

LEMMA BuildsMakes ==
  ASSUME TypeOK, Keyed, Counted, NEW S, NEW P, Builds(S, P), NEW k \in S, Shared(k)
  PROVE  singletons'[k] # None /\ singletons'[k].object = Instance(k)
<1>1. k \in Keys
  BY DEF Builds
<1>2. CASE singletons[k] # None
  BY <1>1, <1>2, BuildsKeeps DEF Instance
<1>3. CASE singletons[k] = None
  <2>1. Kept(k)
    BY <1>3 DEF Shared
  <2>2. singletons'[k] = [object |-> Instance(k), init |-> bound[k].option = "init"]
    BY <1>1, <1>3, <2>1, BuildsKeeps
  <2>3. [object |-> Instance(k), init |-> bound[k].option = "init"] # None
    <3>1. (bound[k].option = "init") \in BOOLEAN
      OBVIOUS
    <3> QED BY <1>1, <3>1, InstanceType, SingletonMade
  <2> QED BY <2>2, <2>3
<1> QED BY <1>2, <1>3

LEMMA NextCases ==
  ASSUME [Next]_vars
  PROVE  \/ \E k \in Keys : \E b \in Bindable[k] : Bind(k, b)
         \/ \E k \in Keys : GetInstance(k)
         \/ \E p \in Initers : \/ InitDependencies(p)
                               \/ Visit(p)
                               \/ InitResolves(p)
                               \/ InitRejects(p)
         \/ \E u \in Unbinders, k \in Keys : Unbind(u, k)
         \/ \E u \in Unbinders : CloseResolves(u) \/ CloseRejects(u)
         \/ UNCHANGED vars
BY DEF Next

--------------------------------------------------------------------------------
(***************************************************************************)
(* Types                                                                   *)
(***************************************************************************)

(* The conjuncts of TypeOK for the bindings, the objects and the calls.    *)
BoundTypes ==
  /\ bound \in [Keys -> Binding \cup {None}]
  /\ \A k \in Keys : bound[k] \in Bindable[k] \cup {None}
  /\ place \in [Keys -> 0 .. MaxBinds]
  /\ binds \in 0 .. MaxBinds

MadeTypes ==
  /\ singletons \in [Keys -> Singleton \cup {None}]
  /\ made \in [Keys -> 0 .. 1 + Cardinality(Unbinders)]

PrototypeTypes == prototype \in [ByProperty -> Objects \cup {None}]

IniterTypes ==
  /\ initializedKeys \subseteq Keys
  /\ initer \in [Initers -> [pc : {"idle", "taken", "waiting", "done", "failed"},
                             at : 0 .. MaxBinds,
                             key : Keys \cup {None},
                             init : BOOLEAN,
                             object : Objects \cup {None}]]
  /\ initialized \in [Initers -> SUBSET Objects]

UnbinderTypes ==
  unbinder \in [Unbinders -> [pc : {"idle", "closing", "done", "failed"},
                              object : Objects \cup {None}]]

HistoryTypes ==
  /\ steady \in [Initers -> SUBSET Keys]
  /\ unbound \subseteq Keys
  /\ rebound \subseteq Keys

LEMMA TypeParts ==
  TypeOK <=> /\ BoundTypes /\ MadeTypes /\ PrototypeTypes
             /\ IniterTypes /\ UnbinderTypes /\ HistoryTypes
BY DEF TypeOK, BoundTypes, MadeTypes, PrototypeTypes, IniterTypes, UnbinderTypes, HistoryTypes

(* A call that has taken an entry has the key of it, and an object of that *)
(* key exactly when it has one to wait for.                                *)
IniterHolds ==
  \A p \in Initers :
    /\ initer[p].pc \in {"taken", "waiting"} => initer[p].key \in Keys
    /\ initer[p].pc = "waiting" <=> initer[p].object # None
    /\ initer[p].pc = "waiting" => initer[p].object.key = initer[p].key

Holds ==
  /\ IniterHolds
  /\ \A u \in Unbinders : unbinder[u].pc = "idle" => unbinder[u].object = None
  /\ \A u \in Unbinders : unbinder[u].pc = "closing" => unbinder[u].object # None

Inv == TypeOK /\ Keyed /\ Counted /\ Holds

--------------------------------------------------------------------------------
(***************************************************************************)
(* What the loop of initDependencies does                                  *)
(***************************************************************************)

Ends(p, at) == Ahead(at) = {} /\ initer'[p] = At("done")

Enters(p, at, k) == NextKey(at, k) /\ initer'[p] = Entry(k)

LEMMA EntryFields ==
  ASSUME NEW k
  PROVE  /\ Entry(k).pc = "taken" /\ Entry(k).at = place[k] /\ Entry(k).key = k
         /\ Entry(k).init = WithInit(k) /\ Entry(k).object = None
BY DEF Entry

LEMMA TakeCases ==
  ASSUME TypeOK, NEW p \in Initers, NEW at, Take(p, at)
  PROVE  /\ initer' = [initer EXCEPT ![p] = initer'[p]]
         /\ Ends(p, at) \/ \E k \in Keys : Enters(p, at, k)
<1>1. p \in DOMAIN initer
  BY DEF TypeOK
<1>2. CASE Ahead(at) = {} /\ initer' = [initer EXCEPT ![p] = At("done")]
  BY <1>1, <1>2 DEF Ends
<1>3. ASSUME NEW k \in Keys, NextKey(at, k), initer' = [initer EXCEPT ![p] = Entry(k)]
      PROVE  Enters(p, at, k) /\ initer' = [initer EXCEPT ![p] = initer'[p]]
  BY <1>1, <1>3 DEF Enters
<1> QED BY <1>2, <1>3 DEF Take

(* A call waits only for what it was given.                                *)
LEMMA TakeWaits ==
  ASSUME TypeOK, NEW p \in Initers, NEW at, Take(p, at)
  PROVE  initer'[p].pc \in {"taken", "done"} /\ initer'[p].object = None
<1>1. CASE Ends(p, at)
  BY <1>1 DEF Ends, At
<1>2. ASSUME NEW k \in Keys, Enters(p, at, k)
      PROVE  initer'[p].pc = "taken" /\ initer'[p].object = None
  BY <1>2, EntryFields DEF Enters
<1> QED BY <1>1, <1>2, TakeCases

LEMMA PlaceType ==
  ASSUME TypeOK, NEW k \in Keys
  PROVE  place[k] \in 0 .. MaxBinds /\ 0 \in 0 .. MaxBinds
BY MaxBindsIsNat DEF TypeOK

LEMMA TakeTypes ==
  ASSUME Inv, NEW p \in Initers, NEW at, Take(p, at)
  PROVE  /\ initer' \in [Initers -> [pc : {"idle", "taken", "waiting", "done", "failed"},
                                     at : 0 .. MaxBinds,
                                     key : Keys \cup {None},
                                     init : BOOLEAN,
                                     object : Objects \cup {None}]]
         /\ IniterHolds'
<1>1. IniterTypes /\ IniterHolds
  BY TypeParts DEF Inv, Holds
<1>2. /\ initer' = [initer EXCEPT ![p] = initer'[p]]
      /\ Ends(p, at) \/ \E k \in Keys : Enters(p, at, k)
  BY TakeCases DEF Inv
<1>3. CASE Ends(p, at)
  <2>1. /\ initer'[p] = At("done")
        /\ At("done") \in [pc : {"idle", "taken", "waiting", "done", "failed"},
                           at : 0 .. MaxBinds,
                           key : Keys \cup {None},
                           init : BOOLEAN,
                           object : Objects \cup {None}]
        /\ At("done").pc = "done" /\ At("done").object = None
    BY <1>3, MaxBindsIsNat DEF Ends, At
  <2> QED BY <1>1, <1>2, <2>1 DEF IniterTypes, IniterHolds
<1>4. ASSUME NEW k \in Keys, Enters(p, at, k)
      PROVE  /\ initer'[p] \in [pc : {"idle", "taken", "waiting", "done", "failed"},
                                at : 0 .. MaxBinds,
                                key : Keys \cup {None},
                                init : BOOLEAN,
                                object : Objects \cup {None}]
             /\ initer'[p].pc = "taken" /\ initer'[p].key = k /\ initer'[p].object = None
  <2>1. WithInit(k) \in BOOLEAN
    BY DEF WithInit, IsAdapter
  <2> QED BY <1>4, <2>1, PlaceType DEF Enters, Entry, Inv
<1>5. CASE \E k \in Keys : Enters(p, at, k)
  BY <1>1, <1>2, <1>4, <1>5 DEF IniterTypes, IniterHolds
<1> QED BY <1>2, <1>3, <1>5

(* The three things that the body of the loop may do.                      *)
ToDo(p) == initer[p].init /\ initer[p].key \notin initializedKeys

Passes(p) ==
  /\ ~ToDo(p)
  /\ Take(p, initer[p].at)
  /\ UNCHANGED <<singletons, prototype, made>>

Begins(p, k) ==
  /\ k = initer[p].key /\ k \in Keys
  /\ ToDo(p)
  /\ bound[k] # None
  /\ Builds(Needed(k), Properties(Needed(k)))
  /\ initer' = [initer EXCEPT ![p].pc = "waiting", ![p].object = Given(k)]

Fails(p) ==
  /\ \E S, P : Builds(S, P)
  /\ initer' = [initer EXCEPT ![p] = At("failed")]

LEMMA VisitCases ==
  ASSUME Inv, NEW p \in Initers, Visit(p)
  PROVE  /\ initer[p].pc = "taken" /\ initer[p].key \in Keys
         /\ UNCHANGED <<bound, place, binds, initializedKeys, initialized, unbinder, histories>>
         /\ Passes(p) \/ Fails(p) \/ \E k \in Keys : Begins(p, k)
<1> DEFINE k == initer[p].key
<1>1. /\ initer[p].pc = "taken" /\ k \in Keys
      /\ UNCHANGED <<bound, place, binds, initializedKeys, initialized, unbinder, histories>>
  BY DEF Visit, Inv, Holds, IniterHolds
<1>2. CASE ~ToDo(p)
  <2>1. Take(p, initer[p].at) /\ UNCHANGED <<singletons, prototype, made>>
    BY <1>2 DEF Visit, ToDo
  <2> QED BY <1>1, <1>2, <2>1 DEF Passes
<1>3. CASE ToDo(p) /\ Buildable(k)
  <2>1. /\ Make(Needed(k)) /\ Inject(Properties(Needed(k)))
        /\ initer' = [initer EXCEPT ![p].pc = "waiting", ![p].object = Given(k)]
    BY <1>3 DEF Visit, ToDo
  <2>2. Builds(Needed(k), Properties(Needed(k))) /\ bound[k] # None
    BY <1>1, <1>3, <2>1, BuildsNeeded, NeededClosed DEF Inv, Buildable
  <2> QED BY <1>1, <1>3, <2>1, <2>2 DEF Begins
<1>4. CASE ToDo(p) /\ ~Buildable(k)
  <2>1. MakeSome(k) /\ initer' = [initer EXCEPT ![p] = At("failed")]
    BY <1>4 DEF Visit, ToDo
  <2> QED BY <1>1, <2>1, BuildsSome DEF Inv, Fails
<1> QED BY <1>1, <1>2, <1>3, <1>4

(* What a call has when it begins to wait.                                 *)
LEMMA BeginsWaiting ==
  ASSUME Inv, NEW p \in Initers, NEW k \in Keys, Begins(p, k)
  PROVE  /\ \A q \in Initers \ {p} : initer'[q] = initer[q]
         /\ initer'[p].pc = "waiting" /\ initer'[p].object = Given(k)
         /\ initer'[p].at = initer[p].at
         /\ initer'[p].key = k /\ initer'[p].init = initer[p].init
         /\ Given(k) \in Objects /\ Given(k) # None /\ Given(k).key = k
<1>1. Given(k) \in Objects /\ Given(k) # None /\ Given(k).key = k
  BY GivenType DEF Begins, Inv
<1>2. initer' = [initer EXCEPT ![p].pc = "waiting", ![p].object = Given(k)] /\ k = initer[p].key
  BY DEF Begins
<1>3. initer \in [Initers -> [pc : {"idle", "taken", "waiting", "done", "failed"},
                              at : 0 .. MaxBinds,
                              key : Keys \cup {None},
                              init : BOOLEAN,
                              object : Objects \cup {None}]]
  BY DEF Inv, TypeOK
<1> QED BY <1>1, <1>2, <1>3

--------------------------------------------------------------------------------
LEMMA BoundTypesStep ==
  ASSUME Inv, [Next]_vars
  PROVE  BoundTypes'
<1> USE DEF Inv
<1>1. BoundTypes
  BY TypeParts
<1>2. ASSUME NEW k \in Keys, NEW b \in Bindable[k], Bind(k, b) PROVE BoundTypes'
  <2>1. b \in Binding /\ b \in Bindable[k]
    BY BindableAssumption
  <2>2. bound' = [bound EXCEPT ![k] = b]
    BY <1>2 DEF Bind
  <2>3. CASE UNCHANGED <<place, binds>>
    BY <1>1, <2>1, <2>2, <2>3 DEF BoundTypes
  <2>4. CASE /\ binds < MaxBinds
             /\ binds' = binds + 1
             /\ place' = [place EXCEPT ![k] = binds + 1]
    <3>1. binds + 1 \in 0 .. MaxBinds
      BY <1>1, <2>4, MaxBindsIsNat DEF BoundTypes
    <3> QED BY <1>1, <2>1, <2>2, <2>4, <3>1 DEF BoundTypes
  <2> QED BY <1>2, <2>3, <2>4 DEF Bind
<1>3. ASSUME NEW u \in Unbinders, NEW k \in Keys, Unbind(u, k) PROVE BoundTypes'
  BY <1>1, <1>3 DEF Unbind, BoundTypes
<1>4. CASE UNCHANGED <<bound, place, binds>>
  BY <1>1, <1>4 DEF BoundTypes
<1> QED BY <1>2, <1>3, <1>4, NextCases
        DEF GetInstance, InitDependencies, Visit, InitResolves, InitRejects, CloseResolves,
            CloseRejects, vars

(* What of it getInstance makes.                                           *)
LEMMA BuildsTypes ==
  ASSUME Inv, NEW S, NEW P, Builds(S, P), Closers' = Closers
  PROVE  MadeTypes' /\ PrototypeTypes' /\ Keyed' /\ Counted'
<1> USE DEF Inv
<1>1. /\ DOMAIN singletons' = Keys /\ singletons' = [k \in Keys |-> singletons'[k]]
      /\ DOMAIN made' = Keys /\ made' = [k \in Keys |-> made'[k]]
  BY DEF Builds, Make
<1>2. ASSUME NEW k \in Keys
      PROVE  /\ singletons'[k] \in Singleton \cup {None}
             /\ made'[k] \in 0 .. 1 + Cardinality(Unbinders)
             /\ singletons'[k] # None =>
                  /\ singletons'[k].object.key = k
                  /\ singletons'[k].object.n = made'[k]
                  /\ made'[k] >= 1
             /\ made'[k] <= Cardinality(Closers) + (IF singletons'[k] = None THEN 0 ELSE 1)
  <2>1. singletons[k] \in Singleton \cup {None} /\ made[k] \in 0 .. 1 + Cardinality(Unbinders)
    BY DEF TypeOK
  <2>2. CASE singletons'[k] = singletons[k] /\ made'[k] = made[k]
    BY <2>1, <2>2 DEF Keyed, Counted
  <2>3. CASE /\ singletons[k] = None /\ Kept(k)
             /\ singletons'[k] = [object |-> Instance(k), init |-> bound[k].option = "init"]
             /\ made'[k] = made[k] + 1
    <3>1. Shared(k)
      BY <2>3 DEF Shared, Kept
    <3>2. /\ Instance(k) \in Objects /\ Instance(k).key = k /\ Instance(k).n = made[k] + 1
          /\ made[k] + 1 \in 0 .. 1 + Cardinality(Unbinders)
      BY <2>3, <3>1, InstanceType
    <3>3. (bound[k].option = "init") \in BOOLEAN
      OBVIOUS
    <3>4. /\ singletons'[k] \in Singleton /\ singletons'[k] # None
          /\ singletons'[k].object = Instance(k)
      BY <2>3, <3>2, <3>3, SingletonMade
    <3>5. made[k] <= Cardinality(Closers)
      BY <2>3, <2>1, ClosersFinite DEF Counted
    <3> QED BY <2>1, <2>3, <3>2, <3>4, <3>5, ClosersFinite
  <2> QED BY <2>2, <2>3, BuildsKeeps
<1>3. MadeTypes'
  BY <1>1, <1>2 DEF MadeTypes
<1>4. Keyed' /\ Counted'
  BY <1>2 DEF Keyed, Counted
<1>5. PrototypeTypes'
  <2>1. prototype \in [ByProperty -> Objects \cup {None}]
    BY DEF TypeOK
  <2>2. \A p \in P : p[2] \in Keys /\ bound[p[2]] # None
    BY DEF Builds
  <2>3. \A p \in P : Given(p[2]) \in Objects
    BY <2>2, GivenType
  <2> QED BY <2>1, <2>3 DEF Builds, Inject, PrototypeTypes
<1> QED BY <1>3, <1>4, <1>5

(* What of it a call of unbind drops.                                      *)
LEMMA DropTypes ==
  ASSUME Inv, NEW k \in Keys, Drop(k), UNCHANGED made, NEW u \in Unbinders,
         unbinder[u].pc # "done", Closers' = Closers \cup {u}
  PROVE  MadeTypes' /\ Keyed' /\ Counted'
<1> USE DEF Inv
<1>1. /\ singletons'[k] = None
      /\ \A q \in Keys \ {k} : singletons'[q] = singletons[q]
      /\ MadeTypes'
  BY DEF Drop, TypeOK, MadeTypes
<1>2. Cardinality(Closers') = Cardinality(Closers) + 1
  <2>1. IsFiniteSet(Closers) /\ u \notin Closers
    BY UnbindersAssumption, FS_Subset DEF Closers
  <2> QED BY <2>1, FS_AddElement
<1>3. Keyed'
  BY <1>1 DEF Keyed
<1>4. \A q \in Keys : made[q] \in Nat
  BY DEF TypeOK
<1>5. Counted'
  <2> SUFFICES ASSUME NEW q \in Keys
               PROVE  made[q] <= Cardinality(Closers') + (IF singletons'[q] = None THEN 0 ELSE 1)
    BY DEF Counted
  <2>1. made[q] <= Cardinality(Closers) + (IF singletons[q] = None THEN 0 ELSE 1)
    BY DEF Counted
  <2>2. made[q] \in Nat /\ Cardinality(Closers) \in Nat
    BY <1>4, ClosersFinite
  <2> QED BY <1>1, <1>2, <2>1, <2>2
<1> QED BY <1>1, <1>3, <1>5

LEMMA MadeTypesStep ==
  ASSUME Inv, [Next]_vars
  PROVE  MadeTypes' /\ PrototypeTypes' /\ Keyed' /\ Counted'
<1> USE DEF Inv
<1>1. MadeTypes /\ PrototypeTypes /\ UnbinderTypes
  BY TypeParts
<1>2. ASSUME NEW k \in Keys, GetInstance(k)
      PROVE  MadeTypes' /\ PrototypeTypes' /\ Keyed' /\ Counted'
  <2>1. Closers' = Closers
    BY <1>2 DEF GetInstance, Closers
  <2> QED BY <1>2, <2>1, GetInstanceBuilds, BuildsTypes
<1>3. ASSUME UNCHANGED <<singletons, prototype, made>>, Closers \subseteq Closers'
      PROVE  MadeTypes' /\ PrototypeTypes' /\ Keyed' /\ Counted'
  <2>1. MadeTypes' /\ PrototypeTypes' /\ Keyed'
    BY <1>1, <1>3 DEF MadeTypes, PrototypeTypes, Keyed
  <2>2. Closers' \in SUBSET Unbinders
    BY DEF Closers
  <2>3. /\ Cardinality(Closers) <= Cardinality(Closers')
        /\ Cardinality(Closers) \in Nat /\ Cardinality(Closers') \in Nat
    BY <1>3, <2>2, UnbindersAssumption, FS_Subset, FS_CardinalityType
  <2>4. \A k \in Keys : made[k] \in Nat
    BY DEF TypeOK
  <2>5. Counted'
    <3> SUFFICES ASSUME NEW k \in Keys
                 PROVE  made[k] <= Cardinality(Closers') + (IF singletons[k] = None THEN 0 ELSE 1)
      BY <1>3 DEF Counted
    <3>1. made[k] <= Cardinality(Closers) + (IF singletons[k] = None THEN 0 ELSE 1)
      BY DEF Counted
    <3> QED BY <2>3, <2>4, <3>1
  <2> QED BY <2>1, <2>5
<1>4. ASSUME NEW p \in Initers, Visit(p)
      PROVE  MadeTypes' /\ PrototypeTypes' /\ Keyed' /\ Counted'
  <2>1. Closers' = Closers
    BY <1>4 DEF Visit, Closers
  <2>2. CASE UNCHANGED <<singletons, prototype, made>>
    BY <1>3, <2>1, <2>2
  <2>3. CASE \E S, P : Builds(S, P)
    BY <2>1, <2>3, BuildsTypes
  <2> QED BY <1>4, <2>2, <2>3, VisitCases DEF Fails, Passes, Begins
<1>5. ASSUME NEW u \in Unbinders, NEW k \in Keys, Drop(k), unbinder[u].pc # "done",
             UNCHANGED <<made, prototype>>, NEW o \in Objects \cup {None},
             unbinder' = [unbinder EXCEPT ![u] = [pc |-> "done", object |-> o]]
      PROVE  MadeTypes' /\ PrototypeTypes' /\ Keyed' /\ Counted'
  <2>1. Closers' = Closers \cup {u}
    BY <1>1, <1>5 DEF Closers, UnbinderTypes
  <2> QED BY <1>1, <1>5, <2>1, DropTypes DEF PrototypeTypes
<1>6. ASSUME NEW u \in Unbinders, NEW k \in Keys, Unbind(u, k)
      PROVE  MadeTypes' /\ PrototypeTypes' /\ Keyed' /\ Counted'
  <2>1. CASE UNCHANGED singletons /\ unbinder' = [unbinder EXCEPT
               ![u] = [pc |-> "closing", object |-> singletons[k].object]]
    <3>1. Closers' = Closers
      BY <1>1, <1>6, <2>1 DEF Closers, UnbinderTypes, Unbind
    <3> QED BY <1>3, <1>6, <2>1, <3>1 DEF Unbind
  <2>2. CASE Drop(k) /\ unbinder' = [unbinder EXCEPT ![u] = [pc |-> "done", object |-> None]]
    BY <1>5, <1>6, <2>2 DEF Unbind
  <2> QED BY <1>6, <2>1, <2>2 DEF Unbind
<1>7. ASSUME NEW u \in Unbinders, CloseResolves(u)
      PROVE  MadeTypes' /\ PrototypeTypes' /\ Keyed' /\ Counted'
  <2>1. unbinder[u].object \in Objects /\ unbinder[u].object.key \in Keys
    BY <1>1, <1>7 DEF CloseResolves, Holds, UnbinderTypes, Objects
  <2>2. unbinder' = [unbinder EXCEPT ![u] = [pc |-> "done", object |-> unbinder[u].object]]
    <3>1. unbinder[u] \in [pc : {"idle", "closing", "done", "failed"},
                           object : Objects \cup {None}]
      BY <1>1 DEF UnbinderTypes
    <3>2. [unbinder[u] EXCEPT !.pc = "done"] = [pc |-> "done", object |-> unbinder[u].object]
      BY <3>1
    <3>3. unbinder' = [unbinder EXCEPT ![u] = [unbinder[u] EXCEPT !.pc = "done"]]
      BY <1>7 DEF CloseResolves
    <3> QED BY <3>2, <3>3
  <2> QED BY <1>5, <1>7, <2>1, <2>2 DEF CloseResolves
<1>8. ASSUME NEW u \in Unbinders, CloseRejects(u)
      PROVE  MadeTypes' /\ PrototypeTypes' /\ Keyed' /\ Counted'
  <2>1. Closers' = Closers
    BY <1>1, <1>8 DEF CloseRejects, Closers, UnbinderTypes
  <2> QED BY <1>3, <1>8, <2>1 DEF CloseRejects
<1>9. CASE UNCHANGED <<singletons, prototype, made, unbinder>>
  BY <1>3, <1>9 DEF Closers
<1> QED BY <1>2, <1>4, <1>6, <1>7, <1>8, <1>9, NextCases
        DEF Bind, InitDependencies, InitResolves, InitRejects, vars

LEMMA IniterTypesStep ==
  ASSUME Inv, [Next]_vars
  PROVE  IniterTypes' /\ IniterHolds'
<1> DEFINE Goal == IniterTypes' /\ IniterHolds'
<1>1. IniterTypes /\ IniterHolds
  BY TypeParts DEF Inv, Holds
<1>2. ASSUME NEW p \in Initers, InitDependencies(p) PROVE Goal
  BY <1>1, <1>2, TakeTypes DEF InitDependencies, IniterTypes
<1>3. ASSUME NEW p \in Initers, Visit(p) PROVE Goal
  <2>1. UNCHANGED <<initializedKeys, initialized>>
    BY <1>3, VisitCases
  <2>2. CASE Passes(p)
    BY <1>1, <2>1, <2>2, TakeTypes DEF Passes, IniterTypes
  <2>3. CASE Fails(p)
    BY <1>1, <2>1, <2>3, MaxBindsIsNat DEF Fails, At, IniterTypes, IniterHolds
  <2>4. ASSUME NEW k \in Keys, Begins(p, k) PROVE Goal
    <3>1. /\ initer' = [initer EXCEPT ![p] = initer'[p]]
          /\ initer'[p] \in [pc : {"idle", "taken", "waiting", "done", "failed"},
                             at : 0 .. MaxBinds,
                             key : Keys \cup {None},
                             init : BOOLEAN,
                             object : Objects \cup {None}]
      <4>1. initer' = [initer EXCEPT ![p].pc = "waiting", ![p].object = Given(k)]
        BY <2>4 DEF Begins
      <4>2. Given(k) \in Objects
        BY <2>4, BeginsWaiting
      <4> QED BY <1>1, <4>1, <4>2 DEF IniterTypes
    <3>2. /\ initer'[p].pc = "waiting" /\ initer'[p].object = Given(k) /\ initer'[p].key = k
          /\ Given(k) # None /\ Given(k).key = k
      BY <2>4, BeginsWaiting
    <3>3. IniterTypes'
      BY <1>1, <2>1, <3>1 DEF IniterTypes
    <3>4. IniterHolds'
      BY <1>1, <3>1, <3>2 DEF IniterHolds, IniterTypes
    <3> QED BY <3>3, <3>4
  <2> QED BY <1>3, <2>2, <2>3, <2>4, VisitCases
<1>4. ASSUME NEW p \in Initers, InitResolves(p) PROVE Goal
  <2>1. initer[p].object \in Objects /\ initer[p].key \in Keys
    BY <1>1, <1>4 DEF InitResolves, IniterTypes, IniterHolds
  <2> QED BY <1>1, <1>4, <2>1, TakeTypes DEF InitResolves, MarkInitialized, IniterTypes
<1>5. ASSUME NEW p \in Initers, InitRejects(p) PROVE Goal
  BY <1>1, <1>5, MaxBindsIsNat DEF InitRejects, At, IniterTypes, IniterHolds
<1>6. CASE UNCHANGED <<initializedKeys, initer, initialized>>
  BY <1>1, <1>6 DEF IniterTypes, IniterHolds
<1> QED BY <1>2, <1>3, <1>4, <1>5, <1>6, NextCases
        DEF Bind, GetInstance, Unbind, CloseResolves, CloseRejects, vars

LEMMA UnbinderTypesStep ==
  ASSUME Inv, [Next]_vars
  PROVE  /\ UnbinderTypes'
         /\ (\A u \in Unbinders : unbinder[u].pc = "idle" => unbinder[u].object = None)'
         /\ (\A u \in Unbinders : unbinder[u].pc = "closing" => unbinder[u].object # None)'
<1> USE DEF Inv
<1> DEFINE Goal == /\ UnbinderTypes'
                   /\ \A u \in Unbinders : unbinder'[u].pc = "idle" => unbinder'[u].object = None
                   /\ \A u \in Unbinders : unbinder'[u].pc = "closing" => unbinder'[u].object # None
<1>1. /\ UnbinderTypes
      /\ \A u \in Unbinders : unbinder[u].pc = "idle" => unbinder[u].object = None
      /\ \A u \in Unbinders : unbinder[u].pc = "closing" => unbinder[u].object # None
  BY TypeParts DEF Holds
<1>2. ASSUME NEW u \in Unbinders, NEW k \in Keys, Unbind(u, k) PROVE Goal
  <2>1. CASE MustClose(k) /\ unbinder' = [unbinder EXCEPT
               ![u] = [pc |-> "closing", object |-> singletons[k].object]]
    <3>1. singletons[k].object \in Objects /\ singletons[k].object # None
      BY <2>1, SingletonType DEF MustClose
    <3> QED BY <1>1, <2>1, <3>1 DEF UnbinderTypes
  <2>2. CASE unbinder' = [unbinder EXCEPT ![u] = [pc |-> "done", object |-> None]]
    BY <1>1, <2>2 DEF UnbinderTypes
  <2> QED BY <1>2, <2>1, <2>2 DEF Unbind
<1>3. ASSUME NEW u \in Unbinders, CloseResolves(u) \/ CloseRejects(u) PROVE Goal
  BY <1>1, <1>3 DEF CloseResolves, CloseRejects, UnbinderTypes
<1>4. CASE UNCHANGED unbinder
  BY <1>1, <1>4 DEF UnbinderTypes
<1> QED BY <1>2, <1>3, <1>4, NextCases
        DEF Bind, GetInstance, InitDependencies, Visit, InitResolves, InitRejects, vars

LEMMA HistoryTypesStep ==
  ASSUME Inv, [Next]_vars
  PROVE  HistoryTypes'
<1> USE DEF Inv
<1>1. HistoryTypes
  BY TypeParts
<1>2. ASSUME NEW k \in Keys, NEW b, Bind(k, b) PROVE HistoryTypes'
  BY <1>1, <1>2 DEF Bind, HistoryTypes
<1>3. ASSUME NEW p \in Initers, InitDependencies(p) PROVE HistoryTypes'
  BY <1>1, <1>3 DEF InitDependencies, HistoryTypes
<1>4. ASSUME NEW u \in Unbinders, NEW k \in Keys, Unbind(u, k) PROVE HistoryTypes'
  BY <1>1, <1>4 DEF Unbind, HistoryTypes
<1>5. CASE UNCHANGED <<steady, unbound, rebound>>
  BY <1>1, <1>5 DEF HistoryTypes
<1> QED BY <1>2, <1>3, <1>4, <1>5, NextCases
        DEF GetInstance, Visit, InitResolves, InitRejects, CloseResolves, CloseRejects,
            histories, vars

LEMMA InvStep == Inv /\ [Next]_vars => Inv'
<1> SUFFICES ASSUME Inv, [Next]_vars PROVE Inv'
  OBVIOUS
<1>1. TypeOK'
  <2>1. /\ BoundTypes' /\ MadeTypes' /\ PrototypeTypes'
        /\ IniterTypes' /\ UnbinderTypes' /\ HistoryTypes'
    BY BoundTypesStep, MadeTypesStep, IniterTypesStep, UnbinderTypesStep, HistoryTypesStep
  <2> QED BY <2>1 DEF TypeOK, BoundTypes, MadeTypes, PrototypeTypes, IniterTypes, UnbinderTypes,
                      HistoryTypes
<1>2. Keyed' /\ Counted'
  BY MadeTypesStep
<1>3. Holds'
  BY IniterTypesStep, UnbinderTypesStep DEF Holds
<1> QED BY <1>1, <1>2, <1>3 DEF Inv

LEMMA InitInv == Init => Inv
<1> SUFFICES ASSUME Init PROVE Inv
  OBVIOUS
<1>1. TypeOK
  BY ClosersFinite, MaxBindsIsNat DEF Init, At, TypeOK
<1>2. Keyed /\ Counted
  BY ClosersFinite DEF Init, Keyed, Counted
<1>3. Holds
  BY DEF Init, At, Holds, IniterHolds
<1> QED BY <1>1, <1>2, <1>3 DEF Inv

LEMMA Invariant == Spec => []Inv
BY InitInv, InvStep, PTL DEF Spec

(* Types: among them that no more instances of a key are made than calls   *)
(* of unbind can have dropped, and one (Container.getInstance, lines       *)
(* 144-170).                                                               *)
THEOREM TypeCorrect == Spec => []TypeOK
<1>1. Inv => TypeOK
  BY DEF Inv
<1> QED BY <1>1, Invariant, PTL

--------------------------------------------------------------------------------
(***************************************************************************)
(* Initialised once                                                        *)
(***************************************************************************)

Underway(p) == initer[p].pc \in {"taken", "waiting"}

(* Two calls of initDependencies that are under way overlap.               *)
InitersOverlap ==
  \A p, q \in Initers : p # q /\ Underway(p) /\ Underway(q) => {p, q} \in overlaps

(* The key of an instance that was initialised is marked.                  *)
Marked == \A p \in Initers : \A o \in initialized[p] : o.key \in initializedKeys

(* A call waits for an instance that another has initialised only if they  *)
(* overlap: it looks at initializedKeys before it begins.                  *)
WaitsForNew ==
  \A p, q \in Initers :
    (p # q /\ initer[p].pc = "waiting" /\ initer[p].object \in initialized[q]) =>
      {p, q} \in overlaps

LEMMA OverlapsGrow ==
  ASSUME [Next]_vars
  PROVE  overlaps \subseteq overlaps'
BY NextCases
   DEF Bind, GetInstance, InitDependencies, Visit, InitResolves, InitRejects, Unbind,
       CloseResolves, CloseRejects, histories, vars

(* What a step does to a call of initDependencies.                         *)
LEMMA IniterCases ==
  ASSUME Inv, [Next]_vars, NEW p \in Initers
  PROVE  \/ initer'[p] = initer[p] /\ initialized'[p] = initialized[p]
         \/ InitDependencies(p) \/ Visit(p) \/ InitResolves(p) \/ InitRejects(p)
<1>1. IniterTypes
  BY TypeParts DEF Inv
<1>2. ASSUME NEW q \in Initers,
             InitDependencies(q) \/ Visit(q) \/ InitResolves(q) \/ InitRejects(q),
             p # q
      PROVE  initer'[p] = initer[p] /\ initialized'[p] = initialized[p]
  <2>1. ASSUME NEW at, Take(q, at) PROVE initer'[p] = initer[p]
    BY <1>1, <1>2, <2>1, TakeCases DEF Inv, IniterTypes
  <2>2. CASE InitDependencies(q)
    BY <2>1, <2>2 DEF InitDependencies
  <2>3. CASE Visit(q)
    <3>1. CASE Passes(q)
      BY <2>1, <2>3, <3>1, VisitCases DEF Passes
    <3>2. CASE Fails(q)
      BY <1>1, <1>2, <2>3, <3>2, VisitCases DEF Fails, IniterTypes
    <3>3. ASSUME NEW k \in Keys, Begins(q, k)
          PROVE  initer'[p] = initer[p] /\ initialized'[p] = initialized[p]
      BY <1>2, <2>3, <3>3, BeginsWaiting, VisitCases
    <3> QED BY <2>3, <3>1, <3>2, <3>3, VisitCases
  <2>4. CASE InitResolves(q)
    BY <1>1, <1>2, <2>1, <2>4 DEF InitResolves, IniterTypes
  <2>5. CASE InitRejects(q)
    BY <1>1, <1>2, <2>5 DEF InitRejects, IniterTypes
  <2> QED BY <1>2, <2>2, <2>3, <2>4, <2>5
<1>3. CASE UNCHANGED <<initer, initialized>>
  BY <1>3
<1> QED BY <1>2, <1>3, NextCases
        DEF Bind, GetInstance, Unbind, CloseResolves, CloseRejects, vars

LEMMA InitersOverlapStep ==
  ASSUME Inv, InitersOverlap, [Next]_vars
  PROVE  InitersOverlap'
<1> SUFFICES ASSUME NEW p \in Initers, NEW q \in Initers, p # q, Underway(p)', Underway(q)'
             PROVE  {p, q} \in overlaps'
  BY DEF InitersOverlap
<1>1. CASE Underway(p) /\ Underway(q)
  BY <1>1, OverlapsGrow DEF InitersOverlap
<1>2. ASSUME NEW x \in Initers, NEW y \in Initers, x # y, ~Underway(x), Underway(x)', Underway(y)'
      PROVE  {x, y} \in overlaps'
  <2>1. InitDependencies(x)
    <3>1. Visit(x) => Underway(x)
      BY DEF Visit, Underway
    <3>2. InitResolves(x) => Underway(x)
      BY DEF InitResolves, Underway
    <3>3. InitRejects(x) => Underway(x)
      BY DEF InitRejects, Underway
    <3>4. initer'[x] = initer[x] => Underway(x)
      BY <1>2 DEF Underway
    <3> QED BY <1>2, <3>1, <3>2, <3>3, <3>4, IniterCases
  <2>2. initer'[y] = initer[y]
    BY <1>2, <2>1, TakeCases DEF InitDependencies, Inv, TypeOK
  <2>3. y \in Active
    BY <1>2, <2>2 DEF Underway, Active
  <2> QED BY <2>1, <2>3 DEF InitDependencies
<1> QED BY <1>1, <1>2

LEMMA MarkedStep ==
  ASSUME Inv, Marked, [Next]_vars
  PROVE  Marked'
<1>1. ASSUME NEW p \in Initers, InitResolves(p) PROVE Marked'
  <2>1. initer[p].object.key = initer[p].key
    BY <1>1 DEF InitResolves, Inv, Holds, IniterHolds
  <2> QED BY <1>1, <2>1 DEF InitResolves, MarkInitialized, Marked, Inv, TypeOK
<1>2. CASE UNCHANGED <<initialized, initializedKeys>>
  BY <1>2 DEF Marked
<1> QED BY <1>1, <1>2, NextCases
        DEF Bind, GetInstance, InitDependencies, Visit, InitRejects, Unbind, CloseResolves,
            CloseRejects, vars

LEMMA WaitsForNewStep ==
  ASSUME Inv, InitersOverlap, Marked, WaitsForNew, [Next]_vars
  PROVE  WaitsForNew'
<1> SUFFICES ASSUME NEW p \in Initers, NEW q \in Initers, p # q,
                    initer'[p].pc = "waiting", initer'[p].object \in initialized'[q]
             PROVE  {p, q} \in overlaps'
  BY DEF WaitsForNew
<1>1. CASE initer'[p] = initer[p] /\ initialized'[q] = initialized[q]
  BY <1>1, OverlapsGrow DEF WaitsForNew
<1>2. CASE Visit(p)
  <2>1. PICK k \in Keys : Begins(p, k)
    <3>1. ~Passes(p)
      BY TakeWaits DEF Passes, Inv
    <3>2. ~Fails(p)
      BY DEF Fails, At, Inv, TypeOK
    <3> QED BY <1>2, <3>1, <3>2, VisitCases
  <2>2. initer'[p].object = Given(k) /\ Given(k).key = k
    BY <2>1, BeginsWaiting
  <2>3. k \notin initializedKeys /\ UNCHANGED initialized
    BY <1>2, <2>1, VisitCases DEF Begins, ToDo
  <2> QED BY <2>2, <2>3 DEF Marked
<1>3. CASE InitResolves(q)
  <2>1. initer'[p] = initer[p] /\ Underway(p) /\ Underway(q)
    BY <1>3, TakeCases DEF InitResolves, Inv, TypeOK, Underway
  <2> QED BY <2>1, OverlapsGrow DEF InitersOverlap
<1>4. CASE InitDependencies(p) \/ InitResolves(p) \/ InitRejects(p)
  <2>1. ~InitRejects(p)
    BY DEF InitRejects, At, Inv, TypeOK
  <2> QED BY <1>4, <2>1, TakeWaits DEF InitDependencies, InitResolves, Inv
<1>5. CASE InitDependencies(q) \/ Visit(q) \/ InitRejects(q)
  <2>1. initialized'[q] = initialized[q]
    BY <1>5, VisitCases DEF InitDependencies, InitRejects
  <2>2. initer'[p] = initer[p] \/ Visit(p) \/ InitDependencies(p) \/ InitResolves(p)
           \/ InitRejects(p)
    BY IniterCases
  <2> QED BY <1>1, <1>2, <1>4, <2>1, <2>2
<1> QED BY <1>1, <1>2, <1>3, <1>4, <1>5, IniterCases

LEMMA InitOnceStep ==
  ASSUME Inv, WaitsForNew, InitOnce, [Next]_vars
  PROVE  InitOnce'
<1>1. ASSUME NEW p \in Initers, InitResolves(p) PROVE InitOnce'
  <2>1. /\ initer[p].pc = "waiting"
        /\ initialized'[p] = initialized[p] \cup {initer[p].object}
        /\ \A q \in Initers \ {p} : initialized'[q] = initialized[q]
    BY <1>1 DEF InitResolves, Inv, TypeOK
  <2>2. ASSUME NEW q \in Initers \ {p}, initialized'[p] \cap initialized'[q] # {}
        PROVE  {p, q} \in overlaps
    <3>1. CASE initer[p].object \in initialized[q]
      BY <2>1, <3>1 DEF WaitsForNew
    <3>2. CASE initer[p].object \notin initialized[q]
      BY <2>1, <2>2, <3>2 DEF InitOnce
    <3> QED BY <3>1, <3>2
  <2>3. \A q \in Initers : {p, q} = {q, p}
    OBVIOUS
  <2> QED BY <2>1, <2>2, <2>3, OverlapsGrow DEF InitOnce
<1>2. CASE UNCHANGED initialized
  BY <1>2, OverlapsGrow DEF InitOnce
<1> QED BY <1>1, <1>2, NextCases
        DEF Bind, GetInstance, InitDependencies, Visit, InitRejects, Unbind, CloseResolves,
            CloseRejects, vars

(* No instance is initialised by two calls of initDependencies, unless     *)
(* they overlap (Container.initDependencies, lines 172-183).               *)
THEOREM InitialisedOnce == Spec => []InitOnce
<1> DEFINE I == InitersOverlap /\ Marked /\ WaitsForNew /\ InitOnce
<1>1. Init => I
  BY DEF Init, At, InitersOverlap, Underway, Marked, WaitsForNew, InitOnce
<1>2. Inv /\ I /\ [Next]_vars => I'
  BY InitersOverlapStep, MarkedStep, WaitsForNewStep, InitOnceStep
<1> QED BY <1>1, <1>2, Invariant, PTL DEF Spec

--------------------------------------------------------------------------------
(***************************************************************************)
(* Closed once                                                             *)
(***************************************************************************)

LEMMA UnbinderCases ==
  ASSUME Inv, [Next]_vars, NEW u \in Unbinders
  PROVE  \/ unbinder'[u] = unbinder[u]
         \/ \E k \in Keys : Unbind(u, k)
         \/ CloseResolves(u)
         \/ CloseRejects(u)
<1>1. UnbinderTypes
  BY TypeParts DEF Inv
<1>2. ASSUME NEW v \in Unbinders, v # u,
             CloseResolves(v) \/ CloseRejects(v) \/ \E k \in Keys : Unbind(v, k)
      PROVE  unbinder'[u] = unbinder[u]
  BY <1>1, <1>2 DEF CloseResolves, CloseRejects, Unbind, UnbinderTypes
<1>3. CASE UNCHANGED unbinder
  BY <1>3
<1> QED BY <1>2, <1>3, NextCases
        DEF Bind, GetInstance, InitDependencies, Visit, InitResolves, InitRejects, vars

(* What a step does to the instance of a key: it stays, is made, or is     *)
(* dropped by a call of unbind that has closed it, or did not have to.     *)
Stays(k) == singletons'[k] = singletons[k] /\ made'[k] = made[k]

IsMade(k) ==
  /\ singletons[k] = None
  /\ singletons'[k] # None
  /\ made'[k] = made[k] + 1

IsDropped(k) ==
  /\ singletons'[k] = None
  /\ made'[k] = made[k]
  /\ \/ \E u \in Unbinders : CloseResolves(u) /\ unbinder[u].object.key = k
     \/ \E u \in Unbinders : Unbind(u, k) /\ ~MustClose(k)

LEMMA SingletonCases ==
  ASSUME Inv, [Next]_vars, NEW k \in Keys
  PROVE  Stays(k) \/ IsMade(k) \/ IsDropped(k)
<1>1. ASSUME NEW S, NEW P, Builds(S, P) PROVE Stays(k) \/ IsMade(k)
  <2>1. CASE singletons[k] = None /\ k \in S /\ Kept(k)
    <3>1. made'[k] = made[k] + 1
      BY <1>1, <2>1, BuildsKeeps DEF Inv
    <3>2. singletons'[k] # None
      BY <1>1, <2>1, BuildsMakes DEF Inv, Shared, Kept
    <3> QED BY <2>1, <3>1, <3>2 DEF IsMade
  <2>2. CASE ~(singletons[k] = None /\ k \in S /\ Kept(k))
    BY <1>1, <2>2, BuildsKeeps DEF Inv, Stays
  <2> QED BY <2>1, <2>2
<1>2. ASSUME NEW q \in Keys, GetInstance(q) PROVE Stays(k) \/ IsMade(k)
  BY <1>1, <1>2, GetInstanceBuilds DEF Inv
<1>3. ASSUME NEW p \in Initers, Visit(p) PROVE Stays(k) \/ IsMade(k)
  BY <1>1, <1>3, VisitCases DEF Fails, Passes, Begins, Stays
<1>4. ASSUME NEW u \in Unbinders, NEW q \in Keys, Unbind(u, q) PROVE Stays(k) \/ IsDropped(k)
  <2>1. CASE UNCHANGED singletons
    BY <1>4, <2>1 DEF Unbind, Stays
  <2>2. CASE ~MustClose(q) /\ Drop(q)
    BY <1>4, <2>2 DEF Unbind, Drop, Stays, IsDropped, Inv, TypeOK
  <2> QED BY <1>4, <2>1, <2>2 DEF Unbind
<1>5. ASSUME NEW u \in Unbinders, CloseResolves(u) PROVE Stays(k) \/ IsDropped(k)
  BY <1>5 DEF CloseResolves, Drop, Stays, IsDropped, Inv, TypeOK
<1>6. CASE UNCHANGED <<singletons, made>>
  BY <1>6 DEF Stays
<1> QED BY <1>2, <1>3, <1>4, <1>5, <1>6, NextCases
        DEF Bind, InitDependencies, InitResolves, InitRejects, CloseRejects, vars

(* The object that a call of unbind has.                                   *)
LEMMA UnbinderObject ==
  ASSUME Inv, NEW u \in Unbinders, unbinder[u].object # None
  PROVE  /\ unbinder[u].object \in Objects
         /\ unbinder[u].object.key \in Keys
         /\ unbinder[u].object.n \in Nat
BY DEF Inv, TypeOK, Objects

(* A call of unbind that has to close begins with the last instance made.  *)
LEMMA UnbindBegins ==
  ASSUME Inv, NEW u \in Unbinders, NEW k \in Keys, Unbind(u, k)
  PROVE  /\ unbinder[u].pc = "idle"
         /\ singletons'[k] = None \/ singletons'[k] = singletons[k]
         /\ \/ /\ unbinder'[u].pc = "closing" /\ unbinder'[u].object = singletons[k].object
               /\ singletons[k] # None /\ singletons'[k] = singletons[k]
               /\ singletons[k].object \in Objects
               /\ singletons[k].object.key = k
            \/ /\ unbinder'[u].pc = "done" /\ unbinder'[u].object = None
<1>1. MustClose(k) => singletons[k] # None /\ singletons[k].object \in Objects
                      /\ singletons[k].object.key = k
  BY SingletonType DEF MustClose, Inv, Keyed
<1> QED BY <1>1 DEF Unbind, Drop, Inv, TypeOK

(* What a call closes was made, and its key was unbound.                   *)
ObjectsMade ==
  \A u \in Unbinders : unbinder[u].object # None =>
    /\ unbinder[u].object.key \in unbound
    /\ unbinder[u].object.n <= made[unbinder[u].object.key]

UnbindersOverlap ==
  \A u, v \in Unbinders :
    u # v /\ unbinder[u].pc = "closing" /\ unbinder[v].pc = "closing" => {u, v} \in overlaps

(* What was closed is not in the container any more, though another one,   *)
(* made later, may be.                                                     *)
ClosedGone ==
  \A u \in Unbinders :
    LET o == unbinder[u].object
    IN  (unbinder[u].pc = "done" /\ o # None /\ singletons[o.key] # None) =>
          o.n < singletons[o.key].object.n

LEMMA ObjectsMadeStep ==
  ASSUME Inv, ObjectsMade, [Next]_vars
  PROVE  ObjectsMade'
<1> SUFFICES ASSUME NEW u \in Unbinders, unbinder'[u].object # None
             PROVE  /\ unbinder'[u].object.key \in unbound'
                    /\ unbinder'[u].object.n <= made'[unbinder'[u].object.key]
  BY DEF ObjectsMade
<1>1. unbound \subseteq unbound'
  BY NextCases
     DEF Bind, GetInstance, InitDependencies, Visit, InitResolves, InitRejects, Unbind,
         CloseResolves, CloseRejects, histories, vars
<1>2. \A k \in Keys : made[k] \in Nat /\ made'[k] \in Nat /\ made[k] <= made'[k]
  <2>1. \A k \in Keys : made[k] \in Nat
    BY DEF Inv, TypeOK
  <2> QED BY <2>1, SingletonCases DEF Stays, IsMade, IsDropped
<1>3. CASE unbinder'[u].object = unbinder[u].object
  BY <1>1, <1>2, <1>3, UnbinderObject DEF ObjectsMade
<1>4. ASSUME NEW k \in Keys, Unbind(u, k)
      PROVE  /\ unbinder'[u].object.key \in unbound'
             /\ unbinder'[u].object.n <= made'[unbinder'[u].object.key]
  <2>1. /\ unbinder'[u].object = singletons[k].object
        /\ singletons[k].object.key = k /\ singletons[k] # None
    BY <1>4, UnbindBegins
  <2>2. singletons[k].object.n = made[k]
    BY <2>1 DEF Inv, Keyed
  <2>3. k \in unbound'
    BY <1>4 DEF Unbind
  <2> QED BY <1>2, <2>1, <2>2, <2>3
<1>5. CASE CloseResolves(u) \/ CloseRejects(u)
  <2>1. unbinder'[u].object = unbinder[u].object
    BY <1>5 DEF CloseResolves, CloseRejects, Inv, TypeOK
  <2> QED BY <1>3, <2>1
<1> QED BY <1>3, <1>4, <1>5, UnbinderCases

LEMMA UnbindersOverlapStep ==
  ASSUME Inv, UnbindersOverlap, [Next]_vars
  PROVE  UnbindersOverlap'
<1> SUFFICES ASSUME NEW u \in Unbinders, NEW v \in Unbinders, u # v,
                    unbinder'[u].pc = "closing", unbinder'[v].pc = "closing"
             PROVE  {u, v} \in overlaps'
  BY DEF UnbindersOverlap
<1>1. CASE unbinder[u].pc = "closing" /\ unbinder[v].pc = "closing"
  BY <1>1, OverlapsGrow DEF UnbindersOverlap
<1>2. ASSUME NEW x \in Unbinders, NEW y \in Unbinders, x # y, unbinder[x].pc # "closing",
             unbinder'[x].pc = "closing", unbinder'[y].pc = "closing"
      PROVE  {x, y} \in overlaps'
  <2>1. PICK k \in Keys : Unbind(x, k)
    <3>1. CloseResolves(x) => unbinder[x].pc = "closing"
      BY DEF CloseResolves
    <3>2. CloseRejects(x) => unbinder[x].pc = "closing"
      BY DEF CloseRejects
    <3> QED BY <1>2, <3>1, <3>2, UnbinderCases
  <2>2. unbinder'[y] = unbinder[y]
    BY <1>2, <2>1 DEF Unbind, Inv, TypeOK
  <2>3. y \in Active
    BY <1>2, <2>2 DEF Active
  <2> QED BY <2>1, <2>3 DEF Unbind
<1> QED BY <1>1, <1>2

LEMMA ClosedGoneStep ==
  ASSUME Inv, ObjectsMade, ClosedGone, [Next]_vars
  PROVE  ClosedGone'
<1> SUFFICES ASSUME NEW u \in Unbinders, NEW o, o = unbinder'[u].object,
                    unbinder'[u].pc = "done", o # None, singletons'[o.key] # None
             PROVE  o.n < singletons'[o.key].object.n
  BY DEF ClosedGone
<1>1. CASE unbinder'[u] = unbinder[u]
  <2>1. /\ o.key \in Keys /\ o.n \in Nat /\ o.n <= made[o.key] /\ made[o.key] \in Nat
    BY <1>1, UnbinderObject DEF ObjectsMade, Inv, TypeOK
  <2>2. CASE Stays(o.key)
    BY <1>1, <2>2 DEF ClosedGone, Stays
  <2>3. CASE IsMade(o.key)
    <3>1. singletons'[o.key].object.n = made'[o.key]
      BY <2>1, InvStep DEF Inv, Keyed
    <3> QED BY <2>1, <2>3, <3>1 DEF IsMade
  <2>4. ~IsDropped(o.key)
    BY DEF IsDropped
  <2> QED BY <2>1, <2>2, <2>3, <2>4, SingletonCases
<1>2. ASSUME NEW k \in Keys, Unbind(u, k) PROVE FALSE
  BY <1>2, UnbindBegins
<1>3. CASE CloseResolves(u)
  <2>1. o = unbinder[u].object /\ o.key \in Keys
    BY <1>3, UnbinderObject DEF CloseResolves, Inv, TypeOK
  <2>2. singletons'[o.key] = None
    BY <1>3, <2>1 DEF CloseResolves, Drop, Inv, TypeOK
  <2> QED BY <2>2
<1>4. CASE CloseRejects(u)
  BY <1>4 DEF CloseRejects, Inv, TypeOK
<1> QED BY <1>1, <1>2, <1>3, <1>4, UnbinderCases

LEMMA CloseOnceStep ==
  ASSUME Inv, UnbindersOverlap, ClosedGone, CloseOnce, [Next]_vars
  PROVE  CloseOnce'
<1> DEFINE Apart(u, v) == {u, v} \in overlaps' \/ "failed" \in {unbinder'[u].pc, unbinder'[v].pc}
<1> SUFFICES ASSUME NEW u \in Unbinders, NEW v \in Unbinders, u # v,
                    unbinder'[u].object # None, unbinder'[u].object = unbinder'[v].object
             PROVE  Apart(u, v)
  BY DEF CloseOnce
<1>1. ASSUME NEW x \in Unbinders, NEW y \in Unbinders, x # y, NEW k \in Keys, Unbind(x, k),
             unbinder'[x].object # None, unbinder'[x].object = unbinder'[y].object
      PROVE  Apart(x, y)
  <2>1. unbinder'[y] = unbinder[y] /\ {{x, q} : q \in Active} \subseteq overlaps'
    BY <1>1 DEF Unbind, Inv, TypeOK
  <2>2. unbinder[y].object = singletons[k].object /\ singletons[k] # None
        /\ singletons[k].object \in Objects /\ singletons[k].object.key = k
    BY <1>1, <2>1, UnbindBegins
  <2>3. CASE unbinder[y].pc = "closing"
    BY <2>1, <2>3 DEF Active
  <2>4. CASE unbinder[y].pc = "failed"
    BY <2>1, <2>4
  <2>5. unbinder[y].pc # "idle"
    BY <1>1, <2>1 DEF Inv, Holds
  <2>6. unbinder[y].pc # "done"
    <3> SUFFICES ASSUME unbinder[y].pc = "done" PROVE FALSE
      OBVIOUS
    <3>1. singletons[k].object.n < singletons[k].object.n
      BY <1>1, <2>1, <2>2 DEF ClosedGone
    <3>2. singletons[k].object.n \in Nat
      BY <2>2 DEF Objects
    <3> QED BY <3>1, <3>2
  <2>7. unbinder[y].pc \in {"idle", "closing", "done", "failed"}
    BY DEF Inv, TypeOK
  <2> QED BY <2>3, <2>4, <2>5, <2>6, <2>7
<1>2. ASSUME NEW k \in Keys, Unbind(u, k) \/ Unbind(v, k) PROVE Apart(u, v)
  <2>1. {u, v} = {v, u} /\ {unbinder'[u].pc, unbinder'[v].pc} = {unbinder'[v].pc, unbinder'[u].pc}
    OBVIOUS
  <2> QED BY <1>1, <1>2, <2>1
<1>3. ASSUME NEW x \in Unbinders, ~ \E k \in Keys : Unbind(x, k)
      PROVE  /\ unbinder'[x].object = unbinder[x].object
             /\ unbinder[x].pc = "failed" => unbinder'[x].pc = "failed"
  BY <1>3, UnbinderCases DEF CloseResolves, CloseRejects, Inv, TypeOK
<1>4. CASE ~ \E k \in Keys : Unbind(u, k) \/ Unbind(v, k)
  <2>1. /\ unbinder'[u].object = unbinder[u].object /\ unbinder'[v].object = unbinder[v].object
        /\ unbinder[u].pc = "failed" => unbinder'[u].pc = "failed"
        /\ unbinder[v].pc = "failed" => unbinder'[v].pc = "failed"
    BY <1>3, <1>4
  <2> QED BY <2>1, OverlapsGrow DEF CloseOnce
<1> QED BY <1>2, <1>4

(* No instance is closed by two calls of unbind, unless they overlap or    *)
(* one of them has failed (Container.unbind, lines 124-132).               *)
THEOREM ClosedOnce == Spec => []CloseOnce
<1> DEFINE I == ObjectsMade /\ UnbindersOverlap /\ ClosedGone /\ CloseOnce
<1>1. Init => I
  BY DEF Init, ObjectsMade, UnbindersOverlap, ClosedGone, CloseOnce
<1>2. Inv /\ I /\ [Next]_vars => I'
  BY ObjectsMadeStep, UnbindersOverlapStep, ClosedGoneStep, CloseOnceStep
<1> QED BY <1>1, <1>2, Invariant, PTL DEF Spec

--------------------------------------------------------------------------------
(***************************************************************************)
(* Dropped when closed, and shared till then                               *)
(***************************************************************************)

SomeOverlap == \E u, v \in Unbinders : u # v /\ {u, v} \in overlaps

(* The container keeps what is being closed, but for overlapping calls.    *)
ClosingKept ==
  \A u \in Unbinders :
    LET o == unbinder[u].object
    IN  unbinder[u].pc = "closing" =>
          \/ singletons[o.key] # None /\ singletons[o.key].object = o
          \/ SomeOverlap

LEMMA ClosingKeptStep ==
  ASSUME Inv, UnbindersOverlap, ClosingKept, [Next]_vars
  PROVE  ClosingKept'
<1> SUFFICES ASSUME NEW u \in Unbinders, NEW o, o = unbinder'[u].object,
                    unbinder'[u].pc = "closing"
             PROVE  \/ singletons'[o.key] # None /\ singletons'[o.key].object = o
                    \/ SomeOverlap'
  BY DEF ClosingKept
<1>1. CASE unbinder'[u] = unbinder[u]
  <2>1. o # None /\ o.key \in Keys
    BY <1>1, UnbinderObject DEF Inv, Holds
  <2>2. CASE SomeOverlap
    BY <2>2, OverlapsGrow DEF SomeOverlap
  <2>3. CASE singletons[o.key] # None /\ singletons[o.key].object = o
    <3>1. CASE Stays(o.key)
      BY <2>3, <3>1 DEF Stays
    <3>2. ASSUME NEW v \in Unbinders, CloseResolves(v) PROVE SomeOverlap'
      <4>1. unbinder[v].pc = "closing" /\ v # u
        <5>1. UnbinderTypes
          BY TypeParts DEF Inv
        <5>2. unbinder[v].pc = "closing" /\ unbinder'[v].pc = "done"
          BY <3>2, <5>1 DEF CloseResolves, UnbinderTypes
        <5> QED BY <1>1, <5>2
      <4>2. {v, u} \in overlaps
        BY <1>1, <4>1 DEF UnbindersOverlap
      <4> QED BY <4>1, <4>2, OverlapsGrow DEF SomeOverlap
    <3>3. ASSUME NEW v \in Unbinders, NEW k \in Keys, Unbind(v, k) PROVE SomeOverlap'
      <4>1. v # u /\ u \in Active
        BY <1>1, <3>3 DEF Unbind, Active
      <4>2. {v, u} \in overlaps'
        BY <3>3, <4>1 DEF Unbind
      <4> QED BY <4>1, <4>2 DEF SomeOverlap
    <3> QED BY <2>1, <2>3, <3>1, <3>2, <3>3, SingletonCases DEF IsMade, IsDropped
  <2> QED BY <1>1, <2>2, <2>3 DEF ClosingKept
<1>2. ASSUME NEW k \in Keys, Unbind(u, k)
      PROVE  singletons'[o.key] # None /\ singletons'[o.key].object = o
  BY <1>2, UnbindBegins
<1>3. ~CloseResolves(u) /\ ~CloseRejects(u)
  BY DEF CloseResolves, CloseRejects, Inv, TypeOK
<1> QED BY <1>1, <1>2, <1>3, UnbinderCases

LEMMA ClosingInvariant == Spec => [](ObjectsMade /\ UnbindersOverlap /\ ClosingKept)
<1>1. Init => ObjectsMade /\ UnbindersOverlap /\ ClosingKept
  BY DEF Init, ObjectsMade, UnbindersOverlap, ClosingKept
<1>2. /\ Inv /\ ObjectsMade /\ UnbindersOverlap /\ ClosingKept /\ [Next]_vars
      => ObjectsMade' /\ UnbindersOverlap' /\ ClosingKept'
  BY ObjectsMadeStep, UnbindersOverlapStep, ClosingKeptStep
<1> QED BY <1>1, <1>2, Invariant, PTL DEF Spec

(* What is bound with init is dropped only by a call of unbind that has    *)
(* closed it, unless two of them overlap (Container.unbind, lines 127-131).*)
THEOREM DroppedWhenClosed == Spec => ClosedWhenDropped
<1>1. Inv /\ ClosingKept /\ [Next]_vars => ClosedIfDropped
  <2> SUFFICES ASSUME Inv, ClosingKept, [Next]_vars, NEW k \in Keys,
                      singletons[k] # None, singletons[k].init, singletons'[k] # singletons[k]
               PROVE  (\E u \in Unbinders : unbinder[u].object = singletons[k].object)
                        \/ SomeOverlap
    BY DEF ClosedIfDropped, SomeOverlap
  <2>1. IsDropped(k) /\ MustClose(k)
    BY SingletonCases DEF Stays, IsMade, MustClose
  <2>2. PICK u \in Unbinders : CloseResolves(u) /\ unbinder[u].object.key = k
    BY <2>1 DEF IsDropped
  <2> QED BY <2>2 DEF ClosingKept, CloseResolves
<1> QED BY <1>1, Invariant, ClosingInvariant, PTL DEF Spec, ClosedWhenDropped

LEMMA UnboundGrows ==
  ASSUME [Next]_vars
  PROVE  unbound \subseteq unbound'
BY NextCases
   DEF Bind, GetInstance, InitDependencies, Visit, InitResolves, InitRejects, Unbind,
       CloseResolves, CloseRejects, histories, vars

(* The instance of a key that was never unbound is never dropped.          *)
LEMMA BoundStays ==
  ASSUME Inv, ObjectsMade, [Next]_vars, NEW k \in Keys, k \notin unbound', singletons[k] # None
  PROVE  singletons'[k] = singletons[k]
<1>1. ~IsMade(k)
  BY DEF IsMade
<1>2. ASSUME NEW u \in Unbinders, CloseResolves(u), unbinder[u].object.key = k PROVE FALSE
  <2>1. unbinder[u].object # None
    BY <1>2 DEF CloseResolves, Inv, Holds
  <2> QED BY <1>2, <2>1, UnboundGrows DEF ObjectsMade
<1>3. ASSUME NEW u \in Unbinders, Unbind(u, k) PROVE FALSE
  BY <1>3 DEF Unbind
<1> QED BY <1>1, <1>2, <1>3, SingletonCases DEF Stays, IsDropped

LEMMA ReboundGrows ==
  ASSUME [Next]_vars
  PROVE  rebound \subseteq rebound'
BY NextCases
   DEF Bind, GetInstance, InitDependencies, Visit, InitResolves, InitRejects, Unbind,
       CloseResolves, CloseRejects, histories, vars

(* A key that was bound once, and not unbound, is bound as it was.         *)
LEMMA BoundAsWas ==
  ASSUME Inv, [Next]_vars, NEW k \in Keys, k \notin unbound' \cup rebound', bound[k] # None
  PROVE  bound'[k] = bound[k]
<1>1. ASSUME NEW q \in Keys, NEW b \in Bindable[q], Bind(q, b) PROVE bound'[k] = bound[k]
  BY <1>1 DEF Bind, Inv, TypeOK
<1>2. ASSUME NEW u \in Unbinders, NEW q \in Keys, Unbind(u, q) PROVE bound'[k] = bound[k]
  BY <1>2 DEF Unbind, Inv, TypeOK
<1>3. CASE UNCHANGED bound
  BY <1>3
<1> QED BY <1>1, <1>2, <1>3, NextCases
        DEF GetInstance, InitDependencies, Visit, InitResolves, InitRejects, CloseResolves,
            CloseRejects, vars

(* Such a key is kept if there is a singleton of it, and is not if a class *)
(* has what is not kept.                                                   *)
KeptOnce ==
  \A k \in Keys \ (unbound \cup rebound) : singletons[k] # None => Kept(k)

PlainOnce ==
  \A p \in ByProperty :
    (p[2] \notin unbound \cup rebound /\ prototype[p] # None /\ prototype[p].n = 0) =>
      bound[p[2]] # None /\ ~Kept(p[2])

(* The steps by what they do to prototypes and singletons.                 *)
LEMMA StepBuilds ==
  ASSUME Inv, [Next]_vars
  PROVE  \/ (\E S, P : Builds(S, P)) /\ UNCHANGED <<bound, unbound, rebound>>
         \/ UNCHANGED prototype /\ \A k \in Keys : ~IsMade(k)
<1>1. ASSUME UNCHANGED singletons PROVE \A k \in Keys : ~IsMade(k)
  BY <1>1 DEF IsMade
<1>2. ASSUME NEW k \in Keys, GetInstance(k)
      PROVE  (\E S, P : Builds(S, P)) /\ UNCHANGED <<bound, unbound, rebound>>
  BY <1>2, GetInstanceBuilds DEF Inv, GetInstance, histories
<1>3. ASSUME NEW q \in Initers, Visit(q)
      PROVE  \/ (\E S, P : Builds(S, P)) /\ UNCHANGED <<bound, unbound, rebound>>
             \/ UNCHANGED prototype /\ \A k \in Keys : ~IsMade(k)
  BY <1>1, <1>3, VisitCases DEF Fails, Passes, Begins, histories
<1>4. ASSUME NEW u \in Unbinders, NEW q \in Keys, Unbind(u, q)
      PROVE  UNCHANGED prototype /\ \A k \in Keys : ~IsMade(k)
  BY <1>1, <1>4 DEF Unbind, Drop, IsMade, Inv, TypeOK
<1>5. ASSUME NEW u \in Unbinders, CloseResolves(u)
      PROVE  UNCHANGED prototype /\ \A k \in Keys : ~IsMade(k)
  BY <1>5 DEF CloseResolves, Drop, IsMade, Inv, TypeOK
<1>6. CASE UNCHANGED <<singletons, prototype>>
  BY <1>1, <1>6
<1> QED BY <1>2, <1>3, <1>4, <1>5, <1>6, NextCases
        DEF Bind, InitDependencies, InitResolves, InitRejects, CloseRejects, vars

LEMMA KeptOnceStep ==
  ASSUME Inv, KeptOnce, [Next]_vars
  PROVE  KeptOnce'
<1> SUFFICES ASSUME NEW k \in Keys, k \notin unbound' \cup rebound', singletons'[k] # None
             PROVE  Kept(k)'
  BY DEF KeptOnce
<1>1. k \notin unbound \cup rebound
  BY UnboundGrows, ReboundGrows
<1>2. CASE singletons[k] # None
  <2>1. Kept(k)
    BY <1>1, <1>2 DEF KeptOnce
  <2>2. bound'[k] = bound[k]
    BY <2>1, BoundAsWas DEF Kept, IsAdapter
  <2> QED BY <2>1, <2>2 DEF Kept, IsAdapter
<1>3. CASE singletons[k] = None
  <2>1. IsMade(k)
    BY <1>3, SingletonCases DEF Stays, IsDropped
  <2>2. PICK S, P : Builds(S, P) /\ bound' = bound
    BY <2>1, StepBuilds
  <2>3. Kept(k)
    BY <1>3, <2>2, BuildsKeeps DEF Inv
  <2> QED BY <2>2, <2>3 DEF Kept, IsAdapter
<1> QED BY <1>2, <1>3

(* What inject writes, and what it does not.                               *)
LEMMA BuildsInjects ==
  ASSUME Inv, NEW S, NEW P, Builds(S, P), NEW p \in ByProperty
  PROVE  \/ prototype'[p] = prototype[p]
         \/ /\ p[2] \in S /\ bound[p[2]] # None
            /\ prototype'[p] = Given(p[2])
BY DEF Builds, Inject

LEMMA PlainOnceStep ==
  ASSUME Inv, PlainOnce, [Next]_vars
  PROVE  PlainOnce'
<1> SUFFICES ASSUME NEW p \in ByProperty, p[2] \notin unbound' \cup rebound',
                    prototype'[p] # None, prototype'[p].n = 0
             PROVE  bound'[p[2]] # None /\ ~Kept(p[2])'
  BY DEF PlainOnce
<1>1. p[2] \in Keys /\ p[2] \notin unbound \cup rebound
  BY ByPropertyAssumption, UnboundGrows, ReboundGrows
<1>2. CASE prototype'[p] = prototype[p]
  <2>1. bound[p[2]] # None /\ ~Kept(p[2])
    BY <1>1, <1>2 DEF PlainOnce
  <2> QED BY <1>1, <2>1, BoundAsWas DEF Kept, IsAdapter
<1>3. CASE prototype'[p] # prototype[p]
  <2>1. PICK S, P : Builds(S, P) /\ bound' = bound
    BY <1>3, StepBuilds
  <2>2. bound[p[2]] # None /\ prototype'[p] = Given(p[2])
    BY <1>3, <2>1, BuildsInjects
  <2>3. ~Shared(p[2])
    BY <1>1, <2>2, GivenType DEF Inv
  <2> QED BY <2>1, <2>2, <2>3 DEF Shared, Kept, IsAdapter
<1> QED BY <1>2, <1>3

LEMMA InjectedIsSharedStep ==
  ASSUME Inv, ObjectsMade, KeptOnce, PlainOnce, InjectedIsShared, [Next]_vars
  PROVE  InjectedIsShared'
<1> DEFINE Goal(p) ==
      \/ singletons'[p[2]] # None /\ singletons'[p[2]].object = prototype'[p]
      \/ prototype'[p].n = 0 /\ (singletons'[p[2]] = None \/ p[2] \in rebound')
<1> SUFFICES ASSUME NEW p \in ByProperty, prototype'[p] # None, p[2] \notin unbound'
             PROVE  Goal(p)
  BY DEF InjectedIsShared
<1>1. p[2] \in Keys /\ p[2] \notin unbound
  BY ByPropertyAssumption, UnboundGrows
<1>2. CASE prototype'[p] = prototype[p]
  <2>1. CASE singletons[p[2]] # None /\ singletons[p[2]].object = prototype[p]
    BY <1>1, <1>2, <2>1, BoundStays
  <2>2. CASE prototype[p].n = 0 /\ p[2] \in rebound
    BY <1>2, <2>2, ReboundGrows
  <2>3. CASE prototype[p].n = 0 /\ singletons[p[2]] = None /\ p[2] \notin rebound
    <3>1. bound[p[2]] # None /\ ~Kept(p[2])
      BY <1>1, <1>2, <2>3 DEF PlainOnce
    <3>2. singletons'[p[2]] = None
      <4>1. ASSUME NEW S, NEW P, Builds(S, P) PROVE singletons'[p[2]] = None
        BY <1>1, <2>3, <3>1, <4>1, BuildsKeeps DEF Inv
      <4>2. CASE ~IsMade(p[2])
        BY <1>1, <2>3, <4>2, SingletonCases DEF Stays, IsDropped
      <4> QED BY <1>1, <4>1, <4>2, StepBuilds
    <3> QED BY <1>2, <2>3, <3>2
  <2> QED BY <1>1, <1>2, <2>1, <2>2, <2>3 DEF InjectedIsShared
<1>3. CASE prototype'[p] # prototype[p]
  <2>1. PICK S, P : Builds(S, P) /\ UNCHANGED <<bound, rebound>>
    BY <1>3, StepBuilds
  <2>2. p[2] \in S /\ bound[p[2]] # None /\ prototype'[p] = Given(p[2])
    BY <1>3, <2>1, BuildsInjects
  <2>3. CASE Shared(p[2])
    <3>1. Given(p[2]) = Instance(p[2])
      BY <2>3 DEF Given
    <3> QED BY <2>1, <2>2, <2>3, <3>1, BuildsMakes DEF Inv
  <2>4. CASE ~Shared(p[2])
    <3>1. Given(p[2]).n = 0
      BY <1>1, <2>2, <2>4, GivenType DEF Inv
    <3>2. CASE singletons[p[2]] = None
      <4>1. ~Kept(p[2])
        BY <2>4 DEF Shared, Kept
      <4> QED BY <1>1, <2>1, <2>2, <3>1, <3>2, <4>1, BuildsKeeps DEF Inv
    <3>3. CASE singletons[p[2]] # None
      <4>1. ~Kept(p[2])
        BY <2>4 DEF Shared, Kept
      <4>2. p[2] \in rebound
        BY <1>1, <3>3, <4>1 DEF KeptOnce
      <4> QED BY <2>1, <2>2, <3>1, <4>2
    <3> QED BY <3>2, <3>3
  <2> QED BY <2>3, <2>4
<1> QED BY <1>2, <1>3

(* What all instances of a class have for an injected key is the singleton *)
(* that the container has for it, or what is not kept while there is none -*)
(* until the key is unbound; and of a key that was bound as something else *)
(* it may be what was not kept then (Container.inject, lines 35-62).       *)
THEOREM SharedUntilUnbound == Spec => []InjectedIsShared
<1> DEFINE I == KeptOnce /\ PlainOnce /\ InjectedIsShared
<1>1. Init => I
  BY ByPropertyAssumption DEF Init, KeptOnce, PlainOnce, InjectedIsShared
<1>2. Inv /\ ObjectsMade /\ I /\ [Next]_vars => I'
  BY KeptOnceStep, PlainOnceStep, InjectedIsSharedStep
<1> QED BY <1>1, <1>2, Invariant, ClosingInvariant, PTL DEF Spec

--------------------------------------------------------------------------------
(***************************************************************************)
(* All initialised                                                         *)
(***************************************************************************)

(* The order of the Map: no two keys that are bound have the same place.   *)
Ordered ==
  /\ \A k \in Keys : bound[k] # None => place[k] >= 1
  /\ \A k \in Keys : place[k] <= binds
  /\ \A k, q \in Keys : bound[k] # None /\ bound[q] # None /\ place[k] = place[q] => k = q

BoundWithInit(k) == WithInit(k) /\ k \notin unbound

SteadyBound == \A p \in Initers : \A k \in steady[p] : BoundWithInit(k)

(* The container keeps what a call waits for, and what is initialised, but *)
(* for what is never kept.                                                 *)
WaitsForKept ==
  \A p \in Initers :
    LET k == initer[p].key
        o == initer[p].object
    IN  (initer[p].pc = "waiting" /\ k \notin unbound /\ o.n # 0) =>
          singletons[k] # None /\ singletons[k].object = o

Covered(k) ==
  \E q \in Initers : \E o \in initialized[q] :
    \/ singletons[k] # None /\ o = singletons[k].object
    \/ o.key = k /\ o.n = 0

MarkedKept == \A k \in initializedKeys \ unbound : Covered(k)

(* A steady key that the loop has come to is initialised, or about to be.  *)
AtLast(p, k) == initer[p].key = k /\ (initer[p].pc = "taken" => initer[p].init)

Passed ==
  \A p \in Initers : \A k \in steady[p] :
    /\ Underway(p) /\ place[k] <= initer[p].at => k \in initializedKeys \/ AtLast(p, k)
    /\ initer[p].pc = "done" => k \in initializedKeys

LEMMA OrderedStep ==
  ASSUME Inv, Ordered, [Next]_vars
  PROVE  Ordered'
<1>1. BoundTypes
  BY TypeParts DEF Inv
<1>2. ASSUME NEW k \in Keys, NEW b \in Bindable[k], Bind(k, b) PROVE Ordered'
  <2>1. /\ bound'[k] = b
        /\ \A q \in Keys \ {k} : bound'[q] = bound[q]
    BY <1>1, <1>2 DEF Bind, BoundTypes
  <2>2. CASE bound[k] # None /\ UNCHANGED <<place, binds>>
    BY <2>1, <2>2 DEF Ordered
  <2>3. CASE /\ binds' = binds + 1
             /\ place' = [place EXCEPT ![k] = binds + 1]
    <3>1. place'[k] = binds + 1 /\ \A q \in Keys \ {k} : place'[q] = place[q]
      BY <1>1, <2>3 DEF BoundTypes
    <3>2. binds \in Nat /\ \A q \in Keys : place[q] \in Nat /\ place[q] <= binds
      BY <1>1 DEF BoundTypes, Ordered
    <3>3. \A q \in Keys : bound'[q] # None => place'[q] >= 1
      BY <2>1, <3>1, <3>2 DEF Ordered
    <3>4. \A q \in Keys : place'[q] <= binds'
      BY <2>3, <3>1, <3>2
    <3>5. ASSUME NEW x \in Keys, NEW y \in Keys, bound'[x] # None, bound'[y] # None,
                 place'[x] = place'[y]
          PROVE  x = y
      BY <2>1, <3>1, <3>2, <3>5 DEF Ordered
    <3> QED BY <3>3, <3>4, <3>5 DEF Ordered
  <2> QED BY <1>2, <2>2, <2>3 DEF Bind
<1>3. ASSUME NEW u \in Unbinders, NEW k \in Keys, Unbind(u, k) PROVE Ordered'
  BY <1>1, <1>3 DEF Unbind, Ordered, BoundTypes
<1>4. CASE UNCHANGED <<bound, place, binds>>
  BY <1>4 DEF Ordered
<1> QED BY <1>2, <1>3, <1>4, NextCases
        DEF GetInstance, InitDependencies, Visit, InitResolves, InitRejects, CloseResolves,
            CloseRejects, vars

(* The keys that are steady after a step.                                  *)
LEMMA SteadyCases ==
  ASSUME Inv, [Next]_vars, NEW p \in Initers, NEW k \in steady'[p]
  PROVE  /\ k \in Keys
         /\ bound'[k] = bound[k] /\ place'[k] = place[k]
         /\ k \in unbound' => k \in unbound
         /\ \/ InitDependencies(p) /\ BoundWithInit(k)
            \/ k \in steady[p]
<1>1. BoundTypes /\ HistoryTypes
  BY TypeParts DEF Inv
<1>2. ASSUME NEW q \in Keys, NEW b \in Bindable[q], Bind(q, b)
      PROVE  /\ k \in steady[p] /\ UNCHANGED unbound
             /\ bound'[k] = bound[k] /\ place'[k] = place[k]
  <2>1. k \in steady[p] /\ k # q
    BY <1>2 DEF Bind
  <2> QED BY <1>1, <1>2, <2>1 DEF Bind, BoundTypes, HistoryTypes
<1>3. ASSUME NEW q \in Initers, InitDependencies(q)
      PROVE  /\ UNCHANGED <<unbound, bound, place>>
             /\ k \in steady[p] \/ (q = p /\ k \in Keys /\ BoundWithInit(k))
  BY <1>1, <1>3 DEF InitDependencies, BoundWithInit, WithInit, HistoryTypes
<1>4. ASSUME NEW u \in Unbinders, NEW q \in Keys, Unbind(u, q)
      PROVE  /\ k \in steady[p]
             /\ k \in unbound' => k \in unbound
             /\ bound'[k] = bound[k] /\ place'[k] = place[k]
  <2>1. k \in steady[p] /\ k # q
    BY <1>4 DEF Unbind
  <2> QED BY <1>1, <1>4, <2>1 DEF Unbind, BoundTypes, HistoryTypes
<1>5. k \in Keys
  BY HistoryTypesStep DEF HistoryTypes
<1>6. CASE UNCHANGED <<bound, place, steady, unbound>>
  BY <1>5, <1>6
<1> QED BY <1>2, <1>3, <1>4, <1>5, <1>6, NextCases
        DEF GetInstance, Visit, InitResolves, InitRejects, CloseResolves, CloseRejects,
            histories, vars

LEMMA SteadyBoundStep ==
  ASSUME Inv, SteadyBound, [Next]_vars
  PROVE  SteadyBound'
<1> SUFFICES ASSUME NEW p \in Initers, NEW k \in steady'[p] PROVE BoundWithInit(k)'
  BY DEF SteadyBound
<1>1. BoundWithInit(k) /\ bound'[k] = bound[k] /\ (k \in unbound' => k \in unbound)
  BY SteadyCases DEF SteadyBound
<1> QED BY <1>1 DEF BoundWithInit, WithInit, IsAdapter

LEMMA WaitsForKeptStep ==
  ASSUME Inv, ObjectsMade, WaitsForKept, [Next]_vars
  PROVE  WaitsForKept'
<1> SUFFICES ASSUME NEW p \in Initers, NEW k, k = initer'[p].key,
                    NEW o, o = initer'[p].object,
                    initer'[p].pc = "waiting", k \notin unbound', o.n # 0
             PROVE  singletons'[k] # None /\ singletons'[k].object = o
  BY DEF WaitsForKept
<1>1. IniterTypes
  BY TypeParts DEF Inv
<1>2. CASE initer'[p] = initer[p]
  <2>1. k \in Keys
    BY <1>2 DEF Inv, Holds, IniterHolds
  <2>2. singletons[k] # None /\ singletons[k].object = o
    BY <1>2, UnboundGrows DEF WaitsForKept
  <2> QED BY <2>1, <2>2, BoundStays
<1>3. ASSUME NEW q \in Keys, Begins(p, q)
      PROVE  singletons'[k] # None /\ singletons'[k].object = o
  <2>1. k = q /\ o = Given(q) /\ bound[q] # None
    BY <1>3, BeginsWaiting DEF Begins
  <2>2. Shared(q) /\ o = Instance(q)
    BY <2>1, GivenType DEF Inv
  <2>3. q \in Needed(q)
    BY NeededClosed DEF Inv
  <2> QED BY <1>3, <2>1, <2>2, <2>3, BuildsMakes DEF Begins, Inv
<1>4. ~Passes(p) /\ ~InitDependencies(p) /\ ~InitResolves(p)
  BY TakeWaits DEF Passes, InitDependencies, InitResolves, Inv
<1>5. ~Fails(p) /\ ~InitRejects(p)
  BY <1>1 DEF Fails, InitRejects, At, IniterTypes
<1> QED BY <1>2, <1>3, <1>4, <1>5, IniterCases, VisitCases

LEMMA MarkedKeptStep ==
  ASSUME Inv, ObjectsMade, WaitsForKept, MarkedKept, [Next]_vars
  PROVE  MarkedKept'
<1> SUFFICES ASSUME NEW k \in initializedKeys', k \notin unbound'
             PROVE  Covered(k)'
  BY DEF MarkedKept
<1>1. IniterTypes /\ k \in Keys /\ k \notin unbound
  BY TypeParts, IniterTypesStep, UnboundGrows DEF Inv, IniterTypes
<1>2. \A q \in Initers : initialized[q] \subseteq initialized'[q]
  <2> SUFFICES ASSUME NEW q \in Initers PROVE initialized[q] \subseteq initialized'[q]
    OBVIOUS
  <2>1. CASE InitResolves(q)
    BY <1>1, <2>1 DEF InitResolves, IniterTypes
  <2>2. CASE InitDependencies(q) \/ Visit(q) \/ InitRejects(q)
    BY <2>2 DEF InitDependencies, Visit, InitRejects
  <2> QED BY <2>1, <2>2, IniterCases
<1>3. CASE k \in initializedKeys
  <2>1. Covered(k)
    BY <1>1, <1>3 DEF MarkedKept
  <2>2. PICK q \in Initers : \E o \in initialized[q] :
          \/ singletons[k] # None /\ o = singletons[k].object
          \/ o.key = k /\ o.n = 0
    BY <2>1 DEF Covered
  <2>5. PICK o \in initialized[q] :
          \/ singletons[k] # None /\ o = singletons[k].object
          \/ o.key = k /\ o.n = 0
    BY <2>2
  <2>3. singletons[k] # None => singletons'[k] = singletons[k]
    BY <1>1, BoundStays
  <2>4. o \in initialized'[q]
    BY <1>2
  <2> QED BY <2>5, <2>3, <2>4 DEF Covered
<1>4. CASE k \notin initializedKeys
  <2>1. PICK p \in Initers : InitResolves(p) /\ k = initer[p].key
    BY <1>4, NextCases
       DEF Bind, GetInstance, InitDependencies, Visit, InitResolves, MarkInitialized,
           InitRejects, Unbind, CloseResolves, CloseRejects, vars
  <2>2. initer[p].object \in initialized'[p] /\ initer[p].object.key = k
    BY <1>1, <2>1 DEF InitResolves, IniterTypes, Inv, Holds, IniterHolds
  <2>3. CASE initer[p].object.n = 0
    BY <2>2, <2>3 DEF Covered
  <2>4. CASE initer[p].object.n # 0
    <3>1. singletons[k] # None /\ singletons[k].object = initer[p].object
      BY <1>1, <2>1, <2>4 DEF InitResolves, WaitsForKept
    <3>2. singletons'[k] = singletons[k]
      BY <1>1, <3>1, BoundStays
    <3> QED BY <2>2, <3>1, <3>2 DEF Covered
  <2> QED BY <2>3, <2>4
<1> QED BY <1>3, <1>4

(* A steady key is not left out when the loop goes on: the entry that is   *)
(* taken next is of it, or it was come past before.                        *)
LEMMA TakePassed ==
  ASSUME Inv, Ordered, NEW p \in Initers, NEW at \in Nat, Take(p, at),
         NEW k \in Keys, BoundWithInit(k), place'[k] = place[k]
  PROVE  /\ Underway(p)' /\ place'[k] <= initer'[p].at => place[k] <= at \/ AtLast(p, k)'
         /\ initer'[p].pc = "done" => place[k] <= at
<1>1. bound[k] # None /\ WithInit(k)
  BY DEF BoundWithInit, WithInit, IsAdapter
<1>2. place[k] \in Nat
  BY DEF Inv, TypeOK
<1>3. CASE Ends(p, at)
  BY <1>1, <1>2, <1>3 DEF Ends, Ahead, At, Underway
<1>4. ASSUME NEW q \in Keys, Enters(p, at, q)
      PROVE  /\ initer'[p].pc # "done"
             /\ place'[k] <= initer'[p].at => place[k] <= at \/ AtLast(p, k)'
  <2>1. initer'[p].pc = "taken" /\ initer'[p].at = place[q] /\ initer'[p].key = q
        /\ initer'[p].init = WithInit(q)
    BY <1>4 DEF Enters, Entry
  <2>2. ASSUME place[k] <= place[q], ~(place[k] <= at) PROVE k = q
    <3>1. k \in Ahead(at)
      BY <1>1, <1>2, <2>2 DEF Ahead
    <3>2. place[q] \in Nat /\ place[q] <= place[k] /\ bound[q] # None
      BY <1>4, <3>1 DEF Enters, NextKey, Ahead, Inv, TypeOK
    <3> QED BY <1>1, <1>2, <2>2, <3>2 DEF Ordered
  <2> QED BY <1>1, <2>1, <2>2 DEF AtLast
<1> QED BY <1>3, <1>4, TakeCases DEF Inv

LEMMA PassedStep ==
  ASSUME Inv, Ordered, SteadyBound, Passed, [Next]_vars
  PROVE  Passed'
<1> DEFINE Goal(p, k) ==
      /\ Underway(p)' /\ place'[k] <= initer'[p].at => k \in initializedKeys' \/ AtLast(p, k)'
      /\ initer'[p].pc = "done" => k \in initializedKeys'
<1> SUFFICES ASSUME NEW p \in Initers, NEW k \in steady'[p]
             PROVE  Goal(p, k)
  BY DEF Passed
<1>1. IniterTypes /\ k \in Keys /\ place'[k] = place[k] /\ place[k] \in Nat
  BY TypeParts, SteadyCases DEF Inv, TypeOK
<1>2. initializedKeys \subseteq initializedKeys'
  BY NextCases
     DEF Bind, GetInstance, InitDependencies, Visit, InitResolves, MarkInitialized,
         InitRejects, Unbind, CloseResolves, CloseRejects, vars
<1>3. BoundWithInit(k) /\ bound[k] # None
  BY SteadyCases DEF SteadyBound, BoundWithInit, WithInit, IsAdapter
<1>4. CASE InitDependencies(p)
  <2>1. Take(p, 0) /\ ~(place[k] <= 0)
    BY <1>1, <1>3, <1>4 DEF InitDependencies, Ordered
  <2> QED BY <1>1, <1>3, <2>1, TakePassed
<1>5. CASE ~InitDependencies(p)
  <2>1. k \in steady[p]
    BY <1>5, SteadyCases
  <2>2. CASE initer'[p] = initer[p]
    BY <1>1, <1>2, <2>1, <2>2 DEF Passed, Underway, AtLast
  <2>3. CASE InitRejects(p)
    BY <1>1, <2>3 DEF InitRejects, At, Underway, IniterTypes
  <2>4. CASE InitResolves(p)
    <3>1. /\ initer[p].pc = "waiting" /\ Take(p, initer[p].at) /\ initer[p].at \in Nat
          /\ initializedKeys' = initializedKeys \cup {initer[p].key}
      BY <1>1, <2>4 DEF InitResolves, MarkInitialized, IniterTypes
    <3>2. place[k] <= initer[p].at => k \in initializedKeys'
      BY <2>1, <3>1 DEF Passed, Underway, AtLast
    <3> QED BY <1>1, <1>3, <3>1, <3>2, TakePassed
  <2>5. CASE Visit(p)
    <3>1. initer[p].pc = "taken" /\ UNCHANGED initializedKeys /\ initer[p].at \in Nat
      BY <1>1, <2>5, VisitCases DEF IniterTypes
    <3>2. place[k] <= initer[p].at => k \in initializedKeys \/ AtLast(p, k)
      BY <2>1, <3>1 DEF Passed, Underway
    <3>3. CASE Fails(p)
      BY <1>1, <3>3 DEF Fails, At, Underway, IniterTypes
    <3>4. CASE Passes(p)
      <4>1. place[k] <= initer[p].at => k \in initializedKeys
        BY <3>1, <3>2, <3>4 DEF Passes, ToDo, AtLast
      <4> QED BY <1>1, <1>3, <3>1, <3>4, <4>1, TakePassed DEF Passes
    <3>5. ASSUME NEW q \in Keys, Begins(p, q) PROVE Goal(p, k)
      <4>1. /\ initer'[p].at = initer[p].at /\ initer'[p].pc = "waiting"
            /\ initer'[p].key = initer[p].key
        BY <3>5, BeginsWaiting DEF Begins
      <4> QED BY <1>1, <3>1, <3>2, <4>1 DEF AtLast
    <3> QED BY <2>5, <3>3, <3>4, <3>5, VisitCases
  <2> QED BY <1>5, <2>2, <2>3, <2>4, <2>5, IniterCases
<1> QED BY <1>4, <1>5

(* When a call of initDependencies is done, every adapter that was bound   *)
(* with init all the while is initialised, whatever was bound, unbound or  *)
(* asked for meanwhile, also between an entry of the Map and the body of   *)
(* the loop (Container.initDependencies, lines 172-183) - but for a key    *)
(* that was bound then as something that is not kept: that is initialised. *)
THEOREM AllInitialised == Spec => []InitCovers
<1> DEFINE I == Ordered /\ SteadyBound /\ WaitsForKept /\ MarkedKept /\ Passed
<1>1. Init => I
  BY MaxBindsIsNat
     DEF Init, At, Ordered, SteadyBound, WaitsForKept, MarkedKept, Passed
<1>2. Inv /\ ObjectsMade /\ I /\ [Next]_vars => I'
  BY OrderedStep, SteadyBoundStep, WaitsForKeptStep, MarkedKeptStep, PassedStep
<1>3. Inv /\ I => InitCovers
  BY DEF InitCovers, SteadyBound, BoundWithInit, MarkedKept, Covered, Passed
<1> QED BY <1>1, <1>2, <1>3, Invariant, ClosingInvariant, PTL DEF Spec

================================================================================

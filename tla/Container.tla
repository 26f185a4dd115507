-------------------------------- MODULE Container --------------------------------
(***************************************************************************)
(* The dependency container (src/Container.ts): bindings of keys to        *)
(* implementations, singletons made on demand, adapters initialised by     *)
(* initDependencies and closed by unbind.  The last two wait for the       *)
(* adapter, and anything may happen to the container meanwhile: bind,      *)
(* getInstance, and other calls of the two.                                *)
(***************************************************************************)
EXTENDS Integers, FiniteSets

CONSTANTS
  Keys,        \* the symbols that dependencies are bound to
  Impls,       \* adapter classes (and services, constants)
  Needs,       \* the keys that a class has injected, by constructor or property
  ByProperty,  \* classes with keys that they have injected by property
  Bindable,    \* what the application binds to each key, see Binding
  Initers,     \* the calls of initDependencies
  Unbinders,   \* the calls of unbind
  MaxBinds,    \* bound: how many times a free key is bound
  None

Binding == [type   : {"adapter", "service", "constant"},
            impl   : Impls,
            option : {"none", "singleton", "init"}]

ASSUME BindableAssumption == Bindable \in [Keys -> SUBSET Binding]
(* The application's classes do not need each other in a circle: there     *)
(* getInstance would never return.                                         *)
ASSUME NeedsAssumption == Needs \in [Impls -> SUBSET Keys]
ASSUME ByPropertyAssumption == ByProperty \subseteq {p \in Impls \X Keys : p[2] \in Needs[p[1]]}
ASSUME MaxBindsIsNat == MaxBinds \in Nat
ASSUME UnbindersAssumption == IsFiniteSet(Unbinders)

(* An object: the n-th that was made for a key and kept, of a class.       *)
(* Another one is made only when a call of unbind has dropped the last.  Of*)
(* what is not kept, constants and adapters without options, n is 0.       *)
Objects == [key : Keys, impl : Impls, n : 0 .. 1 + Cardinality(Unbinders)]

Singleton == [object : Objects, init : BOOLEAN]

ASSUME NoneAssumption == None \notin Binding \cup Objects \cup Singleton

VARIABLES
  bound,            \* the Map container: what each key is bound to
  place,            \* the place of each bound key in the order of that Map
  binds,            \* the places given out so far
  singletons,       \* the Map singletons: an object and its init flag
  prototype,        \* what the prototypes of classes have for injected keys
  made,             \* how many singletons were made for each key
  initializedKeys,  \* the Set of that name
  initer,           \* where each call of initDependencies is: the entry of bound
                    \*   it has taken, and whether that is to be initialised
  initialized,      \* the instances it has initialised
  unbinder,         \* where each call of unbind is
  overlaps,         \* history: pairs of calls that were under way together
  steady,           \* history: the keys bound with init all through a call
  unbound,          \* history: the keys that were unbound once
  rebound           \* history: those that were bound as something else

histories == <<overlaps, steady, unbound, rebound>>
vars == <<bound, place, binds, singletons, prototype, made, initializedKeys, initer,
          initialized, unbinder, histories>>

Active ==
  {p \in Initers : initer[p].pc \in {"taken", "waiting"}}
    \cup {u \in Unbinders : unbinder[u].pc = "closing"}

TypeOK ==
  /\ bound \in [Keys -> Binding \cup {None}]
  /\ \A k \in Keys : bound[k] \in Bindable[k] \cup {None}
  /\ place \in [Keys -> 0 .. MaxBinds]
  /\ binds \in 0 .. MaxBinds
  /\ singletons \in [Keys -> Singleton \cup {None}]
  /\ prototype \in [ByProperty -> Objects \cup {None}]
  /\ made \in [Keys -> 0 .. 1 + Cardinality(Unbinders)]
  /\ initializedKeys \subseteq Keys
  /\ initer \in [Initers -> [pc : {"idle", "taken", "waiting", "done", "failed"},
                             at : 0 .. MaxBinds,
                             key : Keys \cup {None},
                             init : BOOLEAN,
                             object : Objects \cup {None}]]
  /\ initialized \in [Initers -> SUBSET Objects]
  /\ unbinder \in [Unbinders -> [pc : {"idle", "closing", "done", "failed"},
                                 object : Objects \cup {None}]]
  /\ steady \in [Initers -> SUBSET Keys]
  /\ unbound \subseteq Keys
  /\ rebound \subseteq Keys

At(pc) == [pc |-> pc, at |-> 0, key |-> None, init |-> FALSE, object |-> None]

Init ==
  /\ bound = [k \in Keys |-> None]
  /\ place = [k \in Keys |-> 0]
  /\ binds = 0
  /\ singletons = [k \in Keys |-> None]
  /\ prototype = [p \in ByProperty |-> None]
  /\ made = [k \in Keys |-> 0]
  /\ initializedKeys = {}
  /\ initer = [p \in Initers |-> At("idle")]
  /\ initialized = [p \in Initers |-> {}]
  /\ unbinder = [u \in Unbinders |-> [pc |-> "idle", object |-> None]]
  /\ overlaps = {}
  /\ steady = [p \in Initers |-> {}]
  /\ unbound = {} /\ rebound = {}

--------------------------------------------------------------------------------
(***************************************************************************)
(* bind                                                                    *)
(***************************************************************************)

(* container.set: a key that is bound already keeps its place.             *)
Bind(k, b) ==
  /\ \/ /\ bound[k] \notin {None, b}
        /\ rebound' = rebound \cup {k}
        /\ UNCHANGED <<place, binds>>
     \/ /\ bound[k] = None
        /\ binds < MaxBinds
        /\ binds' = binds + 1
        /\ place' = [place EXCEPT ![k] = binds + 1]
        /\ UNCHANGED rebound
  /\ bound' = [bound EXCEPT ![k] = b]
  /\ steady' = [p \in Initers |-> steady[p] \ {k}]
  /\ UNCHANGED <<singletons, prototype, made, initializedKeys, initer, initialized, unbinder,
                 overlaps, unbound>>

--------------------------------------------------------------------------------
(***************************************************************************)
(* getInstance, inject                                                     *)
(***************************************************************************)

IsAdapter(k) == bound[k] # None /\ bound[k].type = "adapter"

(* What inject asks the container for before it makes the thing bound to k.*)
Injected(k) == IF IsAdapter(k) THEN Needs[bound[k].impl] ELSE {}

(* k and all that is injected into it, directly or not: what is in every   *)
(* set with k that has, with a key, all that is injected into it.          *)
Needed(k) ==
  {q \in Keys : \A S \in SUBSET Keys :
     (k \in S /\ \A x \in S : Injected(x) \subseteq S) => q \in S}

(* getInstance throws for a key that is not bound and for a service.       *)
Buildable(k) ==
  \A q \in Needed(k) : bound[q] # None /\ bound[q].type # "service"

(* singletons.set: an adapter bound with singleton or init is kept.        *)
Kept(k) == IsAdapter(k) /\ bound[k].option \in {"singleton", "init"}

(* Mutant: getInstance does not look at what it keeps. *)
Instance_New(k) == [key |-> k, impl |-> bound[k].impl, n |-> made[k] + 1]

(* The instance getInstance returns for k if k is kept.                    *)
Instance(k) ==
  IF singletons[k] # None THEN singletons[k].object
  ELSE [key |-> k, impl |-> bound[k].impl, n |-> made[k] + 1]

(* Mutant: a new instance replaces the one that is there. *)
Missing_Always(k) == Kept(k)

(* There is to be an instance of k, and is none yet.                       *)
Missing(k) == Kept(k) /\ singletons[k] = None

(* getInstance gives out what it keeps, or kept when k was bound otherwise.*)
Shared(k) == IsAdapter(k) /\ (Kept(k) \/ singletons[k] # None)

(* What getInstance returns for k.                                         *)
Given(k) ==
  IF Shared(k) THEN Instance(k) ELSE [key |-> k, impl |-> bound[k].impl, n |-> 0]

(* What is injected by property into the classes of the keys in S.         *)
Properties(S) == {p \in ByProperty : \E k \in S : IsAdapter(k) /\ bound[k].impl = p[1]}

(* inject writes to the prototype of the class, of which all instances     *)
(* have it, those that are there included.                                 *)
Inject(properties) ==
  prototype' = [p \in ByProperty |->
    IF p \in properties THEN Given(p[2]) ELSE prototype[p]]

(* getInstance for all keys in S: those that are kept, and not there yet,  *)
(* are made.  What is not kept leaves no trace in the container.           *)
Make(S) ==
  LET new == {k \in S : Missing(k)}
  IN  /\ singletons' = [k \in Keys |->
           IF k \in new
           THEN [object |-> Instance(k), init |-> bound[k].option = "init"]
           ELSE singletons[k]]
      /\ made' = [k \in Keys |-> IF k \in new THEN made[k] + 1 ELSE made[k]]

(* getInstance threw: what was injected before stays made.  How much that  *)
(* is depends on the order in which a class declares its dependencies.     *)
MakeSome(k) ==
  \E S \in SUBSET (Needed(k) \ {k}) :
    /\ \A q \in S : Buildable(q) /\ Needed(q) \subseteq S
    /\ Make(S)
    /\ \E P \in SUBSET {p \in Properties(Needed(k)) : p[2] \in S} : Inject(P)

(* The application, or Service.createObjectWithDependencies, takes k.      *)
GetInstance(k) ==
  /\ \/ Buildable(k) /\ Make(Needed(k)) /\ Inject(Properties(Needed(k)))
     \/ ~Buildable(k) /\ MakeSome(k)
  /\ UNCHANGED <<bound, place, binds, initializedKeys, initer, initialized,
                 unbinder, histories>>

--------------------------------------------------------------------------------
(***************************************************************************)
(* initDependencies                                                        *)
(***************************************************************************)

(* An adapter with init.                                                   *)
WithInit(k) == IsAdapter(k) /\ bound[k].option = "init"

(* The loop goes over the live Map: what is bound now comes next.          *)
Ahead(at) == {k \in Keys : bound[k] # None /\ place[k] > at}

(* Mutant: the loop begins with the key bound last. *)
NextKey_Last(at, k) == k \in Ahead(at) /\ \A q \in Ahead(at) : place[k] >= place[q]

NextKey(at, k) == k \in Ahead(at) /\ \A q \in Ahead(at) : place[k] <= place[q]

(* What the call has of the entry of k: its key and its options.           *)
Entry(k) == [pc |-> "taken", at |-> place[k], key |-> k, init |-> WithInit(k), object |-> None]

(* for await takes the entry after place at from the Map, and waits for it;*)
(* or the Map is at its end, and so is the call.                           *)
Take(p, at) ==
  \/ /\ Ahead(at) = {}
     /\ initer' = [initer EXCEPT ![p] = At("done")]
  \/ \E k \in Keys :
       /\ NextKey(at, k)
       /\ initer' = [initer EXCEPT ![p] = Entry(k)]

InitDependencies(p) ==
  /\ initer[p].pc = "idle"
  /\ Take(p, 0)
  /\ overlaps' = overlaps \cup {{p, q} : q \in Active}
  /\ steady' = [steady EXCEPT ![p] = {k \in Keys \ unbound : WithInit(k)}]
  /\ UNCHANGED <<bound, place, binds, singletons, prototype, made, initializedKeys,
                 initialized, unbinder, unbound, rebound>>

(* The body of the loop goes by the entry that was taken, and getInstance  *)
(* by what the container has now: the key may have been unbound since, and *)
(* then it throws, or bound as something else.                             *)
Visit(p) ==
  LET k    == initer[p].key
      todo == initer[p].init /\ k \notin initializedKeys
  IN  /\ initer[p].pc = "taken"
      /\ \/ /\ ~todo
            /\ Take(p, initer[p].at)
            /\ UNCHANGED <<singletons, prototype, made>>
         \/ /\ todo /\ Buildable(k)
            /\ Make(Needed(k)) /\ Inject(Properties(Needed(k)))
            /\ initer' = [initer EXCEPT ![p].pc = "waiting", ![p].object = Given(k)]
         \/ /\ todo /\ ~Buildable(k)
            /\ MakeSome(k)
            /\ initer' = [initer EXCEPT ![p] = At("failed")]
      /\ UNCHANGED <<bound, place, binds, initializedKeys, initialized, unbinder, histories>>

(* Mutant: the key is not marked. *)
MarkInitialized_Not(k) == UNCHANGED initializedKeys

(* initializedKeys.add                                                     *)
MarkInitialized(k) == initializedKeys' = initializedKeys \cup {k}

(* instance.init() resolved, and the loop goes on.                         *)
InitResolves(p) ==
  /\ initer[p].pc = "waiting"
  /\ initialized' = [initialized EXCEPT ![p] = @ \cup {initer[p].object}]
  /\ MarkInitialized(initer[p].key)
  /\ Take(p, initer[p].at)
  /\ UNCHANGED <<bound, place, binds, singletons, prototype, made, unbinder, histories>>

(* instance.init() rejected, or threw because what is there has no init,   *)
(* and initDependencies with it.                                           *)
InitRejects(p) ==
  /\ initer[p].pc = "waiting"
  /\ initer' = [initer EXCEPT ![p] = At("failed")]
  /\ UNCHANGED <<bound, place, binds, singletons, prototype, made, initializedKeys, initialized,
                 unbinder, histories>>

--------------------------------------------------------------------------------
(***************************************************************************)
(* unbind                                                                  *)
(***************************************************************************)

(* Mutant: the singleton of an unbound key stays. *)
Drop_Not(k) == UNCHANGED singletons

(* singletons.delete                                                       *)
Drop(k) == singletons' = [singletons EXCEPT ![k] = None]

(* Mutant: an adapter is dropped and not closed. *)
MustClose_Never(k) == FALSE /\ singletons[k] # None

(* if (instance?.init)                                                     *)
MustClose(k) == singletons[k] # None /\ singletons[k].init

(* unbind up to close.                                                     *)
Unbind(u, k) ==
  /\ unbinder[u].pc = "idle"
  /\ bound' = [bound EXCEPT ![k] = None]
  /\ \/ /\ MustClose(k)
        /\ unbinder' = [unbinder EXCEPT
             ![u] = [pc |-> "closing", object |-> singletons[k].object]]
        /\ UNCHANGED singletons
     \/ /\ ~MustClose(k)
        /\ Drop(k)
        /\ unbinder' = [unbinder EXCEPT
             ![u] = [pc |-> "done", object |-> None]]
  /\ overlaps' = overlaps \cup {{u, q} : q \in Active}
  /\ steady' = [p \in Initers |-> steady[p] \ {k}]
  /\ unbound' = unbound \cup {k}
  /\ UNCHANGED <<place, binds, prototype, made, initializedKeys, initer, initialized, rebound>>

(* close() resolved.                                                       *)
CloseResolves(u) ==
  LET k == unbinder[u].object.key
  IN  /\ unbinder[u].pc = "closing"
      /\ Drop(k)
      /\ unbinder' = [unbinder EXCEPT ![u].pc = "done"]
      /\ UNCHANGED <<bound, place, binds, prototype, made, initializedKeys, initer, initialized,
                     histories>>

(* close() rejected, and unbind with it: the singleton stays.              *)
CloseRejects(u) ==
  /\ unbinder[u].pc = "closing"
  /\ unbinder' = [unbinder EXCEPT ![u].pc = "failed"]
  /\ UNCHANGED <<bound, place, binds, singletons, prototype, made, initializedKeys, initer,
                 initialized, histories>>

--------------------------------------------------------------------------------
Next ==
  \/ \E k \in Keys : \E b \in Bindable[k] : Bind(k, b)
  \/ \E k \in Keys : GetInstance(k)
  \/ \E p \in Initers :
       InitDependencies(p) \/ Visit(p) \/ InitResolves(p) \/ InitRejects(p)
  \/ \E u \in Unbinders, k \in Keys : Unbind(u, k)
  \/ \E u \in Unbinders : CloseResolves(u) \/ CloseRejects(u)

Spec == Init /\ [][Next]_vars

--------------------------------------------------------------------------------
(***************************************************************************)
(* Properties                                                              *)
(***************************************************************************)

(* No instance is initialised twice, through failures, rebinding and       *)
(* unbinding, except by two calls of initDependencies that overlap: the    *)
(* second does not know that the first is waiting (lines 175-179).         *)
InitOnce ==
  \A p, q \in Initers :
    p # q /\ initialized[p] \cap initialized[q] # {} => {p, q} \in overlaps

(* No instance is closed twice, except by two overlapping calls of unbind, *)
(* or to retry a close that failed (lines 124-132).                        *)
CloseOnce ==
  \A u, v \in Unbinders :
    (u # v /\ unbinder[u].object # None /\ unbinder[u].object = unbinder[v].object) =>
      \/ {u, v} \in overlaps
      \/ "failed" \in {unbinder[u].pc, unbinder[v].pc}

(* All instances of a class, also those that were made before, have for a  *)
(* key that is injected by property the singleton that the container has   *)
(* for it, unless the key was unbound or bound as something else since: an *)
(* instance keeps the singleton that was dropped, or the constant that was *)
(* there before, until the class is asked for again (inject, line 54).     *)
InjectedIsShared ==
  \A p \in ByProperty :
    prototype[p] # None /\ p[2] \notin unbound =>
      \/ singletons[p[2]] # None /\ singletons[p[2]].object = prototype[p]
      \/ prototype[p].n = 0 /\ (singletons[p[2]] = None \/ p[2] \in rebound)

(* What the container lets go of in a step is being closed.                *)
ClosedIfDropped ==
  \A k \in Keys :
    (singletons[k] # None /\ singletons[k].init /\ singletons'[k] # singletons[k]) =>
      \/ \E u \in Unbinders : unbinder[u].object = singletons[k].object
      \/ \E u, v \in Unbinders : u # v /\ {u, v} \in overlaps

(* The container lets go of an adapter bound with init only when it has    *)
(* been closed, unless two calls of unbind overlap: the one that is late   *)
(* drops the instance made since (lines 127-131).                          *)
ClosedWhenDropped == [][ClosedIfDropped]_vars

(* When initDependencies is over, every adapter that was bound with init   *)
(* all the while, and whose key was never unbound before, is initialised   *)
(* (lines 172-183) - unless a call once took the entry of its key and found*)
(* it bound as something that is not kept when it came to it (174-176):    *)
(* then it has initialised that.                                           *)
InitCovers ==
  \A p \in Initers : initer[p].pc = "done" =>
    \A k \in steady[p] :
      \E q \in Initers : \E o \in initialized[q] :
        \/ singletons[k] # None /\ o = singletons[k].object
        \/ o.key = k /\ o.n = 0

================================================================================

-------------------------------- MODULE Injector --------------------------------
(***************************************************************************)
(* What the decorators @service, @instance, @inject and @related keep of   *)
(* the classes of methods, and what Service.createObjectWithDependencies   *)
(* makes of it for each request (injector.ts).  Reflect's metadata is      *)
(* inherited: a class without a Map of its own has that of the nearest     *)
(* class above it, and its decorators write to it.                         *)
(***************************************************************************)
CONSTANTS
  Methods,    \* the classes of methods, and their base classes
  Super,      \* the class that each of them extends, or None
  Action,     \* settings.action of each
  Related,    \* the classes with the decorator @related
  Decorated,  \* per kind and class, a Map from names to what is injected
  CtorNames,  \* names that stand for the parameters of constructors
  TypeOf,     \* DependencyType of what is bound to the keys of @inject
  None

(* A class extends one at most, and none itself.                           *)
ASSUME ClassesAssumption ==
  /\ Super \in [Methods -> Methods \cup {None}] /\ None \notin Methods
  /\ \A S \in SUBSET Methods :
       S # {} => \E m \in S : Super[m] = None \/ Super[m] \notin S
  /\ DOMAIN Action = Methods
  /\ Related \subseteq Methods

Kinds   == {"service", "instance", "inject"}
Actions == {Action[m] : m \in Methods}
NoMap   == <<>>

(* A Map with all entries of another one set.                              *)
OnTop(items, map) ==
  [n \in DOMAIN items \cup DOMAIN map |-> IF n \in DOMAIN items THEN items[n] ELSE map[n]]

(* What the Maps are made of.                                              *)
Names == UNION {DOMAIN Decorated[k][m] : k \in Kinds, m \in Methods}
Items == UNION {{Decorated[k][m][n] : n \in DOMAIN Decorated[k][m]} :
                  k \in Kinds, m \in Methods}
Maps  == UNION {[N -> Items] : N \in SUBSET Names}

ASSUME MapsAssumption ==
  None \notin Maps /\ \A k \in Kinds, m \in Methods : Decorated[k][m] \in Maps

--------------------------------------------------------------------------------
(* Each class, with those above it.                                        *)
Chains ==
  [m \in Methods |->
     {c \in Methods :
        \A S \in SUBSET Methods :
          m \in S /\ (\A x \in S : Super[x] # None => Super[x] \in S) => c \in S}]

Chain(m) == Chains[m]

(* Of classes of one chain, that which extends all others.                 *)
Nearest(C) == CHOOSE c \in C : C \subseteq Chain(c)

(* Mutant: a class without a Map of its own has none. *)
Holder_Own(maps, m) == IF maps[m] = None THEN None ELSE m

(* The class whose Map Reflect finds for m, of the Maps of one kind.       *)
Holder(maps, m) ==
  LET those == {c \in Chain(m) : maps[c] # None}
  IN  IF those = {} THEN None ELSE Nearest(those)

MapOf(maps, c) == IF c = None THEN NoMap ELSE maps[c]

(* setMetaData for all decorators of class m of one kind.                  *)
SetMetaData(maps, m, items) ==
  LET h == Holder(maps, m)
      c == IF h = None THEN m ELSE h
  IN  IF items = NoMap THEN maps ELSE [maps EXCEPT ![c] = OnTop(items, MapOf(maps, h))]

(* What of an inject Map createObjectWithDependencies puts where: into the *)
(* Map of services, of instances, or straight into the object it makes.    *)
Injects(map, type) ==
  LET names == {n \in DOMAIN map \ CtorNames : TypeOf[map[n]] = type}
  IN  [n \in names |-> map[n]]

(* Parameters of the constructor do not go through the Maps.               *)
Params(map) == [n \in DOMAIN map \cap CtorNames |-> map[n]]

(* The object: constants and parameters, services, and instances on top.   *)
Object(services, instances, injected) ==
  OnTop(instances, OnTop(services, OnTop(Injects(injected, "constant"), Params(injected))))

--------------------------------------------------------------------------------
(* What class m and those above it declare, kind by kind.                  *)
Declared(kind, m) ==
  LET Those(n) == {c \in Chain(m) : n \in DOMAIN Decorated[kind][c]}
  IN  [n \in UNION {DOMAIN Decorated[kind][c] : c \in Chain(m)} |->
         Decorated[kind][Nearest(Those(n))][n]]

(* What it should be given: with @inject on top, and what @service and     *)
(* @instance say only with @related (README, on decorators).               *)
Expected(m) ==
  LET injected   == Declared("inject", m)
      Of(kind)   == IF m \in Related THEN Declared(kind, m) ELSE NoMap
  IN  Object(OnTop(Injects(injected, "service"), Of("service")),
             OnTop(Injects(injected, "adapter"), Of("instance")), injected)

(* No class but those that m extends has its action, or that of one of them*)
(* which is @related, or extends one of them that has decorators.          *)
Alone(m) ==
  \A d \in Methods \ {m} :
    /\ Action[d] # Action[m]
    /\ d \notin Chain(m) =>
         \A b \in Chain(m) :
           /\ b \in Related => Action[d] # Action[b]
           /\ b \in Chain(d) => \A k \in Kinds : Decorated[k][b] = NoMap

================================================================================

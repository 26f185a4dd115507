------------------------------ MODULE RequestReply ------------------------------
(***************************************************************************)
(* Request and reply over the broker: Client.request and makeBrokerRequest *)
(* on one side, the subscription loop of Service.start and Service.handled *)
(* on the other, with the response cache of the client, the deadline that  *)
(* travels in the baggage, and the requests that handlers make themselves. *)
(*                                                                         *)
(* The broker, the cache and the clock are not the repository's code: they *)
(* are modelled as the code uses them.  A message is delivered at most     *)
(* once, messages are not ordered, and a replica may crash at any moment.  *)
(***************************************************************************)
EXTENDS Baggage, FiniteSets

CONSTANTS
  Calls,            \* the invocations of Client.request, each made once
  Keys,             \* what is asked for: a subject together with the data
  Instances,        \* the replicas that serve the subjects
  Payloads,         \* what a handler may return
  Falsy,            \* the payloads that JavaScript takes for false
  Malformed,        \* the payloads that break the response schema
  OwnTimeout,       \* options.timeout of the method a key belongs to
  CachedKeys,       \* keys of methods with options.cache, client with a cache
  CheckedKeys,      \* keys of methods with runTimeValidation.response
  RaceKeys,         \* keys of methods with options.race
  InvalidRequests,  \* keys whose data breaks a request schema that is checked
  Expiries,         \* deadlines in the baggage of the requests from outside
  CacheTimeout,     \* cache.timeout of the client
  None              \* no value

Errors == {"InvalidRequest", "Deadline", "NoResponders", "BrokerTimeout",
           "ServiceError", "InvalidResponse"}

Outcomes == Payloads \cup {"ServiceError", "NoResponders"}

ASSUME PayloadsAssumption ==
  /\ Falsy \subseteq Payloads
  /\ Malformed \subseteq Payloads
  /\ Payloads \cap Errors = {}
  /\ None \notin Payloads \cup Errors

ASSUME KeysAssumption ==
  /\ OwnTimeout \in [Keys -> Nat]
  /\ CachedKeys \subseteq Keys
  /\ CheckedKeys \subseteq Keys
  /\ RaceKeys \subseteq Keys
  /\ InvalidRequests \subseteq Keys

ASSUME NoneAssumption == None \notin Keys \cup Calls \cup Instances

ASSUME TimesAssumption ==
  /\ Expiries \subseteq Nat
  /\ CacheTimeout \in Nat

VARIABLES
  now,        \* the clock
  pc,         \* where each call is
  key,        \* what each call asks for
  parent,     \* the call whose handler makes this one, None from outside
  home,       \* the replica that makes the call, None outside
  expired,    \* the deadline in the call's baggage
  timeout,    \* the wait for the broker, worked out when the call is made
  alarm,      \* when the timer that is running for the call goes off
  result,     \* what the caller got: a payload or an error
  requests,   \* requests on their way to a replica
  running,    \* requests whose handler is running
  replies,    \* replies on their way to the caller
  up,         \* the replicas that are subscribed
  store,      \* the cache: what is stored for each key, None if nothing
  writes,     \* cache writes started and not awaited
  computed,   \* history: the payloads that handlers returned for each key
  failed      \* history: calls a handler of which failed, and how

callVars  == <<pc, key, parent, home, expired, timeout, alarm, result>>
netVars   == <<requests, running, replies, up>>
cacheVars == <<store, writes>>
history   == <<computed, failed>>
vars == <<now, callVars, netVars, cacheVars, history>>

Pending(c) == pc[c] \in {"caching", "waiting"}

TypeOK ==
  /\ now \in Nat
  /\ pc \in [Calls -> {"idle", "caching", "waiting", "resolved", "rejected", "lost"}]
  /\ key \in [Calls -> Keys \cup {None}]
  /\ parent \in [Calls -> Calls \cup {None}]
  /\ home \in [Calls -> Instances \cup {None}]
  /\ expired \in [Calls -> Nat]
  /\ timeout \in [Calls -> Nat]
  /\ alarm \in [Calls -> Nat]
  /\ result \in [Calls -> Payloads \cup Errors \cup {None}]
  /\ requests \subseteq [to : Instances, call : Calls]
  /\ running \subseteq [at : Instances, call : Calls]
  /\ replies \subseteq [call : Calls, outcome : Outcomes]
  /\ up \subseteq Instances
  /\ store \in [Keys -> Payloads \cup {None}]
  /\ writes \subseteq [key : CachedKeys, payload : Payloads]
  /\ computed \in [Keys -> SUBSET Payloads]
  /\ failed \subseteq [call : Calls, how : {"threw", "unencodable"}]
  /\ \A c \in Calls : pc[c] # "idle" => key[c] \in Keys

Init ==
  /\ now = 1
  /\ pc = [c \in Calls |-> "idle"]
  /\ key = [c \in Calls |-> None]
  /\ parent = [c \in Calls |-> None]
  /\ home = [c \in Calls |-> None]
  /\ expired = [c \in Calls |-> Absent]
  /\ timeout = [c \in Calls |-> 0]
  /\ alarm = [c \in Calls |-> 0]
  /\ result = [c \in Calls |-> None]
  /\ requests = {}
  /\ running = {}
  /\ replies = {}
  /\ up = Instances
  /\ store = [k \in Keys |-> None]
  /\ writes = {}
  /\ computed = [k \in Keys |-> {}]
  /\ failed = {}

--------------------------------------------------------------------------------
(***************************************************************************)
(* The client: Client.request                                              *)
(***************************************************************************)

(* Mutants: the wait for the broker ends too early; it is the deadline     *)
(* itself; a deadline that has passed is not noticed.                      *)
TimeLeft_TooShort(deadline) == deadline - now - 1
TimeLeft_Absolute(deadline) == deadline
NoTimeLeft_Zero(deadline) == deadline = now

(* const timeout = expired - Date.now()                                    *)
TimeLeft(deadline) == deadline - now

(* if (timeout <= 0) throw                                                 *)
NoTimeLeft(deadline) == deadline <= now

(* Client.validate on a response                                           *)
Acceptable(k, payload) == k \in CheckedKeys => payload \notin Malformed

(* Mutant: the payload goes to the cache before it is checked. *)
NewWrites_Unchecked(k, outcome) ==
  {w \in [key : CachedKeys, payload : Payloads] : w.key = k /\ w.payload = outcome}

(* cache.service.set, started only after an answer that is neither an      *)
(* error nor refused by the response schema.                               *)
NewWrites(k, outcome) ==
  {w \in [key : CachedKeys, payload : Payloads] :
     w.key = k /\ w.payload = outcome /\ Acceptable(k, outcome)}

Settle(c, state, value) ==
  /\ pc' = [pc EXCEPT ![c] = state]
  /\ result' = [result EXCEPT ![c] = value]

(* Mutant: every method is subscribed without a queue. *)
Targets_NoQueue(k) == {up}

(* The replicas that the broker hands a request to: one of the queue group *)
(* of the service, or all of them when the method is subscribed without a  *)
(* queue.                                                                  *)
Targets(k) == IF k \in RaceKeys THEN {up} ELSE {{i} : i \in up}

(* Client.makeBrokerRequest: the request goes out with a timer of its own; *)
(* with nobody subscribed the broker itself answers.                       *)
MakeBrokerRequest(c, k, wait) ==
  /\ pc' = [pc EXCEPT ![c] = "waiting"]
  /\ alarm' = [alarm EXCEPT ![c] = now + wait]
  /\ \/ /\ up # {}
        /\ \E to \in Targets(k) :
             requests' = requests \cup {[to |-> i, call |-> c] : i \in to}
        /\ UNCHANGED replies
     \/ /\ up = {}
        /\ replies' = replies \cup {[call |-> c, outcome |-> "NoResponders"]}
        /\ UNCHANGED requests

(* Client.request up to its first wait, made by replica h (None: a client  *)
(* outside) for the handler of call p, with the deadline e in the baggage. *)
Request(c, k, p, h, e) ==
  LET deadline == GetExpired(e, OwnTimeout[k], now)
  IN  /\ pc[c] = "idle"
      /\ key' = [key EXCEPT ![c] = k]
      /\ parent' = [parent EXCEPT ![c] = p]
      /\ home' = [home EXCEPT ![c] = h]
      /\ \/ /\ k \in InvalidRequests
            /\ Settle(c, "rejected", "InvalidRequest")
            /\ UNCHANGED <<expired, timeout, alarm, requests, replies>>
         \/ /\ k \notin InvalidRequests
            /\ NoTimeLeft(deadline)
            /\ expired' = [expired EXCEPT ![c] = deadline]
            /\ Settle(c, "rejected", "Deadline")
            /\ UNCHANGED <<timeout, alarm, requests, replies>>
         \/ /\ k \notin InvalidRequests
            /\ ~NoTimeLeft(deadline)
            /\ expired' = [expired EXCEPT ![c] = deadline]
            /\ timeout' = [timeout EXCEPT ![c] = TimeLeft(deadline)]
            /\ UNCHANGED result
            /\ \/ /\ k \in CachedKeys
                  /\ pc' = [pc EXCEPT ![c] = "caching"]
                  /\ alarm' = [alarm EXCEPT ![c] = now + CacheTimeout]
                  /\ UNCHANGED <<requests, replies>>
               \/ /\ k \notin CachedKeys
                  /\ MakeBrokerRequest(c, k, TimeLeft(deadline))
      /\ UNCHANGED <<now, running, up, cacheVars, history>>

(* A request from outside: an HTTP gateway, a script, a test.              *)
RequestFromOutside(c, k) == \E e \in Expiries : Request(c, k, None, None, e)

(* A request that the running handler r makes to a service it depends on.  *)
(* The call is not one the handler belongs to.                             *)
RequestFromHandler(c, k, r) ==
  Request(c, k, r.call, r.at, GetNextExpired(expired[r.call]))

(* The cache answered in time with something stored.                       *)
CacheHit(c) ==
  /\ pc[c] = "caching"
  /\ store[key[c]] # None
  /\ Settle(c, "resolved", store[key[c]])
  /\ UNCHANGED <<now, key, parent, home, expired, timeout, alarm, netVars,
                 cacheVars, history>>

(* The cache had nothing, failed, or lost the race with its timer.  The    *)
(* wait for the broker is the one worked out before the cache was asked.   *)
CacheMissed(c) ==
  /\ pc[c] = "caching"
  /\ MakeBrokerRequest(c, key[c], timeout[c])
  /\ UNCHANGED <<now, key, parent, home, expired, timeout, result, running, up,
                 cacheVars, history>>

(* Mutant: an answer is taken whatever has become of the call. *)
Awaited_Always(c) == pc[c] # "idle"

(* broker.request settles once: only the first answer counts.              *)
Awaited(c) == pc[c] = "waiting"

(* The first answer reaches the caller.                                    *)
RecvReply(m) ==
  LET c == m.call
  IN  /\ Awaited(c)
      /\ \/ /\ m.outcome \in Errors
            /\ Settle(c, "rejected", m.outcome)
         \/ /\ m.outcome \in Payloads
            /\ ~Acceptable(key[c], m.outcome)
            /\ Settle(c, "rejected", "InvalidResponse")
         \/ /\ m.outcome \in Payloads
            /\ Acceptable(key[c], m.outcome)
            /\ Settle(c, "resolved", m.outcome)
      /\ writes' = writes \cup NewWrites(key[c], m.outcome)
      /\ replies' = replies \ {m}
      /\ UNCHANGED <<now, key, parent, home, expired, timeout, alarm, requests,
                     running, up, store, history>>

(* An answer that is late, or not the first, is dropped; so is one lost on *)
(* the way.                                                                *)
DropReply(m) ==
  /\ replies' = replies \ {m}
  /\ UNCHANGED <<now, callVars, requests, running, up, cacheVars, history>>

(* broker.request rejects: no answer came in time.                         *)
BrokerTimeout(c) ==
  /\ pc[c] = "waiting"
  /\ now >= alarm[c]
  /\ Settle(c, "rejected", "BrokerTimeout")
  /\ UNCHANGED <<now, key, parent, home, expired, timeout, alarm, netVars,
                 cacheVars, history>>

--------------------------------------------------------------------------------
(***************************************************************************)
(* The service: the subscription loop of Service.start, and handled        *)
(***************************************************************************)

(* A message reaches the loop, which starts the handler and goes on.       *)
Deliver(m) ==
  /\ requests' = requests \ {m}
  /\ running' = running \cup {[at |-> m.to, call |-> m.call]}
  /\ UNCHANGED <<now, callVars, replies, up, cacheVars, history>>

LoseRequest(m) ==
  /\ requests' = requests \ {m}
  /\ UNCHANGED <<now, callVars, running, replies, up, cacheVars, history>>

Respond(r, outcome) ==
  replies' = replies \cup {[call |-> r.call, outcome |-> outcome]}

(* Mutant: in race mode too, whatever the handler returned is sent. *)
Answered_Always(k, payload) == TRUE

(* if (!isRace || result.payload)                                          *)
Answered(k, payload) == k \in RaceKeys => payload \notin Falsy

(* The handler returned.                                                   *)
Return(r, payload) ==
  LET k == key[r.call]
  IN  /\ \/ Answered(k, payload) /\ Respond(r, payload)
         \/ ~Answered(k, payload) /\ UNCHANGED replies
      /\ running' = running \ {r}
      /\ computed' = [computed EXCEPT ![k] = @ \cup {payload}]
      /\ UNCHANGED <<now, callVars, requests, up, cacheVars, failed>>

(* The handler threw, or its dependencies could not be built: the result   *)
(* has an error and no payload, so in race mode nothing is sent.           *)
Throw(r) ==
  /\ \/ key[r.call] \notin RaceKeys /\ Respond(r, "ServiceError")
     \/ key[r.call] \in RaceKeys /\ UNCHANGED replies
  /\ running' = running \ {r}
  /\ failed' = failed \cup {[call |-> r.call, how |-> "threw"]}
  /\ UNCHANGED <<now, callVars, requests, up, cacheVars, computed>>

(* What the handler returned, or threw without being an Error, cannot be   *)
(* written as JSON: the catch after the then answers with an error, in race*)
(* mode too.                                                               *)
ReturnUnencodable(r) ==
  /\ Respond(r, "ServiceError")
  /\ running' = running \ {r}
  /\ failed' = failed \cup {[call |-> r.call, how |-> "unencodable"]}
  /\ UNCHANGED <<now, callVars, requests, up, cacheVars, computed>>

--------------------------------------------------------------------------------
(***************************************************************************)
(* The environment: replicas, cache and clock                              *)
(***************************************************************************)

(* A replica stops: its handlers, the messages on their way to it and the  *)
(* promises of the requests it made are gone.                              *)
Crash(i) ==
  /\ i \in up
  /\ up' = up \ {i}
  /\ requests' = {m \in requests : m.to # i}
  /\ running' = {r \in running : r.at # i}
  /\ pc' = [c \in Calls |-> IF Pending(c) /\ home[c] = i THEN "lost" ELSE pc[c]]
  /\ UNCHANGED <<now, key, parent, home, expired, timeout, alarm, result,
                 replies, cacheVars, history>>

(* It starts again and subscribes; it keeps nothing.                       *)
Restart(i) ==
  /\ i \notin up
  /\ up' = up \cup {i}
  /\ UNCHANGED <<now, callVars, requests, running, replies, cacheVars, history>>

(* A write to the cache takes effect.                                      *)
CacheStore(w) ==
  /\ store' = [store EXCEPT ![w.key] = w.payload]
  /\ writes' = writes \ {w}
  /\ UNCHANGED <<now, callVars, netVars, history>>

(* A stored value reaches the end of its life, options.cache.              *)
Evict(k) ==
  /\ store[k] # None
  /\ store' = [store EXCEPT ![k] = None]
  /\ UNCHANGED <<now, callVars, netVars, writes, history>>

(* Time passes.  Timers are ideal: none is still waiting when the clock    *)
(* moves past it.  With no call pending nothing depends on the time, and   *)
(* the clock rests; so it needs no bound.                                  *)
Tick ==
  /\ \E c \in Calls : Pending(c)
  /\ \A c \in Calls : Pending(c) => now < alarm[c]
  /\ now' = now + 1
  /\ UNCHANGED <<callVars, netVars, cacheVars, history>>

--------------------------------------------------------------------------------
ClientStep(c) ==
  \/ \E k \in Keys : RequestFromOutside(c, k)
  \/ \E k \in Keys, r \in running : RequestFromHandler(c, k, r)
  \/ CacheHit(c)
  \/ CacheMissed(c)
  \/ BrokerTimeout(c)

HandlerStep(r) ==
  \/ \E v \in Payloads : Return(r, v)
  \/ Throw(r)
  \/ ReturnUnencodable(r)

Next ==
  \/ \E c \in Calls : ClientStep(c)
  \/ \E m \in replies : RecvReply(m) \/ DropReply(m)
  \/ \E m \in requests : Deliver(m) \/ LoseRequest(m)
  \/ \E r \in running : HandlerStep(r)
  \/ \E i \in Instances : Crash(i) \/ Restart(i)
  \/ \E w \in writes : CacheStore(w)
  \/ \E k \in Keys : Evict(k)
  \/ Tick

Spec == Init /\ [][Next]_vars

(* Timers go off and the clock moves.  Nothing is assumed of the network,  *)
(* the handlers, the replicas or the cache.                                *)
Fairness ==
  /\ WF_vars(Tick)
  /\ \A c \in Calls : WF_vars(CacheMissed(c)) /\ WF_vars(BrokerTimeout(c))

FairSpec == Spec /\ Fairness

--------------------------------------------------------------------------------
(***************************************************************************)
(* Properties                                                              *)
(***************************************************************************)

(* A caller only gets a value that some handler returned for the same      *)
(* subject and data, whichever of the cache, a replica, or one of several  *)
(* racing replicas it came from; and where responses are checked, never    *)
(* one that breaks the schema (Client.request, lines 237-260).             *)
HonestResults ==
  \A c \in Calls : pc[c] = "resolved" =>
    /\ result[c] \in computed[key[c]]
    /\ Acceptable(key[c], result[c])

(* What is in the cache, or about to be, was handed to a caller of the     *)
(* same key: no error, refused response or answer nobody waited for gets   *)
(* into the cache (Client.request, lines 254-263).                         *)
CacheHoldsReturned ==
  \A k \in Keys, v \in Payloads :
    (store[k] = v \/ [key |-> k, payload |-> v] \in writes) =>
      \E c \in Calls : pc[c] = "resolved" /\ key[c] = k /\ result[c] = v

(* A call fails for the reason it is told: an error of the service only    *)
(* after its handler failed, a timeout only once its deadline has passed,  *)
(* a refused response only if a handler returned one (Client.request,      *)
(* Client.makeBrokerRequest, Service.handled).                             *)
HonestErrors ==
  \A c \in Calls : pc[c] = "rejected" =>
    /\ result[c] = "ServiceError" => \E f \in failed : f.call = c
    /\ result[c] \in {"BrokerTimeout", "Deadline"} => now >= expired[c]
    /\ result[c] = "InvalidResponse" => computed[key[c]] \cap Malformed # {}

(* In race mode a replica that has nothing to say, or fails, does not beat *)
(* one that has: the caller gets neither a false value nor the error of a  *)
(* handler that threw (Service.start, line 574).                           *)
RaceAnswer ==
  \A c \in Calls : key[c] \in RaceKeys =>
    /\ pc[c] = "resolved" => result[c] \notin Falsy
    /\ pc[c] = "rejected" /\ result[c] = "ServiceError" =>
         [call |-> c, how |-> "unencodable"] \in failed

(* Where the request of call c is.                                         *)
Places(c) ==
  {<<"asked", m.to>> : m \in {m \in requests : m.call = c}}
    \cup {<<"handled", r.at>> : r \in {r \in running : r.call = c}}
    \cup {<<"answered", m.outcome>> : m \in {m \in replies : m.call = c}}

(* A request to a method that is not in race mode is in one place at a     *)
(* time: on its way to one replica, handled there, or answered.  Two       *)
(* replicas never work on it (Service.start, lines 562-566).               *)
SingleHandling ==
  \A c \in Calls : pc[c] # "idle" /\ key[c] \notin RaceKeys =>
    \A x, y \in Places(c) : x = y

(* A request that a handler makes, to a method with no timeout of its own, *)
(* has the deadline of the request the handler is working on (README,      *)
(* end-to-end timeout; Service.getNextBaggage and Root.getExpired).        *)
ChildDeadlineInherited ==
  \A c \in Calls :
    (/\ parent[c] # None
     /\ expired[c] # Absent
     /\ OwnTimeout[key[c]] = Absent) => expired[c] = expired[parent[c]]

(* A call waits past its deadline for no longer than the cache was given:  *)
(* the wait is not worked out again after the cache (Client.request, lines *)
(* 231-252).                                                               *)
DeadlineSlack ==
  \A c \in Calls : Pending(c) => now <= expired[c] + CacheTimeout

Promise == INSTANCE RequestPromise WITH
  phase  <- [c \in Calls |-> IF Pending(c) THEN "pending" ELSE pc[c]],
  asked  <- key,
  answer <- result

(* This specification keeps what RequestPromise promises a caller: the     *)
(* wait for the cache and the wait for the broker of Client.request are    *)
(* one to it, late and repeated answers change nothing, and every call     *)
(* settles, whatever is lost, fails or never answers, unless the process it*)
(* belongs to is gone.                                                     *)
PromiseSpec == Promise!Spec

================================================================================

--------------------------- MODULE RequestReplyProofs ---------------------------
(***************************************************************************)
(* Theorems about RequestReply, for all sets of calls, keys, replicas and  *)
(* payloads, and all times.                                                *)
(***************************************************************************)
EXTENDS RequestReply, TLAPS

--------------------------------------------------------------------------------
(***************************************************************************)
(* Types                                                                   *)
(***************************************************************************)

USE DefaultTimeoutIsNat DEF Absent

(* A deadline is a time (Root.getExpired).                                 *)
LEMMA GetExpiredType ==
  ASSUME NEW e \in Nat, NEW own \in Nat, NEW t \in Nat
  PROVE  GetExpired(e, own, t) \in Nat
BY DEF GetExpired

(* A request to the broker keeps the types of what it changes              *)
(* (Client.makeBrokerRequest).                                             *)
LEMMA MakeBrokerRequestType ==
  ASSUME TypeOK, NEW c \in Calls, NEW k \in Keys, NEW wait \in Nat,
         MakeBrokerRequest(c, k, wait)
  PROVE  /\ pc' = [pc EXCEPT ![c] = "waiting"]
         /\ alarm' \in [Calls -> Nat]
         /\ requests' \subseteq [to : Instances, call : Calls]
         /\ replies' \subseteq [call : Calls, outcome : Outcomes]
<1>1. pc' = [pc EXCEPT ![c] = "waiting"] /\ alarm' \in [Calls -> Nat]
  BY DEF TypeOK, MakeBrokerRequest
<1>2. \A to \in Targets(k) : to \subseteq Instances
  BY DEF TypeOK, Targets
<1>3. requests' \subseteq [to : Instances, call : Calls]
  BY <1>2 DEF TypeOK, MakeBrokerRequest
<1>4. replies' \subseteq [call : Calls, outcome : Outcomes]
  BY DEF TypeOK, MakeBrokerRequest, Outcomes
<1> QED BY <1>1, <1>3, <1>4

LEMMA RequestType ==
  ASSUME TypeOK, NEW c \in Calls, NEW k \in Keys, NEW p \in Calls \cup {None},
         NEW h \in Instances \cup {None}, NEW e \in Nat, Request(c, k, p, h, e)
  PROVE  TypeOK'
<1> DEFINE deadline == GetExpired(e, OwnTimeout[k], now)
<1>1. deadline \in Nat
  BY KeysAssumption, GetExpiredType DEF TypeOK
<1>2. CASE k \in InvalidRequests
  BY <1>2 DEF Request, TypeOK, Settle, Errors, cacheVars, history
<1>3. CASE k \notin InvalidRequests /\ NoTimeLeft(deadline)
  <2> HIDE DEF deadline
  <2>1. expired' = [expired EXCEPT ![c] = deadline] /\ Settle(c, "rejected", "Deadline")
    BY <1>3 DEF Request, deadline
  <2> QED BY <1>1, <1>3, <2>1 DEF Request, TypeOK, Settle, Errors, cacheVars, history, deadline
<1>4. CASE k \notin InvalidRequests /\ ~NoTimeLeft(deadline)
  <2>1. TimeLeft(deadline) \in Nat
    BY <1>1, <1>4 DEF TimeLeft, NoTimeLeft, TypeOK
  <2> HIDE DEF deadline
  <2>2. /\ expired' = [expired EXCEPT ![c] = deadline]
        /\ timeout' = [timeout EXCEPT ![c] = TimeLeft(deadline)]
        /\ UNCHANGED result
    BY <1>4 DEF Request, deadline
  <2>3. CASE k \in CachedKeys
    <3>1. /\ pc' = [pc EXCEPT ![c] = "caching"]
          /\ alarm' = [alarm EXCEPT ![c] = now + CacheTimeout]
          /\ UNCHANGED <<requests, replies>>
      BY <1>4, <2>3 DEF Request, deadline
    <3> QED BY <1>1, <2>1, <2>2, <3>1, TimesAssumption DEF Request, TypeOK, cacheVars, history
  <2>4. CASE k \notin CachedKeys
    <3>1. MakeBrokerRequest(c, k, TimeLeft(deadline))
      BY <1>4, <2>4 DEF Request, deadline
    <3>2. /\ pc' = [pc EXCEPT ![c] = "waiting"]
          /\ alarm' \in [Calls -> Nat]
          /\ requests' \subseteq [to : Instances, call : Calls]
          /\ replies' \subseteq [call : Calls, outcome : Outcomes]
      BY <2>1, <3>1, MakeBrokerRequestType
    <3> QED BY <1>1, <2>1, <2>2, <3>2 DEF Request, TypeOK, cacheVars, history
  <2> QED BY <2>3, <2>4
<1> QED BY <1>2, <1>3, <1>4

LEMMA TypeStep == TypeOK /\ [Next]_vars => TypeOK'
<1> SUFFICES ASSUME TypeOK, [Next]_vars PROVE TypeOK'
  OBVIOUS
<1>1. ASSUME NEW c \in Calls, NEW k \in Keys, RequestFromOutside(c, k)
      PROVE  TypeOK'
  BY <1>1, RequestType, TimesAssumption DEF RequestFromOutside
<1>2. ASSUME NEW c \in Calls, NEW k \in Keys, NEW r \in running,
             RequestFromHandler(c, k, r)
      PROVE  TypeOK'
  <2>1. r.call \in Calls /\ r.at \in Instances /\ expired[r.call] \in Nat
    BY DEF TypeOK
  <2> QED BY <1>2, <2>1, RequestType DEF RequestFromHandler, GetNextExpired
<1>3. ASSUME NEW c \in Calls, CacheHit(c)
      PROVE  TypeOK'
  <2>1. store[key[c]] \in Payloads
    BY <1>3 DEF CacheHit, TypeOK
  <2> QED BY <1>3, <2>1 DEF CacheHit, TypeOK, Settle, netVars, cacheVars, history
<1>4. ASSUME NEW c \in Calls, CacheMissed(c)
      PROVE  TypeOK'
  <2>1. key[c] \in Keys /\ timeout[c] \in Nat
    BY <1>4 DEF CacheMissed, TypeOK
  <2>2. MakeBrokerRequest(c, key[c], timeout[c])
    BY <1>4 DEF CacheMissed
  <2>3. /\ pc' = [pc EXCEPT ![c] = "waiting"]
        /\ alarm' \in [Calls -> Nat]
        /\ requests' \subseteq [to : Instances, call : Calls]
        /\ replies' \subseteq [call : Calls, outcome : Outcomes]
    BY <2>1, <2>2, MakeBrokerRequestType
  <2> QED BY <1>4, <2>1, <2>3 DEF CacheMissed, TypeOK, cacheVars, history
<1>5. ASSUME NEW c \in Calls, BrokerTimeout(c)
      PROVE  TypeOK'
  BY <1>5 DEF BrokerTimeout, TypeOK, Settle, Errors, netVars, cacheVars, history
<1>6. ASSUME NEW m \in replies, RecvReply(m)
      PROVE  TypeOK'
  <2>1. m.call \in Calls /\ key[m.call] \in Keys
    BY <1>6 DEF RecvReply, Awaited, TypeOK
  <2>2. writes' \subseteq [key : CachedKeys, payload : Payloads]
    BY <1>6 DEF RecvReply, NewWrites, TypeOK
  <2>3. /\ result' \in [Calls -> Payloads \cup Errors \cup {None}]
        /\ \/ pc' = [pc EXCEPT ![m.call] = "resolved"]
           \/ pc' = [pc EXCEPT ![m.call] = "rejected"]
    BY <1>6, <2>1 DEF RecvReply, Settle, Errors, TypeOK
  <2> QED BY <1>6, <2>1, <2>2, <2>3 DEF RecvReply, Awaited, TypeOK, history
<1>7. ASSUME NEW m \in replies, DropReply(m)
      PROVE  TypeOK'
  BY <1>7 DEF DropReply, TypeOK, callVars, cacheVars, history
<1>8. ASSUME NEW m \in requests, Deliver(m)
      PROVE  TypeOK'
  BY <1>8 DEF Deliver, TypeOK, callVars, cacheVars, history
<1>9. ASSUME NEW m \in requests, LoseRequest(m)
      PROVE  TypeOK'
  BY <1>9 DEF LoseRequest, TypeOK, callVars, cacheVars, history
<1>10. ASSUME NEW r \in running, NEW v \in Payloads, Return(r, v)
       PROVE  TypeOK'
  <2>1. r.call \in Calls
    BY DEF TypeOK
  <2>2. replies' \subseteq [call : Calls, outcome : Outcomes]
    BY <1>10, <2>1 DEF Return, Respond, Outcomes, TypeOK
  <2>3. computed' \in [Keys -> SUBSET Payloads]
    BY <1>10 DEF Return, TypeOK
  <2> QED BY <1>10, <2>2, <2>3 DEF Return, TypeOK, callVars, cacheVars
<1>11. ASSUME NEW r \in running, Throw(r)
       PROVE  TypeOK'
  <2>1. r.call \in Calls
    BY DEF TypeOK
  <2>2. replies' \subseteq [call : Calls, outcome : Outcomes]
    BY <1>11, <2>1 DEF Throw, Respond, Outcomes, TypeOK
  <2> QED BY <1>11, <2>1, <2>2 DEF Throw, TypeOK, callVars, cacheVars
<1>12. ASSUME NEW r \in running, ReturnUnencodable(r)
       PROVE  TypeOK'
  <2>1. r.call \in Calls
    BY DEF TypeOK
  <2>2. replies' \subseteq [call : Calls, outcome : Outcomes]
    BY <1>12, <2>1 DEF ReturnUnencodable, Respond, Outcomes, TypeOK
  <2> QED BY <1>12, <2>1, <2>2 DEF ReturnUnencodable, TypeOK, callVars, cacheVars
<1>13. ASSUME NEW i \in Instances, Crash(i)
       PROVE  TypeOK'
  BY <1>13 DEF Crash, TypeOK, cacheVars, history, Pending
<1>14. ASSUME NEW i \in Instances, Restart(i)
       PROVE  TypeOK'
  BY <1>14 DEF Restart, TypeOK, callVars, cacheVars, history
<1>15. ASSUME NEW w \in writes, CacheStore(w)
       PROVE  TypeOK'
  BY <1>15, KeysAssumption DEF CacheStore, TypeOK, callVars, netVars, history
<1>16. ASSUME NEW k \in Keys, Evict(k)
       PROVE  TypeOK'
  BY <1>16 DEF Evict, TypeOK, callVars, netVars, history
<1>17. ASSUME Tick
       PROVE  TypeOK'
  BY <1>17 DEF Tick, TypeOK, callVars, netVars, cacheVars, history
<1>18. ASSUME UNCHANGED vars
       PROVE  TypeOK'
  BY <1>18 DEF vars, TypeOK, callVars, netVars, cacheVars, history
<1> QED
  BY <1>1, <1>2, <1>3, <1>4, <1>5, <1>6, <1>7, <1>8, <1>9, <1>10, <1>11, <1>12,
     <1>13, <1>14, <1>15, <1>16, <1>17, <1>18
  DEF Next, ClientStep, HandlerStep

LEMMA TypeInit == Init => TypeOK
BY DEF Init, TypeOK

(* Every variable keeps its type: in particular the wait for the broker    *)
(* and the deadline are never negative, though both come from subtracting  *)
(* times (Client.request).                                                 *)
THEOREM TypeCorrect == Spec => []TypeOK
<1> QED BY TypeInit, TypeStep, PTL DEF Spec

--------------------------------------------------------------------------------
(***************************************************************************)
(* Answers                                                                 *)
(***************************************************************************)

(* Messages, and the parents of calls, belong to calls that were made.     *)
Asked ==
  /\ \A m \in requests : pc[m.call] # "idle"
  /\ \A r \in running : pc[r.call] # "idle"
  /\ \A m \in replies : pc[m.call] # "idle"

(* A payload on its way to the caller was returned by a handler for what   *)
(* the caller asked.                                                       *)
HonestReplies ==
  \A m \in replies : m.outcome \in Payloads => m.outcome \in computed[key[m.call]]

AnswersInv ==
  /\ TypeOK
  /\ Asked
  /\ HonestReplies
  /\ HonestResults
  /\ CacheHoldsReturned

(* Steps that leave what AnswersInv speaks of as it is, but may take       *)
(* messages away or let a value leave the cache.                           *)
Quiet ==
  /\ UNCHANGED <<pc, key, result, computed>>
  /\ requests' \subseteq requests
  /\ \A r \in running' : pc[r.call] # "idle"
  /\ replies' \subseteq replies
  /\ writes' \subseteq writes
  /\ \A k \in Keys, v \in Payloads :
       store'[k] = v => store[k] = v \/ [key |-> k, payload |-> v] \in writes

LEMMA QuietStep ==
  ASSUME AnswersInv, TypeOK', Quiet
  PROVE  AnswersInv'
<1>1. Asked'
  BY DEF AnswersInv, Asked, Quiet
<1>2. HonestReplies'
  BY DEF AnswersInv, HonestReplies, Quiet
<1>3. HonestResults'
  BY DEF AnswersInv, HonestResults, Acceptable, Quiet
<1>4. CacheHoldsReturned'
  BY DEF AnswersInv, CacheHoldsReturned, Quiet
<1> QED BY <1>1, <1>2, <1>3, <1>4 DEF AnswersInv

LEMMA AnswersRequest ==
  ASSUME AnswersInv, TypeOK', NEW c \in Calls, NEW k \in Keys,
         NEW p, NEW h, NEW e, Request(c, k, p, h, e)
  PROVE  AnswersInv'
<1>1. /\ pc[c] = "idle"
      /\ key' = [key EXCEPT ![c] = k]
      /\ \E s \in {"rejected", "caching", "waiting"} : pc' = [pc EXCEPT ![c] = s]
      /\ \A d \in Calls \ {c} : result'[d] = result[d]
      /\ UNCHANGED <<running, store, writes, computed>>
  BY DEF Request, Settle, MakeBrokerRequest, cacheVars, history, AnswersInv, TypeOK
<1>2. \A m \in requests' \ requests : m.call = c
  BY DEF Request, MakeBrokerRequest
<1>3. \A m \in replies' \ replies : m.call = c /\ m.outcome = "NoResponders"
  BY DEF Request, MakeBrokerRequest
<1>4. Asked'
  BY <1>1, <1>2, <1>3 DEF AnswersInv, Asked, TypeOK
<1>5. HonestReplies'
  BY <1>1, <1>3, PayloadsAssumption DEF AnswersInv, Asked, HonestReplies, TypeOK, Errors
<1>6. HonestResults'
  BY <1>1 DEF AnswersInv, HonestResults, Acceptable, TypeOK
<1>7. CacheHoldsReturned'
  BY <1>1 DEF AnswersInv, CacheHoldsReturned, TypeOK
<1> QED BY <1>4, <1>5, <1>6, <1>7 DEF AnswersInv

LEMMA AnswersMissed ==
  ASSUME AnswersInv, TypeOK', NEW c \in Calls, CacheMissed(c)
  PROVE  AnswersInv'
<1>1. /\ pc[c] = "caching"
      /\ pc' = [pc EXCEPT ![c] = "waiting"]
      /\ UNCHANGED <<key, result, running, store, writes, computed>>
  BY DEF CacheMissed, MakeBrokerRequest, cacheVars, history
<1>2. \A m \in requests' \ requests : m.call = c
  BY DEF CacheMissed, MakeBrokerRequest
<1>3. \A m \in replies' \ replies : m.call = c /\ m.outcome = "NoResponders"
  BY DEF CacheMissed, MakeBrokerRequest
<1>4. Asked'
  BY <1>1, <1>2, <1>3 DEF AnswersInv, Asked, TypeOK
<1>5. HonestReplies'
  BY <1>1, <1>3, PayloadsAssumption DEF AnswersInv, HonestReplies, TypeOK, Errors
<1>6. HonestResults'
  BY <1>1 DEF AnswersInv, HonestResults, Acceptable, TypeOK
<1>7. CacheHoldsReturned'
  BY <1>1 DEF AnswersInv, CacheHoldsReturned, TypeOK
<1> QED BY <1>4, <1>5, <1>6, <1>7 DEF AnswersInv

LEMMA AnswersRecv ==
  ASSUME AnswersInv, TypeOK', NEW m \in replies, RecvReply(m)
  PROVE  AnswersInv'
<1> DEFINE c == m.call
<1>1. /\ c \in Calls /\ key[c] \in Keys /\ pc[c] = "waiting"
      /\ replies' = replies \ {m}
      /\ UNCHANGED <<key, requests, running, store, computed>>
  BY DEF RecvReply, Awaited, AnswersInv, TypeOK, history
<1>2. \/ /\ pc' = [pc EXCEPT ![c] = "rejected"]
         /\ (m.outcome \in Errors \/ ~Acceptable(key[c], m.outcome))
         /\ \A d \in Calls \ {c} : result'[d] = result[d]
      \/ /\ pc' = [pc EXCEPT ![c] = "resolved"]
         /\ m.outcome \in Payloads
         /\ Acceptable(key[c], m.outcome)
         /\ result' = [result EXCEPT ![c] = m.outcome]
  BY <1>1 DEF RecvReply, Settle, AnswersInv, TypeOK
<1>3. \A w \in writes' \ writes :
        /\ w.key = key[c] /\ w.payload = m.outcome
        /\ m.outcome \in Payloads /\ Acceptable(key[c], m.outcome)
  BY DEF RecvReply, NewWrites
<1> HIDE DEF c
<1>4. Asked'
  BY <1>1, <1>2 DEF AnswersInv, Asked, TypeOK
<1>5. HonestReplies'
  BY <1>1 DEF AnswersInv, HonestReplies
<1>6. HonestResults'
  <2>1. m.outcome \in Payloads => m.outcome \in computed[key[c]]
    BY DEF AnswersInv, HonestReplies, c
  <2> QED BY <1>1, <1>2, <2>1 DEF AnswersInv, HonestResults, Acceptable, TypeOK
<1>7. CacheHoldsReturned'
  <2> SUFFICES ASSUME NEW k \in Keys, NEW v \in Payloads,
                      store'[k] = v \/ [key |-> k, payload |-> v] \in writes'
               PROVE  \E d \in Calls : pc'[d] = "resolved" /\ key'[d] = k /\ result'[d] = v
    BY DEF CacheHoldsReturned
  <2>1. CASE store[k] = v \/ [key |-> k, payload |-> v] \in writes
    <3>1. PICK d \in Calls : pc[d] = "resolved" /\ key[d] = k /\ result[d] = v
      BY <2>1 DEF AnswersInv, CacheHoldsReturned
    <3>2. d # c
      BY <1>1, <3>1
    <3> QED BY <1>1, <1>2, <3>1, <3>2 DEF AnswersInv, TypeOK
  <2>2. CASE ~(store[k] = v \/ [key |-> k, payload |-> v] \in writes)
    <3>1. k = key[c] /\ v = m.outcome /\ m.outcome \in Payloads /\ Acceptable(key[c], m.outcome)
      BY <1>1, <1>3, <2>2
    <3> QED BY <1>1, <1>2, <3>1, PayloadsAssumption DEF AnswersInv, TypeOK
  <2> QED BY <2>1, <2>2
<1> QED BY <1>4, <1>5, <1>6, <1>7 DEF AnswersInv

LEMMA AnswersStep == AnswersInv /\ [Next]_vars => AnswersInv'
<1> SUFFICES ASSUME AnswersInv, [Next]_vars PROVE AnswersInv'
  OBVIOUS
<1> TypeOK /\ TypeOK'
  BY TypeStep DEF AnswersInv
<1>1. ASSUME NEW c \in Calls, NEW k \in Keys, RequestFromOutside(c, k)
      PROVE  AnswersInv'
  BY <1>1, AnswersRequest DEF RequestFromOutside
<1>2. ASSUME NEW c \in Calls, NEW k \in Keys, NEW r \in running,
             RequestFromHandler(c, k, r)
      PROVE  AnswersInv'
  BY <1>2, AnswersRequest DEF RequestFromHandler
<1>3. ASSUME NEW c \in Calls, CacheHit(c)
      PROVE  AnswersInv'
  <2>1. /\ pc[c] = "caching"
        /\ key[c] \in Keys
        /\ store[key[c]] \in Payloads
        /\ pc' = [pc EXCEPT ![c] = "resolved"]
        /\ result' = [result EXCEPT ![c] = store[key[c]]]
        /\ UNCHANGED <<key, requests, running, replies, store, writes, computed>>
    BY <1>3 DEF CacheHit, Settle, TypeOK, netVars, cacheVars, history
  <2>2. Asked' /\ HonestReplies'
    BY <2>1 DEF AnswersInv, Asked, HonestReplies, TypeOK
  <2>3. HonestResults'
    <3> DEFINE k == key[c]
               v == store[k]
    <3> k \in Keys /\ v \in Payloads
      BY <2>1
    <3> HIDE DEF k, v
    <3>1. PICK d \in Calls : pc[d] = "resolved" /\ key[d] = k /\ result[d] = v
      <4>1. store[k] = v
        BY DEF v
      <4> QED BY <4>1 DEF AnswersInv, CacheHoldsReturned
    <3>2. store[key[c]] \in computed[key[c]] /\ Acceptable(key[c], store[key[c]])
      BY <3>1 DEF AnswersInv, HonestResults, k, v
    <3> QED BY <2>1, <3>2 DEF AnswersInv, HonestResults, Acceptable, TypeOK
  <2>4. CacheHoldsReturned'
    <3> SUFFICES ASSUME NEW k \in Keys, NEW v \in Payloads,
                        store[k] = v \/ [key |-> k, payload |-> v] \in writes
                 PROVE  \E d \in Calls : pc'[d] = "resolved" /\ key[d] = k /\ result'[d] = v
      BY <2>1 DEF CacheHoldsReturned
    <3>1. PICK d \in Calls : pc[d] = "resolved" /\ key[d] = k /\ result[d] = v
      BY DEF AnswersInv, CacheHoldsReturned
    <3>2. pc'[d] = "resolved" /\ result'[d] = result[d]
      BY <2>1, <3>1 DEF TypeOK
    <3> QED BY <3>1, <3>2
  <2> QED BY <2>2, <2>3, <2>4 DEF AnswersInv
<1>4. ASSUME NEW c \in Calls, CacheMissed(c)
      PROVE  AnswersInv'
  BY <1>4, AnswersMissed
<1>5. ASSUME NEW c \in Calls, BrokerTimeout(c)
      PROVE  AnswersInv'
  <2>1. /\ pc[c] = "waiting"
        /\ pc' = [pc EXCEPT ![c] = "rejected"]
        /\ \A d \in Calls \ {c} : result'[d] = result[d]
        /\ UNCHANGED <<key, requests, running, replies, store, writes, computed>>
    BY <1>5 DEF BrokerTimeout, Settle, TypeOK, netVars, cacheVars, history
  <2>2. Asked' /\ HonestReplies'
    BY <2>1 DEF AnswersInv, Asked, HonestReplies, TypeOK
  <2>3. HonestResults'
    BY <2>1 DEF AnswersInv, HonestResults, Acceptable, TypeOK
  <2>4. CacheHoldsReturned'
    BY <2>1 DEF AnswersInv, CacheHoldsReturned, TypeOK
  <2> QED BY <2>2, <2>3, <2>4 DEF AnswersInv
<1>6. ASSUME NEW m \in replies, RecvReply(m)
      PROVE  AnswersInv'
  BY <1>6, AnswersRecv
<1>7. ASSUME NEW m \in replies, DropReply(m)
      PROVE  AnswersInv'
  <2>1. Quiet
    BY <1>7 DEF DropReply, Quiet, AnswersInv, Asked, callVars, cacheVars, history
  <2> QED BY <2>1, QuietStep
<1>8. ASSUME NEW m \in requests, Deliver(m)
      PROVE  AnswersInv'
  <2>1. Quiet
    BY <1>8 DEF Deliver, Quiet, AnswersInv, Asked, callVars, cacheVars, history
  <2> QED BY <2>1, QuietStep
<1>9. ASSUME NEW m \in requests, LoseRequest(m)
      PROVE  AnswersInv'
  <2>1. Quiet
    BY <1>9 DEF LoseRequest, Quiet, AnswersInv, Asked, callVars, cacheVars, history
  <2> QED BY <2>1, QuietStep
<1>10. ASSUME NEW r \in running, NEW v \in Payloads, Return(r, v)
       PROVE  AnswersInv'
  <2>1. /\ UNCHANGED <<pc, key, result, requests, store, writes>>
        /\ running' \subseteq running
        /\ replies' \subseteq replies \cup {[call |-> r.call, outcome |-> v]}
        /\ computed' = [computed EXCEPT ![key[r.call]] = @ \cup {v}]
    BY <1>10 DEF Return, Respond, callVars, cacheVars
  <2>2. r.call \in Calls /\ pc[r.call] # "idle" /\ key[r.call] \in Keys
    BY DEF AnswersInv, Asked, TypeOK
  <2>3. \A k \in Keys : computed[k] \subseteq computed'[k]
    BY <2>1 DEF TypeOK
  <2>4. v \in computed'[key[r.call]]
    BY <2>1, <2>2 DEF TypeOK
  <2>5. Asked'
    BY <2>1, <2>2 DEF AnswersInv, Asked
  <2>6. HonestReplies'
    <3>1. \A m \in replies : m.call \in Calls /\ key[m.call] \in Keys
      BY DEF AnswersInv, Asked, TypeOK
    <3> QED BY <2>1, <2>3, <2>4, <3>1 DEF AnswersInv, HonestReplies
  <2>7. HonestResults'
    BY <2>1, <2>3 DEF AnswersInv, HonestResults, Acceptable, TypeOK
  <2>8. CacheHoldsReturned'
    BY <2>1 DEF AnswersInv, CacheHoldsReturned
  <2> QED BY <2>5, <2>6, <2>7, <2>8 DEF AnswersInv
<1>11. ASSUME NEW r \in running, Throw(r) \/ ReturnUnencodable(r)
       PROVE  AnswersInv'
  <2>1. /\ UNCHANGED <<pc, key, result, requests, store, writes, computed>>
        /\ running' \subseteq running
        /\ replies' \subseteq replies \cup {[call |-> r.call, outcome |-> "ServiceError"]}
    BY <1>11 DEF Throw, ReturnUnencodable, Respond, callVars, cacheVars
  <2>2. pc[r.call] # "idle"
    BY DEF AnswersInv, Asked
  <2>3. "ServiceError" \notin Payloads
    BY PayloadsAssumption DEF Errors
  <2>4. Asked' /\ HonestReplies'
    BY <2>1, <2>2, <2>3 DEF AnswersInv, Asked, HonestReplies
  <2>5. HonestResults' /\ CacheHoldsReturned'
    BY <2>1 DEF AnswersInv, HonestResults, CacheHoldsReturned, Acceptable
  <2> QED BY <2>4, <2>5 DEF AnswersInv
<1>12. ASSUME NEW i \in Instances, Crash(i)
       PROVE  AnswersInv'
  <2>1. /\ UNCHANGED <<key, result, replies, store, writes, computed>>
        /\ requests' \subseteq requests /\ running' \subseteq running
        /\ \A c \in Calls : pc'[c] = pc[c] \/ (pc'[c] = "lost" /\ Pending(c))
    BY <1>12 DEF Crash, cacheVars, history
  <2>2. Asked' /\ HonestReplies'
    BY <2>1 DEF AnswersInv, Asked, HonestReplies, TypeOK
  <2>3. HonestResults'
    BY <2>1 DEF AnswersInv, HonestResults, Acceptable
  <2>4. CacheHoldsReturned'
    BY <2>1 DEF AnswersInv, CacheHoldsReturned, Pending
  <2> QED BY <2>2, <2>3, <2>4 DEF AnswersInv
<1>13. ASSUME NEW i \in Instances, Restart(i)
       PROVE  AnswersInv'
  <2>1. Quiet
    BY <1>13 DEF Restart, Quiet, AnswersInv, Asked, callVars, cacheVars, history
  <2> QED BY <2>1, QuietStep
<1>14. ASSUME NEW w \in writes, CacheStore(w)
       PROVE  AnswersInv'
  <2>1. \A k \in Keys, v \in Payloads :
          store'[k] = v => store[k] = v \/ [key |-> k, payload |-> v] \in writes
    BY <1>14 DEF CacheStore, TypeOK
  <2>2. Quiet
    BY <1>14, <2>1 DEF CacheStore, Quiet, AnswersInv, Asked, callVars, netVars, history
  <2> QED BY <2>2, QuietStep
<1>15. ASSUME NEW k \in Keys, Evict(k)
       PROVE  AnswersInv'
  <2>1. \A q \in Keys, v \in Payloads : store'[q] = v => store[q] = v
    BY <1>15, PayloadsAssumption DEF Evict, TypeOK
  <2>2. Quiet
    BY <1>15, <2>1 DEF Evict, Quiet, AnswersInv, Asked, callVars, netVars, history
  <2> QED BY <2>2, QuietStep
<1>16. ASSUME Tick \/ UNCHANGED vars
       PROVE  AnswersInv'
  <2>1. Quiet
    BY <1>16 DEF Tick, Quiet, AnswersInv, Asked, vars, callVars, netVars, cacheVars, history
  <2> QED BY <2>1, QuietStep
<1> QED
  BY <1>1, <1>2, <1>3, <1>4, <1>5, <1>6, <1>7, <1>8, <1>9, <1>10, <1>11, <1>12,
     <1>13, <1>14, <1>15, <1>16
  DEF Next, ClientStep, HandlerStep

LEMMA AnswersInit == Init => AnswersInv
BY TypeInit, PayloadsAssumption
DEF Init, AnswersInv, Asked, HonestReplies, HonestResults, CacheHoldsReturned

LEMMA AnswersAlways == Spec => []AnswersInv
BY AnswersInit, AnswersStep, PTL DEF Spec

(* A caller never gets a value that was not returned for what it asked,    *)
(* nor one that breaks a schema its client checks, for any number of       *)
(* callers, replicas and keys (Client.request, lines 237-260).             *)
THEOREM ResultsAreHonest == Spec => []HonestResults
<1>1. AnswersInv => HonestResults
  BY DEF AnswersInv
<1> QED BY <1>1, AnswersAlways, PTL

(* The cache never holds what no caller was given (Client.request, lines   *)
(* 254-263).                                                               *)
THEOREM CacheIsHonest == Spec => []CacheHoldsReturned
<1>1. AnswersInv => CacheHoldsReturned
  BY DEF AnswersInv
<1> QED BY <1>1, AnswersAlways, PTL

--------------------------------------------------------------------------------
(***************************************************************************)
(* Deadlines                                                               *)
(***************************************************************************)

(* A call's timer, and the wait that is still to come, end within          *)
(* CacheTimeout of its deadline, and not before it.                        *)
Alarms ==
  \A c \in Calls :
    /\ pc[c] = "idle" => expired[c] = Absent
    /\ Pending(c) => expired[c] # Absent /\ now <= alarm[c]
    /\ pc[c] = "caching" =>
         /\ alarm[c] + timeout[c] <= expired[c] + CacheTimeout
         /\ expired[c] <= now + timeout[c]
    /\ pc[c] = "waiting" =>
         /\ alarm[c] <= expired[c] + CacheTimeout
         /\ expired[c] <= alarm[c]

(* A request that went out has a deadline.                                 *)
Dated ==
  /\ \A m \in requests : expired[m.call] # Absent
  /\ \A r \in running : expired[r.call] # Absent

Parents == \A c \in Calls : parent[c] # None => pc[parent[c]] # "idle"

DeadlineInv ==
  /\ AnswersInv
  /\ Alarms
  /\ Dated
  /\ Parents
  /\ ChildDeadlineInherited

(* Steps that make no call and set no timer; calls may settle.             *)
Timeless ==
  /\ UNCHANGED <<now, key, parent, expired, timeout, alarm>>
  /\ \A m \in requests' : m \in requests
  /\ \A r \in running' : r \in running \/ \E m \in requests : r.call = m.call
  /\ \A c \in Calls :
       pc'[c] = pc[c] \/ (Pending(c) /\ pc'[c] \in {"resolved", "rejected", "lost"})

LEMMA TimelessStep ==
  ASSUME DeadlineInv, AnswersInv', Timeless
  PROVE  DeadlineInv'
<1>1. Alarms'
  BY DEF DeadlineInv, Alarms, Timeless, Pending
<1>2. Dated'
  BY DEF DeadlineInv, Dated, Timeless
<1>3. Parents'
  BY DEF DeadlineInv, AnswersInv, TypeOK, Parents, Timeless, Pending
<1>4. ChildDeadlineInherited'
  BY DEF DeadlineInv, ChildDeadlineInherited, Timeless
<1> QED BY <1>1, <1>2, <1>3, <1>4 DEF DeadlineInv

(* A new call, of call p's handler or (p = None) from outside.             *)
LEMMA DeadlineRequest ==
  ASSUME DeadlineInv, AnswersInv', NEW c \in Calls, NEW k \in Keys,
         NEW p \in Calls \cup {None}, NEW h, NEW e \in Nat,
         p # None => pc[p] # "idle" /\ e = expired[p] /\ e # Absent,
         Request(c, k, p, h, e)
  PROVE  DeadlineInv'
<1> DEFINE deadline == GetExpired(e, OwnTimeout[k], now)
<1> TypeOK /\ TypeOK'
  BY DEF DeadlineInv, AnswersInv
<1>1. deadline \in Nat
  BY KeysAssumption, GetExpiredType DEF TypeOK
<1>2. p # None /\ OwnTimeout[k] = Absent => deadline = e
  BY KeysAssumption DEF GetExpired
<1>3. /\ pc[c] = "idle"
      /\ key' = [key EXCEPT ![c] = k]
      /\ parent' = [parent EXCEPT ![c] = p]
      /\ UNCHANGED <<now, running>>
  BY DEF Request
<1>4. \/ /\ pc' = [pc EXCEPT ![c] = "rejected"]
         /\ UNCHANGED <<expired, timeout, alarm, requests>>
      \/ /\ pc' = [pc EXCEPT ![c] = "rejected"]
         /\ expired' = [expired EXCEPT ![c] = deadline]
         /\ UNCHANGED <<timeout, alarm, requests>>
      \/ /\ deadline > now
         /\ expired' = [expired EXCEPT ![c] = deadline]
         /\ timeout' = [timeout EXCEPT ![c] = deadline - now]
         /\ \/ /\ pc' = [pc EXCEPT ![c] = "caching"]
               /\ alarm' = [alarm EXCEPT ![c] = now + CacheTimeout]
               /\ UNCHANGED requests
            \/ /\ pc' = [pc EXCEPT ![c] = "waiting"]
               /\ alarm' = [alarm EXCEPT ![c] = now + (deadline - now)]
               /\ \A m \in requests' : m \in requests \/ m.call = c
  <2> HIDE DEF deadline
  <2>1. CASE k \in InvalidRequests
    BY <2>1 DEF Request, Settle
  <2>2. CASE k \notin InvalidRequests /\ NoTimeLeft(deadline)
    BY <2>2 DEF Request, Settle, deadline
  <2>3. CASE k \notin InvalidRequests /\ ~NoTimeLeft(deadline)
    <3>1. deadline > now
      BY <1>1, <2>3 DEF NoTimeLeft, TypeOK
    <3> QED BY <2>3, <3>1 DEF Request, MakeBrokerRequest, TimeLeft, deadline
  <2> QED BY <2>1, <2>2, <2>3
<1> HIDE DEF deadline
<1>5. \A d \in Calls \ {c} :
        /\ pc'[d] = pc[d] /\ key'[d] = key[d] /\ parent'[d] = parent[d]
        /\ expired'[d] = expired[d] /\ timeout'[d] = timeout[d] /\ alarm'[d] = alarm[d]
  BY <1>3, <1>4 DEF TypeOK
<1>6. Alarms'
  <2> SUFFICES ASSUME NEW d \in Calls
               PROVE  /\ pc'[d] = "idle" => expired'[d] = Absent
                      /\ Pending(d)' => expired'[d] # Absent /\ now' <= alarm'[d]
                      /\ pc'[d] = "caching" =>
                           /\ alarm'[d] + timeout'[d] <= expired'[d] + CacheTimeout
                           /\ expired'[d] <= now' + timeout'[d]
                      /\ pc'[d] = "waiting" =>
                           /\ alarm'[d] <= expired'[d] + CacheTimeout
                           /\ expired'[d] <= alarm'[d]
    BY DEF Alarms
  <2>1. CASE d # c
    BY <1>3, <1>5, <2>1 DEF DeadlineInv, Alarms, Pending
  <2>2. CASE d = c
    BY <1>1, <1>3, <1>4, <2>2, TimesAssumption DEF Pending, TypeOK
  <2> QED BY <2>1, <2>2
<1>7. Dated'
  <2>1. \A m \in requests : m.call \in Calls /\ m.call # c
    BY <1>3 DEF DeadlineInv, AnswersInv, Asked, TypeOK
  <2>2. \A r \in running : r.call \in Calls /\ r.call # c
    BY <1>3 DEF DeadlineInv, AnswersInv, Asked, TypeOK
  <2>3. \A m \in requests' : m \in requests \/ (m.call = c /\ expired'[c] # Absent)
    BY <1>1, <1>4 DEF TypeOK
  <2> QED BY <1>3, <1>5, <2>1, <2>2, <2>3 DEF DeadlineInv, Dated
<1>8. p # c
  BY <1>3, NoneAssumption
<1>9. Parents'
  BY <1>3, <1>5, <1>8, <1>4 DEF DeadlineInv, Parents, TypeOK
<1>10. ChildDeadlineInherited'
  <2> SUFFICES ASSUME NEW d \in Calls, parent'[d] # None, expired'[d] # Absent,
                      OwnTimeout[key'[d]] = Absent
               PROVE  expired'[d] = expired'[parent'[d]]
    BY DEF ChildDeadlineInherited
  <2>1. CASE d # c
    <3>1. parent[d] \in Calls /\ parent[d] # c
      BY <1>3, <1>5, <2>1 DEF DeadlineInv, Parents, TypeOK
    <3> QED BY <1>5, <2>1, <3>1 DEF DeadlineInv, ChildDeadlineInherited
  <2>2. CASE d = c
    <3>1. p \in Calls /\ p # c /\ parent'[d] = p /\ key'[d] = k
      BY <1>3, <1>8, <2>2 DEF TypeOK
    <3>2. expired'[c] = deadline
      BY <1>3, <1>4, <2>2 DEF DeadlineInv, Alarms, TypeOK
    <3> QED BY <1>2, <1>5, <2>2, <3>1, <3>2
  <2> QED BY <2>1, <2>2
<1> QED BY <1>6, <1>7, <1>9, <1>10 DEF DeadlineInv

LEMMA DeadlineMissed ==
  ASSUME DeadlineInv, AnswersInv', NEW c \in Calls, CacheMissed(c)
  PROVE  DeadlineInv'
<1> TypeOK /\ TypeOK'
  BY DEF DeadlineInv, AnswersInv
<1>1. /\ pc[c] = "caching"
      /\ pc' = [pc EXCEPT ![c] = "waiting"]
      /\ alarm' = [alarm EXCEPT ![c] = now + timeout[c]]
      /\ UNCHANGED <<now, key, parent, expired, timeout, running>>
      /\ \A m \in requests' : m \in requests \/ m.call = c
  BY DEF CacheMissed, MakeBrokerRequest
<1>2. Alarms'
  BY <1>1, TimesAssumption DEF DeadlineInv, Alarms, Pending, TypeOK
<1>3. Dated'
  BY <1>1 DEF DeadlineInv, Dated, Alarms, Pending
<1>4. Parents'
  BY <1>1 DEF DeadlineInv, Parents, TypeOK
<1>5. ChildDeadlineInherited'
  BY <1>1 DEF DeadlineInv, ChildDeadlineInherited
<1> QED BY <1>2, <1>3, <1>4, <1>5 DEF DeadlineInv

LEMMA DeadlineStep == DeadlineInv /\ [Next]_vars => DeadlineInv'
<1> SUFFICES ASSUME DeadlineInv, [Next]_vars PROVE DeadlineInv'
  OBVIOUS
<1> AnswersInv /\ AnswersInv' /\ TypeOK /\ TypeOK'
  BY AnswersStep DEF DeadlineInv, AnswersInv
<1>1. ASSUME NEW c \in Calls, NEW k \in Keys, RequestFromOutside(c, k)
      PROVE  DeadlineInv'
  BY <1>1, DeadlineRequest, TimesAssumption DEF RequestFromOutside
<1>2. ASSUME NEW c \in Calls, NEW k \in Keys, NEW r \in running,
             RequestFromHandler(c, k, r)
      PROVE  DeadlineInv'
  <2>1. /\ r.call \in Calls /\ expired[r.call] \in Nat
        /\ pc[r.call] # "idle" /\ expired[r.call] # Absent
    BY DEF TypeOK, DeadlineInv, Dated, AnswersInv, Asked
  <2> QED BY <1>2, <2>1, DeadlineRequest DEF RequestFromHandler, GetNextExpired
<1>3. ASSUME NEW c \in Calls, CacheMissed(c)
      PROVE  DeadlineInv'
  BY <1>3, DeadlineMissed
<1>4. ASSUME NEW c \in Calls, CacheHit(c) \/ BrokerTimeout(c)
      PROVE  DeadlineInv'
  <2>1. Timeless
    BY <1>4 DEF CacheHit, BrokerTimeout, Timeless, Settle, Pending, netVars, TypeOK
  <2> QED BY <2>1, TimelessStep
<1>5. ASSUME NEW m \in replies, RecvReply(m) \/ DropReply(m)
      PROVE  DeadlineInv'
  <2>1. Timeless
    BY <1>5 DEF RecvReply, DropReply, Awaited, Timeless, Settle, Pending, callVars, TypeOK
  <2> QED BY <2>1, TimelessStep
<1>6. ASSUME NEW m \in requests, Deliver(m) \/ LoseRequest(m)
      PROVE  DeadlineInv'
  <2>1. Timeless
    BY <1>6 DEF Deliver, LoseRequest, Timeless, callVars
  <2> QED BY <2>1, TimelessStep
<1>7. ASSUME NEW r \in running, HandlerStep(r)
      PROVE  DeadlineInv'
  <2>1. Timeless
    BY <1>7 DEF HandlerStep, Return, Throw, ReturnUnencodable, Timeless, callVars
  <2> QED BY <2>1, TimelessStep
<1>8. ASSUME NEW i \in Instances, Crash(i) \/ Restart(i)
      PROVE  DeadlineInv'
  <2>1. Timeless
    BY <1>8 DEF Crash, Restart, Timeless, callVars
  <2> QED BY <2>1, TimelessStep
<1>9. ASSUME (\E w \in writes : CacheStore(w)) \/ (\E k \in Keys : Evict(k))
      PROVE  DeadlineInv'
  <2>1. Timeless
    BY <1>9 DEF CacheStore, Evict, Timeless, callVars, netVars
  <2> QED BY <2>1, TimelessStep
<1>10. ASSUME Tick
       PROVE  DeadlineInv'
  <2>1. /\ UNCHANGED <<pc, key, parent, expired, timeout, alarm, requests, running>>
        /\ now' = now + 1
        /\ \A c \in Calls : Pending(c) => now < alarm[c]
    BY <1>10 DEF Tick, callVars, netVars
  <2>2. Alarms'
    BY <2>1 DEF DeadlineInv, Alarms, Pending, TypeOK
  <2>3. Dated' /\ Parents' /\ ChildDeadlineInherited'
    BY <2>1 DEF DeadlineInv, Dated, Parents, ChildDeadlineInherited
  <2> QED BY <2>2, <2>3 DEF DeadlineInv
<1>11. ASSUME UNCHANGED vars
       PROVE  DeadlineInv'
  <2>1. Timeless
    BY <1>11 DEF vars, callVars, netVars, Timeless
  <2> QED BY <2>1, TimelessStep
<1> QED
  BY <1>1, <1>2, <1>3, <1>4, <1>5, <1>6, <1>7, <1>8, <1>9, <1>10, <1>11
  DEF Next, ClientStep

LEMMA DeadlineInit == Init => DeadlineInv
BY AnswersInit
DEF Init, DeadlineInv, Alarms, Dated, Parents, ChildDeadlineInherited, Pending

LEMMA DeadlineAlways == Spec => []DeadlineInv
BY DeadlineInit, DeadlineStep, PTL DEF Spec

(* A call outlives its deadline by no more than the cache's timeout,       *)
(* whatever the times are and however deep the chain of calls              *)
(* (Client.request, lines 231-252).                                        *)
THEOREM DeadlineOverrun == Spec => []DeadlineSlack
<1>1. DeadlineInv => DeadlineSlack
  <2> SUFFICES ASSUME DeadlineInv, NEW c \in Calls, Pending(c)
               PROVE  now <= expired[c] + CacheTimeout
    BY DEF DeadlineSlack
  <2> QED BY TimesAssumption DEF DeadlineInv, AnswersInv, TypeOK, Alarms, Pending
<1> QED BY <1>1, DeadlineAlways, PTL

(* The deadline passes unchanged down a chain of calls to methods without  *)
(* a timeout of their own (Service.getNextBaggage, Root.getExpired).       *)
THEOREM DeadlineTravels == Spec => []ChildDeadlineInherited
<1>1. DeadlineInv => ChildDeadlineInherited
  BY DEF DeadlineInv
<1> QED BY <1>1, DeadlineAlways, PTL

--------------------------------------------------------------------------------
(***************************************************************************)
(* Refinement of RequestPromise                                            *)
(***************************************************************************)

Phase == [c \in Calls |-> IF Pending(c) THEN "pending" ELSE pc[c]]

(* Steps that the caller does not see.                                     *)
LEMMA PromiseStutter ==
  ASSUME UNCHANGED <<key, result, computed>>,
         \A c \in Calls : pc'[c] = pc[c] \/ (Pending(c) /\ pc'[c] = "waiting")
  PROVE  UNCHANGED Promise!promiseVars
<1>1. \A c \in Calls : Phase[c]' = Phase[c]
  BY DEF Phase, Pending
<1>2. Phase' = Phase
  BY <1>1 DEF Phase
<1> QED BY <1>2 DEF Promise!promiseVars, Phase

LEMMA PhaseSet ==
  ASSUME TypeOK, NEW c \in Calls, NEW s, pc' = [pc EXCEPT ![c] = s]
  PROVE  Phase' = [Phase EXCEPT ![c] = IF s \in {"caching", "waiting"} THEN "pending" ELSE s]
BY DEF Phase, Pending, TypeOK

LEMMA PromiseRequest ==
  ASSUME TypeOK, NEW c \in Calls, NEW k \in Keys, NEW p, NEW h, NEW e,
         Request(c, k, p, h, e)
  PROVE  Promise!Next
<1> DEFINE deadline == GetExpired(e, OwnTimeout[k], now)
<1>1. /\ pc[c] = "idle"
      /\ key' = [key EXCEPT ![c] = k]
      /\ UNCHANGED computed
  BY DEF Request, history
<1>2. \/ \E err \in Errors : Settle(c, "rejected", err)
      \/ /\ \E s \in {"caching", "waiting"} : pc' = [pc EXCEPT ![c] = s]
         /\ UNCHANGED result
  BY DEF Request, MakeBrokerRequest, Errors
<1>3. Phase[c] = "idle"
  BY <1>1 DEF Phase, Pending
<1>4. CASE \E err \in Errors : Settle(c, "rejected", err)
  <2>1. PICK err \in Errors : Settle(c, "rejected", err)
    BY <1>4
  <2>2. Phase' = [Phase EXCEPT ![c] = "rejected"] /\ result' = [result EXCEPT ![c] = err]
    BY <2>1, PhaseSet DEF Settle
  <2>3. Promise!Refuse(c, k, err)
    BY <1>1, <1>3, <2>2 DEF Promise!Refuse, Phase
  <2> QED BY <2>3 DEF Promise!Next
<1>5. CASE /\ \E s \in {"caching", "waiting"} : pc' = [pc EXCEPT ![c] = s]
           /\ UNCHANGED result
  <2>1. Phase' = [Phase EXCEPT ![c] = "pending"]
    BY <1>5, PhaseSet
  <2>2. Promise!Ask(c, k)
    BY <1>1, <1>3, <1>5, <2>1 DEF Promise!Ask, Phase
  <2> QED BY <2>2 DEF Promise!Next
<1> QED BY <1>2, <1>4, <1>5

(* A pending call settles.                                                 *)
LEMMA PromiseSettle ==
  ASSUME TypeOK, NEW c \in Calls, Pending(c), UNCHANGED <<key, computed>>,
         \/ \E err \in Errors : Settle(c, "rejected", err)
         \/ \E v \in computed[key[c]] : Settle(c, "resolved", v)
  PROVE  Promise!Next
<1>1. Phase[c] = "pending"
  BY DEF Phase
<1>2. CASE \E err \in Errors : Settle(c, "rejected", err)
  <2>1. PICK err \in Errors : Settle(c, "rejected", err)
    BY <1>2
  <2>2. Phase' = [Phase EXCEPT ![c] = "rejected"] /\ result' = [result EXCEPT ![c] = err]
    BY <2>1, PhaseSet DEF Settle
  <2>3. Promise!Reject(c, err)
    BY <1>1, <2>2 DEF Promise!Reject, Phase
  <2> QED BY <2>3 DEF Promise!Next
<1>3. CASE \E v \in computed[key[c]] : Settle(c, "resolved", v)
  <2>1. PICK v \in computed[key[c]] : Settle(c, "resolved", v)
    BY <1>3
  <2>2. Phase' = [Phase EXCEPT ![c] = "resolved"] /\ result' = [result EXCEPT ![c] = v]
    BY <2>1, PhaseSet DEF Settle
  <2>3. Promise!Resolve(c)
    BY <1>1, <2>1, <2>2 DEF Promise!Resolve, Phase
  <2> QED BY <2>3 DEF Promise!Next
<1> QED BY <1>2, <1>3

LEMMA PromiseStep ==
  AnswersInv /\ AnswersInv' /\ [Next]_vars => [Promise!Next]_(Promise!promiseVars)
<1> SUFFICES ASSUME AnswersInv, AnswersInv', [Next]_vars
             PROVE  Promise!Next \/ UNCHANGED Promise!promiseVars
  OBVIOUS
<1> TypeOK
  BY DEF AnswersInv
<1>1. ASSUME NEW c \in Calls, NEW k \in Keys,
             RequestFromOutside(c, k) \/ \E r \in running : RequestFromHandler(c, k, r)
      PROVE  Promise!Next
  BY <1>1, PromiseRequest DEF RequestFromOutside, RequestFromHandler
<1>2. ASSUME NEW c \in Calls, CacheHit(c)
      PROVE  Promise!Next
  <2>1. Pending(c) /\ Settle(c, "resolved", store[key[c]]) /\ UNCHANGED <<key, computed>>
    BY <1>2 DEF CacheHit, Pending, history
  <2>2. result'[c] = store[key[c]] /\ pc'[c] = "resolved" /\ key'[c] = key[c]
    BY <2>1 DEF Settle, TypeOK
  <2>3. store[key[c]] \in computed[key[c]]
    BY <2>1, <2>2 DEF AnswersInv, HonestResults
  <2> QED BY <2>1, <2>3, PromiseSettle
<1>3. ASSUME NEW c \in Calls, CacheMissed(c)
      PROVE  UNCHANGED Promise!promiseVars
  <2>1. /\ UNCHANGED <<key, result, computed>>
        /\ pc[c] = "caching" /\ pc' = [pc EXCEPT ![c] = "waiting"]
    BY <1>3 DEF CacheMissed, MakeBrokerRequest, history
  <2> QED BY <2>1, PromiseStutter DEF Pending, TypeOK
<1>4. ASSUME NEW c \in Calls, BrokerTimeout(c)
      PROVE  Promise!Next
  <2>1. Pending(c) /\ Settle(c, "rejected", "BrokerTimeout") /\ UNCHANGED <<key, computed>>
    BY <1>4 DEF BrokerTimeout, Pending, history
  <2> QED BY <2>1, PromiseSettle DEF Errors
<1>5. ASSUME NEW m \in replies, RecvReply(m)
      PROVE  Promise!Next
  <2>1. /\ m.call \in Calls /\ Pending(m.call)
        /\ UNCHANGED <<key, computed>>
    BY <1>5 DEF RecvReply, Awaited, Pending, history, TypeOK
  <2>2. \/ \E err \in Errors : Settle(m.call, "rejected", err)
        \/ \E v \in computed[key[m.call]] : Settle(m.call, "resolved", v)
    BY <1>5 DEF RecvReply, Errors, AnswersInv, HonestReplies
  <2> QED BY <2>1, <2>2, PromiseSettle
<1>6. ASSUME NEW r \in running, NEW v \in Payloads, Return(r, v)
      PROVE  Promise!Next
  <2>1. /\ key[r.call] \in Keys
        /\ UNCHANGED <<pc, key, result>>
        /\ computed' = [computed EXCEPT ![key[r.call]] = @ \cup {v}]
    BY <1>6 DEF Return, callVars, AnswersInv, Asked, TypeOK
  <2>2. Phase' = Phase
    BY <2>1 DEF Phase, Pending
  <2>3. Promise!Compute(key[r.call], v)
    BY <2>1, <2>2 DEF Promise!Compute, Phase
  <2> QED BY <2>1, <2>3 DEF Promise!Next
<1>7. ASSUME NEW i \in Instances, Crash(i)
      PROVE  Promise!Next
  <2>1. PICK S \in SUBSET Calls : S = {c \in Calls : Pending(c) /\ home[c] = i}
    OBVIOUS
  <2>2. /\ UNCHANGED <<key, result, computed>>
        /\ pc' = [c \in Calls |-> IF c \in S THEN "lost" ELSE pc[c]]
    BY <1>7, <2>1 DEF Crash, history
  <2>3. Phase' = [c \in Calls |-> IF c \in S THEN "lost" ELSE Phase[c]]
    BY <2>1, <2>2 DEF Phase, Pending
  <2>4. \A c \in S : Phase[c] = "pending"
    BY <2>1 DEF Phase
  <2>5. Promise!Lose(S)
    BY <2>2, <2>3, <2>4 DEF Promise!Lose, Phase
  <2> QED BY <2>5 DEF Promise!Next
<1>8. ASSUME UNCHANGED <<pc, key, result, computed>>
      PROVE  UNCHANGED Promise!promiseVars
  BY <1>8, PromiseStutter
<1>9. ASSUME NEW r \in running, Throw(r) \/ ReturnUnencodable(r)
      PROVE  UNCHANGED <<pc, key, result, computed>>
  BY <1>9 DEF Throw, ReturnUnencodable, callVars
<1>10. ASSUME \/ \E m \in replies : DropReply(m)
              \/ \E m \in requests : Deliver(m) \/ LoseRequest(m)
              \/ \E i \in Instances : Restart(i)
              \/ \E w \in writes : CacheStore(w)
              \/ \E k \in Keys : Evict(k)
              \/ Tick
              \/ UNCHANGED vars
       PROVE  UNCHANGED <<pc, key, result, computed>>
  BY <1>10 DEF DropReply, Deliver, LoseRequest, Restart, CacheStore, Evict, Tick,
               vars, callVars, history
<1> QED
  BY <1>1, <1>2, <1>3, <1>4, <1>5, <1>6, <1>7, <1>8, <1>9, <1>10
  DEF Next, ClientStep, HandlerStep

LEMMA PromiseInit == Init => Promise!Init
BY DEF Init, Promise!Init, Pending

(* What the client, the cache, the broker and the replicas do together is  *)
(* what RequestPromise promises: a call is asked once, settles at most     *)
(* once, and is answered only with a value computed for what it asked      *)
(* (Client.request, Service.start, Service.handled).                       *)
THEOREM KeepsPromise == Spec => Promise!Safety
<1> QED BY PromiseInit, PromiseStep, AnswersAlways, PTL DEF Spec, Promise!Safety

--------------------------------------------------------------------------------
(***************************************************************************)
(* Errors and races                                                        *)
(***************************************************************************)

(* An error on its way to the caller was caused by its handler; in race    *)
(* mode nothing false, and no error that a handler threw, is on its way.   *)
HonestFailures ==
  \A m \in replies :
    /\ m.outcome = "ServiceError" => \E f \in failed : f.call = m.call
    /\ key[m.call] \in RaceKeys =>
         /\ m.outcome \notin Falsy
         /\ m.outcome = "ServiceError" =>
              [call |-> m.call, how |-> "unencodable"] \in failed

FailuresInv ==
  /\ DeadlineInv
  /\ HonestFailures
  /\ HonestErrors
  /\ RaceAnswer

(* Steps in which no call settles and no answer is sent.                   *)
Uneventful ==
  /\ UNCHANGED <<key, result, expired>>
  /\ replies' \subseteq replies
  /\ now' >= now
  /\ failed \subseteq failed'
  /\ \A k \in Keys : computed[k] \subseteq computed'[k]
  /\ \A c \in Calls : pc'[c] = pc[c] \/ pc'[c] = "lost"

LEMMA UneventfulStep ==
  ASSUME FailuresInv, DeadlineInv', Uneventful
  PROVE  FailuresInv'
<1> TypeOK /\ TypeOK'
  BY DEF FailuresInv, DeadlineInv, AnswersInv
<1>1. HonestFailures'
  BY DEF FailuresInv, HonestFailures, Uneventful
<1>2. HonestErrors'
  <2> SUFFICES ASSUME NEW c \in Calls, pc'[c] = "rejected"
               PROVE  /\ result'[c] = "ServiceError" => \E f \in failed' : f.call = c
                      /\ result'[c] \in {"BrokerTimeout", "Deadline"} => now' >= expired'[c]
                      /\ result'[c] = "InvalidResponse" =>
                           computed'[key'[c]] \cap Malformed # {}
    BY DEF HonestErrors
  <2>1. pc[c] = "rejected" /\ key[c] \in Keys
    BY DEF Uneventful, TypeOK
  <2> QED BY <2>1 DEF FailuresInv, HonestErrors, Uneventful, TypeOK
<1>3. RaceAnswer'
  BY DEF FailuresInv, RaceAnswer, Uneventful
<1> QED BY <1>1, <1>2, <1>3 DEF FailuresInv

(* One call c moves; answers sent to it are those of a broker with nobody  *)
(* to ask.                                                                 *)
OneCall(c) ==
  /\ \A d \in Calls \ {c} :
       /\ pc'[d] = pc[d] /\ key'[d] = key[d]
       /\ result'[d] = result[d] /\ expired'[d] = expired[d]
  /\ \A m \in replies' : \/ m \in replies /\ key'[m.call] = key[m.call]
                         \/ m.outcome = "NoResponders"
  /\ UNCHANGED <<now, failed, computed>>

LEMMA OneCallStep ==
  ASSUME FailuresInv, DeadlineInv', NEW c \in Calls, OneCall(c),
         pc'[c] = "rejected" =>
           /\ result'[c] = "ServiceError" => \E f \in failed : f.call = c
           /\ result'[c] \in {"BrokerTimeout", "Deadline"} => now >= expired'[c]
           /\ result'[c] = "InvalidResponse" =>
                computed[key'[c]] \cap Malformed # {},
         key'[c] \in RaceKeys =>
           /\ pc'[c] = "resolved" => result'[c] \notin Falsy
           /\ pc'[c] = "rejected" /\ result'[c] = "ServiceError" =>
                [call |-> c, how |-> "unencodable"] \in failed
  PROVE  FailuresInv'
<1>1. "NoResponders" \notin Falsy
  BY PayloadsAssumption DEF Errors
<1>2. HonestFailures'
  BY <1>1 DEF FailuresInv, HonestFailures, OneCall
<1>3. HonestErrors'
  BY DEF FailuresInv, HonestErrors, OneCall
<1>4. RaceAnswer'
  BY DEF FailuresInv, RaceAnswer, OneCall
<1> QED BY <1>2, <1>3, <1>4 DEF FailuresInv

LEMMA FailuresRequest ==
  ASSUME FailuresInv, DeadlineInv', NEW c \in Calls, NEW k \in Keys,
         NEW p, NEW h, NEW e \in Nat, Request(c, k, p, h, e)
  PROVE  FailuresInv'
<1> DEFINE deadline == GetExpired(e, OwnTimeout[k], now)
<1> TypeOK /\ TypeOK'
  BY DEF FailuresInv, DeadlineInv, AnswersInv
<1>1. deadline \in Nat
  BY KeysAssumption, GetExpiredType DEF TypeOK
<1>2. /\ pc[c] = "idle"
      /\ key' = [key EXCEPT ![c] = k]
      /\ UNCHANGED <<now, failed, computed>>
  BY DEF Request, history
<1>3. \/ /\ pc' = [pc EXCEPT ![c] = "rejected"]
         /\ result' = [result EXCEPT ![c] = "InvalidRequest"]
         /\ UNCHANGED <<expired, replies>>
      \/ /\ pc' = [pc EXCEPT ![c] = "rejected"]
         /\ result' = [result EXCEPT ![c] = "Deadline"]
         /\ expired' = [expired EXCEPT ![c] = deadline] /\ deadline <= now
         /\ UNCHANGED replies
      \/ /\ \E s \in {"caching", "waiting"} : pc' = [pc EXCEPT ![c] = s]
         /\ expired' = [expired EXCEPT ![c] = deadline]
         /\ UNCHANGED result
         /\ \A m \in replies' : m \in replies \/ m.outcome = "NoResponders"
  BY DEF Request, Settle, MakeBrokerRequest, NoTimeLeft
<1> HIDE DEF deadline
<1>4. \A m \in replies : m.call \in Calls /\ m.call # c
  BY <1>2 DEF FailuresInv, DeadlineInv, AnswersInv, Asked, TypeOK
<1>5. OneCall(c)
  BY <1>2, <1>3, <1>4 DEF OneCall, TypeOK
<1>6. /\ pc'[c] \in {"rejected", "caching", "waiting"}
      /\ pc'[c] = "rejected" => \/ result'[c] = "InvalidRequest"
                                \/ result'[c] = "Deadline" /\ now >= expired'[c]
  BY <1>1, <1>3 DEF TypeOK
<1> QED BY <1>2, <1>5, <1>6, OneCallStep

LEMMA FailuresRecv ==
  ASSUME FailuresInv, DeadlineInv', NEW m \in replies, RecvReply(m)
  PROVE  FailuresInv'
<1> DEFINE c == m.call
<1> TypeOK /\ TypeOK'
  BY DEF FailuresInv, DeadlineInv, AnswersInv
<1>1. /\ c \in Calls /\ key[c] \in Keys
      /\ UNCHANGED <<now, key, expired, failed, computed>>
      /\ replies' \subseteq replies
  BY DEF RecvReply, Awaited, TypeOK, history
<1>2. \/ /\ m.outcome \in Errors
         /\ Settle(c, "rejected", m.outcome)
      \/ /\ m.outcome \in Payloads \cap Malformed
         /\ Settle(c, "rejected", "InvalidResponse")
      \/ /\ m.outcome \in Payloads
         /\ Settle(c, "resolved", m.outcome)
  BY DEF RecvReply, Acceptable
<1>3. OneCall(c)
  BY <1>1, <1>2 DEF OneCall, Settle, TypeOK
<1>4. ASSUME pc'[c] = "rejected"
      PROVE  /\ result'[c] = "ServiceError" => \E f \in failed : f.call = c
             /\ result'[c] \in {"BrokerTimeout", "Deadline"} => now >= expired'[c]
             /\ result'[c] = "InvalidResponse" =>
                  computed[key'[c]] \cap Malformed # {}
             /\ key'[c] \in RaceKeys /\ result'[c] = "ServiceError" =>
                  [call |-> c, how |-> "unencodable"] \in failed
  <2>1. m.outcome \in Payloads \cup {"ServiceError", "NoResponders"}
    BY DEF TypeOK, Outcomes
  <2>2. CASE m.outcome \in Errors /\ result'[c] = m.outcome
    <3>1. m.outcome \in {"ServiceError", "NoResponders"}
      BY <2>1, <2>2, PayloadsAssumption
    <3> QED BY <1>1, <2>2, <3>1 DEF FailuresInv, HonestFailures
  <2>3. CASE m.outcome \in Payloads \cap Malformed /\ result'[c] = "InvalidResponse"
    <3>1. m.outcome \in computed[key[c]]
      BY <2>3 DEF FailuresInv, DeadlineInv, AnswersInv, HonestReplies
    <3> QED BY <1>1, <2>3, <3>1
  <2> QED BY <1>1, <1>2, <1>4, <2>2, <2>3 DEF Settle, TypeOK
<1>5. ASSUME key'[c] \in RaceKeys, pc'[c] = "resolved"
      PROVE  result'[c] \notin Falsy
  BY <1>1, <1>2, <1>5 DEF Settle, TypeOK, FailuresInv, HonestFailures
<1> HIDE DEF c
<1> QED BY <1>1, <1>3, <1>4, <1>5, OneCallStep

LEMMA FailuresStep == FailuresInv /\ [Next]_vars => FailuresInv'
<1> SUFFICES ASSUME FailuresInv, [Next]_vars PROVE FailuresInv'
  OBVIOUS
<1> DeadlineInv /\ DeadlineInv' /\ TypeOK /\ TypeOK'
  BY DeadlineStep DEF FailuresInv, DeadlineInv, AnswersInv
<1>1. ASSUME NEW c \in Calls, NEW k \in Keys, RequestFromOutside(c, k)
      PROVE  FailuresInv'
  BY <1>1, FailuresRequest, TimesAssumption DEF RequestFromOutside
<1>2. ASSUME NEW c \in Calls, NEW k \in Keys, NEW r \in running,
             RequestFromHandler(c, k, r)
      PROVE  FailuresInv'
  <2>1. expired[r.call] \in Nat
    BY DEF TypeOK
  <2> QED BY <1>2, <2>1, FailuresRequest DEF RequestFromHandler, GetNextExpired
<1>3. ASSUME NEW c \in Calls, CacheHit(c)
      PROVE  FailuresInv'
  <2> DEFINE k == key[c]
             v == store[k]
  <2>1. k \in Keys /\ v \in Payloads
    BY <1>3 DEF CacheHit, TypeOK
  <2>2. OneCall(c) /\ key'[c] = k /\ pc'[c] = "resolved" /\ result'[c] = v
    BY <1>3 DEF CacheHit, OneCall, Settle, netVars, history, TypeOK
  <2> HIDE DEF k, v
  <2>3. PICK d \in Calls : pc[d] = "resolved" /\ key[d] = k /\ result[d] = v
    <3>1. store[k] = v
      BY DEF v
    <3>2. CacheHoldsReturned
      BY DEF DeadlineInv, AnswersInv
    <3> QED BY <2>1, <3>1, <3>2 DEF CacheHoldsReturned
  <2>4. k \in RaceKeys => v \notin Falsy
    BY <2>3 DEF FailuresInv, RaceAnswer
  <2> QED BY <2>2, <2>4, OneCallStep
<1>4. ASSUME NEW c \in Calls, CacheMissed(c)
      PROVE  FailuresInv'
  <2>1. OneCall(c) /\ pc'[c] = "waiting"
    BY <1>4 DEF CacheMissed, MakeBrokerRequest, OneCall, history, TypeOK
  <2> QED BY <2>1, OneCallStep
<1>5. ASSUME NEW c \in Calls, BrokerTimeout(c)
      PROVE  FailuresInv'
  <2>1. /\ OneCall(c) /\ pc'[c] = "rejected" /\ result'[c] = "BrokerTimeout"
        /\ now >= alarm[c] /\ pc[c] = "waiting" /\ expired'[c] = expired[c]
    BY <1>5 DEF BrokerTimeout, OneCall, Settle, netVars, history, TypeOK
  <2>2. now >= expired[c]
    BY <2>1 DEF DeadlineInv, Alarms, TypeOK
  <2> QED BY <2>1, <2>2, OneCallStep
<1>6. ASSUME NEW m \in replies, RecvReply(m)
      PROVE  FailuresInv'
  BY <1>6, FailuresRecv
<1>7. ASSUME NEW r \in running, HandlerStep(r)
      PROVE  FailuresInv'
  <2>1. /\ UNCHANGED <<pc, key, result, expired, now>>
        /\ failed \subseteq failed'
        /\ \A k \in Keys : computed[k] \subseteq computed'[k]
    BY <1>7 DEF HandlerStep, Return, Throw, ReturnUnencodable, callVars, TypeOK
  <2>2. \A m \in replies' : m \in replies \/
          (/\ m.call = r.call
           /\ m.outcome = "ServiceError" => \E f \in failed' : f.call = r.call
           /\ key[r.call] \in RaceKeys =>
                /\ m.outcome \notin Falsy
                /\ m.outcome = "ServiceError" =>
                     [call |-> r.call, how |-> "unencodable"] \in failed')
    <3>1. "ServiceError" \notin Payloads /\ Falsy \subseteq Payloads
      BY PayloadsAssumption DEF Errors
    <3>2. CASE \E v \in Payloads : Return(r, v)
      BY <3>1, <3>2 DEF Return, Answered, Respond
    <3>3. CASE Throw(r)
      BY <3>1, <3>3 DEF Throw, Respond
    <3>4. CASE ReturnUnencodable(r)
      <4>1. [call |-> r.call, how |-> "unencodable"] \in failed'
        BY <3>4 DEF ReturnUnencodable
      <4>2. \E f \in failed' : f.call = r.call
        BY <4>1
      <4>3. replies' = replies \cup {[call |-> r.call, outcome |-> "ServiceError"]}
        BY <3>4 DEF ReturnUnencodable, Respond
      <4> QED BY <3>1, <4>1, <4>2, <4>3
    <3> QED BY <1>7, <3>2, <3>3, <3>4 DEF HandlerStep
  <2>3. HonestFailures'
    BY <2>1, <2>2 DEF FailuresInv, HonestFailures
  <2>4. HonestErrors'
    BY <2>1 DEF FailuresInv, HonestErrors, TypeOK
  <2>5. RaceAnswer'
    BY <2>1 DEF FailuresInv, RaceAnswer
  <2> QED BY <2>3, <2>4, <2>5 DEF FailuresInv
<1>8. ASSUME \/ \E m \in replies : DropReply(m)
             \/ \E m \in requests : Deliver(m) \/ LoseRequest(m)
             \/ \E i \in Instances : Crash(i) \/ Restart(i)
             \/ \E w \in writes : CacheStore(w)
             \/ \E k \in Keys : Evict(k)
             \/ Tick
             \/ UNCHANGED vars
      PROVE  FailuresInv'
  <2>1. Uneventful
    BY <1>8 DEF DropReply, Deliver, LoseRequest, Crash, Restart, CacheStore, Evict, Tick,
                vars, callVars, netVars, history, Uneventful, TypeOK
  <2> QED BY <2>1, UneventfulStep
<1> QED
  BY <1>1, <1>2, <1>3, <1>4, <1>5, <1>6, <1>7, <1>8 DEF Next, ClientStep

LEMMA FailuresInit == Init => FailuresInv
BY DeadlineInit
DEF Init, FailuresInv, HonestFailures, HonestErrors, RaceAnswer

LEMMA FailuresAlways == Spec => []FailuresInv
BY FailuresInit, FailuresStep, PTL DEF Spec

(* A call is told of an error only if a handler of it failed, of a timeout *)
(* only when its deadline has passed, and of a refused response only if a  *)
(* handler returned one (Client.request, Client.makeBrokerRequest).        *)
THEOREM ErrorsAreHonest == Spec => []HonestErrors
<1>1. FailuresInv => HonestErrors
  BY DEF FailuresInv
<1> QED BY <1>1, FailuresAlways, PTL

(* In race mode neither a false value nor the error of a handler that      *)
(* threw reaches the caller, for any number of racing replicas             *)
(* (Service.start, line 574).                                              *)
THEOREM RacesAreWon == Spec => []RaceAnswer
<1>1. FailuresInv => RaceAnswer
  BY DEF FailuresInv
<1> QED BY <1>1, FailuresAlways, PTL

--------------------------------------------------------------------------------
(***************************************************************************)
(* One replica at a time                                                   *)
(***************************************************************************)

(* Before a call's request goes out, no message is about the call.         *)
Unsent(c) == pc[c] \in {"idle", "caching"}

SentOnce ==
  /\ \A m \in requests : ~Unsent(m.call)
  /\ \A r \in running : ~Unsent(r.call)
  /\ \A m \in replies : ~Unsent(m.call)

(* SingleHandling, said of the messages.                                   *)
Alone ==
  /\ \A m, n \in requests : m.call = n.call /\ key[m.call] \notin RaceKeys => m = n
  /\ \A r, q \in running : r.call = q.call /\ key[r.call] \notin RaceKeys => r = q
  /\ \A m, n \in replies : m.call = n.call /\ key[m.call] \notin RaceKeys => m = n
  /\ \A m \in requests, r \in running : m.call = r.call => key[m.call] \in RaceKeys
  /\ \A m \in requests, n \in replies : m.call = n.call => key[m.call] \in RaceKeys
  /\ \A r \in running, n \in replies : r.call = n.call => key[r.call] \in RaceKeys

HandlingInv ==
  /\ TypeOK
  /\ SentOnce
  /\ Alone

LEMMA AloneIsSingle == Alone => SingleHandling
<1> SUFFICES ASSUME Alone, NEW c \in Calls, key[c] \notin RaceKeys,
                    NEW x \in Places(c), NEW y \in Places(c)
             PROVE  x = y
  BY DEF SingleHandling
<1>1. \/ \E m \in requests : m.call = c /\ x = <<"asked", m.to>>
      \/ \E r \in running : r.call = c /\ x = <<"handled", r.at>>
      \/ \E m \in replies : m.call = c /\ x = <<"answered", m.outcome>>
  BY DEF Places
<1>2. \/ \E m \in requests : m.call = c /\ y = <<"asked", m.to>>
      \/ \E r \in running : r.call = c /\ y = <<"handled", r.at>>
      \/ \E m \in replies : m.call = c /\ y = <<"answered", m.outcome>>
  BY DEF Places
<1> QED BY <1>1, <1>2 DEF Alone

(* Steps that send nothing and in which a message moves on at most to      *)
(* disappear.                                                              *)
Fewer ==
  /\ UNCHANGED key
  /\ \A c \in Calls : Unsent(c)' => Unsent(c)
  /\ requests' \subseteq requests
  /\ running' \subseteq running
  /\ replies' \subseteq replies

LEMMA FewerStep ==
  ASSUME HandlingInv, TypeOK', Fewer
  PROVE  HandlingInv'
<1>1. SentOnce'
  BY DEF HandlingInv, SentOnce, Fewer, TypeOK
<1>2. Alone'
  BY DEF HandlingInv, Alone, Fewer
<1> QED BY <1>1, <1>2 DEF HandlingInv

(* The request of call c goes out.                                         *)
LEMMA SendStep ==
  ASSUME HandlingInv, TypeOK', NEW c \in Calls, NEW k \in Keys, NEW wait,
         Unsent(c), MakeBrokerRequest(c, k, wait),
         key' = [key EXCEPT ![c] = k], UNCHANGED running
  PROVE  HandlingInv'
<1> TypeOK
  BY DEF HandlingInv
<1>1. /\ \A m \in requests : m.call \in Calls \ {c}
      /\ \A r \in running : r.call \in Calls \ {c}
      /\ \A m \in replies : m.call \in Calls \ {c}
  BY DEF HandlingInv, SentOnce, TypeOK
<1>2. pc' = [pc EXCEPT ![c] = "waiting"]
  BY DEF MakeBrokerRequest
<1>3. \A d \in Calls \ {c} : key'[d] = key[d] /\ (Unsent(d)' <=> Unsent(d))
  BY <1>2 DEF Unsent, TypeOK
<1>4. ~Unsent(c)' /\ key'[c] = k
  BY <1>2 DEF Unsent, TypeOK
<1>5. CASE up = {}
  <2>1. /\ UNCHANGED requests
        /\ replies' = replies \cup {[call |-> c, outcome |-> "NoResponders"]}
    BY <1>5 DEF MakeBrokerRequest
  <2>2. SentOnce'
    BY <1>1, <1>3, <1>4, <2>1 DEF HandlingInv, SentOnce
  <2>3. Alone'
    BY <1>1, <1>3, <2>1 DEF HandlingInv, Alone
  <2> QED BY <2>2, <2>3 DEF HandlingInv
<1>6. CASE up # {}
  <2>1. PICK to \in Targets(k) :
          requests' = requests \cup {[to |-> i, call |-> c] : i \in to}
    BY <1>6 DEF MakeBrokerRequest
  <2>2. UNCHANGED replies
    BY <1>6 DEF MakeBrokerRequest
  <2>3. \A m \in requests' : m \in requests \/ (m.call = c /\ \E i \in to : m = [to |-> i, call |-> c])
    BY <2>1
  <2>4. k \notin RaceKeys => \E i \in up : to = {i}
    BY DEF Targets
  <2>5. \A m, n \in requests' : m.call = c /\ n.call = c /\ k \notin RaceKeys => m = n
    BY <1>1, <2>3, <2>4
  <2>6. SentOnce'
    BY <1>1, <1>3, <1>4, <2>2, <2>3 DEF HandlingInv, SentOnce
  <2>7. Alone'
    BY <1>1, <1>3, <1>4, <2>2, <2>3, <2>5 DEF HandlingInv, Alone
  <2> QED BY <2>6, <2>7 DEF HandlingInv
<1> QED BY <1>5, <1>6

LEMMA HandlingRequest ==
  ASSUME HandlingInv, TypeOK', NEW c \in Calls, NEW k \in Keys,
         NEW p, NEW h, NEW e, Request(c, k, p, h, e)
  PROVE  HandlingInv'
<1> DEFINE deadline == GetExpired(e, OwnTimeout[k], now)
<1> TypeOK
  BY DEF HandlingInv
<1>1. pc[c] = "idle" /\ key' = [key EXCEPT ![c] = k] /\ UNCHANGED running
  BY DEF Request
<1>2. \/ MakeBrokerRequest(c, k, TimeLeft(deadline))
      \/ /\ \E s \in {"rejected", "caching"} : pc' = [pc EXCEPT ![c] = s]
         /\ UNCHANGED <<requests, replies>>
  <2>1. CASE k \in InvalidRequests
    BY <2>1 DEF Request, Settle
  <2>2. CASE k \notin InvalidRequests /\ NoTimeLeft(deadline)
    BY <2>2 DEF Request, Settle
  <2>3. CASE k \notin InvalidRequests /\ ~NoTimeLeft(deadline)
    BY <2>3 DEF Request
  <2> QED BY <2>1, <2>2, <2>3
<1>3. CASE MakeBrokerRequest(c, k, TimeLeft(deadline))
  <2>1. PICK wait : wait = TimeLeft(deadline)
    OBVIOUS
  <2>2. MakeBrokerRequest(c, k, wait)
    BY <1>3, <2>1 DEF MakeBrokerRequest
  <2>3. Unsent(c)
    BY <1>1 DEF Unsent
  <2> QED BY <1>1, <2>2, <2>3, SendStep
<1>4. CASE /\ \E s \in {"rejected", "caching"} : pc' = [pc EXCEPT ![c] = s]
           /\ UNCHANGED <<requests, replies>>
  <2>1. /\ \A m \in requests : m.call \in Calls \ {c}
        /\ \A r \in running : r.call \in Calls \ {c}
        /\ \A m \in replies : m.call \in Calls \ {c}
    BY <1>1 DEF HandlingInv, SentOnce, Unsent, TypeOK
  <2>2. \A d \in Calls \ {c} : key'[d] = key[d] /\ (Unsent(d)' <=> Unsent(d))
    BY <1>1, <1>4 DEF Unsent, TypeOK
  <2>3. SentOnce' /\ Alone'
    BY <1>1, <1>4, <2>1, <2>2 DEF HandlingInv, SentOnce, Alone
  <2> QED BY <2>3 DEF HandlingInv
<1> QED BY <1>2, <1>3, <1>4

LEMMA HandlingStep == HandlingInv /\ [Next]_vars => HandlingInv'
<1> SUFFICES ASSUME HandlingInv, [Next]_vars PROVE HandlingInv'
  OBVIOUS
<1> TypeOK /\ TypeOK'
  BY TypeStep DEF HandlingInv
<1>1. ASSUME NEW c \in Calls, NEW k \in Keys,
             RequestFromOutside(c, k) \/ \E r \in running : RequestFromHandler(c, k, r)
      PROVE  HandlingInv'
  BY <1>1, HandlingRequest DEF RequestFromOutside, RequestFromHandler
<1>2. ASSUME NEW c \in Calls, CacheMissed(c)
      PROVE  HandlingInv'
  <2>1. PICK k \in Keys, wait \in Nat : k = key[c] /\ wait = timeout[c]
    BY <1>2 DEF CacheMissed, TypeOK
  <2>2. key' = [key EXCEPT ![c] = k]
    BY <1>2, <2>1 DEF CacheMissed, TypeOK
  <2>3. MakeBrokerRequest(c, k, wait)
    BY <1>2, <2>1 DEF CacheMissed, MakeBrokerRequest
  <2>4. Unsent(c) /\ UNCHANGED running
    BY <1>2 DEF CacheMissed, Unsent
  <2> QED BY <2>2, <2>3, <2>4, SendStep
<1>3. ASSUME NEW m \in requests, Deliver(m)
      PROVE  HandlingInv'
  <2>1. /\ UNCHANGED <<pc, key, replies>>
        /\ requests' = requests \ {m}
        /\ running' = running \cup {[at |-> m.to, call |-> m.call]}
    BY <1>3 DEF Deliver, callVars
  <2>2. SentOnce'
    BY <2>1 DEF HandlingInv, SentOnce, Unsent
  <2>3. Alone'
    BY <2>1 DEF HandlingInv, Alone
  <2> QED BY <2>2, <2>3 DEF HandlingInv
<1>4. ASSUME NEW r \in running, HandlerStep(r)
      PROVE  HandlingInv'
  <2>1. /\ UNCHANGED <<pc, key, requests>>
        /\ running' = running \ {r}
        /\ \/ UNCHANGED replies
           \/ \E out : replies' = replies \cup {[call |-> r.call, outcome |-> out]}
    BY <1>4 DEF HandlerStep, Return, Throw, ReturnUnencodable, Respond, callVars
  <2>2. SentOnce'
    BY <2>1 DEF HandlingInv, SentOnce, Unsent
  <2>3. Alone'
    BY <2>1 DEF HandlingInv, Alone
  <2> QED BY <2>2, <2>3 DEF HandlingInv
<1>5. ASSUME \/ \E c \in Calls : CacheHit(c) \/ BrokerTimeout(c)
             \/ \E m \in replies : RecvReply(m) \/ DropReply(m)
             \/ \E m \in requests : LoseRequest(m)
             \/ \E i \in Instances : Crash(i) \/ Restart(i)
             \/ \E w \in writes : CacheStore(w)
             \/ \E k \in Keys : Evict(k)
             \/ Tick
             \/ UNCHANGED vars
      PROVE  HandlingInv'
  <2>1. Fewer
    BY <1>5 DEF CacheHit, BrokerTimeout, RecvReply, DropReply, LoseRequest, Crash, Restart,
                CacheStore, Evict, Tick, vars, callVars, netVars, Settle, Fewer, Unsent, TypeOK
  <2> QED BY <2>1, FewerStep
<1> QED
  BY <1>1, <1>2, <1>3, <1>4, <1>5 DEF Next, ClientStep

LEMMA HandlingInit == Init => HandlingInv
BY TypeInit DEF Init, HandlingInv, SentOnce, Alone

(* A request to a method that is not in race mode never reaches two        *)
(* replicas, and is answered at most once, through any crashes, restarts   *)
(* and losses (Service.start, lines 562-566).                              *)
THEOREM OneReplicaAtATime == Spec => []SingleHandling
<1>1. HandlingInv => SingleHandling
  BY AloneIsSingle DEF HandlingInv
<1> QED BY <1>1, HandlingInit, HandlingStep, PTL DEF Spec

================================================================================

----------------------------- MODULE RequestPromise -----------------------------
(***************************************************************************)
(* What a call promises its caller, with nothing said of brokers, replicas,*)
(* caches or clocks: it is asked once, it settles once and for ever, and   *)
(* if it is answered, then with a value that the service computed for what *)
(* was asked, at some time.                                                *)
(***************************************************************************)
EXTENDS Naturals

CONSTANTS Calls, Keys, Payloads, Errors, None

VARIABLES
  phase,     \* "idle", "pending", "resolved", "rejected" or "lost"
  asked,     \* what each call asks for
  answer,    \* what its caller got
  computed   \* the values the service computed for each key

promiseVars == <<phase, asked, answer, computed>>

Init ==
  /\ phase = [c \in Calls |-> "idle"]
  /\ asked = [c \in Calls |-> None]
  /\ answer = [c \in Calls |-> None]
  /\ computed = [k \in Keys |-> {}]

Ask(c, k) ==
  /\ phase[c] = "idle"
  /\ phase' = [phase EXCEPT ![c] = "pending"]
  /\ asked' = [asked EXCEPT ![c] = k]
  /\ UNCHANGED <<answer, computed>>

(* The call is refused on the spot.                                        *)
Refuse(c, k, err) ==
  /\ phase[c] = "idle"
  /\ phase' = [phase EXCEPT ![c] = "rejected"]
  /\ asked' = [asked EXCEPT ![c] = k]
  /\ answer' = [answer EXCEPT ![c] = err]
  /\ UNCHANGED computed

Compute(k, v) ==
  /\ computed' = [computed EXCEPT ![k] = @ \cup {v}]
  /\ UNCHANGED <<phase, asked, answer>>

Resolve(c) ==
  /\ phase[c] = "pending"
  /\ \E v \in computed[asked[c]] : answer' = [answer EXCEPT ![c] = v]
  /\ phase' = [phase EXCEPT ![c] = "resolved"]
  /\ UNCHANGED <<asked, computed>>

Reject(c, err) ==
  /\ phase[c] = "pending"
  /\ phase' = [phase EXCEPT ![c] = "rejected"]
  /\ answer' = [answer EXCEPT ![c] = err]
  /\ UNCHANGED <<asked, computed>>

(* The callers in S are gone, and their promises with them.                *)
Lose(S) ==
  /\ \A c \in S : phase[c] = "pending"
  /\ phase' = [c \in Calls |-> IF c \in S THEN "lost" ELSE phase[c]]
  /\ UNCHANGED <<asked, answer, computed>>

Next ==
  \/ \E c \in Calls, k \in Keys : Ask(c, k)
  \/ \E c \in Calls, k \in Keys, err \in Errors : Refuse(c, k, err)
  \/ \E k \in Keys, v \in Payloads : Compute(k, v)
  \/ \E c \in Calls : Resolve(c)
  \/ \E c \in Calls, err \in Errors : Reject(c, err)
  \/ \E S \in SUBSET Calls : Lose(S)

Safety == Init /\ [][Next]_promiseVars

(* The promise is kept even if no value is ever computed.                  *)
Spec == Safety /\ \A c \in Calls : WF_promiseVars(\E err \in Errors : Reject(c, err))

================================================================================

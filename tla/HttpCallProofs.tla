----------------------------- MODULE HttpCallProofs -----------------------------
(***************************************************************************)
(* Theorems about calls over HTTP, for any number of calls, methods,       *)
(* services, replicas and addresses; and about the documents that a call   *)
(* may stream (StreamTransform), whatever they are and wherever the bytes  *)
(* are cut.                                                                *)
(***************************************************************************)
EXTENDS HttpCall, StreamTransform, SequenceTheorems, WellFoundedInduction, TLAPS

(* The types that the theorems need.                                       *)
Types ==
  /\ pc \in [Calls -> {"idle", "settings", "connecting", "sent", "reading",
                       "resolved", "rejected", "lost"}]
  /\ method \in [Calls -> Methods \cup {None}]
  /\ told \subseteq [call : Calls, address : Addresses]
  /\ job \in [Calls -> [at : Replicas \cup {None},
                        stage : {"none", "arrived", "handled", "answered", "cut"}]]
  /\ response \in [Calls -> [status : {0, 200, 500},
                             body : Payloads \cup {"error", None}]]
  /\ computed \in [Methods -> SUBSET Payloads]
  /\ served \in [Calls -> SUBSET Replicas]
  /\ address \in [Replicas -> Addresses \cup {None}]
  /\ \A c \in Calls : job[c].stage # "none" => job[c].at \in Replicas

(* A call that is not sent has left no trace on any server.                *)
Unsent(c) == pc[c] \in {"idle", "settings", "connecting"}

NoTrace ==
  \A c \in Calls :
    /\ Unsent(c) => job[c].stage = "none" /\ response[c] = NoResponse /\ served[c] = {}
    /\ pc[c] # "idle" => method[c] \in Methods

(* A response carries a payload that the method returned; the error of a   *)
(* method that returns a stream is not taken for the stream.               *)
HonestResponses ==
  \A c \in Calls :
    /\ response[c].body \in Payloads => response[c].body \in computed[method[c]]
    /\ response[c] # NoResponse => response[c].body # None
    /\ pc[c] = "reading" => response[c] # NoResponse

CallInv == Types /\ NoTrace /\ RightService /\ HonestResponses

(* How the variables of call c move; those of others do not.               *)
Only(c) ==
  \A d \in Calls \ {c} :
    /\ pc'[d] = pc[d] /\ method'[d] = method[d] /\ job'[d] = job[d]
    /\ response'[d] = response[d] /\ served'[d] = served[d]

(* Nothing that has been computed is forgotten.                            *)
Grows == \A k \in Methods : computed[k] \subseteq computed'[k]

LEMMA OnlyStep ==
  ASSUME CallInv, Types', NEW c \in Calls, Only(c), Grows,
         Unsent(c)' => job'[c].stage = "none" /\ response'[c] = NoResponse /\ served'[c] = {},
         pc'[c] # "idle" => method'[c] \in Methods,
         \A r \in served'[c] : RunsService[r] = ServiceOf[method'[c]],
         response'[c].body \in Payloads => response'[c].body \in computed'[method'[c]],
         response'[c] # NoResponse => response'[c].body # None,
         pc'[c] = "reading" => response'[c] # NoResponse
  PROVE  CallInv'
<1>1. NoTrace'
  BY DEF CallInv, NoTrace, Only, Unsent
<1>2. RightService'
  BY DEF CallInv, RightService, Only
<1>3. ASSUME NEW d \in Calls \ {c}, response[d].body \in Payloads
      PROVE  response[d].body \in computed'[method[d]]
  <2>1. response[d] # NoResponse
    BY <1>3, NoneAssumption DEF NoResponse
  <2>2. method[d] \in Methods
    BY <2>1 DEF CallInv, NoTrace, Unsent, Types
  <2> QED BY <1>3, <2>2 DEF CallInv, HonestResponses, Grows
<1>4. HonestResponses'
  BY <1>3 DEF CallInv, HonestResponses, Only
<1> QED BY <1>1, <1>2, <1>4 DEF CallInv

(* Steps after which servers have left the same trace.                     *)
LEMMA QuietStep ==
  ASSUME CallInv, Types', UNCHANGED <<method, response, computed, served>>,
         \A c \in Calls :
           /\ Unsent(c)' => Unsent(c)
           /\ pc'[c] # "idle" => pc[c] # "idle"
           /\ pc'[c] = "reading" => response[c] # NoResponse
           /\ job[c].stage = "none" => job'[c].stage = "none"
  PROVE  CallInv'
<1>1. NoTrace'
  BY DEF CallInv, NoTrace
<1>2. RightService'
  BY DEF CallInv, RightService
<1>3. HonestResponses'
  BY DEF CallInv, HonestResponses
<1> QED BY <1>1, <1>2, <1>3 DEF CallInv

(* Steps of the client alone: calls settle, get lost or read on.           *)
ClientMove ==
  /\ method' = method /\ job' = job /\ response' = response
  /\ computed' = computed /\ served' = served
  /\ \A c \in Calls :
       \/ pc'[c] = pc[c]
       \/ pc[c] # "idle" /\ pc'[c] \in {"resolved", "rejected", "lost"}
       \/ ~Unsent(c) /\ pc'[c] = "reading" /\ response[c] # NoResponse

LEMMA ClientStep ==
  ASSUME CallInv, Types', ClientMove
  PROVE  CallInv'
<1>1. /\ UNCHANGED <<method, response, computed, served>>
      /\ \A c \in Calls : job[c].stage = "none" => job'[c].stage = "none"
  BY DEF ClientMove
<1>2. \A c \in Calls : /\ Unsent(c)' => Unsent(c)
                       /\ pc'[c] # "idle" => pc[c] # "idle"
                       /\ pc'[c] = "reading" => response[c] # NoResponse
  BY DEF ClientMove, Unsent, CallInv, HonestResponses
<1> QED BY <1>1, <1>2, QuietStep

--------------------------------------------------------------------------------
(***************************************************************************)
(* Types                                                                   *)
(***************************************************************************)

LEMMA SettleType ==
  ASSUME Types, NEW c \in Calls, NEW state \in {"resolved", "rejected"}, NEW v,
         Settle(c, state, v)
  PROVE  pc' \in [Calls -> {"idle", "settings", "connecting", "sent", "reading",
                            "resolved", "rejected", "lost"}]
BY DEF Types, Settle

LEMMA AnswerType ==
  ASSUME Types, NEW c \in Calls, NEW status \in {200, 500},
         NEW body \in Payloads \cup {"error"}, Answer(c, status, body)
  PROVE  /\ job' \in [Calls -> [at : Replicas \cup {None},
                                stage : {"none", "arrived", "handled", "answered", "cut"}]]
         /\ job[c].stage # "none" =>
              \A d \in Calls : job'[d].stage # "none" => job'[d].at \in Replicas
         /\ response' \in [Calls -> [status : {0, 200, 500},
                                     body : Payloads \cup {"error", None}]]
BY DEF Types, Answer

LEMMA CallStepType ==
  ASSUME Types, NEW c \in Calls, CallStep(c)
  PROVE  Types'
<1>1. ASSUME NEW k \in Methods, Request(c, k) PROVE Types'
  BY <1>1 DEF Request, Types, serverVars
<1>2. ASSUME NEW r \in Replicas, AnswerSettings(c, r) PROVE Types'
  <2>1. address[r] \in Addresses
    BY <1>2 DEF AnswerSettings, Types
  <2> QED BY <1>2, <2>1 DEF AnswerSettings, Types, clientVars, serverVars
<1>3. CASE SettingsFail(c)
  BY <1>3, SettleType DEF SettingsFail, Types, serverVars
<1>4. CASE Connect(c)
  <2>1. CASE \E r \in Replicas : /\ pc' = [pc EXCEPT ![c] = "sent"]
                                 /\ job' = [job EXCEPT ![c] = [at |-> r, stage |-> "arrived"]]
    BY <1>4, <2>1 DEF Connect, Types
  <2>2. CASE Settle(c, "rejected", "Connection") /\ UNCHANGED job
    BY <1>4, <2>2, SettleType DEF Connect, Types
  <2> QED BY <1>4, <2>1, <2>2 DEF Connect
<1>5. CASE PayloadFails(c)
  <2>1. CASE Settle(c, "rejected", "Payload")
    BY <1>5, <2>1, SettleType DEF PayloadFails, Types, serverVars
  <2>2. CASE ProcessEnds
    BY <1>5, <2>2 DEF PayloadFails, ProcessEnds, Types, serverVars
  <2> QED BY <1>5, <2>1, <2>2 DEF PayloadFails
<1>6. CASE Handle(c)
  <2>1. job[c].at \in Replicas /\ job[c].stage # "none"
    BY <1>6 DEF Handle, Types
  <2>2. CASE UNCHANGED served /\ Answer(c, 500, "error")
    <3>1. 500 \in {200, 500} /\ "error" \in Payloads \cup {"error"}
      OBVIOUS
    <3>2. /\ job' \in [Calls -> [at : Replicas \cup {None},
                                 stage : {"none", "arrived", "handled", "answered", "cut"}]]
          /\ response' \in [Calls -> [status : {0, 200, 500},
                                      body : Payloads \cup {"error", None}]]
          /\ \A d \in Calls : job'[d].stage # "none" => job'[d].at \in Replicas
      BY <2>1, <2>2, <3>1, AnswerType
    <3> QED BY <1>6, <2>2, <3>2 DEF Handle, Types, clientVars
  <2>3. CASE /\ job' = [job EXCEPT ![c].stage = "handled"]
             /\ served' = [served EXCEPT ![c] = @ \cup {job[c].at}]
             /\ UNCHANGED response
    BY <1>6, <2>1, <2>3 DEF Handle, Types, clientVars
  <2> QED BY <1>6, <2>2, <2>3 DEF Handle
<1>7. ASSUME NEW o \in Results, Return(c, o) PROVE Types'
  <2>1. /\ Status(o) \in {200, 500}
        /\ (IF o \in Payloads THEN o ELSE "error") \in Payloads \cup {"error"}
    BY DEF Status
  <2>2. computed' \in [Methods -> SUBSET Payloads]
    BY <1>7 DEF Return, Types
  <2>3. job[c].stage # "none"
    BY <1>7 DEF Return
  <2> QED BY <1>7, <2>1, <2>2, <2>3, AnswerType DEF Return, Types, clientVars
<1>8. CASE RecvHead(c)
  <2>1. CASE \E v : Settle(c, "resolved", v)
    BY <1>8, <2>1, SettleType DEF RecvHead, Types, serverVars
  <2>2. CASE pc' = [pc EXCEPT ![c] = "reading"]
    BY <1>8, <2>2 DEF RecvHead, Types, serverVars
  <2> QED BY <1>8, <2>1, <2>2 DEF RecvHead
<1>9. CASE RecvBody(c)
  BY <1>9, SettleType DEF RecvBody, Types, serverVars
<1>10. CASE Cut(c)
  <2>1. CASE Settle(c, "rejected", "Connection")
    BY <1>10, <2>1, SettleType DEF Cut, Types, serverVars
  <2>2. CASE ProcessEnds
    BY <1>10, <2>2 DEF Cut, ProcessEnds, Types, serverVars
  <2> QED BY <1>10, <2>1, <2>2 DEF Cut
<1> QED BY <1>1, <1>2, <1>3, <1>4, <1>5, <1>6, <1>7, <1>8, <1>9, <1>10 DEF CallStep

LEMMA TypesStep == Types /\ [Next]_vars => Types'
<1> SUFFICES ASSUME Types, [Next]_vars PROVE Types'
  OBVIOUS
<1>1. ASSUME NEW t \in told, RecvSettings(t) PROVE Types'
  <2>1. t.call \in Calls
    BY DEF Types
  <2> QED BY <1>1, <2>1 DEF RecvSettings, Types, serverVars
<1>2. ASSUME NEW r \in Replicas, Down(r) PROVE Types'
  <2>1. /\ job' \in [Calls -> [at : Replicas \cup {None},
                               stage : {"none", "arrived", "handled", "answered", "cut"}]]
        /\ \A c \in Calls : job'[c].stage # "none" => job'[c].at \in Replicas
    BY <1>2 DEF Down, Types
  <2> QED BY <1>2, <2>1 DEF Down, Types, clientVars
<1>3. ASSUME NEW r \in Replicas, NEW a \in Addresses, Up(r, a) PROVE Types'
  BY <1>3 DEF Up, Types, clientVars
<1>4. CASE UNCHANGED vars
  BY <1>4 DEF vars, clientVars, Types
<1> QED BY <1>1, <1>2, <1>3, <1>4, CallStepType DEF Next

--------------------------------------------------------------------------------
(***************************************************************************)
(* Who handles a call, and what it is answered                             *)
(***************************************************************************)

LEMMA CallStepInv ==
  ASSUME CallInv, Types', NEW c \in Calls, CallStep(c)
  PROVE  CallInv'
<1> Types
  BY DEF CallInv
<1>1. ASSUME NEW k \in Methods, Request(c, k) PROVE CallInv'
  <2>1. /\ pc[c] = "idle" /\ pc'[c] = "settings" /\ method'[c] = k
        /\ UNCHANGED <<job, response, computed, served>>
        /\ \A d \in Calls \ {c} : pc'[d] = pc[d] /\ method'[d] = method[d]
    BY <1>1 DEF Request, Types, serverVars
  <2>2. job[c].stage = "none" /\ response[c] = NoResponse /\ served[c] = {}
    BY <2>1 DEF CallInv, NoTrace, Unsent
  <2>3. response[c].body \notin Payloads
    BY <2>2, NoneAssumption DEF NoResponse
  <2> QED BY <2>1, <2>2, <2>3, OnlyStep DEF Only, Grows
<1>2. CASE Connect(c)
  <2>1. CASE \E r \in Replicas : /\ pc' = [pc EXCEPT ![c] = "sent"]
                                 /\ job' = [job EXCEPT ![c] = [at |-> r, stage |-> "arrived"]]
    <3>1. /\ pc[c] = "connecting" /\ pc'[c] = "sent"
          /\ UNCHANGED <<method, response, computed, served>>
          /\ \A d \in Calls \ {c} : pc'[d] = pc[d] /\ job'[d] = job[d]
      BY <1>2, <2>1 DEF Connect, Types
    <3>2. response[c] = NoResponse /\ served[c] = {} /\ method[c] \in Methods
      BY <3>1 DEF CallInv, NoTrace, Unsent
    <3>3. response[c].body \notin Payloads
      BY <3>2, NoneAssumption DEF NoResponse
    <3> QED BY <3>1, <3>2, <3>3, OnlyStep DEF Only, Grows, Unsent
  <2>2. CASE Settle(c, "rejected", "Connection") /\ UNCHANGED job
    BY <1>2, <2>2, QuietStep DEF Connect, Settle, Types, Unsent, CallInv, HonestResponses
  <2> QED BY <1>2, <2>1, <2>2 DEF Connect
<1>3. CASE Handle(c)
  <2>1. job[c].stage = "arrived" /\ UNCHANGED <<pc, method, computed>>
    BY <1>3 DEF Handle, clientVars
  <2>2. ~Unsent(c) /\ method[c] \in Methods
    BY <2>1 DEF CallInv, NoTrace, Unsent
  <2>3. CASE /\ RightUrl(c, job[c].at) /\ job' = [job EXCEPT ![c].stage = "handled"]
             /\ served' = [served EXCEPT ![c] = @ \cup {job[c].at}]
             /\ UNCHANGED response
    <3>1. /\ \A d \in Calls \ {c} : job'[d] = job[d] /\ served'[d] = served[d]
          /\ served'[c] = served[c] \cup {job[c].at}
      BY <2>3 DEF Types
    <3>2. \A r \in served'[c] : RunsService[r] = ServiceOf[method[c]]
      BY <2>3, <3>1 DEF RightUrl, CallInv, RightService
    <3> QED BY <2>1, <2>2, <2>3, <3>1, <3>2, OnlyStep
            DEF Only, Grows, Unsent, CallInv, HonestResponses
  <2>4. CASE UNCHANGED served /\ Answer(c, 500, "error")
    <3>1. /\ \A d \in Calls \ {c} : job'[d] = job[d] /\ response'[d] = response[d]
          /\ response'[c] \in {response[c], [status |-> 500, body |-> "error"]}
      BY <2>4 DEF Answer, Types
    <3>2. [status |-> 500, body |-> "error"] # NoResponse /\ "error" \notin Payloads
      BY DEF NoResponse, Payloads
    <3>3. "error" # None
      BY NoneAssumption
    <3> QED BY <2>1, <2>2, <2>4, <3>1, <3>2, <3>3, OnlyStep
            DEF Only, Grows, Unsent, CallInv, HonestResponses, RightService
  <2> QED BY <1>3, <2>3, <2>4 DEF Handle
<1>4. ASSUME NEW o \in Results, Return(c, o) PROVE CallInv'
  <2> DEFINE body == IF o \in Payloads THEN o ELSE "error"
             answer == [status |-> Status(o), body |-> body]
  <2>1. /\ job[c].stage = "handled" /\ UNCHANGED <<pc, method, served>>
        /\ Answer(c, Status(o), body)
        /\ computed' = [computed EXCEPT ![method[c]] = @ \cup ({o} \cap Payloads)]
    BY <1>4 DEF Return, clientVars
  <2>2. ~Unsent(c) /\ method[c] \in Methods
    BY <2>1 DEF CallInv, NoTrace, Unsent
  <2>3. Grows /\ {o} \cap Payloads \subseteq computed'[method[c]]
    BY <2>1, <2>2 DEF Grows, Types
  <2>4. "error" \notin Payloads
    BY DEF Payloads
  <2>5. body \in Payloads => body \in computed'[method[c]]
    BY <2>3, <2>4
  <2>6. body # None
    BY NoneAssumption
  <2>7. answer # NoResponse /\ answer.body = body
    <3>1. Status(o) # 0
      BY DEF Status
    <3>2. answer.status = Status(o) /\ NoResponse.status = 0 /\ answer.body = body
      BY DEF NoResponse
    <3> QED BY <3>1, <3>2
  <2> HIDE DEF body, answer
  <2>8. /\ \A d \in Calls \ {c} : job'[d] = job[d] /\ response'[d] = response[d]
        /\ response'[c] \in {response[c], answer}
    BY <2>1 DEF Answer, Types, answer, body
  <2>9. /\ response'[c].body \in Payloads => response'[c].body \in computed'[method[c]]
        /\ response'[c] # NoResponse => response'[c].body # None
        /\ pc[c] = "reading" => response'[c] # NoResponse
    <3>1. CASE response'[c] = answer
      BY <3>1, <2>5, <2>6, <2>7
    <3>2. CASE response'[c] = response[c]
      BY <3>2, <2>2, <2>3 DEF CallInv, HonestResponses, Grows
    <3> QED BY <3>1, <3>2, <2>8
  <2> QED BY <2>1, <2>2, <2>3, <2>8, <2>9, OnlyStep
          DEF Only, Unsent, CallInv, RightService
<1>5. ASSUME NEW r \in Replicas, AnswerSettings(c, r) PROVE CallInv'
  BY <1>5, ClientStep DEF ClientMove, AnswerSettings, clientVars, serverVars
<1>6. ASSUME NEW state \in {"resolved", "rejected"}, NEW v, Settle(c, state, v),
             pc[c] # "idle", UNCHANGED <<method, serverVars>>
      PROVE  CallInv'
  <2>1. \A d \in Calls : \/ pc'[d] = pc[d]
                         \/ pc[d] # "idle" /\ pc'[d] \in {"resolved", "rejected", "lost"}
    BY <1>6 DEF Settle, Types
  <2> QED BY <1>6, <2>1, ClientStep DEF ClientMove, serverVars
<1>7. CASE SettingsFail(c) \/ RecvBody(c)
  BY <1>6, <1>7 DEF SettingsFail, RecvBody
<1>8. CASE RecvHead(c)
  <2>1. CASE pc' = [pc EXCEPT ![c] = "reading"]
    <3>1. /\ pc[c] = "sent" /\ response[c] # NoResponse
          /\ UNCHANGED <<method, job, response, computed, served>>
      BY <1>8 DEF RecvHead, serverVars
    <3>2. ~Unsent(c) /\ pc'[c] = "reading" /\ \A d \in Calls \ {c} : pc'[d] = pc[d]
      BY <2>1, <3>1 DEF Types, Unsent
    <3> QED BY <3>1, <3>2, ClientStep DEF ClientMove
  <2>2. CASE Settle(c, "resolved", AsStream(response[c].body))
    BY <1>6, <1>8, <2>2 DEF RecvHead
  <2> QED BY <1>8, <2>1, <2>2 DEF RecvHead
<1>9. ASSUME ProcessEnds, UNCHANGED <<method, serverVars>> PROVE CallInv'
  <2>1. \A d \in Calls : \/ pc'[d] = pc[d]
                         \/ pc[d] # "idle" /\ pc'[d] \in {"resolved", "rejected", "lost"}
    BY <1>9 DEF ProcessEnds, Pending
  <2> QED BY <1>9, <2>1, ClientStep DEF ClientMove, serverVars
<1>10. CASE Cut(c)
  BY <1>6, <1>9, <1>10 DEF Cut
<1>11. CASE PayloadFails(c)
  BY <1>6, <1>9, <1>11 DEF PayloadFails
<1> QED BY <1>1, <1>2, <1>3, <1>4, <1>5, <1>7, <1>8, <1>10, <1>11 DEF CallStep

LEMMA CallInvStep == CallInv /\ [Next]_vars => CallInv'
<1> SUFFICES ASSUME CallInv, [Next]_vars PROVE CallInv'
  OBVIOUS
<1> Types /\ Types'
  BY TypesStep DEF CallInv
<1>1. ASSUME NEW t \in told, RecvSettings(t) PROVE CallInv'
  <2>1. \A c \in Calls : \/ pc'[c] = pc[c]
                         \/ pc[c] = "settings" /\ pc'[c] = "connecting"
    BY <1>1 DEF RecvSettings, Expected, Types
  <2> QED BY <1>1, <2>1, QuietStep
          DEF RecvSettings, serverVars, Unsent, CallInv, HonestResponses
<1>2. ASSUME NEW r \in Replicas, Down(r) PROVE CallInv'
  <2>1. \A c \in Calls : job[c].stage = "none" => job'[c].stage = "none"
    BY <1>2 DEF Down
  <2> QED BY <1>2, <2>1, QuietStep DEF Down, clientVars, Unsent, CallInv, HonestResponses
<1>3. ASSUME NEW r \in Replicas, NEW a \in Addresses, Up(r, a) PROVE CallInv'
  BY <1>3, QuietStep DEF Up, clientVars, Unsent, CallInv, HonestResponses
<1>4. CASE UNCHANGED vars
  BY <1>4, QuietStep DEF vars, clientVars, Unsent, CallInv, HonestResponses
<1> QED BY <1>1, <1>2, <1>3, <1>4, CallStepInv DEF Next

LEMMA CallInvInit == Init => CallInv
<1> SUFFICES ASSUME Init PROVE CallInv
  OBVIOUS
<1>1. Types
  BY DEF Init, Types, NoJob, NoResponse
<1>2. NoTrace /\ RightService
  BY DEF Init, NoTrace, RightService, NoJob
<1>3. HonestResponses
  BY NoneAssumption DEF Init, HonestResponses, NoResponse
<1> QED BY <1>1, <1>2, <1>3 DEF CallInv

(* A call is handled only by replicas of the service that was called,      *)
(* whoever has its address by then (Service.buildHTTPHandlers, 432-440).   *)
THEOREM HandledByRightService == Spec => []RightService
BY CallInvInit, CallInvStep, PTL DEF Spec, CallInv

--------------------------------------------------------------------------------
(***************************************************************************)
(* The promise                                                             *)
(***************************************************************************)

(* Handlers of methods that return streams return streams, or throw errors *)
(* that have a message.                                                    *)
PlainHandlers == \A k \in ResponseStreams : MayReturn[k] \subseteq {"stream", "error"}

(* What a caller takes for its stream is one, or has the status of an error. *)
StreamOrError ==
  \A c \in Calls :
    method[c] \in ResponseStreams /\ response[c] # NoResponse =>
      response[c].body = "stream" \/ response[c].status = 500

PromiseInv == CallInv /\ StreamOrError

(* Steps that answer nothing and ask nothing.                              *)
LEMMA SilentFrame ==
  ASSUME [Next]_vars,
         ~\E c \in Calls : \/ \E k \in Methods : Request(c, k)
                           \/ Handle(c)
                           \/ \E o \in Results : Return(c, o)
  PROVE  UNCHANGED <<method, response>>
<1>1. ASSUME NEW t \in told, RecvSettings(t) PROVE UNCHANGED <<method, response>>
  BY <1>1 DEF RecvSettings, serverVars
<1>2. ASSUME NEW r \in Replicas, Down(r) \/ \E a \in Addresses : Up(r, a)
      PROVE  UNCHANGED <<method, response>>
  BY <1>2 DEF Down, Up, clientVars
<1>3. ASSUME NEW c \in Calls, CallStep(c) PROVE UNCHANGED <<method, response>>
  <2>1. ASSUME NEW r \in Replicas, AnswerSettings(c, r)
        PROVE  UNCHANGED <<method, response>>
    BY <2>1 DEF AnswerSettings, clientVars, serverVars
  <2>2. CASE SettingsFail(c) \/ PayloadFails(c) \/ RecvHead(c) \/ RecvBody(c) \/ Cut(c)
    BY <2>2 DEF SettingsFail, PayloadFails, RecvHead, RecvBody, Cut, serverVars
  <2>3. CASE Connect(c)
    BY <2>3 DEF Connect
  <2> QED BY <1>3, <2>1, <2>2, <2>3 DEF CallStep
<1> QED BY <1>1, <1>2, <1>3 DEF Next, vars, clientVars

(* An answer of the kind that the client can tell apart.                   *)
LEMMA AnswerStreamOrError ==
  ASSUME Types, StreamOrError, NEW c \in Calls, NEW status, NEW body,
         method' = method, Answer(c, status, body),
         method[c] \in ResponseStreams => body = "stream" \/ status = 500
  PROVE  StreamOrError'
<1>1. /\ \A d \in Calls \ {c} : response'[d] = response[d]
      /\ response'[c] \in {response[c], [status |-> status, body |-> body]}
  BY DEF Answer, Types
<1> QED BY <1>1 DEF StreamOrError

LEMMA StreamOrErrorStep ==
  ASSUME PlainHandlers, PromiseInv, [Next]_vars
  PROVE  StreamOrError'
<1> Types /\ StreamOrError
  BY DEF PromiseInv, CallInv
<1>2. ASSUME NEW c \in Calls, NEW k \in Methods, Request(c, k) PROVE StreamOrError'
  <2>1. /\ response' = response /\ response[c] = NoResponse
        /\ \A d \in Calls \ {c} : method'[d] = method[d]
    BY <1>2 DEF Request, serverVars, PromiseInv, CallInv, NoTrace, Unsent, Types
  <2> QED BY <2>1 DEF PromiseInv, StreamOrError
<1>3. ASSUME NEW c \in Calls, Handle(c) PROVE StreamOrError'
  <2>1. method' = method /\ (response' = response \/ Answer(c, 500, "error"))
    BY <1>3 DEF Handle, clientVars
  <2>2. CASE response' = response
    BY <2>1, <2>2 DEF StreamOrError
  <2> QED BY <2>1, <2>2, AnswerStreamOrError
<1>4. ASSUME NEW c \in Calls, NEW o \in Results, Return(c, o) PROVE StreamOrError'
  <2> DEFINE body == IF o \in Payloads THEN o ELSE "error"
  <2>1. method' = method /\ Answer(c, Status(o), body) /\ o \in MayReturn[method[c]]
    BY <1>4 DEF Return, clientVars
  <2>2. method[c] \in ResponseStreams => body = "stream" \/ Status(o) = 500
    BY <2>1 DEF PlainHandlers, Payloads, Status
  <2> HIDE DEF body
  <2> QED BY <2>1, <2>2, AnswerStreamOrError
<1>5. CASE UNCHANGED <<method, response>>
  BY <1>5 DEF PromiseInv, StreamOrError
<1> QED BY <1>2, <1>3, <1>4, <1>5, SilentFrame

(* A call that settles changes phase for RequestPromise.                   *)
LEMMA SettlesPhase ==
  ASSUME Types, NEW c \in Calls, NEW state \in {"resolved", "rejected"}, NEW v,
         Settle(c, state, v)
  PROVE  LET phase == [d \in Calls |-> IF Pending(d) THEN "pending" ELSE pc[d]]
         IN  phase' = [phase EXCEPT ![c] = state]
<1>1. /\ \A d \in Calls \ {c} : pc'[d] = pc[d]
      /\ pc'[c] = state
  BY DEF Settle, Types
<1>2. ~Pending(c)' /\ \A d \in Calls \ {c} : Pending(d)' = Pending(d)
  BY <1>1 DEF Pending
<1> QED BY <1>1, <1>2

LEMMA ResolvesPromise ==
  ASSUME Types, NEW c \in Calls, NEW v, Pending(c), Settle(c, "resolved", v),
         v \in computed[method[c]], UNCHANGED <<method, computed>>
  PROVE  Promise!Next
<1>1. result' = [result EXCEPT ![c] = v]
  BY DEF Settle
<1>2. Promise!Resolve(c)
  BY <1>1, SettlesPhase DEF Promise!Resolve
<1> QED BY <1>2 DEF Promise!Next

LEMMA RejectsPromise ==
  ASSUME Types, NEW c \in Calls, NEW v \in Errors, Pending(c), Settle(c, "rejected", v),
         UNCHANGED <<method, computed>>
  PROVE  Promise!Next
<1>1. result' = [result EXCEPT ![c] = v]
  BY DEF Settle
<1>2. Promise!Reject(c, v)
  BY <1>1, SettlesPhase DEF Promise!Reject
<1> QED BY <1>2 DEF Promise!Next

(* A pending call that goes on pending stutters.                           *)
LEMMA PendingStutters ==
  ASSUME Types, Types', UNCHANGED <<method, result, computed>>,
         \A c \in Calls : pc'[c] = pc[c] \/ (Pending(c) /\ Pending(c)')
  PROVE  UNCHANGED Promise!promiseVars
BY DEF Promise!promiseVars, Pending

LEMMA PromiseCallStep ==
  ASSUME PlainHandlers, PromiseInv, Types', NEW c \in Calls, CallStep(c)
  PROVE  Promise!Next \/ UNCHANGED Promise!promiseVars
<1> Types
  BY DEF PromiseInv, CallInv
<1>1. ASSUME NEW k \in Methods, Request(c, k) PROVE Promise!Next
  <2>1. /\ pc[c] = "idle" /\ pc' = [pc EXCEPT ![c] = "settings"]
        /\ method' = [method EXCEPT ![c] = k]
        /\ UNCHANGED <<result, computed>>
    BY <1>1 DEF Request, serverVars
  <2>2. \A d \in Calls : Pending(d)' <=> Pending(d) \/ d = c
    BY <2>1 DEF Pending, Types
  <2>3. /\ ~Pending(c)
        /\ \A d \in Calls \ {c} : (IF Pending(d)' THEN "pending" ELSE pc'[d])
                                 = (IF Pending(d) THEN "pending" ELSE pc[d])
    BY <2>1, <2>2 DEF Pending, Types
  <2>4. Promise!Ask(c, k)
    BY <2>1, <2>2, <2>3 DEF Promise!Ask, Pending
  <2> QED BY <2>4 DEF Promise!Next
<1>2. CASE \/ UNCHANGED <<pc, method, result, computed>>
           \/ /\ UNCHANGED <<method, result, computed>>
              /\ Pending(c)
              /\ \E state \in {"connecting", "sent", "reading"} :
                   pc' = [pc EXCEPT ![c] = state]
  BY <1>2, PendingStutters DEF Pending, Types
<1>3. CASE \/ \E r \in Replicas : AnswerSettings(c, r)
           \/ Handle(c)
  BY <1>2, <1>3 DEF AnswerSettings, Handle, clientVars, serverVars
<1>4. CASE SettingsFail(c)
  BY <1>4, RejectsPromise DEF SettingsFail, Pending, Errors, serverVars
<1>5. CASE Connect(c)
  BY <1>2, <1>5, RejectsPromise DEF Connect, Pending, Errors
<1>6. ASSUME NEW o \in Results, Return(c, o)
      PROVE  Promise!Next \/ UNCHANGED Promise!promiseVars
  <2>1. method[c] \in Methods
    BY <1>6 DEF Return, PromiseInv, CallInv, NoTrace, Unsent
  <2>2. CASE o \in Payloads
    <3>1. Promise!Compute(method[c], o)
      BY <1>6, <2>2 DEF Return, Promise!Compute, clientVars, Pending
    <3> QED BY <2>1, <2>2, <3>1 DEF Promise!Next
  <2>3. CASE o \notin Payloads
    <3>1. computed' = computed
      BY <1>6, <2>1, <2>3 DEF Return, Types
    <3> QED BY <1>2, <1>6, <3>1 DEF Return, clientVars
  <2> QED BY <2>2, <2>3
<1>7. CASE RecvHead(c)
  <2>1. CASE /\ method[c] \in ResponseStreams /\ response[c].status # 500
             /\ Settle(c, "resolved", AsStream(response[c].body))
    <3>1. response[c].body = "stream" /\ AsStream(response[c].body) = "stream"
      BY <1>7, <2>1 DEF RecvHead, PromiseInv, StreamOrError, AsStream
    <3>2. "stream" \in computed[method[c]]
      BY <3>1 DEF PromiseInv, CallInv, HonestResponses, Payloads
    <3> QED BY <1>7, <2>1, <3>1, <3>2, ResolvesPromise DEF RecvHead, Pending, serverVars
  <2>2. CASE pc' = [pc EXCEPT ![c] = "reading"] /\ UNCHANGED result
    BY <1>2, <1>7, <2>2 DEF RecvHead, Pending, serverVars
  <2> QED BY <1>7, <2>1, <2>2 DEF RecvHead
<1>8. CASE RecvBody(c)
  <2>1. CASE Settle(c, "rejected", "ServiceError")
    BY <1>8, <2>1, RejectsPromise DEF RecvBody, Pending, Errors, serverVars
  <2>2. CASE response[c].body # "error" /\ Settle(c, "resolved", response[c].body)
    <3>1. response[c].body \in Payloads
      BY <1>8, <2>2 DEF RecvBody, PromiseInv, CallInv, HonestResponses, Types
    <3>2. response[c].body \in computed[method[c]]
      BY <3>1 DEF PromiseInv, CallInv, HonestResponses
    <3> QED BY <1>8, <2>2, <3>2, ResolvesPromise DEF RecvBody, Pending, serverVars
  <2> QED BY <1>8, <2>1, <2>2 DEF RecvBody
<1>9. ASSUME ProcessEnds, UNCHANGED <<method, serverVars>> PROVE Promise!Next
  <2>1. PICK gone \in SUBSET Calls : gone = {d \in Calls : Pending(d)}
    OBVIOUS
  <2>2. Promise!Lose(gone)
    BY <1>9, <2>1 DEF ProcessEnds, Promise!Lose, Pending, serverVars
  <2> QED BY <2>2 DEF Promise!Next
<1>10. CASE Cut(c)
  <2>1. CASE pc[c] = "sent" /\ Settle(c, "rejected", "Connection")
    BY <1>10, <2>1, RejectsPromise DEF Cut, Pending, Errors, serverVars
  <2> QED BY <1>9, <1>10, <2>1 DEF Cut
<1>11. CASE PayloadFails(c)
  <2>1. CASE pc[c] \in {"connecting", "sent"} /\ Settle(c, "rejected", "Payload")
    BY <1>11, <2>1, RejectsPromise DEF PayloadFails, Pending, Errors, serverVars
  <2> QED BY <1>9, <1>11, <2>1 DEF PayloadFails
<1> QED BY <1>1, <1>3, <1>4, <1>5, <1>6, <1>7, <1>8, <1>10, <1>11 DEF CallStep

LEMMA PromiseStep ==
  ASSUME PlainHandlers, PromiseInv, [Next]_vars
  PROVE  [Promise!Next]_(Promise!promiseVars)
<1> Types /\ Types'
  BY TypesStep DEF PromiseInv, CallInv
<1>1. ASSUME NEW t \in told, RecvSettings(t) PROVE UNCHANGED Promise!promiseVars
  <2>1. \A c \in Calls : pc'[c] = pc[c] \/ (Pending(c) /\ Pending(c)')
    BY <1>1 DEF RecvSettings, Expected, Pending, Types
  <2> QED BY <1>1, <2>1, PendingStutters DEF RecvSettings, serverVars
<1>2. ASSUME NEW r \in Replicas, Down(r) \/ \E a \in Addresses : Up(r, a)
      PROVE  UNCHANGED Promise!promiseVars
  BY <1>2, PendingStutters DEF Down, Up, clientVars
<1>3. CASE UNCHANGED vars
  BY <1>3, PendingStutters DEF vars, clientVars
<1> QED BY <1>1, <1>2, <1>3, PromiseCallStep DEF Next

LEMMA PromiseInit == Init => PromiseInv /\ Promise!Init
<1>1. Init => StreamOrError
  BY DEF Init, StreamOrError
<1>2. Init => Promise!Init
  BY DEF Init, Promise!Init, Pending
<1> QED BY <1>1, <1>2, CallInvInit DEF PromiseInv

(* A call over HTTP keeps the promise that a call over the broker keeps,   *)
(* if the handlers of methods that return streams return nothing else:     *)
(* makeHttpRequest takes whatever comes without status 500 for the stream  *)
(* (Client.ts, lines 337-341).                                             *)
THEOREM KeepsPromise == PlainHandlers /\ Spec => Promise!Safety
<1>1. PlainHandlers /\ Init => PlainHandlers /\ PromiseInv /\ Promise!Init
  BY PromiseInit
<1>2. /\ PlainHandlers /\ PromiseInv /\ [Next]_vars
      => PlainHandlers' /\ PromiseInv' /\ [Promise!Next]_(Promise!promiseVars)
  BY CallInvStep, StreamOrErrorStep, PromiseStep DEF PromiseInv, PlainHandlers
<1> QED BY <1>1, <1>2, PTL DEF Spec, Promise!Safety

--------------------------------------------------------------------------------
(***************************************************************************)
(* Documents over a stream of bytes                                        *)
(***************************************************************************)

(* Some natural number of a set is the least.                              *)
LEMMA Least ==
  ASSUME NEW N \in SUBSET Nat, N # {}
  PROVE  \E n \in N : \A m \in N : n <= m
<1> DEFINE R == OpToRel(<, Nat)
<1>1. PICK n \in N : \A m \in N : ~(<<m, n>> \in R)
  BY WFMin, NatLessThanWellFounded, Zenon
<1>2. \A m \in N : m \in Nat /\ n \in Nat
  OBVIOUS
<1>3. \A m \in N : ~(m < n)
  BY <1>1, <1>2, Zenon DEF OpToRel
<1> HIDE DEF R
<1> QED BY <1>2, <1>3

(* What FlattenSeq makes of the first n of ss, for each n.                 *)
IsFlat(f, ss, n) == f = [i \in 1 .. n |-> IF i = 1 THEN ss[i] ELSE f[i - 1] \o ss[i]]

LEMMA FlatAt ==
  ASSUME NEW n \in Nat, NEW ss, NEW f, IsFlat(f, ss, n)
  PROVE  \A i \in 1 .. n : f[i] = IF i = 1 THEN ss[i] ELSE f[i - 1] \o ss[i]
<1> DEFINE x(j) == IF j = 1 THEN ss[j] ELSE f[j - 1] \o ss[j]
<1>1. f = [j \in 1 .. n |-> x(j)]
  BY DEF IsFlat
<1> HIDE DEF x
<1>2. \A i \in 1 .. n : f[i] = x(i)
  BY <1>1
<1> QED BY <1>2 DEF x

(* There is such a function: of the least n without one, the one for n - 1 *)
(* makes one.                                                              *)
LEMMA FlatExists ==
  ASSUME NEW S, NEW ss \in Seq(Seq(S))
  PROVE  \A n \in 0 .. Len(ss) : \E f : IsFlat(f, ss, n) /\ \A i \in 1 .. n : f[i] \in Seq(S)
<1> DEFINE N == {n \in 0 .. Len(ss) : ~\E f : IsFlat(f, ss, n) /\ \A i \in 1 .. n : f[i] \in Seq(S)}
<1>1. ASSUME NEW n \in N, \A m \in N : n <= m
      PROVE  FALSE
  <2>1. n \in Nat /\ n <= Len(ss) /\ Len(ss) \in Nat
    OBVIOUS
  <2>2. CASE n = 0
    <3> DEFINE f == [i \in 1 .. 0 |-> <<>>]
    <3>1. IsFlat(f, ss, 0) /\ \A i \in 1 .. 0 : f[i] \in Seq(S)
      BY DEF IsFlat
    <3> HIDE DEF f
    <3> QED BY <2>2, <3>1
  <2>3. CASE n # 0
    <3> DEFINE k == n - 1
    <3>1. k \in 0 .. Len(ss) /\ n = k + 1 /\ k \in Nat
      BY <2>1, <2>3
    <3>0. k \notin N
      <4> HIDE DEF N
      <4> QED BY <1>1, <2>1
    <3> HIDE DEF k
    <3>2. PICK f : IsFlat(f, ss, k) /\ \A i \in 1 .. k : f[i] \in Seq(S)
      BY <3>0, <3>1
    <3>9. \A i \in 1 .. k : f[i] = IF i = 1 THEN ss[i] ELSE f[i - 1] \o ss[i]
      BY <3>1, <3>2, FlatAt
    <3> DEFINE x == IF n = 1 THEN ss[n] ELSE f[k] \o ss[n]
               g == [i \in 1 .. n |-> IF i = n THEN x ELSE f[i]]
    <3>3. ss[n] \in Seq(S) /\ x \in Seq(S)
      <4>1. ss[n] \in Seq(S)
        BY <2>1, <2>3, <3>1
      <4>2. n # 1 => f[k] \in Seq(S)
        BY <3>1, <2>1, <3>2
      <4> QED BY <4>1, <4>2
    <3>4. \A i \in 1 .. n : g[i] \in Seq(S)
      <4> HIDE DEF x
      <4> QED BY <3>1, <3>2, <3>3
    <3>5. ASSUME NEW i \in 1 .. n
          PROVE  g[i] = IF i = 1 THEN ss[i] ELSE g[i - 1] \o ss[i]
      <4>1. CASE i = n
        <5>1. n # 1 => g[n - 1] = f[k] /\ n - 1 = k
          BY <2>1, <2>3, <3>1
        <5> QED BY <2>1, <2>3, <4>1, <5>1
      <4>2. CASE i # n
        <5>1. g[i] = f[i] /\ i \in 1 .. k /\ (i # 1 => g[i - 1] = f[i - 1])
          BY <2>1, <3>1, <4>2
        <5>2. f[i] = IF i = 1 THEN ss[i] ELSE f[i - 1] \o ss[i]
          BY <3>9, <5>1
        <5> QED BY <5>1, <5>2
      <4> QED BY <4>1, <4>2
    <3>6. IsFlat(g, ss, n)
      <4>1. g = [i \in 1 .. n |-> g[i]]
        OBVIOUS
      <4> HIDE DEF g
      <4>2. [i \in 1 .. n |-> g[i]] =
              [i \in 1 .. n |-> IF i = 1 THEN ss[i] ELSE g[i - 1] \o ss[i]]
        BY <3>5
      <4> QED BY <4>1, <4>2 DEF IsFlat
    <3> HIDE DEF g
    <3> QED BY <3>4, <3>6
  <2> QED BY <2>2, <2>3
<1>2. N \in SUBSET Nat
  OBVIOUS
<1>3. N = {}
  <2> HIDE DEF N
  <2> QED BY <1>1, <1>2, Least
<1> QED BY <1>3

(* And no two: they would differ at a least place.                         *)
LEMMA FlatUnique ==
  ASSUME NEW n \in Nat, NEW ss, NEW f, NEW g, IsFlat(f, ss, n), IsFlat(g, ss, n)
  PROVE  f = g
<1> DEFINE N == {i \in 1 .. n : f[i] # g[i]}
<1>1. ASSUME NEW i \in N, \A j \in N : i <= j
      PROVE  FALSE
  <2>1. /\ f[i] = IF i = 1 THEN ss[i] ELSE f[i - 1] \o ss[i]
        /\ g[i] = IF i = 1 THEN ss[i] ELSE g[i - 1] \o ss[i]
    BY FlatAt
  <2>2. i # 1 => f[i - 1] = g[i - 1]
    <3>1. i # 1 => i - 1 \in 1 .. n /\ i - 1 \notin N
      BY <1>1
    <3> QED BY <3>1
  <2> QED BY <2>1, <2>2
<1>2. N \in SUBSET Nat
  OBVIOUS
<1>3. N = {}
  <2> HIDE DEF N
  <2> QED BY <1>1, <1>2, Least
<1>4. f = [i \in 1 .. n |-> f[i]] /\ g = [i \in 1 .. n |-> g[i]]
  BY DEF IsFlat
<1> QED BY <1>3, <1>4

(* So FlattenSeq, which is the last value of one that it chooses, can be   *)
(* computed.                                                               *)
Flat(ss) == FlattenSeq(ss)

LEMMA FlatIs ==
  ASSUME NEW S, NEW ss \in Seq(Seq(S)), Len(ss) # 0, NEW f, IsFlat(f, ss, Len(ss))
  PROVE  Flat(ss) = f[Len(ss)]
<1> DEFINE c == CHOOSE g : IsFlat(g, ss, Len(ss))
<1>1. IsFlat(c, ss, Len(ss))
  OBVIOUS
<1>2. c = f
  <2> HIDE DEF c
  <2> QED BY <1>1, FlatUnique
<1>3. Flat(ss) = c[Len(ss)]
  BY DEF Flat, FlattenSeq, IsFlat
<1> QED BY <1>2, <1>3

(* One more sequence is put at the end.                                    *)
LEMMA FlatAppend ==
  ASSUME NEW S, NEW ss \in Seq(Seq(S)), NEW e \in Seq(S)
  PROVE  /\ Flat(ss) \in Seq(S) /\ (ss = <<>> => Flat(ss) = <<>>)
         /\ Flat(Append(ss, e)) = Flat(ss) \o e
<1> DEFINE n == Len(ss)
           es == Append(ss, e)
           k == n + 1
<1>1. /\ es \in Seq(Seq(S)) /\ Len(es) = k /\ n \in Nat /\ k \in Nat /\ k = n + 1
      /\ \A i \in 1 .. n : es[i] = ss[i]
      /\ es[k] = e
  OBVIOUS
<1>2. PICK f : IsFlat(f, ss, n) /\ \A i \in 1 .. n : f[i] \in Seq(S)
  BY FlatExists
<1>3. Flat(ss) = IF n = 0 THEN <<>> ELSE f[n]
  <2>1. n = 0 => Flat(ss) = ss /\ ss = <<>>
    BY DEF Flat, FlattenSeq
  <2>2. n # 0 => Flat(ss) = f[n]
    BY <1>2, FlatIs
  <2> QED BY <2>1, <2>2
<1>4. Flat(ss) \in Seq(S)
  <2>1. n # 0 => n \in 1 .. n
    BY <1>1
  <2>2. n # 0 => f[n] \in Seq(S)
    BY <1>2, <2>1
  <2> QED BY <1>3, <2>2
<1>5. PICK g : IsFlat(g, es, k) /\ \A i \in 1 .. k : g[i] \in Seq(S)
  <2> HIDE DEF es, n, k
  <2>1. k \in 0 .. Len(es)
    BY <1>1
  <2> QED BY <1>1, <2>1, FlatExists
<1>12. \A i \in 1 .. k : g[i] = IF i = 1 THEN es[i] ELSE g[i - 1] \o es[i]
  <2>1. k \in Nat
    BY <1>1
  <2> HIDE DEF es, n, k
  <2> QED BY <2>1, <1>5, FlatAt
<1>6. Flat(es) = g[k]
  <2> HIDE DEF es, n, k
  <2> QED BY <1>1, <1>5, FlatIs
<1>7. g[k] = IF n = 0 THEN e ELSE g[n] \o e
  <2> HIDE DEF es, n, k
  <2>1. k \in 1 .. k
    BY <1>1
  <2>2. g[k] = IF k = 1 THEN es[k] ELSE g[k - 1] \o es[k]
    BY <1>12, <2>1
  <2>3. k - 1 = n /\ (k = 1 <=> n = 0)
    BY <1>1
  <2> QED BY <1>1, <2>2, <2>3
<1>10. ss = <<>> => Flat(ss) = <<>>
  BY <1>3
<1>8. CASE n = 0
  <2>1. <<>> \o e = e
    OBVIOUS
  <2> QED BY <1>3, <1>4, <1>6, <1>7, <1>8, <2>1
<1>9. CASE n # 0
  <2> DEFINE h == [i \in 1 .. n |-> g[i]]
  <2>1. IsFlat(h, ss, n)
    <3>1. ASSUME NEW i \in 1 .. n PROVE h[i] = IF i = 1 THEN ss[i] ELSE h[i - 1] \o ss[i]
      <4>1. g[i] = IF i = 1 THEN es[i] ELSE g[i - 1] \o es[i]
        <5> HIDE DEF es, n, k
        <5>1. i \in 1 .. k
          BY <1>1
        <5> QED BY <1>12, <5>1
      <4>2. h[i] = g[i] /\ es[i] = ss[i] /\ (i # 1 => h[i - 1] = g[i - 1])
        <5> HIDE DEF es
        <5> QED BY <1>1
      <4> QED BY <4>1, <4>2
    <3>2. h = [i \in 1 .. n |-> h[i]]
      OBVIOUS
    <3> HIDE DEF h, n
    <3>3. [i \in 1 .. n |-> h[i]] =
            [i \in 1 .. n |-> IF i = 1 THEN ss[i] ELSE h[i - 1] \o ss[i]]
      BY <3>1
    <3> QED BY <3>2, <3>3 DEF IsFlat
  <2>2. h[n] = g[n]
    BY <1>1, <1>9
  <2>3. Flat(ss) = h[n]
    <3> HIDE DEF h
    <3>1. Len(ss) # 0 /\ IsFlat(h, ss, Len(ss)) /\ Len(ss) = n
      BY <1>9, <2>1
    <3>2. Flat(ss) = h[Len(ss)]
      <4> HIDE DEF n
      <4> QED BY <3>1, FlatIs
    <3> QED BY <3>1, <3>2
  <2>4. g[k] = g[n] \o e
    BY <1>7, <1>9
  <2> HIDE DEF h, n, es, k
  <2>5. Flat(es) = Flat(ss) \o e
    BY <1>6, <2>2, <2>3, <2>4
  <2> QED BY <1>4, <1>9, <1>10, <2>5 DEF es
<1> QED BY <1>4, <1>8, <1>9, <1>10

(* What two sequences of sequences are together, end to end.               *)
Splits(ss, tt) == Flat(ss \o tt) = Flat(ss) \o Flat(tt)

LEMMA SplitsStep ==
  ASSUME NEW S, NEW ss \in Seq(Seq(S)), NEW p \in Seq(Seq(S)), NEW e \in Seq(S),
         Splits(ss, p)
  PROVE  Splits(ss, Append(p, e))
<1>1. PICK q, x, y : q = ss \o p /\ x = Flat(ss) /\ y = Flat(p)
  OBVIOUS
<1>2. q \in Seq(Seq(S)) /\ ss \o Append(p, e) = Append(q, e)
  BY <1>1
<1>3. Flat(Append(q, e)) = Flat(q) \o e /\ Flat(Append(p, e)) = y \o e
  BY <1>1, <1>2, FlatAppend
<1>4. x \in Seq(S) /\ y \in Seq(S)
  BY <1>1, FlatAppend
<1>5. (x \o y) \o e = x \o (y \o e)
  BY <1>4
<1>6. Flat(q) = x \o y
  BY <1>1 DEF Splits
<1>7. Flat(Append(q, e)) = x \o Flat(Append(p, e))
  BY <1>1, <1>3, <1>5, <1>6
<1> QED BY <1>1, <1>2, <1>7 DEF Splits

LEMMA FlatConcat ==
  ASSUME NEW S, NEW ss \in Seq(Seq(S)), NEW tt \in Seq(Seq(S))
  PROVE  Flat(ss \o tt) = Flat(ss) \o Flat(tt)
<1> DEFINE part(n) == SubSeq(tt, 1, n)
           N == {n \in 0 .. Len(tt) : ~Splits(ss, part(n))}
<1>1. ASSUME NEW n \in N, \A m \in N : n <= m
      PROVE  FALSE
  <2>1. n \in Nat /\ n <= Len(tt) /\ Len(tt) \in Nat
    OBVIOUS
  <2>2. CASE n = 0
    <3>1. part(n) = <<>> /\ ss \o <<>> = ss
      BY <2>2
    <3>2. Flat(<<>>) = <<>> /\ Flat(ss) \in Seq(S)
      <4>1. <<>> \in Seq(Seq(S)) /\ <<>> \in Seq(S)
        OBVIOUS
      <4> QED BY <4>1, FlatAppend
    <3>3. Flat(ss) \o <<>> = Flat(ss)
      BY <3>2
    <3> HIDE DEF part
    <3> QED BY <3>1, <3>2, <3>3 DEF Splits
  <2>3. CASE n # 0
    <3> DEFINE k == n - 1
               p == part(k)
               e == tt[n]
    <3>1. /\ k \in 0 .. Len(tt) /\ ~(n <= k)
          /\ p \in Seq(Seq(S)) /\ e \in Seq(S)
          /\ part(n) = Append(p, e)
      BY <2>1, <2>3
    <3>2. k \notin N
      <4> HIDE DEF N, k
      <4> QED BY <1>1, <3>1
    <3>3. Splits(ss, p)
      BY <3>1, <3>2
    <3> HIDE DEF p, e
    <3>4. Splits(ss, Append(p, e))
      BY <3>1, <3>3, SplitsStep
    <3> HIDE DEF part
    <3> QED BY <3>1, <3>4
  <2> QED BY <2>2, <2>3
<1>2. N \in SUBSET Nat
  OBVIOUS
<1>3. N = {}
  <2> HIDE DEF N
  <2> QED BY <1>1, <1>2, Least
<1>4. Len(tt) \in 0 .. Len(tt) /\ part(Len(tt)) = tt
  OBVIOUS
<1> HIDE DEF part
<1> QED BY <1>3, <1>4 DEF Splits

(* The first sequence comes first.                                         *)
LEMMA FlatCons ==
  ASSUME NEW S, NEW a \in Seq(S), NEW tt \in Seq(Seq(S))
  PROVE  Flat(<<a>> \o tt) = a \o Flat(tt)
<1> DEFINE x == <<a>>
           z == <<>>
<1>1. /\ x \in Seq(Seq(S)) /\ z \in Seq(Seq(S)) /\ z \in Seq(S)
      /\ x = Append(z, a) /\ z \o a = a
  OBVIOUS
<1> HIDE DEF x, z
<1>2. Flat(z) = z
  BY <1>1, FlatAppend DEF z
<1>3. Flat(x) = a
  BY <1>1, <1>2, FlatAppend
<1>4. Flat(x \o tt) = Flat(x) \o Flat(tt)
  BY <1>1, FlatConcat
<1> QED BY <1>3, <1>4 DEF x

--------------------------------------------------------------------------------
(* A byte, of however many documents.                                     *)
Octet == [doc : Nat, token : Tokens]

WireTypes ==
  /\ sent \in Seq(Documents)
  /\ wire \in Seq(Octet) /\ head \in Seq(Octet)
  /\ out \in Seq(Seq(Octet))

(* The bytes of each text of s.                                            *)
All(s) == [i \in DOMAIN s |-> Bytes(i, s[i])]

(* The bytes of a text are as many as its tokens, and at least one.        *)
LEMMA BytesOf ==
  ASSUME Texts, NEW n \in Nat, NEW d \in Documents
  PROVE  /\ d \in Seq(Tokens) /\ d # <<>> /\ Len(d) \in Nat /\ Len(d) > 0
         /\ Bytes(n, d) \in Seq(Octet) /\ Len(Bytes(n, d)) = Len(d)
         /\ \A i \in 1 .. Len(d) : Bytes(n, d)[i] = [doc |-> n, token |-> d[i]]
<1>1. d \in Seq(Tokens) /\ d # <<>>
  BY DEF Texts
<1>2. Len(d) \in Nat /\ Len(d) > 0 /\ DOMAIN d = 1 .. Len(d)
      /\ \A i \in 1 .. Len(d) : d[i] \in Tokens
  BY <1>1
<1>3. Bytes(n, d) = [i \in 1 .. Len(d) |-> [doc |-> n, token |-> d[i]]]
  BY <1>2 DEF Bytes
<1>4. \A i \in 1 .. Len(d) : [doc |-> n, token |-> d[i]] \in Octet
  BY <1>2 DEF Octet
<1>5. Bytes(n, d) \in Seq(Octet) /\ Len(Bytes(n, d)) = Len(d)
  BY <1>2, <1>3, <1>4
<1> QED BY <1>1, <1>2, <1>3, <1>5

LEMMA ByteOf ==
  ASSUME Texts, NEW n \in Nat, NEW d \in Documents, NEW b, b = Bytes(n, d)
  PROVE  /\ b \in Seq(Octet) /\ Len(b) = Len(d)
         /\ \A j \in 1 .. Len(b) : b[j] \in Octet /\ b[j].doc = n /\ b[j].token = d[j]
<1>1. /\ Len(d) \in Nat /\ DOMAIN d = 1 .. Len(d)
      /\ \A j \in 1 .. Len(d) : d[j] \in Tokens
  BY DEF Texts
<1>2. b = [j \in 1 .. Len(d) |-> [doc |-> n, token |-> d[j]]]
  BY <1>1 DEF Bytes
<1>3. \A j \in 1 .. Len(d) : [doc |-> n, token |-> d[j]] \in Octet
  BY <1>1 DEF Octet
<1>4. b \in Seq(Octet) /\ Len(b) = Len(d)
  BY <1>1, <1>2, <1>3
<1>5. \A j \in 1 .. Len(d) : b[j] \in Octet /\ b[j].doc = n /\ b[j].token = d[j]
  BY <1>2, <1>3
<1> QED BY <1>4, <1>5

LEMMA AllOf ==
  ASSUME Texts, NEW s \in Seq(Documents)
  PROVE  /\ All(s) \in Seq(Seq(Octet)) /\ Len(All(s)) = Len(s)
         /\ \A i \in 1 .. Len(s) : All(s)[i] = Bytes(i, s[i])
<1>1. /\ Len(s) \in Nat /\ DOMAIN s = 1 .. Len(s)
      /\ \A i \in 1 .. Len(s) : i \in Nat /\ s[i] \in Documents
  OBVIOUS
<1>2. \A i \in 1 .. Len(s) : Bytes(i, s[i]) \in Seq(Octet)
  BY <1>1, BytesOf
<1>3. All(s) = [i \in 1 .. Len(s) |-> Bytes(i, s[i])]
  BY <1>1 DEF All
<1> QED BY <1>1, <1>2, <1>3

(* A text that is written adds its bytes at the end.                       *)
LEMMA AllAppend ==
  ASSUME Texts, NEW s \in Seq(Documents), NEW d \in Documents
  PROVE  All(Append(s, d)) = Append(All(s), Bytes(Len(s) + 1, d))
<1>1. PICK t, a, b, e, n :
        /\ t = Append(s, d) /\ a = All(s) /\ b = All(t)
        /\ n = Len(s) + 1 /\ e = Bytes(n, d)
  OBVIOUS
<1>2. /\ t \in Seq(Documents) /\ Len(t) = n /\ n \in Nat /\ Len(s) \in Nat
      /\ t[n] = d /\ \A i \in 1 .. Len(s) : t[i] = s[i]
  BY <1>1
<1>3. /\ a \in Seq(Seq(Octet)) /\ Len(a) = Len(s)
      /\ \A i \in 1 .. Len(s) : a[i] = Bytes(i, s[i])
  BY <1>1, AllOf
<1>4. /\ b \in Seq(Seq(Octet)) /\ Len(b) = n
      /\ \A i \in 1 .. n : b[i] = Bytes(i, t[i])
  BY <1>1, <1>2, AllOf
<1>5. e \in Seq(Octet)
  BY <1>1, <1>2, BytesOf
<1>6. b[n] = e
  BY <1>1, <1>2, <1>4
<1>7. \A i \in 1 .. Len(s) : b[i] = a[i]
  BY <1>1, <1>2, <1>3, <1>4
<1>8. /\ Append(a, e) \in Seq(Seq(Octet)) /\ Len(Append(a, e)) = n
      /\ \A i \in 1 .. n : Append(a, e)[i] = IF i = n THEN e ELSE a[i]
  BY <1>1, <1>2, <1>3, <1>5
<1>9. \A i \in 1 .. n : b[i] = Append(a, e)[i]
  BY <1>1, <1>2, <1>6, <1>7, <1>8
<1>10. b = Append(a, e)
  BY <1>4, <1>8, <1>9, SeqEqual
<1> QED BY <1>1, <1>10

(* The inductive invariant of BytesConserved is that and the types.        *)
Conserved == WireTypes /\ BytesConserved

LEMMA ConservedIs ==
  ASSUME WireTypes
  PROVE  BytesConserved
           <=> (source # "failed" => (Flat(out) \o head) \o wire = Flat(All(sent)))
BY DEF BytesConserved, All, Flat

LEMMA ConservedInit ==
  ASSUME PipelineInit
  PROVE  Conserved
<1>1. WireTypes
  BY DEF PipelineInit, WireTypes
<1>2. All(sent) = <<>>
  BY DEF PipelineInit, All
<1>3. Flat(<<>>) = <<>>
  <2>1. <<>> \in Seq(Seq(Octet)) /\ <<>> \in Seq(Octet)
    OBVIOUS
  <2> QED BY <2>1, FlatAppend
<1>4. (Flat(out) \o head) \o wire = Flat(All(sent))
  BY <1>2, <1>3 DEF PipelineInit
<1> QED BY <1>1, <1>4, ConservedIs DEF Conserved

LEMMA ConservedWrite ==
  ASSUME Texts, Conserved, NEW d \in Documents, Write(d)
  PROVE  Conserved'
<1>1. PICK b : b = Bytes(Len(sent) + 1, d)
  OBVIOUS
<1>2. /\ source = "open" /\ source' = source
      /\ sent' = Append(sent, d) /\ wire' = wire \o b
      /\ head' = head /\ out' = out
  BY <1>1 DEF Write
<1>3. sent \in Seq(Documents) /\ Len(sent) + 1 \in Nat
  BY DEF Conserved, WireTypes
<1>4. b \in Seq(Octet)
  BY <1>1, <1>3, BytesOf
<1>5. WireTypes'
  BY <1>2, <1>4 DEF Conserved, WireTypes
<1>6. (Flat(out) \o head) \o wire = Flat(All(sent))
  BY <1>2, ConservedIs DEF Conserved
<1>7. PICK x, y, a : x = Flat(out) \o head /\ a = All(sent) /\ y = Flat(a)
  OBVIOUS
<1>8. x \in Seq(Octet) /\ a \in Seq(Seq(Octet)) /\ y \in Seq(Octet)
  <2>1. Flat(out) \in Seq(Octet)
    BY FlatAppend DEF Conserved, WireTypes
  <2>2. x \in Seq(Octet)
    BY <2>1, <1>7 DEF Conserved, WireTypes
  <2>3. a \in Seq(Seq(Octet))
    BY <1>3, <1>7, AllOf
  <2> QED BY <1>7, <2>2, <2>3, FlatAppend
<1>9. All(sent') = Append(a, b)
  BY <1>1, <1>2, <1>3, <1>7, AllAppend
<1>10. Flat(Append(a, b)) = y \o b
  BY <1>4, <1>7, <1>8, FlatAppend
<1>11. x \o (wire \o b) = (x \o wire) \o b
  <2>1. wire \in Seq(Octet)
    BY DEF Conserved, WireTypes
  <2> QED BY <1>4, <1>8, <2>1
<1>12. (Flat(out') \o head') \o wire' = Flat(All(sent'))
  BY <1>2, <1>6, <1>7, <1>9, <1>10, <1>11
<1>13. WireTypes' => (BytesConserved'
           <=> (source' # "failed" => (Flat(out') \o head') \o wire' = Flat(All(sent'))))
  BY DEF BytesConserved, All, Flat
<1> QED BY <1>5, <1>12, <1>13 DEF Conserved

LEMMA ConservedIsNext ==
  WireTypes' =>
    (BytesConserved'
       <=> (source' # "failed" => (Flat(out') \o head') \o wire' = Flat(All(sent'))))
BY DEF BytesConserved, All, Flat

(* What a step of the transform does to its four variables.                *)
LEMMA TransformIs ==
  ASSUME WireTypes, NEW n \in 1 .. Len(wire), Transform(n)
  PROVE  \E c, w \in Seq(Octet) :
           /\ wire = c \o w /\ wire' = w /\ Len(c) = n
           /\ head \o c \in Seq(Octet)
           /\ \/ /\ Parses(Text(head \o c))
                 /\ out' = Append(out, head \o c) /\ head' = <<>>
              \/ /\ ~Parses(Text(head \o c))
                 /\ out' = out /\ head' = head \o c
           /\ glued' = (glued \/ c[1].doc # c[n].doc)
<1>1. PICK c, w : c = SubSeq(wire, 1, n) /\ w = SubSeq(wire, n + 1, Len(wire))
  OBVIOUS
<1>2. c \in Seq(Octet) /\ w \in Seq(Octet) /\ Len(c) = n /\ c \o w = wire
  <2>1. wire \in Seq(Octet)
    BY DEF WireTypes
  <2>2. c \in Seq(Octet) /\ w \in Seq(Octet) /\ Len(c) = n
    BY <1>1, <2>1
  <2>3. c \o w = SubSeq(wire, 1, Len(wire))
    BY <1>1, <2>1
  <2>4. SubSeq(wire, 1, Len(wire)) = wire
    BY <2>1
  <2> QED BY <2>2, <2>3, <2>4
<1>3. head \o c \in Seq(Octet)
  BY <1>2 DEF WireTypes
<1>4. /\ wire' = w
      /\ out' = IF Parses(Text(head \o c)) THEN Append(out, head \o c) ELSE out
      /\ head' = IF Parses(Text(head \o c)) THEN <<>> ELSE head \o c
      /\ glued' = (glued \/ c[1].doc # c[n].doc)
  BY <1>1, Zenon DEF Transform, Concat, Kept
<1>5. PICK p \in BOOLEAN : p <=> Parses(Text(head \o c))
  OBVIOUS
<1>6. CASE Parses(Text(head \o c))
  BY <1>2, <1>3, <1>4, <1>6, Zenon
<1>7. CASE ~Parses(Text(head \o c))
  BY <1>2, <1>3, <1>4, <1>7, Zenon
<1> QED BY <1>6, <1>7

LEMMA ConservedTransform ==
  ASSUME Texts, Conserved, NEW n \in 1 .. Len(wire), Transform(n)
  PROVE  Conserved'
<1>1. WireTypes /\ sent' = sent /\ source' = source
  BY Zenon DEF Conserved, Transform
<1>2. PICK c, w \in Seq(Octet) :
        /\ wire = c \o w /\ wire' = w /\ Len(c) = n
        /\ head \o c \in Seq(Octet)
        /\ \/ /\ Parses(Text(head \o c))
              /\ out' = Append(out, head \o c) /\ head' = <<>>
           \/ /\ ~Parses(Text(head \o c))
              /\ out' = out /\ head' = head \o c
        /\ glued' = (glued \/ c[1].doc # c[n].doc)
  BY <1>1, TransformIs
<1>3. PICK x, h, t : x = Flat(out) /\ h = head /\ t = h \o c
  OBVIOUS
<1>4. x \in Seq(Octet) /\ h \in Seq(Octet) /\ t \in Seq(Octet) /\ out \in Seq(Seq(Octet))
  BY <1>1, <1>2, <1>3, FlatAppend DEF WireTypes
<1>5. (x \o (h \o c)) \o w = (x \o h) \o (c \o w)
  <2>1. (x \o h) \o c = x \o (h \o c)
    BY <1>4
  <2>2. PICK z : z = x \o h
    OBVIOUS
  <2>3. z \in Seq(Octet)
    BY <1>4, <2>2
  <2>4. (z \o c) \o w = z \o (c \o w)
    BY <2>3
  <2> QED BY <2>1, <2>2, <2>4
<1>6. WireTypes' /\ Flat(out') \o head' = x \o t
  <2>1. CASE out' = Append(out, t) /\ head' = <<>>
    <3>1. out' \in Seq(Seq(Octet)) /\ head' \in Seq(Octet)
      BY <1>4, <2>1
    <3>2. Flat(out') = x \o t
      BY <1>3, <1>4, <2>1, FlatAppend
    <3>3. x \o t \in Seq(Octet)
      BY <1>4
    <3>4. (x \o t) \o <<>> = x \o t
      BY <3>3
    <3>5. Flat(out') \o head' = x \o t
      BY <2>1, <3>2, <3>4
    <3> QED BY <1>1, <1>2, <3>1, <3>5 DEF WireTypes
  <2>2. CASE out' = out /\ head' = t
    <3>1. out' \in Seq(Seq(Octet)) /\ head' \in Seq(Octet)
      BY <1>4, <2>2
    <3>2. Flat(out') \o head' = x \o t
      BY <1>3, <2>2
    <3> QED BY <1>1, <1>2, <3>1, <3>2 DEF WireTypes
  <2> QED BY <1>2, <1>3, <2>1, <2>2
<1>7. (Flat(out') \o head') \o wire' = (Flat(out) \o head) \o wire
  BY <1>2, <1>3, <1>5, <1>6
<1>8. source # "failed" => (Flat(out) \o head) \o wire = Flat(All(sent))
  BY <1>1, ConservedIs DEF Conserved
<1>9. source' # "failed" => (Flat(out') \o head') \o wire' = Flat(All(sent'))
  BY <1>1, <1>7, <1>8
<1> QED BY <1>6, <1>9, ConservedIsNext DEF Conserved

LEMMA ConservedStep ==
  ASSUME Texts, Conserved, [PipelineNext]_pipelineVars
  PROVE  Conserved'
<1>1. ASSUME NEW d \in Documents, Write(d) PROVE Conserved'
  BY <1>1, ConservedWrite
<1>2. ASSUME NEW n \in 1 .. Len(wire), Transform(n) PROVE Conserved'
  BY <1>2, ConservedTransform
<1>3. ASSUME /\ UNCHANGED <<sent, head, out>>
             /\ wire' = wire \/ (source' = "failed" /\ wire' = <<>>)
             /\ source = "failed" => source' = "failed"
      PROVE  Conserved'
  <2>4. wire \in Seq(Octet) /\ <<>> \in Seq(Octet)
    BY DEF Conserved, WireTypes
  <2>5. wire' \in Seq(Octet)
    BY <1>3, <2>4
  <2>1. WireTypes'
    BY <1>3, <2>5 DEF Conserved, WireTypes
  <2>2. source # "failed" => (Flat(out) \o head) \o wire = Flat(All(sent))
    BY ConservedIs DEF Conserved
  <2>3. source' # "failed" => (Flat(out') \o head') \o wire' = Flat(All(sent'))
    BY <1>3, <2>2
  <2> QED BY <2>1, <2>3, ConservedIsNext DEF Conserved
<1>4. ASSUME End PROVE Conserved'
  BY <1>3, <1>4 DEF End
<1>5. ASSUME Fail PROVE Conserved'
  BY <1>3, <1>5 DEF Fail
<1>6. ASSUME Finish PROVE Conserved'
  BY <1>3, <1>6 DEF Finish
<1>7. ASSUME UNCHANGED pipelineVars PROVE Conserved'
  BY <1>3, <1>7 DEF pipelineVars
<1> QED BY <1>1, <1>2, <1>4, <1>5, <1>6, <1>7 DEF PipelineNext

(* What the handler's values became is all there, in its order: what has   *)
(* been parsed, what is kept for the next chunk, and what is on its way    *)
(* (BufferToJsonTransform._transform).                                     *)
THEOREM Conservation == PipelineSpec => []BytesConserved
<1> Texts
  BY DocumentsAssumption
<1>1. PipelineInit => Conserved
  BY ConservedInit
<1>2. Conserved /\ [PipelineNext]_pipelineVars => Conserved'
  BY ConservedStep
<1>3. Conserved => BytesConserved
  BY DEF Conserved
<1> QED BY <1>1, <1>2, <1>3, PTL DEF PipelineSpec

--------------------------------------------------------------------------------
(* A sequence is a prefix of one that begins with its elements.            *)
LEMMA PrefixIs ==
  ASSUME NEW S, NEW s \in Seq(S), NEW t \in Seq(S), Len(s) <= Len(t),
         \A j \in 1 .. Len(s) : s[j] = t[j]
  PROVE  IsPrefix(s, t)
<1>1. Len(s) \in Nat /\ Len(t) \in Nat
  OBVIOUS
<1>2. PICK u, v : u = SubSeq(s, 1, Len(s)) /\ v = SubSeq(t, 1, Len(s))
  OBVIOUS
<1>3. /\ u \in Seq(S) /\ v \in Seq(S) /\ Len(u) = Len(s) /\ Len(v) = Len(s)
      /\ \A j \in 1 .. Len(s) : u[j] = s[j] /\ v[j] = t[j]
  BY <1>1, <1>2
<1>4. u = v
  <2>1. \A j \in 1 .. Len(u) : u[j] = v[j]
    BY <1>3
  <2> QED BY <1>3, <2>1, SeqEqual
<1> QED BY <1>2, <1>4 DEF IsPrefix

(* A text that does not begin like a number is the beginning of no other.  *)
LEMMA NoPrefix ==
  ASSUME Texts, NEW d \in Documents, NEW e \in Documents, IsPrefix(d, e),
         d[1] \notin Digits
  PROVE  d = e
<1>1. 1 \in DOMAIN d
  BY DEF Texts
<1>2. d[1] \in Range(d)
  BY <1>1 DEF Range
<1> QED BY <1>2 DEF Texts

(* The text of some bytes is as long as they are.                          *)
LEMMA TextOf ==
  ASSUME NEW t \in Seq(Octet)
  PROVE  /\ Text(t) \in Seq(Tokens) /\ Len(Text(t)) = Len(t)
         /\ \A j \in 1 .. Len(t) : Text(t)[j] = t[j].token
<1>1. Len(t) \in Nat /\ DOMAIN t = 1 .. Len(t) /\ \A j \in 1 .. Len(t) : t[j] \in Octet
  OBVIOUS
<1>2. \A j \in 1 .. Len(t) : t[j].token \in Tokens
  BY <1>1 DEF Octet
<1>3. Text(t) = [j \in 1 .. Len(t) |-> t[j].token]
  BY <1>1 DEF Text
<1> QED BY <1>1, <1>2, <1>3

(* Bytes that begin with those of text d parse if they are just those.     *)
LEMMA ParsesIs ==
  ASSUME Texts, NEW d \in Documents, d[1] \notin Digits,
         NEW t \in Seq(Octet), Len(t) > 0,
         \A j \in 1 .. Len(t) : j <= Len(d) => t[j].token = d[j]
  PROVE  Parses(Text(t)) <=> Len(t) = Len(d)
<1>1. PICK e : e = Text(t)
  OBVIOUS
<1>2. /\ e \in Seq(Tokens) /\ Len(e) = Len(t) /\ Len(e) \in Nat
      /\ \A j \in 1 .. Len(e) : e[j] = t[j].token
  BY <1>1, TextOf
<1>3. d \in Seq(Tokens) /\ Len(d) \in Nat /\ Len(d) > 0
  BY DEF Texts
<1>4. \A j \in 1 .. Len(e) : j <= Len(d) => e[j] = d[j]
  BY <1>2
<1>5. e[1] = d[1] /\ 1 \in DOMAIN e
  BY <1>2, <1>3, <1>4
<1>6. ASSUME Parses(e), Len(e) # Len(d)
      PROVE  FALSE
  <2>1. ~(Range(e) \subseteq Digits)
    BY <1>5 DEF Range
  <2>2. e \in Documents
    BY <1>6, <2>1 DEF Parses
  <2>3. CASE Len(e) < Len(d)
    <3>1. Len(e) <= Len(d) /\ \A j \in 1 .. Len(e) : e[j] = d[j]
      BY <1>2, <1>3, <1>4, <2>3
    <3>2. IsPrefix(e, d)
      BY <1>2, <1>3, <3>1, PrefixIs
    <3> QED BY <1>5, <1>6, <2>2, <3>2, NoPrefix
  <2>4. CASE Len(e) > Len(d)
    <3>1. Len(d) <= Len(e) /\ \A j \in 1 .. Len(d) : d[j] = e[j]
      BY <1>2, <1>3, <1>4, <2>4
    <3>2. IsPrefix(d, e)
      BY <1>2, <1>3, <3>1, PrefixIs
    <3> QED BY <1>6, <2>2, <3>2, NoPrefix
  <2> QED BY <1>2, <1>3, <1>6, <2>3, <2>4
<1>7. ASSUME Len(e) = Len(d)
      PROVE  Parses(e)
  <2>1. \A j \in 1 .. Len(e) : e[j] = d[j]
    BY <1>3, <1>4, <1>7
  <2>2. e = d
    BY <1>2, <1>3, <1>7, <2>1, SeqEqual
  <2> QED BY <2>2 DEF Parses
<1> QED BY <1>1, <1>2, <1>6, <1>7

(* The bytes of the texts of s after the first k.                          *)
Rest(s, k) == [j \in 1 .. Len(s) - k |-> Bytes(k + j, s[k + j])]

LEMMA RestOf ==
  ASSUME Texts, NEW s \in Seq(Documents), NEW k \in Nat, k <= Len(s)
  PROVE  /\ Rest(s, k) \in Seq(Seq(Octet)) /\ Len(Rest(s, k)) = Len(s) - k
         /\ \A j \in 1 .. Len(s) - k : Rest(s, k)[j] = Bytes(k + j, s[k + j])
<1>1. Len(s) \in Nat /\ Len(s) - k \in Nat
  OBVIOUS
<1>2. ASSUME NEW j \in 1 .. Len(s) - k
      PROVE  Bytes(k + j, s[k + j]) \in Seq(Octet)
  <2>1. PICK n, d : n = k + j /\ d = s[k + j]
    OBVIOUS
  <2>2. n \in Nat /\ d \in Documents
    BY <1>1, <2>1
  <2>3. Bytes(n, d) \in Seq(Octet)
    BY <2>2, BytesOf
  <2> QED BY <2>1, <2>3
<1> DEFINE f(j) == Bytes(k + j, s[k + j])
           m == Len(s) - k
<1>3. \A j \in 1 .. m : f(j) \in Seq(Octet)
  BY <1>2
<1>4. Rest(s, k) = [j \in 1 .. m |-> f(j)]
  BY DEF Rest
<1>5. m \in Nat
  BY <1>1
<1> HIDE DEF f, m
<1>6. [j \in 1 .. m |-> f(j)] \in Seq(Seq(Octet)) /\ Len([j \in 1 .. m |-> f(j)]) = m
  BY <1>3, <1>5
<1>7. \A j \in 1 .. m : [i \in 1 .. m |-> f(i)][j] = f(j)
  OBVIOUS
<1> QED BY <1>4, <1>6, <1>7 DEF f, m

(* A text that is written is the last of the rest.                         *)
LEMMA RestAppend ==
  ASSUME Texts, NEW s \in Seq(Documents), NEW k \in Nat, k <= Len(s), NEW d \in Documents
  PROVE  Rest(Append(s, d), k) = Append(Rest(s, k), Bytes(Len(s) + 1, d))
<1>1. PICK t, a, b, e, n, m, l :
        /\ t = Append(s, d) /\ a = Rest(s, k) /\ b = Rest(t, k)
        /\ n = Len(s) + 1 /\ e = Bytes(n, d) /\ m = Len(s) - k /\ l = m + 1
  OBVIOUS
<1>2. /\ t \in Seq(Documents) /\ Len(t) = n /\ n \in Nat /\ Len(s) \in Nat
      /\ t[n] = d /\ \A i \in 1 .. Len(s) : t[i] = s[i]
      /\ m \in Nat /\ l \in Nat /\ k <= Len(t) /\ Len(t) - k = l /\ k + l = n
  BY <1>1
<1>3. /\ a \in Seq(Seq(Octet)) /\ Len(a) = m
      /\ \A j \in 1 .. m : a[j] = Bytes(k + j, s[k + j])
  BY <1>1, RestOf
<1>4. /\ b \in Seq(Seq(Octet)) /\ Len(b) = l
      /\ \A j \in 1 .. l : b[j] = Bytes(k + j, t[k + j])
  <2>1. t \in Seq(Documents) /\ k <= Len(t) /\ b = Rest(t, k) /\ l = Len(t) - k
    BY <1>1, <1>2
  <2> QED BY <2>1, RestOf
<1>5. e \in Seq(Octet)
  BY <1>1, <1>2, BytesOf
<1>6. b[l] = e
  <2>1. l \in 1 .. l
    BY <1>1, <1>2
  <2>2. b[l] = Bytes(k + l, t[k + l])
    BY <1>4, <2>1
  <2> QED BY <1>1, <1>2, <2>2
<1>7. ASSUME NEW j \in 1 .. m PROVE b[j] = a[j]
  <2>1. j \in 1 .. l /\ k + j \in 1 .. Len(s)
    BY <1>1, <1>2
  <2>2. b[j] = Bytes(k + j, t[k + j]) /\ t[k + j] = s[k + j]
    BY <1>2, <1>4, <2>1
  <2> QED BY <1>3, <2>2
<1>8. /\ Append(a, e) \in Seq(Seq(Octet)) /\ Len(Append(a, e)) = l
      /\ \A j \in 1 .. l : Append(a, e)[j] = IF j = l THEN e ELSE a[j]
  <2>1. m \in Nat /\ l = m + 1 /\ a \in Seq(Seq(Octet)) /\ Len(a) = m
    BY <1>1, <1>2, <1>3
  <2>2. /\ Append(a, e) \in Seq(Seq(Octet)) /\ Len(Append(a, e)) = Len(a) + 1
        /\ \A j \in 1 .. Len(a) : Append(a, e)[j] = a[j]
        /\ Append(a, e)[Len(a) + 1] = e
    BY <1>5, <2>1, AppendProperties
  <2> QED BY <2>1, <2>2
<1>9. ASSUME NEW j \in 1 .. l PROVE b[j] = Append(a, e)[j]
  <2>1. CASE j = l
    BY <1>6, <1>8, <2>1
  <2>2. CASE j # l
    <3>1. j \in 1 .. m
      BY <1>1, <1>2, <2>2
    <3> QED BY <1>7, <1>8, <2>2, <3>1
  <2> QED BY <2>1, <2>2
<1>10. b = Append(a, e)
  BY <1>4, <1>8, <1>9, SeqEqual
<1> QED BY <1>1, <1>10

(* A sequence of which q is all but the first element.                     *)
LEMMA ConsIs ==
  ASSUME NEW S, NEW a \in S, NEW q \in Seq(S), NEW r \in Seq(S), Len(r) = Len(q) + 1,
         r[1] = a, \A j \in 1 .. Len(q) : r[j + 1] = q[j]
  PROVE  r = <<a>> \o q
<1>1. PICK p : p = <<a>> \o q
  OBVIOUS
<1>2. /\ p \in Seq(S) /\ Len(p) = Len(q) + 1
      /\ \A j \in 1 .. Len(q) + 1 : p[j] = IF j = 1 THEN a ELSE q[j - 1]
  BY <1>1
<1>3. ASSUME NEW j \in 1 .. Len(r) PROVE r[j] = p[j]
  <2>1. CASE j = 1
    BY <1>2, <2>1
  <2>2. CASE j # 1
    <3>1. PICK l : l = j - 1
      OBVIOUS
    <3>2. l \in 1 .. Len(q) /\ j = l + 1 /\ j \in 1 .. Len(q) + 1
      BY <2>2, <3>1
    <3>3. r[l + 1] = q[l] /\ p[j] = q[l]
      BY <1>2, <2>2, <3>1, <3>2
    <3> QED BY <3>2, <3>3
  <2> QED BY <2>1, <2>2
<1>4. r = p
  BY <1>2, <1>3, SeqEqual
<1> QED BY <1>1, <1>4

(* The bytes of the next text, and those of later ones.                    *)
Later(i) == {b \in Octet : b.doc > i}

LEMMA RestFirst ==
  ASSUME Texts, NEW s \in Seq(Documents), NEW k \in Nat, k < Len(s)
  PROVE  \E F \in Seq(Later(k + 1)) :
           /\ F = Flat(Rest(s, k + 1))
           /\ Flat(Rest(s, k)) = Bytes(k + 1, s[k + 1]) \o F
<1>1. PICK r, q, a, i, m, n :
        /\ i = k + 1 /\ r = Rest(s, k) /\ q = Rest(s, i)
        /\ a = Bytes(i, s[i]) /\ m = Len(s) - i /\ n = Len(s) - k
  OBVIOUS
<1>2. /\ i \in Nat /\ i <= Len(s) /\ Len(s) \in Nat /\ k <= Len(s)
      /\ s[i] \in Documents /\ m \in Nat /\ n \in Nat /\ n = m + 1
  BY <1>1
<1>3. /\ r \in Seq(Seq(Octet)) /\ Len(r) = n
      /\ \A j \in 1 .. n : r[j] = Bytes(k + j, s[k + j])
  <2>1. k <= Len(s)
    BY <1>2
  <2> QED BY <1>1, <2>1, RestOf
<1>4. /\ q \in Seq(Seq(Octet)) /\ Len(q) = m
      /\ \A j \in 1 .. m : q[j] = Bytes(i + j, s[i + j])
  BY <1>1, <1>2, RestOf
<1>5. a \in Seq(Octet)
  BY <1>1, <1>2, BytesOf
<1>6. r = <<a>> \o q
  <2>1. ASSUME NEW j \in 1 .. m PROVE r[j + 1] = q[j]
    <3>1. PICK l : l = j + 1
      OBVIOUS
    <3>2. l \in 1 .. n /\ k + l = i + j
      BY <1>1, <1>2, <3>1
    <3>3. r[l] = Bytes(k + l, s[k + l]) /\ q[j] = Bytes(i + j, s[i + j])
      BY <1>3, <1>4, <3>2
    <3> QED BY <3>1, <3>2, <3>3
  <2>2. r[1] = a
    <3>1. 1 \in 1 .. n
      BY <1>2
    <3>2. r[1] = Bytes(k + 1, s[k + 1])
      BY <1>3, <3>1
    <3> QED BY <1>1, <3>2
  <2> QED BY <1>2, <1>3, <1>4, <1>5, <2>1, <2>2, ConsIs
<1>7. Flat(r) = a \o Flat(q)
  BY <1>4, <1>5, <1>6, FlatCons
<1>8. q \in Seq(Seq(Later(i)))
  <2>1. ASSUME NEW j \in 1 .. m PROVE q[j] \in Seq(Later(i))
    <3>1. PICK u, d, b : u = i + j /\ d = s[i + j] /\ b = Bytes(u, d)
      OBVIOUS
    <3>2. u \in Nat /\ d \in Documents /\ u > i /\ i \in Nat
      BY <1>1, <1>2, <3>1
    <3>3. b \in Seq(Octet) /\ \A l \in 1 .. Len(b) : b[l] \in Octet /\ b[l].doc = u
      BY <3>1, <3>2, ByteOf
    <3>5. \A l \in 1 .. Len(b) : b[l] \in Later(i)
      BY <3>2, <3>3 DEF Later
    <3>6. b \in Seq(Later(i))
      BY <3>3, <3>5
    <3> QED BY <1>4, <3>1, <3>6
  <2> QED BY <1>2, <1>4, <2>1
<1>9. Flat(q) \in Seq(Later(i))
  BY <1>8, FlatAppend
<1> QED BY <1>1, <1>7, <1>9

(* t and then w are a and then b.                                          *)
Same(t, w, a, b) == t \o w = a \o b

(* What that says of each of the four.                                     *)
Alike(t, w, a, b) ==
  /\ Len(t) + Len(w) = Len(a) + Len(b)
  /\ \A j \in 1 .. Len(t) : j <= Len(a) => t[j] = a[j]
  /\ \A j \in 1 .. Len(t) :
       j > Len(a) => j - Len(a) \in 1 .. Len(b) /\ t[j] = b[j - Len(a)]
  /\ Len(t) = Len(a) => t = a /\ w = b

LEMMA SameIs ==
  ASSUME NEW t \in Seq(Octet), NEW w \in Seq(Octet), NEW a \in Seq(Octet), NEW b \in Seq(Octet),
         Same(t, w, a, b)
  PROVE  Alike(t, w, a, b)
<1>1. PICK u, v : u = t \o w /\ v = a \o b
  OBVIOUS
<1>2. u = v
  BY <1>1 DEF Same
<1>3. /\ Len(u) = Len(t) + Len(w)
      /\ \A j \in 1 .. Len(t) : u[j] = t[j]
      /\ \A j \in 1 .. Len(w) : u[Len(t) + j] = w[j]
  BY <1>1
<1>4. /\ Len(v) = Len(a) + Len(b)
      /\ \A j \in 1 .. Len(a) : v[j] = a[j]
      /\ \A j \in 1 .. Len(b) : v[Len(a) + j] = b[j]
  BY <1>1
<1>5. Len(t) \in Nat /\ Len(w) \in Nat /\ Len(a) \in Nat /\ Len(b) \in Nat
  OBVIOUS
<1>6. Len(t) + Len(w) = Len(a) + Len(b)
  BY <1>2, <1>3, <1>4
<1>7. ASSUME NEW j \in 1 .. Len(t), j <= Len(a) PROVE t[j] = a[j]
  BY <1>2, <1>3, <1>4, <1>5, <1>7
<1>8. ASSUME NEW j \in 1 .. Len(t), j > Len(a)
      PROVE  j - Len(a) \in 1 .. Len(b) /\ t[j] = b[j - Len(a)]
  <2>1. PICK l : l = j - Len(a)
    OBVIOUS
  <2>2. l \in 1 .. Len(b) /\ j = Len(a) + l
    BY <1>5, <1>6, <1>8, <2>1
  <2>3. v[Len(a) + l] = b[l] /\ u[j] = t[j]
    BY <1>3, <1>4, <2>2
  <2> QED BY <1>2, <2>1, <2>2, <2>3
<1>9. ASSUME Len(t) = Len(a) PROVE t = a /\ w = b
  <2>1. \A j \in 1 .. Len(t) : t[j] = a[j]
    BY <1>5, <1>7, <1>9
  <2>2. t = a
    BY <1>9, <2>1, SeqEqual
  <2>3. Len(w) = Len(b)
    BY <1>5, <1>6, <1>9
  <2>4. \A j \in 1 .. Len(w) : w[j] = b[j]
    BY <1>2, <1>3, <1>4, <1>9, <2>3
  <2>5. w = b
    BY <2>3, <2>4, SeqEqual
  <2> QED BY <2>2, <2>5
<1> QED BY <1>6, <1>7, <1>8, <1>9 DEF Alike

(* A chunk c, with which what is kept, h, became t, and after which w is   *)
(* left of the bytes a of a text d, and those of later ones, b.            *)
CutAt(d, a, b, h, c, t, w) ==
  /\ Parses(Text(t)) <=> Len(t) = Len(d)
  /\ Len(t) = Len(d) => t = a /\ w = b
  /\ Len(t) <= Len(d) => c[1].doc = c[Len(c)].doc
  /\ Len(h) < Len(d) /\ Len(t) > Len(d) => c[1].doc # c[Len(c)].doc

LEMMA Framing ==
  ASSUME Texts, NEW d \in Documents, d[1] \notin Digits, NEW i \in Nat,
         NEW a, a = Bytes(i, d), NEW b \in Seq(Later(i)),
         NEW h \in Seq(Octet), NEW c \in Seq(Octet), NEW w \in Seq(Octet), NEW t \in Seq(Octet),
         Len(t) = Len(h) + Len(c), \A j \in 1 .. Len(c) : c[j] = t[Len(h) + j],
         Same(t, w, a, b), Len(c) > 0
  PROVE  CutAt(d, a, b, h, c, t, w)
<1>1. /\ a \in Seq(Octet) /\ Len(a) = Len(d)
      /\ \A j \in 1 .. Len(a) : a[j].doc = i /\ a[j].token = d[j]
  BY ByteOf
<1>2. b \in Seq(Octet) /\ \A j \in 1 .. Len(b) : b[j].doc > i
  <2>1. \A j \in 1 .. Len(b) : b[j] \in Later(i)
    OBVIOUS
  <2>2. \A j \in 1 .. Len(b) : b[j] \in Octet /\ b[j].doc > i
    BY <2>1 DEF Later
  <2>3. Later(i) \subseteq Octet
    BY DEF Later
  <2> QED BY <2>2, <2>3, SeqMonotonic
<1>3. /\ Len(t) + Len(w) = Len(a) + Len(b)
      /\ \A j \in 1 .. Len(t) : j <= Len(a) => t[j] = a[j]
      /\ \A j \in 1 .. Len(t) :
           j > Len(a) => j - Len(a) \in 1 .. Len(b) /\ t[j] = b[j - Len(a)]
      /\ Len(t) = Len(a) => t = a /\ w = b
  <2>1. a \in Seq(Octet) /\ b \in Seq(Octet)
    BY <1>1, <1>2
  <2>2. Alike(t, w, a, b)
    BY <2>1, SameIs
  <2> QED BY <2>2 DEF Alike
<1>4. Len(t) \in Nat /\ Len(h) \in Nat /\ Len(c) \in Nat /\ Len(d) \in Nat /\ Len(t) > 0
  BY <1>1
<1>5. ASSUME NEW j \in 1 .. Len(t), j <= Len(d)
      PROVE  t[j].token = d[j] /\ t[j].doc = i
  <2>1. t[j] = a[j] /\ j \in 1 .. Len(a)
    BY <1>1, <1>3, <1>4, <1>5
  <2>2. a[j].doc = i /\ a[j].token = d[j]
    BY <1>1, <2>1
  <2> QED BY <2>1, <2>2
<1>6. Parses(Text(t)) <=> Len(t) = Len(d)
  BY <1>4, <1>5, ParsesIs
<1>7. c[1] = t[Len(h) + 1] /\ c[Len(c)] = t[Len(t)]
  BY <1>4
<1>8. ASSUME Len(t) <= Len(d) PROVE c[1].doc = c[Len(c)].doc
  BY <1>4, <1>5, <1>7, <1>8
<1>9. ASSUME Len(h) < Len(d), Len(t) > Len(d) PROVE c[1].doc # c[Len(c)].doc
  <2>1. c[1].doc = i
    BY <1>4, <1>5, <1>7, <1>9
  <2>2. t[Len(t)].doc > i
    <3>1. PICK l : l = Len(t) - Len(a)
      OBVIOUS
    <3>2. l \in 1 .. Len(b) /\ t[Len(t)] = b[l]
      BY <1>1, <1>3, <1>4, <1>9, <3>1
    <3> QED BY <1>2, <3>2
  <2> QED BY <1>7, <2>1, <2>2
<1> QED BY <1>1, <1>3, <1>6, <1>8, <1>9 DEF CutAt

--------------------------------------------------------------------------------
(* How the two ends of the pipeline stand to each other.                   *)
EndsAgree ==
  /\ source \in {"open", "ended", "failed"} /\ sink \in {"open", "ended", "failed"}
  /\ glued \in BOOLEAN
  /\ source = "failed" <=> sink = "failed"
  /\ sink = "ended" => source = "ended" /\ wire = <<>>

(* The bytes that are kept or on their way are those of the texts of s     *)
(* after the first k.                                                      *)
Ahead(s, k) == source # "failed" => head \o wire = Flat(Rest(s, k))

(* What is kept is the beginning of the next text, or, when bytes of two   *)
(* texts came in a chunk, more than all of it.                             *)
Keeps(s, k) ==
  IF k = Len(s) THEN head = <<>> /\ ~glued
  ELSE IF glued THEN Len(head) > Len(s[k + 1]) ELSE Len(head) < Len(s[k + 1])

Frames ==
  /\ Len(out) <= Len(sent)
  /\ \A i \in 1 .. Len(out) : out[i] = Bytes(i, sent[i])
  /\ Ahead(sent, Len(out))
  /\ Keeps(sent, Len(out))

(* The inductive invariant of ParsedUnlessGlued: what has been parsed are  *)
(* the first texts, what is kept never reaches the end of the next one     *)
(* unless it passed it with a chunk of two, which is why it then never     *)
(* parses again.                                                           *)
Framed == WireTypes /\ EndsAgree /\ (Delimited => Frames)

LEMMA FramedInit ==
  ASSUME PipelineInit
  PROVE  Framed
<1>1. WireTypes /\ EndsAgree
  <2>1. WireTypes
    BY DEF PipelineInit, WireTypes
  <2>2. EndsAgree
    BY DEF PipelineInit, EndsAgree
  <2> QED BY <2>1, <2>2
<1>2. Len(out) = 0 /\ Len(sent) = 0 /\ head = <<>> /\ wire = <<>> /\ ~glued
  BY DEF PipelineInit
<1>3. Rest(sent, 0) = <<>>
  <2>1. 1 .. Len(sent) - 0 = {}
    BY <1>2
  <2> QED BY <2>1 DEF Rest
<1>4. Flat(<<>>) = <<>>
  <2>1. <<>> \in Seq(Seq(Octet)) /\ <<>> \in Seq(Octet)
    OBVIOUS
  <2> QED BY <2>1, FlatAppend
<1>5. Ahead(sent, Len(out)) /\ Keeps(sent, Len(out))
  BY <1>2, <1>3, <1>4 DEF Ahead, Keeps
<1> QED BY <1>1, <1>2, <1>5 DEF Framed, Frames

LEMMA FramedWrite ==
  ASSUME Texts, Framed, NEW d \in Documents, Write(d)
  PROVE  Framed'
<1>1. PICK k, n, s, b :
        k = Len(out) /\ n = Len(sent) + 1 /\ s = Append(sent, d) /\ b = Bytes(n, d)
  OBVIOUS
<1>2. /\ source = "open" /\ source' = source /\ sink' = sink /\ glued' = glued
      /\ sent' = s /\ wire' = wire \o b
      /\ head' = head /\ out' = out
  BY <1>1 DEF Write
<1>3. /\ sent \in Seq(Documents) /\ Len(sent) \in Nat /\ n \in Nat
      /\ out \in Seq(Seq(Octet)) /\ k \in Nat
      /\ wire \in Seq(Octet) /\ head \in Seq(Octet)
  BY <1>1 DEF Framed, WireTypes
<1>4. b \in Seq(Octet) /\ d \in Seq(Tokens) /\ Len(d) \in Nat /\ Len(d) > 0
  BY <1>1, <1>3, BytesOf
<1>5. /\ s \in Seq(Documents) /\ Len(s) = n /\ s[n] = d
      /\ \A i \in 1 .. Len(sent) : s[i] = sent[i]
  BY <1>1, <1>3
<1>6. WireTypes'
  <2>1. wire \o b \in Seq(Octet)
    BY <1>3, <1>4
  <2> QED BY <1>2, <1>3, <1>5, <2>1 DEF WireTypes
<1>7. EndsAgree'
  BY <1>2 DEF Framed, EndsAgree
<1>8. Delimited' => Delimited
  <2>1. DOMAIN sent = 1 .. Len(sent) /\ DOMAIN s = 1 .. n
    BY <1>3, <1>5
  <2>2. \A i \in 1 .. Len(sent) : i \in 1 .. n
    BY <1>1, <1>3
  <2> QED BY <1>2, <1>5, <2>1, <2>2 DEF Delimited
<1>9. ASSUME Frames PROVE Frames'
  <2>1. /\ k <= Len(sent) /\ Ahead(sent, k) /\ Keeps(sent, k)
        /\ \A i \in 1 .. k : out[i] = Bytes(i, sent[i])
    BY <1>1, <1>9 DEF Frames
  <2>2. k <= Len(s) /\ \A i \in 1 .. k : out[i] = Bytes(i, s[i])
    <3>1. \A i \in 1 .. k : s[i] = sent[i]
      BY <1>3, <1>5, <2>1
    <3> QED BY <1>1, <1>3, <1>5, <2>1, <3>1
  <2>3. head \o (wire \o b) = Flat(Rest(s, k))
    <3>1. PICK r, y : r = Rest(sent, k) /\ y = Flat(r)
      OBVIOUS
    <3>2. r \in Seq(Seq(Octet))
      BY <1>3, <2>1, <3>1, RestOf
    <3>3. y = head \o wire
      BY <1>2, <2>1, <3>1 DEF Ahead
    <3>4. Rest(s, k) = Append(r, b)
      BY <1>1, <1>3, <2>1, <3>1, RestAppend
    <3>5. Flat(Append(r, b)) = y \o b
      BY <1>4, <3>1, <3>2, FlatAppend
    <3>6. (head \o wire) \o b = head \o (wire \o b)
      BY <1>3, <1>4
    <3> QED BY <3>3, <3>4, <3>5, <3>6
  <2>4. Keeps(s, k)'
    <3>1. CASE k = Len(sent)
      <4>1. head = <<>> /\ ~glued /\ s[k + 1] = d /\ k # Len(s)
        BY <1>1, <1>3, <1>5, <2>1, <3>1 DEF Keeps
      <4>2. Len(head) = 0
        BY <4>1
      <4> QED BY <1>2, <1>4, <4>1, <4>2 DEF Keeps
    <3>2. CASE k # Len(sent)
      <4>1. k + 1 \in 1 .. Len(sent) /\ k # Len(s)
        BY <1>1, <1>3, <1>5, <2>1, <3>2
      <4>2. s[k + 1] = sent[k + 1]
        BY <1>5, <4>1
      <4> QED BY <1>2, <2>1, <3>2, <4>1, <4>2 DEF Keeps
    <3> QED BY <3>1, <3>2
  <2>5. Ahead(s, k)'
    BY <1>2, <2>3 DEF Ahead
  <2>6. out' = out /\ sent' = s /\ k = Len(out')
    BY <1>1, <1>2
  <2> QED BY <2>2, <2>4, <2>5, <2>6 DEF Frames
<1> QED BY <1>6, <1>7, <1>8, <1>9 DEF Framed

LEMMA FramedTransform ==
  ASSUME Texts, Framed, NEW n \in 1 .. Len(wire), Transform(n)
  PROVE  Framed'
<1>1. WireTypes /\ EndsAgree
  BY DEF Framed
<1>2. PICK c, w \in Seq(Octet) :
        /\ wire = c \o w /\ wire' = w /\ Len(c) = n
        /\ head \o c \in Seq(Octet)
        /\ \/ /\ Parses(Text(head \o c))
              /\ out' = Append(out, head \o c) /\ head' = <<>>
           \/ /\ ~Parses(Text(head \o c))
              /\ out' = out /\ head' = head \o c
        /\ glued' = (glued \/ c[1].doc # c[n].doc)
  BY <1>1, TransformIs
<1>3. sink = "open" /\ sent' = sent /\ source' = source /\ sink' = sink
  BY Zenon DEF Transform
<1>4. PICK h, t, k : h = head /\ t = head \o c /\ k = Len(out)
  OBVIOUS
<1>5. /\ h \in Seq(Octet) /\ t \in Seq(Octet) /\ k \in Nat /\ out \in Seq(Seq(Octet))
      /\ sent \in Seq(Documents) /\ Len(sent) \in Nat
  BY <1>1, <1>2, <1>4 DEF WireTypes
<1>6. /\ Len(t) = Len(h) + n /\ \A j \in 1 .. n : t[Len(h) + j] = c[j]
      /\ n \in Nat /\ n > 0
  <2>1. t = h \o c /\ Len(wire) \in Nat
    BY <1>1, <1>4 DEF WireTypes
  <2>2. n \in Nat /\ n > 0
    BY <2>1
  <2>3. /\ Len(t) = Len(h) + Len(c)
        /\ \A j \in 1 .. Len(c) : t[Len(h) + j] = c[j]
    BY <1>5, <2>1
  <2> QED BY <1>2, <2>2, <2>3
<1>7. \/ Parses(Text(t)) /\ out' = Append(out, t) /\ head' = <<>>
      \/ ~Parses(Text(t)) /\ out' = out /\ head' = t
  BY <1>2, <1>4
<1>8. WireTypes'
  <2>1. out' \in Seq(Seq(Octet)) /\ head' \in Seq(Octet)
    <3>1. Append(out, t) \in Seq(Seq(Octet)) /\ <<>> \in Seq(Octet)
      BY <1>5
    <3> QED BY <1>5, <1>7, <3>1
  <2> QED BY <1>2, <1>3, <1>5, <2>1 DEF WireTypes
<1>9. EndsAgree'
  BY <1>1, <1>2, <1>3 DEF EndsAgree
<1>10. Delimited' => Delimited
  BY <1>3 DEF Delimited
<1>11. ASSUME Delimited, Frames PROVE Frames'
  <2>1. /\ k <= Len(sent) /\ Ahead(sent, k) /\ Keeps(sent, k)
        /\ \A i \in 1 .. k : out[i] = Bytes(i, sent[i])
    BY <1>4, <1>11 DEF Frames
  <2>2. source # "failed"
    BY <1>1, <1>3 DEF EndsAgree
  <2>3. t \o w = Flat(Rest(sent, k))
    <3>1. head \o wire = Flat(Rest(sent, k))
      BY <2>1, <2>2 DEF Ahead
    <3>2. (h \o c) \o w = h \o (c \o w)
      <4>1. h \in Seq(Octet)
        BY <1>5
      <4> QED BY <4>1
    <3> QED BY <1>2, <1>4, <3>1, <3>2
  <2>4. k < Len(sent)
    <3>1. SUFFICES ASSUME k = Len(sent) PROVE FALSE
      BY <1>5, <2>1
    <3>2. Rest(sent, k) = <<>>
      <4>1. 1 .. Len(sent) - k = {}
        BY <1>5, <3>1
      <4> QED BY <4>1 DEF Rest
    <3>3. Flat(<<>>) = <<>>
      <4>1. <<>> \in Seq(Seq(Octet)) /\ <<>> \in Seq(Octet)
        OBVIOUS
      <4> QED BY <4>1, FlatAppend
    <3>4. t \o w = <<>>
      BY <2>3, <3>2, <3>3
    <3>5. Len(t \o w) = Len(t) + Len(w) /\ Len(t) \in Nat /\ Len(w) \in Nat
      BY <1>5
    <3>6. Len(h) \in Nat
      BY <1>5
    <3> QED BY <1>6, <3>4, <3>5, <3>6
  <2>5. PICK i, d, a, b : i = k + 1 /\ d = sent[i] /\ a = Bytes(i, d) /\ b = Flat(Rest(sent, i))
    OBVIOUS
  <2>6. i \in Nat /\ d \in Documents /\ i \in DOMAIN sent /\ i \in 1 .. Len(sent)
    BY <1>5, <2>4, <2>5
  <2>7. b \in Seq(Later(i)) /\ Same(t, w, a, b)
    <3>1. Flat(Rest(sent, k)) = a \o b /\ b \in Seq(Later(i))
      BY <1>5, <2>4, <2>5, RestFirst
    <3> QED BY <2>3, <3>1 DEF Same
  <2>8. d[1] \notin Digits /\ Len(d) \in Nat /\ Len(d) > 0
    <3>1. Head(d) \notin Digits
      BY <1>11, <2>5, <2>6 DEF Delimited
    <3>2. d \in Seq(Tokens) /\ d # <<>>
      BY <2>6 DEF Texts
    <3> QED BY <3>1, <3>2
  <2>9. /\ Parses(Text(t)) <=> Len(t) = Len(d)
        /\ Len(t) = Len(d) => t = a /\ w = b
        /\ Len(t) <= Len(d) => c[1].doc = c[n].doc
        /\ Len(h) < Len(d) /\ Len(t) > Len(d) => c[1].doc # c[n].doc
    <3>1. /\ Len(t) = Len(h) + Len(c) /\ Len(c) > 0
          /\ \A j \in 1 .. Len(c) : c[j] = t[Len(h) + j]
      BY <1>2, <1>6
    <3>2. Len(c) = n
      BY <1>2
    <3>3. CutAt(d, a, b, h, c, t, w)
      BY <1>5, <2>5, <2>6, <2>7, <2>8, <3>1, Framing
    <3> QED BY <3>2, <3>3 DEF CutAt
  <2>10. Len(t) \in Nat /\ Len(h) \in Nat /\ Len(t) > Len(h)
    BY <1>5, <1>6
  <2>11. IF glued THEN Len(h) > Len(d) ELSE Len(h) < Len(d)
    BY <1>4, <1>5, <2>1, <2>4, <2>5 DEF Keeps
  <2>12. CASE Len(t) = Len(d)
    <3>1. out' = Append(out, a) /\ head' = <<>> /\ wire' = b
      BY <1>2, <1>7, <2>9, <2>12
    <3>2. ~glued'
      <4>1. c[1].doc = c[n].doc
        BY <2>8, <2>9, <2>12
      <4>2. ~glued
        BY <2>8, <2>10, <2>11, <2>12
      <4> QED BY <1>2, <4>1, <4>2, Zenon
    <3>3. a \in Seq(Octet)
      BY <2>5, <2>6, BytesOf
    <3>4. /\ Len(out') = i /\ out'[i] = a
          /\ \A j \in 1 .. k : out'[j] = out[j]
      BY <1>4, <1>5, <2>5, <3>1, <3>3
    <3>5. \A j \in 1 .. i : out'[j] = Bytes(j, sent[j])
      <4>1. ASSUME NEW j \in 1 .. i PROVE out'[j] = Bytes(j, sent[j])
        <5>1. CASE j = i
          BY <2>5, <3>4, <5>1
        <5>2. CASE j # i
          <6>1. j \in 1 .. k
            BY <1>5, <2>5, <5>2
          <6> QED BY <2>1, <3>4, <6>1
        <5> QED BY <5>1, <5>2
      <4> QED BY <4>1
    <3>6. Ahead(sent, i)'
      <4>1. <<>> \o b = b
        BY <2>7
      <4> QED BY <1>3, <2>5, <3>1, <4>1 DEF Ahead
    <3>7. Keeps(sent, i)'
      <4>1. CASE i = Len(sent)
        BY <1>3, <3>1, <3>2, <4>1 DEF Keeps
      <4>2. CASE i # Len(sent)
        <5>1. sent[i + 1] \in Documents
          BY <1>5, <2>6, <4>2
        <5>2. Len(sent[i + 1]) > 0
          BY <5>1 DEF Texts
        <5>3. Len(head') = 0
          BY <3>1
        <5> QED BY <1>3, <3>2, <4>2, <5>2, <5>3 DEF Keeps
      <4> QED BY <4>1, <4>2
    <3>8. i <= Len(sent)
      BY <1>5, <2>6
    <3> QED BY <1>3, <3>4, <3>5, <3>6, <3>7, <3>8 DEF Frames
  <2>13. CASE Len(t) # Len(d)
    <3>1. out' = out /\ head' = t /\ wire' = w
      BY <1>2, <1>7, <2>9, <2>13
    <3>2. IF glued' THEN Len(t) > Len(d) ELSE Len(t) < Len(d)
      <4>1. glued' <=> glued \/ c[1].doc # c[n].doc
        BY <1>2, Zenon
      <4>2. CASE glued
        <5>1. Len(t) > Len(d)
          BY <2>8, <2>10, <2>11, <4>2
        <5> QED BY <4>1, <4>2, <5>1
      <4>3. CASE ~glued
        <5>1. Len(h) < Len(d)
          BY <2>11, <4>3
        <5>2. Len(t) < Len(d) => c[1].doc = c[n].doc
          BY <2>8, <2>9, <2>10
        <5>3. Len(t) > Len(d) => c[1].doc # c[n].doc
          BY <2>9, <5>1
        <5>4. Len(t) < Len(d) \/ Len(t) > Len(d)
          BY <2>8, <2>10, <2>13
        <5> QED BY <4>1, <4>3, <5>2, <5>3, <5>4
      <4> QED BY <4>2, <4>3
    <3>3. Ahead(sent, k)'
      BY <1>3, <2>3, <3>1 DEF Ahead
    <3>4. Keeps(sent, k)'
      BY <1>3, <2>4, <2>5, <3>1, <3>2 DEF Keeps
    <3>5. Len(out') = k
      BY <1>4, <3>1
    <3> QED BY <1>3, <2>1, <3>1, <3>3, <3>4, <3>5 DEF Frames
  <2> QED BY <2>12, <2>13
<1> QED BY <1>8, <1>9, <1>10, <1>11 DEF Framed

LEMMA FramedStep ==
  ASSUME Texts, Framed, [PipelineNext]_pipelineVars
  PROVE  Framed'
<1>1. ASSUME NEW d \in Documents, Write(d) PROVE Framed'
  BY <1>1, FramedWrite
<1>2. ASSUME NEW n \in 1 .. Len(wire), Transform(n) PROVE Framed'
  BY <1>2, FramedTransform
<1>3. ASSUME UNCHANGED <<sent, head, out, glued>>, WireTypes', EndsAgree',
             source' # "failed" => source # "failed" /\ wire' = wire
      PROVE  Framed'
  <2>1. Delimited' => Delimited
    BY <1>3 DEF Delimited
  <2>2. Frames => Frames'
    BY <1>3 DEF Frames, Ahead, Keeps
  <2> QED BY <1>3, <2>1, <2>2 DEF Framed
<1>8. WireTypes /\ EndsAgree /\ <<>> \in Seq(Octet)
  BY DEF Framed
<1>4. ASSUME End PROVE Framed'
  <2>1. EndsAgree'
    BY <1>4, <1>8 DEF End, EndsAgree
  <2>2. WireTypes'
    BY <1>4, <1>8 DEF End, WireTypes
  <2> QED BY <1>3, <1>4, <2>1, <2>2 DEF End
<1>5. ASSUME Fail PROVE Framed'
  <2>1. EndsAgree'
    BY <1>5, <1>8 DEF Fail, EndsAgree
  <2>2. WireTypes'
    BY <1>5, <1>8 DEF Fail, WireTypes
  <2> QED BY <1>3, <1>5, <2>1, <2>2 DEF Fail
<1>6. ASSUME Finish PROVE Framed'
  <2>1. EndsAgree'
    BY <1>6, <1>8 DEF Finish, EndsAgree
  <2>2. WireTypes'
    BY <1>6, <1>8 DEF Finish, WireTypes
  <2> QED BY <1>3, <1>6, <2>1, <2>2 DEF Finish
<1>7. ASSUME UNCHANGED pipelineVars PROVE Framed'
  <2>1. EndsAgree'
    BY <1>7, <1>8 DEF pipelineVars, EndsAgree
  <2>2. WireTypes'
    BY <1>7, <1>8 DEF pipelineVars, WireTypes
  <2> QED BY <1>3, <1>7, <2>1, <2>2 DEF pipelineVars
<1> QED BY <1>1, <1>2, <1>4, <1>5, <1>6, <1>7 DEF PipelineNext

LEMMA FramedParsed ==
  ASSUME Texts, Framed
  PROVE  ParsedUnlessGlued
<1>1. SUFFICES ASSUME Delimited
               PROVE  /\ IsPrefix([i \in DOMAIN out |-> Text(out[i])], sent)
                      /\ sink = "ended" => (Len(out) = Len(sent) <=> ~glued)
  BY DEF ParsedUnlessGlued
<1>2. /\ sent \in Seq(Documents) /\ Len(sent) \in Nat
      /\ out \in Seq(Seq(Octet)) /\ head \in Seq(Octet) /\ Len(out) \in Nat
      /\ DOMAIN out = 1 .. Len(out)
  BY DEF Framed, WireTypes
<1>3. PICK k : k = Len(out)
  OBVIOUS
<1>4. /\ k <= Len(sent) /\ k \in Nat /\ Ahead(sent, k) /\ Keeps(sent, k)
      /\ \A i \in 1 .. k : out[i] = Bytes(i, sent[i])
  BY <1>1, <1>2, <1>3 DEF Framed, Frames
<1>5. IsPrefix([i \in DOMAIN out |-> Text(out[i])], sent)
  <2>1. ASSUME NEW i \in 1 .. k PROVE Text(out[i]) = sent[i]
    <3>1. PICK b, d, e : b = out[i] /\ d = sent[i] /\ e = Text(b)
      OBVIOUS
    <3>2. d \in Documents /\ i \in Nat /\ b = Bytes(i, d)
      BY <1>2, <1>4, <3>1
    <3>3. /\ b \in Seq(Octet) /\ Len(b) = Len(d)
          /\ \A j \in 1 .. Len(b) : b[j].token = d[j]
      BY <3>2, ByteOf
    <3>4. /\ e \in Seq(Tokens) /\ Len(e) = Len(b)
          /\ \A j \in 1 .. Len(b) : e[j] = b[j].token
      BY <3>1, <3>3, TextOf
    <3>5. d \in Seq(Tokens)
      BY <3>2, BytesOf
    <3>6. \A j \in 1 .. Len(e) : e[j] = d[j]
      BY <3>3, <3>4
    <3>7. e = d
      BY <3>3, <3>4, <3>5, <3>6, SeqEqual
    <3> QED BY <3>1, <3>7
  <2>2. \A i \in 1 .. Len(sent) : sent[i] \in Seq(Tokens)
    <3>1. Documents \subseteq Seq(Tokens)
      BY DEF Texts
    <3>2. \A i \in 1 .. Len(sent) : sent[i] \in Documents
      BY <1>2
    <3> QED BY <3>1, <3>2
  <2>3. sent \in Seq(Seq(Tokens))
    <3>1. Documents \subseteq Seq(Tokens)
      BY DEF Texts
    <3> QED BY <1>2, <3>1, SeqMonotonic
  <2>4. PICK x : x = [i \in 1 .. k |-> Text(out[i])]
    OBVIOUS
  <2>5. \A i \in 1 .. k : x[i] = sent[i] /\ sent[i] \in Seq(Tokens)
    BY <1>2, <1>4, <2>1, <2>2, <2>4
  <2>6. x = [i \in 1 .. k |-> sent[i]]
    BY <2>1, <2>4
  <2>7. x \in Seq(Seq(Tokens)) /\ Len(x) = k
    BY <1>4, <2>5, <2>6
  <2>8. Len(x) <= Len(sent) /\ \A i \in 1 .. Len(x) : x[i] = sent[i]
    BY <1>4, <2>5, <2>7
  <2>9. IsPrefix(x, sent)
    BY <2>3, <2>7, <2>8, PrefixIs
  <2> QED BY <1>2, <1>3, <2>4, <2>9
<1>6. ASSUME sink = "ended" PROVE k = Len(sent) <=> ~glued
  <2>1. CASE k = Len(sent)
    BY <1>4, <2>1 DEF Keeps
  <2>2. CASE k # Len(sent)
    <3>1. k < Len(sent)
      BY <1>2, <1>4, <2>2
    <3>2. source # "failed" /\ wire = <<>>
      BY <1>6 DEF Framed, EndsAgree
    <3>3. PICK i, d, a, b : i = k + 1 /\ d = sent[i] /\ a = Bytes(i, d) /\ b = Flat(Rest(sent, i))
      OBVIOUS
    <3>4. i \in Nat /\ d \in Documents
      BY <1>2, <1>4, <3>1, <3>3
    <3>5. b \in Seq(Later(i)) /\ Flat(Rest(sent, k)) = a \o b
      BY <1>2, <1>4, <3>1, <3>3, RestFirst
    <3>6. head = a \o b
      <4>1. head \o <<>> = head
        BY <1>2
      <4> QED BY <1>4, <3>2, <3>5, <4>1 DEF Ahead
    <3>7. a \in Seq(Octet) /\ Len(a) = Len(d) /\ Len(d) \in Nat
      BY <3>3, <3>4, BytesOf
    <3>8. b \in Seq(Octet)
      <4>1. Later(i) \subseteq Octet
        BY DEF Later
      <4> QED BY <3>5, <4>1, SeqMonotonic
    <3>9. Len(a \o b) = Len(a) + Len(b) /\ Len(b) \in Nat
      BY <3>7, <3>8
    <3>10. ~(Len(head) < Len(d))
      BY <3>6, <3>7, <3>9
    <3> QED BY <1>4, <2>2, <3>3, <3>10 DEF Keeps
  <2> QED BY <2>1, <2>2
<1> QED BY <1>3, <1>5, <1>6

(* Values that do not begin like a number come out as they were sent, in   *)
(* their order; at the end of the stream all of them if and only if no     *)
(* chunk had bytes of two (BufferToJsonTransform._transform).              *)
THEOREM Parsing == PipelineSpec => []ParsedUnlessGlued
<1> Texts
  BY DocumentsAssumption
<1>1. PipelineInit => Framed
  BY FramedInit
<1>2. Framed /\ [PipelineNext]_pipelineVars => Framed'
  BY FramedStep
<1>3. Framed => ParsedUnlessGlued
  BY FramedParsed
<1> QED BY <1>1, <1>2, <1>3, PTL DEF PipelineSpec

================================================================================

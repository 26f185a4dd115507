-------------------------------- MODULE HttpCall --------------------------------
(***************************************************************************)
(* A call of a method that takes or returns a stream: it goes over HTTP    *)
(* (Client.makeHttpRequest), to an address that the client asks for over   *)
(* the broker (getHTTPSettingsFromRemoteService), and is served by         *)
(* Service.buildHTTPHandlers.  Replicas come and go, and an address may    *)
(* by then belong to another service.                                      *)
(*                                                                         *)
(* All calls are those of one client process.  The network, the clock and  *)
(* the handlers are free: a timer may go off at any time, and a handler    *)
(* may never return.                                                       *)
(***************************************************************************)
EXTENDS FiniteSets

CONSTANTS
  Calls,            \* calls of the client process, each made once
  Methods,          \* methods with useStream, of any service
  ServiceOf,        \* the service a method belongs to
  RequestStreams,   \* methods with useStream.request
  ResponseStreams,  \* methods with useStream.response
  Replicas,         \* replicas of services
  RunsService,      \* the service each replica runs
  Addresses,        \* host and port
  MayReturn,        \* what the handler of each method may come to
  None

(* What a handler comes to: a stream, another value, an error with a       *)
(* message, an error with an empty one.                                    *)
Results == {"stream", "value", "error", "silentError"}

Payloads == {"stream", "value"}
Errors == {"ServiceError", "Settings", "Connection", "Payload"}

ASSUME MethodsAssumption ==
  /\ RequestStreams \subseteq Methods
  /\ ResponseStreams \subseteq Methods
  /\ MayReturn \in [Methods -> SUBSET Results]
  /\ \A k \in Methods \ ResponseStreams : "stream" \notin MayReturn[k]
ASSUME NoneAssumption ==
  None \notin Addresses \cup Methods \cup Payloads \cup Errors \cup {"error"}

VARIABLES
  pc,        \* where each call is
  method,    \* what it asks for
  to,        \* the address it goes to
  result,    \* what the caller got
  asked,     \* calls whose question for an address is on its way
  told,      \* answers to those questions
  address,   \* where each replica listens, None if it is down
  job,       \* what has become of the HTTP request of each call, and where
  response,  \* the answer that the server sent
  computed,  \* history: what handlers returned for each method
  served     \* history: the replicas whose handler ran for each call

clientVars == <<pc, method, to, result>>
vars == <<clientVars, asked, told, address, job, response, computed, served>>

NoJob == [at |-> None, stage |-> "none"]
NoResponse == [status |-> 0, body |-> None]

TypeOK ==
  /\ pc \in [Calls -> {"idle", "settings", "connecting", "sent", "reading",
                       "resolved", "rejected", "lost"}]
  /\ method \in [Calls -> Methods \cup {None}]
  /\ to \in [Calls -> Addresses \cup {None}]
  /\ result \in [Calls -> Payloads \cup {"text"} \cup Errors \cup {None}]
  /\ asked \subseteq Calls
  /\ told \subseteq [call : Calls, address : Addresses]
  /\ address \in [Replicas -> Addresses \cup {None}]
  /\ job \in [Calls -> [at : Replicas \cup {None},
                        stage : {"none", "arrived", "handled", "answered", "cut"}]]
  /\ response \in [Calls -> [status : {0, 200, 500},
                             body : Payloads \cup {"error", None}]]
  /\ computed \in [Methods -> SUBSET Payloads]
  /\ served \in [Calls -> SUBSET Replicas]
  /\ \A r, q \in Replicas : address[r] = address[q] /\ r # q => address[r] = None
  /\ \A c \in Calls : pc[c] = "reading" => response[c].body # None
  /\ \A c \in Calls : result[c] = "Settings" => to[c] = None

Init ==
  /\ pc = [c \in Calls |-> "idle"]
  /\ method = [c \in Calls |-> None]
  /\ to = [c \in Calls |-> None]
  /\ result = [c \in Calls |-> None]
  /\ asked = {}
  /\ told = {}
  /\ address = [r \in Replicas |-> None]
  /\ job = [c \in Calls |-> NoJob]
  /\ response = [c \in Calls |-> NoResponse]
  /\ computed = [k \in Methods |-> {}]
  /\ served = [c \in Calls |-> {}]

Pending(c) == pc[c] \in {"settings", "connecting", "sent", "reading"}

Settle(c, state, value) ==
  /\ pc' = [pc EXCEPT ![c] = state]
  /\ result' = [result EXCEPT ![c] = value]

(* An error that nobody handles ends the process, with all its calls.      *)
ProcessEnds ==
  /\ pc' = [d \in Calls |-> IF Pending(d) THEN "lost" ELSE pc[d]]
  /\ UNCHANGED result

--------------------------------------------------------------------------------
(***************************************************************************)
(* The address                                                             *)
(***************************************************************************)

serverVars == <<address, job, response, computed, served>>

Request(c, k) ==
  /\ pc[c] = "idle"
  /\ pc' = [pc EXCEPT ![c] = "settings"]
  /\ method' = [method EXCEPT ![c] = k]
  /\ asked' = asked \cup {c}
  /\ UNCHANGED <<to, result, told, serverVars>>

(* runServiceMethodForHttp: a replica of the service answers.              *)
AnswerSettings(c, r) ==
  /\ c \in asked
  /\ address[r] # None
  /\ RunsService[r] = ServiceOf[method[c]]
  /\ asked' = asked \ {c}
  /\ told' = told \cup {[call |-> c, address |-> address[r]]}
  /\ UNCHANGED <<clientVars, serverVars>>

(* REQUEST_HTTP_SETTINGS_TIMEOUT, no responders, an answer with no address.*)
SettingsFail(c) ==
  /\ pc[c] = "settings"
  /\ Settle(c, "rejected", "Settings")
  /\ UNCHANGED <<method, to, asked, told, serverVars>>

(* Mutant: an address is taken whenever it comes. *)
Expected_Always(c) == pc[c] # "idle"

Expected(c) == pc[c] = "settings"

(* The address is there.  Too late, it is dropped.                         *)
RecvSettings(t) ==
  /\ told' = told \ {t}
  /\ \/ /\ Expected(t.call)
        /\ pc' = [pc EXCEPT ![t.call] = "connecting"]
        /\ to' = [to EXCEPT ![t.call] = t.address]
     \/ /\ ~Expected(t.call)
        /\ UNCHANGED <<pc, to>>
  /\ UNCHANGED <<method, result, asked, serverVars>>

--------------------------------------------------------------------------------
(***************************************************************************)
(* The HTTP request                                                        *)
(***************************************************************************)

(* The connection reaches whoever listens at the address, or nobody.       *)
Connect(c) ==
  /\ pc[c] = "connecting"
  /\ \/ \E r \in Replicas :
          /\ address[r] = to[c]
          /\ pc' = [pc EXCEPT ![c] = "sent"]
          /\ job' = [job EXCEPT ![c] = [at |-> r, stage |-> "arrived"]]
          /\ UNCHANGED result
     \/ /\ Settle(c, "rejected", "Connection")
        /\ UNCHANGED job
  /\ UNCHANGED <<method, to, asked, told, address, response, computed, served>>

(* The stream that the caller sends fails: request.destroy, once there is a*)
(* request; before that nobody listens for its error, unless the           *)
(* application does, and the process ends.                                 *)
PayloadFails(c) ==
  /\ method[c] \in RequestStreams
  /\ \/ pc[c] \in {"connecting", "sent"} /\ Settle(c, "rejected", "Payload")
     \/ pc[c] = "settings" /\ ProcessEnds
  /\ UNCHANGED <<method, to, asked, told, serverVars>>

(* Mutant: whatever the service, the method is looked up by its name. *)
RightUrl_NameOnly(c, r) == method[c] \in Methods

(* The URL names the service and the method, and this is the service.      *)
RightUrl(c, r) == RunsService[r] = ServiceOf[method[c]]

(* Nothing goes out once the client has hung up.                           *)
Answer(c, status, body) ==
  /\ job' = [job EXCEPT ![c].stage = "answered"]
  /\ response' = IF pc[c] = "sent"
                 THEN [response EXCEPT ![c] = [status |-> status, body |-> body]]
                 ELSE response

(* The server looks at the URL, reads the data unless they are a stream,   *)
(* and starts the handler.                                                 *)
Handle(c) ==
  LET r == job[c].at
  IN  /\ job[c].stage = "arrived"
      /\ \/ /\ RightUrl(c, r)
            /\ job' = [job EXCEPT ![c].stage = "handled"]
            /\ served' = [served EXCEPT ![c] = @ \cup {r}]
            /\ UNCHANGED response
         \/ /\ ~RightUrl(c, r)
            /\ Answer(c, 500, "error")
            /\ UNCHANGED served
      /\ UNCHANGED <<clientVars, asked, told, address, computed>>

(* makeHttpSingleResponse: !data.payload && data.error && data.error.message *)
Status(o) == IF o = "error" THEN 500 ELSE 200

(* The handler came to o: makeHttpStreamResponse, makeHttpSingleResponse.  *)
Return(c, o) ==
  /\ job[c].stage = "handled"
  /\ o \in MayReturn[method[c]]
  /\ Answer(c, Status(o), IF o \in Payloads THEN o ELSE "error")
  /\ computed' = [computed EXCEPT ![method[c]] = @ \cup ({o} \cap Payloads)]
  /\ UNCHANGED <<clientVars, asked, told, address, served>>

(* What a caller takes for its stream if the answer is not an error: the   *)
(* body, be it the handler's stream or the text of something else.         *)
AsStream(body) == IF body = "stream" THEN "stream" ELSE "text"

(* The head of the response: a stream is handed on at once, anything else  *)
(* has to be read.                                                         *)
RecvHead(c) ==
  /\ pc[c] = "sent"
  /\ response[c] # NoResponse
  /\ \/ /\ method[c] \in ResponseStreams /\ response[c].status # 500
        /\ Settle(c, "resolved", AsStream(response[c].body))
     \/ /\ method[c] \notin ResponseStreams \/ response[c].status = 500
        /\ pc' = [pc EXCEPT ![c] = "reading"]
        /\ UNCHANGED result
  /\ UNCHANGED <<method, to, asked, told, serverVars>>

RecvBody(c) ==
  /\ pc[c] = "reading"
  /\ \/ response[c].body = "error" /\ Settle(c, "rejected", "ServiceError")
     \/ response[c].body # "error" /\ Settle(c, "resolved", response[c].body)
  /\ UNCHANGED <<method, to, asked, told, serverVars>>

(* The connection is cut: an error of the request before the head of the   *)
(* response; after it, one that the function reading the body throws and   *)
(* nobody handles: the process ends, with all its calls.                   *)
Cut(c) ==
  /\ \/ /\ pc[c] = "sent"
        /\ Settle(c, "rejected", "Connection")
     \/ pc[c] = "reading" /\ ProcessEnds
  /\ UNCHANGED <<method, to, asked, told, serverVars>>

--------------------------------------------------------------------------------
(* A replica listens, at an address that nobody has.                       *)
Up(r, a) ==
  /\ address[r] = None
  /\ \A q \in Replicas : address[q] # a
  /\ address' = [address EXCEPT ![r] = a]
  /\ UNCHANGED <<clientVars, asked, told, job, response, computed, served>>

(* It ends, and what it was working on is cut.                             *)
Down(r) ==
  /\ address[r] # None
  /\ address' = [address EXCEPT ![r] = None]
  /\ job' = [c \in Calls |->
       IF job[c].at = r /\ job[c].stage \in {"arrived", "handled"}
       THEN [job[c] EXCEPT !.stage = "cut"] ELSE job[c]]
  /\ UNCHANGED <<clientVars, asked, told, response, computed, served>>

CallStep(c) ==
  \/ \E k \in Methods : Request(c, k)
  \/ \E r \in Replicas : AnswerSettings(c, r)
  \/ SettingsFail(c)
  \/ Connect(c)
  \/ PayloadFails(c)
  \/ Handle(c)
  \/ \E o \in Results : Return(c, o)
  \/ RecvHead(c)
  \/ RecvBody(c)
  \/ Cut(c)

Next ==
  \/ \E c \in Calls : CallStep(c)
  \/ \E t \in told : RecvSettings(t)
  \/ \E r \in Replicas : Down(r) \/ \E a \in Addresses : Up(r, a)

Spec == Init /\ [][Next]_vars

(* The client's own steps, and the notice of a connection that was cut by  *)
(* the end of a replica.  Nothing is assumed of the handlers.              *)
Fairness ==
  \A c \in Calls :
    /\ WF_vars(SettingsFail(c))
    /\ WF_vars(Connect(c))
    /\ WF_vars(RecvHead(c))
    /\ WF_vars(RecvBody(c))
    /\ WF_vars(job[c].stage = "cut" /\ Cut(c))

(* And a service answers what it has begun, or its process ends.           *)
FairHandlers ==
  \A c \in Calls :
    WF_vars(Handle(c)) /\ WF_vars(\E o \in Results : Return(c, o))

FairHandlersSpec == Spec /\ Fairness /\ FairHandlers

--------------------------------------------------------------------------------
(***************************************************************************)
(* Properties                                                              *)
(***************************************************************************)

(* A handler runs only on a replica of the service that was called, even   *)
(* if the address has changed hands since the client was told              *)
(* (Service.buildHTTPHandlers, lines 432-440).                             *)
RightService ==
  \A c \in Calls : \A r \in served[c] : RunsService[r] = ServiceOf[method[c]]

Promise == INSTANCE RequestPromise WITH
  Keys   <- Methods,
  phase  <- [c \in Calls |-> IF Pending(c) THEN "pending" ELSE pc[c]],
  asked  <- method,
  answer <- result

(* A call over HTTP keeps what a call promises: it settles once, with what *)
(* the service computed for what was asked, or goes down with its process. *)
(* It settles if handlers return, whatever becomes of connections, replicas*)
(* and addresses; the timeout of http.request only raises an event, which  *)
(* nobody listens to (Client.makeHttpRequest, lines 328-363).              *)
PromiseSpec == Promise!Spec

================================================================================

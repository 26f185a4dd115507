-------------------------------- MODULE Handling --------------------------------
(***************************************************************************)
(* A process that handles requests: how Service.handled gives each of them *)
(* its dependencies (Injector), and which spans of a trace are started and *)
(* ended on the way: of the root (getRootBaggage), of the Client that asks,*)
(* of the handler, of the calls of its adapters (getTrap, perform), of     *)
(* events (the emitter), and of those who listen to them (Meter).          *)
(* OpenTelemetry is external: what has no parent starts a trace, and is    *)
(* sampled.                                                                *)
(***************************************************************************)
EXTENDS Injector, Integers, Sequences

CONSTANTS
  Requests,   \* each is made once
  Events,     \* messages of events, or batches of them, each with its Meter
  Headers,    \* trace and flags that a request may bring from outside
  MaxSpans    \* bound: how many spans are started

ASSUME MaxSpansAssumption == MaxSpans \in Nat
ASSUME HeadersAssumption == \A h \in Headers : h = None \/ h.flags \in {0, 1}
ASSUME OwnersAssumption == None \notin Requests /\ Requests \cap Events = {}

VARIABLES
  loaded,      \* classes whose decorators have run
  meta,        \* the Maps of each kind and class
  registered,  \* ServiceContainer and InstanceContainer: whose Map an action has
  spans,       \* all spans, in the order they were started
  rootSpans,   \* the Map of that name, by trace
  req,         \* of each request: where it is, the class that handles it, its
               \* spans, the one in its baggage, and who asked
  deps,        \* the dependencies that each was given
  calls,       \* spans of calls, of adapters and of clients, not settled yet
  meters,      \* of each event: the span in its baggage and that of its Meter
  broken       \* history: spans that Meter.measure, or the catch of handled,
               \* left open because it threw itself

classVars == <<loaded, meta, registered>>
vars == <<classVars, spans, rootSpans, req, deps, calls, meters, broken>>

Containers == {"service", "instance"}
Spans      == 0 .. MaxSpans
Traces     == {h.trace : h \in Headers \ {None}} \cup 1 .. MaxSpans

TypeOK ==
  /\ loaded \subseteq Methods
  /\ \A k \in Kinds, m \in Methods : meta[k][m] # None => m \in loaded
  /\ registered \in [Containers -> [Actions -> loaded \cup {None}]]
  /\ spans \in Seq([kind : {"root", "client", "handler", "call", "event", "meter"},
                    owner : Requests \cup Events, trace : Traces,
                    parent : Spans, ends : Nat])
  /\ rootSpans \in [Traces -> Spans]
  /\ \A r \in Requests :
       /\ req[r].at \in {"idle", "rooted", "asked", "handling", "answered"}
       /\ req[r].method \in Methods \cup {None} /\ req[r].header \in Headers \cup {None}
       /\ req[r].asker \in Requests \cup {None} /\ req[r].over \in BOOLEAN
       /\ {req[r].root, req[r].baggage, req[r].span} \subseteq Spans
  /\ calls \subseteq DOMAIN spans /\ broken \subseteq DOMAIN spans
  /\ meters \in [Events -> [from : Spans \cup {None}, span : Spans, over : BOOLEAN]]

Init ==
  /\ loaded = {}
  /\ meta = [k \in Kinds |-> [m \in Methods |-> None]]
  /\ registered = [k \in Containers |-> [a \in Actions |-> None]]
  /\ spans = <<>> /\ rootSpans = [t \in Traces |-> 0]
  /\ req = [r \in Requests |->
       [at |-> "idle", method |-> None, header |-> None, asker |-> None,
        root |-> 0, baggage |-> 0, span |-> 0, over |-> FALSE]]
  /\ deps = [r \in Requests |-> NoMap]
  /\ calls = {} /\ broken = {}
  /\ meters = [e \in Events |-> [from |-> None, span |-> 0, over |-> FALSE]]

(* The module of class m is loaded, after that of the class it extends:    *)
(* its decorators are run, @related last.                                  *)
Load(m) ==
  /\ m \notin loaded /\ (Super[m] = None \/ Super[m] \in loaded)
  /\ loaded' = loaded \cup {m}
  /\ meta' = [k \in Kinds |-> SetMetaData(meta[k], m, Decorated[k][m])]
  /\ registered' = IF m \notin Related THEN registered
                   ELSE [k \in Containers |->
                           [registered[k] EXCEPT ![Action[m]] = Holder(meta'[k], m)]]
  /\ UNCHANGED <<spans, rootSpans, req, deps, calls, meters, broken>>

--------------------------------------------------------------------------------
(***************************************************************************)
(* Spans                                                                   *)
(***************************************************************************)

(* Mutant: spans are counted from zero. *)
NextSpan_Zero == Len(spans)

NextSpan == Len(spans) + 1

(* startSpan with the span of a parent, or 0, for its context.             *)
Start(kind, owner, parent) ==
  [kind |-> kind, owner |-> owner, parent |-> parent, ends |-> 0,
   trace |-> IF parent = 0 THEN NextSpan ELSE spans[parent].trace]

Ended(s) == [s EXCEPT !.ends = @ + 1]

FinishSpan(i) == spans' = [spans EXCEPT ![i] = Ended(@)]

(* isBaggageContainTrace: flags 0, of a trace that is not sampled, are none*)
ContainsTrace(h) == h # None /\ h.flags # 0

(* getRootBaggage, once all modules are loaded.                            *)
GetRootBaggage(r, h) ==
  LET s == Start("root", r, 0)
      t == IF ContainsTrace(h) THEN h.trace ELSE s.trace
  IN  /\ req[r].at = "idle" /\ loaded = Methods /\ NextSpan \in Spans
      /\ spans' = Append(spans, [s EXCEPT !.trace = t])
      /\ rootSpans' = [rootSpans EXCEPT ![t] = NextSpan]
      /\ req' = [req EXCEPT ![r] = [@ EXCEPT !.at = "rooted", !.header = h,
                                             !.root = NextSpan, !.baggage = NextSpan]]
      /\ UNCHANGED <<classVars, deps, calls, meters, broken>>

(* Mutant: all of the Map is cleared. *)
Forget_All(t) == rootSpans' = [u \in Traces |-> 0]

Forget(t) == rootSpans' = [rootSpans EXCEPT ![t] = 0]

(* endRootSpan, once, by the one who called getRootBaggage, with its trace.*)
EndRootSpan(r) ==
  LET t == spans[req[r].root].trace
  IN  /\ req[r].root # 0 /\ ~req[r].over
      /\ req' = [req EXCEPT ![r].over = TRUE]
      /\ IF rootSpans[t] = 0 THEN UNCHANGED <<spans, rootSpans>>
                             ELSE FinishSpan(rootSpans[t]) /\ Forget(t)
      /\ UNCHANGED <<classVars, deps, calls, meters, broken>>

--------------------------------------------------------------------------------
(***************************************************************************)
(* Requests                                                                *)
(***************************************************************************)

(* Mutant: what a handler asks for has the baggage it was asked with. *)
NextBaggage_Same(r) == req[r].baggage

(* getNextBaggage                                                          *)
NextBaggage(r) == req[r].span

Given(r, type) == \E n \in DOMAIN deps[r] : TypeOf[deps[r][n]] = type

(* A message comes in without baggage, from elsewhere.                     *)
Receive(r) ==
  /\ req[r].at = "idle" /\ loaded = Methods
  /\ req' = [req EXCEPT ![r].at = "asked"]
  /\ UNCHANGED <<classVars, spans, rootSpans, deps, calls, meters, broken>>

(* Client.request, with a baggage that has the span parent, or 0: the span *)
(* that it starts is the one in the message.  It ends with the call: with  *)
(* what the cache or the broker answers, a timeout, or before the message  *)
(* is sent.                                                                *)
Request(r, asker, parent) ==
  /\ NextSpan \in Spans
  /\ spans' = Append(spans, Start("client", r, parent))
  /\ calls' = calls \cup {NextSpan}
  /\ req' = [req EXCEPT ![r] = [@ EXCEPT !.at = "asked", !.asker = asker,
                                         !.baggage = NextSpan]]

(* A request is made with a client of the application, without baggage or  *)
(* with that of getRootBaggage, or with one injected into handler q.       *)
Ask(r) ==
  /\ loaded = Methods
  /\ \/ req[r].at \in {"idle", "rooted"} /\ Request(r, None, req[r].baggage)
     \/ /\ req[r].at = "idle"
        /\ \E q \in Requests :
             /\ req[q].at = "handling" /\ Given(q, "service")
             /\ Request(r, q, NextBaggage(q))
  /\ UNCHANGED <<classVars, rootSpans, deps, meters, broken>>

(* What is injected is put into the Map that the action has, if it has one.*)
Put(k, m, items) ==
  LET c == registered[k][Action[m]]
  IN  IF c = None THEN meta[k] ELSE [meta[k] EXCEPT ![c] = OnTop(items, @)]

(* handled up to its await: the span, createObjectWithDependencies, which  *)
(* writes to the Maps of ServiceContainer and InstanceContainer, and       *)
(* createMethodContext.  A key that is not bound, or a constructor that    *)
(* throws, makes it fail, with some of them in the Maps.                   *)
Handle(r, m) ==
  LET injected == MapOf(meta["inject"], Holder(meta["inject"], m))
      Of(k)    == MapOf(meta[k], registered[k][Action[m]])
      PutSome(names) ==
        LET some == [n \in names |-> injected[n]]
        IN  meta' = [meta EXCEPT !["service"]  = Put("service", m, Injects(some, "service")),
                                 !["instance"] = Put("instance", m, Injects(some, "adapter"))]
      s == Start("handler", r, req[r].baggage)
  IN  /\ req[r].at = "asked" /\ NextSpan \in Spans
      /\ \/ /\ PutSome(DOMAIN injected)
            /\ spans' = Append(spans, s)
            /\ req' = [req EXCEPT ![r] = [@ EXCEPT !.at = "handling", !.method = m,
                                                   !.span = NextSpan]]
            /\ deps' = [deps EXCEPT ![r] =
                 Object(OnTop(Injects(injected, "service"), Of("service")),
                        OnTop(Injects(injected, "adapter"), Of("instance")), injected)]
            /\ UNCHANGED broken
         \/ /\ \E names \in SUBSET DOMAIN injected : PutSome(names)
            /\ \/ spans' = Append(spans, Ended(s)) /\ UNCHANGED broken
               \/ spans' = Append(spans, s) /\ broken' = broken \cup {NextSpan}
            /\ req' = [req EXCEPT ![r] = [@ EXCEPT !.at = "answered", !.span = NextSpan]]
            /\ UNCHANGED deps
      /\ UNCHANGED <<loaded, registered, rootSpans, calls, meters>>

(* The handler resolves or rejects.  A value that it rejects with, no Error*)
(* and such that JSON cannot write it, makes the catch throw at the log,   *)
(* before finishSpan.                                                      *)
Answer(r) ==
  /\ req[r].at = "handling"
  /\ req' = [req EXCEPT ![r].at = "answered"]
  /\ \/ FinishSpan(req[r].span) /\ UNCHANGED broken
     \/ broken' = broken \cup {req[r].span} /\ UNCHANGED spans
  /\ UNCHANGED <<classVars, rootSpans, deps, calls, meters>>

(* perform: the handler calls an adapter, over the Proxy of getTrap; the   *)
(* call returns or throws at once, or is awaited, perhaps by nobody.       *)
Perform(r) ==
  LET s == Start("call", r, NextBaggage(r))
  IN  /\ req[r].at = "handling" /\ Given(r, "adapter") /\ NextSpan \in Spans
      /\ \/ spans' = Append(spans, Ended(s)) /\ UNCHANGED calls
         \/ spans' = Append(spans, s) /\ calls' = calls \cup {NextSpan}
      /\ UNCHANGED <<classVars, rootSpans, req, deps, meters, broken>>

(* A promise that perform, measure or Client.request waits for is settled. *)
Settled(i) ==
  /\ calls' = calls \ {i}
  /\ FinishSpan(i)
  /\ UNCHANGED <<classVars, rootSpans, req, deps, meters, broken>>

--------------------------------------------------------------------------------
(***************************************************************************)
(* Events                                                                  *)
(***************************************************************************)

(* The span of an event that handler r emits, over at once.                *)
EventSpan(r) == Ended(Start("event", r, NextBaggage(r)))

(* The emitter of a handler (getWrappedEmitter) has its baggage, and makes *)
(* a span for the event, which goes with it in its headers; that of the    *)
(* service has none, and makes none.                                       *)
Emit(e) ==
  /\ meters[e].from = None /\ loaded = Methods
  /\ \/ \E r \in Requests :
          /\ req[r].at = "handling" /\ NextSpan \in Spans
          /\ spans' = Append(spans, EventSpan(r))
          /\ meters' = [meters EXCEPT ![e].from = NextSpan]
     \/ meters' = [meters EXCEPT ![e].from = 0] /\ UNCHANGED spans
  /\ UNCHANGED <<classVars, rootSpans, req, deps, calls, broken>>

(* Meter.start, by the handler of the event: under the span of the event,  *)
(* or, for a batch, in the trace of the first of its events only.          *)
StartMeter(e) ==
  LET s == Start("meter", e, meters[e].from)
  IN  /\ meters[e].from # None /\ meters[e].span = 0 /\ ~meters[e].over /\ NextSpan \in Spans
      /\ \/ spans' = Append(spans, s)
         \/ spans' = Append(spans, [s EXCEPT !.parent = 0])
      /\ meters' = [meters EXCEPT ![e].span = NextSpan]
      /\ UNCHANGED <<classVars, rootSpans, req, deps, calls, broken>>

(* Meter.measure.  What throws, or returns undefined or null, of which     *)
(* `then` is asked, or rejects with one of them, of which the message is   *)
(* asked, makes it throw, and leaves the span open.                        *)
Measure(e) ==
  LET s == Start("call", e, meters[e].span)
  IN  /\ meters[e].from # None /\ ~meters[e].over /\ NextSpan \in Spans
      /\ \/ spans' = Append(spans, Ended(s)) /\ UNCHANGED <<calls, broken>>
         \/ /\ spans' = Append(spans, s)
            /\ \/ calls' = calls \cup {NextSpan} /\ UNCHANGED broken
               \/ broken' = broken \cup {NextSpan} /\ UNCHANGED calls
      /\ UNCHANGED <<classVars, rootSpans, req, deps, meters>>

(* Meter.end                                                               *)
EndMeter(e) ==
  /\ meters[e].from # None /\ ~meters[e].over
  /\ meters' = [meters EXCEPT ![e].over = TRUE]
  /\ IF meters[e].span = 0 THEN UNCHANGED spans ELSE FinishSpan(meters[e].span)
  /\ UNCHANGED <<classVars, rootSpans, req, deps, calls, broken>>

--------------------------------------------------------------------------------
Next ==
  \/ \E m \in Methods : Load(m)
  \/ \E r \in Requests :
       \/ \E h \in Headers : GetRootBaggage(r, h)
       \/ Receive(r)
       \/ Ask(r)
       \/ \E m \in Methods : Handle(r, m)
       \/ Perform(r)
       \/ Answer(r)
       \/ EndRootSpan(r)
  \/ \E i \in calls : Settled(i)
  \/ \E e \in Events : Emit(e) \/ StartMeter(e) \/ Measure(e) \/ EndMeter(e)

Spec == Init /\ [][Next]_vars

--------------------------------------------------------------------------------
(* A handler is given what its class and those above it declare, whatever  *)
(* was handled before it and in whatever order the modules were loaded, as *)
(* long as no other class has its action or shares a decorated base: what  *)
(* createObjectWithDependencies leaves in the Maps, part of the injected   *)
(* names of a request that failed included, does no harm to the next one.  *)
OwnDependencies ==
  \A r \in Requests :
    LET m == req[r].method IN m # None /\ Alone(m) => deps[r] = Expected(m)

(* The request brings a trace that another one brings, too.                *)
TraceShared(r) ==
  \E q \in Requests \ {r} :
    req[q].root # 0 /\ spans[req[q].root].trace = spans[req[r].root].trace

(* The span of a client's request, a handler, a call, an event or a Meter  *)
(* is open as long as what it stands for is under way, and ended once then,*)
(* whichever way that ends, but for those that Meter.measure or the catch  *)
(* of handled throws for (Meter.ts:71, Service.ts:510); that of a root     *)
(* until endRootSpan is called for it, though others start and end         *)
(* meanwhile, but for those of one trace, of which rootSpans has the last  *)
(* one only.                                                               *)
SpansEnd ==
  \A i \in DOMAIN spans :
    LET s == spans[i]
        open == CASE s.kind = "root"    -> ~req[s.owner].over
                  [] s.kind = "client"  -> i \in calls
                  [] s.kind = "handler" -> req[s.owner].at = "handling" \/ i \in broken
                  [] s.kind = "call"    -> i \in calls \cup broken
                  [] s.kind = "meter"   -> ~meters[s.owner].over
                  [] s.kind = "event"   -> FALSE
    IN  (s.kind = "root" => ~TraceShared(s.owner)) => s.ends = IF open THEN 0 ELSE 1

(* All that is done for a request makes one tree: a client's span is under *)
(* that of the handler that asked, or under the root span; the handler's is*)
(* under the client's, unless the request came without baggage; calls and  *)
(* events are under the handler's, and the Meter of an event is in its     *)
(* trace.  A tree is in one trace, and the root goes on with that of the   *)
(* headers only if it is sampled.                                          *)
OneTree ==
  \A i \in DOMAIN spans :
    LET s == spans[i]
        r == req[s.owner]
    IN  /\ s.parent # 0 => s.trace = spans[s.parent].trace
        /\ CASE s.kind = "root"    -> s.trace = IF r.header # None /\ r.header.flags = 1
                                               THEN r.header.trace ELSE i
             [] s.kind = "client"  -> s.parent = IF r.asker = None THEN r.root
                                                ELSE req[r.asker].span
             [] s.kind = "handler" ->
                  \/ s.parent = 0 /\ r.asker = None /\ r.root = 0
                  \/ spans[s.parent].kind = "client" /\ spans[s.parent].owner = s.owner
             [] s.kind = "event"   -> s.parent = r.span
             [] s.kind = "call"    -> s.owner \in Requests => s.parent = r.span
             [] s.kind = "meter"   ->
                  meters[s.owner].from # 0 => s.trace = spans[meters[s.owner].from].trace

================================================================================

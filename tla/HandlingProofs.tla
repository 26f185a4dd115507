----------------------------- MODULE HandlingProofs -----------------------------
(***************************************************************************)
(* Proofs about Handling, for any requests, events, classes and headers,   *)
(* and however many spans are started: of its spans, of what handlers are  *)
(* given, and of its types.                                                *)
(***************************************************************************)
EXTENDS Handling, TLAPS

LEMMA NextCases ==
  ASSUME [Next]_vars
  PROVE  \/ \E m \in Methods : Load(m)
         \/ \E r \in Requests, h \in Headers : GetRootBaggage(r, h)
         \/ \E r \in Requests : Receive(r)
         \/ \E r \in Requests : Ask(r)
         \/ \E r \in Requests, m \in Methods : Handle(r, m)
         \/ \E r \in Requests : Perform(r)
         \/ \E r \in Requests : Answer(r)
         \/ \E r \in Requests : EndRootSpan(r)
         \/ \E i \in calls : Settled(i)
         \/ \E e \in Events : Emit(e)
         \/ \E e \in Events : StartMeter(e)
         \/ \E e \in Events : Measure(e)
         \/ \E e \in Events : EndMeter(e)
         \/ UNCHANGED vars
BY DEF Next

--------------------------------------------------------------------------------
(***************************************************************************)
(* Types                                                                   *)
(***************************************************************************)

Owners == Requests \cup Events

SpanKinds == {"root", "client", "handler", "call", "event", "meter"}

Span ==
  [kind : SpanKinds, owner : Owners, trace : Traces,
   parent : Nat, ends : Nat]

RequestOf ==
  [at : {"idle", "rooted", "asked", "handling", "answered"}, method : Methods \cup {None},
   header : Headers \cup {None}, asker : Requests \cup {None},
   root : Nat, baggage : Nat, span : Nat, over : BOOLEAN]

MeterOf == [from : Nat \cup {None}, span : Nat, over : BOOLEAN]

SpanTypes ==
  /\ spans \in Seq(Span)
  /\ calls \subseteq DOMAIN spans /\ broken \subseteq DOMAIN spans

RootTypes  == rootSpans \in [Traces -> Nat] /\ \A t \in Traces : rootSpans[t] <= Len(spans)

ReqTypes ==
  /\ req \in [Requests -> RequestOf]
  /\ \A r \in Requests :
       req[r].root <= Len(spans) /\ req[r].baggage <= Len(spans) /\ req[r].span <= Len(spans)

MeterTypes ==
  /\ meters \in [Events -> MeterOf]
  /\ \A e \in Events : /\ meters[e].from # None => meters[e].from <= Len(spans)
                       /\ meters[e].span <= Len(spans)

Types == SpanTypes /\ RootTypes /\ ReqTypes /\ MeterTypes

(* What is started comes after all spans that are there.                   *)
LEMMA Appended ==
  ASSUME spans \in Seq(Span), NEW s \in Span, spans' = Append(spans, s)
  PROVE  /\ spans' \in Seq(Span) /\ Len(spans) \in Nat
         /\ NextSpan = Len(spans) + 1 /\ Len(spans') = NextSpan
         /\ DOMAIN spans = 1 .. Len(spans) /\ DOMAIN spans' = 1 .. NextSpan
         /\ spans'[NextSpan] = s
         /\ \A i \in DOMAIN spans : spans'[i] = spans[i]
BY DEF NextSpan

LEMMA EndedIs ==
  ASSUME NEW s \in Span
  PROVE  /\ Ended(s) \in Span
         /\ Ended(s).kind = s.kind /\ Ended(s).owner = s.owner
         /\ Ended(s).trace = s.trace /\ Ended(s).parent = s.parent
         /\ Ended(s).ends = s.ends + 1
BY DEF Ended, Span

LEMMA Finished ==
  ASSUME spans \in Seq(Span), NEW i \in DOMAIN spans, FinishSpan(i)
  PROVE  /\ spans' \in Seq(Span)
         /\ Len(spans') = Len(spans) /\ DOMAIN spans' = DOMAIN spans
         /\ \A j \in DOMAIN spans \ {i} : spans'[j] = spans[j]
         /\ spans'[i].kind = spans[i].kind /\ spans'[i].owner = spans[i].owner
         /\ spans'[i].trace = spans[i].trace /\ spans'[i].parent = spans[i].parent
         /\ spans'[i].ends = spans[i].ends + 1
<1>1. spans[i] \in Span
  OBVIOUS
<1>2. /\ Ended(spans[i]) \in Span
      /\ Ended(spans[i]).kind = spans[i].kind /\ Ended(spans[i]).owner = spans[i].owner
      /\ Ended(spans[i]).trace = spans[i].trace /\ Ended(spans[i]).parent = spans[i].parent
      /\ Ended(spans[i]).ends = spans[i].ends + 1
  BY <1>1, EndedIs
<1>3. spans' = [spans EXCEPT ![i] = Ended(spans[i])]
  BY DEF FinishSpan
<1>4. /\ spans' \in Seq(Span)
      /\ Len(spans') = Len(spans) /\ DOMAIN spans' = DOMAIN spans
      /\ \A j \in DOMAIN spans \ {i} : spans'[j] = spans[j]
      /\ spans'[i] = Ended(spans[i])
  BY <1>2, <1>3
<1> QED BY <1>2, <1>4

(* A span that is started is in the trace of its parent, if it has one.    *)
Under(s) == s.parent <= Len(spans) /\ (s.parent # 0 => s.trace = spans[s.parent].trace)

(* What a span is like when it is started.                                 *)
LEMMA StartIs ==
  ASSUME spans \in Seq(Span), NextSpan \in Spans,
         NEW kind \in SpanKinds,
         NEW owner \in Owners, NEW parent \in Nat, parent <= Len(spans)
  PROVE  LET s == Start(kind, owner, parent)
         IN  /\ s \in Span /\ Ended(s) \in Span
             /\ s.kind = kind /\ s.owner = owner /\ s.parent = parent /\ s.ends = 0
             /\ s.trace = IF parent = 0 THEN NextSpan ELSE spans[parent].trace
             /\ Ended(s).kind = kind /\ Ended(s).owner = owner /\ Ended(s).parent = parent
             /\ Ended(s).ends = 1 /\ Ended(s).trace = s.trace
             /\ Under(s) /\ Under(Ended(s))
<1>1. Len(spans) \in Nat
  OBVIOUS
<1>2. NextSpan \in Traces
  BY <1>1, MaxSpansAssumption DEF Spans, NextSpan, Traces
<1>3. parent # 0 => spans[parent] \in Span
  BY <1>1
<1>4. (IF parent = 0 THEN NextSpan ELSE spans[parent].trace) \in Traces
  BY <1>2, <1>3 DEF Span
<1> DEFINE s == Start(kind, owner, parent)
<1>5. /\ s \in Span
      /\ s.kind = kind /\ s.owner = owner /\ s.parent = parent /\ s.ends = 0
      /\ s.trace = IF parent = 0 THEN NextSpan ELSE spans[parent].trace
  BY <1>4 DEF Start, Span, SpanKinds
<1> HIDE DEF s
<1> QED BY <1>5, EndedIs DEF s, Under

(* What the actions start, and what they do to the rest.                   *)
LEMMA RootStarted ==
  ASSUME Types, NEW r \in Requests, NEW h \in Headers, GetRootBaggage(r, h)
  PROVE  \E s \in Span :
           /\ spans' = Append(spans, s)
           /\ s.kind = "root" /\ s.owner = r /\ s.parent = 0 /\ s.ends = 0
           /\ s.trace = IF ContainsTrace(h) THEN h.trace ELSE NextSpan
           /\ rootSpans' = [rootSpans EXCEPT ![s.trace] = NextSpan]
           /\ req[r].at = "idle"
           /\ UNCHANGED <<calls, meters, broken>> /\ Under(s)
<1> DEFINE s == Start("root", r, 0)
           t == IF ContainsTrace(h) THEN h.trace ELSE s.trace
           z == [s EXCEPT !.trace = t]
<1>1. /\ s \in Span /\ s.kind = "root" /\ s.owner = r /\ s.parent = 0 /\ s.ends = 0
      /\ s.trace = NextSpan
  BY StartIs DEF Types, SpanTypes, Owners, GetRootBaggage, SpanKinds
<1>2. t \in Traces
  <2>1. ContainsTrace(h) => h.trace \in Traces
    BY DEF ContainsTrace, Traces
  <2>2. s.trace \in Traces
    BY <1>1 DEF Span
  <2> QED BY <2>1, <2>2
<1>3. /\ z \in Span /\ z.kind = "root" /\ z.owner = r /\ z.parent = 0 /\ z.ends = 0
      /\ z.trace = t
  <2> HIDE DEF s, t
  <2> QED BY <1>1, <1>2 DEF Span
<1>4. /\ spans' = Append(spans, z)
      /\ rootSpans' = [rootSpans EXCEPT ![t] = NextSpan]
      /\ req[r].at = "idle"
      /\ UNCHANGED <<calls, meters, broken>>
  BY DEF GetRootBaggage
<1>5. Under(z)
  BY <1>3 DEF Under, Types, SpanTypes
<1> HIDE DEF z
<1> QED BY <1>1, <1>3, <1>4, <1>5

LEMMA HandlerStarted ==
  ASSUME Types, NEW r \in Requests, NEW m \in Methods, Handle(r, m)
  PROVE  \E s \in Span, x \in RequestOf :
           /\ spans' = Append(spans, s)
           /\ s.kind = "handler" /\ s.owner = r /\ s.parent = req[r].baggage
           /\ req[r].at = "asked" /\ req' = [req EXCEPT ![r] = x]
           /\ \/ s.ends = 0 /\ x.at = "handling" /\ UNCHANGED broken
              \/ s.ends = 1 /\ x.at = "answered" /\ UNCHANGED broken
              \/ s.ends = 0 /\ x.at = "answered" /\ broken' = broken \cup {NextSpan}
           /\ x.at \in {"handling", "answered"}
           /\ x.header = req[r].header /\ x.asker = req[r].asker /\ x.root = req[r].root
           /\ x.baggage = req[r].baggage /\ x.span = NextSpan /\ x.over = req[r].over
           /\ UNCHANGED <<rootSpans, calls, meters>> /\ Under(s)
<1> DEFINE s == Start("handler", r, req[r].baggage)
           x == [req[r] EXCEPT !.at = "handling", !.method = m, !.span = NextSpan]
           y == [req[r] EXCEPT !.at = "answered", !.span = NextSpan]
<1>1. /\ req[r] \in RequestOf /\ req[r].baggage \in Nat /\ req[r].baggage <= Len(spans)
      /\ NextSpan \in Nat
  BY DEF Types, ReqTypes, RequestOf, SpanTypes, NextSpan
<1>2. /\ s \in Span /\ s.kind = "handler" /\ s.owner = r /\ s.parent = req[r].baggage
      /\ s.ends = 0
      /\ Ended(s) \in Span /\ Ended(s).kind = "handler" /\ Ended(s).owner = r
      /\ Ended(s).parent = req[r].baggage /\ Ended(s).ends = 1
      /\ Under(s) /\ Under(Ended(s))
  BY <1>1, StartIs DEF Types, SpanTypes, Owners, Handle, SpanKinds
<1>3. /\ x \in RequestOf /\ x.at = "handling" /\ x.header = req[r].header
      /\ x.asker = req[r].asker /\ x.root = req[r].root
      /\ x.baggage = req[r].baggage /\ x.span = NextSpan /\ x.over = req[r].over
  BY <1>1 DEF RequestOf
<1>4. /\ y \in RequestOf /\ y.at = "answered" /\ y.header = req[r].header
      /\ y.asker = req[r].asker /\ y.root = req[r].root
      /\ y.baggage = req[r].baggage /\ y.span = NextSpan /\ y.over = req[r].over
  BY <1>1 DEF RequestOf
<1>5. /\ req[r].at = "asked"
      /\ \/ spans' = Append(spans, s) /\ req' = [req EXCEPT ![r] = x] /\ UNCHANGED broken
         \/ /\ req' = [req EXCEPT ![r] = y]
            /\ \/ spans' = Append(spans, Ended(s)) /\ UNCHANGED broken
               \/ spans' = Append(spans, s) /\ broken' = broken \cup {NextSpan}
      /\ UNCHANGED <<rootSpans, calls, meters>>
  BY DEF Handle
<1> HIDE DEF s, x, y
<1>6. CASE spans' = Append(spans, s) /\ req' = [req EXCEPT ![r] = x] /\ UNCHANGED broken
  BY <1>2, <1>3, <1>5, <1>6
<1>7. CASE /\ spans' = Append(spans, Ended(s)) /\ req' = [req EXCEPT ![r] = y]
           /\ UNCHANGED broken
  BY <1>2, <1>4, <1>5, <1>7
<1>8. CASE /\ spans' = Append(spans, s) /\ req' = [req EXCEPT ![r] = y]
           /\ broken' = broken \cup {NextSpan}
  BY <1>2, <1>4, <1>5, <1>8
<1> QED BY <1>5, <1>6, <1>7, <1>8

LEMMA CallStarted ==
  ASSUME Types, NEW r \in Requests, Perform(r)
  PROVE  \E s \in Span :
           /\ spans' = Append(spans, s)
           /\ s.kind = "call" /\ s.owner = r /\ s.parent = req[r].span
           /\ req[r].at = "handling"
           /\ \/ s.ends = 1 /\ UNCHANGED calls
              \/ s.ends = 0 /\ calls' = calls \cup {NextSpan}
           /\ UNCHANGED <<rootSpans, req, meters, broken>> /\ Under(s)
<1> DEFINE s == Start("call", r, NextBaggage(r))
<1>1. NextBaggage(r) = req[r].span /\ req[r].span \in Nat /\ req[r].span <= Len(spans)
  BY DEF Types, ReqTypes, RequestOf, NextBaggage
<1>2. /\ s \in Span /\ s.kind = "call" /\ s.owner = r /\ s.parent = req[r].span
      /\ s.ends = 0
      /\ Ended(s) \in Span /\ Ended(s).kind = "call" /\ Ended(s).owner = r
      /\ Ended(s).parent = req[r].span /\ Ended(s).ends = 1
      /\ Under(s) /\ Under(Ended(s))
  BY <1>1, StartIs DEF Types, SpanTypes, Owners, Perform, SpanKinds
<1>3. /\ req[r].at = "handling"
      /\ \/ spans' = Append(spans, Ended(s)) /\ UNCHANGED calls
         \/ spans' = Append(spans, s) /\ calls' = calls \cup {NextSpan}
      /\ UNCHANGED <<rootSpans, req, meters, broken>>
  BY DEF Perform
<1> HIDE DEF s
<1> QED BY <1>2, <1>3

LEMMA EventStarted ==
  ASSUME Types, NEW e \in Events, Emit(e)
  PROVE  /\ meters[e].from = None
         /\ \/ \E s \in Span, r \in Requests :
                 /\ spans' = Append(spans, s)
                 /\ s.kind = "event" /\ s.owner = r /\ s.parent = req[r].span /\ s.ends = 1
                 /\ req[r].at = "handling" /\ Under(s)
                 /\ meters' = [meters EXCEPT ![e].from = NextSpan]
            \/ meters' = [meters EXCEPT ![e].from = 0] /\ UNCHANGED spans
         /\ UNCHANGED <<rootSpans, req, calls, broken>>
<1>1. ASSUME NEW r \in Requests, req[r].at = "handling", NextSpan \in Spans
      PROVE  /\ EventSpan(r) \in Span /\ EventSpan(r).kind = "event"
             /\ EventSpan(r).owner = r /\ EventSpan(r).parent = req[r].span
             /\ EventSpan(r).ends = 1 /\ Under(EventSpan(r))
  <2>1. NextBaggage(r) = req[r].span /\ req[r].span \in Nat /\ req[r].span <= Len(spans)
    BY DEF Types, ReqTypes, RequestOf, NextBaggage
  <2> QED BY <1>1, <2>1, StartIs DEF Types, SpanTypes, Owners, EventSpan, SpanKinds
<1> QED BY <1>1 DEF Emit

LEMMA MeterStarted ==
  ASSUME Types, NEW e \in Events, StartMeter(e)
  PROVE  \E s \in Span :
           /\ spans' = Append(spans, s)
           /\ s.kind = "meter" /\ s.owner = e /\ s.parent <= Len(spans) /\ s.ends = 0
           /\ s.trace = IF meters[e].from = 0 THEN NextSpan ELSE spans[meters[e].from].trace
           /\ meters[e].from # None /\ meters[e].span = 0 /\ ~meters[e].over
           /\ meters' = [meters EXCEPT ![e].span = NextSpan]
           /\ UNCHANGED <<rootSpans, req, calls, broken>> /\ Under(s)
<1> DEFINE s == Start("meter", e, meters[e].from)
           z == [s EXCEPT !.parent = 0]
<1>1. meters[e].from \in Nat /\ meters[e].from <= Len(spans)
  BY DEF Types, MeterTypes, MeterOf, StartMeter
<1>2. /\ s \in Span /\ s.kind = "meter" /\ s.owner = e /\ s.parent <= Len(spans) /\ s.ends = 0
      /\ s.trace = IF meters[e].from = 0 THEN NextSpan ELSE spans[meters[e].from].trace
      /\ Under(s)
  BY <1>1, StartIs DEF Types, SpanTypes, Owners, StartMeter, SpanKinds
<1>3. /\ z \in Span /\ z.kind = "meter" /\ z.owner = e /\ z.parent <= Len(spans) /\ z.ends = 0
      /\ z.trace = s.trace /\ Under(z)
  <2>1. 0 <= Len(spans)
    BY DEF Types, SpanTypes
  <2> HIDE DEF s
  <2> QED BY <1>2, <2>1 DEF Span, Under
<1>4. /\ spans' = Append(spans, s) \/ spans' = Append(spans, z)
      /\ meters[e].from # None /\ meters[e].span = 0 /\ ~meters[e].over
      /\ meters' = [meters EXCEPT ![e].span = NextSpan]
      /\ UNCHANGED <<rootSpans, req, calls, broken>>
  BY DEF StartMeter
<1> HIDE DEF s, z
<1> QED BY <1>2, <1>3, <1>4

LEMMA MeasureStarted ==
  ASSUME Types, NEW e \in Events, Measure(e)
  PROVE  \E s \in Span :
           /\ spans' = Append(spans, s)
           /\ s.kind = "call" /\ s.owner = e /\ s.parent <= Len(spans)
           /\ \/ s.ends = 1 /\ UNCHANGED <<calls, broken>>
              \/ s.ends = 0 /\ calls' = calls \cup {NextSpan} /\ UNCHANGED broken
              \/ s.ends = 0 /\ broken' = broken \cup {NextSpan} /\ UNCHANGED calls
           /\ UNCHANGED <<rootSpans, req, meters>> /\ Under(s)
<1> DEFINE s == Start("call", e, meters[e].span)
<1>1. meters[e].span \in Nat /\ meters[e].span <= Len(spans)
  BY DEF Types, MeterTypes, MeterOf
<1>2. /\ s \in Span /\ s.kind = "call" /\ s.owner = e /\ s.parent <= Len(spans)
      /\ s.ends = 0
      /\ Ended(s) \in Span /\ Ended(s).kind = "call" /\ Ended(s).owner = e
      /\ Ended(s).parent <= Len(spans) /\ Ended(s).ends = 1
      /\ Under(s) /\ Under(Ended(s))
  BY <1>1, StartIs DEF Types, SpanTypes, Owners, Measure, SpanKinds
<1>3. /\ \/ spans' = Append(spans, Ended(s)) /\ UNCHANGED <<calls, broken>>
         \/ spans' = Append(spans, s) /\ calls' = calls \cup {NextSpan} /\ UNCHANGED broken
         \/ spans' = Append(spans, s) /\ broken' = broken \cup {NextSpan} /\ UNCHANGED calls
      /\ UNCHANGED <<rootSpans, req, meters>>
  BY DEF Measure
<1> HIDE DEF s
<1> QED BY <1>2, <1>3

--------------------------------------------------------------------------------
(***************************************************************************)
(* What goes with what                                                     *)
(***************************************************************************)

Handled(r) == req[r].at \in {"handling", "answered"}

Made(r) == req[r].at \in {"asked", "handling", "answered"}

(* Where a request is, and what it has by then.                            *)
ReqLinks ==
  \A r \in Requests :
    /\ req[r].at = "idle" =>
         req[r].root = 0 /\ req[r].baggage = 0 /\ req[r].asker = None /\ ~req[r].over
    /\ req[r].at = "rooted" => req[r].baggage = req[r].root /\ req[r].asker = None
    /\ Made(r) => IF req[r].baggage = 0 THEN req[r].asker = None /\ req[r].root = 0
                                        ELSE /\ spans[req[r].baggage].kind = "client"
                                             /\ spans[req[r].baggage].owner = r
    /\ req[r].asker # None => Handled(req[r].asker)
    /\ req[r].root # 0 => /\ spans[req[r].root].kind = "root"
                          /\ spans[req[r].root].owner = r
    /\ req[r].at = "handling" => /\ req[r].span # 0
                                 /\ spans[req[r].span].kind = "handler"
                                 /\ spans[req[r].span].owner = r

(* Each span that something else than its owner names is of the kind that  *)
(* it is named for.                                                        *)
Named ==
  /\ \A t \in Traces : rootSpans[t] # 0 => /\ spans[rootSpans[t]].kind = "root"
                                          /\ spans[rootSpans[t]].trace = t
  /\ \A e \in Events : meters[e].span # 0 => /\ spans[meters[e].span].kind = "meter"
                                            /\ spans[meters[e].span].owner = e
  /\ \A i \in calls : spans[i].kind \in {"call", "client"}
  /\ \A i \in broken : spans[i].kind \in {"call", "handler"}
  /\ calls \cap broken = {}

LEMMA SpanNumber ==
  ASSUME SpanTypes, NEW i \in Nat, i # 0, i <= Len(spans)
  PROVE  /\ i \in DOMAIN spans /\ spans[i] \in Span /\ spans[i].trace \in Traces
         /\ spans[i].kind \in SpanKinds
         /\ spans[i].owner \in Owners
<1>1. i \in DOMAIN spans
  BY DEF SpanTypes
<1>2. spans[i] \in Span
  BY <1>1 DEF SpanTypes
<1> QED BY <1>1, <1>2 DEF Span

(* What a client starts.                                                   *)
LEMMA Asked ==
  ASSUME Types, NEW r \in Requests, Ask(r)
  PROVE  \E s \in Span, x \in RequestOf :
           /\ spans' = Append(spans, s)
           /\ s.kind = "client" /\ s.owner = r /\ s.ends = 0 /\ Under(s)
           /\ req' = [req EXCEPT ![r] = x]
           /\ x.at = "asked" /\ x.header = req[r].header /\ x.root = req[r].root
           /\ x.baggage = NextSpan /\ x.span = req[r].span /\ x.over = req[r].over
           /\ \/ /\ req[r].at \in {"idle", "rooted"}
                 /\ x.asker = None /\ s.parent = req[r].baggage
              \/ /\ req[r].at = "idle" /\ x.asker \in Requests
                 /\ req[x.asker].at = "handling" /\ s.parent = req[x.asker].span
           /\ calls' = calls \cup {NextSpan}
           /\ UNCHANGED <<rootSpans, meters, broken>>
<1>1. /\ req[r] \in RequestOf /\ NextSpan \in Nat
      /\ \A q \in Requests : /\ req[q].baggage \in Nat /\ req[q].baggage <= Len(spans)
                             /\ req[q].span \in Nat /\ req[q].span <= Len(spans)
  BY DEF Types, ReqTypes, RequestOf, SpanTypes, NextSpan
<1>2. UNCHANGED <<rootSpans, meters, broken>>
  BY DEF Ask
<1> DEFINE Makes(a, p) ==
      \E s \in Span, x \in RequestOf :
        /\ spans' = Append(spans, s)
        /\ s.kind = "client" /\ s.owner = r /\ s.ends = 0 /\ Under(s)
        /\ req' = [req EXCEPT ![r] = x]
        /\ x.at = "asked" /\ x.header = req[r].header /\ x.root = req[r].root
        /\ x.baggage = NextSpan /\ x.span = req[r].span /\ x.over = req[r].over
        /\ x.asker = a /\ s.parent = p
        /\ calls' = calls \cup {NextSpan}
<1>3. ASSUME NEW a \in Requests \cup {None}, NEW p \in Nat, p <= Len(spans), Request(r, a, p)
      PROVE  Makes(a, p)
  <2> DEFINE s == Start("client", r, p)
             x == [req[r] EXCEPT !.at = "asked", !.asker = a, !.baggage = NextSpan]
  <2>1. /\ s \in Span /\ s.kind = "client" /\ s.owner = r /\ s.parent = p
        /\ s.ends = 0 /\ Under(s)
    BY <1>3, StartIs DEF Types, SpanTypes, Owners, Request, SpanKinds
  <2>2. /\ x \in RequestOf /\ x.at = "asked" /\ x.header = req[r].header
        /\ x.root = req[r].root /\ x.span = req[r].span /\ x.over = req[r].over
        /\ x.asker = a /\ x.baggage = NextSpan
    BY <1>1 DEF RequestOf
  <2>3. /\ spans' = Append(spans, s) /\ req' = [req EXCEPT ![r] = x]
        /\ calls' = calls \cup {NextSpan}
    BY <1>3 DEF Request
  <2> HIDE DEF s, x
  <2> QED BY <2>1, <2>2, <2>3
<1>4. CASE req[r].at \in {"idle", "rooted"} /\ Request(r, None, req[r].baggage)
  <2> HIDE DEF Makes
  <2>1. Makes(None, req[r].baggage)
    BY <1>1, <1>3, <1>4
  <2> QED BY <1>2, <1>4, <2>1 DEF Makes
<1>5. CASE /\ req[r].at = "idle"
           /\ \E q \in Requests : req[q].at = "handling" /\ Request(r, q, req[q].span)
  <2>1. PICK q \in Requests : req[q].at = "handling" /\ Request(r, q, req[q].span)
    BY <1>5
  <2> HIDE DEF Makes
  <2>2. Makes(q, req[q].span)
    BY <1>1, <1>3, <2>1
  <2> QED BY <1>2, <1>5, <2>1, <2>2 DEF Makes
<1> QED BY <1>4, <1>5 DEF Ask, NextBaggage

(* The spans that EndRootSpan, Answer and EndMeter end.                    *)
LEMMA RootEnded ==
  ASSUME Types, NEW r \in Requests, EndRootSpan(r)
  PROVE  \E t \in Traces :
           /\ req[r].root # 0 /\ ~req[r].over /\ t = spans[req[r].root].trace
           /\ req' = [req EXCEPT ![r].over = TRUE]
           /\ \/ rootSpans[t] = 0 /\ UNCHANGED <<spans, rootSpans>>
              \/ /\ rootSpans[t] \in DOMAIN spans /\ FinishSpan(rootSpans[t])
                 /\ rootSpans' = [rootSpans EXCEPT ![t] = 0]
           /\ UNCHANGED <<calls, meters, broken>>
<1> DEFINE t == spans[req[r].root].trace
<1>1. req[r].root \in Nat /\ req[r].root <= Len(spans) /\ req[r].root # 0
  BY DEF Types, ReqTypes, RequestOf, EndRootSpan
<1>2. t \in Traces
  BY <1>1, SpanNumber DEF Types
<1>3. rootSpans[t] # 0 => rootSpans[t] \in DOMAIN spans
  BY <1>2, SpanNumber DEF Types, RootTypes
<1> QED BY <1>1, <1>2, <1>3 DEF EndRootSpan, Forget

LEMMA HandlerEnded ==
  ASSUME Types, ReqLinks, NEW r \in Requests, Answer(r)
  PROVE  /\ req[r].at = "handling" /\ req[r].span \in DOMAIN spans
         /\ \/ FinishSpan(req[r].span) /\ UNCHANGED broken
            \/ broken' = broken \cup {req[r].span} /\ UNCHANGED spans
         /\ req' = [req EXCEPT ![r].at = "answered"]
         /\ UNCHANGED <<rootSpans, calls, meters>>
<1>1. req[r].span \in Nat /\ req[r].span <= Len(spans) /\ req[r].span # 0
  BY DEF Types, ReqTypes, RequestOf, ReqLinks, Answer
<1> QED BY <1>1, SpanNumber DEF Answer, Types

LEMMA MeterEnded ==
  ASSUME Types, NEW e \in Events, EndMeter(e)
  PROVE  /\ meters[e].from # None /\ ~meters[e].over
         /\ meters' = [meters EXCEPT ![e].over = TRUE]
         /\ \/ meters[e].span = 0 /\ UNCHANGED spans
            \/ meters[e].span \in DOMAIN spans /\ FinishSpan(meters[e].span)
         /\ UNCHANGED <<rootSpans, req, calls, broken>>
<1>1. meters[e].span # 0 => meters[e].span \in DOMAIN spans
  BY SpanNumber DEF Types, MeterTypes, MeterOf
<1> QED BY <1>1 DEF EndMeter

(* Who ends span i.                                                        *)
EndedBy(i) ==
  \/ \E r \in Requests : EndRootSpan(r) /\ i = rootSpans[spans[req[r].root].trace]
  \/ \E r \in Requests : Answer(r) /\ FinishSpan(i) /\ UNCHANGED broken /\ i = req[r].span
  \/ i \in calls /\ Settled(i)
  \/ \E e \in Events : EndMeter(e) /\ i = meters[e].span

(* Spans stay what they are, and are ended by those who can.               *)
LEMMA SpansStay ==
  ASSUME Types, ReqLinks, [Next]_vars
  PROVE  /\ spans' \in Seq(Span) /\ DOMAIN spans \subseteq DOMAIN spans'
         /\ Len(spans) \in Nat /\ Len(spans') \in Nat /\ Len(spans) <= Len(spans')
         /\ \A i \in DOMAIN spans :
              /\ spans'[i].kind = spans[i].kind /\ spans'[i].owner = spans[i].owner
              /\ spans'[i].trace = spans[i].trace /\ spans'[i].parent = spans[i].parent
              /\ spans'[i].ends # spans[i].ends => EndedBy(i)
<1> DEFINE Goal ==
         /\ spans' \in Seq(Span) /\ DOMAIN spans \subseteq DOMAIN spans'
         /\ Len(spans) \in Nat /\ Len(spans') \in Nat /\ Len(spans) <= Len(spans')
         /\ \A i \in DOMAIN spans :
              /\ spans'[i].kind = spans[i].kind /\ spans'[i].owner = spans[i].owner
              /\ spans'[i].trace = spans[i].trace /\ spans'[i].parent = spans[i].parent
              /\ spans'[i].ends # spans[i].ends => EndedBy(i)
<1>1. spans \in Seq(Span) /\ Len(spans) \in Nat
  BY DEF Types, SpanTypes
<1>2. ASSUME UNCHANGED spans PROVE Goal
  BY <1>1, <1>2
<1>3. ASSUME NEW s \in Span, spans' = Append(spans, s) PROVE Goal
  BY <1>1, <1>3, Appended
<1>4. ASSUME NEW i \in DOMAIN spans, FinishSpan(i), EndedBy(i) PROVE Goal
  BY <1>1, <1>4, Finished
<1>5. ASSUME NEW r \in Requests, EndRootSpan(r) PROVE Goal
  BY <1>2, <1>4, <1>5, RootEnded DEF EndedBy
<1>6. ASSUME NEW r \in Requests, Answer(r) PROVE Goal
  BY <1>2, <1>4, <1>6, HandlerEnded DEF EndedBy
<1>7. ASSUME NEW i \in calls, Settled(i) PROVE Goal
  BY <1>4, <1>7 DEF EndedBy, Settled, Types, SpanTypes
<1>8. ASSUME NEW e \in Events, EndMeter(e) PROVE Goal
  BY <1>2, <1>4, <1>8, MeterEnded DEF EndedBy
<1>9. ASSUME NEW r \in Requests, NEW h \in Headers, GetRootBaggage(r, h) PROVE Goal
  BY <1>3, <1>9, RootStarted
<1>10. ASSUME NEW r \in Requests, NEW m \in Methods, Handle(r, m) PROVE Goal
  BY <1>3, <1>10, HandlerStarted
<1>11. ASSUME NEW r \in Requests, Perform(r) PROVE Goal
  BY <1>3, <1>11, CallStarted
<1>12. ASSUME NEW e \in Events, Emit(e) PROVE Goal
  BY <1>2, <1>3, <1>12, EventStarted
<1>13. ASSUME NEW e \in Events, StartMeter(e) PROVE Goal
  BY <1>3, <1>13, MeterStarted
<1>14. ASSUME NEW e \in Events, Measure(e) PROVE Goal
  BY <1>3, <1>14, MeasureStarted
<1>15. ASSUME NEW r \in Requests, Ask(r) PROVE Goal
  BY <1>3, <1>15, Asked
<1> HIDE DEF Goal
<1>16. Goal
  BY <1>2, <1>5, <1>6, <1>7, <1>8, <1>9, <1>10, <1>11, <1>12, <1>13, <1>14, <1>15, NextCases
     DEF Load, Receive, vars
<1> QED BY <1>16 DEF Goal

LEMMA ReqSet ==
  ASSUME req \in [Requests -> RequestOf], NEW r \in Requests, NEW x \in RequestOf,
         req' = [req EXCEPT ![r] = x]
  PROVE  /\ req' \in [Requests -> RequestOf] /\ req'[r] = x
         /\ \A q \in Requests \ {r} : req'[q] = req[q]
OBVIOUS

LEMMA RequestIs ==
  ASSUME NEW x \in RequestOf
  PROVE  /\ x.asker \in Requests \cup {None} /\ x.header \in Headers \cup {None}
         /\ x.root \in Nat /\ x.baggage \in Nat /\ x.span \in Nat /\ x.over \in BOOLEAN
         /\ x.at \in {"idle", "rooted", "asked", "handling", "answered"}
BY DEF RequestOf

LEMMA RootAsked ==
  ASSUME Types, NEW r \in Requests, NEW h \in Headers, GetRootBaggage(r, h)
  PROVE  \E x \in RequestOf :
           /\ req' = [req EXCEPT ![r] = x]
           /\ x.at = "rooted" /\ x.header = h /\ x.root = NextSpan /\ x.baggage = NextSpan
           /\ x.asker = req[r].asker /\ x.span = req[r].span /\ x.over = req[r].over
           /\ req[r].at = "idle"
<1> DEFINE x == [req[r] EXCEPT !.at = "rooted", !.header = h,
                               !.root = NextSpan, !.baggage = NextSpan]
<1>1. req[r] \in RequestOf /\ NextSpan \in Nat
  BY DEF Types, ReqTypes, SpanTypes, NextSpan
<1>2. /\ x \in RequestOf /\ x.at = "rooted" /\ x.header = h
      /\ x.root = NextSpan /\ x.baggage = NextSpan
      /\ x.asker = req[r].asker /\ x.span = req[r].span /\ x.over = req[r].over
  BY <1>1 DEF RequestOf
<1>3. req' = [req EXCEPT ![r] = x] /\ req[r].at = "idle"
  BY DEF GetRootBaggage
<1> HIDE DEF x
<1> QED BY <1>2, <1>3

LEMMA Received ==
  ASSUME Types, NEW r \in Requests, Receive(r)
  PROVE  \E x \in RequestOf :
           /\ req' = [req EXCEPT ![r] = x]
           /\ x.at = "asked" /\ x.header = req[r].header /\ x.root = req[r].root
           /\ x.baggage = req[r].baggage /\ x.asker = req[r].asker
           /\ x.span = req[r].span /\ x.over = req[r].over
           /\ req[r].at = "idle"
           /\ UNCHANGED <<spans, rootSpans, calls, meters, broken>>
<1> DEFINE x == [req[r] EXCEPT !.at = "asked"]
<1>1. req[r] \in RequestOf
  BY DEF Types, ReqTypes
<1>2. /\ x \in RequestOf /\ x.at = "asked" /\ x.header = req[r].header
      /\ x.root = req[r].root /\ x.baggage = req[r].baggage /\ x.asker = req[r].asker
      /\ x.span = req[r].span /\ x.over = req[r].over
  BY <1>1 DEF RequestOf
<1>3. /\ req' = [req EXCEPT ![r] = x] /\ req[r].at = "idle"
      /\ UNCHANGED <<spans, rootSpans, calls, meters, broken>>
  BY DEF Receive
<1> HIDE DEF x
<1> QED BY <1>2, <1>3

LEMMA ReqDone ==
  ASSUME Types, NEW r \in Requests, Answer(r) \/ EndRootSpan(r)
  PROVE  \E x \in RequestOf :
           /\ req' = [req EXCEPT ![r] = x]
           /\ x.header = req[r].header /\ x.asker = req[r].asker /\ x.root = req[r].root
           /\ x.baggage = req[r].baggage /\ x.span = req[r].span
           /\ \/ /\ Answer(r) /\ x.at = "answered" /\ x.over = req[r].over
                 /\ req[r].at = "handling"
              \/ EndRootSpan(r) /\ x.at = req[r].at /\ x.over
<1>1. req[r] \in RequestOf
  BY DEF Types, ReqTypes
<1>2. ASSUME NEW y \in RequestOf
      PROVE  LET x == [y EXCEPT !.at = "answered"]
             IN  /\ x \in RequestOf /\ x.header = y.header /\ x.asker = y.asker /\ x.root = y.root
                 /\ x.baggage = y.baggage /\ x.span = y.span
                 /\ x.at = "answered" /\ x.over = y.over
  BY DEF RequestOf
<1>3. ASSUME NEW y \in RequestOf
      PROVE  LET x == [y EXCEPT !.over = TRUE]
             IN  /\ x \in RequestOf /\ x.header = y.header /\ x.asker = y.asker /\ x.root = y.root
                 /\ x.baggage = y.baggage /\ x.span = y.span /\ x.at = y.at /\ x.over
  BY DEF RequestOf
<1>4. CASE Answer(r)
  <2>1. req' = [req EXCEPT ![r] = [req[r] EXCEPT !.at = "answered"]] /\ req[r].at = "handling"
    BY <1>4 DEF Answer
  <2> QED BY <1>1, <1>2, <1>4, <2>1
<1>5. CASE EndRootSpan(r)
  <2>1. req' = [req EXCEPT ![r] = [req[r] EXCEPT !.over = TRUE]]
    BY <1>5 DEF EndRootSpan
  <2> QED BY <1>1, <1>3, <1>5, <2>1
<1> QED BY <1>4, <1>5

(* What a request has stays, once it has it.                               *)
LEMMA ReqStays ==
  ASSUME Types, ReqLinks, [Next]_vars, NEW r \in Requests
  PROVE  /\ req' \in [Requests -> RequestOf]
         /\ req[r].at # "idle" =>
              /\ req'[r].at # "idle" /\ req'[r].header = req[r].header
              /\ req'[r].root = req[r].root
         /\ Made(r) =>
              Made(r)' /\ req'[r].asker = req[r].asker /\ req'[r].baggage = req[r].baggage
         /\ Handled(r) => Handled(r)' /\ req'[r].span = req[r].span
         /\ req'[r].at # req[r].at =>
              \/ \E h \in Headers : GetRootBaggage(r, h)
              \/ Receive(r)
              \/ Ask(r)
              \/ \E m \in Methods : Handle(r, m)
              \/ Answer(r)
         /\ req'[r].over # req[r].over => EndRootSpan(r)
         /\ req'[r].at = req[r].at => req'[r].span = req[r].span
<1> DEFINE Goal ==
         /\ req' \in [Requests -> RequestOf]
         /\ req[r].at # "idle" =>
              /\ req'[r].at # "idle" /\ req'[r].header = req[r].header
              /\ req'[r].root = req[r].root
         /\ Made(r) =>
              Made(r)' /\ req'[r].asker = req[r].asker /\ req'[r].baggage = req[r].baggage
         /\ Handled(r) => Handled(r)' /\ req'[r].span = req[r].span
         /\ req'[r].at # req[r].at =>
              \/ \E h \in Headers : GetRootBaggage(r, h)
              \/ Receive(r)
              \/ Ask(r)
              \/ \E m \in Methods : Handle(r, m)
              \/ Answer(r)
         /\ req'[r].over # req[r].over => EndRootSpan(r)
         /\ req'[r].at = req[r].at => req'[r].span = req[r].span
<1>1. req \in [Requests -> RequestOf] /\ NextSpan \in Nat
  BY DEF Types, ReqTypes, SpanTypes, NextSpan
<1>2. ASSUME UNCHANGED req PROVE Goal
  BY <1>1, <1>2 DEF Handled, Made
<1>3. ASSUME NEW q \in Requests, NEW h \in Headers, GetRootBaggage(q, h) PROVE Goal
  <2>1. PICK x \in RequestOf :
          req' = [req EXCEPT ![q] = x] /\ x.over = req[q].over /\ x.span = req[q].span
          /\ x.at = "rooted" /\ req[q].at = "idle"
    BY <1>3, RootAsked
  <2> QED BY <1>1, <1>3, <2>1, ReqSet DEF Handled, Made
<1>4. ASSUME NEW q \in Requests, Ask(q) PROVE Goal
  <2>1. PICK x \in RequestOf :
          req' = [req EXCEPT ![q] = x] /\ x.over = req[q].over /\ x.span = req[q].span
          /\ x.header = req[q].header /\ x.root = req[q].root
          /\ x.at = "asked" /\ req[q].at \in {"idle", "rooted"}
    BY <1>4, Asked
  <2> QED BY <1>1, <1>4, <2>1, ReqSet DEF Handled, Made
<1>5. ASSUME NEW q \in Requests, NEW m \in Methods, Handle(q, m) PROVE Goal
  <2>1. PICK x \in RequestOf :
          /\ req' = [req EXCEPT ![q] = x] /\ x.over = req[q].over
          /\ x.header = req[q].header /\ x.asker = req[q].asker
          /\ x.root = req[q].root /\ x.baggage = req[q].baggage
          /\ x.at \in {"handling", "answered"} /\ req[q].at = "asked"
    BY <1>5, HandlerStarted
  <2> QED BY <1>1, <1>5, <2>1, ReqSet DEF Handled, Made
<1>6. ASSUME NEW q \in Requests, Answer(q) \/ EndRootSpan(q) PROVE Goal
  <2>1. PICK x \in RequestOf :
          /\ req' = [req EXCEPT ![q] = x]
          /\ x.header = req[q].header /\ x.asker = req[q].asker /\ x.root = req[q].root
          /\ x.baggage = req[q].baggage /\ x.span = req[q].span
          /\ \/ /\ Answer(q) /\ x.at = "answered" /\ x.over = req[q].over
                /\ req[q].at = "handling"
             \/ EndRootSpan(q) /\ x.at = req[q].at /\ x.over
    BY <1>6, ReqDone
  <2> QED BY <1>1, <1>6, <2>1, ReqSet DEF Handled, Made
<1>7. ASSUME NEW q \in Requests, Receive(q) PROVE Goal
  <2>1. PICK x \in RequestOf :
          req' = [req EXCEPT ![q] = x] /\ x.over = req[q].over /\ x.span = req[q].span
          /\ x.at = "asked" /\ req[q].at = "idle"
    BY <1>7, Received
  <2> QED BY <1>1, <1>7, <2>1, ReqSet DEF Handled, Made
<1> HIDE DEF Goal
<1>8. Goal
  BY <1>2, <1>3, <1>4, <1>5, <1>6, <1>7, NextCases
     DEF Load, Perform, Settled, Emit, StartMeter, Measure, EndMeter, vars
<1> QED BY <1>8 DEF Goal

(* The actions that change what an event has, and which spans are open.    *)
LEMMA MetersBefore ==
  ASSUME [Next]_vars
  PROVE  \/ UNCHANGED meters
         \/ \E e \in Events : Emit(e)
         \/ \E e \in Events : StartMeter(e)
         \/ \E e \in Events : EndMeter(e)
<1>1. ASSUME NEW m \in Methods, Load(m) PROVE UNCHANGED meters
  BY <1>1 DEF Load
<1>2. ASSUME NEW r \in Requests, NEW h \in Headers, GetRootBaggage(r, h) PROVE UNCHANGED meters
  BY <1>2 DEF GetRootBaggage
<1>3. ASSUME NEW r \in Requests, Receive(r) PROVE UNCHANGED meters
  BY <1>3 DEF Receive
<1>4. ASSUME NEW r \in Requests, Ask(r) PROVE UNCHANGED meters
  BY <1>4 DEF Ask
<1>5. ASSUME NEW r \in Requests, NEW m \in Methods, Handle(r, m) PROVE UNCHANGED meters
  BY <1>5 DEF Handle
<1>6. ASSUME NEW r \in Requests, Perform(r) PROVE UNCHANGED meters
  BY <1>6 DEF Perform
<1>7. ASSUME NEW r \in Requests, Answer(r) PROVE UNCHANGED meters
  BY <1>7 DEF Answer
<1>8. ASSUME NEW r \in Requests, EndRootSpan(r) PROVE UNCHANGED meters
  BY <1>8 DEF EndRootSpan
<1>9. ASSUME NEW i \in calls, Settled(i) PROVE UNCHANGED meters
  BY <1>9 DEF Settled
<1>10. ASSUME NEW e \in Events, Measure(e) PROVE UNCHANGED meters
  BY <1>10 DEF Measure
<1>11. CASE UNCHANGED vars
  BY <1>11 DEF vars
<1> QED BY <1>1, <1>2, <1>3, <1>4, <1>5, <1>6, <1>7, <1>8, <1>9, <1>10, <1>11, NextCases

LEMMA CallsBefore ==
  ASSUME [Next]_vars
  PROVE  \/ UNCHANGED <<calls, broken>>
         \/ \E r \in Requests : Ask(r)
         \/ \E r \in Requests, m \in Methods : Handle(r, m)
         \/ \E r \in Requests : Perform(r)
         \/ \E r \in Requests : Answer(r)
         \/ \E i \in calls : Settled(i)
         \/ \E e \in Events : Measure(e)
<1>1. ASSUME NEW m \in Methods, Load(m) PROVE UNCHANGED <<calls, broken>>
  BY <1>1 DEF Load
<1>2. ASSUME NEW r \in Requests, NEW h \in Headers, GetRootBaggage(r, h) PROVE UNCHANGED <<calls, broken>>
  BY <1>2 DEF GetRootBaggage
<1>3. ASSUME NEW r \in Requests, Receive(r) PROVE UNCHANGED <<calls, broken>>
  BY <1>3 DEF Receive
<1>4. ASSUME NEW r \in Requests, EndRootSpan(r) PROVE UNCHANGED <<calls, broken>>
  BY <1>4 DEF EndRootSpan
<1>5. ASSUME NEW e \in Events, Emit(e) PROVE UNCHANGED <<calls, broken>>
  BY <1>5 DEF Emit
<1>6. ASSUME NEW e \in Events, StartMeter(e) PROVE UNCHANGED <<calls, broken>>
  BY <1>6 DEF StartMeter
<1>7. ASSUME NEW e \in Events, EndMeter(e) PROVE UNCHANGED <<calls, broken>>
  BY <1>7 DEF EndMeter
<1>8. CASE UNCHANGED vars
  BY <1>8 DEF vars
<1> QED BY <1>1, <1>2, <1>3, <1>4, <1>5, <1>6, <1>7, <1>8, NextCases

LEMMA MetersKept ==
  ASSUME [Next]_vars, meters \in [Events -> MeterOf], Len(spans) \in Nat
  PROVE  meters' \in [Events -> MeterOf]
<1>1. NextSpan \in Nat
  BY DEF NextSpan
<1>2. CASE UNCHANGED meters
  BY <1>2
<1>3. ASSUME NEW f \in Events, Emit(f) PROVE meters' \in [Events -> MeterOf]
  <2>1. PICK n \in {0, NextSpan} : meters' = [meters EXCEPT ![f].from = n]
    BY <1>3 DEF Emit
  <2> QED BY <1>1, <2>1 DEF MeterOf
<1>4. ASSUME NEW f \in Events, StartMeter(f) PROVE meters' \in [Events -> MeterOf]
  <2>1. meters' = [meters EXCEPT ![f].span = NextSpan]
    BY <1>4 DEF StartMeter
  <2> QED BY <1>1, <2>1 DEF MeterOf
<1>5. ASSUME NEW f \in Events, EndMeter(f) PROVE meters' \in [Events -> MeterOf]
  <2>1. meters' = [meters EXCEPT ![f].over = TRUE]
    BY <1>5 DEF EndMeter
  <2> QED BY <2>1 DEF MeterOf
<1> QED BY <1>2, <1>3, <1>4, <1>5, MetersBefore

LEMMA MetersStay ==
  ASSUME Types, [Next]_vars, NEW e \in Events
  PROVE  /\ meters' \in [Events -> MeterOf]
         /\ meters[e].from # None => meters'[e].from = meters[e].from
         /\ meters[e].span # 0 => meters'[e].span = meters[e].span
         /\ meters'[e].over # meters[e].over => EndMeter(e)
         /\ meters'[e].from # meters[e].from => meters'[e].from \in {0, NextSpan} /\ Emit(e)
         /\ meters'[e].span # meters[e].span => meters'[e].span = NextSpan /\ StartMeter(e)
<1> DEFINE Goal ==
         /\ meters' \in [Events -> MeterOf]
         /\ meters[e].from # None => meters'[e].from = meters[e].from
         /\ meters[e].span # 0 => meters'[e].span = meters[e].span
         /\ meters'[e].over # meters[e].over => EndMeter(e)
         /\ meters'[e].from # meters[e].from => meters'[e].from \in {0, NextSpan} /\ Emit(e)
         /\ meters'[e].span # meters[e].span => meters'[e].span = NextSpan /\ StartMeter(e)
<1>1. meters \in [Events -> MeterOf] /\ NextSpan \in Nat
  BY DEF Types, MeterTypes, SpanTypes, NextSpan
<1>2. ASSUME UNCHANGED meters PROVE Goal
  BY <1>1, <1>2
<1>3. ASSUME NEW f \in Events, Emit(f) PROVE Goal
  <2>1. PICK n \in {0, NextSpan} :
          meters' = [meters EXCEPT ![f].from = n] /\ meters[f].from = None
    BY <1>3 DEF Emit
  <2> QED BY <1>1, <1>3, <2>1 DEF MeterOf
<1>4. ASSUME NEW f \in Events, StartMeter(f) PROVE Goal
  BY <1>1, <1>4 DEF StartMeter, MeterOf
<1>5. ASSUME NEW f \in Events, EndMeter(f) PROVE Goal
  <2>1. meters' = [meters EXCEPT ![f].over = TRUE]
    BY <1>5 DEF EndMeter
  <2> QED BY <1>1, <1>5, <2>1 DEF MeterOf
<1> HIDE DEF Goal
<1>6. Goal
  BY <1>2, <1>3, <1>4, <1>5, MetersBefore
<1> QED BY <1>6 DEF Goal

LEMMA NewSpan ==
  ASSUME Types, ReqLinks, [Next]_vars, NEW i \in DOMAIN spans', i \notin DOMAIN spans
  PROVE  /\ i = NextSpan
         /\ \A s \in Span : spans' = Append(spans, s) => spans'[i] = s
         /\ \/ \E r \in Requests, h \in Headers : GetRootBaggage(r, h) /\ spans'[i].kind = "root"
            \/ \E r \in Requests : Ask(r) /\ spans'[i].kind = "client"
            \/ \E r \in Requests, m \in Methods : Handle(r, m) /\ spans'[i].kind = "handler"
            \/ \E r \in Requests : Perform(r) /\ spans'[i].kind = "call"
            \/ \E e \in Events : Emit(e) /\ spans'[i].kind = "event"
            \/ \E e \in Events : StartMeter(e) /\ spans'[i].kind = "meter"
            \/ \E e \in Events : Measure(e) /\ spans'[i].kind = "call"
<1>1. spans \in Seq(Span)
  BY DEF Types, SpanTypes
<1>2. ASSUME NEW s \in Span, spans' = Append(spans, s) PROVE i = NextSpan /\ spans'[i] = s
  BY <1>1, <1>2, Appended
<1>3. ASSUME NEW j \in DOMAIN spans, FinishSpan(j) PROVE FALSE
  BY <1>1, <1>3, Finished
<1>4. ASSUME NEW r \in Requests, EndRootSpan(r) PROVE FALSE
  BY <1>3, <1>4, RootEnded
<1>5. ASSUME NEW r \in Requests, Answer(r) PROVE FALSE
  BY <1>3, <1>5, HandlerEnded
<1>6. ASSUME NEW j \in calls, Settled(j) PROVE FALSE
  BY <1>3, <1>6 DEF Settled, Types, SpanTypes
<1>7. ASSUME NEW e \in Events, EndMeter(e) PROVE FALSE
  BY <1>3, <1>7, MeterEnded
<1>8. ASSUME NEW r \in Requests, NEW h \in Headers, GetRootBaggage(r, h)
      PROVE  i = NextSpan /\ spans'[i].kind = "root"
  BY <1>2, <1>8, RootStarted
<1>9. ASSUME NEW r \in Requests, NEW m \in Methods, Handle(r, m)
      PROVE  i = NextSpan /\ spans'[i].kind = "handler"
  BY <1>2, <1>9, HandlerStarted
<1>10. ASSUME NEW r \in Requests, Perform(r) PROVE i = NextSpan /\ spans'[i].kind = "call"
  BY <1>2, <1>10, CallStarted
<1>11. ASSUME NEW e \in Events, Emit(e) PROVE i = NextSpan /\ spans'[i].kind = "event"
  BY <1>2, <1>11, EventStarted
<1>12. ASSUME NEW e \in Events, StartMeter(e) PROVE i = NextSpan /\ spans'[i].kind = "meter"
  BY <1>2, <1>12, MeterStarted
<1>13. ASSUME NEW e \in Events, Measure(e) PROVE i = NextSpan /\ spans'[i].kind = "call"
  BY <1>2, <1>13, MeasureStarted
<1>14. ASSUME NEW r \in Requests, Ask(r) PROVE i = NextSpan /\ spans'[i].kind = "client"
  BY <1>2, <1>14, Asked
<1>15. spans' # spans
  OBVIOUS
<1> QED BY <1>2, <1>4, <1>5, <1>6, <1>7, <1>8, <1>9, <1>10, <1>11, <1>12, <1>13, <1>14, <1>15,
           NextCases
        DEF Load, Receive, vars

LEMMA EndedKind ==
  ASSUME Types, ReqLinks, Named, NEW i \in DOMAIN spans, EndedBy(i)
  PROVE  \/ /\ spans[i].kind = "root"
            /\ \E r \in Requests : /\ EndRootSpan(r) /\ req[r].root # 0
                                   /\ spans[req[r].root].trace = spans[i].trace
         \/ /\ spans[i].kind = "handler" /\ spans[i].owner \in Requests
            /\ Answer(spans[i].owner) /\ i = req[spans[i].owner].span
            /\ UNCHANGED broken
         \/ /\ spans[i].kind \in {"call", "client"} /\ i \in calls /\ Settled(i)
         \/ /\ spans[i].kind = "meter" /\ spans[i].owner \in Events
            /\ EndMeter(spans[i].owner) /\ i = meters[spans[i].owner].span
<1>1. i # 0
  BY DEF Types, SpanTypes
<1>2. ASSUME NEW r \in Requests, EndRootSpan(r), i = rootSpans[spans[req[r].root].trace]
      PROVE  /\ spans[i].kind = "root" /\ req[r].root # 0
             /\ spans[req[r].root].trace = spans[i].trace
  BY <1>1, <1>2, RootEnded DEF Named
<1>3. ASSUME NEW r \in Requests, Answer(r), i = req[r].span
      PROVE  spans[i].kind = "handler" /\ spans[i].owner = r
  BY <1>3, HandlerEnded DEF ReqLinks
<1>4. ASSUME i \in calls, Settled(i) PROVE spans[i].kind \in {"call", "client"}
  BY <1>4 DEF Named
<1>5. ASSUME NEW e \in Events, EndMeter(e), i = meters[e].span
      PROVE  spans[i].kind = "meter" /\ spans[i].owner = e
  BY <1>1, <1>5 DEF Named
<1> QED BY <1>2, <1>3, <1>4, <1>5 DEF EndedBy

LEMMA RootSpansBefore ==
  ASSUME Types, [Next]_vars
  PROVE  \/ UNCHANGED rootSpans
         \/ \E r \in Requests, h \in Headers : GetRootBaggage(r, h)
         \/ \E r \in Requests : EndRootSpan(r) /\ rootSpans[spans[req[r].root].trace] # 0
<1>1. ASSUME NEW r \in Requests, Ask(r) PROVE UNCHANGED rootSpans
  BY <1>1, Asked
<1>2. ASSUME NEW r \in Requests, NEW m \in Methods, Handle(r, m) PROVE UNCHANGED rootSpans
  BY <1>2, HandlerStarted
<1> QED BY <1>1, <1>2, NextCases
        DEF Load, Receive, Perform, Answer, EndRootSpan, Settled, Emit, StartMeter, Measure,
            EndMeter, vars

LEMMA RootTypesStep ==
  ASSUME Types, ReqLinks, [Next]_vars
  PROVE  RootTypes'
<1>1. RootTypes /\ Len(spans) \in Nat /\ NextSpan = Len(spans) + 1
      /\ Len(spans') \in Nat /\ Len(spans) <= Len(spans')
  BY SpansStay DEF Types, NextSpan
<1>2. CASE UNCHANGED rootSpans
  BY <1>1, <1>2 DEF RootTypes
<1>3. ASSUME NEW r \in Requests, NEW h \in Headers, GetRootBaggage(r, h) PROVE RootTypes'
  <2>1. PICK s \in Span :
          spans' = Append(spans, s) /\ rootSpans' = [rootSpans EXCEPT ![s.trace] = NextSpan]
    BY <1>3, RootStarted
  <2>2. Len(spans') = NextSpan
    BY <2>1, Appended DEF Types, SpanTypes
  <2>3. s.trace \in Traces
    BY DEF Span
  <2> QED BY <1>1, <2>1, <2>2, <2>3 DEF RootTypes
<1>4. ASSUME NEW r \in Requests, EndRootSpan(r) PROVE RootTypes'
  BY <1>1, <1>2, <1>4, RootEnded DEF RootTypes
<1> QED BY <1>2, <1>3, <1>4, RootSpansBefore

LEMMA TypesStep ==
  ASSUME Types, ReqLinks, [Next]_vars
  PROVE  Types'
<1>1. /\ spans' \in Seq(Span) /\ DOMAIN spans \subseteq DOMAIN spans'
      /\ Len(spans) \in Nat /\ Len(spans') \in Nat /\ Len(spans) <= Len(spans')
      /\ NextSpan = Len(spans) + 1
  BY SpansStay DEF NextSpan
<1>2. ASSUME NEW i \in calls' \cup broken', i \notin calls \cup broken
      PROVE  i \in DOMAIN spans'
  <2>1. ASSUME NEW s \in Span, spans' = Append(spans, s), i = NextSpan PROVE i \in DOMAIN spans'
    BY <2>1, Appended DEF Types, SpanTypes
  <2>2. ASSUME NEW r \in Requests, Perform(r) PROVE i \in DOMAIN spans'
    BY <1>2, <2>1, <2>2, CallStarted
  <2>3. ASSUME NEW e \in Events, Measure(e) PROVE i \in DOMAIN spans'
    BY <1>2, <2>1, <2>3, MeasureStarted
  <2>4. ASSUME NEW r \in Requests, Ask(r) PROVE i \in DOMAIN spans'
    BY <1>2, <2>1, <2>4, Asked
  <2>5. ASSUME NEW r \in Requests, NEW m \in Methods, Handle(r, m) PROVE i \in DOMAIN spans'
    BY <1>2, <2>1, <2>5, HandlerStarted
  <2>6. ASSUME NEW r \in Requests, Answer(r) PROVE i \in DOMAIN spans'
    BY <1>1, <1>2, <2>6, HandlerEnded
  <2>7. CASE UNCHANGED broken /\ calls' \subseteq calls
    BY <1>2, <2>7
  <2>8. ASSUME NEW j \in calls, Settled(j) PROVE UNCHANGED broken /\ calls' \subseteq calls
    BY <2>8 DEF Settled
  <2> QED BY <2>2, <2>3, <2>4, <2>5, <2>6, <2>7, <2>8, CallsBefore
<1>3. SpanTypes'
  BY <1>1, <1>2 DEF Types, SpanTypes
<1>4. ReqTypes'
  <2>1. req' \in [Requests -> RequestOf] /\ req \in [Requests -> RequestOf]
    BY NextCases, ReqStays
       DEF Types, ReqTypes, Load, Settled, Emit, StartMeter, Measure, EndMeter, vars
  <2> SUFFICES ASSUME NEW r \in Requests
               PROVE  /\ req'[r].root <= Len(spans') /\ req'[r].baggage <= Len(spans')
                      /\ req'[r].span <= Len(spans')
    BY <2>1 DEF ReqTypes
  <2>2. /\ req[r].root \in Nat /\ req[r].root <= Len(spans)
        /\ req[r].baggage \in Nat /\ req[r].baggage <= Len(spans)
        /\ \A q \in Requests : req[q].span \in Nat /\ req[q].span <= Len(spans)
    BY <2>1, RequestIs DEF Types, ReqTypes
  <2> DEFINE Goal == /\ req'[r].root <= Len(spans') /\ req'[r].baggage <= Len(spans')
                     /\ req'[r].span <= Len(spans')
  <2>3. ASSUME req'[r] = req[r] PROVE Goal
    BY <1>1, <2>2, <2>3
  <2>4. ASSUME NEW s \in Span, spans' = Append(spans, s) PROVE Len(spans') = NextSpan
    BY <2>4, Appended DEF Types, SpanTypes
  <2>5. ASSUME NEW q \in Requests, NEW h \in Headers, GetRootBaggage(q, h) PROVE Goal
    <3>1. Len(spans') = NextSpan
      BY <2>4, <2>5, RootStarted
    <3>2. PICK x \in RequestOf :
            /\ req' = [req EXCEPT ![q] = x]
            /\ x.root = NextSpan /\ x.baggage = NextSpan /\ x.span = req[q].span
      BY <2>5, RootAsked
    <3>3. CASE q = r
      BY <1>1, <2>1, <2>2, <3>1, <3>2, <3>3, ReqSet
    <3>4. CASE q # r
      BY <2>1, <2>3, <3>2, <3>4, ReqSet
    <3> QED BY <3>3, <3>4
  <2>6. ASSUME NEW q \in Requests, Ask(q) PROVE Goal
    <3>1. Len(spans') = NextSpan
      BY <2>4, <2>6, Asked
    <3>2. PICK x \in RequestOf :
            /\ req' = [req EXCEPT ![q] = x]
            /\ x.root = req[q].root /\ x.baggage = NextSpan /\ x.span = req[q].span
      BY <2>6, Asked
    <3>3. CASE q = r
      BY <1>1, <2>1, <2>2, <3>1, <3>2, <3>3, ReqSet
    <3>4. CASE q # r
      BY <2>1, <2>3, <3>2, <3>4, ReqSet
    <3> QED BY <3>3, <3>4
  <2>7. ASSUME NEW q \in Requests, NEW m \in Methods, Handle(q, m) PROVE Goal
    <3>1. Len(spans') = NextSpan
      BY <2>4, <2>7, HandlerStarted
    <3>2. PICK x \in RequestOf :
            /\ req' = [req EXCEPT ![q] = x]
            /\ x.root = req[q].root /\ x.baggage = req[q].baggage /\ x.span = NextSpan
      BY <2>7, HandlerStarted
    <3>3. CASE q = r
      BY <1>1, <2>1, <2>2, <3>1, <3>2, <3>3, ReqSet
    <3>4. CASE q # r
      BY <2>1, <2>3, <3>2, <3>4, ReqSet
    <3> QED BY <3>3, <3>4
  <2>8. ASSUME NEW q \in Requests, Answer(q) \/ EndRootSpan(q) PROVE Goal
    <3>1. PICK x \in RequestOf :
            req' = [req EXCEPT ![q] = x] /\ x.root = req[q].root
            /\ x.baggage = req[q].baggage /\ x.span = req[q].span
      BY <2>8, ReqDone
    <3>2. CASE q = r
      BY <1>1, <2>1, <2>2, <3>1, <3>2, ReqSet
    <3>3. CASE q # r
      BY <2>1, <2>3, <3>1, <3>3, ReqSet
    <3> QED BY <3>2, <3>3
  <2>9. ASSUME UNCHANGED req PROVE Goal
    BY <2>3, <2>9
  <2>10. ASSUME NEW q \in Requests, Receive(q) PROVE Goal
    <3>1. PICK x \in RequestOf :
            req' = [req EXCEPT ![q] = x] /\ x.root = req[q].root
            /\ x.baggage = req[q].baggage /\ x.span = req[q].span
      BY <2>10, Received
    <3>2. CASE q = r
      BY <1>1, <2>1, <2>2, <3>1, <3>2, ReqSet
    <3>3. CASE q # r
      BY <2>1, <2>3, <3>1, <3>3, ReqSet
    <3> QED BY <3>2, <3>3
  <2> HIDE DEF Goal
  <2>11. Goal
    BY <2>5, <2>6, <2>7, <2>8, <2>9, <2>10, NextCases
       DEF Load, Perform, Settled, Emit, StartMeter, Measure, EndMeter, vars
  <2> QED BY <2>1, <2>11 DEF Goal
<1>5. MeterTypes'
  <2>1. meters \in [Events -> MeterOf]
    BY DEF Types, MeterTypes
  <2>2. meters' \in [Events -> MeterOf]
    BY <1>1, <2>1, MetersKept
  <2>3. ASSUME NEW e \in Events
        PROVE  /\ meters'[e].from # None => meters'[e].from <= Len(spans')
               /\ meters'[e].span <= Len(spans')
    <3>1. /\ meters[e].from # None => meters[e].from \in Nat /\ meters[e].from <= Len(spans)
          /\ meters[e].span \in Nat /\ meters[e].span <= Len(spans)
      BY <2>1 DEF MeterOf, Types, MeterTypes
    <3>2. ASSUME NEW s \in Span, spans' = Append(spans, s) PROVE Len(spans') = NextSpan
      BY <3>2, Appended DEF Types, SpanTypes
    <3>3. CASE meters'[e].from # meters[e].from
      <4>1. Emit(e) /\ meters'[e].from \in {0, NextSpan}
        BY <3>3, MetersStay
      <4>2. meters'[e].from = 0 \/ Len(spans') = NextSpan
        <5>1. ASSUME meters' = [meters EXCEPT ![e].from = 0] PROVE meters'[e].from = 0
          BY <2>1, <5>1 DEF MeterOf
        <5> QED BY <3>2, <4>1, <5>1, EventStarted
      <4>3. meters'[e].span = meters[e].span
        BY <2>1, <4>1 DEF Emit, MeterOf
      <4> QED BY <1>1, <3>1, <4>1, <4>2, <4>3
    <3>4. CASE meters'[e].span # meters[e].span
      <4>1. StartMeter(e) /\ meters'[e].span = NextSpan
        BY <3>4, MetersStay
      <4>2. Len(spans') = NextSpan
        BY <3>2, <4>1, MeterStarted
      <4>3. meters'[e].from = meters[e].from
        BY <2>1, <4>1 DEF StartMeter, MeterOf
      <4> QED BY <1>1, <3>1, <4>1, <4>2, <4>3
    <3> QED BY <1>1, <3>1, <3>3, <3>4
  <2> QED BY <2>2, <2>3 DEF MeterTypes
<1> QED BY <1>3, <1>4, <1>5, RootTypesStep DEF Types

(* The actions that change what a request has.                             *)
LEMMA ReqBefore ==
  ASSUME Types, [Next]_vars, NEW r \in Requests
  PROVE  \/ req'[r] = req[r]
         \/ \E h \in Headers : GetRootBaggage(r, h)
         \/ Receive(r)
         \/ Ask(r)
         \/ \E m \in Methods : Handle(r, m)
         \/ Answer(r)
         \/ EndRootSpan(r)
<1>1. req \in [Requests -> RequestOf]
  BY DEF Types, ReqTypes
<1>2. ASSUME NEW q \in Requests, q # r, NEW x, req' = [req EXCEPT ![q] = x]
      PROVE  req'[r] = req[r]
  BY <1>1, <1>2
<1>3. ASSUME NEW q \in Requests, q # r, NEW h \in Headers, GetRootBaggage(q, h)
      PROVE  req'[r] = req[r]
  BY <1>2, <1>3, RootAsked
<1>4. ASSUME NEW q \in Requests, q # r, Ask(q) PROVE req'[r] = req[r]
  BY <1>2, <1>4, Asked
<1>5. ASSUME NEW q \in Requests, q # r, NEW m \in Methods, Handle(q, m) PROVE req'[r] = req[r]
  BY <1>2, <1>5, HandlerStarted
<1>6. ASSUME NEW q \in Requests, q # r, Answer(q) \/ EndRootSpan(q) PROVE req'[r] = req[r]
  BY <1>1, <1>6 DEF Answer, EndRootSpan
<1>7. ASSUME NEW q \in Requests, q # r, Receive(q) PROVE req'[r] = req[r]
  BY <1>2, <1>7, Received
<1> QED BY <1>3, <1>4, <1>5, <1>6, <1>7, NextCases
        DEF Load, Perform, Settled, Emit, StartMeter, Measure, EndMeter, vars

(* A span that is there keeps its kind, its owner and its trace.           *)
LEMMA KindStays ==
  ASSUME Types, ReqLinks, [Next]_vars, NEW i \in Nat, i # 0, i <= Len(spans)
  PROVE  /\ spans'[i].kind = spans[i].kind /\ spans'[i].owner = spans[i].owner
         /\ spans'[i].trace = spans[i].trace
BY SpanNumber, SpansStay DEF Types

LEMMA ReqNumbers ==
  ASSUME Types, NEW r \in Requests
  PROVE  /\ req[r].asker \in Requests \cup {None}
         /\ req[r].root \in Nat /\ req[r].root <= Len(spans)
         /\ req[r].baggage \in Nat /\ req[r].baggage <= Len(spans)
         /\ req[r].span \in Nat /\ req[r].span <= Len(spans)
         /\ req[r].over \in BOOLEAN
         /\ req[r].at \in {"idle", "rooted", "asked", "handling", "answered"}
BY RequestIs DEF Types, ReqTypes

LEMMA ReqLinksStep ==
  ASSUME Types, ReqLinks, [Next]_vars
  PROVE  ReqLinks'
<1> DEFINE Linked(r) ==
      /\ req'[r].at = "idle" =>
           req'[r].root = 0 /\ req'[r].baggage = 0 /\ req'[r].asker = None /\ ~req'[r].over
      /\ req'[r].at = "rooted" => req'[r].baggage = req'[r].root /\ req'[r].asker = None
      /\ req'[r].at \in {"asked", "handling", "answered"} =>
           IF req'[r].baggage = 0 THEN req'[r].asker = None /\ req'[r].root = 0
                                  ELSE /\ spans'[req'[r].baggage].kind = "client"
                                       /\ spans'[req'[r].baggage].owner = r
      /\ \A q \in Requests : req'[r].asker = q => req'[q].at \in {"handling", "answered"}
      /\ req'[r].root # 0 => /\ spans'[req'[r].root].kind = "root"
                             /\ spans'[req'[r].root].owner = r
      /\ req'[r].at = "handling" => /\ req'[r].span # 0
                                    /\ spans'[req'[r].span].kind = "handler"
                                    /\ spans'[req'[r].span].owner = r
<1> SUFFICES ASSUME NEW r \in Requests PROVE Linked(r)
  <2>1. req' \in [Requests -> RequestOf]
    BY NextCases, ReqStays
       DEF Types, ReqTypes, Load, Settled, Emit, StartMeter, Measure, EndMeter, vars
  <2>2. \A r \in Requests : req'[r].asker # None => req'[r].asker \in Requests
    BY <2>1, RequestIs
  <2> HIDE DEF Linked
  <2>3. \A r \in Requests : Linked(r)
    OBVIOUS
  <2> QED BY <2>2, <2>3 DEF Linked, ReqLinks, Handled, Made
<1>1. /\ req \in [Requests -> RequestOf] /\ spans \in Seq(Span) /\ NextSpan \in Nat /\ NextSpan # 0
  BY DEF Types, ReqTypes, SpanTypes, NextSpan
<1>2. ASSUME NEW q \in Requests, req[q].at \in {"handling", "answered"}
      PROVE  req'[q].at \in {"handling", "answered"} /\ req'[q].span = req[q].span
  BY <1>2, ReqStays DEF Handled
<1>3. req[r].root # 0 => /\ spans'[req[r].root].kind = "root"
                         /\ spans'[req[r].root].owner = r
  BY ReqNumbers, KindStays DEF ReqLinks
<1>4. req[r].at = "handling" => /\ req[r].span # 0
                                /\ spans'[req[r].span].kind = "handler"
                                /\ spans'[req[r].span].owner = r
  BY ReqNumbers, KindStays DEF ReqLinks
<1>5. Made(r) /\ req[r].baggage # 0 => /\ spans'[req[r].baggage].kind = "client"
                                        /\ spans'[req[r].baggage].owner = r
  BY ReqNumbers, KindStays DEF ReqLinks
<1>6. ASSUME NEW s \in Span, spans' = Append(spans, s) PROVE spans'[NextSpan] = s
  BY <1>1, <1>6, Appended
<1>7. CASE req'[r] = req[r]
  <2>1. \A q \in Requests : req[r].asker = q => req[q].at \in {"handling", "answered"}
    BY OwnersAssumption DEF ReqLinks, Handled
  <2>2. /\ req[r].at = "idle" =>
             req[r].root = 0 /\ req[r].baggage = 0 /\ req[r].asker = None /\ ~req[r].over
        /\ req[r].at = "rooted" => req[r].baggage = req[r].root /\ req[r].asker = None
        /\ Made(r) /\ req[r].baggage = 0 => req[r].asker = None /\ req[r].root = 0
    BY DEF ReqLinks
  <2>3. \A q \in Requests : req[r].asker = q => req'[q].at \in {"handling", "answered"}
    BY <1>2, <2>1
  <2> QED BY <1>3, <1>4, <1>7, <1>5, <2>2, <2>3 DEF Made
<1>8. ASSUME NEW h \in Headers, GetRootBaggage(r, h) PROVE Linked(r)
  <2>1. PICK x \in RequestOf :
          /\ req' = [req EXCEPT ![r] = x] /\ req[r].at = "idle"
          /\ x.at = "rooted" /\ x.root = NextSpan /\ x.baggage = NextSpan
          /\ x.asker = req[r].asker
    BY <1>8, RootAsked
  <2>2. req'[r] = x
    BY <1>1, <2>1
  <2>3. req[r].asker = None
    BY <2>1 DEF ReqLinks
  <2>4. spans'[NextSpan].kind = "root" /\ spans'[NextSpan].owner = r
    BY <1>6, <1>8, RootStarted
  <2> QED BY <1>1, <2>1, <2>2, <2>3, <2>4, OwnersAssumption
<1>9. CASE Ask(r)
  <2>1. PICK s \in Span, x \in RequestOf :
          /\ spans' = Append(spans, s) /\ s.kind = "client" /\ s.owner = r
          /\ req' = [req EXCEPT ![r] = x] /\ req[r].at \in {"idle", "rooted"}
          /\ x.at = "asked" /\ x.root = req[r].root /\ x.baggage = NextSpan
          /\ x.asker = None \/ (x.asker \in Requests /\ req[x.asker].at = "handling")
    BY <1>9, Asked
  <2>2. req'[r] = x /\ spans'[NextSpan] = s
    BY <1>1, <1>6, <2>1
  <2>3. ASSUME NEW q \in Requests, x.asker = q PROVE req'[q].at \in {"handling", "answered"}
    <3>1. req[q].at = "handling"
      BY <2>1, <2>3, OwnersAssumption
    <3> QED BY <1>2, <3>1
  <2> QED BY <1>1, <1>3, <2>1, <2>2, <2>3
<1>10. ASSUME Receive(r) PROVE Linked(r)
  <2>1. PICK x \in RequestOf :
          /\ req' = [req EXCEPT ![r] = x] /\ req[r].at = "idle"
          /\ x.at = "asked" /\ x.root = req[r].root /\ x.baggage = req[r].baggage
          /\ x.asker = req[r].asker
    BY <1>10, Received
  <2>2. req'[r] = x
    BY <1>1, <2>1
  <2>3. req[r].asker = None /\ req[r].root = 0 /\ req[r].baggage = 0
    BY <2>1 DEF ReqLinks
  <2> QED BY <2>1, <2>2, <2>3, OwnersAssumption
<1>11. ASSUME Made(r) PROVE
        /\ req'[r].at \in {"asked", "handling", "answered"}
        /\ IF req'[r].baggage = 0 THEN req'[r].asker = None /\ req'[r].root = 0
                                  ELSE /\ spans'[req'[r].baggage].kind = "client"
                                       /\ spans'[req'[r].baggage].owner = r
        /\ \A q \in Requests : req'[r].asker = q => req'[q].at \in {"handling", "answered"}
        /\ req'[r].root = req[r].root
  <2>1. /\ req'[r].at \in {"asked", "handling", "answered"} /\ req'[r].asker = req[r].asker
        /\ req'[r].root = req[r].root /\ req'[r].baggage = req[r].baggage
    BY <1>11, ReqStays DEF Made
  <2>2. req[r].baggage = 0 => req[r].asker = None /\ req[r].root = 0
    BY <1>11 DEF ReqLinks
  <2>3. \A q \in Requests : req[r].asker = q => req[q].at \in {"handling", "answered"}
    BY <1>11, OwnersAssumption DEF ReqLinks, Handled
  <2> QED BY <1>2, <1>11, <1>5, <2>1, <2>2, <2>3
<1>12. ASSUME NEW m \in Methods, Handle(r, m) PROVE Linked(r)
  <2>1. PICK s \in Span, x \in RequestOf :
          /\ spans' = Append(spans, s) /\ s.kind = "handler" /\ s.owner = r
          /\ req' = [req EXCEPT ![r] = x] /\ req[r].at = "asked" /\ x.span = NextSpan
    BY <1>12, HandlerStarted
  <2>2. req'[r] = x /\ spans'[NextSpan] = s
    BY <1>1, <1>6, <2>1
  <2>3. Made(r)
    BY <2>1 DEF Made
  <2> QED BY <1>1, <1>3, <1>11, <2>1, <2>2, <2>3
<1>13. CASE Answer(r)
  <2>1. Made(r)
    BY <1>13, HandlerEnded DEF Made
  <2>2. req'[r].at = "answered"
    BY <1>1, <1>13, HandlerEnded DEF RequestOf
  <2> QED BY <1>3, <1>11, <2>1, <2>2
<1>14. CASE EndRootSpan(r)
  <2>1. PICK x \in RequestOf :
          /\ req' = [req EXCEPT ![r] = x] /\ x.at = req[r].at /\ x.asker = req[r].asker
          /\ x.root = req[r].root /\ x.baggage = req[r].baggage /\ x.span = req[r].span
    <3> DEFINE x == [req[r] EXCEPT !.over = TRUE]
    <3>1. req[r] \in RequestOf /\ req' = [req EXCEPT ![r] = x]
      BY <1>1, <1>14 DEF EndRootSpan
    <3>2. /\ x \in RequestOf /\ x.at = req[r].at /\ x.asker = req[r].asker
          /\ x.root = req[r].root /\ x.baggage = req[r].baggage /\ x.span = req[r].span
      BY <3>1 DEF RequestOf
    <3> HIDE DEF x
    <3> QED BY <3>1, <3>2
  <2>2. req'[r] = x
    BY <1>1, <2>1
  <2>3. req[r].at # "idle"
    BY <1>14, RootEnded DEF ReqLinks
  <2>4. req[r].at = "rooted" => req[r].baggage = req[r].root /\ req[r].asker = None
    BY DEF ReqLinks
  <2>5. CASE Made(r)
    BY <1>3, <1>4, <1>11, <2>1, <2>2, <2>5 DEF Made
  <2>6. CASE ~Made(r)
    <3>1. req[r].at = "rooted"
      BY <2>3, <2>6, ReqNumbers DEF Made
    <3> QED BY <1>3, <2>1, <2>2, <2>4, <3>1, OwnersAssumption
  <2> QED BY <2>5, <2>6
<1> QED BY <1>7, <1>8, <1>9, <1>12, <1>13, <1>10, <1>14, ReqBefore

LEMMA NamedStep ==
  ASSUME Types, ReqLinks, Named, [Next]_vars
  PROVE  Named'
<1>1. spans \in Seq(Span) /\ NextSpan \notin DOMAIN spans
  BY DEF Types, SpanTypes, NextSpan
<1>2. ASSUME NEW s \in Span, spans' = Append(spans, s) PROVE spans'[NextSpan] = s
  BY <1>1, <1>2, Appended
<1>3. ASSUME NEW t \in Traces, rootSpans'[t] # 0
      PROVE  spans'[rootSpans'[t]].kind = "root" /\ spans'[rootSpans'[t]].trace = t
  <2>1. rootSpans \in [Traces -> Nat] /\ rootSpans[t] <= Len(spans)
    BY DEF Types, RootTypes
  <2>2. ASSUME rootSpans'[t] = rootSpans[t]
        PROVE  spans'[rootSpans'[t]].kind = "root" /\ spans'[rootSpans'[t]].trace = t
    BY <1>3, <2>1, <2>2, KindStays DEF Named
  <2>3. ASSUME NEW r \in Requests, NEW h \in Headers, GetRootBaggage(r, h)
        PROVE  spans'[rootSpans'[t]].kind = "root" /\ spans'[rootSpans'[t]].trace = t
    <3>1. PICK s \in Span :
            /\ spans' = Append(spans, s) /\ s.kind = "root"
            /\ rootSpans' = [rootSpans EXCEPT ![s.trace] = NextSpan]
      BY <2>3, RootStarted
    <3>2. CASE t = s.trace
      BY <1>2, <2>1, <3>1, <3>2
    <3>3. CASE t # s.trace
      BY <2>1, <2>2, <3>1, <3>3
    <3> QED BY <3>2, <3>3
  <2>4. ASSUME NEW r \in Requests, EndRootSpan(r) PROVE rootSpans'[t] = rootSpans[t]
    BY <1>3, <2>1, <2>4, RootEnded
  <2> QED BY <2>2, <2>3, <2>4, RootSpansBefore
<1>4. ASSUME NEW e \in Events, meters'[e].span # 0
      PROVE  spans'[meters'[e].span].kind = "meter" /\ spans'[meters'[e].span].owner = e
  <2>1. meters[e].span \in Nat /\ meters[e].span <= Len(spans)
    BY DEF Types, MeterTypes, MeterOf
  <2>2. CASE meters'[e].span = meters[e].span
    BY <1>4, <2>1, <2>2, KindStays DEF Named
  <2>3. CASE meters'[e].span # meters[e].span
    <3>1. StartMeter(e) /\ meters'[e].span = NextSpan
      BY <2>3, MetersStay
    <3> QED BY <1>2, <3>1, MeterStarted
  <2> QED BY <2>2, <2>3
<1>5. /\ \A i \in calls : spans'[i].kind \in {"call", "client"}
      /\ \A i \in broken : spans'[i].kind \in {"call", "handler"}
      /\ calls \subseteq DOMAIN spans /\ broken \subseteq DOMAIN spans /\ calls \cap broken = {}
  BY SpansStay DEF Named, Types, SpanTypes
<1> DEFINE Open == /\ \A i \in calls' : spans'[i].kind \in {"call", "client"}
                   /\ \A i \in broken' : spans'[i].kind \in {"call", "handler"}
                   /\ calls' \cap broken' = {}
<1>6. Open
  <2>1. CASE UNCHANGED <<calls, broken>>
    BY <1>5, <2>1
  <2>2. ASSUME NEW s \in Span, spans' = Append(spans, s), s.kind \in {"call", "client"},
               calls' = calls \cup {NextSpan}, UNCHANGED broken
        PROVE  Open
    BY <1>1, <1>2, <1>5, <2>2
  <2>3. ASSUME NEW s \in Span, spans' = Append(spans, s), s.kind \in {"call", "handler"},
               broken' = broken \cup {NextSpan}, UNCHANGED calls
        PROVE  Open
    BY <1>1, <1>2, <1>5, <2>3
  <2> HIDE DEF Open
  <2>4. ASSUME NEW r \in Requests, Perform(r) PROVE Open
    BY <2>1, <2>2, <2>4, CallStarted
  <2>5. ASSUME NEW e \in Events, Measure(e) PROVE Open
    BY <2>1, <2>2, <2>3, <2>5, MeasureStarted
  <2>6. ASSUME NEW r \in Requests, Ask(r) PROVE Open
    BY <2>2, <2>6, Asked
  <2>7. ASSUME NEW r \in Requests, NEW m \in Methods, Handle(r, m) PROVE Open
    BY <2>1, <2>3, <2>7, HandlerStarted
  <2>8. ASSUME NEW r \in Requests, Answer(r) PROVE Open
    <3>1. spans[req[r].span].kind = "handler" /\ req[r].span \in DOMAIN spans
      BY <2>8, HandlerEnded DEF ReqLinks
    <3>2. req[r].span \notin calls /\ spans'[req[r].span].kind = "handler"
      BY <3>1, SpansStay DEF Named
    <3> QED BY <1>5, <2>8, <3>2, HandlerEnded DEF Open
  <2>9. ASSUME NEW i \in calls, Settled(i) PROVE Open
    BY <1>5, <2>9 DEF Settled, Open
  <2> QED BY <2>1, <2>4, <2>5, <2>6, <2>7, <2>8, <2>9, CallsBefore
<1> QED BY <1>3, <1>4, <1>6 DEF Named

--------------------------------------------------------------------------------
(***************************************************************************)
(* The spans of each kind                                                  *)
(***************************************************************************)

Handlers ==
  \A i \in DOMAIN spans, r \in Requests :
    spans[i].kind = "handler" /\ spans[i].owner = r =>
      /\ req[r].at \in {"handling", "answered"}
      /\ req[r].span = i /\ spans[i].parent = req[r].baggage
      /\ spans[i].ends = IF req[r].at = "handling" \/ i \in broken THEN 0 ELSE 1
      /\ i \in broken => req[r].at = "answered"

Clients ==
  \A i \in DOMAIN spans, r \in Requests :
    spans[i].kind = "client" /\ spans[i].owner = r =>
      /\ Made(r) /\ req[r].baggage = i
      /\ spans[i].parent = IF req[r].asker = None THEN req[r].root ELSE req[req[r].asker].span
      /\ spans[i].ends = IF i \in calls THEN 0 ELSE 1

Calls ==
  \A i \in DOMAIN spans :
    spans[i].kind = "call" =>
      /\ spans[i].ends = IF i \in calls \cup broken THEN 0 ELSE 1
      /\ \A r \in Requests : spans[i].owner = r => /\ req[r].at \in {"handling", "answered"}
                                                  /\ spans[i].parent = req[r].span

EventSpans ==
  \A i \in DOMAIN spans, r \in Requests :
    spans[i].kind = "event" /\ spans[i].owner = r =>
      /\ req[r].at \in {"handling", "answered"}
      /\ spans[i].parent = req[r].span /\ spans[i].ends = 1

MeterSpans ==
  \A i \in DOMAIN spans, e \in Events :
    spans[i].kind = "meter" /\ spans[i].owner = e =>
      /\ meters[e].span = i /\ meters[e].from # None
      /\ spans[i].ends = IF meters[e].over THEN 1 ELSE 0
      /\ meters[e].from # 0 => spans[i].trace = spans[meters[e].from].trace

(* rootSpans has the span of a root whose trace no other request shares    *)
(* until it is ended.                                                      *)
Roots ==
  \A i \in DOMAIN spans, r \in Requests :
    spans[i].kind = "root" /\ spans[i].owner = r =>
      /\ req[r].root = i /\ req[r].at # "idle"
      /\ spans[i].trace = IF ContainsTrace(req[r].header) THEN req[r].header.trace ELSE i
      /\ \/ \E q \in Requests \ {r} :
              req[q].root # 0 /\ spans[req[q].root].trace = spans[i].trace
         \/ /\ spans[i].ends = IF req[r].over THEN 1 ELSE 0
            /\ ~req[r].over => rootSpans[spans[i].trace] = i

Owned ==
  \A i \in DOMAIN spans :
    /\ spans[i].kind \in {"root", "client", "handler", "event"} => spans[i].owner \in Requests
    /\ spans[i].kind = "meter" => spans[i].owner \in Events

Traced == \A i \in DOMAIN spans : Under(spans[i])

LEMMA EndedAdds ==
  ASSUME Types, ReqLinks, NEW i \in DOMAIN spans, EndedBy(i)
  PROVE  spans'[i].ends = spans[i].ends + 1
<1>1. spans \in Seq(Span) /\ i # 0
  BY DEF Types, SpanTypes
<1>2. ASSUME FinishSpan(i) PROVE spans'[i].ends = spans[i].ends + 1
  BY <1>1, <1>2, Finished
<1>3. ASSUME NEW r \in Requests, EndRootSpan(r), i = rootSpans[spans[req[r].root].trace]
      PROVE  FinishSpan(i)
  BY <1>1, <1>3, RootEnded
<1>4. ASSUME Settled(i) PROVE FinishSpan(i)
  BY <1>4 DEF Settled
<1>5. ASSUME NEW e \in Events, EndMeter(e), i = meters[e].span PROVE FinishSpan(i)
  BY <1>1, <1>5, MeterEnded
<1> QED BY <1>2, <1>3, <1>4, <1>5 DEF EndedBy

(* Which calls are under way changes with their spans only, and which spans*)
(* stay open for an error with a handler that rejects.                     *)
LEMMA CallsStay ==
  ASSUME Types, ReqLinks, [Next]_vars, NEW i \in DOMAIN spans, ~EndedBy(i)
  PROVE  /\ i \in calls' <=> i \in calls
         /\ \/ i \in broken' <=> i \in broken
            \/ \E r \in Requests : Answer(r) /\ i = req[r].span /\ i \in broken'
<1>1. i # NextSpan
  BY DEF Types, SpanTypes, NextSpan
<1> DEFINE Goal == /\ i \in calls' <=> i \in calls
                   /\ \/ i \in broken' <=> i \in broken
                      \/ \E r \in Requests : Answer(r) /\ i = req[r].span /\ i \in broken'
<1>2. ASSUME UNCHANGED <<calls, broken>> PROVE Goal
  BY <1>2
<1>3. ASSUME NEW r \in Requests, Perform(r) PROVE Goal
  BY <1>1, <1>3 DEF Perform
<1>4. ASSUME NEW e \in Events, Measure(e) PROVE Goal
  BY <1>1, <1>4 DEF Measure
<1>5. ASSUME NEW j \in calls, Settled(j) PROVE Goal
  BY <1>5 DEF Settled, EndedBy
<1>6. ASSUME NEW r \in Requests, Ask(r) PROVE Goal
  BY <1>1, <1>6, Asked
<1>7. ASSUME NEW r \in Requests, NEW m \in Methods, Handle(r, m) PROVE Goal
  BY <1>1, <1>7, HandlerStarted
<1>8. ASSUME NEW r \in Requests, Answer(r) PROVE Goal
  <2>1. /\ UNCHANGED calls
        /\ UNCHANGED broken \/ broken' = broken \cup {req[r].span}
    BY <1>8, HandlerEnded
  <2> QED BY <1>8, <2>1
<1> HIDE DEF Goal
<1>9. Goal
  BY <1>2, <1>3, <1>4, <1>5, <1>6, <1>7, <1>8, CallsBefore
<1> QED BY <1>9 DEF Goal

(* Where a request is changes with its handler's span, unless that stays   *)
(* open.                                                                   *)
LEMMA HandlersStep ==
  ASSUME Types, ReqLinks, Named, Handlers, [Next]_vars
  PROVE  Handlers'
<1> SUFFICES ASSUME NEW i \in DOMAIN spans', NEW r \in Requests,
                    spans'[i].kind = "handler", spans'[i].owner = r
             PROVE  /\ req'[r].at \in {"handling", "answered"}
                    /\ req'[r].span = i /\ spans'[i].parent = req'[r].baggage
                    /\ spans'[i].ends = IF req'[r].at = "handling" \/ i \in broken' THEN 0 ELSE 1
                    /\ i \in broken' => req'[r].at = "answered"
  BY DEF Handlers
<1>1. CASE i \in DOMAIN spans
  <2>1. /\ spans[i].kind = "handler" /\ spans[i].owner = r
        /\ spans'[i].parent = spans[i].parent
        /\ ~EndedBy(i) => spans'[i].ends = spans[i].ends
    BY <1>1, SpansStay
  <2>2. /\ req[r].at \in {"handling", "answered"}
        /\ req[r].span = i /\ spans[i].parent = req[r].baggage
        /\ spans[i].ends = IF req[r].at = "handling" \/ i \in broken THEN 0 ELSE 1
        /\ i \in broken => req[r].at = "answered"
    BY <1>1, <2>1 DEF Handlers
  <2>3. /\ req'[r].at \in {"handling", "answered"}
        /\ req'[r].span = i /\ spans'[i].parent = req'[r].baggage
    BY <2>1, <2>2, ReqStays DEF Handled, Made
  <2>4. ASSUME Answer(r) PROVE req[r].at = "handling" /\ req'[r].at = "answered"
    <3>1. req \in [Requests -> RequestOf]
      BY DEF Types, ReqTypes
    <3> QED BY <2>4, <3>1 DEF Answer, RequestOf
  <2>5. CASE EndedBy(i)
    <3>1. Answer(r) /\ UNCHANGED broken
      BY <1>1, <2>1, <2>5, EndedKind
    <3> QED BY <1>1, <2>2, <2>3, <2>4, <2>5, <3>1, EndedAdds
  <2>6. CASE ~EndedBy(i) /\ Answer(r)
    <3>1. broken' = broken \cup {i}
      BY <2>2, <2>6, HandlerEnded DEF EndedBy
    <3> QED BY <2>1, <2>2, <2>3, <2>4, <2>6, <3>1
  <2>7. CASE ~EndedBy(i) /\ ~Answer(r)
    <3>1. req'[r].at = req[r].at
      <4>1. ASSUME NEW h \in Headers, GetRootBaggage(r, h) PROVE FALSE
        BY <2>2, <4>1 DEF GetRootBaggage
      <4>2. ~Ask(r)
        BY <2>2 DEF Ask
      <4>3. ASSUME NEW m \in Methods, Handle(r, m) PROVE FALSE
        BY <2>2, <4>3 DEF Handle
      <4>4. ~Receive(r)
        BY <2>2 DEF Receive
      <4> QED BY <2>7, <4>1, <4>2, <4>3, <4>4, ReqStays
    <3>2. i \in broken' <=> i \in broken
      <4>1. ASSUME NEW q \in Requests, Answer(q), i = req[q].span PROVE q = r
        BY <2>1, <4>1, HandlerEnded DEF ReqLinks
      <4> QED BY <1>1, <2>7, <4>1, CallsStay
    <3> QED BY <2>1, <2>2, <2>3, <2>7, <3>1, <3>2
  <2> QED BY <2>5, <2>6, <2>7
<1>2. CASE i \notin DOMAIN spans
  <2>1. PICK q \in Requests, m \in Methods : Handle(q, m)
    BY <1>2, NewSpan
  <2>2. PICK s \in Span, x \in RequestOf :
          /\ spans' = Append(spans, s)
          /\ s.owner = q /\ s.parent = req[q].baggage
          /\ req' = [req EXCEPT ![q] = x]
          /\ \/ s.ends = 0 /\ x.at = "handling" /\ UNCHANGED broken
             \/ s.ends = 1 /\ x.at = "answered" /\ UNCHANGED broken
             \/ s.ends = 0 /\ x.at = "answered" /\ broken' = broken \cup {NextSpan}
          /\ x.baggage = req[q].baggage /\ x.span = NextSpan
    BY <2>1, HandlerStarted
  <2>3. i = NextSpan /\ spans'[i] = s
    BY <1>2, <2>2, NewSpan
  <2>4. req'[q] = x /\ i \notin broken
    BY <1>2, <2>2 DEF Types, ReqTypes, SpanTypes
  <2> QED BY <2>2, <2>3, <2>4
<1> QED BY <1>1, <1>2

(* A client's span is that in the baggage of its request, which keeps it.  *)
LEMMA ClientsStep ==
  ASSUME Types, ReqLinks, Named, Clients, [Next]_vars
  PROVE  Clients'
<1> SUFFICES ASSUME NEW i \in DOMAIN spans', NEW r \in Requests,
                    spans'[i].kind = "client", spans'[i].owner = r
             PROVE  /\ Made(r)' /\ req'[r].baggage = i
                    /\ spans'[i].parent = IF req'[r].asker = None THEN req'[r].root
                                          ELSE req'[req'[r].asker].span
                    /\ spans'[i].ends = IF i \in calls' THEN 0 ELSE 1
  BY DEF Clients
<1>1. CASE i \in DOMAIN spans
  <2>1. /\ spans[i].kind = "client" /\ spans[i].owner = r
        /\ spans'[i].parent = spans[i].parent
        /\ ~EndedBy(i) => spans'[i].ends = spans[i].ends
    BY <1>1, SpansStay
  <2>2. /\ Made(r) /\ req[r].baggage = i
        /\ spans[i].parent = IF req[r].asker = None THEN req[r].root ELSE req[req[r].asker].span
        /\ spans[i].ends = IF i \in calls THEN 0 ELSE 1
    BY <1>1, <2>1 DEF Clients
  <2>3. /\ Made(r)' /\ req'[r].baggage = i /\ req'[r].asker = req[r].asker
        /\ req'[r].root = req[r].root
    BY <2>2, ReqStays DEF Made
  <2>4. req[r].asker # None => req'[req[r].asker].span = req[req[r].asker].span
    <3>1. req[r].asker # None => req[r].asker \in Requests /\ Handled(req[r].asker)
      BY ReqNumbers DEF ReqLinks
    <3> QED BY <3>1, ReqStays
  <2>5. CASE EndedBy(i)
    <3>1. i \in calls /\ Settled(i)
      BY <1>1, <2>1, <2>5, EndedKind
    <3>2. i \notin calls'
      BY <3>1 DEF Settled
    <3> QED BY <1>1, <2>1, <2>2, <2>3, <2>4, <2>5, <3>1, <3>2, EndedAdds
  <2>6. CASE ~EndedBy(i)
    <3>1. i \in calls' <=> i \in calls
      BY <1>1, <2>6, CallsStay
    <3> QED BY <2>1, <2>2, <2>3, <2>4, <2>6, <3>1
  <2> QED BY <2>5, <2>6
<1>2. CASE i \notin DOMAIN spans
  <2>1. PICK q \in Requests : Ask(q)
    BY <1>2, NewSpan
  <2>2. PICK s \in Span, x \in RequestOf :
          /\ spans' = Append(spans, s) /\ s.owner = q /\ s.ends = 0
          /\ req' = [req EXCEPT ![q] = x]
          /\ x.at = "asked" /\ x.root = req[q].root /\ x.baggage = NextSpan
          /\ \/ /\ req[q].at \in {"idle", "rooted"}
                /\ x.asker = None /\ s.parent = req[q].baggage
             \/ /\ req[q].at = "idle" /\ x.asker \in Requests
                /\ req[x.asker].at = "handling" /\ s.parent = req[x.asker].span
          /\ calls' = calls \cup {NextSpan}
    BY <2>1, Asked
  <2>3. i = NextSpan /\ spans'[i] = s /\ q = r
    BY <1>2, <2>2, NewSpan
  <2>4. req \in [Requests -> RequestOf] /\ req'[r] = x
    BY <2>2, <2>3 DEF Types, ReqTypes
  <2>5. s.parent = IF x.asker = None THEN x.root ELSE req'[x.asker].span
    <3>1. CASE x.asker = None
      <4>1. req[q].at \in {"idle", "rooted"} /\ s.parent = req[q].baggage
        BY <2>2, <3>1, OwnersAssumption
      <4>2. req[q].baggage = req[q].root
        BY <4>1 DEF ReqLinks
      <4> QED BY <2>2, <3>1, <4>1, <4>2
    <3>2. CASE x.asker # None
      <4>1. /\ x.asker \in Requests /\ req[x.asker].at = "handling"
            /\ s.parent = req[x.asker].span /\ req[q].at = "idle"
        BY <2>2, <3>2
      <4>2. req'[x.asker] = req[x.asker]
        BY <2>2, <2>4, <4>1
      <4> QED BY <3>2, <4>1, <4>2
    <3> QED BY <3>1, <3>2
  <2> QED BY <2>2, <2>3, <2>4, <2>5 DEF Made
<1> QED BY <1>1, <1>2

LEMMA CallsStep ==
  ASSUME Types, ReqLinks, Named, Calls, [Next]_vars
  PROVE  Calls'
<1> SUFFICES ASSUME NEW i \in DOMAIN spans', spans'[i].kind = "call"
             PROVE  /\ spans'[i].ends = IF i \in calls' \cup broken' THEN 0 ELSE 1
                    /\ \A r \in Requests :
                         spans'[i].owner = r => /\ req'[r].at \in {"handling", "answered"}
                                                /\ spans'[i].parent = req'[r].span
  BY DEF Calls
<1>1. CASE i \in DOMAIN spans
  <2>1. /\ spans[i].kind = "call" /\ spans'[i].owner = spans[i].owner
        /\ spans'[i].parent = spans[i].parent
        /\ ~EndedBy(i) => spans'[i].ends = spans[i].ends
    BY <1>1, SpansStay
  <2>2. /\ spans[i].ends = IF i \in calls \cup broken THEN 0 ELSE 1
        /\ \A r \in Requests :
             spans[i].owner = r => /\ req[r].at \in {"handling", "answered"}
                                   /\ spans[i].parent = req[r].span
    BY <1>1, <2>1 DEF Calls
  <2>3. ASSUME NEW r \in Requests, spans'[i].owner = r
        PROVE  req'[r].at \in {"handling", "answered"} /\ spans'[i].parent = req'[r].span
    BY <2>1, <2>2, <2>3, ReqStays DEF Handled
  <2>4. CASE EndedBy(i)
    <3>1. i \in calls /\ Settled(i)
      BY <1>1, <2>1, <2>4, EndedKind
    <3>2. i \notin calls' /\ i \notin broken'
      BY <3>1 DEF Settled, Named
    <3> QED BY <1>1, <2>2, <2>3, <2>4, <3>1, <3>2, EndedAdds
  <2>5. CASE ~EndedBy(i)
    <3>1. ASSUME NEW q \in Requests, Answer(q), i = req[q].span PROVE FALSE
      BY <2>1, <3>1, HandlerEnded DEF ReqLinks
    <3>2. i \in calls' \cup broken' <=> i \in calls \cup broken
      BY <1>1, <2>5, <3>1, CallsStay
    <3> QED BY <2>1, <2>2, <2>3, <2>5, <3>2
  <2> QED BY <2>4, <2>5
<1>2. CASE i \notin DOMAIN spans
  <2>1. i \notin calls /\ i \notin broken
    BY <1>2 DEF Types, SpanTypes
  <2>2. ASSUME NEW r \in Requests, Perform(r)
        PROVE  /\ spans'[i].ends = IF i \in calls' \cup broken' THEN 0 ELSE 1
               /\ spans'[i].owner = r /\ spans'[i].parent = req[r].span
               /\ req[r].at = "handling" /\ UNCHANGED req
    <3>1. PICK s \in Span :
            /\ spans' = Append(spans, s) /\ s.owner = r /\ s.parent = req[r].span
            /\ req[r].at = "handling"
            /\ \/ s.ends = 1 /\ UNCHANGED calls
               \/ s.ends = 0 /\ calls' = calls \cup {NextSpan}
            /\ UNCHANGED <<req, broken>>
      BY <2>2, CallStarted
    <3>2. i = NextSpan /\ spans'[i] = s
      BY <1>2, <3>1, NewSpan
    <3> QED BY <2>1, <3>1, <3>2
  <2>3. ASSUME NEW e \in Events, Measure(e)
        PROVE  /\ spans'[i].ends = IF i \in calls' \cup broken' THEN 0 ELSE 1
               /\ spans'[i].owner = e
    <3>1. PICK s \in Span :
            /\ spans' = Append(spans, s) /\ s.owner = e
            /\ \/ s.ends = 1 /\ UNCHANGED <<calls, broken>>
               \/ s.ends = 0 /\ calls' = calls \cup {NextSpan} /\ UNCHANGED broken
               \/ s.ends = 0 /\ broken' = broken \cup {NextSpan} /\ UNCHANGED calls
      BY <2>3, MeasureStarted
    <3>2. i = NextSpan /\ spans'[i] = s
      BY <1>2, <3>1, NewSpan
    <3> QED BY <2>1, <3>1, <3>2
  <2>4. (\E r \in Requests : Perform(r)) \/ (\E e \in Events : Measure(e))
    BY <1>2, NewSpan
  <2>5. ASSUME NEW r \in Requests, Perform(r)
        PROVE  \A q \in Requests :
                 spans'[i].owner = q => /\ req'[q].at \in {"handling", "answered"}
                                        /\ spans'[i].parent = req'[q].span
    BY <2>2, <2>5
  <2>6. ASSUME NEW e \in Events, Measure(e)
        PROVE  \A q \in Requests : spans'[i].owner # q
    BY <2>3, <2>6, OwnersAssumption
  <2> QED BY <2>2, <2>3, <2>4, <2>5, <2>6
<1> QED BY <1>1, <1>2

LEMMA EventSpansStep ==
  ASSUME Types, ReqLinks, Named, EventSpans, [Next]_vars
  PROVE  EventSpans'
<1> SUFFICES ASSUME NEW i \in DOMAIN spans', NEW r \in Requests,
                    spans'[i].kind = "event", spans'[i].owner = r
             PROVE  /\ req'[r].at \in {"handling", "answered"}
                    /\ spans'[i].parent = req'[r].span /\ spans'[i].ends = 1
  BY DEF EventSpans
<1>1. CASE i \in DOMAIN spans
  <2>1. /\ spans[i].kind = "event" /\ spans[i].owner = r
        /\ spans'[i].parent = spans[i].parent
        /\ ~EndedBy(i) => spans'[i].ends = spans[i].ends
    BY <1>1, SpansStay
  <2>2. ~EndedBy(i)
    BY <1>1, <2>1, EndedKind
  <2>3. /\ req[r].at \in {"handling", "answered"}
        /\ spans[i].parent = req[r].span /\ spans[i].ends = 1
    BY <1>1, <2>1 DEF EventSpans
  <2> QED BY <2>1, <2>2, <2>3, ReqStays DEF Handled
<1>2. CASE i \notin DOMAIN spans
  <2>1. PICK e \in Events : Emit(e)
    BY <1>2, NewSpan
  <2>2. ~UNCHANGED spans
    BY <1>2
  <2>3. PICK s \in Span, q \in Requests :
          /\ spans' = Append(spans, s)
          /\ s.owner = q /\ s.parent = req[q].span /\ s.ends = 1
          /\ req[q].at = "handling" /\ UNCHANGED req
    BY <2>1, <2>2, EventStarted
  <2>4. spans'[i] = s
    BY <1>2, <2>3, NewSpan
  <2> QED BY <2>3, <2>4
<1> QED BY <1>1, <1>2

LEMMA MeterSpansStep ==
  ASSUME Types, ReqLinks, Named, MeterSpans, [Next]_vars
  PROVE  MeterSpans'
<1> SUFFICES ASSUME NEW i \in DOMAIN spans', NEW e \in Events,
                    spans'[i].kind = "meter", spans'[i].owner = e
             PROVE  /\ meters'[e].span = i /\ meters'[e].from # None
                    /\ spans'[i].ends = IF meters'[e].over THEN 1 ELSE 0
                    /\ meters'[e].from # 0 => spans'[i].trace = spans'[meters'[e].from].trace
  BY DEF MeterSpans
<1>1. /\ meters[e] \in MeterOf /\ meters \in [Events -> MeterOf]
      /\ meters[e].from # None => meters[e].from \in Nat /\ meters[e].from <= Len(spans)
  BY DEF Types, MeterTypes, MeterOf
<1>2. meters[e].from # None /\ meters[e].from # 0 =>
        spans'[meters[e].from].trace = spans[meters[e].from].trace
  BY <1>1, KindStays
<1>3. CASE i \in DOMAIN spans
  <2>1. /\ spans[i].kind = "meter" /\ spans[i].owner = e
        /\ spans'[i].trace = spans[i].trace
        /\ ~EndedBy(i) => spans'[i].ends = spans[i].ends
    BY <1>3, SpansStay
  <2>2. /\ meters[e].span = i /\ meters[e].from # None
        /\ spans[i].ends = IF meters[e].over THEN 1 ELSE 0
        /\ meters[e].from # 0 => spans[i].trace = spans[meters[e].from].trace
    BY <1>3, <2>1 DEF MeterSpans
  <2>3. i # 0
    BY <1>3 DEF Types, SpanTypes
  <2>4. meters'[e].span = i /\ meters'[e].from = meters[e].from
    BY <2>2, <2>3, MetersStay
  <2>5. CASE EndedBy(i)
    <3>1. EndMeter(e)
      BY <1>3, <2>1, <2>5, EndedKind
    <3>2. ~meters[e].over /\ meters'[e].over
      BY <1>1, <3>1, MeterEnded DEF MeterOf
    <3> QED BY <1>2, <1>3, <2>1, <2>2, <2>4, <2>5, <3>2, EndedAdds
  <2>6. CASE ~EndedBy(i)
    <3>1. meters'[e].over = meters[e].over
      BY <2>2, <2>6, MetersStay DEF EndedBy
    <3> QED BY <1>2, <2>1, <2>2, <2>4, <2>6, <3>1
  <2> QED BY <2>5, <2>6
<1>4. CASE i \notin DOMAIN spans
  <2>1. PICK f \in Events : StartMeter(f)
    BY <1>4, NewSpan
  <2>2. PICK s \in Span :
          /\ spans' = Append(spans, s)
          /\ s.owner = f /\ s.ends = 0
          /\ s.trace = IF meters[f].from = 0 THEN NextSpan ELSE spans[meters[f].from].trace
          /\ meters[f].from # None /\ ~meters[f].over
          /\ meters' = [meters EXCEPT ![f].span = NextSpan]
    BY <2>1, MeterStarted
  <2>3. i = NextSpan /\ spans'[i] = s
    BY <1>4, <2>2, NewSpan
  <2>4. f = e
    BY <2>2, <2>3
  <2>5. meters'[e].span = i /\ meters'[e].from = meters[e].from /\ meters'[e].over = meters[e].over
    BY <1>1, <2>2, <2>3, <2>4 DEF MeterOf
  <2> QED BY <1>2, <2>2, <2>3, <2>4, <2>5
<1> QED BY <1>3, <1>4

LEMMA SpanIs ==
  ASSUME SpanTypes, NEW i \in DOMAIN spans
  PROVE  /\ spans[i].trace \in Traces
         /\ spans[i].kind \in SpanKinds
<1>1. spans[i] \in Span
  BY DEF SpanTypes
<1> QED BY <1>1 DEF Span

LEMMA OwnedStep ==
  ASSUME Types, ReqLinks, Owned, [Next]_vars
  PROVE  Owned'
<1> SUFFICES ASSUME NEW i \in DOMAIN spans'
             PROVE  /\ spans'[i].kind \in {"root", "client", "handler", "event"} =>
                         spans'[i].owner \in Requests
                    /\ spans'[i].kind = "meter" => spans'[i].owner \in Events
  BY DEF Owned
<1>1. CASE i \in DOMAIN spans
  BY <1>1, SpansStay DEF Owned
<1>2. CASE i \notin DOMAIN spans
  <2>1. ASSUME NEW r \in Requests, NEW h \in Headers, GetRootBaggage(r, h)
        PROVE  spans'[i].owner \in Requests
    BY <1>2, <2>1, RootStarted, NewSpan
  <2>2. ASSUME NEW r \in Requests, NEW m \in Methods, Handle(r, m)
        PROVE  spans'[i].owner \in Requests
    BY <1>2, <2>2, HandlerStarted, NewSpan
  <2>3. ASSUME NEW e \in Events, Emit(e) PROVE spans'[i].owner \in Requests
    BY <1>2, <2>3, EventStarted, NewSpan
  <2>4. ASSUME NEW e \in Events, StartMeter(e) PROVE spans'[i].owner \in Events
    BY <1>2, <2>4, MeterStarted, NewSpan
  <2>5. ASSUME NEW r \in Requests, Ask(r) PROVE spans'[i].owner \in Requests
    BY <1>2, <2>5, Asked, NewSpan
  <2> QED BY <1>2, <2>1, <2>2, <2>3, <2>4, <2>5, NewSpan
<1> QED BY <1>1, <1>2

(* What is started is started once there is room for it, and in the trace  *)
(* of its parent.                                                          *)
LEMMA NewUnder ==
  ASSUME Types, ReqLinks, [Next]_vars, NEW i \in DOMAIN spans', i \notin DOMAIN spans
  PROVE  NextSpan \in Spans /\ Under(spans'[i])
<1>1. ASSUME NEW s \in Span, spans' = Append(spans, s), Under(s) PROVE Under(spans'[i])
  BY <1>1, NewSpan
<1>2. ASSUME NEW r \in Requests, NEW h \in Headers, GetRootBaggage(r, h)
      PROVE  NextSpan \in Spans /\ Under(spans'[i])
  <2>1. NextSpan \in Spans
    BY <1>2 DEF GetRootBaggage
  <2> QED BY <1>1, <1>2, <2>1, RootStarted
<1>3. ASSUME NEW r \in Requests, Ask(r) PROVE NextSpan \in Spans /\ Under(spans'[i])
  <2>1. NextSpan \in Spans
    BY <1>3 DEF Ask, Request
  <2> QED BY <1>1, <1>3, <2>1, Asked
<1>4. ASSUME NEW r \in Requests, NEW m \in Methods, Handle(r, m)
      PROVE  NextSpan \in Spans /\ Under(spans'[i])
  <2>1. NextSpan \in Spans
    BY <1>4 DEF Handle
  <2> QED BY <1>1, <1>4, <2>1, HandlerStarted
<1>5. ASSUME NEW r \in Requests, Perform(r) PROVE NextSpan \in Spans /\ Under(spans'[i])
  <2>1. NextSpan \in Spans
    BY <1>5 DEF Perform
  <2> QED BY <1>1, <1>5, <2>1, CallStarted
<1>6. ASSUME NEW e \in Events, Emit(e) PROVE NextSpan \in Spans /\ Under(spans'[i])
  <2>1. NextSpan \in Spans \/ UNCHANGED spans
    BY <1>6 DEF Emit
  <2>2. ~UNCHANGED spans
    OBVIOUS
  <2> QED BY <1>1, <1>6, <2>1, <2>2, EventStarted
<1>7. ASSUME NEW e \in Events, StartMeter(e) PROVE NextSpan \in Spans /\ Under(spans'[i])
  <2>1. NextSpan \in Spans
    BY <1>7 DEF StartMeter
  <2> QED BY <1>1, <1>7, <2>1, MeterStarted
<1>8. ASSUME NEW e \in Events, Measure(e) PROVE NextSpan \in Spans /\ Under(spans'[i])
  <2>1. NextSpan \in Spans
    BY <1>8 DEF Measure
  <2> QED BY <1>1, <1>8, <2>1, MeasureStarted
<1> QED BY <1>2, <1>3, <1>4, <1>5, <1>6, <1>7, <1>8, NewSpan

(* A span and its parent keep their traces.                                *)
LEMMA TracedStep ==
  ASSUME Types, ReqLinks, Traced, [Next]_vars
  PROVE  Traced'
<1> SUFFICES ASSUME NEW i \in DOMAIN spans' PROVE Under(spans[i])'
  BY DEF Traced
<1>1. /\ spans' \in Seq(Span) /\ Len(spans) \in Nat /\ Len(spans') \in Nat
      /\ Len(spans) <= Len(spans')
  BY SpansStay
<1>2. spans'[i].parent \in Nat
  <2>1. spans'[i] \in Span
    BY <1>1
  <2> QED BY <2>1 DEF Span
<1>3. Under(spans'[i])
  <2>1. CASE i \in DOMAIN spans
    <3>1. Under(spans[i])
      BY <2>1 DEF Traced
    <3>2. spans'[i].parent = spans[i].parent /\ spans'[i].trace = spans[i].trace
      BY <2>1, SpansStay
    <3> QED BY <3>1, <3>2 DEF Under
  <2>2. CASE i \notin DOMAIN spans
    BY <2>2, NewUnder
  <2> QED BY <2>1, <2>2
<1> DEFINE p == spans'[i].parent
<1>4. p <= Len(spans) /\ (p # 0 => spans'[i].trace = spans[p].trace)
  BY <1>3 DEF Under
<1>5. p # 0 => spans'[p].trace = spans[p].trace
  BY <1>2, <1>4, KindStays
<1>6. p <= Len(spans')
  BY <1>1, <1>2, <1>4
<1> QED BY <1>4, <1>5, <1>6 DEF Under

(* A root that is there keeps its place in rootSpans until endRootSpan is  *)
(* called for it, or another root has its trace.                           *)
LEMMA RootsStep ==
  ASSUME Types, ReqLinks, Named, Roots, [Next]_vars
  PROVE  Roots'
<1> SUFFICES ASSUME NEW i \in DOMAIN spans', NEW r \in Requests,
                    spans'[i].kind = "root", spans'[i].owner = r
             PROVE  /\ req'[r].root = i /\ req'[r].at # "idle"
                    /\ spans'[i].trace =
                         IF ContainsTrace(req'[r].header) THEN req'[r].header.trace ELSE i
                    /\ \/ \E q \in Requests \ {r} :
                            req'[q].root # 0 /\ spans'[req'[q].root].trace = spans'[i].trace
                       \/ /\ spans'[i].ends = IF req'[r].over THEN 1 ELSE 0
                          /\ ~req'[r].over => rootSpans'[spans'[i].trace] = i
  BY DEF Roots, ContainsTrace
<1> DEFINE Shared == \E q \in Requests \ {r} :
                       req'[q].root # 0 /\ spans'[req'[q].root].trace = spans'[i].trace
<1>1. /\ req \in [Requests -> RequestOf] /\ rootSpans \in [Traces -> Nat]
      /\ spans \in Seq(Span) /\ NextSpan \in Nat /\ NextSpan # 0
  BY DEF Types, ReqTypes, RootTypes, SpanTypes, NextSpan
<1>2. CASE i \in DOMAIN spans
  <2>1. /\ spans[i].kind = "root" /\ spans[i].owner = r
        /\ spans'[i].trace = spans[i].trace
        /\ ~EndedBy(i) => spans'[i].ends = spans[i].ends
    BY <1>2, SpansStay
  <2>2. /\ req[r].root = i /\ req[r].at # "idle" /\ i # 0
        /\ spans[i].trace = IF ContainsTrace(req[r].header) THEN req[r].header.trace ELSE i
    BY <1>2, <2>1 DEF Roots, Types, SpanTypes
  <2>3. spans[i].trace \in Traces
    BY <1>2, SpanIs DEF Types
  <2>4. /\ req'[r].root = i /\ req'[r].at # "idle" /\ req'[r].header = req[r].header
    BY <2>2, ReqStays
  <2>5. ASSUME NEW q \in Requests \ {r}, req[q].root # 0, spans[req[q].root].trace = spans[i].trace
        PROVE  Shared
    <3>1. req'[q].root = req[q].root
      BY <2>5, ReqStays DEF ReqLinks
    <3>2. spans'[req[q].root].trace = spans[req[q].root].trace
      BY <2>5, ReqNumbers, KindStays
    <3> QED BY <2>1, <2>5, <3>1, <3>2
  <2>6. ASSUME ~Shared
        PROVE  /\ spans'[i].ends = IF req'[r].over THEN 1 ELSE 0
               /\ ~req'[r].over => rootSpans'[spans'[i].trace] = i
    <3>1. /\ spans[i].ends = IF req[r].over THEN 1 ELSE 0
          /\ ~req[r].over => rootSpans[spans[i].trace] = i
      BY <1>2, <2>1, <2>5, <2>6 DEF Roots
    <3>2. ASSUME EndRootSpan(r)
          PROVE  /\ ~req[r].over /\ req'[r].over /\ EndedBy(i)
      <4>1. ~req[r].over /\ req' = [req EXCEPT ![r].over = TRUE]
        BY <3>2, RootEnded
      <4>2. req'[r].over
        BY <1>1, <4>1 DEF RequestOf
      <4>3. i = rootSpans[spans[req[r].root].trace]
        BY <2>2, <3>1, <4>1
      <4> QED BY <3>2, <4>1, <4>2, <4>3 DEF EndedBy
    <3>3. ASSUME NEW q \in Requests, EndRootSpan(q), spans[req[q].root].trace = spans[i].trace
          PROVE  q = r
      <4>1. req[q].root # 0
        BY <3>3, RootEnded
      <4> QED BY <2>5, <2>6, <3>3, <4>1
    <3>4. CASE EndedBy(i)
      <4>1. EndRootSpan(r)
        BY <1>2, <2>1, <3>3, <3>4, EndedKind
      <4> QED BY <1>2, <3>1, <3>2, <3>4, <4>1, EndedAdds
    <3>5. CASE ~EndedBy(i)
      <4>1. req'[r].over = req[r].over
        BY <3>2, <3>5, ReqStays
      <4>2. CASE UNCHANGED rootSpans
        BY <2>1, <3>1, <3>5, <4>1, <4>2
      <4>3. ASSUME NEW q \in Requests, NEW h \in Headers, GetRootBaggage(q, h)
            PROVE  rootSpans'[spans[i].trace] = rootSpans[spans[i].trace]
        <5>1. PICK s \in Span :
                /\ spans' = Append(spans, s)
                /\ rootSpans' = [rootSpans EXCEPT ![s.trace] = NextSpan]
                /\ req[q].at = "idle"
          BY <4>3, RootStarted
        <5>2. PICK x \in RequestOf : req' = [req EXCEPT ![q] = x] /\ x.root = NextSpan
          BY <4>3, RootAsked
        <5>3. req'[q].root = NextSpan /\ spans'[NextSpan] = s
          BY <1>1, <5>1, <5>2, Appended, ReqSet
        <5>4. q # r
          BY <2>2, <5>1
        <5>5. s.trace # spans'[i].trace
          BY <1>1, <2>6, <5>3, <5>4
        <5> QED BY <1>1, <2>1, <2>3, <5>1, <5>5
      <4>4. ASSUME NEW q \in Requests, EndRootSpan(q)
            PROVE  rootSpans'[spans[i].trace] = rootSpans[spans[i].trace]
        <5>1. q # r
          BY <3>2, <3>5, <4>4
        <5>2. spans[req[q].root].trace # spans[i].trace
          BY <3>3, <4>4, <5>1
        <5> QED BY <1>1, <2>3, <4>4, <5>2, RootEnded
      <4> QED BY <2>1, <3>1, <3>5, <4>1, <4>2, <4>3, <4>4, RootSpansBefore
    <3> QED BY <3>4, <3>5
  <2> QED BY <2>1, <2>2, <2>4, <2>6
<1>3. CASE i \notin DOMAIN spans
  <2>1. PICK q \in Requests, h \in Headers : GetRootBaggage(q, h)
    BY <1>3, NewSpan
  <2>2. PICK s \in Span :
          /\ spans' = Append(spans, s) /\ s.owner = q /\ s.ends = 0
          /\ s.trace = IF ContainsTrace(h) THEN h.trace ELSE NextSpan
          /\ rootSpans' = [rootSpans EXCEPT ![s.trace] = NextSpan]
    BY <2>1, RootStarted
  <2>3. PICK x \in RequestOf :
          /\ req' = [req EXCEPT ![q] = x]
          /\ x.at = "rooted" /\ x.header = h /\ x.root = NextSpan /\ x.over = req[q].over
          /\ req[q].at = "idle"
    BY <2>1, RootAsked
  <2>4. i = NextSpan /\ spans'[i] = s
    BY <1>3, <2>2, NewSpan
  <2>5. q = r /\ req'[r] = x
    BY <1>1, <2>2, <2>3, <2>4, ReqSet
  <2>6. ~req[r].over
    BY <2>3, <2>5 DEF ReqLinks
  <2>7. s.trace \in Traces
    BY DEF Span
  <2>8. rootSpans'[s.trace] = NextSpan
    BY <1>1, <2>2, <2>7
  <2> QED BY <2>2, <2>3, <2>4, <2>5, <2>6, <2>8
<1> QED BY <1>2, <1>3

--------------------------------------------------------------------------------
(***************************************************************************)
(* The invariant, and what follows from it                                 *)
(***************************************************************************)

Inv ==
  /\ Types /\ ReqLinks /\ Named /\ Owned
  /\ Handlers /\ Clients /\ Calls /\ EventSpans /\ MeterSpans /\ Roots /\ Traced

LEMMA InvInit == Init => Inv
<1> SUFFICES ASSUME Init PROVE Inv
  OBVIOUS
<1>1. spans = <<>> /\ Len(spans) = 0 /\ DOMAIN spans = {} /\ spans \in Seq(Span)
  BY DEF Init
<1>2. /\ req \in [Requests -> RequestOf]
      /\ \A r \in Requests :
           /\ req[r].at = "idle" /\ req[r].asker = None /\ ~req[r].over
           /\ req[r].root = 0 /\ req[r].baggage = 0 /\ req[r].span = 0
  BY DEF Init, RequestOf
<1>3. /\ meters \in [Events -> MeterOf]
      /\ \A e \in Events : meters[e].from = None /\ meters[e].span = 0
  BY DEF Init, MeterOf
<1>4. calls = {} /\ broken = {} /\ rootSpans = [t \in Traces |-> 0]
  BY DEF Init
<1>5. Types
  BY <1>1, <1>2, <1>3, <1>4 DEF Types, SpanTypes, RootTypes, ReqTypes, MeterTypes
<1>6. ReqLinks /\ Named
  BY <1>1, <1>2, <1>3, <1>4 DEF ReqLinks, Made, Named
<1>7. Owned /\ Handlers /\ Clients /\ Calls /\ EventSpans /\ MeterSpans /\ Roots /\ Traced
  BY <1>1 DEF Owned, Handlers, Clients, Calls, EventSpans, MeterSpans, Roots, Traced
<1> QED BY <1>5, <1>6, <1>7 DEF Inv

LEMMA InvStep == Inv /\ [Next]_vars => Inv'
BY TypesStep, ReqLinksStep, NamedStep, OwnedStep, HandlersStep, ClientsStep, CallsStep,
   EventSpansStep, MeterSpansStep, RootsStep, TracedStep
   DEF Inv

LEMMA Invariance == Spec => []Inv
BY InvInit, InvStep, PTL DEF Spec

(* Whatever requests, handlers, calls, events and Meters do meanwhile, each*)
(* span ends when what it stands for ends, and only once, but for those    *)
(* that Meter.measure and the catch of handled leave open by throwing.     *)
THEOREM EndedOnce == Spec => []SpansEnd
<1>1. Inv => SpansEnd
  <2> SUFFICES ASSUME Inv, NEW i \in DOMAIN spans PROVE
        LET s == spans[i]
            open == CASE s.kind = "root"    -> ~req[s.owner].over
                      [] s.kind = "client"  -> i \in calls
                      [] s.kind = "handler" -> req[s.owner].at = "handling" \/ i \in broken
                      [] s.kind = "call"    -> i \in calls \cup broken
                      [] s.kind = "meter"   -> ~meters[s.owner].over
                      [] s.kind = "event"   -> FALSE
        IN  (s.kind = "root" => ~TraceShared(s.owner)) => s.ends = IF open THEN 0 ELSE 1
    BY DEF SpansEnd
  <2>1. spans[i].kind \in SpanKinds
    BY SpanIs DEF Inv, Types
  <2>2. CASE spans[i].kind = "root"
    <3>1. PICK r \in Requests : spans[i].owner = r
      BY <2>2 DEF Inv, Owned
    <3>2. req[r].root = i /\ req \in [Requests -> RequestOf] /\ req[r].over \in BOOLEAN
      BY <2>2, <3>1, RequestIs DEF Inv, Roots, Types, ReqTypes
    <3>3. ~TraceShared(r) => spans[i].ends = IF req[r].over THEN 1 ELSE 0
      BY <2>2, <3>1, <3>2 DEF Inv, Roots, TraceShared
    <3> QED BY <2>2, <3>1, <3>2, <3>3
  <2>3. CASE spans[i].kind = "handler"
    BY <2>3 DEF Inv, Owned, Handlers
  <2>4. CASE spans[i].kind = "call"
    BY <2>4 DEF Inv, Calls
  <2>5. CASE spans[i].kind = "event"
    BY <2>5 DEF Inv, Owned, EventSpans
  <2>6. CASE spans[i].kind = "meter"
    BY <2>6 DEF Inv, Owned, MeterSpans
  <2>7. CASE spans[i].kind = "client"
    BY <2>7 DEF Inv, Owned, Clients
  <2> QED BY <2>1, <2>2, <2>3, <2>4, <2>5, <2>6, <2>7 DEF SpanKinds
<1> QED BY <1>1, Invariance, PTL

(* What is done for a request is one tree, from the root or the handler    *)
(* that asked, over the client, to its calls and events, and Meters go on  *)
(* with it.                                                                *)
THEOREM TreeOfRequest == Spec => []OneTree
<1>1. Inv => OneTree
  <2> SUFFICES ASSUME Inv, NEW i \in DOMAIN spans PROVE
        LET s == spans[i]
            r == req[s.owner]
        IN  /\ s.parent # 0 => s.trace = spans[s.parent].trace
            /\ CASE s.kind = "root"    -> s.trace = IF r.header # None /\ r.header.flags = 1
                                                   THEN r.header.trace ELSE i
                 [] s.kind = "client"  -> s.parent = IF r.asker = None THEN r.root
                                                    ELSE req[r.asker].span
                 [] s.kind = "handler" ->
                      \/ s.parent = 0 /\ r.asker = None /\ r.root = 0
                      \/ spans[s.parent].kind = "client" /\ spans[s.parent].owner = s.owner
                 [] s.kind = "event"   -> s.parent = r.span
                 [] s.kind = "call"    -> s.owner \in Requests => s.parent = r.span
                 [] s.kind = "meter"   ->
                      meters[s.owner].from # 0 => s.trace = spans[meters[s.owner].from].trace
    BY DEF OneTree
  <2>1. spans[i].kind \in SpanKinds
    BY SpanIs DEF Inv, Types
  <2>2. spans[i].parent # 0 => spans[i].trace = spans[spans[i].parent].trace
    BY DEF Inv, Traced, Under
  <2>3. CASE spans[i].kind = "root"
    <3>1. PICK r \in Requests : spans[i].owner = r
      BY <2>3 DEF Inv, Owned
    <3>2. req[r].header \in Headers \cup {None}
      BY RequestIs DEF Inv, Types, ReqTypes
    <3>3. ContainsTrace(req[r].header) <=> req[r].header # None /\ req[r].header.flags = 1
      BY <3>2, HeadersAssumption DEF ContainsTrace
    <3> QED BY <2>3, <2>2, <3>1, <3>3 DEF Inv, Roots
  <2>4. CASE spans[i].kind = "handler"
    <3>1. PICK r \in Requests : spans[i].owner = r
      BY <2>4 DEF Inv, Owned
    <3>2. spans[i].parent = req[r].baggage /\ Made(r)
      BY <2>4, <3>1 DEF Inv, Handlers, Made
    <3>3. \/ spans[i].parent = 0 /\ req[r].asker = None /\ req[r].root = 0
          \/ spans[spans[i].parent].kind = "client" /\ spans[spans[i].parent].owner = r
      BY <3>2 DEF Inv, ReqLinks
    <3> QED BY <2>4, <2>2, <3>1, <3>3
  <2>5. CASE spans[i].kind = "call"
    BY <2>5, <2>2 DEF Inv, Calls
  <2>6. CASE spans[i].kind = "event"
    BY <2>6, <2>2 DEF Inv, Owned, EventSpans
  <2>7. CASE spans[i].kind = "meter"
    BY <2>7, <2>2 DEF Inv, Owned, MeterSpans
  <2>8. CASE spans[i].kind = "client"
    BY <2>8, <2>2 DEF Inv, Owned, Clients
  <2> QED BY <2>1, <2>3, <2>4, <2>5, <2>6, <2>7, <2>8 DEF SpanKinds
<1> QED BY <1>1, Invariance, PTL

--------------------------------------------------------------------------------
(***************************************************************************)
(* Chains of classes                                                       *)
(***************************************************************************)

(* A chain is closed, and the least such set.                              *)
LEMMA ChainIs ==
  ASSUME NEW m \in Methods
  PROVE  /\ Chain(m) \subseteq Methods /\ m \in Chain(m)
         /\ \A x \in Chain(m) : Super[x] # None => Super[x] \in Chain(m)
         /\ \A S \in SUBSET Methods :
              m \in S /\ (\A x \in S : Super[x] # None => Super[x] \in S) => Chain(m) \subseteq S
BY ClassesAssumption DEF Chain, Chains

(* The class that one extends is another one, in its chain.                *)
LEMMA SuperIs ==
  ASSUME NEW m \in Methods, Super[m] # None
  PROVE  Super[m] \in Methods /\ Chain(Super[m]) \subseteq Chain(m)
<1>1. Super[m] \in Methods
  BY ClassesAssumption
<1>2. Chain(m) \subseteq Methods
  BY ChainIs
<1> QED BY <1>1, <1>2, ChainIs

LEMMA ChainOf ==
  ASSUME NEW m \in Methods, NEW c \in Chain(m)
  PROVE  c \in Methods /\ Chain(c) \subseteq Chain(m)
<1>1. c \in Methods /\ Chain(m) \subseteq Methods
  BY ChainIs
<1> QED BY <1>1, ChainIs

(* A class, and the chain of that which it extends.                        *)
LEMMA ChainStep ==
  ASSUME NEW m \in Methods
  PROVE  /\ Super[m] = None => Chain(m) = {m}
         /\ Super[m] # None => Chain(m) = {m} \cup Chain(Super[m])
<1>1. CASE Super[m] = None
  <2>1. {m} \in SUBSET Methods
    OBVIOUS
  <2>2. Chain(m) \subseteq {m}
    BY <1>1, <2>1, ChainIs
  <2> QED BY <1>1, <2>2, ChainIs
<1>2. CASE Super[m] # None
  <2>1. Super[m] \in Methods /\ Chain(Super[m]) \subseteq Chain(m)
    BY <1>2, SuperIs
  <2> DEFINE S == {m} \cup Chain(Super[m])
  <2>2. /\ Super[m] \in Chain(Super[m]) /\ Chain(Super[m]) \subseteq Methods
        /\ \A x \in Chain(Super[m]) : Super[x] # None => Super[x] \in Chain(Super[m])
    BY <2>1, ChainIs
  <2>3. S \in SUBSET Methods /\ m \in S /\ \A x \in S : Super[x] # None => Super[x] \in S
    BY <2>2
  <2>4. Chain(m) \subseteq S
    BY <2>3, ChainIs
  <2>5. S \subseteq Chain(m)
    BY <2>1, ChainIs
  <2> QED BY <1>2, <2>4, <2>5
<1> QED BY <1>1, <1>2

(* Of two classes of a chain, one extends the other,                       *)
LEMMA ChainTotal ==
  ASSUME NEW m \in Methods, NEW c \in Chain(m), NEW d \in Chain(m)
  PROVE  c \in Chain(d) \/ d \in Chain(c)
<1> DEFINE S == {x \in Methods : x \in Chain(d) \/ d \in Chain(x)}
<1>1. c \in Methods /\ d \in Methods /\ Chain(d) \subseteq Methods
  BY ChainIs
<1>2. m \in S
  OBVIOUS
<1>3. ASSUME NEW x \in S, Super[x] # None
      PROVE  Super[x] \in S
  <2>1. Super[x] \in Methods
    BY <1>3, SuperIs
  <2>2. CASE x \in Chain(d)
    BY <1>1, <1>3, <2>1, <2>2, ChainIs
  <2>3. CASE d \in Chain(x)
    <3>1. d = x \/ d \in Chain(Super[x])
      BY <1>3, <2>3, ChainStep
    <3>2. d \in Chain(d)
      BY <1>1, ChainIs
    <3> QED BY <1>1, <1>3, <2>1, <2>2, <3>1, <3>2
  <2> QED BY <2>2, <2>3
<1>4. S \in SUBSET Methods
  OBVIOUS
<1> HIDE DEF S
<1>5. Chain(m) \subseteq S
  BY <1>2, <1>3, <1>4, ChainIs
<1>6. c \in S
  BY <1>5
<1> QED BY <1>6 DEF S

(* but not each the other.                                                 *)
LEMMA ChainOrder ==
  ASSUME NEW c \in Methods, NEW d \in Methods, c \in Chain(d), d \in Chain(c)
  PROVE  c = d
<1> SUFFICES ASSUME c # d PROVE FALSE
  OBVIOUS
<1> DEFINE S == {x \in Chain(c) : c \in Chain(x)}
<1>1. S \in SUBSET Methods /\ d \in S
  BY ChainIs
<1>2. ASSUME NEW x \in S
      PROVE  Super[x] # None /\ Super[x] \in S
  <2>1. x \in Methods /\ x \in Chain(c) /\ c \in Chain(x)
    BY <1>1
  <2>2. Super[x] # None
    <3>1. CASE x = c
      BY <2>1, <3>1, ChainStep
    <3>2. CASE x # c
      BY <2>1, <3>2, ChainStep
    <3> QED BY <3>1, <3>2
  <2>3. Super[x] \in Chain(c)
    BY <2>1, <2>2, ChainIs
  <2>4. c \in Chain(Super[x])
    <3>1. CASE x = c
      <4>1. d \in Chain(Super[c])
        BY <2>2, <3>1, ChainStep
      <4>2. Super[c] \in Methods
        BY <2>2, <3>1, SuperIs
      <4> QED BY <3>1, <4>1, <4>2, ChainOf
    <3>2. CASE x # c
      BY <2>1, <2>2, <3>2, ChainStep
    <3> QED BY <3>1, <3>2
  <2> QED BY <2>2, <2>3, <2>4
<1> HIDE DEF S
<1>3. \E x \in S : Super[x] = None \/ Super[x] \notin S
  BY <1>1, ClassesAssumption
<1> QED BY <1>2, <1>3

(* Any classes of a chain have one that extends all others.                *)
LEMMA NearestIs ==
  ASSUME NEW m \in Methods, NEW C \in SUBSET Chain(m), C # {}
  PROVE  Nearest(C) \in C /\ C \subseteq Chain(Nearest(C))
<1> DEFINE S == {x \in Methods : C \subseteq Chain(x)}
<1>1. S \in SUBSET Methods /\ S # {} /\ Chain(m) \subseteq Methods
  BY ChainIs
<1>2. PICK x \in S : Super[x] = None \/ Super[x] \notin S
  <2> HIDE DEF S
  <2> QED BY <1>1, ClassesAssumption
<1>3. x \in Methods /\ C \subseteq Chain(x)
  OBVIOUS
<1>4. x \in C
  <2>1. CASE Super[x] = None
    BY <1>3, <2>1, ChainStep
  <2>2. CASE Super[x] # None
    <3>1. ~(C \subseteq Chain(Super[x]))
      BY <1>2, <2>2, SuperIs
    <3> QED BY <1>3, <2>2, <3>1, ChainStep
  <2> QED BY <2>1, <2>2
<1>5. \E c \in C : C \subseteq Chain(c)
  BY <1>3, <1>4
<1> QED BY <1>5 DEF Nearest

LEMMA NearestOnly ==
  ASSUME NEW m \in Methods, NEW C \in SUBSET Chain(m), NEW c \in C, C \subseteq Chain(c)
  PROVE  Nearest(C) = c
<1>1. Nearest(C) \in C /\ C \subseteq Chain(Nearest(C))
  BY NearestIs
<1>2. Nearest(C) \in Methods /\ c \in Methods
  BY <1>1, ChainIs
<1> QED BY <1>1, <1>2, ChainOrder

--------------------------------------------------------------------------------
(***************************************************************************)
(* Maps, and who has them                                                  *)
(***************************************************************************)

LEMMA MapIs ==
  /\ NoMap \in Maps /\ DOMAIN NoMap = {}
  /\ \A f \in Maps : /\ f # None /\ DOMAIN f \subseteq Names
                     /\ \A n \in DOMAIN f : f[n] \in Items
                     /\ f = [n \in DOMAIN f |-> f[n]]
  /\ \A N \in SUBSET Names : [N -> Items] \subseteq Maps
<1>1. NoMap = [n \in {} |-> CHOOSE i \in Items : TRUE]
  BY DEF NoMap
<1> QED BY <1>1, MapsAssumption DEF Maps

(* One Map is put on another.                                              *)
LEMMA OnTopIs ==
  ASSUME NEW f \in Maps, NEW g \in Maps
  PROVE  /\ OnTop(f, g) \in Maps
         /\ DOMAIN OnTop(f, g) = DOMAIN f \cup DOMAIN g
         /\ \A n \in DOMAIN f : OnTop(f, g)[n] = f[n]
         /\ \A n \in DOMAIN g \ DOMAIN f : OnTop(f, g)[n] = g[n]
         /\ OnTop(NoMap, g) = g
<1>1. /\ DOMAIN OnTop(f, g) = DOMAIN f \cup DOMAIN g
      /\ \A n \in DOMAIN f : OnTop(f, g)[n] = f[n]
      /\ \A n \in DOMAIN g \ DOMAIN f : OnTop(f, g)[n] = g[n]
      /\ OnTop(f, g) = [n \in DOMAIN f \cup DOMAIN g |-> OnTop(f, g)[n]]
  BY DEF OnTop
<1>2. OnTop(f, g) \in [DOMAIN f \cup DOMAIN g -> Items] /\ DOMAIN f \cup DOMAIN g \in SUBSET Names
  BY <1>1, MapIs
<1>3. OnTop(NoMap, g) = [n \in DOMAIN g |-> g[n]]
  BY MapIs DEF OnTop
<1> QED BY <1>1, <1>2, <1>3, MapIs

LEMMA SameMap ==
  ASSUME NEW f \in Maps, NEW g \in Maps, DOMAIN f = DOMAIN g, \A n \in DOMAIN f : f[n] = g[n]
  PROVE  f = g
BY MapIs

LEMMA HolderIs ==
  ASSUME NEW maps, NEW m \in Methods
  PROVE  /\ (\A c \in Chain(m) : maps[c] = None) => Holder(maps, m) = None
         /\ (\E c \in Chain(m) : maps[c] # None) =>
              Holder(maps, m) \in Chain(m) /\ maps[Holder(maps, m)] # None
         /\ Holder(maps, m) # None => Holder(maps, m) \in Chain(m) /\ maps[Holder(maps, m)] # None
<1> DEFINE C == {c \in Chain(m) : maps[c] # None}
<1>1. Holder(maps, m) = IF C = {} THEN None ELSE Nearest(C)
  BY DEF Holder
<1>2. C # {} => Nearest(C) \in C
  BY NearestIs
<1> QED BY <1>1, <1>2

(* No two classes of a chain have a Map of their own.                      *)
OneMap(maps) ==
  \A c \in Methods : \A d \in Chain(c) : maps[c] # None /\ maps[d] # None => c = d

LEMMA HolderOnly ==
  ASSUME NEW maps, OneMap(maps), NEW m \in Methods, NEW c \in Chain(m), maps[c] # None
  PROVE  Holder(maps, m) = c
<1> DEFINE C == {d \in Chain(m) : maps[d] # None}
<1>1. Holder(maps, m) = IF C = {} THEN None ELSE Nearest(C)
  BY DEF Holder
<1>2. ASSUME NEW d \in C PROVE d = c
  <2>1. c \in Methods /\ d \in Methods
    BY ChainIs
  <2> QED BY <2>1, ChainTotal DEF OneMap
<1>3. c \in C /\ C \subseteq Chain(c) /\ C \in SUBSET Chain(m)
  <2>1. c \in Chain(c)
    BY ChainIs
  <2> QED BY <1>2, <2>1
<1>4. Nearest(C) = c
  <2> HIDE DEF C
  <2> QED BY <1>3, NearestOnly
<1> QED BY <1>1, <1>3, <1>4

LEMMA HolderSame ==
  ASSUME NEW maps, NEW then, NEW m \in Methods,
         \A c \in Chain(m) : maps[c] # None <=> then[c] # None
  PROVE  Holder(then, m) = Holder(maps, m)
<1>1. {c \in Chain(m) : maps[c] # None} = {c \in Chain(m) : then[c] # None}
  OBVIOUS
<1> QED BY <1>1 DEF Holder

(* What a class declares goes on what those above it do.                   *)
LEMMA DeclaredIs ==
  ASSUME NEW k \in Kinds, NEW m \in Methods
  PROVE  /\ Declared(k, m) \in Maps
         /\ Super[m] = None => Declared(k, m) = Decorated[k][m]
         /\ Super[m] # None => Declared(k, m) = OnTop(Decorated[k][m], Declared(k, Super[m]))
<1> DEFINE Those(c, n) == {d \in Chain(c) : n \in DOMAIN Decorated[k][d]}
           All(c) == UNION {DOMAIN Decorated[k][d] : d \in Chain(c)}
<1>1. \A c \in Methods : /\ Decorated[k][c] \in Maps /\ Chain(c) \subseteq Methods
                         /\ DOMAIN Decorated[k][c] \subseteq Names
                         /\ \A n \in DOMAIN Decorated[k][c] : Decorated[k][c][n] \in Items
  BY MapsAssumption, MapIs, ChainIs
<1>2. \A c \in Methods : Declared(k, c) = [n \in All(c) |-> Decorated[k][Nearest(Those(c, n))][n]]
  BY DEF Declared
<1>3. ASSUME NEW c \in Methods
      PROVE  Declared(k, c) \in Maps
  <2>1. All(c) \in SUBSET Names
    BY <1>1
  <2>2. ASSUME NEW n \in All(c) PROVE Decorated[k][Nearest(Those(c, n))][n] \in Items
    <3>1. Those(c, n) \in SUBSET Chain(c) /\ Those(c, n) # {}
      OBVIOUS
    <3>2. Nearest(Those(c, n)) \in Those(c, n)
      BY <3>1, NearestIs
    <3> QED BY <1>1, <3>2
  <2> HIDE DEF All, Those
  <2>3. Declared(k, c) \in [All(c) -> Items]
    BY <1>2, <2>2
  <2> QED BY <2>1, <2>3, MapIs
<1>4. ASSUME NEW n \in DOMAIN Decorated[k][m]
      PROVE  Nearest(Those(m, n)) = m
  <2>1. m \in Those(m, n) /\ Those(m, n) \subseteq Chain(m)
    BY ChainIs
  <2> HIDE DEF Those
  <2> QED BY <2>1, NearestOnly
<1>5. CASE Super[m] = None
  <2>1. Chain(m) = {m}
    BY <1>5, ChainStep
  <2>2. All(m) = DOMAIN Decorated[k][m]
    BY <2>1
  <2>3. /\ DOMAIN Declared(k, m) = DOMAIN Decorated[k][m]
        /\ \A n \in DOMAIN Decorated[k][m] : Declared(k, m)[n] = Decorated[k][m][n]
    <3> HIDE DEF Those, All
    <3> QED BY <1>2, <1>4, <2>2
  <2> QED BY <1>1, <1>3, <1>5, <2>3, SameMap
<1>6. CASE Super[m] # None
  <2> DEFINE u == Super[m]
             top == Decorated[k][m]
  <2>1. u \in Methods /\ Chain(m) = {m} \cup Chain(u)
    BY <1>6, ChainStep, SuperIs
  <2>2. All(m) = DOMAIN top \cup All(u)
    BY <2>1
  <2>3. \A n \in All(u) \ DOMAIN top : Those(m, n) = Those(u, n)
    BY <2>1
  <2>4. Declared(k, u) \in Maps /\ Declared(k, m) \in Maps /\ top \in Maps
    BY <1>1, <1>3, <2>1
  <2>5. DOMAIN Declared(k, m) = All(m) /\ DOMAIN Declared(k, u) = All(u)
    BY <1>2, <2>1
  <2>6. \A n \in DOMAIN top : Declared(k, m)[n] = top[n]
    <3> HIDE DEF Those, All
    <3> QED BY <1>2, <1>4, <2>2
  <2>7. \A n \in All(u) \ DOMAIN top : Declared(k, m)[n] = Declared(k, u)[n]
    <3> HIDE DEF Those, All, top, u
    <3> QED BY <1>2, <2>1, <2>2, <2>3
  <2> HIDE DEF Those, All, top, u
  <2>8. /\ OnTop(top, Declared(k, u)) \in Maps
        /\ DOMAIN OnTop(top, Declared(k, u)) = DOMAIN top \cup All(u)
        /\ \A n \in DOMAIN top : OnTop(top, Declared(k, u))[n] = top[n]
        /\ \A n \in All(u) \ DOMAIN top : OnTop(top, Declared(k, u))[n] = Declared(k, u)[n]
    <3> DEFINE g == Declared(k, u)
               a == All(u)
    <3>1. top \in Maps /\ g \in Maps /\ DOMAIN g = a
      BY <2>4, <2>5
    <3> HIDE DEF g, a
    <3>2. /\ OnTop(top, g) \in Maps
          /\ DOMAIN OnTop(top, g) = DOMAIN top \cup DOMAIN g
          /\ \A n \in DOMAIN top : OnTop(top, g)[n] = top[n]
          /\ \A n \in DOMAIN g \ DOMAIN top : OnTop(top, g)[n] = g[n]
      BY <3>1, OnTopIs
    <3> QED BY <3>1, <3>2 DEF g, a
  <2>9. Declared(k, m) = OnTop(top, Declared(k, u))
    BY <2>2, <2>4, <2>5, <2>6, <2>7, <2>8, SameMap
  <2> QED BY <1>3, <1>6, <2>9 DEF top, u
<1> QED BY <1>5, <1>6

LEMMA InjectsIs ==
  ASSUME NEW map \in Maps, NEW type
  PROVE  /\ Injects(map, type) \in Maps
         /\ map = NoMap => Injects(map, type) = NoMap
         /\ \A names \in SUBSET DOMAIN map :
              LET some == [n \in names |-> map[n]]
              IN  /\ some \in Maps
                  /\ DOMAIN Injects(some, type) \subseteq DOMAIN Injects(map, type)
                  /\ \A n \in DOMAIN Injects(some, type) :
                       Injects(some, type)[n] = Injects(map, type)[n]
<1>1. /\ DOMAIN map \subseteq Names /\ \A n \in DOMAIN map : map[n] \in Items
  BY MapIs
<1>2. ASSUME NEW N \in SUBSET DOMAIN map
      PROVE  [n \in N |-> map[n]] \in Maps
  <2>1. [n \in N |-> map[n]] \in [N -> Items] /\ N \in SUBSET Names
    BY <1>1
  <2> QED BY <2>1, MapIs
<1> DEFINE those == {n \in DOMAIN map \ CtorNames : TypeOf[map[n]] = type}
<1>3. Injects(map, type) = [n \in those |-> map[n]] /\ those \in SUBSET DOMAIN map
  BY DEF Injects
<1>4. Injects(map, type) \in Maps
  BY <1>2, <1>3
<1>5. ASSUME map = NoMap PROVE Injects(map, type) = NoMap
  <2>1. DOMAIN Injects(map, type) = {}
    BY <1>3, <1>5, MapIs
  <2> QED BY <1>4, <2>1, MapIs, SameMap
<1>6. ASSUME NEW names \in SUBSET DOMAIN map
      PROVE  LET some == [n \in names |-> map[n]]
             IN  /\ some \in Maps
                 /\ DOMAIN Injects(some, type) \subseteq those
                 /\ \A n \in DOMAIN Injects(some, type) : Injects(some, type)[n] = map[n]
  BY <1>2 DEF Injects
<1> HIDE DEF those
<1> QED BY <1>3, <1>4, <1>5, <1>6

(* To set again what is on top changes nothing.                            *)
LEMMA OnTopTwice ==
  ASSUME NEW f \in Maps, NEW g \in Maps, NEW x \in Maps,
         DOMAIN g \subseteq DOMAIN f, \A n \in DOMAIN g : g[n] = f[n]
  PROVE  OnTop(f, OnTop(g, x)) = OnTop(f, x)
<1> DEFINE y == OnTop(g, x)
           a == OnTop(f, y)
           b == OnTop(f, x)
<1>1. /\ y \in Maps /\ DOMAIN y = DOMAIN g \cup DOMAIN x
      /\ \A n \in DOMAIN x \ DOMAIN g : y[n] = x[n]
  BY OnTopIs
<1>2. /\ b \in Maps /\ DOMAIN b = DOMAIN f \cup DOMAIN x
      /\ \A n \in DOMAIN f : b[n] = f[n]
      /\ \A n \in DOMAIN x \ DOMAIN f : b[n] = x[n]
  BY OnTopIs
<1> HIDE DEF y, b
<1>3. /\ a \in Maps /\ DOMAIN a = DOMAIN f \cup DOMAIN y
      /\ \A n \in DOMAIN f : a[n] = f[n]
      /\ \A n \in DOMAIN y \ DOMAIN f : a[n] = y[n]
  BY <1>1, OnTopIs
<1> HIDE DEF a
<1>4. DOMAIN a = DOMAIN b /\ \A n \in DOMAIN a : a[n] = b[n]
  BY <1>1, <1>2, <1>3
<1>5. a = b
  BY <1>2, <1>3, <1>4, SameMap
<1> QED BY <1>5 DEF a, b, y

LEMMA OnNothing ==
  ASSUME NEW f \in Maps
  PROVE  OnTop(f, NoMap) = f
<1> DEFINE a == OnTop(f, NoMap)
<1>1. a \in Maps /\ DOMAIN a = DOMAIN f /\ \A n \in DOMAIN f : a[n] = f[n]
  <2>1. NoMap \in Maps /\ DOMAIN NoMap = {}
    BY MapIs
  <2>2. /\ a \in Maps /\ DOMAIN a = DOMAIN f \cup DOMAIN NoMap
        /\ \A n \in DOMAIN f : a[n] = f[n]
    BY <2>1, OnTopIs
  <2> HIDE DEF a
  <2> QED BY <2>1, <2>2
<1> HIDE DEF a
<1>2. a = f
  BY <1>1, SameMap
<1> QED BY <1>2 DEF a

MapsOf == [Methods -> Maps \cup {None}]

LEMMA MapOfIs ==
  ASSUME NEW maps \in MapsOf, NEW m \in Methods
  PROVE  MapOf(maps, Holder(maps, m)) \in Maps
<1>1. CASE Holder(maps, m) = None
  BY <1>1, MapIs DEF MapOf
<1>2. CASE Holder(maps, m) # None
  BY <1>2, HolderIs, ChainIs DEF MapOf, MapsOf
<1> QED BY <1>1, <1>2

(* A set of classes with all that they extend.                             *)
Closed(L) == L \subseteq Methods /\ \A m \in L : Super[m] # None => Super[m] \in L

LEMMA ClosedChain ==
  ASSUME NEW L, Closed(L), NEW m \in L
  PROVE  Chain(m) \subseteq L
<1>1. L \in SUBSET Methods /\ m \in Methods /\ \A x \in L : Super[x] # None => Super[x] \in L
  BY DEF Closed
<1> QED BY <1>1, ChainIs

(* What the decorators of a class that is loaded last do to the Maps.      *)
LEMMA SetIs ==
  ASSUME NEW L, Closed(L), NEW m \in Methods, m \notin L, Super[m] = None \/ Super[m] \in L,
         NEW maps \in MapsOf, OneMap(maps), \A c \in Methods : maps[c] # None => c \in L,
         NEW items \in Maps
  PROVE  LET then == SetMetaData(maps, m, items)
         IN  /\ then \in MapsOf /\ OneMap(then)
             /\ \A c \in Methods :
                  /\ maps[c] # None => then[c] # None
                  /\ c # m => (then[c] # None <=> maps[c] # None)
                  /\ then[c] # maps[c] => items # NoMap /\ c \in Chain(m)
                  /\ then[c] # None /\ maps[c] = None => c = m /\ items # NoMap
             /\ Super[m] = None => MapOf(then, Holder(then, m)) = items
             /\ Super[m] # None => MapOf(then, Holder(then, m)) =
                                     OnTop(items, MapOf(maps, Holder(maps, Super[m])))
<1> DEFINE then == SetMetaData(maps, m, items)
           h == Holder(maps, m)
           x == OnTop(items, MapOf(maps, h))
           c == IF h = None THEN m ELSE h
<1>1. maps[m] = None
  OBVIOUS
<1>2. h # None => h \in Chain(m) /\ h \in Methods /\ maps[h] # None
  BY HolderIs, ChainIs
<1>3. MapOf(maps, h) \in Maps /\ x \in Maps /\ x # None /\ items # None
  <2>1. MapOf(maps, h) \in Maps
    BY MapOfIs
  <2> HIDE DEF h
  <2> QED BY <2>1, OnTopIs, MapIs
<1>4. c \in Chain(m) /\ c \in Methods /\ c # None
  BY <1>2, ChainIs, ClassesAssumption
<1>5. then = IF items = NoMap THEN maps ELSE [maps EXCEPT ![c] = x]
  BY DEF SetMetaData
<1>6. Super[m] = None => MapOf(maps, h) = NoMap
  <2>1. Super[m] = None => \A d \in Chain(m) : maps[d] = None
    BY <1>1, ChainStep
  <2> QED BY <2>1, HolderIs DEF MapOf
<1>7. Super[m] # None => h = Holder(maps, Super[m])
  <2>1. Super[m] # None =>
          {d \in Chain(m) : maps[d] # None} = {d \in Chain(Super[m]) : maps[d] # None}
    BY <1>1, ChainStep
  <2> QED BY <2>1 DEF Holder
<1> HIDE DEF then, h, x
<1>8. then \in MapsOf
  BY <1>3, <1>4, <1>5 DEF MapsOf
<1>9. ASSUME items # NoMap
      PROVE  /\ then[c] = x
             /\ \A d \in Methods \ {c} : then[d] = maps[d]
  BY <1>4, <1>5, <1>9 DEF MapsOf
<1>10. \A d \in Methods :
         /\ maps[d] # None => then[d] # None
         /\ d # m => (then[d] # None <=> maps[d] # None)
         /\ then[d] # maps[d] => items # NoMap /\ d \in Chain(m)
         /\ then[d] # None /\ maps[d] = None => d = m /\ items # NoMap
  <2>1. CASE items = NoMap
    BY <1>5, <2>1
  <2>2. CASE items # NoMap
    BY <1>2, <1>3, <1>4, <1>9, <2>2
  <2> QED BY <2>1, <2>2
<1>11. OneMap(then)
  <2> SUFFICES ASSUME NEW a \in Methods, NEW b \in Chain(a), then[a] # None, then[b] # None
               PROVE  a = b
    BY DEF OneMap
  <2>1. b \in Methods
    BY ChainIs
  <2>2. CASE a # m /\ b # m
    BY <1>10, <2>1, <2>2 DEF OneMap
  <2>3. CASE a # m /\ b = m
    <3>1. a \in L
      BY <1>10, <2>3
    <3> QED BY <2>3, <3>1, ClosedChain
  <2>4. CASE a = m /\ b # m
    <3>1. maps[b] # None
      BY <1>10, <2>1, <2>4
    <3>2. h # None
      BY <2>4, <3>1, HolderIs, ClassesAssumption, ChainIs DEF h
    <3>3. then[m] = None
      BY <1>1, <1>2, <1>5, <1>9, <3>2
    <3> QED BY <2>4, <3>3
  <2> QED BY <2>2, <2>3, <2>4
<1>12. MapOf(then, Holder(then, m)) = x
  <2>1. CASE items # NoMap
    <3>1. then[c] = x /\ then[c] # None
      BY <1>3, <1>9, <2>1
    <3>2. Holder(then, m) = c
      BY <1>4, <1>11, <3>1, HolderOnly
    <3> QED BY <1>4, <3>1, <3>2 DEF MapOf
  <2>2. CASE items = NoMap
    <3>1. then = maps
      BY <1>5, <2>2
    <3>2. x = MapOf(maps, h)
      BY <1>3, <2>2, OnTopIs DEF x
    <3> QED BY <3>1, <3>2 DEF h
  <2> QED BY <2>1, <2>2
<1>13. Super[m] = None => x = items
  BY <1>6, OnNothing DEF x
<1>14. Super[m] # None => x = OnTop(items, MapOf(maps, Holder(maps, Super[m])))
  BY <1>7 DEF x
<1> QED BY <1>8, <1>10, <1>11, <1>12, <1>13, <1>14 DEF then

--------------------------------------------------------------------------------
(***************************************************************************)
(* What classes have, and what handlers are given                          *)
(***************************************************************************)

(* A class comes after that which it extends, and all before any request.  *)
Loading ==
  /\ Closed(loaded)
  /\ loaded = Methods \/ \A r \in Requests : req[r].at = "idle"

(* Those that have a Map have decorators, and share it with their heirs.   *)
MetaIs ==
  /\ meta \in [Kinds -> MapsOf]
  /\ \A k \in Kinds : OneMap(meta[k])
  /\ \A k \in Kinds, c \in Methods : meta[k][c] # None => c \in loaded /\ Decorated[k][c] # NoMap

(* The Map that is registered for an action is that of a class of a chain. *)
RegisteredIs ==
  /\ registered \in [Containers -> [Actions -> loaded \cup {None}]]
  /\ \A k \in Containers, a \in Actions :
       LET c == registered[k][a]
       IN  c # None => /\ meta[k][c] # None
                       /\ \E m \in loaded \cap Related : Action[m] = a /\ c \in Chain(m)
  /\ \A k \in Containers, m \in loaded \cap Related :
       Alone(m) => registered[k][Action[m]] = Holder(meta[k], m)

(* What the class that is loaded last of the chain of m has so far.        *)
Last(m, d) == d \in Chain(m) \cap loaded /\ Chain(m) \cap loaded \subseteq Chain(d)

Has(k, m) == MapOf(meta[k], Holder(meta[k], m))

(* What requests put into the Maps of m: what it is injected, of one type. *)
Own(k, m) == Injects(Declared("inject", m), IF k = "service" THEN "service" ELSE "adapter")

HasOwn ==
  \A m \in Methods : Alone(m) =>
    /\ \A k \in Kinds : k = "inject" \/ loaded # Methods =>
         \A d \in Methods : Last(m, d) => Has(k, d) = Declared(k, d)
    /\ loaded = Methods =>
         \A k \in Containers : OnTop(Own(k, m), Has(k, m)) = OnTop(Own(k, m), Declared(k, m))

Classes == Loading /\ MetaIs /\ RegisteredIs /\ HasOwn

LEMMA AloneIs ==
  ASSUME NEW m \in Methods, Alone(m), NEW d \in Methods, d # m
  PROVE  /\ Action[d] # Action[m]
         /\ d \notin Chain(m) =>
              \A b \in Chain(m) :
                /\ b \in Related => Action[d] # Action[b]
                /\ b \in Chain(d) => \A k \in Kinds : Decorated[k][b] = NoMap
BY DEF Alone

LEMMA ClassesInit == Init => Classes
<1> SUFFICES ASSUME Init PROVE Classes
  OBVIOUS
<1>1. Loading
  BY DEF Init, Loading, Closed
<1>2. \A k \in Kinds, c \in Methods : meta[k][c] = None
  BY DEF Init
<1>3. MetaIs
  BY <1>2, ChainIs DEF Init, MetaIs, MapsOf, OneMap
<1>4. RegisteredIs
  BY DEF Init, RegisteredIs
<1>5. HasOwn
  <2>1. loaded = {} /\ \A m \in Methods : m \notin loaded
    BY DEF Init
  <2> QED BY <2>1 DEF HasOwn, Last
<1> QED BY <1>1, <1>3, <1>4, <1>5 DEF Classes

(* What loading a class does to the Maps, kind by kind.                    *)
LEMMA Loaded ==
  ASSUME Classes, NEW m \in Methods, Load(m), NEW k \in Kinds
  PROVE  /\ meta'[k] \in MapsOf /\ OneMap(meta'[k])
         /\ \A c \in Methods :
              /\ meta[k][c] # None => meta'[k][c] # None
              /\ c # m => (meta'[k][c] # None <=> meta[k][c] # None)
              /\ meta'[k][c] # meta[k][c] => c \in Chain(m)
              /\ meta'[k][c] # None /\ meta[k][c] = None =>
                   c = m /\ Decorated[k][m] # NoMap
         /\ Super[m] = None => MapOf(meta'[k], Holder(meta'[k], m)) = Decorated[k][m]
         /\ Super[m] # None => MapOf(meta'[k], Holder(meta'[k], m)) =
                                 OnTop(Decorated[k][m], MapOf(meta[k], Holder(meta[k], Super[m])))
<1> DEFINE then == SetMetaData(meta[k], m, Decorated[k][m])
<1>1. meta'[k] = then
  BY DEF Load
<1>2. /\ Closed(loaded) /\ m \notin loaded /\ (Super[m] = None \/ Super[m] \in loaded)
      /\ meta[k] \in MapsOf /\ OneMap(meta[k])
      /\ \A c \in Methods : meta[k][c] # None => c \in loaded
  BY DEF Classes, Loading, MetaIs, Load
<1>3. Decorated[k][m] \in Maps
  BY MapsAssumption
<1>4. /\ then \in MapsOf /\ OneMap(then)
      /\ \A c \in Methods :
           /\ meta[k][c] # None => then[c] # None
           /\ c # m => (then[c] # None <=> meta[k][c] # None)
           /\ then[c] # meta[k][c] => c \in Chain(m)
           /\ then[c] # None /\ meta[k][c] = None => c = m /\ Decorated[k][m] # NoMap
      /\ Super[m] = None => MapOf(then, Holder(then, m)) = Decorated[k][m]
      /\ Super[m] # None => MapOf(then, Holder(then, m)) =
                              OnTop(Decorated[k][m], MapOf(meta[k], Holder(meta[k], Super[m])))
  <2> DEFINE maps == meta[k]
             items == Decorated[k][m]
  <2>1. /\ maps \in MapsOf /\ OneMap(maps) /\ items \in Maps
        /\ \A c \in Methods : maps[c] # None => c \in loaded
    BY <1>2, <1>3
  <2>2. then = SetMetaData(maps, m, items)
    OBVIOUS
  <2> HIDE DEF maps, items, then
  <2>3. /\ then \in MapsOf /\ OneMap(then)
        /\ \A c \in Methods :
             /\ maps[c] # None => then[c] # None
             /\ c # m => (then[c] # None <=> maps[c] # None)
             /\ then[c] # maps[c] => c \in Chain(m)
             /\ then[c] # None /\ maps[c] = None => c = m /\ items # NoMap
        /\ Super[m] = None => MapOf(then, Holder(then, m)) = items
        /\ Super[m] # None => MapOf(then, Holder(then, m)) =
                                OnTop(items, MapOf(maps, Holder(maps, Super[m])))
    BY <1>2, <2>1, <2>2, SetIs
  <2> QED BY <2>3 DEF maps, items
<1> HIDE DEF then
<1> QED BY <1>1, <1>4

LEMMA LoadStep ==
  ASSUME Classes, NEW m \in Methods, Load(m)
  PROVE  Classes'
<1>1. /\ Closed(loaded) /\ m \notin loaded /\ (Super[m] = None \/ Super[m] \in loaded)
      /\ loaded' = loaded \cup {m} /\ loaded # Methods /\ UNCHANGED req
  BY DEF Classes, Loading, Load
<1>2. \A r \in Requests : req[r].at = "idle"
  BY <1>1 DEF Classes, Loading
<1>3. Loading'
  <2>1. Closed(loaded')
    BY <1>1 DEF Closed
  <2> QED BY <1>1, <1>2, <2>1 DEF Loading
<1>4. MetaIs'
  <2>1. meta' \in [Kinds -> MapsOf]
    <3>1. meta' = [k \in Kinds |-> SetMetaData(meta[k], m, Decorated[k][m])]
      BY DEF Load
    <3>2. \A k \in Kinds : meta'[k] \in MapsOf
      BY Loaded
    <3> QED BY <3>1, <3>2
  <2>2. \A k \in Kinds : OneMap(meta'[k])
    BY Loaded
  <2>3. ASSUME NEW k \in Kinds, NEW c \in Methods, meta'[k][c] # None
        PROVE  c \in loaded' /\ Decorated[k][c] # NoMap
    <3>1. CASE meta[k][c] # None
      BY <1>1, <3>1 DEF Classes, MetaIs
    <3>2. CASE meta[k][c] = None
      BY <1>1, <2>3, <3>2, Loaded
    <3> QED BY <3>1, <3>2
  <2> QED BY <2>1, <2>2, <2>3 DEF MetaIs
<1>5. ASSUME NEW k \in Kinds, NEW d \in loaded
      PROVE  Holder(meta'[k], d) = Holder(meta[k], d)
  <2>1. Chain(d) \subseteq loaded /\ d \in Methods /\ loaded \subseteq Methods
    BY <1>1, ClosedChain DEF Closed
  <2>2. \A c \in Chain(d) : meta[k][c] # None <=> meta'[k][c] # None
    BY <1>1, <2>1, Loaded
  <2> DEFINE maps == meta[k]
             then == meta'[k]
  <2>3. \A c \in Chain(d) : maps[c] # None <=> then[c] # None
    BY <2>2
  <2> HIDE DEF maps, then
  <2>4. Holder(then, d) = Holder(maps, d)
    BY <2>1, <2>3, HolderSame
  <2> QED BY <2>4 DEF maps, then
<1>6. \A k \in Containers : k \in Kinds
  BY DEF Containers, Kinds
<1>7. \A k \in Containers : /\ Holder(meta'[k], m) \in loaded' \cup {None}
                            /\ Holder(meta'[k], m) # None =>
                                 /\ Holder(meta'[k], m) \in Chain(m)
                                 /\ meta'[k][Holder(meta'[k], m)] # None
  <2> SUFFICES ASSUME NEW k \in Containers
               PROVE  /\ Holder(meta'[k], m) \in loaded' \cup {None}
                      /\ Holder(meta'[k], m) # None =>
                           /\ Holder(meta'[k], m) \in Chain(m)
                           /\ meta'[k][Holder(meta'[k], m)] # None
    OBVIOUS
  <2> DEFINE then == meta'[k]
             h == Holder(then, m)
  <2>1. h # None => h \in Chain(m) /\ then[h] # None
    <3> HIDE DEF then
    <3> QED BY HolderIs
  <2>2. Chain(m) \subseteq Methods
    BY ChainIs
  <2>3. h # None => h \in loaded'
    BY <1>4, <1>6, <2>1, <2>2 DEF MetaIs
  <2> QED BY <2>1, <2>3
<1>8. /\ m \notin Related => registered' = registered
      /\ m \in Related =>
           registered' = [k \in Containers |->
                            [registered[k] EXCEPT ![Action[m]] = Holder(meta'[k], m)]]
      /\ Action[m] \in Actions
  BY DEF Load, Actions
<1>9. registered \in [Containers -> [Actions -> loaded \cup {None}]]
  BY DEF Classes, RegisteredIs
<1>10. registered' \in [Containers -> [Actions -> loaded' \cup {None}]]
  BY <1>1, <1>7, <1>8, <1>9
<1>11. ASSUME NEW k \in Containers, NEW a \in Actions
       PROVE  /\ m \in Related /\ a = Action[m] => registered'[k][a] = Holder(meta'[k], m)
              /\ ~(m \in Related /\ a = Action[m]) => registered'[k][a] = registered[k][a]
  BY <1>8, <1>9
<1>12. ASSUME NEW k \in Containers, NEW a \in Actions, registered'[k][a] # None
       PROVE  /\ meta'[k][registered'[k][a]] # None
              /\ \E e \in loaded' \cap Related : Action[e] = a /\ registered'[k][a] \in Chain(e)
  <2>1. CASE m \in Related /\ a = Action[m]
    BY <1>1, <1>7, <1>11, <1>12, <2>1
  <2>2. CASE ~(m \in Related /\ a = Action[m])
    <3>1. registered'[k][a] = registered[k][a] /\ registered[k][a] \in loaded
      BY <1>9, <1>11, <1>12, <2>2
    <3>2. registered[k][a] \in Methods
      BY <1>1, <3>1 DEF Closed
    <3>3. meta[k][registered[k][a]] # None
      BY <1>12, <3>1 DEF Classes, RegisteredIs
    <3>4. meta'[k][registered[k][a]] # None
      BY <1>6, <3>2, <3>3, Loaded
    <3>5. \E e \in loaded \cap Related : Action[e] = a /\ registered[k][a] \in Chain(e)
      BY <1>12, <3>1 DEF Classes, RegisteredIs
    <3> QED BY <1>1, <3>1, <3>4, <3>5
  <2> QED BY <2>1, <2>2
<1>13. ASSUME NEW k \in Containers, NEW e \in loaded' \cap Related, Alone(e)
       PROVE  registered'[k][Action[e]] = Holder(meta'[k], e)
  <2>1. e \in Methods /\ Action[e] \in Actions
    BY <1>1 DEF Closed, Actions
  <2>2. CASE e = m
    BY <1>11, <2>1, <2>2
  <2>3. CASE e # m
    <3>1. e \in loaded /\ Action[m] # Action[e]
      BY <1>1, <1>13, <2>1, <2>3, AloneIs
    <3>2. registered[k][Action[e]] = Holder(meta[k], e)
      BY <1>13, <3>1 DEF Classes, RegisteredIs
    <3> QED BY <1>5, <1>6, <1>11, <2>1, <3>1, <3>2
  <2> QED BY <2>2, <2>3
<1>14. RegisteredIs'
  BY <1>10, <1>12, <1>13 DEF RegisteredIs
<1>15. ASSUME NEW e \in Methods, Alone(e), NEW k \in Kinds, NEW d \in Methods, Last(e, d)'
       PROVE  Has(k, d)' = Declared(k, d)
  <2>1. d \in Chain(e) /\ d \in loaded' /\ Chain(e) \cap loaded' \subseteq Chain(d)
    BY <1>15 DEF Last
  <2>2. ASSUME NEW u \in Methods, Last(e, u)
        PROVE  Has(k, u) = Declared(k, u)
    BY <1>1, <1>15, <2>2 DEF Classes, HasOwn
  <2>3. CASE m \in Chain(e)
    <3>1. d = m
      <4>1. m \in Chain(d)
        BY <1>1, <2>1, <2>3
      <4> QED BY <1>1, <2>1, <4>1, ClosedChain
    <3>2. CASE Super[m] = None
      <4>1. Has(k, m)' = Decorated[k][m]
        BY <3>2, Loaded DEF Has
      <4> QED BY <3>1, <3>2, <4>1, DeclaredIs
    <3>3. CASE Super[m] # None
      <4> DEFINE u == Super[m]
      <4>1. u \in Methods /\ u \in loaded /\ u \in Chain(e)
        BY <1>1, <2>3, <3>3, SuperIs, ChainIs
      <4>2. ASSUME NEW y \in Chain(e) \cap loaded PROVE y \in Chain(u)
        <5>1. m \notin Chain(y)
          BY <1>1, ClosedChain
        <5>2. y \in Chain(m)
          BY <2>3, <5>1, ChainTotal
        <5> QED BY <1>1, <3>3, <5>2, ChainStep
      <4>3. Has(k, u) = Declared(k, u)
        BY <2>2, <4>1, <4>2 DEF Last
      <4>4. Has(k, m)' = OnTop(Decorated[k][m], Has(k, u))
        BY <3>3, Loaded DEF Has
      <4>5. Declared(k, m) = OnTop(Decorated[k][m], Declared(k, u))
        BY <3>3, DeclaredIs
      <4> QED BY <3>1, <4>3, <4>4, <4>5
    <3> QED BY <3>2, <3>3
  <2>4. CASE m \notin Chain(e)
    <3>1. m # e /\ Chain(e) \subseteq Methods
      BY <2>4, ChainIs
    <3>2. d \in loaded /\ Last(e, d)
      BY <1>1, <2>1, <2>4 DEF Last
    <3>3. Has(k, d) = Declared(k, d)
      BY <2>2, <3>2
    <3>4. ASSUME NEW c \in Chain(e) PROVE meta'[k][c] = meta[k][c]
      <4> SUFFICES ASSUME meta'[k][c] # meta[k][c] PROVE FALSE
        OBVIOUS
      <4>1. c \in Chain(m) /\ c # m /\ c \in Methods
        BY <2>4, <3>1, <3>4, Loaded
      <4>2. meta[k][c] # None
        BY <4>1, Loaded
      <4>3. Decorated[k][c] # NoMap
        BY <4>1, <4>2 DEF Classes, MetaIs
      <4> QED BY <1>15, <2>4, <3>1, <4>1, <4>3, AloneIs
    <3>5. Holder(meta'[k], d) = Holder(meta[k], d)
      BY <1>5, <3>2
    <3>6. MapOf(meta'[k], Holder(meta[k], d)) = MapOf(meta[k], Holder(meta[k], d))
      <4> DEFINE maps == meta[k]
                 h == Holder(maps, d)
      <4>1. h # None => h \in Chain(e)
        <5>1. h # None => h \in Chain(d)
          <6> HIDE DEF maps
          <6> QED BY HolderIs
        <5> QED BY <2>1, <5>1, ChainOf
      <4> HIDE DEF h
      <4>2. MapOf(meta'[k], h) = MapOf(meta[k], h)
        BY <3>4, <4>1 DEF MapOf
      <4> QED BY <4>2 DEF h
    <3> QED BY <3>3, <3>5, <3>6 DEF Has
  <2> QED BY <2>3, <2>4
<1>16. HasOwn'
  <2>1. ASSUME NEW e \in Methods, Alone(e), loaded' = Methods, NEW k \in Containers
        PROVE  Has(k, e)' = Declared(k, e)
    <3>1. Last(e, e)'
      BY <2>1, ChainIs DEF Last
    <3> QED BY <1>6, <1>15, <2>1, <3>1
  <2> QED BY <1>15, <2>1 DEF HasOwn
<1> QED BY <1>3, <1>4, <1>14, <1>16 DEF Classes

(* What a request puts into the Map of its action.                         *)
LEMMA PutIs ==
  ASSUME Classes, NEW k \in Containers, NEW m \in Methods, NEW items \in Maps
  PROVE  LET then == Put(k, m, items)
             c == registered[k][Action[m]]
         IN  /\ then \in MapsOf
             /\ \A d \in Methods : /\ then[d] # None <=> meta[k][d] # None
                                   /\ then[d] # meta[k][d] => d = c
             /\ c # None => /\ c \in Methods /\ meta[k][c] \in Maps
                            /\ then[c] = OnTop(items, meta[k][c])
<1> DEFINE c == registered[k][Action[m]]
           x == OnTop(items, meta[k][c])
<1>1. k \in Kinds /\ meta[k] \in MapsOf
  BY DEF Classes, MetaIs, Containers, Kinds
<1>2. c \in loaded \cup {None} /\ (c # None => meta[k][c] # None)
  <2>1. Action[m] \in Actions
    BY DEF Actions
  <2>2. registered \in [Containers -> [Actions -> loaded \cup {None}]]
    BY DEF Classes, RegisteredIs
  <2>3. c # None => meta[k][c] # None
    BY <2>1 DEF Classes, RegisteredIs
  <2> QED BY <2>1, <2>2, <2>3
<1>3. c # None => c \in Methods /\ meta[k][c] \in Maps
  BY <1>1, <1>2 DEF Classes, Loading, Closed, MapsOf
<1>4. c # None => x \in Maps /\ x # None
  BY <1>3, OnTopIs, MapIs
<1>5. Put(k, m, items) = IF c = None THEN meta[k] ELSE [meta[k] EXCEPT ![c] = x]
  BY DEF Put
<1> HIDE DEF c, x
<1>6. CASE c = None
  BY <1>1, <1>5, <1>6 DEF c
<1>7. CASE c # None
  <2> DEFINE then == Put(k, m, items)
  <2>1. /\ then = [meta[k] EXCEPT ![c] = x] /\ c \in Methods /\ x \in Maps /\ x # None
        /\ meta[k][c] \in Maps /\ meta[k][c] # None
    BY <1>2, <1>3, <1>4, <1>5, <1>7 DEF c
  <2> HIDE DEF then
  <2>2. /\ then \in MapsOf
        /\ \A d \in Methods : /\ then[d] # None <=> meta[k][d] # None
                              /\ then[d] # meta[k][d] => d = c
        /\ then[c] = x
    BY <1>1, <2>1 DEF MapsOf
  <2> QED BY <2>1, <2>2 DEF then, c, x
<1> QED BY <1>6, <1>7

(* What handled writes, if it fails on the way, too.                       *)
LEMMA HandlePuts ==
  ASSUME Classes, NEW r \in Requests, NEW m \in Methods, Handle(r, m)
  PROVE  /\ loaded = Methods /\ UNCHANGED <<loaded, registered>>
         /\ meta'["inject"] = meta["inject"]
         /\ \E names \in SUBSET DOMAIN Has("inject", m) :
              \A k \in Containers :
                meta'[k] = Put(k, m, Injects([n \in names |-> Has("inject", m)[n]],
                                             IF k = "service" THEN "service" ELSE "adapter"))
<1>1. loaded = Methods /\ UNCHANGED <<loaded, registered>>
  BY DEF Handle, Classes, Loading
<1> DEFINE injected == MapOf(meta["inject"], Holder(meta["inject"], m))
           Some(names) == [n \in names |-> injected[n]]
<1>2. PICK names \in SUBSET DOMAIN injected :
        meta' = [meta EXCEPT !["service"]  = Put("service", m, Injects(Some(names), "service")),
                             !["instance"] = Put("instance", m, Injects(Some(names), "adapter"))]
  <2> DEFINE PutSome(names) ==
               meta' = [meta EXCEPT
                          !["service"]  = Put("service", m, Injects(Some(names), "service")),
                          !["instance"] = Put("instance", m, Injects(Some(names), "adapter"))]
  <2>1. PutSome(DOMAIN injected) \/ \E names \in SUBSET DOMAIN injected : PutSome(names)
    BY Zenon DEF Handle
  <2> QED BY <2>1, Zenon
<1> HIDE DEF Some
<1>3. DOMAIN meta = Kinds
  BY DEF Classes, MetaIs
<1>4. /\ meta'["inject"] = meta["inject"]
      /\ meta'["service"] = Put("service", m, Injects(Some(names), "service"))
      /\ meta'["instance"] = Put("instance", m, Injects(Some(names), "adapter"))
  BY <1>2, <1>3 DEF Kinds
<1>5. \A k \in Containers : meta'[k] = Put(k, m, Injects(Some(names),
                                             IF k = "service" THEN "service" ELSE "adapter"))
  BY <1>4 DEF Containers
<1>6. Has("inject", m) = injected
  BY DEF Has
<1> HIDE DEF injected
<1> QED BY <1>1, <1>4, <1>5, <1>6 DEF Some

LEMMA LastOfAll ==
  ASSUME loaded = Methods, NEW m \in Methods
  PROVE  Last(m, m)
BY ChainIs DEF Last

(* What a class is injected is what it declares, or, if it extends one that*)
(* stands alone, that or nothing.                                          *)
LEMMA Injected ==
  ASSUME Classes, loaded = Methods, NEW m \in Methods, Alone(m)
  PROVE  /\ Has("inject", m) = Declared("inject", m)
         /\ \A d \in Chain(m) : Has("inject", d) \in {NoMap, Declared("inject", m)}
<1>1. "inject" \in Kinds
  BY DEF Kinds
<1>2. Has("inject", m) = Declared("inject", m)
  BY <1>1, LastOfAll DEF Classes, HasOwn
<1>3. ASSUME NEW d \in Chain(m) PROVE Has("inject", d) \in {NoMap, Declared("inject", m)}
  <2> DEFINE maps == meta["inject"]
             h == Holder(maps, d)
  <2>1. d \in Methods /\ Chain(d) \subseteq Chain(m) /\ OneMap(maps)
    BY <1>1, ChainOf DEF Classes, MetaIs
  <2> HIDE DEF maps
  <2>2. CASE h = None
    BY <2>2 DEF Has, MapOf, maps
  <2>3. CASE h # None
    <3>1. h \in Chain(m) /\ maps[h] # None
      BY <2>1, <2>3, HolderIs
    <3> HIDE DEF h
    <3>2. Holder(maps, m) = h
      BY <2>1, <3>1, HolderOnly
    <3>3. Has("inject", d) = Has("inject", m)
      BY <3>2 DEF Has, h, maps
    <3> QED BY <1>2, <3>3
  <2> QED BY <2>2, <2>3
<1> QED BY <1>2, <1>3

LEMMA HandleClasses ==
  ASSUME Classes, NEW r \in Requests, NEW m \in Methods, Handle(r, m)
  PROVE  Classes'
<1> DEFINE injected == Has("inject", m)
           Type(k) == IF k = "service" THEN "service" ELSE "adapter"
<1>1. /\ loaded = Methods /\ loaded' = loaded /\ registered' = registered
      /\ meta'["inject"] = meta["inject"]
  BY HandlePuts
<1>2. PICK names \in SUBSET DOMAIN injected :
        \A k \in Containers :
          meta'[k] = Put(k, m, Injects([n \in names |-> injected[n]], Type(k)))
  BY HandlePuts
<1> DEFINE some == [n \in names |-> injected[n]]
           Put1(k) == Injects(some, Type(k))
<1>3. injected \in Maps /\ some \in Maps
  <2>1. injected \in Maps
    <3> DEFINE maps == meta["inject"]
    <3>1. maps \in MapsOf
      BY DEF Classes, MetaIs, Kinds
    <3> HIDE DEF maps
    <3>2. MapOf(maps, Holder(maps, m)) \in Maps
      BY <3>1, MapOfIs
    <3> QED BY <3>2 DEF Has, maps
  <2> HIDE DEF injected
  <2> QED BY <2>1, InjectsIs
<1>4. \A k \in Containers : k \in Kinds /\ Put1(k) \in Maps
  <2> HIDE DEF some
  <2> QED BY <1>3, InjectsIs DEF Containers, Kinds
<1>5. \A k \in Containers : meta'[k] = Put(k, m, Put1(k))
  BY <1>2
<1> HIDE DEF injected, some, Put1
<1>6. ASSUME NEW k \in Containers
      PROVE  LET c == registered[k][Action[m]]
             IN  /\ meta'[k] \in MapsOf
                 /\ \A d \in Methods : /\ meta'[k][d] # None <=> meta[k][d] # None
                                       /\ meta'[k][d] # meta[k][d] => d = c
                 /\ c # None => /\ c \in Methods /\ meta[k][c] \in Maps
                                /\ meta'[k][c] = OnTop(Put1(k), meta[k][c])
  <2> DEFINE items == Put1(k)
             then == Put(k, m, items)
  <2>1. items \in Maps /\ meta'[k] = then
    BY <1>4, <1>5
  <2> HIDE DEF items
  <2>2. LET c == registered[k][Action[m]]
        IN  /\ then \in MapsOf
            /\ \A d \in Methods : /\ then[d] # None <=> meta[k][d] # None
                                  /\ then[d] # meta[k][d] => d = c
            /\ c # None => /\ c \in Methods /\ meta[k][c] \in Maps
                           /\ then[c] = OnTop(items, meta[k][c])
    BY <2>1, PutIs
  <2> HIDE DEF then
  <2> QED BY <2>1, <2>2 DEF items
<1>7. \A k \in Kinds : k = "inject" \/ k \in Containers
  BY DEF Kinds, Containers
<1>8. ASSUME NEW k \in Kinds
      PROVE  /\ meta'[k] \in MapsOf
             /\ \A d \in Methods : meta'[k][d] # None <=> meta[k][d] # None
  BY <1>1, <1>6, <1>7 DEF Classes, MetaIs
<1>9. ASSUME NEW k \in Kinds, NEW d \in Methods
      PROVE  Holder(meta'[k], d) = Holder(meta[k], d)
  <2> DEFINE maps == meta[k]
             then == meta'[k]
  <2>1. \A c \in Chain(d) : maps[c] # None <=> then[c] # None
    BY <1>8, ChainIs
  <2> HIDE DEF maps, then
  <2>2. Holder(then, d) = Holder(maps, d)
    BY <2>1, HolderSame
  <2> QED BY <2>2 DEF maps, then
<1>10. Loading'
  BY <1>1 DEF Classes, Loading
<1>11. MetaIs'
  <2>1. meta' \in [Kinds -> MapsOf]
    <3>1. \E x, y : meta' = [meta EXCEPT !["service"] = x, !["instance"] = y]
      BY DEF Handle
    <3>2. DOMAIN meta' = Kinds /\ meta' = [k \in Kinds |-> meta'[k]]
      BY <3>1 DEF Classes, MetaIs
    <3> QED BY <1>8, <3>2
  <2>2. \A k \in Kinds : OneMap(meta'[k])
    BY <1>8, ChainIs DEF OneMap, Classes, MetaIs
  <2>3. \A k \in Kinds, c \in Methods : meta'[k][c] # None => c \in loaded' /\ Decorated[k][c] # NoMap
    BY <1>1, <1>8 DEF Classes, MetaIs
  <2> QED BY <2>1, <2>2, <2>3 DEF MetaIs
<1>12. RegisteredIs'
  <2>1. registered' \in [Containers -> [Actions -> loaded' \cup {None}]]
    BY <1>1 DEF Classes, RegisteredIs
  <2>2. ASSUME NEW k \in Containers, NEW a \in Actions, registered'[k][a] # None
        PROVE  /\ meta'[k][registered'[k][a]] # None
               /\ \E e \in loaded' \cap Related : Action[e] = a /\ registered'[k][a] \in Chain(e)
    <3>1. registered'[k][a] = registered[k][a] /\ registered[k][a] \in Methods
      BY <1>1, <2>2 DEF Classes, RegisteredIs
    <3>2. /\ meta[k][registered[k][a]] # None
          /\ \E e \in loaded \cap Related : Action[e] = a /\ registered[k][a] \in Chain(e)
      BY <2>2, <3>1 DEF Classes, RegisteredIs
    <3>3. meta'[k][registered[k][a]] # None
      BY <1>6, <3>1, <3>2
    <3> QED BY <1>1, <3>1, <3>2, <3>3
  <2>3. ASSUME NEW k \in Containers, NEW e \in loaded' \cap Related, Alone(e)
        PROVE  registered'[k][Action[e]] = Holder(meta'[k], e)
    <3>1. e \in Methods /\ registered[k][Action[e]] = Holder(meta[k], e)
      BY <1>1, <2>3 DEF Classes, RegisteredIs
    <3> QED BY <1>1, <1>4, <1>9, <3>1
  <2> QED BY <2>1, <2>2, <2>3 DEF RegisteredIs
<1>13. ASSUME NEW e \in Methods, Alone(e), NEW k \in Containers
       PROVE  OnTop(Own(k, e), Has(k, e)') = OnTop(Own(k, e), Has(k, e))
  <2> DEFINE h == Holder(meta[k], e)
             c == registered[k][Action[m]]
  <2>1. Has(k, e)' = MapOf(meta'[k], h) /\ Has(k, e) = MapOf(meta[k], h)
    BY <1>4, <1>9 DEF Has
  <2>2. h # None => h \in Chain(e) /\ h \in Methods
    <3> DEFINE maps == meta[k]
    <3>1. Holder(maps, e) # None => Holder(maps, e) \in Chain(e)
      <4> HIDE DEF maps
      <4> QED BY HolderIs
    <3> QED BY <3>1, ChainIs
  <2> HIDE DEF h
  <2>3. CASE h = None \/ h # c
    <3>1. h # None => meta'[k][h] = meta[k][h]
      BY <1>6, <2>2, <2>3
    <3>2. MapOf(meta'[k], h) = MapOf(meta[k], h)
      BY <3>1 DEF MapOf
    <3> QED BY <2>1, <3>2
  <2>4. CASE h # None /\ h = c
    <3> DEFINE x == meta[k][c]
               f == Own(k, e)
               g == Put1(k)
    <3>1. c \in Methods /\ x \in Maps /\ meta'[k][c] = OnTop(g, x)
      BY <1>6, <2>4
    <3>2. Has(k, e)' = OnTop(g, x) /\ Has(k, e) = x
      BY <2>1, <2>4, <3>1 DEF MapOf
    <3>3. Decorated[k][c] # NoMap
      <4>1. meta[k][c] # None
        BY <3>1, MapIs
      <4> QED BY <1>4, <3>1, <4>1 DEF Classes, MetaIs
    <3>4. PICK o \in Related : Action[o] = Action[m] /\ c \in Chain(o)
      BY <2>4 DEF Classes, RegisteredIs, Actions
    <3>5. o \in Methods
      BY ClassesAssumption
    <3>6. o \in Chain(e)
      <4>1. o # e /\ o \notin Chain(e) => Decorated[k][c] = NoMap
        BY <1>4, <1>13, <2>2, <2>4, <3>4, <3>5, AloneIs
      <4>2. e \in Chain(e)
        BY ChainIs
      <4> QED BY <3>3, <4>1, <4>2
    <3>7. m \in Chain(e)
      <4>1. m # e => m \in Chain(e)
        BY <1>13, <3>4, <3>6, AloneIs
      <4>2. e \in Chain(e)
        BY ChainIs
      <4> QED BY <4>1, <4>2
    <3>8. injected \in {NoMap, Declared("inject", e)}
      BY <1>1, <1>13, <3>7, Injected DEF injected
    <3>9. /\ f \in Maps /\ g \in Maps /\ DOMAIN g \subseteq DOMAIN f
          /\ \A n \in DOMAIN g : g[n] = f[n]
      <4> DEFINE t == Type(k)
      <4>1. Declared("inject", e) \in Maps
        BY DeclaredIs DEF Kinds
      <4>2. f = Injects(Declared("inject", e), t) /\ g = Injects(some, t)
        BY DEF Own, Put1
      <4>3. f \in Maps
        <5> HIDE DEF f, t
        <5> QED BY <4>1, <4>2, InjectsIs
      <4>4. CASE injected = NoMap
        <5>1. some = NoMap
          <6>1. names = {}
            BY <4>4, MapIs
          <6>2. DOMAIN some = {}
            BY <6>1 DEF some
          <6> QED BY <1>3, <6>2, MapIs, SameMap
        <5>2. g = NoMap
          <6> HIDE DEF g, t
          <6> QED BY <1>3, <4>2, <5>1, InjectsIs
        <5> QED BY <4>3, <5>2, MapIs
      <4>5. CASE injected = Declared("inject", e)
        <5> HIDE DEF f, g, t
        <5>1. /\ DOMAIN Injects(some, t) \subseteq DOMAIN Injects(injected, t)
              /\ \A n \in DOMAIN Injects(some, t) :
                   Injects(some, t)[n] = Injects(injected, t)[n]
          BY <1>3, InjectsIs DEF some
        <5>2. g \in Maps
          BY <1>3, <4>2, InjectsIs
        <5> QED BY <4>2, <4>3, <4>5, <5>1, <5>2
      <4> QED BY <3>8, <4>4, <4>5
    <3> HIDE DEF x, f, g
    <3>10. OnTop(f, OnTop(g, x)) = OnTop(f, x)
      BY <3>1, <3>9, OnTopTwice
    <3> QED BY <3>2, <3>10 DEF f
  <2> QED BY <2>3, <2>4
<1>14. HasOwn'
  <2>1. ASSUME NEW e \in Methods, Alone(e), NEW d \in Methods, Last(e, d)'
        PROVE  Has("inject", d)' = Declared("inject", d)
    <3>1. Last(e, d)
      BY <1>1, <2>1 DEF Last
    <3>2. Has("inject", d) = Declared("inject", d)
      BY <2>1, <3>1 DEF Classes, HasOwn, Kinds
    <3>3. Has("inject", d)' = Has("inject", d)
      BY <1>1 DEF Has
    <3> QED BY <3>2, <3>3
  <2>2. ASSUME NEW e \in Methods, Alone(e), NEW k \in Containers
        PROVE  OnTop(Own(k, e), Has(k, e)') = OnTop(Own(k, e), Declared(k, e))
    BY <1>1, <1>13, <2>2 DEF Classes, HasOwn
  <2> QED BY <1>1, <2>1, <2>2 DEF HasOwn
<1> QED BY <1>10, <1>11, <1>12, <1>14 DEF Classes

--------------------------------------------------------------------------------
LEMMA ClassesKept ==
  ASSUME [Next]_vars
  PROVE  \/ \E m \in Methods : Load(m)
         \/ \E r \in Requests, m \in Methods : Handle(r, m)
         \/ UNCHANGED classVars
BY NextCases DEF GetRootBaggage, Receive, Ask, Perform, Answer, EndRootSpan, Settled, Emit, StartMeter,
                 Measure, EndMeter, vars

LEMMA ClassesStep ==
  ASSUME Types, ReqLinks, Classes, [Next]_vars
  PROVE  Classes'
<1>1. CASE \E m \in Methods : Load(m)
  BY <1>1, LoadStep
<1>2. CASE \E r \in Requests, m \in Methods : Handle(r, m)
  BY <1>2, HandleClasses
<1>3. CASE UNCHANGED classVars
  <2>1. loaded' = loaded /\ meta' = meta /\ registered' = registered
    BY <1>3 DEF classVars
  <2>2. ASSUME loaded # Methods, NEW r \in Requests PROVE req'[r].at = "idle"
    <3>1. req[r].at = "idle"
      BY <2>2 DEF Classes, Loading
    <3>2. /\ ~Receive(r) /\ ~Ask(r) /\ ~Answer(r)
          /\ \A h \in Headers : ~GetRootBaggage(r, h)
          /\ \A m \in Methods : ~Handle(r, m)
      BY <2>2, <3>1 DEF Receive, Ask, Answer, GetRootBaggage, Handle
    <3> QED BY <3>1, <3>2, ReqStays
  <2>3. Loading'
    BY <2>1, <2>2 DEF Classes, Loading
  <2>4. MetaIs' /\ RegisteredIs'
    BY <2>1 DEF Classes, MetaIs, RegisteredIs
  <2>5. HasOwn'
    BY <2>1 DEF Classes, HasOwn, Has, Last
  <2> QED BY <2>3, <2>4, <2>5 DEF Classes
<1> QED BY <1>1, <1>2, <1>3, ClassesKept

(* What a handler of a class that stands alone is given.                   *)
LEMMA GivenIs ==
  ASSUME Classes, loaded = Methods, NEW m \in Methods, Alone(m)
  PROVE  LET injected == Has("inject", m)
             Of(k)    == MapOf(meta[k], registered[k][Action[m]])
         IN  Object(OnTop(Injects(injected, "service"), Of("service")),
                    OnTop(Injects(injected, "adapter"), Of("instance")), injected) = Expected(m)
<1> DEFINE injected == Declared("inject", m)
           Of(k)    == MapOf(meta[k], registered[k][Action[m]])
           Says(k)  == IF m \in Related THEN Declared(k, m) ELSE NoMap
<1>1. Has("inject", m) = injected
  BY Injected
<1>2. /\ Own("service", m) = Injects(injected, "service")
      /\ Own("instance", m) = Injects(injected, "adapter")
  BY DEF Own
<1>3. ASSUME NEW k \in Containers
      PROVE  OnTop(Own(k, m), Of(k)) = OnTop(Own(k, m), Says(k))
  <2>1. CASE m \in Related
    <3>1. Of(k) = Has(k, m)
      BY <2>1 DEF Classes, RegisteredIs, Has
    <3>2. OnTop(Own(k, m), Has(k, m)) = OnTop(Own(k, m), Declared(k, m))
      BY DEF Classes, HasOwn
    <3> QED BY <2>1, <3>1, <3>2
  <2>2. CASE m \notin Related
    <3>1. \A e \in Related : e \in Methods /\ e # m
      BY <2>2, ClassesAssumption
    <3>2. \A e \in Related : Action[e] # Action[m]
      BY <3>1, AloneIs
    <3>3. registered[k][Action[m]] = None
      <4>1. Action[m] \in Actions
        BY DEF Actions
      <4>2. registered[k][Action[m]] # None => \E e \in Related : Action[e] = Action[m]
        BY <4>1 DEF Classes, RegisteredIs
      <4> QED BY <3>2, <4>2
    <3>4. Of(k) = NoMap /\ Says(k) = NoMap
      BY <2>2, <3>3 DEF MapOf
    <3> QED BY <3>4
  <2> QED BY <2>1, <2>2
<1>4. /\ OnTop(Injects(injected, "service"), Of("service")) =
           OnTop(Injects(injected, "service"), Says("service"))
      /\ OnTop(Injects(injected, "adapter"), Of("instance")) =
           OnTop(Injects(injected, "adapter"), Says("instance"))
  <2>1. "service" \in Containers /\ "instance" \in Containers
    BY DEF Containers
  <2> HIDE DEF injected, Of, Says
  <2> QED BY <1>2, <1>3, <2>1
<1>5. Expected(m) = Object(OnTop(Injects(injected, "service"), Says("service")),
                           OnTop(Injects(injected, "adapter"), Says("instance")), injected)
  BY DEF Expected
<1> HIDE DEF injected, Says
<1> QED BY <1>1, <1>4, <1>5

(* Only a handler that starts is given something, as a class.              *)
LEMMA DepsKept ==
  ASSUME Types, [Next]_vars, DOMAIN deps = Requests, NEW r \in Requests
  PROVE  /\ DOMAIN deps' = Requests
         /\ \/ req'[r].method = req[r].method /\ deps'[r] = deps[r]
            \/ \E m \in Methods :
                 /\ Handle(r, m) /\ req'[r].method = m
                 /\ deps'[r] =
                      LET injected == Has("inject", m)
                          Of(k)    == MapOf(meta[k], registered[k][Action[m]])
                      IN  Object(OnTop(Injects(injected, "service"), Of("service")),
                                 OnTop(Injects(injected, "adapter"), Of("instance")), injected)
<1> DEFINE Same == req'[r].method = req[r].method /\ deps'[r] = deps[r]
           Gift(m) ==
             LET injected == Has("inject", m)
                 Of(k)    == MapOf(meta[k], registered[k][Action[m]])
             IN  Object(OnTop(Injects(injected, "service"), Of("service")),
                        OnTop(Injects(injected, "adapter"), Of("instance")), injected)
<1>1. req \in [Requests -> RequestOf]
  BY DEF Types, ReqTypes
<1>2. ASSUME NEW q \in Requests, NEW m \in Methods, Handle(q, m)
      PROVE  \/ req'[q].method = m /\ deps' = [deps EXCEPT ![q] = Gift(m)]
             \/ req'[q].method = req[q].method /\ UNCHANGED deps
  <2> DEFINE x == [req[q] EXCEPT !.at = "handling", !.method = m, !.span = NextSpan]
             y == [req[q] EXCEPT !.at = "answered", !.span = NextSpan]
  <2>1. req[q] \in RequestOf
    BY <1>1
  <2>2. x.method = m /\ y.method = req[q].method
    BY <2>1 DEF RequestOf
  <2>3. \/ req' = [req EXCEPT ![q] = x] /\ deps' = [deps EXCEPT ![q] = Gift(m)]
        \/ req' = [req EXCEPT ![q] = y] /\ UNCHANGED deps
    BY <1>2, Zenon DEF Handle, Has
  <2> HIDE DEF x, y, Gift
  <2> QED BY <1>1, <2>2, <2>3
<1>3. ASSUME NEW q \in Requests, NEW m \in Methods, Handle(q, m)
      PROVE  /\ DOMAIN deps' = Requests
             /\ \/ Same
                \/ /\ r = q /\ req'[r].method = m
                   /\ deps'[r] = Gift(m)
  <2>1. q # r => req'[r] = req[r]
    BY <1>1, <1>3, HandlerStarted
  <2> DEFINE x == Gift(m)
  <2>2. \/ req'[q].method = m /\ deps' = [deps EXCEPT ![q] = x]
        \/ req'[q].method = req[q].method /\ deps' = deps
    BY <1>2, <1>3
  <2> HIDE DEF Gift, x
  <2>3. CASE q = r
    BY <2>2, <2>3 DEF x
  <2>4. CASE q # r
    BY <2>1, <2>2, <2>4
  <2> QED BY <2>3, <2>4
<1>4. ASSUME \A q \in Requests, m \in Methods : ~Handle(q, m)
      PROVE  UNCHANGED deps
  BY <1>4, NextCases DEF Load, GetRootBaggage, Receive, Ask, Perform, Answer, EndRootSpan, Settled, Emit,
                         StartMeter, Measure, EndMeter, vars
<1>5. ASSUME \A q \in Requests, m \in Methods : ~Handle(q, m)
      PROVE  req'[r].method = req[r].method
  <2>1. ASSUME NEW y \in RequestOf, NEW h
        PROVE  /\ [y EXCEPT !.at = "rooted", !.header = h, !.root = NextSpan,
                            !.baggage = NextSpan].method = y.method
               /\ [y EXCEPT !.at = "asked", !.asker = h, !.baggage = NextSpan].method = y.method
               /\ [y EXCEPT !.at = "asked"].method = y.method
               /\ [y EXCEPT !.at = "answered"].method = y.method
               /\ [y EXCEPT !.over = TRUE].method = y.method
    BY <2>1 DEF RequestOf
  <2>2. req[r] \in RequestOf
    BY <1>1
  <2>3. ASSUME NEW h \in Headers, GetRootBaggage(r, h) PROVE req'[r].method = req[r].method
    <3>1. req'[r] = [req[r] EXCEPT !.at = "rooted", !.header = h, !.root = NextSpan,
                                   !.baggage = NextSpan]
      BY <1>1, <2>3 DEF GetRootBaggage
    <3> QED BY <2>1, <2>2, <3>1
  <2>4. CASE Ask(r)
    <3>1. PICK q \in Requests \cup {None} : \E p : Request(r, q, p)
      BY <2>4 DEF Ask
    <3>2. req'[r] = [req[r] EXCEPT !.at = "asked", !.asker = q, !.baggage = NextSpan]
      BY <1>1, <3>1 DEF Request
    <3> QED BY <2>1, <2>2, <3>2
  <2>5. CASE Answer(r)
    <3>1. req'[r] = [req[r] EXCEPT !.at = "answered"]
      BY <1>1, <2>5 DEF Answer
    <3> QED BY <2>1, <2>2, <3>1
  <2>6. CASE EndRootSpan(r)
    <3>1. req'[r] = [req[r] EXCEPT !.over = TRUE]
      BY <1>1, <2>6 DEF EndRootSpan
    <3> QED BY <2>1, <2>2, <3>1
  <2>7. CASE Receive(r)
    <3>1. req'[r] = [req[r] EXCEPT !.at = "asked"]
      BY <1>1, <2>7 DEF Receive
    <3> QED BY <2>1, <2>2, <3>1
  <2> QED BY <1>5, <2>3, <2>4, <2>5, <2>6, <2>7, ReqBefore
<1> HIDE DEF Gift
<1>6. /\ DOMAIN deps' = Requests
      /\ \/ Same
         \/ \E m \in Methods : Handle(r, m) /\ req'[r].method = m /\ deps'[r] = Gift(m)
  BY <1>3, <1>4, <1>5
<1> QED BY <1>6 DEF Gift

DepsInv == Inv /\ Classes /\ DOMAIN deps = Requests /\ OwnDependencies

(* Whatever is loaded, handled or failed before, and in whatever order, a  *)
(* handler whose class stands alone is given what it declares.             *)
THEOREM DependenciesOwn == Spec => []OwnDependencies
<1>1. Init => DepsInv
  <2> SUFFICES ASSUME Init PROVE DepsInv
    OBVIOUS
  <2>1. DOMAIN deps = Requests /\ \A r \in Requests : req[r].method = None
    BY DEF Init
  <2> QED BY <2>1, InvInit, ClassesInit DEF DepsInv, OwnDependencies
<1>2. DepsInv /\ [Next]_vars => DepsInv'
  <2> SUFFICES ASSUME DepsInv, [Next]_vars PROVE DepsInv'
    OBVIOUS
  <2>1. Inv' /\ Classes' /\ Types
    BY InvStep, ClassesStep DEF DepsInv, Inv
  <2>2. DOMAIN deps' = Requests \/ Requests = {}
    BY <2>1, DepsKept DEF DepsInv
  <2>3. ASSUME NEW r \in Requests, NEW m \in Methods, req'[r].method = m, Alone(m)
        PROVE  deps'[r] = Expected(m)
    <3>1. CASE req'[r].method = req[r].method /\ deps'[r] = deps[r]
      BY <2>3, <3>1, ClassesAssumption DEF DepsInv, OwnDependencies
    <3>2. ASSUME NEW d \in Methods, Handle(r, d), req'[r].method = d,
                 deps'[r] = LET injected == Has("inject", d)
                                Of(k)    == MapOf(meta[k], registered[k][Action[d]])
                            IN  Object(OnTop(Injects(injected, "service"), Of("service")),
                                       OnTop(Injects(injected, "adapter"), Of("instance")),
                                       injected)
          PROVE  deps'[r] = Expected(m)
      <4>1. loaded = Methods /\ Alone(d) /\ d = m
        BY <2>3, <3>2, HandlePuts DEF DepsInv
      <4> QED BY <3>2, <4>1, GivenIs DEF DepsInv
    <3> QED BY <2>1, <3>1, <3>2, DepsKept DEF DepsInv
  <2>4. \A r \in Requests : req'[r].method \in Methods \cup {None}
    BY <2>1 DEF Inv, Types, ReqTypes, RequestOf
  <2>5. OwnDependencies'
    BY <2>3, <2>4 DEF OwnDependencies
  <2>6. CASE Requests = {}
    <3>1. UNCHANGED deps
      BY <2>6, NextCases DEF Load, Settled, Emit, StartMeter, Measure, EndMeter, vars
    <3> QED BY <2>1, <2>5, <3>1 DEF DepsInv
  <2> QED BY <2>1, <2>2, <2>5, <2>6 DEF DepsInv
<1>3. DepsInv => OwnDependencies
  BY DEF DepsInv
<1> QED BY <1>1, <1>2, <1>3, PTL DEF Spec

--------------------------------------------------------------------------------
(***************************************************************************)
(* Types, with the bound on spans                                          *)
(***************************************************************************)

Bounded == Len(spans) <= MaxSpans

LEMMA BoundedStep ==
  ASSUME Types, ReqLinks, Bounded, [Next]_vars
  PROVE  Bounded'
<1>1. /\ spans' \in Seq(Span) /\ Len(spans) \in Nat /\ Len(spans') \in Nat
      /\ DOMAIN spans' = 1 .. Len(spans') /\ DOMAIN spans = 1 .. Len(spans)
  BY SpansStay DEF Types, SpanTypes
<1>2. CASE Len(spans') <= Len(spans)
  BY <1>1, <1>2, MaxSpansAssumption DEF Bounded
<1>3. CASE Len(spans') > Len(spans)
  <2>1. Len(spans') \in DOMAIN spans' /\ Len(spans') \notin DOMAIN spans
    BY <1>1, <1>3
  <2>2. Len(spans') = NextSpan /\ NextSpan \in Spans
    BY <2>1, NewSpan, NewUnder
  <2> QED BY <2>2, MaxSpansAssumption DEF Bounded, Spans
<1> QED BY <1>1, <1>2, <1>3

TypesInv == Inv /\ Classes /\ Bounded

(* Every part of the state stays of its type: Maps have an owner that is   *)
(* loaded, what is registered is loaded, spans are as many as the bound.   *)
THEOREM TypeCorrect == Spec => []TypeOK
<1>1. Init => TypesInv
  <2>1. Init => Bounded
    BY MaxSpansAssumption DEF Init, Bounded
  <2> QED BY <2>1, InvInit, ClassesInit DEF TypesInv
<1>2. TypesInv /\ [Next]_vars => TypesInv'
  BY InvStep, ClassesStep, BoundedStep DEF TypesInv, Inv
<1>3. TypesInv => TypeOK
  <2> SUFFICES ASSUME TypesInv PROVE TypeOK
    OBVIOUS
  <2> DEFINE Of == [kind : SpanKinds,
                    owner : Requests \cup Events, trace : Traces,
                    parent : Spans, ends : Nat]
  <2>1. /\ Types /\ MetaIs /\ RegisteredIs /\ Closed(loaded)
        /\ Len(spans) \in Nat /\ Len(spans) <= MaxSpans
    BY DEF TypesInv, Inv, Classes, Loading, Bounded, Types, SpanTypes
  <2>2. \A n \in Nat : n <= Len(spans) => n \in Spans
    BY <2>1, MaxSpansAssumption DEF Spans
  <2>3. /\ loaded \subseteq Methods
        /\ \A k \in Kinds, m \in Methods : meta[k][m] # None => m \in loaded
        /\ registered \in [Containers -> [Actions -> loaded \cup {None}]]
    BY <2>1 DEF Closed, MetaIs, RegisteredIs
  <2>4. spans \in Seq(Of)
    <3>1. ASSUME NEW i \in DOMAIN spans PROVE spans[i] \in Of
      <4> DEFINE s == spans[i]
      <4>1. s \in Span /\ s.parent <= Len(spans)
        BY <2>1 DEF Types, SpanTypes, TypesInv, Inv, Traced, Under
      <4> HIDE DEF s
      <4>2. s.parent \in Spans
        BY <2>2, <4>1 DEF Span
      <4>3. s \in Of
        BY <4>1, <4>2 DEF Span, Owners
      <4> QED BY <4>3 DEF s
    <3>2. spans \in Seq(Span)
      BY <2>1 DEF Types, SpanTypes
    <3> HIDE DEF Of
    <3>3. spans \in [1 .. Len(spans) -> Of]
      BY <2>1, <3>1, <3>2
    <3> QED BY <2>1, <3>3
  <2>5. rootSpans \in [Traces -> Spans]
    <3>1. rootSpans \in [Traces -> Nat] /\ \A t \in Traces : rootSpans[t] <= Len(spans)
      BY <2>1 DEF Types, RootTypes
    <3> QED BY <2>2, <3>1
  <2>6. ASSUME NEW r \in Requests
        PROVE  /\ req[r].at \in {"idle", "rooted", "asked", "handling", "answered"}
               /\ req[r].method \in Methods \cup {None} /\ req[r].header \in Headers \cup {None}
               /\ req[r].asker \in Requests \cup {None} /\ req[r].over \in BOOLEAN
               /\ {req[r].root, req[r].baggage, req[r].span} \subseteq Spans
    <3>1. /\ req[r] \in RequestOf
          /\ req[r].root <= Len(spans) /\ req[r].baggage <= Len(spans) /\ req[r].span <= Len(spans)
      BY <2>1 DEF Types, ReqTypes
    <3>2. /\ req[r].at \in {"idle", "rooted", "asked", "handling", "answered"}
          /\ req[r].method \in Methods \cup {None} /\ req[r].header \in Headers \cup {None}
          /\ req[r].asker \in Requests \cup {None} /\ req[r].over \in BOOLEAN
          /\ req[r].root \in Nat /\ req[r].baggage \in Nat /\ req[r].span \in Nat
      BY <3>1 DEF RequestOf
    <3> QED BY <2>2, <3>1, <3>2
  <2>7. calls \subseteq DOMAIN spans /\ broken \subseteq DOMAIN spans
    BY <2>1 DEF Types, SpanTypes
  <2>8. meters \in [Events -> [from : Spans \cup {None}, span : Spans, over : BOOLEAN]]
    <3> DEFINE Typed == [from : Spans \cup {None}, span : Spans, over : BOOLEAN]
    <3>1. meters \in [Events -> MeterOf]
      BY <2>1 DEF Types, MeterTypes
    <3>2. ASSUME NEW e \in Events PROVE meters[e] \in Typed
      <4> DEFINE x == meters[e]
      <4>1. /\ x \in MeterOf /\ x.span <= Len(spans)
            /\ x.from # None => x.from <= Len(spans)
        BY <2>1, <3>1 DEF Types, MeterTypes
      <4> HIDE DEF x
      <4>2. x.from \in Spans \cup {None} /\ x.span \in Spans
        BY <2>2, <4>1 DEF MeterOf
      <4>3. x \in Typed
        BY <4>1, <4>2 DEF MeterOf
      <4> QED BY <4>3 DEF x
    <3> HIDE DEF Typed
    <3>3. meters \in [Events -> Typed]
      BY <3>1, <3>2
    <3> QED BY <3>3 DEF Typed
  <2> HIDE DEF Of
  <2>9. spans \in Seq([kind : {"root", "client", "handler", "call", "event", "meter"},
                       owner : Requests \cup Events, trace : Traces,
                       parent : Spans, ends : Nat])
    BY <2>4 DEF Of, SpanKinds
  <2> QED BY <2>3, <2>5, <2>6, <2>7, <2>8, <2>9 DEF TypeOK
<1> QED BY <1>1, <1>2, <1>3, PTL DEF Spec

================================================================================

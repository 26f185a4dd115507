------------------------------ MODULE StreamTransform ------------------------------
(***************************************************************************)
(* Documents over a stream of bytes: a handler's Readable goes through     *)
(* getStringifyTransform, or JsonToBufferTransform, into a response        *)
(* (makeHttpStreamResponse), arrives in chunks that are cut anywhere, and  *)
(* goes through BufferToJsonTransform.  A document stands for its text, a  *)
(* sequence of tokens; a byte is one of them, with its document's number.  *)
(* The specification is named PipelineSpec, for modules that extend this   *)
(* one and HttpCall, over whose streams the documents go.                  *)
(***************************************************************************)
EXTENDS Integers, Sequences, SequencesExt

CONSTANTS
  Tokens,     \* what texts are made of
  Documents,  \* texts of the values that are sent
  Digits,     \* tokens of which any sequence is a text: JSON has numbers
  MaxSent     \* bound: how many are sent

(* No text but those of numbers is the beginning of another.               *)
Texts ==
  /\ Documents \subseteq Seq(Tokens) \ {<<>>}
  /\ \A d, e \in Documents : IsPrefix(d, e) => d = e \/ Range(d) \subseteq Digits

ASSUME DocumentsAssumption == Texts
ASSUME MaxSentAssumption   == MaxSent \in Nat

VARIABLES
  sent,    \* history: the documents, in the order they were sent
  source,  \* the handler's stream: open, ended or failed
  wire,    \* bytes on their way
  head,    \* what BufferToJsonTransform keeps of the chunks so far
  out,     \* the bytes of each value that it made
  sink,    \* its end
  glued    \* history: a chunk had bytes of two documents

pipelineVars == <<sent, source, wire, head, out, sink, glued>>

Ends == {"open", "ended", "failed"}
Byte == [doc : 1 .. MaxSent, token : Tokens]

PipelineTypes ==
  /\ sent \in Seq(Documents) /\ Len(sent) <= MaxSent
  /\ source \in Ends /\ sink \in Ends
  /\ wire \in Seq(Byte) /\ head \in Seq(Byte)
  /\ out \in Seq(Seq(Byte) \ {<<>>})
  /\ glued \in BOOLEAN
  /\ sink = "ended" => source = "ended" /\ wire = <<>>

PipelineInit ==
  /\ sent = <<>> /\ wire = <<>> /\ head = <<>> /\ out = <<>>
  /\ source = "open" /\ sink = "open" /\ glued = FALSE

Text(bytes) == [i \in DOMAIN bytes |-> bytes[i].token]
Bytes(n, d) == [i \in DOMAIN d |-> [doc |-> n, token |-> d[i]]]

(* What JSON.parse takes.                                                  *)
Parses(text) ==
  \/ text \in Documents
  \/ text # <<>> /\ Range(text) \subseteq Digits

--------------------------------------------------------------------------------
Write(d) ==
  /\ source = "open" /\ Len(sent) < MaxSent
  /\ sent' = Append(sent, d)
  /\ wire' = wire \o Bytes(Len(sent) + 1, d)
  /\ UNCHANGED <<source, head, out, sink, glued>>

End ==
  /\ source = "open"
  /\ source' = "ended"
  /\ UNCHANGED <<sent, wire, head, out, sink, glued>>

(* A value that has no text, an error of the handler's stream, or a response*)
(* that is gone: both ends of the pipeline are destroyed.                  *)
Fail ==
  /\ sink = "open"
  /\ source' = "failed" /\ sink' = "failed" /\ wire' = <<>>
  /\ UNCHANGED <<sent, head, out, glued>>

(* Mutant: what has been parsed is kept. *)
Kept_Always(tail) == tail

Kept(tail) == IF Parses(Text(tail)) THEN <<>> ELSE tail

(* Mutant: a chunk is parsed for itself. *)
Concat_Not(chunk) == chunk

Concat(chunk) == head \o chunk

(* _transform of a chunk of n bytes.                                       *)
Transform(n) ==
  LET chunk == SubSeq(wire, 1, n)
      tail  == Concat(chunk)
  IN  /\ sink = "open"
      /\ wire' = SubSeq(wire, n + 1, Len(wire))
      /\ out' = IF Parses(Text(tail)) THEN Append(out, tail) ELSE out
      /\ head' = Kept(tail)
      /\ glued' = (glued \/ chunk[1].doc # chunk[n].doc)
      /\ UNCHANGED <<sent, source, sink>>

(* The end of the bytes: there is no _flush, and no word of a head.        *)
Finish ==
  /\ source = "ended" /\ wire = <<>> /\ sink = "open"
  /\ sink' = "ended"
  /\ UNCHANGED <<sent, source, wire, head, out, glued>>

PipelineNext ==
  \/ \E d \in Documents : Write(d)
  \/ End
  \/ Fail
  \/ \E n \in 1 .. Len(wire) : Transform(n)
  \/ Finish

PipelineSpec == PipelineInit /\ [][PipelineNext]_pipelineVars

--------------------------------------------------------------------------------
(* No byte is lost, repeated or out of order between JSON.stringify and the*)
(* values, wherever the chunks are cut (BufferToJsonTransform, 14-29).     *)
BytesConserved ==
  source # "failed" =>
    FlattenSeq(out) \o head \o wire
      = FlattenSeq([i \in DOMAIN sent |-> Bytes(i, sent[i])])

Delimited == \A i \in DOMAIN sent : Head(sent[i]) \notin Digits

(* Values that say where they end, as objects do and numbers do not, come  *)
(* out as they were sent, the first ones first, and, when the stream ends, *)
(* all of them if no chunk had bytes of two, and otherwise not even those  *)
(* that were sent after it (BufferToJsonTransform, 14-29).                 *)
ParsedUnlessGlued ==
  Delimited =>
    /\ IsPrefix([i \in DOMAIN out |-> Text(out[i])], sent)
    /\ sink = "ended" => (Len(out) = Len(sent) <=> ~glued)

================================================================================

----------------------------- MODULE AnswerProofs -----------------------------
(***************************************************************************)
(* A stream agrees with the whole answer, for every bound on the chunks    *)
(* and on the turns: what a client puts together from the frames of a      *)
(* closed stream is what the same facade would have paid out at once, and  *)
(* the calls of the model come whole, or not at all.                       *)
(*                                                                         *)
(* The invariant behind both, AnswerInv, relates four things at each       *)
(* chunk: what llama-server has said, what the assembler of backend.py     *)
(* still holds, what the generator of the facade has noted for its closing *)
(* events, and what its frames have told.                                  *)
(***************************************************************************)
EXTENDS StreamsProofs


-----------------------------------------------------------------------------
(* The inductive invariant: what the generator has told, and what it has   *)
(* noted, is what llama-server has said so far.                            *)

FinishedIn(chunks) == \E i \in DOMAIN chunks : chunks[i].finish # Nothing
CountedIn(chunks) == \E i \in DOMAIN chunks : chunks[i].usage # <<>>

\* The calls, in the forms of Anthropic.
DumpsOf(calls) == [i \in DOMAIN calls |-> Dumped(calls[i].arguments)]
BlocksOf(calls) ==
  [i \in DOMAIN calls |-> [type |-> "tool_use", id |-> calls[i].id, name |-> calls[i].name,
                           input |-> calls[i].arguments]]

\* Every list of calls that was told is the one that was noted.
Repeats(frames, calls) ==
  \A i \in 1..Len(frames) : frames[i].event = "chunk" => frames[i].calls \in {<<>>, calls}

ContentTyped(content) ==
  IsSequence(content) /\ \A i \in 1..Len(content) : IsSequence(content[i].text)

-----------------------------------------------------------------------------
(* What a frame more gives to the client.                                  *)

GainsChunk(a, b, text, reasoning, calls) ==
  /\ Texts(b, "chunk") = Texts(a, "chunk") \o text
  /\ Reasonings(b) = Reasonings(a) \o reasoning
  /\ ToldCalls(b) = ToldCalls(a) \o calls
GainsText(a, b, event, text) == Texts(b, event) = Texts(a, event) \o text
GainsDumps(a, b, dumps) == Dumps(b) = Dumps(a) \o dumps

\* What was told is made of sequences
LEMMA SpokenTyped ==
  ASSUME NEW a, IsSequence(a), AllSpeak(a)
  PROVE  /\ \A event \in TextEvents : IsSequence(Texts(a, event))
         /\ IsSequence(Reasonings(a)) /\ IsSequence(ToldCalls(a)) /\ IsSequence(Dumps(a))
<1> DEFINE f == [event |-> "done"]
<1>1. Speaks(f)
  BY DEF Speaks, TextEvents
<1> QED
  BY <1>1, FrameMore

\* Nothing is said
LEMMA NoGain ==
  ASSUME NEW a, IsSequence(a), AllSpeak(a)
  PROVE  /\ GainsChunk(a, a, <<>>, <<>>, <<>>)
         /\ GainsDumps(a, a, <<>>)
         /\ \A event \in TextEvents : GainsText(a, a, event, <<>>)
<1>1. /\ \A event \in TextEvents : IsSequence(Texts(a, event))
      /\ IsSequence(Reasonings(a)) /\ IsSequence(ToldCalls(a)) /\ IsSequence(Dumps(a))
  BY SpokenTyped
<1>2. "chunk" \in TextEvents
  BY DEF TextEvents
<1>3. \A x : IsSequence(x) => x \o <<>> = x
  BY Concatenation
<1>4. GainsChunk(a, a, <<>>, <<>>, <<>>)
  BY <1>1, <1>2, <1>3 DEF GainsChunk
<1>5. GainsDumps(a, a, <<>>)
  BY <1>1, <1>3 DEF GainsDumps
<1>6. \A event \in TextEvents : GainsText(a, a, event, <<>>)
  BY <1>1, <1>3 DEF GainsText
<1> QED
  BY <1>4, <1>5, <1>6

\* A chunk is said
LEMMA ChunkGains ==
  ASSUME NEW a, IsSequence(a), AllSpeak(a), NEW text, NEW reasoning, NEW calls,
         IsSequence(text), IsSequence(reasoning), IsSequence(calls),
         NEW b, b = Append(a, Chunk(text, reasoning, calls))
  PROVE  AllSpeak(b) /\ GainsChunk(a, b, text, reasoning, calls) /\ GainsDumps(a, b, <<>>)
<1> DEFINE f == Chunk(text, reasoning, calls)
<1>1. f.event = "chunk" /\ f.text = text /\ f.reasoning = reasoning /\ f.calls = calls
  BY DEF Chunk
<1> HIDE DEF f
<1>2. Speaks(f) /\ "chunk" \in TextEvents
  BY <1>1 DEF Speaks, TextEvents
<1>3. TextIn(f, "chunk") = text /\ ReasoningIn(f) = reasoning /\ CallsIn(f) = calls /\ DumpIn(f) = <<>>
  BY <1>1 DEF TextIn, ReasoningIn, CallsIn, DumpIn, BlockCall
<1>4. b = Append(a, f)
  BY DEF f
<1>5. /\ AllSpeak(b)
      /\ Texts(b, "chunk") = Texts(a, "chunk") \o TextIn(f, "chunk")
      /\ Reasonings(b) = Reasonings(a) \o ReasoningIn(f)
      /\ ToldCalls(b) = ToldCalls(a) \o CallsIn(f)
      /\ Dumps(b) = Dumps(a) \o DumpIn(f)
  BY <1>2, <1>4, FrameMore
<1> QED
  BY <1>3, <1>5 DEF GainsChunk, GainsDumps

\* An event of Responses is said
LEMMA EventGains ==
  ASSUME NEW a, IsSequence(a), AllSpeak(a), NEW event \in {"reasoning.delta", "text.delta"},
         NEW text, IsSequence(text), NEW b, b = Append(a, [event |-> event, text |-> text])
  PROVE  /\ AllSpeak(b) /\ GainsDumps(a, b, <<>>) /\ GainsText(a, b, event, text)
         /\ \A other \in {"reasoning.delta", "text.delta"} \ {event} : GainsText(a, b, other, <<>>)
<1> DEFINE f == [event |-> event, text |-> text]
<1>1. f.event = event /\ f.text = text
  OBVIOUS
<1> HIDE DEF f
<1>2. Speaks(f) /\ {"reasoning.delta", "text.delta"} \subseteq TextEvents
  BY <1>1 DEF Speaks, TextEvents
<1>3. /\ TextIn(f, event) = text /\ DumpIn(f) = <<>>
      /\ \A other \in {"reasoning.delta", "text.delta"} \ {event} : TextIn(f, other) = <<>>
  BY <1>1 DEF TextIn, DumpIn, BlockCall
<1>4. b = Append(a, f)
  BY DEF f
<1>5. /\ AllSpeak(b) /\ Dumps(b) = Dumps(a) \o DumpIn(f)
      /\ \A other \in TextEvents : Texts(b, other) = Texts(a, other) \o TextIn(f, other)
  BY <1>2, <1>4, FrameMore
<1> QED
  BY <1>2, <1>3, <1>5 DEF GainsText, GainsDumps

\* The deltas of a generator hold sequences.
DeltaTyped(delta) == IsSequence(delta.text) /\ IsSequence(delta.reasoning) /\ IsSequence(delta.calls)

\* A chunk of OpenAI or of Ollama's chat
LEMMA SomeChunkTold ==
  ASSUME NEW s, IsState(s), AllSpeak(s.frames), NEW text, NEW reasoning, NEW calls,
         IsSequence(text), IsSequence(reasoning), IsSequence(calls),
         NEW t, t = ToldChunk(s, text, reasoning, calls)
  PROVE  /\ AllSpeak(t.frames) /\ GainsChunk(s.frames, t.frames, text, reasoning, calls)
         /\ GainsDumps(s.frames, t.frames, <<>>)
<1>1. IsSequence(s.frames)
  BY DEF IsState
<1>2. CASE text = <<>> /\ reasoning = <<>> /\ calls = <<>>
  <2>1. t = s
    BY <1>2 DEF ToldChunk
  <2>2. AllSpeak(t.frames) /\ GainsDumps(s.frames, t.frames, <<>>)
    BY <1>1, <2>1, NoGain
  <2>3. GainsChunk(s.frames, t.frames, <<>>, <<>>, <<>>)
    BY <1>1, <2>1, NoGain
  <2> QED
    BY <1>2, <2>2, <2>3
<1>3. CASE ~(text = <<>> /\ reasoning = <<>> /\ calls = <<>>)
  <2>1. t = Say(s, Chunk(text, reasoning, calls))
    BY <1>3 DEF ToldChunk
  <2>2. t.frames = Append(s.frames, Chunk(text, reasoning, calls))
    BY <2>1, Said
  <2> QED
    BY <1>1, <2>2, ChunkGains
<1> QED
  BY <1>2, <1>3

\* A chunk of Ollama's generate
LEMMA SomeGenerateTold ==
  ASSUME NEW s, IsState(s), AllSpeak(s.frames), NEW delta, DeltaTyped(delta),
         NEW t, t = ToldGenerate(s, delta)
  PROVE  /\ AllSpeak(t.frames)
         /\ GainsChunk(s.frames, t.frames, delta.text, delta.reasoning, <<>>)
         /\ GainsDumps(s.frames, t.frames, <<>>)
<1>1. IsSequence(s.frames)
  BY DEF IsState
<1> DEFINE text == delta.text
           reasoning == delta.reasoning
<1>2. IsSequence(text) /\ IsSequence(reasoning)
  BY DEF DeltaTyped
<1>3. t = IF text = <<>> /\ reasoning = <<>> /\ delta.calls = <<>> THEN s ELSE Say(s, Chunk(text, reasoning, <<>>))
  BY DEF ToldGenerate
<1> HIDE DEF text, reasoning
<1>4. CASE text = <<>> /\ reasoning = <<>> /\ delta.calls = <<>>
  <2>2. AllSpeak(t.frames) /\ GainsDumps(s.frames, t.frames, <<>>)
    BY <1>1, <1>3, <1>4, NoGain
  <2>3. GainsChunk(s.frames, t.frames, <<>>, <<>>, <<>>)
    BY <1>1, <1>3, <1>4, NoGain
  <2> QED
    BY <1>4, <2>2, <2>3 DEF text, reasoning
<1>5. CASE ~(text = <<>> /\ reasoning = <<>> /\ delta.calls = <<>>)
  <2>2. t.frames = Append(s.frames, Chunk(text, reasoning, <<>>))
    BY <1>3, <1>5, Said
  <2>3. /\ AllSpeak(t.frames) /\ GainsChunk(s.frames, t.frames, text, reasoning, <<>>)
        /\ GainsDumps(s.frames, t.frames, <<>>)
    BY <1>1, <1>2, <2>2, ShortSequences, ChunkGains, ZenonT(30)
  <2> QED
    BY <2>3 DEF text, reasoning
<1> QED
  BY <1>4, <1>5

\* An event of Responses
LEMMA SomeEventTold ==
  ASSUME NEW s, IsState(s), AllSpeak(s.frames), NEW event \in {"reasoning.delta", "text.delta"},
         NEW text, IsSequence(text), NEW t, t = ToldEvent(s, event, text)
  PROVE  /\ AllSpeak(t.frames) /\ GainsDumps(s.frames, t.frames, <<>>)
         /\ GainsText(s.frames, t.frames, event, text)
         /\ \A other \in {"reasoning.delta", "text.delta"} \ {event} :
              GainsText(s.frames, t.frames, other, <<>>)
<1>1. IsSequence(s.frames) /\ {"reasoning.delta", "text.delta"} \subseteq TextEvents
  BY DEF IsState, TextEvents
<1>2. CASE text = <<>>
  <2>1. t = s
    BY <1>2 DEF ToldEvent
  <2>2. \A other \in TextEvents : GainsText(s.frames, t.frames, other, <<>>)
    BY <1>1, <2>1, NoGain
  <2>3. AllSpeak(t.frames) /\ GainsDumps(s.frames, t.frames, <<>>)
    BY <1>1, <2>1, NoGain
  <2> QED
    BY <1>1, <1>2, <2>2, <2>3
<1>3. CASE text # <<>>
  <2>1. t = Say(s, [event |-> event, text |-> text])
    BY <1>3 DEF ToldEvent
  <2>2. t.frames = Append(s.frames, [event |-> event, text |-> text])
    BY <2>1, Said
  <2> QED
    BY <1>1, <2>2, EventGains
<1> QED
  BY <1>2, <1>3

-----------------------------------------------------------------------------
(* The blocks of Anthropic, put together by the client.                    *)

Pieces == {"thinking", "text"}

KindOf(frames, k) == frames[CHOOSE i \in Starts(frames, k) : TRUE].kind
Ready(frames, k) ==
  /\ \E i \in 1..Len(frames) : Starts(frames, k) = {i}
  /\ KindOf(frames, k) \in Kinds
  /\ KindOf(frames, k) = "tool_use" => Deltas(frames, k) # {}
  /\ KindOf(frames, k) # "tool_use" => \A i \in Deltas(frames, k) : IsSequence(frames[i].delta)

Starting(e, k) == e.event = "content_block_start" /\ e.index = k
Going(e, k) == e.event = "content_block_delta" /\ e.index = k

\* One frame more starts a block, continues one or does neither
LEMMA BlockEvents ==
  ASSUME NEW a, IsSequence(a), NEW e, NEW k
  PROVE  LET b == Append(a, e)
         IN /\ Starts(a, k) \subseteq 1..Len(a) /\ Deltas(a, k) \subseteq 1..Len(a)
            /\ ~Starting(e, k) => Starts(b, k) = Starts(a, k)
            /\ Starting(e, k) => Starts(b, k) = Starts(a, k) \cup {Len(a) + 1}
            /\ ~Going(e, k) => Deltas(b, k) = Deltas(a, k)
            /\ Going(e, k) => Deltas(b, k) = Deltas(a, k) \cup {Len(a) + 1}
<1> DEFINE b == Append(a, e)
           n == Len(a)
<1>1. /\ n \in Nat /\ DOMAIN a = 1..n /\ DOMAIN b = 1..(n + 1)
      /\ b[n + 1] = e /\ \A i \in 1..n : b[i] = a[i]
  BY Appended
<1> HIDE DEF b, n
<1>2. DOMAIN b = (1..n) \cup {n + 1}
  BY <1>1
<1>3. Starts(b, k) = Starts(a, k) \cup (IF Starting(e, k) THEN {n + 1} ELSE {})
  BY <1>1, <1>2 DEF Starts, Starting
<1>4. Deltas(b, k) = Deltas(a, k) \cup (IF Going(e, k) THEN {n + 1} ELSE {})
  BY <1>1, <1>2 DEF Deltas, Going
<1>5. Starts(a, k) \subseteq 1..n /\ Deltas(a, k) \subseteq 1..n
  BY <1>1 DEF Starts, Deltas
<1> QED
  BY <1>3, <1>4, <1>5 DEF b, n

\* The text of a block, by the frames that are its deltas
DeltasIn(frames, deltas) ==
  FlattenSeq([i \in DOMAIN frames |-> IF i \in deltas THEN frames[i].delta ELSE <<>>])

DeltasTyped(frames, deltas) ==
  deltas \subseteq 1..Len(frames) /\ \A i \in deltas : IsSequence(frames[i].delta)

\* The deltas of a block, when there is one frame more
LEMMA DeltasAny ==
  ASSUME NEW a, IsSequence(a), NEW e, NEW deltas, DeltasTyped(a, deltas)
  PROVE  LET b == Append(a, e)
         IN /\ IsSequence(DeltasIn(a, deltas))
            /\ DeltasIn(b, deltas) = DeltasIn(a, deltas)
            /\ IsSequence(e.delta) =>
                 DeltasIn(b, deltas \cup {Len(a) + 1}) = DeltasIn(a, deltas) \o e.delta
<1> DEFINE b == Append(a, e)
           n == Len(a)
           more == deltas \cup {n + 1}
<1>1. /\ n \in Nat /\ DOMAIN a = 1..n /\ DOMAIN b = 1..(n + 1)
      /\ b[n + 1] = e /\ \A i \in 1..n : b[i] = a[i]
  BY Appended
<1>2. n + 1 \notin deltas /\ \A i \in 1..n : i # n + 1
  BY <1>1 DEF DeltasTyped
<1> HIDE DEF b
<1> DEFINE g == [i \in DOMAIN a |-> IF i \in deltas THEN a[i].delta ELSE <<>>]
           h == [i \in DOMAIN b |-> IF i \in deltas THEN b[i].delta ELSE <<>>]
           w == [i \in DOMAIN b |-> IF i \in more THEN b[i].delta ELSE <<>>]
<1>3. \A i \in 1..n : i \in DOMAIN a /\ i \in DOMAIN b
  BY <1>1
<1>4. n + 1 \in DOMAIN b
  BY <1>1
<1>5. Grows(g, h, Len(a)) /\ h[Len(a) + 1] = <<>> /\ IsSequence(h[Len(a) + 1])
  BY <1>1, <1>2, <1>3, <1>4, ShortSequences DEF Grows, DeltasTyped
<1>6. Grows(g, w, Len(a)) /\ w[Len(a) + 1] = e.delta
  BY <1>1, <1>2, <1>3, <1>4, ShortSequences DEF Grows, DeltasTyped
<1>7. Over(g, DOMAIN a) /\ Over(h, DOMAIN b) /\ Over(w, DOMAIN b)
  BY DEF Over
<1>8. DeltasIn(a, deltas) = FlattenSeq(g) /\ DeltasIn(b, deltas) = FlattenSeq(h)
      /\ DeltasIn(b, more) = FlattenSeq(w)
  BY DEF DeltasIn
<1> HIDE DEF g, h, w, more, n
<1>9. /\ IsSequence(FlattenSeq(g)) /\ FlattenSeq(h) = FlattenSeq(g) \o h[Len(a) + 1]
  BY <1>5, <1>7, PointwiseMore DEF b
<1>10. IsSequence(e.delta) => FlattenSeq(w) = FlattenSeq(g) \o w[Len(a) + 1]
  BY <1>6, <1>7, PointwiseMore DEF b
<1>11. FlattenSeq(g) \o <<>> = FlattenSeq(g)
  BY <1>9, Concatenation
<1> QED
  BY <1>5, <1>6, <1>8, <1>9, <1>10, <1>11 DEF b, more, n

\* A frame that is not among the deltas changes nothing
LEMMA DeltasKept ==
  ASSUME NEW a, IsSequence(a), NEW e, NEW deltas, DeltasTyped(a, deltas)
  PROVE  IsSequence(DeltasIn(a, deltas)) /\ DeltasIn(Append(a, e), deltas) = DeltasIn(a, deltas)
BY DeltasAny, ZenonT(30)

\* A frame that is among the deltas is appended
LEMMA DeltasMore ==
  ASSUME NEW a, IsSequence(a), NEW e, IsSequence(e.delta), NEW deltas, DeltasTyped(a, deltas)
  PROVE  DeltasIn(Append(a, e), deltas \cup {Len(a) + 1}) = DeltasIn(a, deltas) \o e.delta
BY DeltasAny, ZenonT(30)

\* A block as the client puts it together
LEMMA AssembledFields ==
  ASSUME NEW a, NEW k
  PROVE  Assembled(a, k) =
           IF KindOf(a, k) = "tool_use"
           THEN [type |-> "tool_use", id |-> a[CHOOSE i \in Starts(a, k) : TRUE].id,
                 name |-> a[CHOOSE i \in Starts(a, k) : TRUE].name,
                 input |-> OpenAIArguments(a[CHOOSE i \in Deltas(a, k) : TRUE].delta)]
           ELSE [type |-> KindOf(a, k), text |-> DeltasIn(a, Deltas(a, k))]
BY DEF Assembled, KindOf, DeltasIn

\* A frame that is not of a block leaves the block as it is
LEMMA AssembledStays ==
  ASSUME NEW a, IsSequence(a), NEW k, Ready(a, k), NEW e, ~Starting(e, k), ~Going(e, k),
         NEW b, b = Append(a, e)
  PROVE  Ready(b, k) /\ KindOf(b, k) = KindOf(a, k) /\ Assembled(b, k) = Assembled(a, k)
<1>1. /\ Len(a) \in Nat /\ Len(b) = Len(a) + 1 /\ \A i \in 1..Len(a) : b[i] = a[i] /\ i \in 1..Len(b)
  BY Appended
<1>2. /\ Starts(b, k) = Starts(a, k) /\ Deltas(b, k) = Deltas(a, k)
      /\ Starts(a, k) \subseteq 1..Len(a) /\ Deltas(a, k) \subseteq 1..Len(a)
  BY BlockEvents
<1> DEFINE c == CHOOSE i \in Starts(a, k) : TRUE
           d == CHOOSE i \in Deltas(a, k) : TRUE
<1>3. c \in Starts(a, k) /\ (Deltas(a, k) # {} => d \in Deltas(a, k))
  BY DEF Ready
<1>4. b[c] = a[c] /\ (Deltas(a, k) # {} => b[d] = a[d])
  BY <1>1, <1>2, <1>3
<1>5. /\ KindOf(a, k) = a[c].kind /\ KindOf(b, k) = b[c].kind
  BY <1>2 DEF KindOf
<1>6. KindOf(b, k) = KindOf(a, k)
  BY <1>4, <1>5
<1>7. \A i \in Deltas(a, k) : b[i] = a[i]
  BY <1>1, <1>2
<1>8. Ready(b, k)
  BY <1>1, <1>2, <1>6, <1>7 DEF Ready
<1>9. /\ Assembled(b, k) = IF KindOf(b, k) = "tool_use"
           THEN [type |-> "tool_use", id |-> b[c].id, name |-> b[c].name,
                 input |-> OpenAIArguments(b[d].delta)]
           ELSE [type |-> KindOf(b, k), text |-> DeltasIn(b, Deltas(b, k))]
      /\ Assembled(a, k) = IF KindOf(a, k) = "tool_use"
           THEN [type |-> "tool_use", id |-> a[c].id, name |-> a[c].name,
                 input |-> OpenAIArguments(a[d].delta)]
           ELSE [type |-> KindOf(a, k), text |-> DeltasIn(a, Deltas(a, k))]
  BY <1>2, AssembledFields
<1> HIDE DEF c, d
<1>10. CASE KindOf(a, k) = "tool_use"
  <2>1. b[d] = a[d]
    BY <1>4, <1>10 DEF Ready
  <2> QED
    BY <1>4, <1>6, <1>8, <1>9, <1>10, <2>1
<1>11. CASE KindOf(a, k) # "tool_use"
  <2> DEFINE D == Deltas(a, k)
  <2>1. DeltasTyped(a, D)
    BY <1>2, <1>11 DEF Ready, DeltasTyped
  <2> HIDE DEF D
  <2>2. DeltasIn(b, D) = DeltasIn(a, D)
    BY <2>1, DeltasKept
  <2> QED
    BY <1>2, <1>6, <1>8, <1>9, <1>11, <2>2 DEF D
<1> QED
  BY <1>10, <1>11

\* A delta goes on with the text of its block
LEMMA AssembledGrows ==
  ASSUME NEW a, IsSequence(a), NEW k, Ready(a, k), KindOf(a, k) # "tool_use",
         NEW e, Going(e, k), IsSequence(e.delta), NEW b, b = Append(a, e)
  PROVE  /\ Ready(b, k) /\ IsSequence(DeltasIn(a, Deltas(a, k)))
         /\ Assembled(a, k) = [type |-> KindOf(a, k), text |-> DeltasIn(a, Deltas(a, k))]
         /\ Assembled(b, k) = [type |-> KindOf(a, k), text |-> DeltasIn(a, Deltas(a, k)) \o e.delta]
<1>1. /\ Len(a) \in Nat /\ Len(b) = Len(a) + 1 /\ b[Len(a) + 1] = e
      /\ \A i \in 1..Len(a) : b[i] = a[i] /\ i \in 1..Len(b)
  BY Appended
<1>2. ~Starting(e, k)
  BY DEF Starting, Going
<1>3. /\ Starts(b, k) = Starts(a, k) /\ Deltas(b, k) = Deltas(a, k) \cup {Len(a) + 1}
      /\ Starts(a, k) \subseteq 1..Len(a) /\ Deltas(a, k) \subseteq 1..Len(a)
  BY <1>2, BlockEvents
<1> DEFINE c == CHOOSE i \in Starts(a, k) : TRUE
<1>4. c \in Starts(a, k)
  BY DEF Ready
<1>5. b[c] = a[c]
  BY <1>1, <1>3, <1>4
<1>6. KindOf(b, k) = KindOf(a, k)
  BY <1>3, <1>5 DEF KindOf
<1>7. \A i \in Deltas(a, k) : b[i] = a[i] /\ IsSequence(a[i].delta)
  BY <1>1, <1>3 DEF Ready
<1>8. Ready(b, k)
  BY <1>1, <1>3, <1>6, <1>7 DEF Ready
<1>9. /\ Assembled(b, k) = [type |-> KindOf(b, k), text |-> DeltasIn(b, Deltas(b, k))]
      /\ Assembled(a, k) = [type |-> KindOf(a, k), text |-> DeltasIn(a, Deltas(a, k))]
  BY <1>6, AssembledFields
<1>10. /\ IsSequence(DeltasIn(a, Deltas(a, k)))
       /\ DeltasIn(b, Deltas(a, k) \cup {Len(a) + 1}) = DeltasIn(a, Deltas(a, k)) \o e.delta
  <2> DEFINE D == Deltas(a, k)
  <2>1. DeltasTyped(a, D)
    BY <1>3, <1>7 DEF DeltasTyped
  <2> HIDE DEF D
  <2>2. IsSequence(DeltasIn(a, D)) /\ DeltasIn(b, D \cup {Len(a) + 1}) = DeltasIn(a, D) \o e.delta
    BY <2>1, DeltasKept, DeltasMore
  <2> QED
    BY <2>2 DEF D
<1> QED
  BY <1>3, <1>6, <1>8, <1>9, <1>10

\* A block without a delta is empty
LEMMA NoDeltas ==
  ASSUME NEW a, IsSequence(a)
  PROVE  DeltasIn(a, {}) = <<>>
<1> DEFINE W(n) == [i \in 1..n |-> <<>>]
           S == {n \in Nat : FlattenSeq(W(n)) = <<>>}
<1>1. \A n \in Nat : Family(W(n), n)
  BY ShortSequences DEF Family
<1>2. 0 \in S
  BY <1>1, FlattenedEmpty
<1>3. ASSUME NEW n \in Nat, n \in S PROVE n + 1 \in S
  <2>1. Extends(W(n + 1), W(n), n) /\ W(n + 1)[n + 1] = <<>> /\ n + 1 \in Nat
    BY DEF Extends
  <2>2. Family(W(n), n) /\ Family(W(n + 1), n + 1)
    BY <1>1, <2>1
  <2> HIDE DEF W
  <2>3. FlattenSeq(W(n + 1)) = FlattenSeq(W(n)) \o W(n + 1)[n + 1]
    BY <2>1, <2>2, FlattenedOneMore
  <2>4. FlattenSeq(W(n)) = <<>>
    BY <1>3
  <2>5. FlattenSeq(W(n + 1)) = <<>>
    BY <2>1, <2>3, <2>4
  <2> QED
    BY <2>1, <2>5
<1> HIDE DEF S
<1>4. Nat \subseteq S
  BY <1>2, <1>3, NatSet
<1>5. Len(a) \in Nat /\ DOMAIN a = 1..Len(a)
  BY Appended
<1>6. DeltasIn(a, {}) = FlattenSeq(W(Len(a)))
  <2>1. [i \in DOMAIN a |-> IF i \in {} THEN a[i].delta ELSE <<>>] = W(Len(a))
    BY <1>5
  <2> QED
    BY <2>1 DEF DeltasIn
<1> QED
  BY <1>4, <1>5, <1>6 DEF S

\* A block begins empty
LEMMA AssembledBegins ==
  ASSUME NEW a, IsSequence(a), NEW k, Starts(a, k) = {}, Deltas(a, k) = {},
         NEW e, Starting(e, k), e.kind \in Kinds, NEW b, b = Append(a, e)
  PROVE  /\ Starts(b, k) = {Len(a) + 1} /\ Deltas(b, k) = {} /\ KindOf(b, k) = e.kind
         /\ e.kind # "tool_use" =>
              Ready(b, k) /\ Assembled(b, k) = [type |-> e.kind, text |-> <<>>]
<1>1. /\ Len(a) \in Nat /\ Len(b) = Len(a) + 1 /\ b[Len(a) + 1] = e /\ Len(a) + 1 \in 1..Len(b)
      /\ IsSequence(b)
  BY Appended
<1>2. ~Going(e, k)
  BY DEF Starting, Going
<1>3. Starts(b, k) = {Len(a) + 1} /\ Deltas(b, k) = {}
  <2>1. Starts(b, k) = Starts(a, k) \cup {Len(a) + 1} /\ Deltas(b, k) = Deltas(a, k)
    BY <1>2, BlockEvents
  <2> QED
    BY <2>1
<1>4. (CHOOSE i \in {Len(a) + 1} : TRUE) = Len(a) + 1
  OBVIOUS
<1>5. KindOf(b, k) = e.kind
  BY <1>1, <1>3, <1>4 DEF KindOf
<1>6. ASSUME e.kind # "tool_use"
      PROVE  Ready(b, k) /\ Assembled(b, k) = [type |-> e.kind, text |-> <<>>]
  <2>1. Ready(b, k)
    BY <1>1, <1>3, <1>5, <1>6 DEF Ready
  <2>2. Assembled(b, k) = [type |-> e.kind, text |-> DeltasIn(b, {})]
    BY <1>3, <1>5, <1>6, AssembledFields
  <2> QED
    BY <1>1, <2>1, <2>2, NoDeltas
<1> QED
  BY <1>3, <1>5, <1>6

\* A call is whole with its only delta
LEMMA AssembledCall ==
  ASSUME NEW a, IsSequence(a), NEW k, Starts(a, k) = {}, Deltas(a, k) = {},
         NEW e, Starting(e, k), e.kind = "tool_use", NEW d, Going(d, k)
  PROVE  LET c == Append(Append(a, e), d)
         IN /\ Ready(c, k)
            /\ Assembled(c, k) = [type |-> "tool_use", id |-> e.id, name |-> e.name,
                                  input |-> OpenAIArguments(d.delta)]
<1> DEFINE b == Append(a, e)
           c == Append(b, d)
<1>1. e.kind \in Kinds
  BY DEF Kinds
<1>2. Starts(b, k) = {Len(a) + 1} /\ Deltas(b, k) = {}
  BY <1>1, AssembledBegins
<1>3. /\ Len(a) \in Nat /\ Len(b) = Len(a) + 1 /\ b[Len(a) + 1] = e /\ IsSequence(b)
  BY Appended
<1> HIDE DEF b
<1>4. /\ Len(c) = Len(b) + 1 /\ c[Len(b) + 1] = d /\ \A i \in 1..Len(b) : c[i] = b[i]
  BY <1>3, Appended
<1>5. ~Starting(d, k)
  BY DEF Starting, Going
<1>6. Starts(c, k) = {Len(a) + 1} /\ Deltas(c, k) = {Len(b) + 1}
  <2> DEFINE s == b
  <2>1. IsSequence(s) /\ c = Append(s, d)
    BY <1>3
  <2> HIDE DEF s
  <2>2. Starts(c, k) = Starts(s, k) /\ Deltas(c, k) = Deltas(s, k) \cup {Len(s) + 1}
    BY <1>5, <2>1, BlockEvents
  <2> QED
    BY <1>2, <2>2 DEF s
<1>7. /\ (CHOOSE i \in {Len(a) + 1} : TRUE) = Len(a) + 1
      /\ (CHOOSE i \in {Len(b) + 1} : TRUE) = Len(b) + 1
  OBVIOUS
<1>8. c[Len(a) + 1] = e /\ Len(a) + 1 \in 1..Len(c)
  BY <1>3, <1>4
<1>9. KindOf(c, k) = "tool_use"
  BY <1>6, <1>7, <1>8 DEF KindOf
<1>10. Ready(c, k)
  BY <1>1, <1>6, <1>8, <1>9 DEF Ready
<1>11. Assembled(c, k) = [type |-> "tool_use", id |-> c[Len(a) + 1].id, name |-> c[Len(a) + 1].name,
                         input |-> OpenAIArguments(c[Len(b) + 1].delta)]
  BY <1>6, <1>7, <1>9, AssembledFields
<1> QED
  BY <1>4, <1>8, <1>10, <1>11 DEF b, c

-----------------------------------------------------------------------------
(* The list of the blocks.                                                 *)

BlockList(frames, n) == [k \in 1..n |-> Assembled(frames, k - 1)]
BlockTextIn(block, type) == IF block.type = type THEN block.text ELSE <<>>
BlockCallIn(block) == IF block.type = "tool_use" THEN <<block>> ELSE <<>>
BlockTyped(block) == block.type \in Pieces => IsSequence(block.text)

\* A list of blocks of n elements, as a function
IsBlockList(list, n) ==
  list = [k \in 1..n |-> list[k]] /\ \A k \in 1..n : BlockTyped(list[k])

\* The texts and the calls of a list of blocks
LEMMA BlocksTyped ==
  ASSUME NEW n \in Nat, NEW x, IsBlockList(x, n)
  PROVE  /\ \A type \in Pieces : IsSequence(BlockTexts(x, type))
         /\ IsSequence(BlockCalls(x))
<1>1. DOMAIN x = 1..n /\ \A k \in 1..n : BlockTyped(x[k])
  BY DEF IsBlockList
<1>2. ASSUME NEW type \in Pieces PROVE IsSequence(BlockTexts(x, type))
  <2> DEFINE g == [k \in 1..n |-> BlockTextIn(x[k], type)]
  <2>1. Family(g, n)
    BY <1>1, <1>2, ShortSequences DEF Family, BlockTyped, BlockTextIn
  <2>2. BlockTexts(x, type) = FlattenSeq(g)
    BY <1>1 DEF BlockTexts, BlockTextIn
  <2> HIDE DEF g
  <2> QED
    BY <2>1, <2>2, FlattenedIsSequence
<1>3. IsSequence(BlockCalls(x))
  <2> DEFINE g == [k \in 1..n |-> BlockCallIn(x[k])]
  <2>1. Family(g, n)
    BY <1>1, ShortSequences DEF Family, BlockCallIn
  <2>2. BlockCalls(x) = FlattenSeq(g)
    BY <1>1 DEF BlockCalls, BlockCallIn
  <2> HIDE DEF g
  <2> QED
    BY <2>1, <2>2, FlattenedIsSequence
<1> QED
  BY <1>2, <1>3

\* One block more
LEMMA BlockMore ==
  ASSUME NEW n \in Nat, NEW x, IsBlockList(x, n), NEW y, IsBlockList(y, n + 1), Extends(y, x, n)
  PROVE  /\ \A type \in Pieces :
              BlockTexts(y, type) = BlockTexts(x, type) \o BlockTextIn(y[n + 1], type)
         /\ BlockCalls(y) = BlockCalls(x) \o BlockCallIn(y[n + 1])
<1>1. /\ DOMAIN x = 1..n /\ \A k \in 1..n : BlockTyped(x[k])
      /\ DOMAIN y = 1..(n + 1) /\ \A k \in 1..(n + 1) : BlockTyped(y[k])
  BY DEF IsBlockList
<1>2. n + 1 \in 1..(n + 1) /\ \A k \in 1..n : k \in 1..(n + 1) /\ y[k] = x[k]
  BY DEF Extends
<1>3. ASSUME NEW type \in Pieces
      PROVE  BlockTexts(y, type) = BlockTexts(x, type) \o BlockTextIn(y[n + 1], type)
  <2> DEFINE g == [k \in 1..n |-> BlockTextIn(x[k], type)]
             h == [k \in 1..(n + 1) |-> BlockTextIn(y[k], type)]
  <2>1. Family(g, n) /\ Family(h, n + 1)
    BY <1>1, <1>3, ShortSequences DEF Family, BlockTyped, BlockTextIn
  <2>2. BlockTexts(x, type) = FlattenSeq(g) /\ BlockTexts(y, type) = FlattenSeq(h)
    BY <1>1 DEF BlockTexts, BlockTextIn
  <2>3. Extends(h, g, n) /\ h[n + 1] = BlockTextIn(y[n + 1], type)
    BY <1>2 DEF Extends
  <2> HIDE DEF g, h
  <2>4. FlattenSeq(h) = FlattenSeq(g) \o h[n + 1]
    BY <2>1, <2>3, FlattenedOneMore
  <2> QED
    BY <2>2, <2>3, <2>4
<1>4. BlockCalls(y) = BlockCalls(x) \o BlockCallIn(y[n + 1])
  <2> DEFINE g == [k \in 1..n |-> BlockCallIn(x[k])]
             h == [k \in 1..(n + 1) |-> BlockCallIn(y[k])]
  <2>1. Family(g, n) /\ Family(h, n + 1)
    BY <1>1, ShortSequences DEF Family, BlockCallIn
  <2>2. BlockCalls(x) = FlattenSeq(g) /\ BlockCalls(y) = FlattenSeq(h)
    BY <1>1 DEF BlockCalls, BlockCallIn
  <2>3. Extends(h, g, n) /\ h[n + 1] = BlockCallIn(y[n + 1])
    BY <1>2 DEF Extends
  <2> HIDE DEF g, h
  <2>4. FlattenSeq(h) = FlattenSeq(g) \o h[n + 1]
    BY <2>1, <2>3, FlattenedOneMore
  <2> QED
    BY <2>2, <2>3, <2>4
<1> QED
  BY <1>3, <1>4

\* What a client has gained of the blocks
GainsPiece(x, y, type, piece) == BlockTexts(y, type) = BlockTexts(x, type) \o piece
GainsCall(x, y, calls) == BlockCalls(y) = BlockCalls(x) \o calls
SameBlocks(x, y) ==
  /\ \A type \in Pieces : BlockTexts(y, type) = BlockTexts(x, type)
  /\ BlockCalls(y) = BlockCalls(x)

\* A block of text that begins is empty
LEMMA EmptyBlockMore ==
  ASSUME NEW n \in Nat, NEW x, IsBlockList(x, n), NEW y, IsBlockList(y, n + 1), Extends(y, x, n),
         NEW kind \in Pieces, y[n + 1] = [type |-> kind, text |-> <<>>]
  PROVE  SameBlocks(x, y)
<1>1. y[n + 1].type = kind /\ y[n + 1].text = <<>> /\ kind # "tool_use"
  BY DEF Pieces
<1>2. \A type \in Pieces : BlockTextIn(y[n + 1], type) = <<>>
  BY <1>1 DEF BlockTextIn
<1>3. BlockCallIn(y[n + 1]) = <<>>
  BY <1>1 DEF BlockCallIn
<1>4. \A type \in Pieces : IsSequence(BlockTexts(x, type))
  BY BlocksTyped
<1>5. IsSequence(BlockCalls(x))
  BY BlocksTyped
<1>6. \A z : IsSequence(z) => z \o <<>> = z
  BY Concatenation
<1>7. ASSUME NEW type \in Pieces PROVE BlockTexts(y, type) = BlockTexts(x, type)
  <2>1. BlockTexts(y, type) = BlockTexts(x, type) \o BlockTextIn(y[n + 1], type)
    BY BlockMore
  <2> QED
    BY <1>2, <1>4, <1>6, <2>1
<1>8. BlockCalls(y) = BlockCalls(x)
  <2>1. BlockCalls(y) = BlockCalls(x) \o BlockCallIn(y[n + 1])
    BY BlockMore
  <2> QED
    BY <1>3, <1>5, <1>6, <2>1
<1> QED
  BY <1>7, <1>8 DEF SameBlocks

\* A call is a block of its own
LEMMA CallBlockMore ==
  ASSUME NEW n \in Nat, NEW x, IsBlockList(x, n), NEW y, IsBlockList(y, n + 1), Extends(y, x, n),
         y[n + 1].type = "tool_use"
  PROVE  /\ \A type \in Pieces : BlockTexts(y, type) = BlockTexts(x, type)
         /\ GainsCall(x, y, <<y[n + 1]>>)
<1>2. \A type \in Pieces : BlockTextIn(y[n + 1], type) = <<>>
  BY DEF BlockTextIn, Pieces
<1>3. BlockCallIn(y[n + 1]) = <<y[n + 1]>>
  BY DEF BlockCallIn
<1>4. \A type \in Pieces : IsSequence(BlockTexts(x, type))
  BY BlocksTyped
<1>6. \A z : IsSequence(z) => z \o <<>> = z
  BY Concatenation
<1>7. ASSUME NEW type \in Pieces PROVE BlockTexts(y, type) = BlockTexts(x, type)
  <2>1. BlockTexts(y, type) = BlockTexts(x, type) \o BlockTextIn(y[n + 1], type)
    BY BlockMore
  <2> QED
    BY <1>2, <1>4, <1>6, <2>1
<1>8. GainsCall(x, y, <<y[n + 1]>>)
  <2>1. BlockCalls(y) = BlockCalls(x) \o BlockCallIn(y[n + 1])
    BY BlockMore
  <2> QED
    BY <1>3, <2>1 DEF GainsCall
<1> QED
  BY <1>7, <1>8

\* The last block is of text, and grows
LEMMA LastBlockGrows ==
  ASSUME NEW n \in Nat, NEW x, IsBlockList(x, n + 1), NEW y, IsBlockList(y, n + 1), Extends(y, x,
         n),
         NEW kind \in Pieces, NEW text, IsSequence(text), NEW more, IsSequence(more),
         x[n + 1] = [type |-> kind, text |-> text], y[n + 1] = [type |-> kind, text |-> text \o more]
  PROVE  /\ GainsPiece(x, y, kind, more)
         /\ \A type \in Pieces \ {kind} : BlockTexts(y, type) = BlockTexts(x, type)
         /\ BlockCalls(y) = BlockCalls(x)
<1> DEFINE w == [k \in 1..n |-> x[k]]
           last == text \o more
<1>1. x[n + 1].type = kind /\ x[n + 1].text = text /\ y[n + 1].type = kind /\ y[n + 1].text = last
      /\ kind # "tool_use"
  BY DEF Pieces
<1>2. \A k \in 1..n : k \in 1..(n + 1)
  OBVIOUS
<1>3. IsBlockList(w, n) /\ Extends(x, w, n) /\ Extends(y, w, n)
  BY <1>2 DEF IsBlockList, Extends
<1> HIDE DEF w, last
<1>4. ASSUME NEW type \in Pieces
      PROVE  /\ BlockTexts(x, type) = BlockTexts(w, type) \o BlockTextIn(x[n + 1], type)
             /\ BlockTexts(y, type) = BlockTexts(w, type) \o BlockTextIn(y[n + 1], type)
             /\ IsSequence(BlockTexts(w, type))
  BY <1>3, BlockMore, BlocksTyped
<1>5. GainsPiece(x, y, kind, more)
  <2> DEFINE p == BlockTexts(w, kind)
  <2>1. BlockTexts(x, kind) = p \o text /\ BlockTexts(y, kind) = p \o last /\ IsSequence(p)
    BY <1>1, <1>4 DEF BlockTextIn
  <2> HIDE DEF p
  <2>2. (p \o text) \o more = p \o (text \o more)
    BY <2>1, Associative, SMTT(20)
  <2> QED
    BY <2>1, <2>2 DEF GainsPiece, last
<1>6. ASSUME NEW type \in Pieces \ {kind} PROVE BlockTexts(y, type) = BlockTexts(x, type)
  <2>1. BlockTextIn(x[n + 1], type) = <<>> /\ BlockTextIn(y[n + 1], type) = <<>>
    BY <1>1 DEF BlockTextIn
  <2> QED
    BY <1>4, <2>1
<1>7. BlockCalls(y) = BlockCalls(x)
  <2>1. BlockCallIn(x[n + 1]) = <<>> /\ BlockCallIn(y[n + 1]) = <<>>
    BY <1>1 DEF BlockCallIn
  <2>2. BlockCalls(x) = BlockCalls(w) \o BlockCallIn(x[n + 1])
    BY <1>3, BlockMore
  <2>3. BlockCalls(y) = BlockCalls(w) \o BlockCallIn(y[n + 1])
    BY <1>3, BlockMore
  <2> QED
    BY <2>1, <2>2, <2>3
<1> QED
  BY <1>5, <1>6, <1>7

-----------------------------------------------------------------------------
(* The frames of n blocks.                                                 *)

OfBlock(e) == e.event \in {"content_block_start", "content_block_delta"}
HoldsBlocks(frames, n) ==
  /\ \A i \in 1..Len(frames) : OfBlock(frames[i]) => frames[i].index \in 0..(n - 1)
  /\ \A k \in 0..(n - 1) : Ready(frames, k)

\* The client puts together a list of blocks
LEMMA BlockListTyped ==
  ASSUME NEW a, IsSequence(a), NEW n \in Nat, HoldsBlocks(a, n)
  PROVE  IsBlockList(BlockList(a, n), n)
<1>1. ASSUME NEW k \in 0..(n - 1) PROVE BlockTyped(Assembled(a, k))
  <2>1. CASE KindOf(a, k) = "tool_use"
    <3>1. Assembled(a, k).type = "tool_use"
      BY <2>1, AssembledFields
    <3> QED
      BY <3>1 DEF BlockTyped, Pieces
  <2>2. CASE KindOf(a, k) # "tool_use"
    <3> DEFINE D == Deltas(a, k)
    <3>1. DeltasTyped(a, D)
      BY <1>1, <2>2, BlockEvents DEF HoldsBlocks, Ready, DeltasTyped
    <3> HIDE DEF D
    <3>2. IsSequence(DeltasIn(a, D))
      BY <3>1, DeltasKept
    <3>3. Assembled(a, k).text = DeltasIn(a, D)
      BY <2>2, AssembledFields DEF D
    <3> QED
      BY <3>2, <3>3 DEF BlockTyped
  <2> QED
    BY <2>1, <2>2
<1>2. \A k \in 1..n : k - 1 \in 0..(n - 1) /\ BlockList(a, n)[k] = Assembled(a, k - 1)
  BY DEF BlockList
<1>3. BlockList(a, n) = [k \in 1..n |-> BlockList(a, n)[k]]
  BY DEF BlockList
<1> QED
  BY <1>1, <1>2, <1>3 DEF IsBlockList

\* There is no frame yet of the next block
LEMMA NextBlockIsNew ==
  ASSUME NEW a, IsSequence(a), NEW n \in Nat, HoldsBlocks(a, n)
  PROVE  Starts(a, n) = {} /\ Deltas(a, n) = {}
<1>1. DOMAIN a = 1..Len(a) /\ n \notin 0..(n - 1)
  BY Appended
<1> QED
  BY <1>1 DEF HoldsBlocks, OfBlock, Starts, Deltas

\* A frame that is of no block
LEMMA ApartSaid ==
  ASSUME NEW a, IsSequence(a), NEW n \in Nat, HoldsBlocks(a, n), NEW e, ~OfBlock(e)
  PROVE  HoldsBlocks(Append(a, e), n) /\ BlockList(Append(a, e), n) = BlockList(a, n)
<1> DEFINE b == Append(a, e)
<1>1. /\ Len(a) \in Nat /\ Len(b) = Len(a) + 1 /\ b[Len(a) + 1] = e
      /\ \A i \in 1..Len(a) : b[i] = a[i]
  BY Appended
<1>2. ASSUME NEW k \in 0..(n - 1) PROVE Ready(b, k) /\ Assembled(b, k) = Assembled(a, k)
  <2>1. Ready(a, k) /\ ~Starting(e, k) /\ ~Going(e, k)
    BY DEF HoldsBlocks, OfBlock, Starting, Going
  <2> QED
    BY <2>1, AssembledStays
<1> HIDE DEF b
<1>3. \A i \in 1..Len(b) : i \in 1..Len(a) \/ b[i] = e
  BY <1>1
<1>4. HoldsBlocks(b, n)
  BY <1>1, <1>2, <1>3 DEF HoldsBlocks
<1>5. \A k \in 1..n : k - 1 \in 0..(n - 1)
  OBVIOUS
<1>6. BlockList(b, n) = BlockList(a, n)
  BY <1>2, <1>5 DEF BlockList
<1> QED
  BY <1>4, <1>6 DEF b

\* A block of text begins
LEMMA TextBegins ==
  ASSUME NEW a, IsSequence(a), NEW n \in Nat, HoldsBlocks(a, n),
         NEW e, Starting(e, n), e.kind \in Pieces
  PROVE  /\ HoldsBlocks(Append(a, e), n + 1)
         /\ SameBlocks(BlockList(a, n), BlockList(Append(a, e), n + 1))
<1> DEFINE b == Append(a, e)
           x == BlockList(a, n)
           y == BlockList(b, n + 1)
<1>1. /\ Len(a) \in Nat /\ Len(b) = Len(a) + 1 /\ b[Len(a) + 1] = e /\ IsSequence(b)
      /\ \A i \in 1..Len(a) : b[i] = a[i]
  BY Appended
<1>2. ASSUME NEW k \in 0..(n - 1) PROVE Ready(b, k) /\ Assembled(b, k) = Assembled(a, k)
  <2>1. Ready(a, k) /\ ~Starting(e, k) /\ ~Going(e, k)
    BY DEF HoldsBlocks, Starting, Going
  <2> QED
    BY <2>1, AssembledStays
<1>3. Ready(b, n) /\ Assembled(b, n) = [type |-> e.kind, text |-> <<>>]
  <2>1. Starts(a, n) = {} /\ Deltas(a, n) = {} /\ e.kind \in Kinds /\ e.kind # "tool_use"
    BY NextBlockIsNew DEF Pieces, Kinds
  <2> QED
    BY <2>1, AssembledBegins, ZenonT(30)
<1> HIDE DEF b
<1>4. \A i \in 1..Len(b) : i \in 1..Len(a) \/ b[i] = e
  BY <1>1
<1>5. \A k \in 0..((n + 1) - 1) : k \in 0..(n - 1) \/ k = n
  OBVIOUS
<1>6. HoldsBlocks(b, n + 1)
  BY <1>1, <1>2, <1>3, <1>4, <1>5 DEF HoldsBlocks, Starting
<1>7. IsBlockList(x, n) /\ IsBlockList(y, n + 1)
  BY <1>1, <1>6, BlockListTyped
<1>8. \A k \in 1..n : k - 1 \in 0..(n - 1) /\ k \in 1..(n + 1)
  OBVIOUS
<1>9. n + 1 \in 1..(n + 1) /\ (n + 1) - 1 = n
  OBVIOUS
<1>10. Extends(y, x, n) /\ y[n + 1] = [type |-> e.kind, text |-> <<>>]
  BY <1>2, <1>3, <1>8, <1>9 DEF Extends, BlockList
<1> HIDE DEF x, y
<1>11. SameBlocks(x, y)
  BY <1>7, <1>10, EmptyBlockMore
<1> QED
  BY <1>6, <1>11 DEF b, x, y

\* A piece more of the last block
LEMMA TextGoesOn ==
  ASSUME NEW a, IsSequence(a), NEW n \in Nat, HoldsBlocks(a, n + 1), KindOf(a, n) \in Pieces,
         NEW e, Going(e, n), IsSequence(e.delta)
  PROVE  LET x == BlockList(a, n + 1)
             y == BlockList(Append(a, e), n + 1)
         IN /\ HoldsBlocks(Append(a, e), n + 1)
            /\ GainsPiece(x, y, KindOf(a, n), e.delta)
            /\ \A type \in Pieces \ {KindOf(a, n)} : BlockTexts(y, type) = BlockTexts(x, type)
            /\ BlockCalls(y) = BlockCalls(x)
<1> DEFINE b == Append(a, e)
           x == BlockList(a, n + 1)
           y == BlockList(b, n + 1)
           kind == KindOf(a, n)
           text == DeltasIn(a, Deltas(a, n))
<1>1. /\ Len(a) \in Nat /\ Len(b) = Len(a) + 1 /\ b[Len(a) + 1] = e /\ IsSequence(b)
      /\ \A i \in 1..Len(a) : b[i] = a[i]
  BY Appended
<1>2. ASSUME NEW k \in 0..(n - 1) PROVE Ready(b, k) /\ Assembled(b, k) = Assembled(a, k)
  <2>1. Ready(a, k) /\ ~Starting(e, k) /\ ~Going(e, k)
    BY DEF HoldsBlocks, Starting, Going
  <2> QED
    BY <2>1, AssembledStays
<1>3. /\ Ready(b, n) /\ IsSequence(text)
      /\ Assembled(a, n) = [type |-> kind, text |-> text]
      /\ Assembled(b, n) = [type |-> kind, text |-> text \o e.delta]
  <2>1. Ready(a, n) /\ KindOf(a, n) # "tool_use"
    BY DEF HoldsBlocks, Pieces
  <2> QED
    BY <2>1, AssembledGrows
<1> HIDE DEF b, kind, text
<1>4. \A i \in 1..Len(b) : i \in 1..Len(a) \/ b[i] = e
  BY <1>1
<1>5. \A k \in 0..((n + 1) - 1) : k \in 0..(n - 1) \/ k = n
  OBVIOUS
<1>6. HoldsBlocks(b, n + 1)
  <2>1. n \in 0..((n + 1) - 1)
    OBVIOUS
  <2> QED
    BY <1>1, <1>2, <1>3, <1>4, <1>5, <2>1 DEF HoldsBlocks, Going
<1>7. IsBlockList(x, n + 1) /\ IsBlockList(y, n + 1)
  BY <1>1, <1>6, BlockListTyped
<1>8. \A k \in 1..n : k - 1 \in 0..(n - 1) /\ k \in 1..(n + 1)
  OBVIOUS
<1>9. n + 1 \in 1..(n + 1) /\ (n + 1) - 1 = n
  OBVIOUS
<1>10. /\ Extends(y, x, n) /\ x[n + 1] = [type |-> kind, text |-> text]
       /\ y[n + 1] = [type |-> kind, text |-> text \o e.delta]
  BY <1>2, <1>3, <1>8, <1>9 DEF Extends, BlockList
<1>11. kind \in Pieces
  BY DEF kind
<1> HIDE DEF x, y
<1>12. /\ GainsPiece(x, y, kind, e.delta)
       /\ \A type \in Pieces \ {kind} : BlockTexts(y, type) = BlockTexts(x, type)
       /\ BlockCalls(y) = BlockCalls(x)
  BY <1>3, <1>7, <1>10, <1>11, LastBlockGrows, ZenonT(30)
<1> QED
  BY <1>6, <1>12 DEF b, x, y, kind

\* A call is told, in two frames
LEMMA CallComes ==
  ASSUME NEW a, IsSequence(a), NEW n \in Nat, HoldsBlocks(a, n),
         NEW e, Starting(e, n), e.kind = "tool_use", NEW d, Going(d, n)
  PROVE  LET c == Append(Append(a, e), d)
             x == BlockList(a, n)
             y == BlockList(c, n + 1)
         IN /\ HoldsBlocks(c, n + 1)
            /\ \A type \in Pieces : BlockTexts(y, type) = BlockTexts(x, type)
            /\ GainsCall(x, y, <<[type |-> "tool_use", id |-> e.id, name |-> e.name,
                                  input |-> OpenAIArguments(d.delta)]>>)
<1> DEFINE b == Append(a, e)
           c == Append(b, d)
           x == BlockList(a, n)
           y == BlockList(c, n + 1)
           call == [type |-> "tool_use", id |-> e.id, name |-> e.name,
                    input |-> OpenAIArguments(d.delta)]
<1>1. /\ Len(a) \in Nat /\ Len(b) = Len(a) + 1 /\ b[Len(a) + 1] = e /\ IsSequence(b)
      /\ \A i \in 1..Len(a) : b[i] = a[i]
  BY Appended
<1>2. ASSUME NEW k \in 0..(n - 1) PROVE Ready(b, k) /\ Assembled(b, k) = Assembled(a, k)
  <2>1. Ready(a, k) /\ ~Starting(e, k) /\ ~Going(e, k)
    BY DEF HoldsBlocks, Starting, Going
  <2> QED
    BY <2>1, AssembledStays
<1>3. Ready(c, n) /\ Assembled(c, n) = call
  <2>1. Starts(a, n) = {} /\ Deltas(a, n) = {}
    BY NextBlockIsNew
  <2> QED
    BY <2>1, AssembledCall
<1> HIDE DEF b
<1>4. /\ Len(c) = Len(b) + 1 /\ c[Len(b) + 1] = d /\ IsSequence(c)
      /\ \A i \in 1..Len(b) : c[i] = b[i]
  BY <1>1, Appended
<1>5. ASSUME NEW k \in 0..(n - 1) PROVE Ready(c, k) /\ Assembled(c, k) = Assembled(a, k)
  <2>1. Ready(b, k) /\ ~Starting(d, k) /\ ~Going(d, k)
    BY <1>2 DEF Starting, Going
  <2>2. Ready(c, k) /\ KindOf(c, k) = KindOf(b, k) /\ Assembled(c, k) = Assembled(b, k)
    BY <1>1, <2>1, AssembledStays
  <2> QED
    BY <1>2, <2>2
<1> HIDE DEF c, call
<1>6. \A i \in 1..Len(c) : (i \in 1..Len(a) /\ c[i] = a[i]) \/ c[i] = e \/ c[i] = d
  BY <1>1, <1>4
<1>7. \A k \in 0..((n + 1) - 1) : k \in 0..(n - 1) \/ k = n
  OBVIOUS
<1>8. HoldsBlocks(c, n + 1)
  <2>1. n \in 0..((n + 1) - 1)
    OBVIOUS
  <2> QED
    BY <1>3, <1>5, <1>6, <1>7, <2>1 DEF HoldsBlocks, Going, Starting
<1>9. IsBlockList(x, n) /\ IsBlockList(y, n + 1)
  BY <1>4, <1>8, BlockListTyped
<1>10. \A k \in 1..n : k - 1 \in 0..(n - 1) /\ k \in 1..(n + 1)
  OBVIOUS
<1>11. n + 1 \in 1..(n + 1) /\ (n + 1) - 1 = n
  OBVIOUS
<1>12. Extends(y, x, n) /\ y[n + 1] = call
  BY <1>3, <1>5, <1>10, <1>11 DEF Extends, BlockList
<1>13. call.type = "tool_use"
  BY DEF call
<1> HIDE DEF x, y
<1>14. /\ \A type \in Pieces : BlockTexts(y, type) = BlockTexts(x, type)
       /\ GainsCall(x, y, <<call>>)
  BY <1>9, <1>12, <1>13, CallBlockMore
<1> QED
  BY <1>8, <1>14 DEF b, c, x, y, call

-----------------------------------------------------------------------------
(* What the generator of Anthropic says, block after block.                *)

TellsBlocks(s) == StateInv(s) /\ AllSpeak(s.frames) /\ HoldsBlocks(s.frames, s.index + 1)
KeepsBlocks(s, t) ==
  SameBlocks(Blocks(s.frames), Blocks(t.frames)) /\ Dumps(t.frames) = Dumps(s.frames)

\* The blocks that the generator has opened
LEMMA BlocksListed ==
  ASSUME NEW s, StateInv(s)
  PROVE  /\ s.index + 1 \in Nat /\ IsSequence(s.frames)
         /\ Blocks(s.frames) = BlockList(s.frames, s.index + 1)
<1>1. IsSequence(s.frames) /\ Len(s.frames) \in Nat
  BY Appended DEF StateInv, IsState
<1>2. s.index \in -1..Len(s.frames)
      /\ s.index + 1 = Cardinality(StartsBefore(s.frames, Len(s.frames) + 1))
  BY DEF StateInv, BlockInv
<1>3. Blocks(s.frames) = BlockList(s.frames, s.index + 1)
  BY <1>2 DEF Blocks, BlockList
<1> QED
  BY <1>1, <1>2, <1>3

Appends(s, t, f) == t.frames = Append(s.frames, f)

\* The pieces of the blocks are sequences
LEMMA BlocksSpeak ==
  ASSUME NEW s, TellsBlocks(s)
  PROVE  /\ \A type \in Pieces : IsSequence(BlockTexts(Blocks(s.frames), type))
         /\ IsSequence(BlockCalls(Blocks(s.frames))) /\ IsSequence(Dumps(s.frames))
<1>1. s.index + 1 \in Nat /\ IsSequence(s.frames) /\ Blocks(s.frames) = BlockList(s.frames, s.index + 1)
  BY BlocksListed DEF TellsBlocks
<1>2. IsBlockList(BlockList(s.frames, s.index + 1), s.index + 1)
  BY <1>1, BlockListTyped DEF TellsBlocks
<1>3. IsSequence(Dumps(s.frames))
  BY <1>1, SpokenTyped DEF TellsBlocks
<1> QED
  BY <1>1, <1>2, <1>3, BlocksTyped

\* The block that is open is the last one, and of its kind
LEMMA OpenIsLast ==
  ASSUME NEW s, TellsBlocks(s), s.open # Nothing
  PROVE  s.index \in Nat /\ KindOf(s.frames, s.index) = s.open
<1> DEFINE a == s.frames
           n == s.index
<1>1. IsSequence(a) /\ Len(a) \in Nat /\ DOMAIN a = 1..Len(a) /\ n + 1 \in Nat
  BY BlocksListed, Appended DEF TellsBlocks
<1>2. PICK k \in 1..Len(a) : OpenBefore(a, Len(a) + 1) = {k} /\ a[k].index = n /\ a[k].kind = s.open
  BY DEF TellsBlocks, StateInv, BlockInv
<1>3. a[k].event = "content_block_start"
  BY <1>2 DEF OpenBefore, StartsBefore
<1>4. n \in 0..((n + 1) - 1)
  BY <1>2, <1>3 DEF TellsBlocks, HoldsBlocks, OfBlock
<1>5. k \in Starts(a, n)
  BY <1>1, <1>2, <1>3 DEF Starts
<1>6. PICK i \in 1..Len(a) : Starts(a, n) = {i}
  BY <1>4 DEF TellsBlocks, HoldsBlocks, Ready
<1>7. Starts(a, n) = {k} /\ (CHOOSE j \in {k} : TRUE) = k
  BY <1>5, <1>6
<1>8. KindOf(a, n) = s.open
  BY <1>2, <1>7 DEF KindOf
<1> QED
  BY <1>4, <1>8

\* A frame apart from the blocks
LEMMA ApartTold ==
  ASSUME NEW s, TellsBlocks(s), NEW f, ~OfBlock(f), Speaks(f),
         NEW t, StateInv(t), t.index = s.index, Appends(s, t, f)
  PROVE  TellsBlocks(t) /\ KeepsBlocks(s, t)
<1> DEFINE n == s.index + 1
<1> USE DEF Appends
<1>1. n \in Nat /\ IsSequence(s.frames) /\ Blocks(s.frames) = BlockList(s.frames, n)
  BY BlocksListed DEF TellsBlocks
<1>2. Blocks(t.frames) = BlockList(t.frames, n)
  BY BlocksListed
<1>3. HoldsBlocks(s.frames, n)
  BY DEF TellsBlocks
<1> HIDE DEF n
<1>4. HoldsBlocks(t.frames, n) /\ BlockList(t.frames, n) = BlockList(s.frames, n)
  BY <1>1, <1>3, ApartSaid
<1>5. AllSpeak(t.frames) /\ IsSequence(Dumps(s.frames)) /\ Dumps(t.frames) = Dumps(s.frames) \o DumpIn(f)
  BY <1>1, FrameMore DEF TellsBlocks
<1>6. DumpIn(f) = <<>>
  BY DEF DumpIn, BlockCall, OfBlock
<1>7. Dumps(t.frames) = Dumps(s.frames)
  BY <1>5, <1>6, Concatenation, ShortSequences
<1>8. SameBlocks(Blocks(s.frames), Blocks(t.frames))
  BY <1>1, <1>2, <1>4 DEF SameBlocks
<1> QED
  BY <1>4, <1>5, <1>7, <1>8 DEF TellsBlocks, KeepsBlocks, n

\* A state keeps its own blocks
LEMMA KeptAsIs ==
  ASSUME NEW s
  PROVE  KeepsBlocks(s, s)
  BY DEF KeepsBlocks, SameBlocks

\* Closing a block changes none of them
LEMMA CloseSays ==
  ASSUME NEW s, TellsBlocks(s), NEW t, t = close_block(s)
  PROVE  TellsBlocks(t) /\ KeepsBlocks(s, t) /\ t.open = Nothing /\ t.index = s.index
<1> DEFINE f == [event |-> "content_block_stop", index |-> s.index]
           u == Say(s, f)
<1>1. t = IF s.open = Nothing THEN s ELSE [u EXCEPT !.open = Nothing]
  BY Zenon DEF close_block, Nothing
<1>2. StateInv(t) /\ t.open = Nothing /\ t.index = s.index
  BY BlockClosed DEF TellsBlocks
<1>3. CASE s.open = Nothing
  BY <1>1, <1>2, <1>3, KeptAsIs
<1>4. CASE s.open # Nothing
  <2>1. IsState(u) /\ u.frames = Append(s.frames, f)
    BY Said DEF TellsBlocks, StateInv
  <2>2. ~OfBlock(f) /\ Speaks(f)
    BY DEF OfBlock, Speaks, TextEvents
  <2> HIDE DEF f, u
  <2>3. t = Locals(u.frames, u.finish, u.usage, u.calls, u.content, u.index, Nothing)
    BY <1>1, <1>4, <2>1, Reopened
  <2>4. t.frames = u.frames
    BY <2>3, LocalsFields
  <2>5. Appends(s, t, f)
    BY <2>1, <2>4 DEF Appends
  <2> QED
    <3>1. TellsBlocks(t) /\ KeepsBlocks(s, t)
      BY <1>2, <2>2, <2>5, ApartTold
    <3> QED
      BY <1>2, <3>1
<1> QED
  BY <1>3, <1>4

\* The frame that opens a block, after the last one is closed
LEMMA OpenSays ==
  ASSUME NEW s, StateInv(s), NEW kind, NEW call, NEW t, t = OpenBlock(s, kind, call)
  PROVE  /\ t.frames = Append(close_block(s).frames, BlockStart(kind, s.index + 1, call))
         /\ t.index = s.index + 1 /\ t.open = kind
<1> DEFINE c == close_block(s)
           d == [c EXCEPT !.index = @ + 1, !.open = kind]
           f == BlockStart(kind, s.index + 1, call)
<1>1. StateInv(c) /\ c.index = s.index
  BY BlockClosed
<1>2. t = Say(d, f)
  BY DEF OpenBlock
<1> HIDE DEF c, f
<1>3. d = Locals(c.frames, c.finish, c.usage, c.calls, c.content, c.index + 1, kind)
  BY <1>1, Reopened DEF StateInv
<1>4. IsState(d) /\ d.frames = c.frames /\ d.index = s.index + 1 /\ d.open = kind
  BY <1>1, <1>3, LocalsFields DEF IsState, StateInv
<1> HIDE DEF d
<1>5. t.frames = Append(d.frames, f) /\ t.index = d.index /\ t.open = d.open
  BY <1>2, <1>4, Said
<1> QED
  BY <1>4, <1>5 DEF c, f

\* The frame of a delta
LEMMA DeltaSays ==
  ASSUME NEW s, StateInv(s), NEW payload, NEW t, t = BlockDelta(s, payload)
  PROVE  /\ t.frames = Append(s.frames, [event |-> "content_block_delta", index |-> s.index,
                                         kind |-> s.open, delta |-> payload])
         /\ t.index = s.index /\ t.open = s.open
<1> DEFINE f == [event |-> "content_block_delta", index |-> s.index, kind |-> s.open,
                 delta |-> payload]
<1>1. t = Say(s, f)
  BY DEF BlockDelta
<1> HIDE DEF f
<1>2. t.frames = Append(s.frames, f) /\ t.index = s.index /\ t.open = s.open
  BY <1>1, Said DEF StateInv
<1> QED
  BY <1>2 DEF f

-----------------------------------------------------------------------------
KeepsOthers(s, t, kind) ==
  /\ \A type \in Pieces \ {kind} :
       BlockTexts(Blocks(t.frames), type) = BlockTexts(Blocks(s.frames), type)
  /\ BlockCalls(Blocks(t.frames)) = BlockCalls(Blocks(s.frames))
  /\ Dumps(t.frames) = Dumps(s.frames)
GainsBlockText(s, t, kind, text) == GainsPiece(Blocks(s.frames), Blocks(t.frames), kind, text)

\* The blocks of text are no blocks of calls
LEMMA PiecesAreKinds ==
  ASSUME NEW kind \in Pieces
  PROVE  kind \in Kinds /\ kind # Nothing /\ kind # "tool_use"
  BY Zenon DEF Kinds, Nothing, Pieces

\* A delta of a block of text
LEMMA DeltaGoesOn ==
  ASSUME NEW s, TellsBlocks(s), s.open \in Pieces, NEW text, IsSequence(text),
         NEW t, t = BlockDelta(s, text)
  PROVE  TellsBlocks(t) /\ GainsBlockText(s, t, s.open, text) /\ KeepsOthers(s, t, s.open)
<1> DEFINE f == [event |-> "content_block_delta", index |-> s.index, kind |-> s.open,
                 delta |-> text]
           n == s.index
           x == Blocks(s.frames)
           y == Blocks(t.frames)
<1>1. s.open \in Kinds /\ s.open # Nothing /\ s.open # "tool_use"
  BY PiecesAreKinds
<1>2. n \in Nat /\ KindOf(s.frames, n) = s.open
  BY <1>1, OpenIsLast
<1>3. StateInv(t)
  BY <1>1, DeltaTold DEF TellsBlocks
<1>4. t.frames = Append(s.frames, f) /\ t.index = n
  BY DeltaSays DEF TellsBlocks
<1>5. Going(f, n) /\ f.delta = text /\ Speaks(f) /\ DumpIn(f) = <<>>
  BY <1>1 DEF Going, Speaks, TextEvents, DumpIn, BlockCall
<1> HIDE DEF f
<1>6. IsSequence(s.frames) /\ x = BlockList(s.frames, n + 1) /\ y = BlockList(t.frames, n + 1)
  BY <1>3, <1>4, BlocksListed DEF TellsBlocks
<1>7. HoldsBlocks(s.frames, n + 1)
  BY DEF TellsBlocks
<1>8. LET v == BlockList(s.frames, n + 1)
          w == BlockList(Append(s.frames, f), n + 1)
      IN /\ HoldsBlocks(Append(s.frames, f), n + 1)
         /\ GainsPiece(v, w, KindOf(s.frames, n), f.delta)
         /\ \A type \in Pieces \ {KindOf(s.frames, n)} : BlockTexts(w, type) = BlockTexts(v, type)
         /\ BlockCalls(w) = BlockCalls(v)
  <2> DEFINE a == s.frames
  <2>1. /\ IsSequence(a) /\ n \in Nat /\ HoldsBlocks(a, n + 1) /\ KindOf(a, n) \in Pieces
        /\ Going(f, n) /\ IsSequence(f.delta)
    BY <1>2, <1>5, <1>6, <1>7
  <2> HIDE DEF a, n
  <2>2. LET v == BlockList(a, n + 1)
            w == BlockList(Append(a, f), n + 1)
        IN /\ HoldsBlocks(Append(a, f), n + 1)
           /\ GainsPiece(v, w, KindOf(a, n), f.delta)
           /\ \A type \in Pieces \ {KindOf(a, n)} : BlockTexts(w, type) = BlockTexts(v, type)
           /\ BlockCalls(w) = BlockCalls(v)
    BY <2>1, TextGoesOn
  <2> QED
    BY <2>2 DEF a
<1>9. /\ HoldsBlocks(t.frames, n + 1) /\ GainsPiece(x, y, s.open, text)
      /\ \A type \in Pieces \ {s.open} : BlockTexts(y, type) = BlockTexts(x, type)
      /\ BlockCalls(y) = BlockCalls(x)
  BY <1>2, <1>4, <1>5, <1>6, <1>8
<1>10. AllSpeak(t.frames) /\ IsSequence(Dumps(s.frames)) /\ Dumps(t.frames) = Dumps(s.frames) \o DumpIn(f)
  BY <1>4, <1>5, <1>6, FrameMore DEF TellsBlocks
<1>11. Dumps(t.frames) = Dumps(s.frames)
  BY <1>5, <1>10, Concatenation, ShortSequences
<1>12. TellsBlocks(t)
  BY <1>3, <1>4, <1>9, <1>10 DEF TellsBlocks
<1> QED
  BY <1>9, <1>11, <1>12 DEF GainsBlockText, KeepsOthers

\* A block of text is opened
LEMMA TextOpens ==
  ASSUME NEW s, TellsBlocks(s), NEW kind \in Pieces, NEW t, t = OpenBlock(s, kind, NoCall)
  PROVE  TellsBlocks(t) /\ KeepsBlocks(s, t) /\ t.open = kind
<1> DEFINE c == close_block(s)
           n == s.index + 1
           f == BlockStart(kind, s.index + 1, NoCall)
           x == Blocks(s.frames)
           y == Blocks(t.frames)
<1>1. TellsBlocks(c) /\ KeepsBlocks(s, c) /\ c.index = s.index
  BY CloseSays
<1>2. StateInv(t)
  BY PiecesAreKinds, BlockOpened DEF TellsBlocks
<1>3. t.frames = Append(c.frames, f) /\ t.index = n /\ t.open = kind
  BY OpenSays DEF TellsBlocks
<1>4. Starting(f, n) /\ f.kind = kind /\ Speaks(f) /\ DumpIn(f) = <<>>
  BY DEF BlockStart, Starting, Speaks, TextEvents, DumpIn, BlockCall
<1> HIDE DEF f, c
<1>5. /\ IsSequence(c.frames) /\ n \in Nat /\ HoldsBlocks(c.frames, n)
      /\ Blocks(c.frames) = BlockList(c.frames, n) /\ y = BlockList(t.frames, n + 1)
  BY <1>1, <1>2, <1>3, BlocksListed DEF TellsBlocks
<1>6. HoldsBlocks(t.frames, n + 1) /\ SameBlocks(Blocks(c.frames), y)
  <2> DEFINE a == c.frames
  <2>1. IsSequence(a) /\ n \in Nat /\ HoldsBlocks(a, n) /\ f.kind \in Pieces
    BY <1>4, <1>5
  <2> HIDE DEF a, n
  <2>2. HoldsBlocks(Append(a, f), n + 1) /\ SameBlocks(BlockList(a, n), BlockList(Append(a, f), n + 1))
    BY <1>4, <2>1, TextBegins
  <2> QED
    BY <1>3, <1>5, <2>2 DEF a
<1>7. AllSpeak(t.frames) /\ IsSequence(Dumps(c.frames)) /\ Dumps(t.frames) = Dumps(c.frames) \o DumpIn(f)
  BY <1>1, <1>3, <1>4, <1>5, FrameMore DEF TellsBlocks
<1>8. Dumps(t.frames) = Dumps(c.frames)
  BY <1>4, <1>7, Concatenation, ShortSequences
<1>9. TellsBlocks(t)
  BY <1>2, <1>3, <1>6, <1>7 DEF TellsBlocks
<1> QED
  BY <1>1, <1>3, <1>6, <1>8, <1>9 DEF KeepsBlocks, SameBlocks

\* A piece is told in the block of its kind, which is opened first if it is not
LEMMA PieceGained ==
  ASSUME NEW s, TellsBlocks(s), NEW kind \in Pieces, NEW text, IsSequence(text),
         NEW t, t = ToldPiece(s, kind, text)
  PROVE  TellsBlocks(t) /\ GainsBlockText(s, t, kind, text) /\ KeepsOthers(s, t, kind)
<1>1. CASE text = <<>>
  <2>1. t = s
    BY <1>1 DEF ToldPiece
  <2>2. IsSequence(BlockTexts(Blocks(s.frames), kind))
    BY BlocksSpeak
  <2>3. GainsBlockText(s, s, kind, text)
    BY <1>1, <2>2, Concatenation DEF GainsBlockText, GainsPiece
  <2>4. KeepsOthers(s, s, kind)
    BY DEF KeepsOthers
  <2> QED
    BY <2>1, <2>3, <2>4
<1>2. CASE text # <<>>
  <2> DEFINE u == IF s.open = kind THEN s ELSE OpenBlock(s, kind, NoCall)
  <2>1. t = BlockDelta(u, text)
    BY <1>2 DEF ToldPiece
  <2>2. TellsBlocks(u) /\ KeepsBlocks(s, u) /\ u.open = kind
    <3>1. CASE s.open = kind
      BY <3>1, KeptAsIs
    <3>2. CASE s.open # kind
      BY <3>2, TextOpens
    <3> QED
      BY <3>1, <3>2
  <2> HIDE DEF u
  <2>3. TellsBlocks(t) /\ GainsBlockText(u, t, kind, text) /\ KeepsOthers(u, t, kind)
    BY <2>1, <2>2, DeltaGoesOn
  <2>4. GainsBlockText(s, t, kind, text)
    BY <2>2, <2>3 DEF GainsBlockText, GainsPiece, KeepsBlocks, SameBlocks
  <2>5. KeepsOthers(s, t, kind)
    BY <2>2, <2>3 DEF KeepsOthers, KeepsBlocks, SameBlocks
  <2> QED
    BY <2>3, <2>4, <2>5
<1> QED
  BY <1>1, <1>2

-----------------------------------------------------------------------------
(* The calls.                                                              *)

BlockOf(call) ==
  [type |-> "tool_use", id |-> call.id, name |-> call.name, input |-> call.arguments]
GainsOneCall(s, t, call) ==
  /\ \A type \in Pieces : BlockTexts(Blocks(t.frames), type) = BlockTexts(Blocks(s.frames), type)
  /\ GainsCall(Blocks(s.frames), Blocks(t.frames), <<BlockOf(call)>>)
GainsDump(s, t, call) == GainsDumps(s.frames, t.frames, <<Dumped(call.arguments)>>)

\* The client reads what was dumped
LEMMA DumpedRead ==
  ASSUME NEW a
  PROVE  OpenAIArguments(Dumped(a)) = a
  BY DEF OpenAIArguments, Dumped

\* A call that is told is one block more
LEMMA CallGained ==
  ASSUME NEW s, TellsBlocks(s), NEW call, NEW t, t = ToldCall(s, call)
  PROVE  TellsBlocks(t) /\ GainsOneCall(s, t, call) /\ GainsDump(s, t, call)
<1> DEFINE c == close_block(s)
           u == OpenBlock(s, "tool_use", call)
           n == s.index + 1
           e == BlockStart("tool_use", s.index + 1, call)
           d == [event |-> "content_block_delta", index |-> u.index, kind |-> u.open,
                 delta |-> Dumped(call.arguments)]
           y == Blocks(t.frames)
<1>1. TellsBlocks(c) /\ KeepsBlocks(s, c) /\ c.index = s.index
  BY CloseSays
<1>2. StateInv(u)
  BY BlockOpened DEF Kinds, TellsBlocks
<1>3. u.frames = Append(c.frames, e) /\ u.index = n /\ u.open = "tool_use"
  BY OpenSays DEF TellsBlocks
<1>4. t = BlockDelta(u, Dumped(call.arguments))
  BY DEF ToldCall
<1>5. "tool_use" # Nothing
  BY Zenon DEF Nothing
<1> HIDE DEF u
<1>6. StateInv(t)
  BY <1>2, <1>3, <1>4, <1>5, DeltaTold
<1>7. t.frames = Append(u.frames, d) /\ t.index = n
  <2> DEFINE j == Dumped(call.arguments)
  <2>1. t = BlockDelta(u, j)
    BY <1>4
  <2> HIDE DEF j
  <2>2. /\ t.frames = Append(u.frames, [event |-> "content_block_delta", index |-> u.index,
                                       kind |-> u.open, delta |-> j])
        /\ t.index = u.index /\ t.open = u.open
    BY <1>2, <2>1, DeltaSays
  <2> QED
    BY <1>3, <2>2 DEF j
<1>8. /\ Starting(e, n) /\ e.kind = "tool_use" /\ e.id = call.id /\ e.name = call.name
      /\ Speaks(e) /\ DumpIn(e) = <<>>
  BY DEF BlockStart, Starting, Speaks, TextEvents, DumpIn, BlockCall
<1>9. /\ Going(d, n) /\ d.delta = Dumped(call.arguments)
      /\ Speaks(d) /\ DumpIn(d) = <<Dumped(call.arguments)>>
  BY <1>3 DEF Going, Speaks, TextEvents, DumpIn, BlockCall
<1> HIDE DEF c, d, e
<1>10. t.frames = Append(Append(c.frames, e), d)
  BY <1>3, <1>7
<1>11. /\ IsSequence(c.frames) /\ n \in Nat /\ HoldsBlocks(c.frames, n)
       /\ Blocks(c.frames) = BlockList(c.frames, n) /\ y = BlockList(t.frames, n + 1)
  BY <1>1, <1>6, <1>7, BlocksListed DEF TellsBlocks
<1>12. /\ HoldsBlocks(t.frames, n + 1)
       /\ \A type \in Pieces : BlockTexts(y, type) = BlockTexts(Blocks(c.frames), type)
       /\ GainsCall(Blocks(c.frames), y, <<[type |-> "tool_use", id |-> e.id, name |-> e.name,
                                            input |-> OpenAIArguments(d.delta)]>>)
  <2> DEFINE a == c.frames
  <2>1. IsSequence(a) /\ n \in Nat /\ HoldsBlocks(a, n)
    BY <1>11
  <2> HIDE DEF a, n
  <2>2. LET b == Append(Append(a, e), d)
            v == BlockList(a, n)
            w == BlockList(b, n + 1)
        IN /\ HoldsBlocks(b, n + 1)
           /\ \A type \in Pieces : BlockTexts(w, type) = BlockTexts(v, type)
           /\ GainsCall(v, w, <<[type |-> "tool_use", id |-> e.id, name |-> e.name,
                                 input |-> OpenAIArguments(d.delta)]>>)
    BY <1>8, <1>9, <2>1, CallComes
  <2> QED
    BY <1>10, <1>11, <2>2 DEF a
<1>13. GainsOneCall(s, t, call)
  <2>1. <<[type |-> "tool_use", id |-> e.id, name |-> e.name,
           input |-> OpenAIArguments(d.delta)]>> = <<BlockOf(call)>>
    BY <1>8, <1>9, DumpedRead DEF BlockOf
  <2> QED
    BY <1>1, <1>12, <2>1 DEF GainsOneCall, GainsCall, KeepsBlocks, SameBlocks
<1>14. /\ AllSpeak(u.frames) /\ IsSequence(u.frames)
       /\ IsSequence(Dumps(c.frames)) /\ Dumps(u.frames) = Dumps(c.frames) \o DumpIn(e)
  <2>1. AllSpeak(c.frames)
    BY <1>1 DEF TellsBlocks
  <2>2. IsSequence(u.frames)
    BY <1>3, <1>11, Appended
  <2>3. /\ AllSpeak(u.frames)
        /\ IsSequence(Dumps(c.frames)) /\ Dumps(u.frames) = Dumps(c.frames) \o DumpIn(e)
    BY <1>3, <1>8, <1>11, <2>1, FrameMore
  <2> QED
    BY <2>2, <2>3
<1>15. Dumps(u.frames) = Dumps(c.frames)
  BY <1>8, <1>14, Concatenation, ShortSequences
<1>16. AllSpeak(t.frames) /\ Dumps(t.frames) = Dumps(u.frames) \o DumpIn(d)
  BY <1>7, <1>9, <1>14, FrameMore
<1>17. GainsDump(s, t, call)
  BY <1>1, <1>9, <1>15, <1>16 DEF GainsDump, GainsDumps, KeepsBlocks
<1>18. TellsBlocks(t)
  BY <1>6, <1>7, <1>12, <1>16 DEF TellsBlocks
<1> QED
  BY <1>13, <1>17, <1>18

-----------------------------------------------------------------------------
\* The forms of two calls, at most, one after the other
LEMMA NoCalls ==
  ASSUME NEW calls, IsSequence(calls), Len(calls) = 0
  PROVE  calls = <<>> /\ BlocksOf(calls) = <<>> /\ DumpsOf(calls) = <<>>
<1>1. calls = <<>> /\ DOMAIN calls = {}
  <2>1. DOMAIN calls = 1..0 /\ 1..0 = {}
    BY Appended
  <2> QED
    BY <2>1 DEF IsSequence
<1> QED
  BY <1>1 DEF BlocksOf, DumpsOf

\* The forms of one call
LEMMA OneForm ==
  ASSUME NEW calls, IsSequence(calls), Len(calls) = 1
  PROVE  BlocksOf(calls) = <<BlockOf(calls[1])>> /\ DumpsOf(calls) = <<Dumped(calls[1].arguments)>>
<1>1. DOMAIN calls = 1..1
  BY Appended
<1>2. BlocksOf(calls) = [i \in 1..1 |-> BlockOf(calls[i])]
      /\ DumpsOf(calls) = [i \in 1..1 |-> Dumped(calls[i].arguments)]
  BY <1>1 DEF BlocksOf, BlockOf, DumpsOf
<1>3. \A f, x : f = [i \in 1..1 |-> f[i]] /\ f[1] = x => f = <<x>>
  OBVIOUS
<1>4. BlocksOf(calls)[1] = BlockOf(calls[1]) /\ DumpsOf(calls)[1] = Dumped(calls[1].arguments)
      /\ BlocksOf(calls) = [i \in 1..1 |-> BlocksOf(calls)[i]]
      /\ DumpsOf(calls) = [i \in 1..1 |-> DumpsOf(calls)[i]]
  BY <1>2
<1> QED
  BY <1>3, <1>4

\* The forms of two calls
LEMMA TwoForms ==
  ASSUME NEW calls, IsSequence(calls), Len(calls) = 2
  PROVE  /\ BlocksOf(calls) = <<BlockOf(calls[1])>> \o <<BlockOf(calls[2])>>
         /\ DumpsOf(calls) = <<Dumped(calls[1].arguments)>> \o <<Dumped(calls[2].arguments)>>
<1>1. DOMAIN calls = 1..2
  BY Appended
<1>2. BlocksOf(calls) = [i \in 1..2 |-> BlockOf(calls[i])]
      /\ DumpsOf(calls) = [i \in 1..2 |-> Dumped(calls[i].arguments)]
  BY <1>1 DEF BlocksOf, BlockOf, DumpsOf
<1>3. ASSUME NEW f, NEW x, NEW y, f = [i \in 1..2 |-> f[i]], f[1] = x, f[2] = y
      PROVE  f = <<x>> \o <<y>>
  <2>1. f = <<x, y>>
    BY <1>3
  <2>2. <<x>> \o <<y>> = <<x, y>>
    <3> DEFINE S == {x, y}
               p == <<x>>
               q == <<y>>
               r == p \o q
    <3>1. p \in Seq(S) /\ q \in Seq(S) /\ Len(p) = 1 /\ Len(q) = 1 /\ p[1] = x /\ q[1] = y
      OBVIOUS
    <3> HIDE DEF p, q, S
    <3>2. r \in Seq(S)
      BY <3>1, ConcatProperties
    <3>3. Len(r) = Len(p) + Len(q)
      BY <3>1, ConcatProperties
    <3>4. \A i \in 1..(Len(p) + Len(q)) :
            r[i] = IF i <= Len(p) THEN p[i] ELSE q[i - Len(p)]
      BY <3>1, ConcatProperties
    <3> HIDE DEF r
    <3>5. Len(r) = 2 /\ r[1] = x /\ r[2] = y
      BY <3>1, <3>3, <3>4
    <3>6. r = <<x, y>>
      BY <3>2, <3>5
    <3> QED
      BY <3>6 DEF p, q, r
  <2> QED
    BY <2>1, <2>2
<1>4. BlocksOf(calls)[1] = BlockOf(calls[1]) /\ DumpsOf(calls)[1] = Dumped(calls[1].arguments)
      /\ BlocksOf(calls)[2] = BlockOf(calls[2]) /\ DumpsOf(calls)[2] = Dumped(calls[2].arguments)
      /\ BlocksOf(calls) = [i \in 1..2 |-> BlocksOf(calls)[i]]
      /\ DumpsOf(calls) = [i \in 1..2 |-> DumpsOf(calls)[i]]
  BY <1>2
<1> QED
  BY <1>3, <1>4

GainsCalls(s, t, calls) ==
  /\ \A type \in Pieces : BlockTexts(Blocks(t.frames), type) = BlockTexts(Blocks(s.frames), type)
  /\ GainsCall(Blocks(s.frames), Blocks(t.frames), BlocksOf(calls))
  /\ GainsDumps(s.frames, t.frames, DumpsOf(calls))

\* No call is told
LEMMA NoCallsGained ==
  ASSUME NEW s, TellsBlocks(s), NEW calls, IsSequence(calls), Len(calls) = 0
  PROVE  GainsCalls(s, s, calls)
<1>1. BlocksOf(calls) = <<>> /\ DumpsOf(calls) = <<>>
  BY NoCalls
<1>2. IsSequence(BlockCalls(Blocks(s.frames))) /\ IsSequence(Dumps(s.frames))
  BY BlocksSpeak
<1>3. GainsCall(Blocks(s.frames), Blocks(s.frames), BlocksOf(calls))
  BY <1>1, <1>2, Concatenation DEF GainsCall
<1>4. GainsDumps(s.frames, s.frames, DumpsOf(calls))
  BY <1>1, <1>2, Concatenation DEF GainsDumps
<1> QED
  BY <1>3, <1>4 DEF GainsCalls

\* One call is told
LEMMA OneCallGained ==
  ASSUME NEW s, TellsBlocks(s), NEW calls, IsSequence(calls), Len(calls) = 1,
         NEW t, t = ToldCall(s, calls[1])
  PROVE  TellsBlocks(t) /\ GainsCalls(s, t, calls)
<1>1. TellsBlocks(t) /\ GainsOneCall(s, t, calls[1]) /\ GainsDump(s, t, calls[1])
  BY CallGained
<1>2. BlocksOf(calls) = <<BlockOf(calls[1])>> /\ DumpsOf(calls) = <<Dumped(calls[1].arguments)>>
  BY OneForm
<1> QED
  BY <1>1, <1>2 DEF GainsCalls, GainsOneCall, GainsDump

\* Two calls are told, one after the other
LEMMA TwoCallsGained ==
  ASSUME NEW s, TellsBlocks(s), NEW calls, IsSequence(calls), Len(calls) = 2,
         NEW u, u = ToldCall(s, calls[1]), NEW t, t = ToldCall(u, calls[2])
  PROVE  TellsBlocks(t) /\ GainsCalls(s, t, calls)
<1> DEFINE c == calls[1]
           d == calls[2]
           p == BlockCalls(Blocks(s.frames))
           q == Dumps(s.frames)
<1>1. TellsBlocks(u) /\ GainsOneCall(s, u, c) /\ GainsDump(s, u, c)
  BY CallGained
<1>2. TellsBlocks(t) /\ GainsOneCall(u, t, d) /\ GainsDump(u, t, d)
  BY <1>1, CallGained
<1>3. /\ BlocksOf(calls) = <<BlockOf(c)>> \o <<BlockOf(d)>>
      /\ DumpsOf(calls) = <<Dumped(c.arguments)>> \o <<Dumped(d.arguments)>>
  BY TwoForms
<1>4. /\ IsSequence(p) /\ IsSequence(q)
      /\ IsSequence(<<BlockOf(c)>>) /\ IsSequence(<<BlockOf(d)>>)
      /\ IsSequence(<<Dumped(c.arguments)>>) /\ IsSequence(<<Dumped(d.arguments)>>)
  BY BlocksSpeak, ShortSequences
<1>5. BlockCalls(Blocks(t.frames)) = (p \o <<BlockOf(c)>>) \o <<BlockOf(d)>>
  BY <1>1, <1>2 DEF GainsOneCall, GainsCall
<1>6. Dumps(t.frames) = (q \o <<Dumped(c.arguments)>>) \o <<Dumped(d.arguments)>>
  BY <1>1, <1>2 DEF GainsDump, GainsDumps
<1>7. \A type \in Pieces : BlockTexts(Blocks(t.frames), type) = BlockTexts(Blocks(s.frames), type)
  BY <1>1, <1>2 DEF GainsOneCall
<1>8. GainsCall(Blocks(s.frames), Blocks(t.frames), BlocksOf(calls))
  <2> DEFINE v == <<BlockOf(c)>>
             w == <<BlockOf(d)>>
  <2>1. IsSequence(p) /\ IsSequence(v) /\ IsSequence(w)
    BY <1>4
  <2> HIDE DEF p, v, w
  <2>2. (p \o v) \o w = p \o (v \o w)
    BY <2>1, Associative, SMTT(20)
  <2>3. BlockCalls(Blocks(t.frames)) = (p \o v) \o w
    BY <1>5 DEF v, w
  <2>4. BlockCalls(Blocks(t.frames)) = p \o (v \o w)
    BY <2>2, <2>3
  <2> QED
    BY <1>3, <2>4 DEF v, w, p, GainsCall
<1>9. GainsDumps(s.frames, t.frames, DumpsOf(calls))
  <2> DEFINE v == <<Dumped(c.arguments)>>
             w == <<Dumped(d.arguments)>>
  <2>1. IsSequence(q) /\ IsSequence(v) /\ IsSequence(w)
    BY <1>4
  <2> HIDE DEF q, v, w
  <2>2. (q \o v) \o w = q \o (v \o w)
    BY <2>1, Associative, SMTT(20)
  <2>3. Dumps(t.frames) = (q \o v) \o w
    BY <1>6 DEF v, w
  <2>4. Dumps(t.frames) = q \o (v \o w)
    BY <2>2, <2>3
  <2> QED
    BY <1>3, <2>4 DEF v, w, q, GainsDumps
<1> QED
  BY <1>2, <1>7, <1>8, <1>9 DEF GainsCalls

\* The whole of a delta
LEMMA BlocksGained ==
  ASSUME NEW s, TellsBlocks(s), NEW delta, DeltaTyped(delta), Len(delta.calls) \in 0..2,
         NEW t, t = ToldBlocks(s, delta)
  PROVE  /\ TellsBlocks(t)
         /\ GainsBlockText(s, t, "thinking", delta.reasoning) /\ GainsBlockText(s, t, "text", delta.text)
         /\ GainsCall(Blocks(s.frames), Blocks(t.frames), BlocksOf(delta.calls))
         /\ GainsDumps(s.frames, t.frames, DumpsOf(delta.calls))
<1> DEFINE a == ToldPiece(s, "thinking", delta.reasoning)
           b == ToldPiece(a, "text", delta.text)
           n == Len(delta.calls)
           Following(f) == [k \in 0..n |-> IF k = 0 THEN b ELSE ToldCall(f[k - 1], delta.calls[k])]
           told == CHOOSE f : f = Following(f)
           one == ToldCall(b, delta.calls[1])
           two == ToldCall(one, delta.calls[2])
           g == [k \in 0..n |-> IF k = 0 THEN b ELSE IF k = 1 THEN one ELSE two]
<1>1. TellsBlocks(a) /\ GainsBlockText(s, a, "thinking", delta.reasoning) /\ KeepsOthers(s, a, "thinking")
  BY PieceGained DEF DeltaTyped, Pieces
<1>2. TellsBlocks(b) /\ GainsBlockText(a, b, "text", delta.text) /\ KeepsOthers(a, b, "text")
  BY <1>1, PieceGained DEF DeltaTyped, Pieces
<1>3. t = told[n]
  BY DEF ToldBlocks
<1>4. told = Following(told)
  <2>1. g = Following(g)
    <3>1. \A k \in 0..n : k = 0 \/ (k = 1 /\ k - 1 = 0 /\ k - 1 \in 0..n)
                                \/ (k = 2 /\ k - 1 = 1 /\ k - 1 \in 0..n)
      <4>1. n \in {0, 1, 2}
        OBVIOUS
      <4> HIDE DEF n
      <4> QED
        BY <4>1
    <3> HIDE DEF a, b, n
    <3> QED
      BY <3>1
  <2> HIDE DEF g, Following
  <2> QED
    BY <2>1
<1>5. \A type \in Pieces : type = "thinking" \/ type = "text"
  BY DEF Pieces
<1>6. IsSequence(delta.calls)
  BY DEF DeltaTyped
<1> HIDE DEF a, b, told
<1>7. TellsBlocks(t) /\ GainsCalls(b, t, delta.calls)
  <2>1. CASE n = 0
    <3>1. t = b
      BY <1>3, <1>4, <2>1
    <3> QED
      BY <1>2, <1>6, <2>1, <3>1, NoCallsGained
  <2>2. CASE n = 1
    <3>1. t = one
      BY <1>3, <1>4, <2>2
    <3> QED
      BY <1>2, <1>6, <2>2, <3>1, OneCallGained
  <2>3. CASE n = 2
    <3>1. t = two
      BY <1>3, <1>4, <2>3
    <3> QED
      BY <1>2, <1>6, <2>3, <3>1, TwoCallsGained
  <2> QED
    BY <2>1, <2>2, <2>3
<1>8. GainsBlockText(s, t, "thinking", delta.reasoning)
  BY <1>1, <1>2, <1>7 DEF GainsBlockText, GainsPiece, KeepsOthers, GainsCalls, Pieces
<1>9. GainsBlockText(s, t, "text", delta.text)
  BY <1>1, <1>2, <1>7 DEF GainsBlockText, GainsPiece, KeepsOthers, GainsCalls, Pieces
<1>10. GainsCall(Blocks(s.frames), Blocks(t.frames), BlocksOf(delta.calls))
  BY <1>1, <1>2, <1>7 DEF KeepsOthers, GainsCalls, GainsCall
<1>11. GainsDumps(s.frames, t.frames, DumpsOf(delta.calls))
  BY <1>1, <1>2, <1>7 DEF KeepsOthers, GainsCalls, GainsDumps
<1> QED
  BY <1>7, <1>8, <1>9, <1>10, <1>11

-----------------------------------------------------------------------------
(* The content that a generator notes.                                     *)

PieceIn(block, kind) == IF block.kind = kind THEN block.text ELSE <<>>

\* A sequence of one element, behind another
LEMMA OneBehind ==
  ASSUME NEW c, IsSequence(c), NEW b
  PROVE  c \o <<b>> = Append(c, b)
<1>1. IsSequence(<<b>>)
  BY ShortSequences
<1>2. PICK S : c \in Seq(S) /\ <<b>> \in Seq(S) /\ c \in Seq(S)
  BY <1>1, Together
<1>3. b \in S
  BY <1>2
<1> QED
  BY <1>2, <1>3, AppendIsConcat

\* One block more adds its text to those of its kind
LEMMA JoinedMore ==
  ASSUME NEW c, ContentTyped(c), NEW b, IsSequence(b.text), NEW kind
  PROVE  /\ IsSequence(Joined(c, kind)) /\ IsSequence(PieceIn(b, kind))
         /\ Joined(Append(c, b), kind) = Joined(c, kind) \o PieceIn(b, kind)
<1> DEFINE d == Append(c, b)
           n == Len(c)
           g == [i \in DOMAIN c |-> PieceIn(c[i], kind)]
           h == [i \in DOMAIN d |-> PieceIn(d[i], kind)]
<1>1. /\ n \in Nat /\ DOMAIN c = 1..n /\ DOMAIN d = 1..(n + 1) /\ n + 1 \in 1..(n + 1)
      /\ d[n + 1] = b /\ \A i \in 1..n : d[i] = c[i] /\ i \in 1..(n + 1)
  BY Appended DEF ContentTyped
<1>2. Joined(c, kind) = FlattenSeq(g) /\ Joined(d, kind) = FlattenSeq(h)
  BY DEF Joined, PieceIn
<1>3. IsSequence(PieceIn(b, kind)) /\ \A i \in 1..n : IsSequence(PieceIn(c[i], kind))
  BY ShortSequences DEF PieceIn, ContentTyped
<1> HIDE DEF d, n
<1>4. Over(g, DOMAIN c) /\ Over(h, DOMAIN d)
  BY DEF Over
<1>5. Grows(g, h, n) /\ h[n + 1] = PieceIn(b, kind)
  BY <1>1, <1>3 DEF Grows
<1> HIDE DEF g, h
<1>6. /\ IsSequence(FlattenSeq(g))
      /\ FlattenSeq(h) = FlattenSeq(g) \o h[n + 1]
  BY <1>3, <1>4, <1>5, PointwiseMore DEF d, n, ContentTyped
<1> QED
  BY <1>2, <1>3, <1>5, <1>6 DEF d

\* A block more, if there is something to note
JoinsMore(c, d, kind, text) == Joined(d, kind) = Joined(c, kind) \o text
NotesMore(c, d, kind, text) == d = c \o Block(kind, text)

\* What is noted is joined to the content of its kind, and to no other
LEMMA BlockNoted ==
  ASSUME NEW c, ContentTyped(c), NEW kind, NEW text, IsSequence(text),
         NEW d, NotesMore(c, d, kind, text)
  PROVE  /\ ContentTyped(d) /\ JoinsMore(c, d, kind, text)
         /\ \A other : other # kind => Joined(d, other) = Joined(c, other)
<1>1. IsSequence(c)
  BY DEF ContentTyped
<1>2. ASSUME NEW k PROVE IsSequence(Joined(c, k)) /\ Joined(c, k) \o <<>> = Joined(c, k)
  <2>1. IsSequence(Joined(c, k))
    <3> DEFINE b == [kind |-> kind, text |-> text]
    <3>1. IsSequence(b.text)
      OBVIOUS
    <3> HIDE DEF b
    <3> QED
      BY <3>1, JoinedMore
  <2> DEFINE p == Joined(c, k)
  <2>2. IsSequence(p)
    BY <2>1
  <2> HIDE DEF p
  <2>3. p \o <<>> = p
    BY <2>2, Concatenation
  <2> QED
    BY <2>2, <2>3 DEF p
<1>3. CASE text = <<>>
  <2>1. d = c \o <<>>
    BY <1>3 DEF NotesMore, Block
  <2>2. d = c
    BY <1>1, <2>1, Concatenation
  <2>3. JoinsMore(c, d, kind, text)
    BY <1>2, <1>3, <2>2 DEF JoinsMore
  <2> QED
    BY <2>2, <2>3
<1>4. CASE text # <<>>
  <2> DEFINE b == [kind |-> kind, text |-> text]
  <2>1. d = c \o <<b>>
    BY <1>4 DEF NotesMore, Block
  <2>2. b.kind = kind /\ b.text = text
    OBVIOUS
  <2> HIDE DEF b
  <2>3. d = Append(c, b)
    BY <1>1, <2>1, OneBehind
  <2>4. /\ IsSequence(d) /\ Len(d) = Len(c) + 1 /\ Len(c) \in Nat /\ d[Len(c) + 1] = b
        /\ \A i \in 1..Len(c) : d[i] = c[i]
    BY <1>1, <2>3, Appended
  <2>5. \A i \in 1..Len(d) : i \in 1..Len(c) \/ d[i] = b
    BY <2>4
  <2>6. ContentTyped(d)
    BY <2>2, <2>4, <2>5 DEF ContentTyped
  <2>7. \A k : Joined(d, k) = Joined(c, k) \o PieceIn(b, k)
    BY <2>2, <2>3, JoinedMore
  <2>8. JoinsMore(c, d, kind, text)
    BY <2>2, <2>7 DEF JoinsMore, PieceIn
  <2>9. ASSUME NEW other, other # kind PROVE Joined(d, other) = Joined(c, other)
    <3>1. PieceIn(b, other) = <<>>
      BY <2>2, <2>9 DEF PieceIn
    <3>2. Joined(d, other) = Joined(c, other) \o <<>>
      BY <2>7, <3>1
    <3> QED
      BY <1>2, <3>2
  <2> QED
    BY <2>6, <2>8, <2>9
<1> QED
  BY <1>3, <1>4

\* The content of an answer that has nothing yet
LEMMA NothingNoted ==
  ContentTyped(<<>>) /\ \A kind : Joined(<<>>, kind) = <<>>
<1>1. ContentTyped(<<>>)
  BY ShortSequences DEF ContentTyped
<1>2. ASSUME NEW kind PROVE Joined(<<>>, kind) = <<>>
  <2> DEFINE c == <<>>
             g == [i \in DOMAIN c |-> IF c[i].kind = kind THEN c[i].text ELSE <<>>]
  <2>1. Family(g, 0)
    BY ShortSequences DEF Family
  <2>2. Joined(<<>>, kind) = FlattenSeq(g)
    BY DEF Joined
  <2> HIDE DEF g
  <2> QED
    BY <2>1, <2>2, FlattenedEmpty
<1> QED
  BY <1>1, <1>2

\* Noted: the reasoning, and then the text
LEMMA ContentNoted ==
  ASSUME ContentTyped(answer.content), NEW delta, DeltaTyped(delta)
  PROVE  /\ ContentTyped(NotedContent(delta))
         /\ JoinsMore(answer.content, NotedContent(delta), "text", delta.text)
         /\ JoinsMore(answer.content, NotedContent(delta), "reasoning", delta.reasoning)
<1> DEFINE c == answer.content
           d == c \o Block("reasoning", delta.reasoning)
           e == d \o Block("text", delta.text)
<1>1. NotesMore(c, d, "reasoning", delta.reasoning) /\ NotesMore(d, e, "text", delta.text)
  BY DEF NotesMore
<1>2. NotedContent(delta) = e
  BY DEF NotedContent
<1> HIDE DEF c, d, e
<1>3. ContentTyped(c)
  BY DEF c
<1>4. /\ ContentTyped(d) /\ JoinsMore(c, d, "reasoning", delta.reasoning)
      /\ Joined(d, "text") = Joined(c, "text")
  BY <1>1, <1>3, BlockNoted DEF DeltaTyped
<1>5. /\ ContentTyped(e) /\ JoinsMore(d, e, "text", delta.text)
      /\ Joined(e, "reasoning") = Joined(d, "reasoning")
  BY <1>1, <1>4, BlockNoted DEF DeltaTyped
<1>6. JoinsMore(c, e, "text", delta.text) /\ JoinsMore(c, e, "reasoning", delta.reasoning)
  BY <1>4, <1>5 DEF JoinsMore
<1> QED
  BY <1>2, <1>5, <1>6 DEF c

-----------------------------------------------------------------------------
(* A delta, told by any of the generators.                                 *)

MayHold(s, asked) == AllSpeak(s.frames) /\ (asked = "anthropic" => HoldsBlocks(s.frames, s.index + 1))

\* Every chunk that is added has these calls, or none.
ChunksOf(s, t, calls) ==
  \A i \in New(s, t) : t.frames[i].event = "chunk" => t.frames[i].calls \in {<<>>, calls}

GainsEvents(s, t, delta) ==
  /\ GainsText(s.frames, t.frames, "text.delta", delta.text)
  /\ GainsText(s.frames, t.frames, "reasoning.delta", delta.reasoning)
GainsBlocks(s, t, delta) ==
  /\ GainsBlockText(s, t, "thinking", delta.reasoning) /\ GainsBlockText(s, t, "text", delta.text)
  /\ GainsCall(Blocks(s.frames), Blocks(t.frames), BlocksOf(delta.calls))

GainsDelta(s, t, delta, asked) ==
  /\ asked \in {"ollama_chat", "openai"} =>
       GainsChunk(s.frames, t.frames, delta.text, delta.reasoning, delta.calls)
  /\ asked = "ollama_generate" =>
       GainsChunk(s.frames, t.frames, delta.text, delta.reasoning, <<>>)
  /\ asked = "completions" => GainsChunk(s.frames, t.frames, delta.text, <<>>, <<>>)
  /\ asked = "responses" => GainsEvents(s, t, delta)
  /\ asked = "anthropic" => GainsBlocks(s, t, delta)
  /\ asked = "anthropic" => GainsDumps(s.frames, t.frames, DumpsOf(delta.calls))
  /\ asked # "anthropic" => GainsDumps(s.frames, t.frames, <<>>)

\* Told, for a state
ToldFrom(state, delta) ==
  CASE facade \in {"ollama_chat", "openai"} ->
         ToldChunk(state, delta.text, delta.reasoning, delta.calls)
    [] facade = "ollama_generate" -> ToldGenerate(state, delta)
    [] facade = "completions" -> ToldChunk(state, delta.text, <<>>, <<>>)
    [] facade = "anthropic" -> ToldBlocks(state, delta)
    [] facade = "responses" ->
         ToldEvent(ToldEvent(state, "reasoning.delta", delta.reasoning),
                   "text.delta", delta.text)

\* A step that tells no call
LEMMA FewChunks ==
  ASSUME NEW s, NEW t, NEW calls, Uncalled(s, t) \/ Unchunked(s, t)
  PROVE  ChunksOf(s, t, calls)
  BY DEF Uncalled, Unchunked, TellsNoCall, IsNoChunk, ChunksOf

\* A chunk of OpenAI or of Ollama's chat tells the calls it is given
LEMMA ChunkCalls ==
  ASSUME NEW s, StateInv(s), NEW text, NEW reasoning, NEW calls,
         NEW t, t = ToldChunk(s, text, reasoning, calls)
  PROVE  ChunksOf(s, t, calls)
<1> DEFINE f == Chunk(text, reasoning, calls)
<1>1. CASE t = s
  BY <1>1, AddsNothing, FewChunks DEF StateInv
<1>2. CASE t = Say(s, f)
  <2>1. t.frames = Append(s.frames, f) /\ IsSequence(s.frames)
    BY <1>2, Said DEF StateInv, IsState
  <2>2. f.calls = calls
    BY DEF Chunk
  <2> HIDE DEF f
  <2>3. New(s, t) = {Len(s.frames) + 1} /\ t.frames[Len(s.frames) + 1] = f
    BY <2>1, Appended DEF New
  <2> QED
    BY <2>2, <2>3 DEF ChunksOf
<1> QED
  BY <1>1, <1>2 DEF ToldChunk

\* A delta is told, whole, by each of the generators
LEMMA FramesGained ==
  ASSUME facade \in Facades, NEW s, StateInv(s), MayHold(s, facade),
         NEW delta, DeltaTyped(delta), Len(delta.calls) \in 0..2,
         NEW t, StateInv(t), facade # "anthropic" => t.index = s.index,
         t = ToldFrom(s, delta)
  PROVE  MayHold(t, facade) /\ GainsDelta(s, t, delta, facade) /\ ChunksOf(s, t, delta.calls)
<1>1. IsState(s) /\ AllSpeak(s.frames) /\ IsSequence(<<>>)
  BY ShortSequences DEF StateInv, MayHold
<1>2. IsSequence(delta.text) /\ IsSequence(delta.reasoning) /\ IsSequence(delta.calls)
  BY DEF DeltaTyped
<1>3. CASE facade \in {"ollama_chat", "openai"}
  <2>1. t = ToldChunk(s, delta.text, delta.reasoning, delta.calls)
    BY <1>3 DEF ToldFrom
  <2>2. /\ AllSpeak(t.frames)
        /\ GainsChunk(s.frames, t.frames, delta.text, delta.reasoning, delta.calls)
        /\ GainsDumps(s.frames, t.frames, <<>>)
    BY <1>1, <1>2, <2>1, SomeChunkTold
  <2>3. ChunksOf(s, t, delta.calls)
    BY <2>1, ChunkCalls
  <2> QED
    BY <1>3, <2>2, <2>3 DEF MayHold, GainsDelta
<1>4. CASE facade = "ollama_generate"
  <2>1. t = ToldGenerate(s, delta)
    BY <1>4 DEF ToldFrom
  <2>2. /\ AllSpeak(t.frames)
        /\ GainsChunk(s.frames, t.frames, delta.text, delta.reasoning, <<>>)
        /\ GainsDumps(s.frames, t.frames, <<>>)
    BY <1>1, <2>1, SomeGenerateTold
  <2>3. ChunksOf(s, t, delta.calls)
    BY <2>1, GenerateTold, FewChunks
  <2> QED
    BY <1>4, <2>2, <2>3 DEF MayHold, GainsDelta
<1>5. CASE facade = "completions"
  <2>1. t = ToldChunk(s, delta.text, <<>>, <<>>)
    BY <1>5 DEF ToldFrom
  <2>2. /\ AllSpeak(t.frames)
        /\ GainsChunk(s.frames, t.frames, delta.text, <<>>, <<>>)
        /\ GainsDumps(s.frames, t.frames, <<>>)
    BY <1>1, <1>2, <2>1, SomeChunkTold
  <2>3. ChunksOf(s, t, delta.calls)
    BY <2>1, ChunkTold, FewChunks
  <2> QED
    BY <1>5, <2>2, <2>3 DEF MayHold, GainsDelta
<1>6. CASE facade = "anthropic"
  <2>1. t = ToldBlocks(s, delta)
    BY <1>6 DEF ToldFrom
  <2>2. TellsBlocks(s)
    BY <1>6 DEF TellsBlocks, MayHold
  <2>3. /\ TellsBlocks(t)
        /\ GainsBlockText(s, t, "thinking", delta.reasoning) /\ GainsBlockText(s, t, "text", delta.text)
        /\ GainsCall(Blocks(s.frames), Blocks(t.frames), BlocksOf(delta.calls))
        /\ GainsDumps(s.frames, t.frames, DumpsOf(delta.calls))
    BY <2>1, <2>2, BlocksGained
  <2>4. ChunksOf(s, t, delta.calls)
    BY <2>1, BlocksTold, FewChunks
  <2>5. GainsDelta(s, t, delta, facade)
    BY <1>6, <2>3 DEF GainsDelta, GainsBlocks
  <2> QED
    BY <1>6, <2>3, <2>4, <2>5 DEF MayHold, TellsBlocks
<1>7. CASE facade = "responses"
  <2> DEFINE a == ToldEvent(s, "reasoning.delta", delta.reasoning)
             E == {"reasoning.delta", "text.delta"}
  <2>1. t = ToldEvent(a, "text.delta", delta.text)
    BY <1>7 DEF ToldFrom
  <2>2. "reasoning.delta" \in E /\ "text.delta" \in E \ {"reasoning.delta"}
        /\ "reasoning.delta" \in E \ {"text.delta"}
    OBVIOUS
  <2>3. StateInv(a) /\ Adds(s, a) /\ Unchunked(s, a)
    BY EventTold
  <2>4. /\ AllSpeak(a.frames) /\ GainsDumps(s.frames, a.frames, <<>>)
        /\ GainsText(s.frames, a.frames, "reasoning.delta", delta.reasoning)
        /\ GainsText(s.frames, a.frames, "text.delta", <<>>)
    BY <1>1, <1>2, <2>2, SomeEventTold
  <2> HIDE DEF a, E
  <2>5. Adds(a, t) /\ Unchunked(a, t)
    BY <2>1, <2>3, EventTold
  <2>6. /\ AllSpeak(t.frames) /\ GainsDumps(a.frames, t.frames, <<>>)
        /\ GainsText(a.frames, t.frames, "text.delta", delta.text)
        /\ GainsText(a.frames, t.frames, "reasoning.delta", <<>>)
    <3>1. IsState(a)
      BY <2>3 DEF StateInv
    <3> QED
      BY <1>2, <2>1, <2>2, <2>4, <3>1, SomeEventTold DEF E
  <2>7. ChunksOf(s, t, delta.calls)
    BY <2>3, <2>5, AddsMore, FewChunks
  <2>8. /\ IsSequence(Texts(s.frames, "text.delta")) /\ IsSequence(Texts(s.frames, "reasoning.delta"))
        /\ IsSequence(Texts(a.frames, "reasoning.delta")) /\ IsSequence(Dumps(s.frames))
    BY <1>1, <2>3, <2>4, SpokenTyped DEF StateInv, IsState, TextEvents
  <2>9. GainsText(s.frames, t.frames, "text.delta", delta.text)
    <3>1. Texts(a.frames, "text.delta") = Texts(s.frames, "text.delta")
      BY <2>4, <2>8, Concatenation DEF GainsText
    <3> QED
      BY <2>6, <3>1 DEF GainsText
  <2>10. GainsText(s.frames, t.frames, "reasoning.delta", delta.reasoning)
    <3>1. Texts(t.frames, "reasoning.delta") = Texts(a.frames, "reasoning.delta")
      BY <2>6, <2>8, Concatenation DEF GainsText
    <3> QED
      BY <2>4, <3>1 DEF GainsText
  <2>11. GainsDumps(s.frames, t.frames, <<>>)
    <3>1. Dumps(a.frames) = Dumps(s.frames)
      BY <2>4, <2>8, Concatenation DEF GainsDumps
    <3> QED
      BY <2>6, <3>1 DEF GainsDumps
  <2>12. GainsDelta(s, t, delta, facade)
    BY <1>7, <2>9, <2>10, <2>11 DEF GainsDelta, GainsEvents
  <2> QED
    BY <1>7, <2>6, <2>7, <2>12 DEF MayHold
<1> QED
  BY <1>3, <1>4, <1>5, <1>6, <1>7 DEF Facades

\* The same, for the answer and what is noted first
LEMMA AnswerGains ==
  ASSUME facade \in Facades, StateInv(answer), MayHold(answer, facade),
         NEW delta, DeltaTyped(delta), Len(delta.calls) \in 0..2, NEW t, t = Told(delta)
  PROVE  MayHold(t, facade) /\ GainsDelta(answer, t, delta, facade) /\ ChunksOf(answer, t,
     delta.calls)
<1> DEFINE u == Noted(delta)
<1>1. StateInv(u) /\ u.frames = answer.frames /\ u.index = answer.index
  BY DeltaNoted DEF StateInv
<1>2. StateInv(t) /\ (facade # "anthropic" => t.index = u.index)
  BY <1>1, AnyDeltaTold
<1>3. t = ToldFrom(u, delta)
  BY DEF Told, ToldFrom
<1> HIDE DEF u
<1>4. MayHold(u, facade)
  BY <1>1 DEF MayHold
<1>5. MayHold(t, facade) /\ GainsDelta(u, t, delta, facade) /\ ChunksOf(u, t, delta.calls)
  BY <1>1, <1>2, <1>3, <1>4, FramesGained
<1>6. GainsDelta(answer, t, delta, facade)
  BY <1>1, <1>5 DEF GainsDelta, GainsEvents, GainsBlocks, GainsBlockText
<1>7. ChunksOf(answer, t, delta.calls)
  BY <1>1, <1>5 DEF ChunksOf, New
<1> QED
  BY <1>5, <1>6, <1>7

-----------------------------------------------------------------------------
(* The frames that tell nothing: those that open an answer or close it.    *)

Quiet(f) == f.event \notin TextEvents /\ ~OfBlock(f)
SameSaid(a, b) ==
  /\ \A event \in TextEvents : Texts(b, event) = Texts(a, event)
  /\ Reasonings(b) = Reasonings(a) /\ ToldCalls(b) = ToldCalls(a) /\ Dumps(b) = Dumps(a)
KeepsSaid(s, t, asked) ==
  IF asked = "anthropic" THEN KeepsBlocks(s, t) ELSE SameSaid(s.frames, t.frames)

\* A frame that tells nothing changes nothing of what was said
LEMMA QuietSaid ==
  ASSUME NEW a, IsSequence(a), AllSpeak(a), NEW f, Quiet(f)
  PROVE  AllSpeak(Append(a, f)) /\ SameSaid(a, Append(a, f))
<1> DEFINE b == Append(a, f)
<1>1. /\ Speaks(f) /\ \A event \in TextEvents : TextIn(f, event) = <<>>
      /\ ReasoningIn(f) = <<>> /\ CallsIn(f) = <<>> /\ DumpIn(f) = <<>>
  BY DEF Quiet, OfBlock, Speaks, TextEvents, TextIn, ReasoningIn, CallsIn, DumpIn, BlockCall
<1>2. /\ AllSpeak(b)
      /\ \A event \in TextEvents :
           IsSequence(Texts(a, event)) /\ Texts(b, event) = Texts(a, event) \o TextIn(f, event)
      /\ IsSequence(Reasonings(a)) /\ Reasonings(b) = Reasonings(a) \o ReasoningIn(f)
      /\ IsSequence(ToldCalls(a)) /\ ToldCalls(b) = ToldCalls(a) \o CallsIn(f)
      /\ IsSequence(Dumps(a)) /\ Dumps(b) = Dumps(a) \o DumpIn(f)
  BY <1>1, FrameMore
<1> HIDE DEF b
<1>3. Reasonings(b) = Reasonings(a)
  BY <1>1, <1>2, Concatenation
<1>4. ToldCalls(b) = ToldCalls(a)
  BY <1>1, <1>2, Concatenation
<1>5. Dumps(b) = Dumps(a)
  BY <1>1, <1>2, Concatenation
<1>6. ASSUME NEW event \in TextEvents PROVE Texts(b, event) = Texts(a, event)
  <2> DEFINE p == Texts(a, event)
  <2>1. IsSequence(p) /\ Texts(b, event) = p \o <<>>
    BY <1>1, <1>2
  <2> HIDE DEF p
  <2>2. p \o <<>> = p
    BY <2>1, Concatenation
  <2> QED
    BY <2>1, <2>2 DEF p
<1> QED
  BY <1>2, <1>3, <1>4, <1>5, <1>6 DEF SameSaid, b

\* Two such steps
LEMMA KeptTwice ==
  ASSUME NEW s, NEW t, NEW u, NEW asked, KeepsSaid(s, t, asked), KeepsSaid(t, u, asked)
  PROVE  KeepsSaid(s, u, asked)
<1>1. CASE asked = "anthropic"
  BY <1>1 DEF KeepsSaid, KeepsBlocks, SameBlocks
<1>2. CASE asked # "anthropic"
  BY <1>2 DEF KeepsSaid, SameSaid
<1> QED
  BY <1>1, <1>2

\* The same, for the state of the generator
LEMMA QuietTold ==
  ASSUME NEW asked, NEW s, StateInv(s), MayHold(s, asked),
         NEW f, Quiet(f), Indifferent(f, s.open), NEW t, t = Say(s, f)
  PROVE  /\ StateInv(t) /\ MayHold(t, asked) /\ KeepsSaid(s, t, asked)
         /\ t.index = s.index /\ t.open = s.open
<1>1. /\ IsState(t) /\ t.frames = Append(s.frames, f) /\ t.index = s.index /\ t.open = s.open
      /\ IsSequence(s.frames)
  BY Said DEF StateInv, IsState
<1>2. StateInv(t)
  BY <1>1, PlainSaid DEF StateInv
<1>3. AllSpeak(s.frames)
  BY DEF MayHold
<1>4. AllSpeak(t.frames) /\ SameSaid(s.frames, t.frames)
  BY <1>1, <1>3, QuietSaid
<1>5. CASE asked = "anthropic"
  <2>1. TellsBlocks(s)
    BY <1>5 DEF TellsBlocks, MayHold
  <2>2. ~OfBlock(f) /\ Speaks(f) /\ Appends(s, t, f)
    BY <1>1 DEF Quiet, Speaks, TextEvents, Appends
  <2>3. TellsBlocks(t) /\ KeepsBlocks(s, t)
    BY <1>1, <1>2, <2>1, <2>2, ApartTold
  <2> QED
    BY <1>1, <1>2, <1>5, <2>3 DEF TellsBlocks, MayHold, KeepsSaid
<1>6. CASE asked # "anthropic"
  BY <1>1, <1>2, <1>4, <1>6 DEF MayHold, KeepsSaid
<1> QED
  BY <1>5, <1>6

\* What a generator yields after its loop tells nothing
LEMMA ClosingIsQuiet ==
  ASSUME facade \in Facades, NEW s, StateInv(s), MayHold(s, facade), NEW t, t = Closing(s)
  PROVE  MayHold(t, facade) /\ KeepsSaid(s, t, facade)
<1>1. ASSUME NEW f, f.event \in {"done", "final"}, NEW open
      PROVE  Quiet(f) /\ Indifferent(f, open)
  BY <1>1 DEF Quiet, TextEvents, OfBlock, Indifferent
<1>2. ASSUME NEW f, f.event = "done", t = Say(s, f)
      PROVE  MayHold(t, facade) /\ KeepsSaid(s, t, facade)
  BY <1>1, <1>2, QuietTold
<1>3. ASSUME NEW f, f.event = "final", NEW g, g.event = "done", t = Say(Say(s, f), g)
      PROVE  MayHold(t, facade) /\ KeepsSaid(s, t, facade)
  <2> DEFINE u == Say(s, f)
  <2>1. StateInv(u) /\ MayHold(u, facade) /\ KeepsSaid(s, u, facade)
    BY <1>1, <1>3, QuietTold
  <2>2. t = Say(u, g)
    BY <1>3
  <2> HIDE DEF u
  <2>3. MayHold(t, facade) /\ KeepsSaid(u, t, facade)
    BY <1>1, <1>3, <2>1, <2>2, QuietTold
  <2> QED
    BY <2>1, <2>3, KeptTwice
<1>4. CASE facade \in {"ollama_chat", "ollama_generate", "responses"}
  <2>1. PICK final : t = Say(s, [event |-> "done", final |-> final])
    BY <1>4 DEF Closing
  <2> QED
    BY <1>2, <2>1
<1>5. CASE facade \in {"openai", "completions"}
  <2>1. PICK f : t = Say(Say(s, f), [event |-> "done"]) /\ f.event = "final"
    BY <1>5 DEF Closing
  <2> QED
    BY <1>3, <2>1
<1>6. CASE facade = "anthropic"
  <2> DEFINE c == close_block(s)
             f == [event |-> "message_delta", finish |-> to_anthropic(s.finish),
                   output_tokens |-> Counted(s.usage)[2]]
             u == Say(c, f)
             g == [event |-> "done"]
  <2>1. TellsBlocks(s)
    BY <1>6 DEF TellsBlocks, MayHold
  <2>2. TellsBlocks(c) /\ KeepsBlocks(s, c) /\ c.open = Nothing
    BY <2>1, CloseSays
  <2>3. StateInv(c) /\ MayHold(c, facade) /\ KeepsSaid(s, c, facade)
    BY <1>6, <2>2 DEF TellsBlocks, MayHold, KeepsSaid
  <2>4. t = Say(u, g)
    BY <1>6 DEF Closing
  <2>5. Quiet(f) /\ Indifferent(f, c.open) /\ g.event = "done"
    BY <2>2 DEF Quiet, TextEvents, OfBlock, Indifferent
  <2> HIDE DEF c, f, g
  <2>6. StateInv(u) /\ MayHold(u, facade) /\ KeepsSaid(c, u, facade)
    BY <2>3, <2>5, QuietTold
  <2> HIDE DEF u
  <2>7. MayHold(t, facade) /\ KeepsSaid(u, t, facade)
    BY <1>1, <2>4, <2>5, <2>6, QuietTold
  <2> QED
    BY <2>3, <2>6, <2>7, KeptTwice
<1> QED
  BY <1>4, <1>5, <1>6 DEF Facades

-----------------------------------------------------------------------------
(* What a generator has told, and noted, is what llama-server has said.    *)

TellsCalls(s, asked) ==
  /\ Dumps(s.frames) = IF asked = "anthropic" THEN DumpsOf(s.calls) ELSE <<>>
  /\ asked = "openai" => ToldCalls(s.frames) = s.calls
  /\ asked = "anthropic" => BlockCalls(Blocks(s.frames)) = BlocksOf(s.calls)
TellsTexts(s, chunks, asked) ==
  /\ asked \in {"ollama_chat", "ollama_generate", "openai", "completions"} =>
       Texts(s.frames, "chunk") = TextOf(chunks)
  /\ asked \in {"ollama_chat", "ollama_generate", "openai"} =>
       Reasonings(s.frames) = ReasoningOf(chunks)
  /\ asked = "responses" =>
       /\ Texts(s.frames, "text.delta") = TextOf(chunks)
       /\ Texts(s.frames, "reasoning.delta") = ReasoningOf(chunks)
  /\ asked = "anthropic" =>
       /\ BlockTexts(Blocks(s.frames), "text") = TextOf(chunks)
       /\ BlockTexts(Blocks(s.frames), "thinking") = ReasoningOf(chunks)
NotesTexts(s, chunks) ==
  /\ ContentTyped(s.content)
  /\ Joined(s.content, "text") = TextOf(chunks)
  /\ Joined(s.content, "reasoning") = ReasoningOf(chunks)
Tells(s, chunks, asked) ==
  /\ StateInv(s) /\ MayHold(s, asked)
  /\ IsSequence(s.calls) /\ Repeats(s.frames, s.calls)
  /\ TellsCalls(s, asked) /\ TellsTexts(s, chunks, asked) /\ NotesTexts(s, chunks)

\* What was said is what the delta adds.
SaysMore(chunks, more, delta) ==
  /\ TextOf(more) = TextOf(chunks) \o delta.text
  /\ ReasoningOf(more) = ReasoningOf(chunks) \o delta.reasoning

\* The calls of a delta are the only ones of an answer
LEMMA FormsOfNone == BlocksOf(<<>>) = <<>> /\ DumpsOf(<<>>) = <<>>
<1>1. IsSequence(<<>>) /\ Len(<<>>) = 0
  BY ShortSequences
<1> QED
  BY <1>1, NoCalls

\* The forms of calls are sequences
LEMMA FormsTyped ==
  ASSUME NEW calls, IsSequence(calls)
  PROVE  IsSequence(BlocksOf(calls)) /\ IsSequence(DumpsOf(calls))
<1> DEFINE n == Len(calls)
           S == {BlockOf(calls[i]) : i \in 1..n}
           T == {Dumped(calls[i].arguments) : i \in 1..n}
<1>1. n \in Nat /\ DOMAIN calls = 1..n
  BY Appended
<1>2. BlocksOf(calls) = [i \in 1..n |-> BlockOf(calls[i])]
      /\ DumpsOf(calls) = [i \in 1..n |-> Dumped(calls[i].arguments)]
  BY <1>1 DEF BlocksOf, BlockOf, DumpsOf
<1> HIDE DEF n
<1>3. BlocksOf(calls) \in Seq(S) /\ DumpsOf(calls) \in Seq(T)
  BY <1>1, <1>2, SeqDef
<1> QED
  BY <1>3, SequenceOf

\* The calls of a delta are told with it, once
LEMMA CallsGained ==
  ASSUME facade \in Facades, NEW chunks, Tells(answer, chunks, facade),
         NEW delta, DeltaTyped(delta), delta.calls = <<>> \/ answer.calls = <<>>,
         NEW t, t.calls = NotedCalls(delta), GainsDelta(answer, t, delta, facade)
  PROVE  TellsCalls(t, facade)
<1>1. /\ IsSequence(answer.calls) /\ IsSequence(delta.calls)
      /\ IsSequence(Dumps(answer.frames)) /\ IsSequence(ToldCalls(answer.frames))
  BY SpokenTyped DEF Tells, DeltaTyped, StateInv, IsState, MayHold
<1>2. facade = "anthropic" => IsSequence(BlockCalls(Blocks(answer.frames)))
  BY BlocksSpeak DEF Tells, MayHold, TellsBlocks
<1>3. CASE delta.calls = <<>>
  <2>1. t.calls = answer.calls
    BY <1>3 DEF NotedCalls
  <2>2. Dumps(t.frames) = Dumps(answer.frames)
    <3>1. GainsDumps(answer.frames, t.frames, <<>>)
      BY <1>3, FormsOfNone DEF GainsDelta
    <3> QED
      BY <1>1, <3>1, Concatenation DEF GainsDumps
  <2>3. facade = "openai" => ToldCalls(t.frames) = ToldCalls(answer.frames)
    <3>1. facade = "openai" => ToldCalls(t.frames) = ToldCalls(answer.frames) \o <<>>
      BY <1>3 DEF GainsDelta, GainsChunk
    <3> QED
      BY <1>1, <3>1, Concatenation
  <2>4. facade = "anthropic" => BlockCalls(Blocks(t.frames)) = BlockCalls(Blocks(answer.frames))
    <3>1. facade = "anthropic" => GainsCall(Blocks(answer.frames), Blocks(t.frames), <<>>)
      BY <1>3, FormsOfNone DEF GainsDelta, GainsBlocks
    <3> QED
      BY <1>2, <3>1, Concatenation DEF GainsCall
  <2> QED
    BY <2>1, <2>2, <2>3, <2>4 DEF Tells, TellsCalls
<1>4. CASE delta.calls # <<>>
  <2>1. t.calls = delta.calls /\ answer.calls = <<>>
    BY <1>4 DEF NotedCalls
  <2>2. /\ Dumps(answer.frames) = <<>>
        /\ facade = "openai" => ToldCalls(answer.frames) = <<>>
        /\ facade = "anthropic" => BlockCalls(Blocks(answer.frames)) = <<>>
    BY <2>1, FormsOfNone DEF Tells, TellsCalls
  <2>3. facade # "anthropic" => Dumps(t.frames) = <<>>
    <3>1. facade # "anthropic" => GainsDumps(answer.frames, t.frames, <<>>)
      BY DEF GainsDelta
    <3> QED
      BY <1>1, <2>2, <3>1, Concatenation DEF GainsDumps
  <2>4. facade = "openai" => ToldCalls(t.frames) = delta.calls
    <3>1. facade = "openai" => ToldCalls(t.frames) = <<>> \o delta.calls
      BY <2>2 DEF GainsDelta, GainsChunk
    <3> QED
      BY <1>1, <3>1, Concatenation
  <2>5. ASSUME facade = "anthropic" PROVE BlockCalls(Blocks(t.frames)) = BlocksOf(delta.calls)
    <3> DEFINE p == BlocksOf(delta.calls)
    <3>1. GainsCall(Blocks(answer.frames), Blocks(t.frames), p)
      BY <2>5 DEF GainsDelta, GainsBlocks
    <3>2. IsSequence(p)
      BY <1>1, FormsTyped
    <3> HIDE DEF p
    <3>3. <<>> \o p = p
      BY <3>2, Concatenation
    <3>4. BlockCalls(Blocks(t.frames)) = p
      BY <2>2, <2>5, <3>1, <3>3 DEF GainsCall
    <3> QED
      BY <3>4 DEF p
  <2>6. ASSUME facade = "anthropic" PROVE Dumps(t.frames) = DumpsOf(delta.calls)
    <3> DEFINE p == DumpsOf(delta.calls)
    <3>1. GainsDumps(answer.frames, t.frames, p)
      BY <2>6 DEF GainsDelta
    <3>2. IsSequence(p)
      BY <1>1, FormsTyped
    <3> HIDE DEF p
    <3>3. <<>> \o p = p
      BY <3>2, Concatenation
    <3>4. Dumps(t.frames) = p
      BY <2>2, <3>1, <3>3 DEF GainsDumps
    <3> QED
      BY <3>4 DEF p
  <2> QED
    BY <2>1, <2>3, <2>4, <2>5, <2>6 DEF TellsCalls
<1> QED
  BY <1>3, <1>4

\* The texts of a delta are told with it
LEMMA TextsGained ==
  ASSUME facade \in Facades, NEW chunks, Tells(answer, chunks, facade),
         NEW delta, NEW more, SaysMore(chunks, more, delta),
         NEW t, GainsDelta(answer, t, delta, facade)
  PROVE  TellsTexts(t, more, facade)
<1>1. TellsTexts(answer, chunks, facade)
  BY DEF Tells
<1>2. CASE facade \in {"ollama_chat", "openai"}
  <2>1. GainsChunk(answer.frames, t.frames, delta.text, delta.reasoning, delta.calls)
    BY <1>2 DEF GainsDelta
  <2> QED
    BY <1>1, <1>2, <2>1 DEF GainsChunk, TellsTexts, SaysMore
<1>3. CASE facade = "ollama_generate"
  <2>1. GainsChunk(answer.frames, t.frames, delta.text, delta.reasoning, <<>>)
    BY <1>3 DEF GainsDelta
  <2> QED
    BY <1>1, <1>3, <2>1 DEF GainsChunk, TellsTexts, SaysMore
<1>4. CASE facade = "completions"
  <2>1. GainsChunk(answer.frames, t.frames, delta.text, <<>>, <<>>)
    BY <1>4 DEF GainsDelta
  <2> QED
    BY <1>1, <1>4, <2>1 DEF GainsChunk, TellsTexts, SaysMore
<1>5. CASE facade = "responses"
  BY <1>1, <1>5 DEF GainsDelta, GainsEvents, GainsText, TellsTexts, SaysMore
<1>6. CASE facade = "anthropic"
  BY <1>1, <1>6 DEF GainsDelta, GainsBlocks, GainsBlockText, GainsPiece, TellsTexts, SaysMore
<1> QED
  BY <1>2, <1>3, <1>4, <1>5, <1>6 DEF Facades

\* A delta, noted and told, is what was said more
LEMMA DeltaTells ==
  ASSUME facade \in Facades, NEW chunks, Tells(answer, chunks, facade),
         NEW delta, DeltaTyped(delta), Len(delta.calls) \in 0..2,
         delta.calls = <<>> \/ answer.calls = <<>>,
         NEW more, SaysMore(chunks, more, delta), NEW t, t = Told(delta)
  PROVE  Tells(t, more, facade)
<1> DEFINE u == Noted(delta)
<1>1. StateInv(answer) /\ MayHold(answer, facade)
  BY DEF Tells
<1>2. MayHold(t, facade) /\ GainsDelta(answer, t, delta, facade) /\ ChunksOf(answer, t, delta.calls)
  BY <1>1, AnswerGains
<1>3. /\ StateInv(t) /\ u.frames = answer.frames /\ Adds(u, t)
      /\ t.calls = NotedCalls(delta) /\ t.content = NotedContent(delta)
      /\ delta.calls = <<>> => Uncalled(u, t)
  BY <1>1, AnyDeltaTold
<1> HIDE DEF u
<1>4. IsSequence(t.calls)
  BY <1>3 DEF NotedCalls, Tells, DeltaTyped
<1>5. TellsCalls(t, facade)
  BY <1>2, <1>3, CallsGained
<1>6. TellsTexts(t, more, facade)
  BY <1>2, TextsGained
<1>7. NotesTexts(t, more)
  <2>1. /\ ContentTyped(t.content)
        /\ JoinsMore(answer.content, t.content, "text", delta.text)
        /\ JoinsMore(answer.content, t.content, "reasoning", delta.reasoning)
    BY <1>3, ContentNoted DEF Tells, NotesTexts
  <2> QED
    BY <2>1 DEF JoinsMore, SaysMore, Tells, NotesTexts
<1>8. Repeats(t.frames, t.calls)
  <2>1. /\ \A i \in 1..Len(answer.frames) : t.frames[i] = answer.frames[i]
        /\ \A i \in 1..Len(t.frames) : i \in 1..Len(answer.frames) \/ i \in New(answer, t)
    BY <1>3 DEF Adds, New
  <2>2. \A i \in 1..Len(answer.frames) : answer.frames[i].event = "chunk" =>
          answer.frames[i].calls \in {<<>>, t.calls}
    BY <1>3 DEF Tells, Repeats, NotedCalls
  <2>3. \A i \in New(answer, t) : t.frames[i].event = "chunk" => t.frames[i].calls \in {<<>>, t.calls}
    BY <1>2, <1>3 DEF ChunksOf, NotedCalls
  <2> QED
    BY <2>1, <2>2, <2>3 DEF Repeats
<1> QED
  BY <1>2, <1>3, <1>4, <1>5, <1>6, <1>7, <1>8 DEF Tells

-----------------------------------------------------------------------------
(* The inductive invariant.                                                *)

\* The reasons are those of llama-server, and a fragment begins a call.
Regular(chunks) ==
  \A i \in 1..Len(chunks) :
    /\ chunks[i].finish \in RawReasons \cup {Nothing}
    /\ chunks[i].fragments # <<>> => BegunIn(chunks) # {}

NotesEnd(s, chunks, ended) ==
  /\ s.calls = IF FinishedIn(chunks) \/ ended THEN CallsOf(chunks) ELSE <<>>
  /\ s.usage = IF CountedIn(chunks) THEN <<11, 7>> ELSE <<>>
  /\ \A i \in DOMAIN chunks : chunks[i].finish # Nothing => s.finish = ChunkFinish(chunks[i])
  /\ ~FinishedIn(chunks) => s.finish = IF ended /\ CallsOf(chunks) # <<>> THEN "tool_calls" ELSE "stop"
Agrees(s, chunks, ended, asked) == Tells(s, chunks, asked) /\ NotesEnd(s, chunks, ended)

AnswerInv ==
  /\ StreamInv
  /\ AllTelling(sent) /\ InOrder(sent) /\ Regular(sent)
  /\ phase = "waiting" => sent = <<>> /\ DOMAIN slots = {}
  /\ phase = "streaming" /\ ~FinishedIn(sent) => Complete(slots, sent)
  /\ phase \in {"streaming", "broken", "gone"} => Agrees(answer, sent, FALSE, facade)
  /\ phase = "closed" =>
       \E b : Unclosed(b) /\ Agrees(b, sent, TRUE, facade) /\ answer = Closing(b)

-----------------------------------------------------------------------------
(* A chunk more.                                                           *)

\* A call that has begun stays begun
LEMMA StaysBegun ==
  ASSUME NEW s, IsSequence(s), NEW x
  PROVE  BegunIn(s) \subseteq BegunIn(Append(s, x))
BY FirstMore DEF BegunIn

\* The calls depend on their first fragments and on their arguments
LEMMA SameCalls ==
  ASSUME NEW s, InOrder(s), NEW t, BegunIn(t) = BegunIn(s),
         \A index \in 0..1 : ArgumentsOf(t, index) = ArgumentsOf(s, index),
         \A index \in BegunIn(s) : FirstIn(t, index) = FirstIn(s, index)
  PROVE  CallsOf(t) = CallsOf(s)
<1> DEFINE n == Cardinality(BegunIn(s))
<1>1. BegunIn(s) \in {{}, {0}, {0, 1}} /\ BegunIn(s) \subseteq 0..1
  BY DEF InOrder, BegunIn
<1>2. \A i \in 1..n : i - 1 \in BegunIn(s)
  <2>1. CASE BegunIn(s) = {}
    BY <2>1, SmallSets
  <2>2. CASE BegunIn(s) = {0}
    BY <2>2, SmallSets
  <2>3. CASE BegunIn(s) = {0, 1}
    BY <2>3, SmallSets
  <2> QED
    BY <1>1, <2>1, <2>2, <2>3
<1>3. \A index \in BegunIn(s) : SlotIn(t, index) = SlotIn(s, index)
  BY <1>1 DEF SlotIn
<1>4. /\ CallsOf(s) = [i \in 1..n |-> CallFrom(SlotIn(s, i - 1), i - 1)]
      /\ CallsOf(t) = [i \in 1..n |-> CallFrom(SlotIn(t, i - 1), i - 1)]
  BY CallsBySlots
<1> HIDE DEF n
<1> QED
  BY <1>2, <1>3, <1>4

\* What is true of all the chunks stays true, and what the new one changes
LEMMA SentMore ==
  ASSUME IsSequence(sent), AllTelling(sent), InOrder(sent), Regular(sent),
         NEW chunk, Telling(chunk), Sendable(chunk.fragments),
         chunk.finish \in RawReasons \cup {Nothing}, NEW t, t = Append(sent, chunk)
  PROVE  /\ IsSequence(t) /\ AllTelling(t) /\ InOrder(t) /\ Regular(t)
         /\ SaysMore(sent, t, chunk)
         /\ FinishedIn(t) <=> FinishedIn(sent) \/ chunk.finish # Nothing
         /\ CountedIn(t) <=> CountedIn(sent) \/ chunk.usage # <<>>
         /\ chunk.fragments = <<>> => CallsOf(t) = CallsOf(sent)
         /\ \A i \in DOMAIN t : (i \in DOMAIN sent /\ t[i] = sent[i]) \/ t[i] = chunk
<1> DEFINE n == Len(sent)
<1>1. /\ IsSequence(t) /\ n \in Nat /\ DOMAIN sent = 1..n /\ DOMAIN t = 1..(n + 1)
      /\ Len(t) = n + 1 /\ t[n + 1] = chunk /\ \A i \in 1..n : t[i] = sent[i]
  BY Appended
<1>2. /\ AllTelling(t) /\ TextOf(t) = TextOf(sent) \o chunk.text
      /\ ReasoningOf(t) = ReasoningOf(sent) \o chunk.reasoning
  BY ChunkMore
<1>3. InOrder(t) /\ (chunk.fragments # <<>> => BegunIn(t) # {})
  BY StaysInOrder
<1>4. BegunIn(sent) \subseteq BegunIn(t)
  BY StaysBegun
<1>5. ASSUME chunk.fragments = <<>> PROVE CallsOf(t) = CallsOf(sent)
  <2>1. /\ BegunIn(t) = BegunIn(sent)
        /\ \A index \in 0..1 : ArgumentsOf(t, index) = ArgumentsOf(sent, index)
        /\ \A index \in BegunIn(sent) : FirstIn(t, index) = FirstIn(sent, index)
    BY <1>5, NoFragmentMore
  <2> QED
    BY <2>1, SameCalls
<1> HIDE DEF n
<1>6. \A i \in 1..(n + 1) : i \in 1..n \/ i = n + 1
  BY <1>1
<1>7. \A i \in DOMAIN t : (i \in DOMAIN sent /\ t[i] = sent[i]) \/ t[i] = chunk
  BY <1>1, <1>6
<1>8. /\ \A i \in DOMAIN sent : i \in DOMAIN t /\ t[i] = sent[i]
      /\ n + 1 \in DOMAIN t
  BY <1>1
<1>9. FinishedIn(t) <=> FinishedIn(sent) \/ chunk.finish # Nothing
  BY <1>1, <1>7, <1>8 DEF FinishedIn
<1>10. CountedIn(t) <=> CountedIn(sent) \/ chunk.usage # <<>>
  BY <1>1, <1>7, <1>8 DEF CountedIn
<1>11. Regular(t)
  <2>1. ASSUME NEW i \in 1..Len(t)
        PROVE  /\ t[i].finish \in RawReasons \cup {Nothing}
               /\ t[i].fragments # <<>> => BegunIn(t) # {}
    <3>1. CASE t[i] = chunk
      BY <1>3, <3>1
    <3>2. CASE i \in 1..Len(sent) /\ t[i] = sent[i]
      BY <1>4, <3>2 DEF Regular
    <3> QED
      BY <1>1, <1>7, <3>1, <3>2
  <2> QED
    BY <2>1 DEF Regular
<1>12. SaysMore(sent, t, chunk)
  BY <1>2 DEF SaysMore
<1> QED
  BY <1>1, <1>2, <1>3, <1>5, <1>7, <1>9, <1>10, <1>11, <1>12

\* What the delta of a chunk says
DeltaOf(delta, chunk, calls) ==
  /\ delta.text = chunk.text /\ delta.reasoning = chunk.reasoning
  /\ delta.finish = ChunkFinish(chunk) /\ delta.usage = chunk.usage
  /\ delta.calls = IF chunk.finish # Nothing THEN calls ELSE <<>>

\* The delta of a chunk says what the chunk says
LEMMA DeltaFields ==
  ASSUME NEW chunk
  PROVE  DeltaOf(Delta(chunk), chunk, drain(feed(chunk.fragments)))
<1> DEFINE delta == Delta(chunk)
           fed == feed(chunk.fragments)
<1>1. delta = [text |-> chunk.text, reasoning |-> chunk.reasoning,
               calls |-> IF ChunkFinish(chunk) # Nothing THEN drain(fed) ELSE <<>>,
               finish |-> ChunkFinish(chunk), usage |-> chunk.usage]
  BY Zenon DEF Delta, Drains, Nothing
<1>2. ChunkFinish(chunk) # Nothing <=> chunk.finish # Nothing
  BY ReasonGiven, ReasonsSaySomething
<1> HIDE DEF delta, fed
<1> QED
  BY <1>1, <1>2 DEF DeltaOf, delta, fed

\* A chunk is received: the answer agrees with it
LEMMA ChunkAgrees ==
  ASSUME facade \in Facades, IsSequence(sent), AllTelling(sent), InOrder(sent), Regular(sent),
         FinishedIn(sent) \/ Complete(slots, sent), Agrees(answer, sent, FALSE, facade),
         NEW chunk, Telling(chunk), Sendable(chunk.fragments), chunk.usage \in {<<>>, <<11, 7>>},
         chunk.finish \in RawReasons \cup {Nothing}, FinishedIn(sent) => IsMute(chunk),
         NEW more, more = Append(sent, chunk), NEW t, t = Told(Delta(chunk))
  PROVE  Agrees(t, more, FALSE, facade)
<1> DEFINE fed == feed(chunk.fragments)
           delta == Delta(chunk)
<1>1. /\ IsSequence(more) /\ InOrder(more) /\ SaysMore(sent, more, chunk)
      /\ FinishedIn(more) <=> FinishedIn(sent) \/ chunk.finish # Nothing
      /\ CountedIn(more) <=> CountedIn(sent) \/ chunk.usage # <<>>
      /\ chunk.fragments = <<>> => CallsOf(more) = CallsOf(sent)
      /\ \A i \in DOMAIN more : (i \in DOMAIN sent /\ more[i] = sent[i]) \/ more[i] = chunk
  BY SentMore, ZenonT(30)
<1>2. ~FinishedIn(sent) => drain(fed) = CallsOf(more)
  <2>1. ASSUME ~FinishedIn(sent) PROVE Complete(fed, more)
    BY <2>1, FedComplete
  <2> HIDE DEF fed
  <2> QED
    BY <1>1, <2>1, DrainedWhole
<1>3. DeltaOf(delta, chunk, drain(fed))
  BY DeltaFields
<1> HIDE DEF delta, fed
<1>4. chunk.finish # Nothing => ~FinishedIn(sent) /\ ~(FinishedIn(sent) \/ FALSE)
  BY DEF IsMute
<1>5. delta.calls = IF chunk.finish # Nothing THEN CallsOf(more) ELSE <<>>
  BY <1>2, <1>3, <1>4 DEF DeltaOf
<1>6. IsSequence(CallsOf(more)) /\ Len(CallsOf(more)) \in 0..2
  BY <1>1, AsManyCalls
<1>7. IsSequence(delta.calls) /\ Len(delta.calls) \in 0..2
  BY <1>5, <1>6, ShortSequences
<1>8. DeltaTyped(delta) /\ SaysMore(sent, more, delta)
  BY <1>1, <1>3, <1>7 DEF DeltaTyped, DeltaOf, Telling, SaysMore
<1>9. answer.calls = IF FinishedIn(sent) THEN CallsOf(sent) ELSE <<>>
  BY DEF Agrees, NotesEnd
<1>10. delta.calls = <<>> \/ answer.calls = <<>>
  BY <1>4, <1>5, <1>9
<1>11. t = Told(delta)
  BY DEF delta
<1>12. Tells(t, more, facade)
  BY <1>7, <1>8, <1>10, <1>11, DeltaTells DEF Agrees
<1>13. t.finish = NotedFinish(delta) /\ t.usage = NotedUsage(delta) /\ t.calls = NotedCalls(delta)
  BY <1>7, <1>11, AnyDeltaTold DEF Agrees, Tells
<1>14. t.calls = IF FinishedIn(more) \/ FALSE THEN CallsOf(more) ELSE <<>>
  <2>1. CASE chunk.finish # Nothing
    BY <1>1, <1>4, <1>5, <1>9, <1>13, <2>1 DEF NotedCalls
  <2>2. CASE chunk.finish = Nothing
    BY <1>1, <1>5, <1>9, <1>13, <2>2 DEF NotedCalls, IsMute
  <2> QED
    BY <2>1, <2>2
<1>15. t.usage = IF CountedIn(more) THEN <<11, 7>> ELSE <<>>
  BY <1>1, <1>3, <1>13 DEF NotedUsage, DeltaOf, Agrees, NotesEnd
<1>16. delta.finish = ChunkFinish(chunk) /\ (chunk.finish # Nothing <=> ChunkFinish(chunk) # Nothing)
  BY <1>3, ReasonGiven, ReasonsSaySomething DEF DeltaOf
<1>17. ASSUME NEW i \in DOMAIN more, more[i].finish # Nothing PROVE t.finish = ChunkFinish(more[i])
  <2>1. CASE more[i] = chunk
    BY <1>13, <1>16, <1>17, <2>1 DEF NotedFinish
  <2>2. CASE i \in DOMAIN sent /\ more[i] = sent[i]
    <3>1. FinishedIn(sent)
      BY <1>17, <2>2 DEF FinishedIn
    <3>2. chunk.finish = Nothing
      BY <1>4, <3>1
    <3> QED
      BY <1>13, <1>16, <1>17, <2>2, <3>2 DEF NotedFinish, Agrees, NotesEnd
  <2> QED
    BY <1>1, <2>1, <2>2
<1>18. ~FinishedIn(more) => t.finish = IF FALSE /\ CallsOf(more) # <<>> THEN "tool_calls" ELSE "stop"
  BY <1>1, <1>13, <1>16 DEF NotedFinish, Agrees, NotesEnd
<1> QED
  BY <1>12, <1>14, <1>15, <1>17, <1>18 DEF Agrees, NotesEnd

-----------------------------------------------------------------------------
(* The invariant is inductive.                                             *)

\* Nothing is read off an empty sequence
LEMMA NothingFlattened ==
  ASSUME NEW g, Over(g, DOMAIN <<>>)
  PROVE  FlattenSeq(g) = <<>>
<1>1. DOMAIN <<>> = 1..0 /\ \A i \in 1..0 : IsSequence(g[i])
  BY ShortSequences
<1>2. Family(g, 0)
  BY <1>1 DEF Over, Family
<1> QED
  BY <1>2, FlattenedEmpty

\* No frame, no chunk, no block
LEMMA NothingYet ==
  /\ \A event : Texts(<<>>, event) = <<>>
  /\ Reasonings(<<>>) = <<>> /\ ToldCalls(<<>>) = <<>> /\ Dumps(<<>>) = <<>>
  /\ TextOf(<<>>) = <<>> /\ ReasoningOf(<<>>) = <<>>
  /\ \A index : ArgumentsOf(<<>>, index) = <<>>
  /\ BegunIn(<<>>) = {}
<1>1. DOMAIN <<>> = {}
  OBVIOUS
<1>2. ASSUME NEW event PROVE Texts(<<>>, event) = <<>>
  BY NothingFlattened DEF Texts, Over
<1>3. Reasonings(<<>>) = <<>>
  BY NothingFlattened DEF Reasonings, Over
<1>4. ToldCalls(<<>>) = <<>>
  BY NothingFlattened DEF ToldCalls, Over
<1>5. Dumps(<<>>) = <<>>
  BY NothingFlattened DEF Dumps, Over
<1>6. TextOf(<<>>) = <<>>
  BY NothingFlattened DEF TextOf, Over
<1>7. ReasoningOf(<<>>) = <<>>
  BY NothingFlattened DEF ReasoningOf, Over
<1>8. ASSUME NEW index PROVE ArgumentsOf(<<>>, index) = <<>>
  BY NothingFlattened DEF ArgumentsOf, Over
<1>9. BegunIn(<<>>) = {}
  BY <1>1 DEF BegunIn, HoldingIn
<1> QED
  BY <1>2, <1>3, <1>4, <1>5, <1>6, <1>7, <1>8, <1>9

\* No block before the first frame
LEMMA NoBlockYet ==
  ASSUME NEW s, StateInv(s), s.frames = <<>>, s.index = -1
  PROVE  /\ \A type : BlockTexts(Blocks(s.frames), type) = <<>>
         /\ BlockCalls(Blocks(s.frames)) = <<>>
         /\ HoldsBlocks(s.frames, s.index + 1)
<1> DEFINE n == s.index + 1
           x == Blocks(s.frames)
<1>1. n = 0 /\ 1..n = 1..0 /\ 0..(n - 1) = {} /\ Len(<<>>) = 0 /\ 1..0 = {}
  OBVIOUS
<1>2. x = BlockList(s.frames, n)
  BY BlocksListed
<1> HIDE DEF n
<1>3. DOMAIN x = DOMAIN <<>>
  BY <1>1, <1>2, ShortSequences DEF BlockList
<1> HIDE DEF x
<1>4. \A type : BlockTexts(x, type) = <<>>
  <2> TAKE type
  <2> DEFINE g == [i \in DOMAIN x |-> IF x[i].type = type THEN x[i].text ELSE <<>>]
  <2>1. Over(g, DOMAIN <<>>)
    BY <1>3 DEF Over
  <2>2. BlockTexts(x, type) = FlattenSeq(g)
    BY DEF BlockTexts
  <2> HIDE DEF g
  <2> QED
    BY <2>1, <2>2, NothingFlattened
<1>5. BlockCalls(x) = <<>>
  <2> DEFINE g == [i \in DOMAIN x |-> IF x[i].type = "tool_use" THEN <<x[i]>> ELSE <<>>]
  <2>1. Over(g, DOMAIN <<>>)
    BY <1>3 DEF Over
  <2>2. BlockCalls(x) = FlattenSeq(g)
    BY DEF BlockCalls
  <2> HIDE DEF g
  <2> QED
    BY <2>1, <2>2, NothingFlattened
<1>6. HoldsBlocks(s.frames, n)
  BY <1>1 DEF HoldsBlocks
<1> QED
  BY <1>4, <1>5, <1>6 DEF x, n

\* A generator that has said nothing
LEMMA NoAnswerFields ==
  /\ NoAnswer.frames = <<>> /\ NoAnswer.finish = "stop" /\ NoAnswer.usage = <<>>
  /\ NoAnswer.calls = <<>> /\ NoAnswer.content = <<>> /\ NoAnswer.index = -1
BY DEF NoAnswer

\* Before its first chunk, an answer agrees with nothing
LEMMA FirstAgrees == InOrder(<<>>) /\ AllTelling(<<>>) /\ Regular(<<>>)
BY NothingYet, ShortSequences DEF InOrder, AllTelling, Regular

\* Nothing was told of nothing
LEMMA NothingTold ==
  ASSUME NEW asked
  PROVE  Agrees(NoAnswer, <<>>, FALSE, asked)
<1> DEFINE s == NoAnswer
<1>1. /\ s.frames = <<>> /\ s.finish = "stop" /\ s.usage = <<>> /\ s.calls = <<>>
      /\ s.content = <<>> /\ s.index = -1
  BY NoAnswerFields
<1>2. StateInv(s)
  BY NothingSaid
<1> HIDE DEF s
<1>3. /\ \A type : BlockTexts(Blocks(s.frames), type) = <<>>
      /\ BlockCalls(Blocks(s.frames)) = <<>>
      /\ HoldsBlocks(s.frames, s.index + 1)
  BY <1>1, <1>2, NoBlockYet
<1>4. Len(<<>>) = 0 /\ 1..0 = {} /\ IsSequence(<<>>) /\ DOMAIN <<>> = {}
  BY ShortSequences
<1>5. MayHold(s, asked)
  BY <1>1, <1>3, <1>4 DEF MayHold, AllSpeak
<1>6. TellsCalls(s, asked)
  BY <1>1, <1>3, NothingYet, FormsOfNone DEF TellsCalls
<1>7. TellsTexts(s, <<>>, asked)
  BY <1>1, <1>3, NothingYet DEF TellsTexts
<1>8. NotesTexts(s, <<>>)
  BY <1>1, NothingYet, NothingNoted DEF NotesTexts
<1>9. Repeats(s.frames, s.calls)
  BY <1>1, <1>4 DEF Repeats
<1>10. NotesEnd(s, <<>>, FALSE)
  BY <1>1, <1>4 DEF NotesEnd, FinishedIn, CountedIn
<1>11. Tells(s, <<>>, asked)
  BY <1>1, <1>2, <1>4, <1>5, <1>6, <1>7, <1>8, <1>9 DEF Tells
<1> QED
  BY <1>10, <1>11 DEF Agrees, s

\* A frame that tells nothing changes none of it
LEMMA QuietAgrees ==
  ASSUME NEW s, NEW chunks, NEW ended, NEW asked, Agrees(s, chunks, ended, asked),
         NEW f, Quiet(f), Indifferent(f, s.open), f.event # "chunk", NEW t, t = Say(s, f)
  PROVE  Agrees(t, chunks, ended, asked)
<1>1. Tells(s, chunks, asked) /\ NotesEnd(s, chunks, ended)
  BY DEF Agrees
<1>2. StateInv(s) /\ MayHold(s, asked)
  BY <1>1 DEF Tells
<1>3. StateInv(t) /\ MayHold(t, asked) /\ KeepsSaid(s, t, asked)
  BY <1>2, QuietTold
<1>4. /\ t.frames = Append(s.frames, f) /\ t.finish = s.finish /\ t.usage = s.usage
      /\ t.calls = s.calls /\ t.content = s.content
  BY <1>2, Said DEF StateInv
<1>5. Repeats(t.frames, t.calls)
  <2> DEFINE a == s.frames
             b == Append(a, f)
  <2>1. IsSequence(a)
    BY <1>2 DEF StateInv, IsState
  <2>2. Repeats(a, s.calls)
    BY <1>1 DEF Tells
  <2> HIDE DEF a
  <2>3. /\ Len(a) \in Nat /\ Len(b) = Len(a) + 1 /\ b[Len(a) + 1] = f
        /\ \A i \in 1..Len(a) : b[i] = a[i]
    BY <2>1, Appended
  <2>4. \A i \in 1..(Len(a) + 1) : i \in 1..Len(a) \/ i = Len(a) + 1
    BY <2>3
  <2>5. t.frames = b
    BY <1>4 DEF a
  <2> HIDE DEF b
  <2> QED
    BY <1>4, <2>2, <2>3, <2>4, <2>5 DEF Repeats
<1>6. TellsCalls(t, asked) /\ TellsTexts(t, chunks, asked)
  <2>1. CASE asked = "anthropic"
    BY <1>1, <1>3, <1>4, <2>1
       DEF Tells, TellsCalls, TellsTexts, KeepsSaid, KeepsBlocks, SameBlocks, Pieces
  <2>2. CASE asked # "anthropic"
    BY <1>1, <1>3, <1>4, <2>2 DEF Tells, TellsCalls, TellsTexts, KeepsSaid, SameSaid, TextEvents
  <2> QED
    BY <2>1, <2>2
<1>7. NotesTexts(t, chunks) /\ NotesEnd(t, chunks, ended)
  BY <1>1, <1>4 DEF Tells, NotesTexts, NotesEnd
<1> QED
  BY <1>1, <1>3, <1>4, <1>5, <1>6, <1>7 DEF Tells, Agrees

\* It holds initially
LEMMA InitAnswerInv == Init => AnswerInv
<1> SUFFICES ASSUME Init PROVE AnswerInv
  OBVIOUS
<1>1. /\ phase = "waiting" /\ sent = <<>> /\ slots = NoSlots
  BY DEF Init, InitStream
<1>2. StreamInv
  BY InitStreamInv
<1> QED
  BY <1>1, <1>2, FirstAgrees, EmptySlots DEF AnswerInv

\* The texts of the chunks are sequences
LEMMA SaidTyped ==
  ASSUME NEW s, IsSequence(s), AllTelling(s)
  PROVE  IsSequence(TextOf(s)) /\ IsSequence(ReasoningOf(s))
<1> DEFINE x == [text |-> <<>>, reasoning |-> <<>>, fragments |-> <<>>]
<1>1. Telling(x)
  BY ShortSequences DEF Telling, ArgumentsSay
<1> HIDE DEF x
<1> QED
  BY <1>1, ChunkMore

\* Another exchange begins
LEMMA AnswerBegan ==
  ASSUME AnswerInv, NEW asked \in Facades, Begin(asked), StreamInv'
  PROVE  AnswerInv'
<1>1. /\ phase = "waiting" /\ facade' = asked /\ phase' = "streaming"
      /\ sent' = sent /\ slots' = slots
  BY DEF Begin
<1>2. sent = <<>> /\ DOMAIN slots = {} /\ answer = NoAnswer /\ StreamInv
  BY <1>1 DEF AnswerInv, StreamInv
<1>3. Complete(slots, sent)
  BY <1>2, NothingYet DEF Complete
<1>4. Agrees(answer, sent, FALSE, asked)
  BY <1>2, NothingTold
<1>5. Agrees(answer', sent, FALSE, asked)
  <2>1. CASE answer' = answer
    BY <1>4, <2>1
  <2>2. CASE answer' # answer
    <3>1. PICK f : answer' = Say(answer, f) /\ f.event \in {"role", "message_start", "created"}
      BY <1>2, <2>2, OpeningTold
    <3>2. Quiet(f) /\ Indifferent(f, answer.open) /\ f.event # "chunk"
      BY <3>1 DEF Quiet, TextEvents, OfBlock, Indifferent
    <3> QED
      BY <1>4, <3>1, <3>2, QuietAgrees
  <2> QED
    BY <2>1, <2>2
<1>6. Agrees(answer', sent', FALSE, facade')
  BY <1>1, <1>5
<1>7. Complete(slots', sent')
  BY <1>1, <1>3
<1>8. AllTelling(sent') /\ InOrder(sent') /\ Regular(sent')
  BY <1>1 DEF AnswerInv
<1> QED
  BY <1>1, <1>6, <1>7, <1>8 DEF AnswerInv

\* The upstream has given its reason, by the chunks
LEMMA HasFinishedIn == HasFinished <=> FinishedIn(sent)
BY Finished DEF FinishedIn

\* A chunk that llama-server may send
LEMMA AnswerReceived ==
  ASSUME AnswerInv, NEW chunk, Receive(chunk), Telling(chunk), Sendable(chunk.fragments),
         chunk.usage \in {<<>>, <<11, 7>>}, chunk.finish \in RawReasons \cup {Nothing},
         HasFinished => IsMute(chunk), StreamInv'
  PROVE  AnswerInv'
<1> DEFINE t == Told(Delta(chunk))
           more == Append(sent, chunk)
           fed == feed(chunk.fragments)
<1>1. /\ phase = "streaming" /\ phase' = "streaming" /\ facade' = facade
      /\ sent' = more /\ answer' = t
  BY DEF Receive
<1>2. slots' = IF ChunkFinish(chunk) # Nothing THEN NoSlots ELSE fed
  BY Zenon DEF Receive, Drains, Nothing
<1>3. /\ IsSequence(sent) /\ AllTelling(sent) /\ InOrder(sent) /\ Regular(sent)
      /\ FinishedIn(sent) \/ Complete(slots, sent)
      /\ Agrees(answer, sent, FALSE, facade)
      /\ facade \in Facades
  BY <1>1 DEF AnswerInv, StreamInv
<1>4. FinishedIn(sent) => IsMute(chunk)
  BY HasFinishedIn
<1>5. Agrees(t, more, FALSE, facade)
  BY <1>3, <1>4, ChunkAgrees
<1>6. /\ AllTelling(more) /\ InOrder(more) /\ Regular(more)
      /\ FinishedIn(more) <=> FinishedIn(sent) \/ chunk.finish # Nothing
  BY <1>3, SentMore
<1>7. ~FinishedIn(more) => Complete(slots', more)
  <2> SUFFICES ASSUME ~FinishedIn(more) PROVE Complete(slots', more)
    OBVIOUS
  <2>1. ~FinishedIn(sent) /\ chunk.finish = Nothing /\ Complete(slots, sent)
    BY <1>3, <1>6
  <2>2. ChunkFinish(chunk) = Nothing
    BY <2>1, ReasonGiven
  <2>3. Complete(fed, more)
    BY <1>3, <2>1, FedComplete
  <2> HIDE DEF fed, more
  <2> QED
    BY <1>2, <2>2, <2>3
<1> HIDE DEF t, more, fed
<1> QED
  BY <1>1, <1>5, <1>6, <1>7 DEF AnswerInv

\* The end of the upstream: what is pending is told first
LEMMA LastAgrees ==
  ASSUME AnswerInv, phase = "streaming"
  PROVE  LET b == IF DOMAIN slots = {} THEN answer ELSE Told(LastDelta)
         IN Unclosed(b) /\ Agrees(b, sent, TRUE, facade)
<1> DEFINE t == Told(LastDelta)
           u == Noted(LastDelta)
           delta == LastDelta
<1>1. /\ StreamInv /\ IsSequence(sent) /\ AllTelling(sent) /\ InOrder(sent) /\ Regular(sent)
      /\ FinishedIn(sent) \/ Complete(slots, sent)
      /\ FinishedIn(sent) => DOMAIN slots = {}
      /\ Agrees(answer, sent, FALSE, facade) /\ facade \in Facades /\ Unclosed(answer)
      /\ SlotsOK(slots)
  BY HasFinishedIn DEF AnswerInv, StreamInv
<1>2. Tells(answer, sent, facade) /\ NotesEnd(answer, sent, FALSE)
  BY <1>1 DEF Agrees
<1>3. CASE DOMAIN slots = {}
  <2>1. ~FinishedIn(sent) => CallsOf(sent) = <<>>
    BY <1>1, <1>3, AsManyCalls DEF Complete
  <2>2. NotesEnd(answer, sent, TRUE)
    BY <1>2, <2>1 DEF NotesEnd
  <2> QED
    BY <1>1, <1>2, <1>3, <2>2 DEF Agrees
<1>4. CASE DOMAIN slots # {}
  <2>1. ~FinishedIn(sent) /\ Complete(slots, sent) /\ BegunIn(sent) # {}
    BY <1>1, <1>4 DEF Complete
  <2>2. drain(slots) = CallsOf(sent)
    BY <1>1, <2>1, DrainedWhole
  <2>3. /\ IsSequence(CallsOf(sent)) /\ Len(CallsOf(sent)) \in 0..2 /\ CallsOf(sent) # <<>>
    BY <1>1, <2>1, AsManyCalls
  <2>4. /\ delta.text = <<>> /\ delta.reasoning = <<>> /\ delta.calls = CallsOf(sent)
        /\ delta.finish = "tool_calls" /\ delta.usage = <<>>
    BY <2>2 DEF LastDelta
  <2> HIDE DEF delta
  <2>5. DeltaTyped(delta) /\ Len(delta.calls) \in 0..2
    BY <2>3, <2>4, ShortSequences DEF DeltaTyped
  <2>6. SaysMore(sent, sent, delta)
    <3> DEFINE p == TextOf(sent)
               q == ReasoningOf(sent)
    <3>1. IsSequence(p) /\ IsSequence(q)
      BY <1>1, SaidTyped
    <3> HIDE DEF p, q
    <3>2. p \o <<>> = p /\ q \o <<>> = q
      BY <3>1, Concatenation
    <3> QED
      BY <2>4, <3>2 DEF SaysMore, p, q
  <2>7. answer.calls = <<>>
    BY <1>2, <2>1 DEF NotesEnd
  <2>8. t = Told(delta)
    BY DEF delta
  <2>9. Tells(t, sent, facade)
    BY <1>1, <1>2, <2>5, <2>6, <2>7, <2>8, DeltaTells
  <2>10. /\ u.frames = answer.frames /\ Adds(u, t) /\ Unended(u, t)
         /\ t.finish = NotedFinish(delta) /\ t.usage = NotedUsage(delta) /\ t.calls = NotedCalls(delta)
    BY <1>1, <1>2, <2>5, AnyDeltaTold DEF Tells, delta
  <2> HIDE DEF t, u
  <2>11. NotesEnd(t, sent, TRUE)
    <3>1. "tool_calls" # Nothing
      BY Zenon DEF Nothing
    <3>2. t.finish = "tool_calls" /\ t.calls = CallsOf(sent) /\ t.usage = answer.usage
      BY <2>3, <2>4, <2>10, <3>1 DEF NotedFinish, NotedUsage, NotedCalls
    <3>3. \A i \in DOMAIN sent : sent[i].finish = Nothing
      BY <2>1 DEF FinishedIn
    <3> QED
      BY <1>2, <2>1, <2>3, <3>2, <3>3 DEF NotesEnd
  <2>12. Unclosed(t)
    BY <1>1, <2>10, SameFrames, StaysUnended
  <2> QED
    BY <1>4, <2>9, <2>11, <2>12 DEF Agrees, t
<1> QED
  BY <1>3, <1>4

\* The upstream ends: what is pending is told, then the closing events
LEMMA AnswerEnded ==
  ASSUME AnswerInv, End, StreamInv'
  PROVE  AnswerInv'
<1> DEFINE b == IF DOMAIN slots = {} THEN answer ELSE Told(LastDelta)
<1>1. /\ phase = "streaming" /\ phase' = "closed" /\ facade' = facade /\ sent' = sent
      /\ answer' = Closing(b)
  BY DEF End
<1>2. Unclosed(b) /\ Agrees(b, sent, TRUE, facade)
  BY <1>1, LastAgrees
<1> HIDE DEF b
<1>3. PICK c : c = b
  OBVIOUS
<1>4. Closing(c)' = Closing(c)
  BY <1>1 DEF Closing
<1> QED
  BY <1>1, <1>2, <1>3, <1>4 DEF AnswerInv

\* The upstream fails, or the client leaves
LEMMA AnswerCut ==
  ASSUME AnswerInv, Fail \/ Disconnect, StreamInv'
  PROVE  AnswerInv'
<1>1. /\ phase = "streaming" /\ phase' \in {"broken", "gone"} /\ answer' = answer
      /\ facade' = facade /\ sent' = sent
  BY DEF Fail, Disconnect, AfterError
<1>2. /\ Agrees(answer, sent, FALSE, facade) /\ AllTelling(sent) /\ InOrder(sent) /\ Regular(sent)
  BY <1>1 DEF AnswerInv
<1> QED
  BY <1>1, <1>2 DEF AnswerInv

\* Another part of the service moves
LEMMA AnswerStays ==
  ASSUME AnswerInv, UNCHANGED streamVars, StreamInv'
  PROVE  AnswerInv'
<1>1. /\ facade' = facade /\ phase' = phase /\ sent' = sent /\ slots' = slots /\ answer' = answer
  BY DEF streamVars
<1>2. ASSUME phase = "closed"
      PROVE  \E b : Unclosed(b) /\ Agrees(b, sent, TRUE, facade) /\ answer' = Closing(b)'
  <2>1. PICK b : Unclosed(b) /\ Agrees(b, sent, TRUE, facade) /\ answer = Closing(b)
    BY <1>2 DEF AnswerInv
  <2>2. Closing(b)' = Closing(b)
    BY <1>1 DEF Closing
  <2> QED
    BY <1>1, <2>1, <2>2
<1> QED
  BY <1>1, <1>2 DEF AnswerInv

\* Every step keeps it
LEMMA NextAnswerInv == AnswerInv /\ [Next]_vars => AnswerInv'
<1> SUFFICES ASSUME AnswerInv, [Next]_vars PROVE AnswerInv'
  OBVIOUS
<1>1. StreamInv'
  BY NextStreamInv DEF AnswerInv
<1>2. InOrder(sent)
  BY DEF AnswerInv
<1>3. ASSUME UNCHANGED streamVars PROVE AnswerInv'
  BY <1>1, <1>3, AnswerStays
<1>4. ASSUME NEW asked \in Facades, Begin(asked) PROVE AnswerInv'
  BY <1>1, <1>4, AnswerBegan
<1>5. CASE Content
  <2>1. PICK chunk \in ContentChunks : Receive(chunk)
    BY <1>5 DEF Content
  <2>2. MayContent(chunk) /\ ~HasFinished
    BY <1>2, <1>5, ChunksMay DEF Content
  <2> QED
    BY <1>1, <2>1, <2>2, AnswerReceived DEF MayContent
<1>6. CASE Finish
  <2>1. PICK chunk \in FinalChunks : Receive(chunk)
    BY <1>6 DEF Finish
  <2>2. MayFinal(chunk) /\ ~HasFinished
    BY <1>2, <1>6, ChunksMay DEF Finish
  <2> QED
    BY <1>1, <2>1, <2>2, AnswerReceived DEF MayFinal
<1>7. CASE Count
  <2>1. MayCount(UsageChunk) /\ Receive(UsageChunk)
    BY <1>2, <1>7, ChunksMay DEF Count
  <2>2. Sendable(UsageChunk.fragments) /\ IsMute(UsageChunk)
    BY <2>1 DEF MayCount, Sendable, IsMute
  <2> HIDE DEF UsageChunk
  <2> QED
    BY <1>1, <2>1, <2>2, AnswerReceived DEF MayCount
<1>8. CASE End
  BY <1>1, <1>8, AnswerEnded
<1>9. CASE Fail \/ Disconnect
  BY <1>1, <1>9, AnswerCut
<1>10. ASSUME NEW turn, Speak(turn) PROVE UNCHANGED streamVars
  BY <1>10 DEF Speak
<1> QED
  BY <1>3, <1>4, <1>5, <1>6, <1>7, <1>8, <1>9, <1>10 DEF Next, Ask, Hear, vars

\* At any moment, what the generators of the facades have noted and told agrees with the
\* chunks of llama-server: chat_stream and its assembler (backend.py:363-470)
\* lose no piece of text and no fragment of a call, and repeat none.
THEOREM AnswerInvariant == Spec => []AnswerInv
<1> QED
  BY InitAnswerInv, NextAnswerInv, PTL DEF Spec

-----------------------------------------------------------------------------
(* The calls.                                                              *)

\* The lists of calls that were told, and the blocks that hold one.
TellsOnly(frames, calls) ==
  Repeats(frames, calls) /\ Dumps(frames) \in {<<>>, DumpsOf(calls)}

\* What is told of calls are the noted ones, all of them
LEMMA TellsItsCalls ==
  ASSUME NEW s, NEW chunks, NEW asked, Tells(s, chunks, asked)
  PROVE  TellsOnly(s.frames, s.calls)
BY DEF Tells, TellsCalls, TellsOnly

\* What closes an answer tells no call
LEMMA ClosingTellsOnly ==
  ASSUME facade \in Facades, NEW s, NEW chunks, Tells(s, chunks, facade), Unclosed(s),
         NEW t, t = Closing(s)
  PROVE  TellsOnly(t.frames, s.calls)
<1>1. TellsOnly(s.frames, s.calls) /\ StateInv(s) /\ MayHold(s, facade)
  BY TellsItsCalls DEF Tells
<1>2. Adds(s, t) /\ Unchunked(s, t)
  BY <1>1, AnyClosing
<1>3. KeepsSaid(s, t, facade)
  BY <1>1, ClosingIsQuiet
<1>4. Dumps(t.frames) = Dumps(s.frames)
  BY <1>3 DEF KeepsSaid, KeepsBlocks, SameSaid
<1>5. ASSUME NEW i \in 1..Len(t.frames), t.frames[i].event = "chunk"
      PROVE  i \in 1..Len(s.frames) /\ t.frames[i] = s.frames[i]
  BY <1>2, <1>5 DEF Adds, New, Unchunked, IsNoChunk
<1>6. Repeats(t.frames, s.calls)
  BY <1>1, <1>5 DEF TellsOnly, Repeats
<1> QED
  BY <1>1, <1>4, <1>6 DEF TellsOnly

\* All the calls are told, or none
LEMMA AllOrNone ==
  ASSUME AnswerInv
  PROVE  \E calls : calls \in {<<>>, CallsOf(sent)} /\ TellsOnly(answer.frames, calls)
<1>1. CASE phase = "waiting"
  <2>1. answer.frames = <<>>
    BY <1>1, NoAnswerFields DEF AnswerInv, StreamInv
  <2>2. TellsOnly(<<>>, <<>>)
    BY NothingYet, ShortSequences DEF TellsOnly, Repeats
  <2> QED
    BY <2>1, <2>2
<1>2. CASE phase \in {"streaming", "broken", "gone"}
  <2>1. Tells(answer, sent, facade) /\ answer.calls \in {<<>>, CallsOf(sent)}
    BY <1>2 DEF AnswerInv, Agrees, NotesEnd
  <2> QED
    BY <2>1, TellsItsCalls
<1>3. CASE phase = "closed"
  <2>1. PICK b : Unclosed(b) /\ Agrees(b, sent, TRUE, facade) /\ answer = Closing(b)
    BY <1>3 DEF AnswerInv
  <2>2. facade \in Facades
    BY <1>3 DEF AnswerInv, StreamInv
  <2>3. Tells(b, sent, facade) /\ b.calls = CallsOf(sent)
    BY <2>1 DEF Agrees, NotesEnd
  <2> QED
    BY <2>1, <2>2, <2>3, ClosingTellsOnly
<1> QED
  BY <1>1, <1>2, <1>3 DEF AnswerInv, StreamInv, Phases

\* The calls of the model reach the client whole and once: a frame that carries calls
\* carries all of the answer, arguments included, and no two of them do, wherever the
\* stream is cut (api/ollama.py:238, api/openai.py:389, api/anthropic.py:331,
\* api/responses.py:284).
THEOREM CallsAreToldWhole == Spec => []CallsArriveWhole
<1>1. AnswerInv /\ CallsToldAtTheEnd => CallsArriveWhole
  <2> SUFFICES ASSUME AnswerInv, CallsToldAtTheEnd PROVE CallsArriveWhole
    OBVIOUS
  <2> DEFINE blocks == FlattenSeq([i \in DOMAIN answer.frames |->
                                     IF i \in TellingBlocks THEN <<answer.frames[i].delta>> ELSE <<>>])
  <2>1. blocks = Dumps(answer.frames)
    <3>1. \A i \in DOMAIN answer.frames : i \in TellingBlocks <=> BlockCall(answer.frames[i])
      BY DEF TellingBlocks, Saying, BlockCall
    <3> QED
      BY <3>1 DEF Dumps, DumpIn
  <2>2. PICK calls \in {<<>>, CallsOf(sent)} : TellsOnly(answer.frames, calls)
    BY AllOrNone
  <2>3. ASSUME NEW i \in TellingChunks PROVE answer.frames[i].calls = Whole.calls
    <3>1. /\ i \in DOMAIN answer.frames /\ answer.frames[i].event = "chunk"
          /\ answer.frames[i].calls # <<>>
      BY DEF TellingChunks, Saying
    <3>2. DOMAIN answer.frames = 1..Len(answer.frames)
      BY FramesAreCounted DEF AnswerInv
    <3>3. answer.frames[i].calls \in {<<>>, calls}
      BY <2>2, <3>1, <3>2 DEF TellsOnly, Repeats
    <3> QED
      BY <2>2, <3>1, <3>3, WholeCalls
  <2>4. ASSUME blocks # <<>>
        PROVE  blocks = [i \in DOMAIN Whole.calls |-> Dumped(Whole.calls[i].arguments)]
    <3>1. blocks = DumpsOf(calls)
      BY <2>1, <2>2, <2>4 DEF TellsOnly
    <3>2. calls = CallsOf(sent)
      BY <2>2, <2>4, <3>1, FormsOfNone
    <3> HIDE DEF blocks
    <3>3. blocks = DumpsOf(Whole.calls)
      BY <3>1, <3>2, WholeCalls
    <3> QED
      BY <3>3 DEF DumpsOf
  <2> QED
    BY <2>3, <2>4 DEF CallsArriveWhole
<1> QED
  BY <1>1, AnswerInvariant, CallsAreToldOnce, PTL

-----------------------------------------------------------------------------
(* The answer as a whole.                                                  *)

\* The texts of an answer, in its blocks
JoinsTo(content, reasoning, text) ==
  Joined(content, "reasoning") = reasoning /\ Joined(content, "text") = text

\* The content of a whole answer, kind by kind
LEMMA BlocksJoined ==
  ASSUME NEW reasoning, IsSequence(reasoning), NEW text, IsSequence(text),
         NEW d, d = Block("reasoning", reasoning) \o Block("text", text)
  PROVE  JoinsTo(d, reasoning, text)
<1> DEFINE x == Block("reasoning", reasoning)
           y == Block("text", text)
<1>1. IsSequence(x) /\ IsSequence(y)
  BY ShortSequences DEF Block
<1>2. NotesMore(<<>>, x, "reasoning", reasoning) /\ NotesMore(x, d, "text", text)
  <2> HIDE DEF x
  <2>1. <<>> \o x = x
    BY <1>1, Concatenation
  <2> QED
    BY <2>1 DEF NotesMore, x
<1> HIDE DEF x, y
<1>3. /\ ContentTyped(<<>>) /\ Joined(<<>>, "reasoning") = <<>> /\ Joined(<<>>, "text") = <<>>
  BY NothingNoted
<1>4. /\ ContentTyped(x) /\ JoinsMore(<<>>, x, "reasoning", reasoning)
      /\ Joined(x, "text") = Joined(<<>>, "text")
  BY <1>2, <1>3, BlockNoted
<1>5. JoinsMore(x, d, "text", text) /\ Joined(d, "reasoning") = Joined(x, "reasoning")
  BY <1>2, <1>4, BlockNoted
<1>6. <<>> \o reasoning = reasoning /\ <<>> \o text = text
  BY Concatenation
<1> QED
  BY <1>3, <1>4, <1>5, <1>6 DEF JoinsMore, JoinsTo

\* The whole answer, field by field
LEMMA WholeFields ==
  /\ Whole.content = Block("reasoning", SaidReasoning) \o Block("text", SaidText)
  /\ Whole.finish = Corrected(FinishReason(SaidFinish), Whole.calls)
  /\ Whole.usage = Counted(IF HasCounted THEN <<11, 7>> ELSE <<>>)
<1> DEFINE calls == [i \in 1..(Current + 1) |-> CallOf(i - 1)]
           message == [text |-> SaidText, reasoning |-> SaidReasoning, tool_calls |-> calls,
                       finish |-> SaidFinish, usage |-> IF HasCounted THEN UsageChunk.usage ELSE <<>>]
<1>1. Whole = parse_response(message)
  BY DEF Whole
<1>2. /\ message.text = SaidText /\ message.reasoning = SaidReasoning
      /\ message.finish = SaidFinish
      /\ message.usage = IF HasCounted THEN UsageChunk.usage ELSE <<>>
  OBVIOUS
<1>3. UsageChunk.usage = <<11, 7>>
  BY ChunksTyped
<1> HIDE DEF message
<1>4. /\ Whole.content = Block("reasoning", message.reasoning) \o Block("text", message.text)
      /\ Whole.calls = _parse_tool_calls(message.tool_calls)
      /\ Whole.finish = Corrected(FinishReason(message.finish), _parse_tool_calls(message.tool_calls))
      /\ Whole.usage = Counted(message.usage)
  BY <1>1 DEF parse_response
<1> QED
  BY <1>2, <1>3, <1>4

\* The whole answer has the texts of the chunks
LEMMA WholeTexts ==
  ASSUME IsSequence(sent), AllTelling(sent)
  PROVE  JoinsTo(Whole.content, ReasoningOf(sent), TextOf(sent))
<1> DEFINE d == Whole.content
           r == ReasoningOf(sent)
           t == TextOf(sent)
<1>1. IsSequence(r) /\ IsSequence(t)
  BY SaidTyped
<1>2. d = Block("reasoning", r) \o Block("text", t)
  BY WholeFields, BegunSaid
<1> HIDE DEF d, r, t
<1>3. JoinsTo(d, r, t)
  BY <1>1, <1>2, BlocksJoined
<1> QED
  BY <1>3 DEF d, r, t

\* The upstream has counted, by the chunks
LEMMA HasCountedIn == HasCounted <=> CountedIn(sent)
BY DEF HasCounted, CountedIn

\* The reason: the same, but for the case of StopAfterCalls
LEMMA CorrectedFinish ==
  ASSUME NEW raw, NEW calls
  PROVE  /\ raw \in {"length", "tool_calls", "function_call"} =>
              Corrected(FinishReason(raw), calls) = FinishReason(raw)
         /\ raw \notin {"length", "tool_calls", "function_call"} =>
              Corrected(FinishReason(raw), calls) = IF calls # <<>> THEN "tool_calls" ELSE "stop"
BY DEF Corrected, FinishReason

\* A call has begun
LEMMA SomeCallBegun ==
  ASSUME InOrder(sent), BegunIn(sent) # {}
  PROVE  Current >= 0
<1>1. BegunIn(sent) = {0} \/ BegunIn(sent) = {0, 1}
  BY DEF InOrder
<1>2. Cardinality(Begun) \in {1, 2}
  BY <1>1, BegunSaid, SmallSets
<1> QED
  BY <1>2 DEF Current

\* The noted reason is that of the whole answer, but for a stop after calls
LEMMA FinishAgrees ==
  ASSUME IsSequence(sent), InOrder(sent), Regular(sent), NEW b, NotesEnd(b, sent, TRUE)
  PROVE  b.finish = Whole.finish \/ StopAfterCalls
<1> DEFINE calls == CallsOf(sent)
<1>1. Whole.finish = Corrected(FinishReason(SaidFinish), calls)
  BY WholeFields, WholeCalls
<1>2. calls = <<>> <=> BegunIn(sent) = {}
  BY AsManyCalls
<1> HIDE DEF calls
<1>3. CASE FinishedIn(sent)
  <2> DEFINE i == CHOOSE k \in DOMAIN sent : sent[k].finish # Nothing
             raw == sent[i].finish
  <2>1. i \in DOMAIN sent /\ raw # Nothing
    BY <1>3 DEF FinishedIn
  <2>2. SaidFinish = raw
    <3>1. SaidFinish = IF HasFinished THEN raw ELSE "stop"
      BY Zenon DEF SaidFinish, Nothing
    <3> QED
      BY <1>3, <3>1, HasFinishedIn
  <2> HIDE DEF i
  <2>3. DOMAIN sent = 1..Len(sent)
    BY Appended
  <2>4. /\ raw \in RawReasons
        /\ sent[i].fragments # <<>> => BegunIn(sent) # {}
    BY <2>1, <2>3 DEF Regular
  <2>5. b.finish = ChunkFinish(sent[i])
    BY <2>1 DEF NotesEnd
  <2>6. ChunkFinish(sent[i]) = Corrected(FinishReason(raw), sent[i].fragments)
    <3>1. ChunkFinish(sent[i]) = IF raw = Nothing THEN Nothing
                                 ELSE Corrected(FinishReason(raw), sent[i].fragments)
      BY Zenon DEF ChunkFinish, Nothing
    <3> QED
      BY <2>1, <3>1
  <2>7. CASE raw \in {"length", "tool_calls", "function_call"}
    BY <1>1, <2>2, <2>5, <2>6, <2>7, CorrectedFinish
  <2>8. CASE raw \notin {"length", "tool_calls", "function_call"}
    <3>1. raw \in {"stop", "content_filter"}
      BY <2>4, <2>8 DEF RawReasons
    <3>2. CASE sent[i].fragments = <<>> /\ calls # <<>>
      <4>1. Current >= 0
        BY <1>2, <3>2, SomeCallBegun
      <4> QED
        BY <2>1, <3>1, <3>2, <4>1 DEF StopAfterCalls
    <3>3. CASE ~(sent[i].fragments = <<>> /\ calls # <<>>)
      <4>1. sent[i].fragments # <<>> <=> calls # <<>>
        BY <1>2, <2>4, <3>3
      <4> HIDE DEF raw
      <4> QED
        BY <1>1, <2>2, <2>5, <2>6, <2>8, <4>1, CorrectedFinish
    <3> QED
      BY <3>2, <3>3
  <2> QED
    BY <2>7, <2>8
<1>4. CASE ~FinishedIn(sent)
  <2>1. SaidFinish = "stop"
    BY <1>4, HasFinishedIn DEF SaidFinish
  <2>2. b.finish = IF calls # <<>> THEN "tool_calls" ELSE "stop"
    BY <1>4 DEF NotesEnd, calls
  <2> QED
    BY <1>1, <2>1, <2>2, CorrectedFinish
<1> QED
  BY <1>3, <1>4

-----------------------------------------------------------------------------
(* The events that close an answer.                                        *)

\* One event, the last one
LEMMA LastEvent ==
  ASSUME NEW s, StateInv(s), NEW f, answer = Say(s, f)
  PROVE  Last(answer.frames) = f
<1>1. answer.frames = Append(s.frames, f) /\ IsSequence(s.frames)
  BY Said DEF StateInv, IsState
<1> DEFINE a == s.frames
<1>2. Len(Append(a, f)) = Len(a) + 1 /\ Append(a, f)[Len(a) + 1] = f
  BY <1>1, Appended
<1> QED
  BY <1>1, <1>2 DEF Last

\* Two events, the first one of its name
LEMMA TheEvent ==
  ASSUME NEW s, StateInv(s), Unclosed(s), NEW f, f.event \in {"final", "message_delta"},
         NEW g, g.event = "done", answer = Say(Say(s, f), g)
  PROVE  The(f.event) = f
<1> DEFINE u == Say(s, f)
           n == Len(s.frames)
           x == Append(s.frames, f)
           y == Append(x, g)
<1>1. /\ IsState(u) /\ u.frames = x /\ IsSequence(s.frames) /\ answer = Say(u, g)
  BY Said DEF StateInv, IsState
<1> HIDE DEF u
<1>2. answer.frames = y
  BY <1>1, Said, SMTT(20)
<1>3. /\ n \in Nat /\ IsSequence(x) /\ Len(x) = n + 1 /\ x[n + 1] = f
      /\ \A i \in 1..n : x[i] = s.frames[i]
  BY <1>1, Appended
<1> HIDE DEF x
<1>4. /\ DOMAIN y = 1..(Len(x) + 1) /\ y[Len(x) + 1] = g
      /\ \A i \in 1..Len(x) : y[i] = x[i]
  BY <1>3, Appended
<1> HIDE DEF y
<1>5. \A i \in 1..n : s.frames[i].event \notin {"final", "message_delta"}
  BY DEF Unclosed, EndsNothing, Ends
<1>6. ASSUME NEW i \in DOMAIN y
      PROVE  y[i].event = f.event <=> i = n + 1
  <2>1. CASE i \in 1..n
    <3>1. i \in 1..Len(x) /\ i # n + 1
      BY <1>3, <2>1
    <3> QED
      BY <1>3, <1>4, <1>5, <2>1, <3>1
  <2>2. CASE i = n + 1
    <3>1. i \in 1..Len(x)
      BY <1>3, <2>2
    <3> QED
      BY <1>3, <1>4, <2>2, <3>1
  <2>3. CASE i = n + 2
    <3>1. i = Len(x) + 1 /\ i # n + 1
      BY <1>3, <2>3
    <3> QED
      BY <1>4, <3>1
  <2>4. i \in 1..n \/ i = n + 1 \/ i = n + 2
    BY <1>3, <1>4
  <2> QED
    BY <2>1, <2>2, <2>3, <2>4
<1>7. n + 1 \in DOMAIN y /\ y[n + 1] = f
  BY <1>3, <1>4
<1> HIDE DEF n
<1>8. Saying(f.event) = {n + 1}
  BY <1>2, <1>6, <1>7 DEF Saying
<1>9. (CHOOSE i \in Saying(f.event) : TRUE) = n + 1
  BY <1>8
<1> QED
  BY <1>2, <1>7, <1>9 DEF The

-----------------------------------------------------------------------------
(* The payloads.                                                           *)

\* Two results that say the same
SameResult(result, other) ==
  /\ \A kind \in {"reasoning", "text"} : Joined(result.content, kind) = Joined(other.content, kind)
  /\ result.calls = other.calls /\ result.usage = other.usage

\* The result of a stream, field by field
LEMMA ResultFields ==
  ASSUME NEW s
  PROVE  /\ Result(s).content = s.content /\ Result(s).calls = s.calls
         /\ Result(s).finish = s.finish /\ Result(s).usage = Counted(s.usage)
BY DEF Result

\* The result of a stream has what the whole answer has
LEMMA ResultAgrees ==
  ASSUME IsSequence(sent), AllTelling(sent), NEW b, NEW asked, Agrees(b, sent, TRUE, asked)
  PROVE  /\ SameResult(Result(b), Whole)
         /\ Joined(Whole.content, "reasoning") = ReasoningOf(sent)
         /\ Joined(Whole.content, "text") = TextOf(sent)
         /\ b.usage = IF HasCounted THEN <<11, 7>> ELSE <<>>
<1>1. /\ b.calls = CallsOf(sent) /\ b.usage = IF CountedIn(sent) THEN <<11, 7>> ELSE <<>>
      /\ Joined(b.content, "text") = TextOf(sent) /\ Joined(b.content, "reasoning") = ReasoningOf(sent)
  BY DEF Agrees, Tells, NotesTexts, NotesEnd
<1>2. /\ Whole.calls = CallsOf(sent)
      /\ Whole.usage = Counted(IF CountedIn(sent) THEN <<11, 7>> ELSE <<>>)
  BY WholeCalls, WholeFields, HasCountedIn
<1>3. JoinsTo(Whole.content, ReasoningOf(sent), TextOf(sent))
  BY WholeTexts
<1> HIDE DEF Whole
<1> QED
  BY <1>1, <1>2, <1>3, ResultFields, HasCountedIn DEF JoinsTo, SameResult

Final(content, thinking, calls, finish, usage) ==
  [message |-> [content |-> content, thinking |-> thinking, tool_calls |-> calls],
   finish |-> finish, usage |-> usage]

\* The last chunk of Ollama, field by field
LEMMA FinalFields ==
  ASSUME NEW a, NEW c, NEW d, NEW e, NEW g
  PROVE  /\ Final(a, c, d, e, g).message =
              [content |-> a, thinking |-> c, tool_calls |-> d]
         /\ Final(a, c, d, e, g).finish = e /\ Final(a, c, d, e, g).usage = g
BY DEF Final

Emptied(f, x, y) == [f EXCEPT !.message.content = x, !.message.thinking = y]

\* The last chunk of Ollama, without its texts
LEMMA FinalEmptied ==
  ASSUME NEW a, NEW c, NEW d, NEW e, NEW g, NEW x, NEW y, NEW f, f = Final(a, c, d, e, g)
  PROVE  LET h == Emptied(f, x, y)
         IN /\ h.message.content = x /\ h.message.thinking = y /\ h.message.tool_calls = d
            /\ h.finish = e /\ h.usage = g
BY DEF Emptied, Final

\* The whole answer of Ollama's chat
LEMMA FinalSays ==
  ASSUME NEW result
  PROVE  chat_final(result) = Final(Joined(result.content, "text"), Joined(result.content,
     "reasoning"),
                                    result.calls, to_ollama(result.finish), result.usage)
BY DEF chat_final, Final

\* The last chunk of a stream of Ollama's chat
LEMMA StreamFinalSays ==
  ASSUME NEW result, NEW h, h = chat_stream_final(result)
  PROVE  /\ h.message.content = <<>> /\ h.message.thinking = <<>>
         /\ h.message.tool_calls = result.calls
         /\ h.finish = to_ollama(result.finish) /\ h.usage = result.usage
<1> DEFINE a == Joined(result.content, "text")
           c == Joined(result.content, "reasoning")
           d == result.calls
           e == to_ollama(result.finish)
           g == result.usage
           f == chat_final(result)
           empty == <<>>
<1>1. f = Final(a, c, d, e, g)
  BY FinalSays
<1>2. h = Emptied(f, empty, empty)
  BY DEF chat_stream_final, Emptied
<1> HIDE DEF a, c, d, e, g, f, empty
<1>3. /\ h.message.content = empty /\ h.message.thinking = empty /\ h.message.tool_calls = d
      /\ h.finish = e /\ h.usage = g
  BY <1>1, <1>2, FinalEmptied
<1> QED
  BY <1>3 DEF d, e, g, empty

-----------------------------------------------------------------------------
(* The stream agrees with the whole answer, facade by facade.              *)

\* What was told when the upstream had ended, before the closing events.
Before(b) ==
  /\ facade \in Facades /\ StateInv(b) /\ Unclosed(b) /\ answer = Closing(b)
  /\ TellsCalls(answer, facade) /\ TellsTexts(answer, sent, facade)
  /\ IsSequence(TextOf(sent)) /\ IsSequence(ReasoningOf(sent))
  /\ IsSequence(b.calls) /\ Len(b.calls) \in 0..2 /\ answer.calls = b.calls
  /\ SameResult(Result(b), Whole)
  /\ Joined(Whole.content, "reasoning") = ReasoningOf(sent)
  /\ Joined(Whole.content, "text") = TextOf(sent)
  /\ b.usage = IF HasCounted THEN <<11, 7>> ELSE <<>>
  /\ b.finish = Whole.finish \/ StopAfterCalls

\* A closed stream has told everything before its closing events
LEMMA ClosedAnswer ==
  ASSUME AnswerInv, phase = "closed"
  PROVE  \E b : Before(b)
<1>1. PICK b : Unclosed(b) /\ Agrees(b, sent, TRUE, facade) /\ answer = Closing(b)
  BY DEF AnswerInv
<1>2. facade \in Facades /\ IsSequence(sent) /\ AllTelling(sent) /\ InOrder(sent) /\ Regular(sent)
  BY DEF AnswerInv, StreamInv
<1>3. Tells(b, sent, facade) /\ NotesEnd(b, sent, TRUE)
  BY <1>1 DEF Agrees
<1>4. StateInv(b) /\ MayHold(b, facade) /\ IsSequence(b.calls)
  BY <1>3 DEF Tells
<1>5. KeepsSaid(b, answer, facade)
  BY <1>1, <1>2, <1>4, ClosingIsQuiet
<1>6. answer.calls = b.calls
  <2>1. Adds(b, answer)
    BY <1>1, <1>2, <1>4, AnyClosing
  <2> QED
    BY <2>1 DEF Adds
<1>7. TellsCalls(b, facade) /\ TellsTexts(b, sent, facade)
  BY <1>3 DEF Tells
<1>8. TellsCalls(answer, facade) /\ TellsTexts(answer, sent, facade)
  <2>1. CASE facade = "anthropic"
    BY <1>5, <1>6, <1>7, <2>1 DEF TellsCalls, TellsTexts, KeepsSaid, KeepsBlocks, SameBlocks, Pieces
  <2>2. CASE facade # "anthropic"
    BY <1>5, <1>6, <1>7, <2>2 DEF TellsCalls, TellsTexts, KeepsSaid, SameSaid, TextEvents
  <2> QED
    BY <2>1, <2>2
<1>9. Len(b.calls) \in 0..2
  <2>1. b.calls = CallsOf(sent)
    BY <1>3 DEF NotesEnd
  <2> QED
    BY <1>2, <2>1, AsManyCalls
<1>10. /\ SameResult(Result(b), Whole)
       /\ Joined(Whole.content, "reasoning") = ReasoningOf(sent)
       /\ Joined(Whole.content, "text") = TextOf(sent)
       /\ b.usage = IF HasCounted THEN <<11, 7>> ELSE <<>>
  BY <1>1, <1>2, ResultAgrees
<1>11. b.finish = Whole.finish \/ StopAfterCalls
  BY <1>2, <1>3, FinishAgrees
<1>12. IsSequence(TextOf(sent)) /\ IsSequence(ReasoningOf(sent))
  BY <1>2, SaidTyped
<1> QED
  BY <1>1, <1>2, <1>4, <1>6, <1>8, <1>9, <1>10, <1>11, <1>12 DEF Before

\* The end of an answer agrees with the end of the whole
EndAgrees ==
  /\ CountsAgree
  /\ HeardFinish = PaidFinish \/ StopAfterCalls

\* A body that is not streamed tells the counts of the whole answer
LEMMA PaidCounts == facade \in Facades => PaidUsage = Whole.usage
<1>1. CASE facade \in {"ollama_chat", "ollama_generate"}
  <2> HIDE DEF Whole
  <2>1. chat_final(Whole).usage = Whole.usage
    BY DEF chat_final
  <2> QED
    BY <1>1, <2>1 DEF PaidUsage, generate_final
<1>2. CASE facade \in {"openai", "completions", "anthropic", "responses"}
  <2> HIDE DEF Whole
  <2> QED
    BY <1>2 DEF PaidUsage, chat_completion_payload, completion_payload, message_payload,
                response_payload
<1> QED
  BY <1>1, <1>2 DEF Facades

\* Ollama's chat and generate
LEMMA OllamaAgrees ==
  ASSUME NEW b, Before(b), facade \in {"ollama_chat", "ollama_generate"}
  PROVE  Heard = Paid /\ EndAgrees
<1> DEFINE result == Result(b)
           h == chat_stream_final(result)
           f == [event |-> "done", final |-> h]
           p == TextOf(sent)
           q == ReasoningOf(sent)
<1>1. answer = Say(b, f)
  BY DEF Before, Closing, generate_final
<1>2. f.final = h
  OBVIOUS
<1>3. /\ result.calls = Whole.calls /\ result.usage = Whole.usage /\ result.finish = b.finish
  BY ResultFields DEF Before, SameResult
<1> HIDE DEF result, h
<1>4. /\ h.message.content = <<>> /\ h.message.thinking = <<>>
      /\ h.message.tool_calls = result.calls
      /\ h.finish = to_ollama(result.finish) /\ h.usage = result.usage
  BY StreamFinalSays DEF h
<1> HIDE DEF f
<1>5. Last(answer.frames).final = h
  BY <1>1, <1>2, LastEvent DEF Before
<1>6. Texts(answer.frames, "chunk") = p /\ Reasonings(answer.frames) = q
  BY DEF Before, TellsTexts
<1>7. p \o <<>> = p /\ q \o <<>> = q
  <2>1. IsSequence(p) /\ IsSequence(q)
    BY DEF Before
  <2> HIDE DEF p, q
  <2> QED
    BY <2>1, Concatenation
<1>8. Heard = [content |-> p, thinking |-> q, tool_calls |-> Whole.calls]
  <2>1. Heard = [content |-> Texts(answer.frames, "chunk") \o Last(answer.frames).final.message.content,
                 thinking |-> Reasonings(answer.frames) \o Last(answer.frames).final.message.thinking,
                 tool_calls |-> Last(answer.frames).final.message.tool_calls]
    BY DEF Heard
  <2> HIDE DEF p, q
  <2> QED
    BY <1>3, <1>4, <1>5, <1>6, <1>7, <2>1
<1>9. Paid = [content |-> p, thinking |-> q, tool_calls |-> Whole.calls]
  <2>1. Paid = chat_final(Whole).message
    BY DEF Paid, generate_final
  <2>2. chat_final(Whole).message =
          [content |-> Joined(Whole.content, "text"), thinking |-> Joined(Whole.content, "reasoning"),
           tool_calls |-> Whole.calls]
    BY FinalSays, FinalFields
  <2> QED
    BY <2>1, <2>2 DEF Before
<1>10. CountsAgree
  <2>1. HeardUsage = Whole.usage
    BY <1>3, <1>4, <1>5 DEF HeardUsage
  <2>2. PaidUsage = Whole.usage
    BY PaidCounts DEF Facades
  <2> QED
    BY <2>1, <2>2 DEF CountsAgree
<1>11. HeardFinish = to_ollama(b.finish) /\ PaidFinish = to_ollama(Whole.finish)
  BY <1>3, <1>4, <1>5 DEF HeardFinish, PaidFinish
<1>12. b.finish = Whole.finish \/ StopAfterCalls
  BY DEF Before
<1> QED
  BY <1>8, <1>9, <1>10, <1>11, <1>12 DEF EndAgrees

\* OpenAI's chat and completions
LEMMA OpenAIAgrees ==
  ASSUME NEW b, Before(b), facade \in {"openai", "completions"}
  PROVE  Heard = Paid /\ EndAgrees
<1> DEFINE g == [event |-> "done"]
<1>1. Texts(answer.frames, "chunk") = TextOf(sent)
  BY DEF Before, TellsTexts
<1>2. b.calls = Whole.calls /\ Counted(b.usage) = Whole.usage
  BY ResultFields DEF Before, SameResult
<1>3. (b.finish = Whole.finish \/ StopAfterCalls) /\ StateInv(b) /\ Unclosed(b)
  BY DEF Before
<1>4. CASE facade = "openai"
  <2> DEFINE f == [event |-> "final", finish |-> to_openai(b.finish), usage |-> b.usage]
  <2>1. answer = Say(Say(b, f), g) /\ g.event = "done"
    BY <1>4 DEF Before, Closing
  <2>2. f.event = "final" /\ f.finish = to_openai(b.finish) /\ f.usage = b.usage
    OBVIOUS
  <2> HIDE DEF f, g
  <2>3. The("final") = f
    BY <1>3, <2>1, <2>2, TheEvent
  <2>4. Reasonings(answer.frames) = ReasoningOf(sent) /\ ToldCalls(answer.frames) = Whole.calls
    BY <1>2, <1>4 DEF Before, TellsTexts, TellsCalls
  <2>5. Heard = [content |-> TextOf(sent), reasoning_content |-> ReasoningOf(sent),
                 tool_calls |-> [i \in DOMAIN Whole.calls |-> OpenAICall(Whole.calls[i])]]
    BY <1>1, <1>4, <2>4 DEF Heard
  <2>6. Paid = [content |-> TextOf(sent), reasoning_content |-> ReasoningOf(sent),
                tool_calls |-> [i \in DOMAIN Whole.calls |-> OpenAICall(Whole.calls[i])]]
    <3>1. Paid = chat_completion_payload(Whole).message
      BY <1>4 DEF Paid
    <3>2. chat_completion_payload(Whole).message =
            [content |-> Joined(Whole.content, "text"),
             reasoning_content |-> Joined(Whole.content, "reasoning"),
             tool_calls |-> [i \in DOMAIN Whole.calls |-> OpenAICall(Whole.calls[i])]]
      BY DEF chat_completion_payload
    <3> QED
      BY <3>1, <3>2 DEF Before
  <2>7. CountsAgree
    <3>1. HeardUsage = b.usage
      BY <1>4, <2>2, <2>3 DEF HeardUsage
    <3>2. PaidUsage = Counted(b.usage)
      BY <1>2, PaidCounts DEF Before
    <3>3. b.usage = IF HasCounted THEN PaidUsage ELSE <<>>
      BY <3>2 DEF Before, Counted
    <3> QED
      BY <1>4, <3>1, <3>3 DEF CountsAgree
  <2>8. HeardFinish = to_openai(b.finish) /\ PaidFinish = to_openai(Whole.finish)
    BY <1>4, <2>2, <2>3 DEF HeardFinish, PaidFinish
  <2> QED
    BY <1>3, <2>5, <2>6, <2>7, <2>8 DEF EndAgrees
<1>5. CASE facade = "completions"
  <2> DEFINE f == [event |-> "final", finish |-> to_openai(b.finish)]
  <2>1. answer = Say(Say(b, f), g) /\ g.event = "done"
    BY <1>5 DEF Before, Closing
  <2>2. f.event = "final" /\ f.finish = to_openai(b.finish)
    OBVIOUS
  <2> HIDE DEF f, g
  <2>3. The("final") = f
    BY <1>3, <2>1, <2>2, TheEvent
  <2>4. Heard = Paid
    BY <1>1, <1>5 DEF Heard, Paid, completion_payload, Before
  <2>5. CountsAgree
    BY <1>5 DEF CountsAgree
  <2>6. HeardFinish = to_openai(b.finish) /\ PaidFinish = to_openai(Whole.finish)
    BY <1>5, <2>2, <2>3 DEF HeardFinish, PaidFinish
  <2> QED
    BY <1>3, <2>4, <2>5, <2>6 DEF EndAgrees
<1> QED
  BY <1>4, <1>5

\* Responses
LEMMA ResponsesAgree ==
  ASSUME NEW b, Before(b), facade = "responses"
  PROVE  /\ Heard = Paid /\ EndAgrees
         /\ Texts(answer.frames, "text.delta") = Joined(Whole.content, "text")
         /\ Texts(answer.frames, "reasoning.delta") = Joined(Whole.content, "reasoning")
<1> DEFINE result == Result(b)
           h == response_payload(result)
           f == [event |-> "done", final |-> h]
<1>1. answer = Say(b, f)
  BY DEF Before, Closing
<1>2. f.final = h
  OBVIOUS
<1> HIDE DEF f, h
<1>3. Last(answer.frames).final = h
  BY <1>1, <1>2, LastEvent DEF Before
<1>4. /\ result.calls = Whole.calls /\ result.usage = Whole.usage
      /\ Joined(result.content, "reasoning") = Joined(Whole.content, "reasoning")
      /\ Joined(result.content, "text") = Joined(Whole.content, "text")
  BY DEF Before, SameResult
<1> HIDE DEF result
<1>5. /\ h.output = response_payload(Whole).output
      /\ h.usage = Whole.usage /\ h.finish = "completed"
  <2> HIDE DEF Whole
  <2> QED
    BY <1>4 DEF response_payload, h
<1>6. Heard = Paid
  BY <1>3, <1>5 DEF Heard, Paid
<1>7. EndAgrees
  <2>1. HeardUsage = PaidUsage
    BY <1>3, <1>5, PaidCounts DEF HeardUsage, Facades
  <2> QED
    BY <1>3, <1>5, <2>1 DEF EndAgrees, CountsAgree, HeardFinish, PaidFinish
<1> QED
  BY <1>6, <1>7 DEF Before, TellsTexts

-----------------------------------------------------------------------------
(* The blocks of Anthropic.                                                *)

\* A sequence of blocks, as a list of them
BlockSequence(x) == IsSequence(x) /\ \A i \in 1..Len(x) : BlockTyped(x[i])

\* A sequence of blocks is a list of them
LEMMA ListOfSequence ==
  ASSUME NEW x, BlockSequence(x)
  PROVE  Len(x) \in Nat /\ DOMAIN x = 1..Len(x) /\ IsBlockList(x, Len(x))
<1>1. Len(x) \in Nat /\ DOMAIN x = 1..Len(x)
  BY Appended DEF BlockSequence
<1>2. x = [k \in 1..Len(x) |-> x[k]]
  <2>1. x \in Seq({x[i] : i \in DOMAIN x})
    BY DEF BlockSequence, IsSequence
  <2> QED
    BY <2>1
<1> QED
  BY <1>1, <1>2 DEF BlockSequence, IsBlockList

\* What two lists say together
Couples(z, x, y) == z = x \o y
SaysBoth(z, x, y) ==
  /\ \A type \in Pieces : BlockTexts(z, type) = BlockTexts(x, type) \o BlockTexts(y, type)
  /\ BlockCalls(z) = BlockCalls(x) \o BlockCalls(y)

\* Two sequences of blocks, one after the other, say what each of them says
LEMMA BlocksTogether ==
  ASSUME NEW x, BlockSequence(x), NEW y, BlockSequence(y), NEW z, Couples(z, x, y)
  PROVE  BlockSequence(z) /\ SaysBoth(z, x, y)
<1> DEFINE n == Len(x)
           m == Len(y)
<1>1. /\ n \in Nat /\ DOMAIN x = 1..n /\ IsBlockList(x, n)
      /\ m \in Nat /\ DOMAIN y = 1..m /\ IsBlockList(y, m)
  BY ListOfSequence
<1>2. IsSequence(z) /\ Len(z) = n + m
  BY Concatenation DEF BlockSequence, Couples
<1>3. \A i \in 1..n : z[i] = x[i]
  <2>1. PICK S : x \in Seq(S) /\ y \in Seq(S)
    BY Together DEF BlockSequence
  <2> QED
    BY <2>1 DEF Couples
<1>4. \A i \in 1..m : z[n + i] = y[i]
  <2>1. PICK S : x \in Seq(S) /\ y \in Seq(S)
    BY Together DEF BlockSequence
  <2> QED
    BY <2>1 DEF Couples
<1>5. DOMAIN z = 1..(n + m)
  BY <1>2, Appended
<1> HIDE DEF n, m
<1>6. ASSUME NEW i \in 1..(n + m)
      PROVE  (i \in 1..n /\ z[i] = x[i]) \/ \E j \in 1..m : i = n + j /\ z[i] = y[j]
  <2>1. CASE i \in 1..n
    BY <1>3, <2>1
  <2>2. CASE i \notin 1..n
    <3>1. i - n \in 1..m /\ i = n + (i - n)
      BY <1>1, <2>2
    <3> QED
      BY <1>4, <3>1
  <2> QED
    BY <2>1, <2>2
<1>7. BlockSequence(z)
  <2>1. \A i \in 1..n : BlockTyped(x[i])
    BY DEF BlockSequence, n
  <2>2. \A i \in 1..m : BlockTyped(y[i])
    BY DEF BlockSequence, m
  <2> QED
    BY <1>2, <1>6, <2>1, <2>2 DEF BlockSequence
<1>8. IsBlockList(z, n + m)
  BY <1>2, <1>7, ListOfSequence
<1>9. ASSUME NEW type \in Pieces
      PROVE  BlockTexts(z, type) = BlockTexts(x, type) \o BlockTexts(y, type)
  <2> DEFINE g == [i \in DOMAIN x |-> IF x[i].type = type THEN x[i].text ELSE <<>>]
             h == [i \in DOMAIN y |-> IF y[i].type = type THEN y[i].text ELSE <<>>]
             e == [i \in DOMAIN z |-> IF z[i].type = type THEN z[i].text ELSE <<>>]
  <2>1. Family(g, n)
    BY <1>1, ShortSequences DEF IsBlockList, BlockTyped, Family
  <2>2. Family(h, m)
    BY <1>1, ShortSequences DEF IsBlockList, BlockTyped, Family
  <2>3. Family(e, n + m)
    BY <1>5, <1>8, ShortSequences DEF IsBlockList, BlockTyped, Family
  <2>4. Extends(e, g, n)
    BY <1>1, <1>3, <1>5 DEF Extends
  <2>5. Follows(e, h, n, m)
    <3>1. \A i \in 1..m : n + i \in 1..(n + m)
      BY <1>1
    <3> QED
      BY <1>1, <1>4, <1>5, <3>1 DEF Follows
  <2>6. /\ BlockTexts(x, type) = FlattenSeq(g) /\ BlockTexts(y, type) = FlattenSeq(h)
        /\ BlockTexts(z, type) = FlattenSeq(e)
    BY DEF BlockTexts
  <2> HIDE DEF g, h, e
  <2>7. FlattenSeq(e) = FlattenSeq(g) \o FlattenSeq(h)
    BY <1>1, <2>1, <2>2, <2>3, <2>4, <2>5, FlattenedConcatenation
  <2> QED
    BY <2>6, <2>7
<1>10. BlockCalls(z) = BlockCalls(x) \o BlockCalls(y)
  <2> DEFINE g == [i \in DOMAIN x |-> IF x[i].type = "tool_use" THEN <<x[i]>> ELSE <<>>]
             h == [i \in DOMAIN y |-> IF y[i].type = "tool_use" THEN <<y[i]>> ELSE <<>>]
             e == [i \in DOMAIN z |-> IF z[i].type = "tool_use" THEN <<z[i]>> ELSE <<>>]
  <2>1. Family(g, n)
    BY <1>1, ShortSequences DEF Family
  <2>2. Family(h, m)
    BY <1>1, ShortSequences DEF Family
  <2>3. Family(e, n + m)
    BY <1>5, ShortSequences DEF Family
  <2>4. Extends(e, g, n)
    BY <1>1, <1>3, <1>5 DEF Extends
  <2>5. Follows(e, h, n, m)
    <3>1. \A i \in 1..m : n + i \in 1..(n + m)
      BY <1>1
    <3> QED
      BY <1>1, <1>4, <1>5, <3>1 DEF Follows
  <2>6. /\ BlockCalls(x) = FlattenSeq(g) /\ BlockCalls(y) = FlattenSeq(h)
        /\ BlockCalls(z) = FlattenSeq(e)
    BY DEF BlockCalls
  <2> HIDE DEF g, h, e
  <2>7. FlattenSeq(e) = FlattenSeq(g) \o FlattenSeq(h)
    BY <1>1, <2>1, <2>2, <2>3, <2>4, <2>5, FlattenedConcatenation
  <2> QED
    BY <2>6, <2>7
<1> QED
  BY <1>7, <1>9, <1>10 DEF SaysBoth

\* No block, and one
LEMMA NoBlocks ==
  /\ BlockSequence(<<>>) /\ BlockCalls(<<>>) = <<>> /\ \A type : BlockTexts(<<>>, type) = <<>>
<1>1. BlockSequence(<<>>)
  BY ShortSequences DEF BlockSequence
<1>2. BlockCalls(<<>>) = <<>>
  BY NothingFlattened DEF BlockCalls, Over
<1>3. ASSUME NEW type PROVE BlockTexts(<<>>, type) = <<>>
  BY NothingFlattened DEF BlockTexts, Over
<1> QED
  BY <1>1, <1>2, <1>3

Alone(x, b) == x = <<b>>

\* A single block
LEMMA OneBlock ==
  ASSUME NEW b, BlockTyped(b), NEW x, Alone(x, b)
  PROVE  /\ BlockSequence(x)
         /\ \A type \in Pieces : BlockTexts(x, type) = BlockTextIn(b, type)
         /\ BlockCalls(x) = BlockCallIn(b)
<1> DEFINE none == <<>>
<1>1. /\ IsSequence(x) /\ Len(x) = 1 /\ DOMAIN x = {1} /\ x[1] = b
  BY ShortSequences DEF Alone
<1>2. BlockSequence(x)
  BY <1>1 DEF BlockSequence
<1>3. IsBlockList(x, 0 + 1) /\ x[0 + 1] = b
  BY <1>1, <1>2, ListOfSequence
<1>4. BlockSequence(none) /\ Len(none) = 0
  BY NoBlocks
<1> HIDE DEF none
<1>5. IsBlockList(none, 0) /\ Extends(x, none, 0)
  BY <1>4, ListOfSequence DEF Extends
<1>6. /\ \A type \in Pieces : BlockTexts(x, type) = BlockTexts(none, type) \o BlockTextIn(x[0 + 1], type)
      /\ BlockCalls(x) = BlockCalls(none) \o BlockCallIn(x[0 + 1])
  BY <1>3, <1>5, BlockMore
<1>7. BlockCalls(none) = <<>> /\ \A type : BlockTexts(none, type) = <<>>
  BY NoBlocks DEF none
<1>8. IsSequence(BlockCallIn(b)) /\ \A type \in Pieces : IsSequence(BlockTextIn(b, type))
  BY ShortSequences DEF BlockCallIn, BlockTextIn, BlockTyped
<1>9. ASSUME NEW type \in Pieces PROVE BlockTexts(x, type) = BlockTextIn(b, type)
  <2> DEFINE p == BlockTextIn(b, type)
  <2>1. IsSequence(p) /\ BlockTexts(x, type) = <<>> \o p
    BY <1>3, <1>6, <1>7, <1>8
  <2> HIDE DEF p
  <2>2. <<>> \o p = p
    BY <2>1, Concatenation
  <2> QED
    BY <2>1, <2>2 DEF p
<1>10. BlockCalls(x) = BlockCallIn(b)
  <2> DEFINE p == BlockCallIn(b)
  <2>1. IsSequence(p) /\ BlockCalls(x) = <<>> \o p
    BY <1>3, <1>6, <1>7, <1>8
  <2> HIDE DEF p
  <2>2. <<>> \o p = p
    BY <2>1, Concatenation
  <2> QED
    BY <2>1, <2>2 DEF p
<1> QED
  BY <1>2, <1>9, <1>10

\* A piece of text, in the whole answer
LEMMA PaidPiece ==
  ASSUME NEW kind \in Pieces, NEW text, IsSequence(text), NEW x, x = TextBlock(kind, text)
  PROVE  /\ BlockSequence(x) /\ BlockCalls(x) = <<>> /\ BlockTexts(x, kind) = text
         /\ \A type \in Pieces \ {kind} : BlockTexts(x, type) = <<>>
<1>1. CASE text = <<>>
  <2>1. x = <<>>
    BY <1>1 DEF TextBlock
  <2> QED
    BY <1>1, <2>1, NoBlocks
<1>2. CASE text # <<>>
  <2> DEFINE b == [type |-> kind, text |-> text]
  <2>1. Alone(x, b)
    BY <1>2 DEF TextBlock, Alone
  <2>2. b.type = kind /\ b.text = text
    OBVIOUS
  <2> HIDE DEF b
  <2>3. BlockTyped(b)
    BY <2>2 DEF BlockTyped
  <2>4. /\ BlockSequence(x) /\ BlockCalls(x) = BlockCallIn(b)
        /\ \A type \in Pieces : BlockTexts(x, type) = BlockTextIn(b, type)
    BY <2>1, <2>3, OneBlock
  <2>5. /\ BlockCallIn(b) = <<>> /\ BlockTextIn(b, kind) = text
        /\ \A type \in Pieces \ {kind} : BlockTextIn(b, type) = <<>>
    BY <2>2, PiecesAreKinds DEF BlockCallIn, BlockTextIn
  <2> QED
    BY <2>4, <2>5
<1> QED
  BY <1>1, <1>2

\* The blocks of the calls hold no text
OnlyCalls(x) ==
  BlockSequence(x) /\ BlockCalls(x) = x /\ \A type \in Pieces : BlockTexts(x, type) = <<>>

\* A call, in the whole answer
LEMMA PaidCall ==
  ASSUME NEW call, NEW x, Alone(x, BlockOf(call))
  PROVE  OnlyCalls(x)
<1> DEFINE b == BlockOf(call)
<1>1. b.type = "tool_use"
  BY DEF BlockOf
<1>2. Alone(x, b)
  OBVIOUS
<1> HIDE DEF b
<1>3. BlockTyped(b) /\ BlockCallIn(b) = <<b>> /\ \A type \in Pieces : BlockTextIn(b, type) = <<>>
  BY <1>1, PiecesAreKinds DEF BlockTyped, BlockCallIn, BlockTextIn
<1>4. /\ BlockSequence(x) /\ BlockCalls(x) = BlockCallIn(b)
      /\ \A type \in Pieces : BlockTexts(x, type) = BlockTextIn(b, type)
  BY <1>2, <1>3, OneBlock
<1> QED
  BY <1>2, <1>3, <1>4 DEF OnlyCalls, Alone

\* The calls of the whole answer
LEMMA PaidCalls ==
  ASSUME NEW calls, IsSequence(calls), Len(calls) \in 0..2, NEW x, x = BlocksOf(calls)
  PROVE  OnlyCalls(x)
<1>1. CASE Len(calls) = 0
  <2>1. x = <<>>
    BY <1>1, NoCalls
  <2> QED
    BY <2>1, NoBlocks DEF OnlyCalls
<1>2. CASE Len(calls) = 1
  <2>1. Alone(x, BlockOf(calls[1]))
    BY <1>2, OneForm DEF Alone
  <2> QED
    BY <2>1, PaidCall
<1>3. CASE Len(calls) = 2
  <2> DEFINE y == <<BlockOf(calls[1])>>
             z == <<BlockOf(calls[2])>>
  <2>1. x = y \o z
    BY <1>3, TwoForms
  <2>2. OnlyCalls(y) /\ OnlyCalls(z)
    BY PaidCall DEF Alone
  <2>3. <<>> \o <<>> = <<>>
    BY ShortSequences, Concatenation
  <2> HIDE DEF y, z
  <2>4. BlockSequence(x) /\ SaysBoth(x, y, z)
    BY <2>1, <2>2, BlocksTogether DEF OnlyCalls, Couples
  <2> QED
    BY <2>1, <2>2, <2>3, <2>4 DEF OnlyCalls, SaysBoth
<1> QED
  BY <1>1, <1>2, <1>3

\* The message of an answer, whole
ThreeParts(z, r, t, calls) ==
  z = TextBlock("thinking", r) \o TextBlock("text", t) \o BlocksOf(calls)

\* Reasoning, text and calls, in this order
LEMMA PaidBlocks ==
  ASSUME NEW r, IsSequence(r), NEW t, IsSequence(t),
         NEW calls, IsSequence(calls), Len(calls) \in 0..2, NEW z, ThreeParts(z, r, t, calls)
  PROVE  /\ BlockTexts(z, "thinking") = r /\ BlockTexts(z, "text") = t
         /\ BlockCalls(z) = BlocksOf(calls) /\ BlockSequence(z)
<1> DEFINE a == TextBlock("thinking", r)
           b == TextBlock("text", t)
           c == BlocksOf(calls)
           ab == a \o b
<1>1. "thinking" \in Pieces /\ "text" \in Pieces \ {"thinking"} /\ "thinking" \in Pieces \ {"text"}
  BY DEF Pieces
<1>2. /\ BlockSequence(a) /\ BlockCalls(a) = <<>>
      /\ BlockTexts(a, "thinking") = r /\ BlockTexts(a, "text") = <<>>
  BY <1>1, PaidPiece
<1>3. /\ BlockSequence(b) /\ BlockCalls(b) = <<>>
      /\ BlockTexts(b, "thinking") = <<>> /\ BlockTexts(b, "text") = t
  BY <1>1, PaidPiece
<1>4. OnlyCalls(c)
  BY PaidCalls
<1>5. Couples(z, ab, c) /\ Couples(ab, a, b)
  BY DEF ThreeParts, Couples
<1>6. /\ r \o <<>> = r /\ <<>> \o t = t /\ <<>> \o <<>> = <<>> /\ t \o <<>> = t
  BY ShortSequences, Concatenation
<1> HIDE DEF a, b, c, ab
<1>7. BlockSequence(ab) /\ SaysBoth(ab, a, b)
  BY <1>2, <1>3, <1>5, BlocksTogether
<1>8. BlockSequence(z) /\ SaysBoth(z, ab, c)
  BY <1>4, <1>5, <1>7, BlocksTogether DEF OnlyCalls
<1>9. IsSequence(c) /\ <<>> \o c = c
  BY <1>4, Concatenation DEF OnlyCalls, BlockSequence
<1>10. /\ BlockCalls(c) = c /\ BlockTexts(c, "thinking") = <<>> /\ BlockTexts(c, "text") = <<>>
  BY <1>1, <1>4 DEF OnlyCalls
<1>11. BlockTexts(z, "thinking") = r /\ BlockTexts(z, "text") = t /\ BlockCalls(z) = c
  BY <1>1, <1>2, <1>3, <1>6, <1>7, <1>8, <1>9, <1>10 DEF SaysBoth
<1> QED
  BY <1>8, <1>11 DEF c

\* Anthropic
LEMMA AnthropicAgrees ==
  ASSUME NEW b, Before(b), facade = "anthropic"
  PROVE  Same(Heard, Paid) /\ EndAgrees
<1> DEFINE c == close_block(b)
           f == [event |-> "message_delta", finish |-> to_anthropic(b.finish),
                 output_tokens |-> Counted(b.usage)[2]]
           g == [event |-> "done"]
<1>1. b.calls = Whole.calls /\ Counted(b.usage) = Whole.usage /\ answer.calls = Whole.calls
  BY ResultFields DEF Before, SameResult
<1>2. StateInv(b) /\ Unclosed(b)
  BY DEF Before
<1>3. answer = Say(Say(c, f), g) /\ g.event = "done"
  BY DEF Before, Closing
<1>4. StateInv(c) /\ Unclosed(c)
  <2>1. StateInv(c) /\ Adds(b, c) /\ Unended(b, c)
    BY <1>2, BlockClosed
  <2> HIDE DEF c
  <2> QED
    BY <1>2, <2>1, StaysUnended
<1>5. f.event = "message_delta" /\ f.finish = to_anthropic(b.finish)
      /\ f.output_tokens = Counted(b.usage)[2]
  OBVIOUS
<1> HIDE DEF c, f, g
<1>6. The("message_delta") = f
  BY <1>3, <1>4, <1>5, TheEvent
<1>7. CountsAgree
  <2>1. HeardUsage[2] = Counted(b.usage)[2]
    BY <1>5, <1>6 DEF HeardUsage
  <2>2. PaidUsage = Counted(b.usage)
    BY <1>1, PaidCounts DEF Facades
  <2> QED
    BY <2>1, <2>2 DEF CountsAgree
<1>8. HeardFinish = to_anthropic(b.finish) /\ PaidFinish = to_anthropic(Whole.finish)
  BY <1>5, <1>6 DEF HeardFinish, PaidFinish
<1>9. EndAgrees
  BY <1>7, <1>8 DEF EndAgrees, Before
<1>10. /\ Heard = Blocks(answer.frames)
       /\ BlockTexts(Heard, "text") = TextOf(sent) /\ BlockTexts(Heard, "thinking") = ReasoningOf(sent)
       /\ BlockCalls(Heard) = BlocksOf(Whole.calls)
  <2>1. Heard = Blocks(answer.frames)
    BY DEF Heard
  <2> QED
    BY <1>1, <2>1 DEF Before, TellsTexts, TellsCalls
<1>11. Paid = TextBlock("thinking", ReasoningOf(sent)) \o TextBlock("text", TextOf(sent))
                \o BlocksOf(Whole.calls)
  <2>1. Paid = message_payload(Whole).content
    BY DEF Paid
  <2>2. message_payload(Whole).content =
          TextBlock("thinking", Joined(Whole.content, "reasoning"))
            \o TextBlock("text", Joined(Whole.content, "text")) \o BlocksOf(Whole.calls)
    BY DEF message_payload, BlocksOf
  <2> QED
    BY <2>1, <2>2 DEF Before
<1>12. /\ BlockTexts(Paid, "thinking") = ReasoningOf(sent) /\ BlockTexts(Paid, "text") = TextOf(sent)
       /\ BlockCalls(Paid) = BlocksOf(Whole.calls)
  <2> DEFINE r == ReasoningOf(sent)
             t == TextOf(sent)
             calls == Whole.calls
             z == Paid
  <2>1. IsSequence(r) /\ IsSequence(t) /\ IsSequence(calls) /\ Len(calls) \in 0..2
    BY <1>1 DEF Before
  <2>2. ThreeParts(z, r, t, calls)
    BY <1>11 DEF ThreeParts
  <2> HIDE DEF r, t, calls, z
  <2>3. /\ BlockTexts(z, "thinking") = r /\ BlockTexts(z, "text") = t
        /\ BlockCalls(z) = BlocksOf(calls)
    BY <2>1, <2>2, PaidBlocks
  <2> QED
    BY <2>3 DEF r, t, calls, z
<1>13. Same(Heard, Paid)
  BY <1>10, <1>12 DEF Same
<1> QED
  BY <1>9, <1>13

\* What a client puts together from a closed stream is the body that the same facade
\* gives to a request without stream: the same text, reasoning and calls, in the order and
\* under the names of its format, for each of the six endpoints; the same counts of tokens,
\* as far as its stream carries them; the same reason, but for StopAfterCalls.
THEOREM StreamsAgreeWithWhole == Spec => []StreamAgreesWithWhole
<1>1. AnswerInv => StreamAgreesWithWhole
  <2> SUFFICES ASSUME AnswerInv, phase = "closed"
               PROVE  /\ IF facade = "anthropic" THEN Same(Heard, Paid) ELSE Heard = Paid
                      /\ EndAgrees
                      /\ facade = "responses" =>
                           /\ Texts(answer.frames, "text.delta") = Joined(Whole.content, "text")
                           /\ Texts(answer.frames, "reasoning.delta") = Joined(Whole.content, "reasoning")
    BY DEF StreamAgreesWithWhole, EndAgrees
  <2>1. PICK b : Before(b)
    BY ClosedAnswer
  <2>2. facade \in Facades
    BY <2>1 DEF Before
  <2>3. CASE facade \in {"ollama_chat", "ollama_generate"}
    BY <2>1, <2>3, OllamaAgrees
  <2>4. CASE facade \in {"openai", "completions"}
    BY <2>1, <2>4, OpenAIAgrees
  <2>5. CASE facade = "responses"
    BY <2>1, <2>5, ResponsesAgree
  <2>6. CASE facade = "anthropic"
    BY <2>1, <2>6, AnthropicAgrees
  <2> QED
    BY <2>2, <2>3, <2>4, <2>5, <2>6 DEF Facades
<1> QED
  BY <1>1, AnswerInvariant, PTL
=============================================================================

------------------------------ MODULE Streams -------------------------------
(***************************************************************************)
(* The way back: a streamed answer of llama-server, reassembled by         *)
(* backend.py:chat_stream into deltas, told to the client in the events of *)
(* its facade; and the payloads of the answers that are not streamed.      *)
(*                                                                         *)
(* A chunk of llama-server is [text, reasoning, fragments, finish, usage]: *)
(* a fragment is a part of a tool call, finish is "" until the last one,   *)
(* usage is <<>> when there is none, or the tokens of the prompt and those *)
(* of the answer.  Comments and lines that are not JSON are skipped by the *)
(* code and are not modelled.  The facades hold nothing in common: one     *)
(* answer is one stream.                                                   *)
(***************************************************************************)
EXTENDS Requests, Integers, FiniteSets

CONSTANT MaxLines                  \* bound: the chunks of text, reasoning and fragments

ASSUME MaxLinesAssumption == MaxLines \in Nat

Facades == {"ollama_chat", "ollama_generate", "openai", "completions", "anthropic", "responses"}

VARIABLES
  facade,                          \* the endpoint that was asked
  phase,                           \* waiting, streaming, closed, broken or gone
  sent,                            \* the chunks llama-server has sent
  slots,                           \* _ToolCallAssembler._calls
  answer                           \* the locals of the generator, and the frames it has yielded

streamVars == <<facade, phase, sent, slots, answer>>

-----------------------------------------------------------------------------
(* backend.py: what a payload says.                                        *)

\* Mutant: the reason of llama-server is not translated.
FinishUnmapped(raw) == raw

\* _FINISH_REASONS
FinishReason(raw) ==
  CASE raw = "length" -> "length"
    [] raw \in {"tool_calls", "function_call"} -> "tool_calls"
    [] OTHER -> "stop"

\* A turn that ends with calls has not come to its stop.
Corrected(finish, calls) ==
  IF calls # <<>> /\ finish = "stop" THEN "tool_calls" ELSE finish

_parse_arguments(text) ==
  Arguments(CASE text = <<>> \/ JsonKind(text) = "object" -> ""
              [] JsonKind(text) = "other" -> "_value"
              [] OTHER -> "_raw", text)

_parse_tool_calls(raw) ==
  [i \in DOMAIN raw |->
     ToolCall(raw[i].id, raw[i].name, _parse_arguments(raw[i].arguments), raw[i].index)]

\* What was not counted is told as zero: Usage().
Counted(usage) == IF usage = <<>> THEN <<0, 0>> ELSE usage

\* An answer that is not streamed: [text, reasoning, tool_calls, finish, usage].
parse_response(message) ==
  LET calls == _parse_tool_calls(message.tool_calls)
  IN [content |-> Block("reasoning", message.reasoning) \o Block("text", message.text),
      calls |-> calls,
      finish |-> Corrected(FinishReason(message.finish), calls),
      usage |-> Counted(message.usage)]

\* The reason in parse_chunk, "" when the chunk gives none.
ChunkFinish(chunk) ==
  IF chunk.finish = "" THEN ""
  ELSE Corrected(FinishReason(chunk.finish), chunk.fragments)

-----------------------------------------------------------------------------
(* _ToolCallAssembler                                                      *)

NoSlots == [index \in {} |-> {}]
Slot(index) ==
  IF index \in DOMAIN slots THEN slots[index] ELSE [id |-> "", name |-> "", arguments |-> <<>>]

\* Mutant: a fragment without an id takes the id away.
AbsorbOver(slot, fragment) ==
  [id |-> fragment.id,
   name |-> IF fragment.name # "" THEN fragment.name ELSE slot.name,
   arguments |-> slot.arguments \o fragment.arguments]

\* What is empty never replaces what is known.
Absorb(slot, fragment) ==
  [id |-> IF fragment.id # "" THEN fragment.id ELSE slot.id,
   name |-> IF fragment.name # "" THEN fragment.name ELSE slot.name,
   arguments |-> slot.arguments \o fragment.arguments]

\* The chunks of these models hold one fragment of an index at most.
feed(fragments) ==
  LET touched == {fragments[i].index : i \in DOMAIN fragments}
      Fragment(index) == fragments[CHOOSE i \in DOMAIN fragments : fragments[i].index = index]
  IN [index \in touched \cup DOMAIN slots |->
        IF index \in touched THEN Absorb(Slot(index), Fragment(index)) ELSE slots[index]]

\* The calls that have a name, in the order of their indices.
drain(fed) ==
  LET named == {index \in DOMAIN fed : fed[index].name # ""}
      Nth(i) == CHOOSE index \in named : Cardinality({k \in named : k <= index}) = i
  IN [i \in 1..Cardinality(named) |->
        ToolCall(fed[Nth(i)].id, fed[Nth(i)].name,
                 _parse_arguments(fed[Nth(i)].arguments), Nth(i))]

\* Mutant: the calls are given out as they come.
DrainsAlways(finish) == TRUE

Drains(finish) == finish # ""

Delta(chunk) ==
  LET finish == ChunkFinish(chunk)
  IN [text |-> chunk.text, reasoning |-> chunk.reasoning,
      calls |-> IF Drains(finish) THEN drain(feed(chunk.fragments)) ELSE <<>>,
      finish |-> finish, usage |-> chunk.usage]

\* The stream has ended without a reason, and calls are pending.
LastDelta ==
  [text |-> <<>>, reasoning |-> <<>>, calls |-> drain(slots), finish |-> "tool_calls", usage |-> <<>>]

-----------------------------------------------------------------------------
(* The answers that are not streamed.                                      *)

to_ollama(finish) == IF finish = "tool_calls" THEN "stop" ELSE finish
to_openai(finish) == finish
to_anthropic(finish) ==
  CASE finish = "stop" -> "end_turn" [] finish = "length" -> "max_tokens" [] OTHER -> "tool_use"

chat_final(result) ==
  [message |-> [content |-> Joined(result.content, "text"),
                thinking |-> Joined(result.content, "reasoning"),
                tool_calls |-> result.calls],
   finish |-> to_ollama(result.finish), usage |-> result.usage]

\* Mutant: the last chunk repeats the message.
chat_stream_final_again(result) == chat_final(result)

\* The calls again, and nothing else of the message.
chat_stream_final(result) ==
  [chat_final(result) EXCEPT !.message.content = <<>>, !.message.thinking = <<>>]

\* generate_final has the fields of a message at the top.
generate_final(result, streamed) ==
  IF streamed THEN chat_stream_final(result) ELSE chat_final(result)

\* A call on the facades of OpenAI: its arguments are a text.
OpenAICall(call) ==
  [id |-> call.id, name |-> call.name, arguments |-> Dumped(call.arguments)]

chat_completion_payload(result) ==
  [message |-> [content |-> Joined(result.content, "text"),
                reasoning_content |-> Joined(result.content, "reasoning"),
                tool_calls |-> [i \in DOMAIN result.calls |-> OpenAICall(result.calls[i])]],
   finish |-> to_openai(result.finish), usage |-> result.usage]

completion_payload(result) ==
  [text |-> Joined(result.content, "text"), finish |-> to_openai(result.finish),
   usage |-> result.usage]

TextBlock(type, text) == IF text = <<>> THEN <<>> ELSE <<[type |-> type, text |-> text]>>

message_payload(result) ==
  [content |-> TextBlock("thinking", Joined(result.content, "reasoning"))
                 \o TextBlock("text", Joined(result.content, "text"))
                 \o [i \in DOMAIN result.calls |->
                       [type |-> "tool_use", id |-> result.calls[i].id,
                        name |-> result.calls[i].name, input |-> result.calls[i].arguments]],
   finish |-> to_anthropic(result.finish), usage |-> result.usage]

ReasoningItem(text) ==
  IF text = <<>> THEN <<>> ELSE <<[type |-> "reasoning", summary |-> text]>>
MessageItem(text) ==
  IF text = <<>> THEN <<>>
  ELSE <<[type |-> "message", role |-> "assistant",
          content |-> <<[type |-> "output_text", text |-> text]>>]>>

response_payload(result) ==
  [output |-> ReasoningItem(Joined(result.content, "reasoning"))
                \o MessageItem(Joined(result.content, "text"))
                \o [i \in DOMAIN result.calls |->
                      [type |-> "function_call", call_id |-> result.calls[i].id,
                       name |-> result.calls[i].name,
                       arguments |-> Dumped(result.calls[i].arguments)]],
   finish |-> "completed", usage |-> result.usage]

-----------------------------------------------------------------------------
(* The generators of the facades.  Their locals: finish, usage, calls and  *)
(* content; index and open are those of the blocks of Anthropic.           *)

Say(state, frame) == [state EXCEPT !.frames = Append(@, frame)]
Chunk(text, reasoning, calls) ==
  [event |-> "chunk", text |-> text, reasoning |-> reasoning, calls |-> calls]

Opening(asked) ==
  CASE asked = "openai" -> <<[event |-> "role"]>>
    [] asked = "anthropic" -> <<[event |-> "message_start", usage |-> <<0, 0>>]>>
    [] asked = "responses" -> <<[event |-> "created"]>>
    [] OTHER -> <<>>

\* The results that follow a delta: the last list of calls replaces the others.
Noted(delta) ==
  [answer EXCEPT
     !.finish = IF delta.finish # "" THEN delta.finish ELSE @,
     !.usage = IF delta.usage # <<>> THEN delta.usage ELSE @,
     !.calls = IF delta.calls # <<>> THEN delta.calls ELSE @,
     !.content = @ \o Block("reasoning", delta.reasoning) \o Block("text", delta.text)]

\* A chunk of Ollama, or of OpenAI, if there is something to tell.
ToldChunk(state, text, reasoning, calls) ==
  IF text = <<>> /\ reasoning = <<>> /\ calls = <<>> THEN state
  ELSE Say(state, Chunk(text, reasoning, calls))

\* generate_chunk has no calls, but is sent when there are.
ToldGenerate(state, delta) ==
  IF delta.text = <<>> /\ delta.reasoning = <<>> /\ delta.calls = <<>> THEN state
  ELSE Say(state, Chunk(delta.text, delta.reasoning, <<>>))

close_block(state) ==
  IF state.open = "" THEN state
  ELSE [Say(state, [event |-> "content_block_stop", index |-> state.index]) EXCEPT !.open = ""]

BlockStart(kind, index, call) ==
  [event |-> "content_block_start", kind |-> kind, index |-> index,
   id |-> call.id, name |-> call.name]
BlockDelta(state, payload) ==
  Say(state, [event |-> "content_block_delta", index |-> state.index,
              kind |-> state.open, delta |-> payload])

\* Mutant: the block that is open is left to itself.
OpenBlockAtOnce(state, kind, call) ==
  Say([state EXCEPT !.index = @ + 1, !.open = kind], BlockStart(kind, state.index + 1, call))

OpenBlock(state, kind, call) ==
  Say([close_block(state) EXCEPT !.index = @ + 1, !.open = kind],
      BlockStart(kind, state.index + 1, call))

NoCall == [id |-> "", name |-> ""]

ToldPiece(state, kind, text) ==
  IF text = <<>> THEN state
  ELSE BlockDelta(IF state.open = kind THEN state ELSE OpenBlock(state, kind, NoCall), text)

ToldCall(state, call) == BlockDelta(OpenBlock(state, "tool_use", call), Dumped(call.arguments))

ToldBlocks(state, delta) ==
  LET pieces == ToldPiece(ToldPiece(state, "thinking", delta.reasoning), "text", delta.text)
      told[k \in 0..Len(delta.calls)] ==
        IF k = 0 THEN pieces ELSE ToldCall(told[k - 1], delta.calls[k])
  IN told[Len(delta.calls)]

\* Two events for the texts, none for the calls.
ToldEvent(state, event, text) ==
  IF text = <<>> THEN state ELSE Say(state, [event |-> event, text |-> text])

Told(delta) ==
  LET state == Noted(delta)
  IN CASE facade \in {"ollama_chat", "openai"} ->
            ToldChunk(state, delta.text, delta.reasoning, delta.calls)
       [] facade = "ollama_generate" -> ToldGenerate(state, delta)
       [] facade = "completions" -> ToldChunk(state, delta.text, <<>>, <<>>)
       [] facade = "anthropic" -> ToldBlocks(state, delta)
       [] facade = "responses" ->
            ToldEvent(ToldEvent(state, "reasoning.delta", delta.reasoning),
                      "text.delta", delta.text)

Result(state) ==
  [content |-> state.content, calls |-> state.calls,
   finish |-> state.finish, usage |-> Counted(state.usage)]

\* What a generator yields after its loop: of the usage OpenAI tells what it
\* has, Anthropic the tokens of the answer, /v1/completions nothing.
Closing(state) ==
  CASE facade = "ollama_chat" ->
         Say(state, [event |-> "done", final |-> chat_stream_final(Result(state))])
    [] facade = "ollama_generate" ->
         Say(state, [event |-> "done", final |-> generate_final(Result(state), TRUE)])
    [] facade = "openai" ->
         Say(Say(state, [event |-> "final", finish |-> to_openai(state.finish),
                         usage |-> state.usage]),
             [event |-> "done"])
    [] facade = "completions" ->
         Say(Say(state, [event |-> "final", finish |-> to_openai(state.finish)]),
             [event |-> "done"])
    [] facade = "anthropic" ->
         Say(Say(close_block(state),
                 [event |-> "message_delta", finish |-> to_anthropic(state.finish),
                  output_tokens |-> Counted(state.usage)[2]]),
             [event |-> "done"])
    [] facade = "responses" ->
         Say(state, [event |-> "done", final |-> response_payload(Result(state))])

-----------------------------------------------------------------------------
(* llama-server: what it may send next.  Its pieces are numbered, so that  *)
(* their order can be seen.                                                *)

Silence == [text |-> <<>>, reasoning |-> <<>>, fragments |-> <<>>, finish |-> "", usage |-> <<>>]

HasFinished == \E i \in DOMAIN sent : sent[i].finish # ""
HasCounted == \E i \in DOMAIN sent : sent[i].usage # <<>>

\* The index of the call under way, -1 before the first one: calls begin in order.
Begun ==
  {index \in 0..1 : \E i \in DOMAIN sent :
     \E k \in DOMAIN sent[i].fragments : sent[i].fragments[k].index = index}
Current == Cardinality(Begun) - 1

Start(index) ==
  [index |-> index, id |-> IF index = 0 THEN "c1" ELSE "c2",
   name |-> IF index = 0 THEN "f" ELSE "g", arguments |-> <<>>]
Part(piece) == [index |-> Current, id |-> "", name |-> "", arguments |-> <<piece>>]

Fragments ==
  {Start(i) : i \in {Current + 1} \cap 0..1}
    \cup (IF Current = -1 THEN {} ELSE {Part(piece) : piece \in {"{", "}", "7"}})

ContentChunks ==
  {[Silence EXCEPT !.text = <<Len(sent)>>], [Silence EXCEPT !.reasoning = <<Len(sent)>>]}
    \cup {[Silence EXCEPT !.fragments = <<fragment>>] : fragment \in Fragments}

FinalChunks ==
  {[Silence EXCEPT !.finish = finish] : finish \in {"stop", "length", "tool_calls", "content_filter"}}
    \cup {[Silence EXCEPT !.finish = "stop", !.fragments = <<fragment>>] : fragment \in Fragments}

UsageChunk == [Silence EXCEPT !.usage = <<11, 7>>]

-----------------------------------------------------------------------------
NoAnswer ==
  [frames |-> <<>>, finish |-> "stop", usage |-> <<>>, calls |-> <<>>, content |-> <<>>,
   index |-> -1, open |-> ""]

InitStream ==
  /\ facade = "none"
  /\ phase = "waiting" /\ sent = <<>> /\ slots = NoSlots /\ answer = NoAnswer

\* The client starts to read: the generator runs up to its first frame.
Begin(asked) ==
  /\ phase = "waiting"
  /\ facade' = asked
  /\ phase' = "streaming"
  /\ answer' = [answer EXCEPT !.frames = Opening(asked)]
  /\ UNCHANGED <<sent, slots>>

\* A line of llama-server goes through chat_stream and its facade.
Receive(chunk) ==
  /\ phase = "streaming"
  /\ sent' = Append(sent, chunk)
  /\ slots' = IF Drains(ChunkFinish(chunk)) THEN NoSlots ELSE feed(chunk.fragments)
  /\ answer' = Told(Delta(chunk))
  /\ UNCHANGED <<facade, phase>>

Content ==
  /\ ~HasFinished /\ ~HasCounted
  /\ Len(sent) < MaxLines
  /\ \E chunk \in ContentChunks : Receive(chunk)

Finish ==
  /\ ~HasFinished /\ ~HasCounted
  /\ \E chunk \in FinalChunks : Receive(chunk)

Count == ~HasCounted /\ Receive(UsageChunk)

\* [DONE], or the end of the body.
End ==
  /\ phase = "streaming"
  /\ phase' = "closed"
  /\ answer' = IF DOMAIN slots = {} THEN Closing(answer) ELSE Closing(Told(LastDelta))
  /\ slots' = NoSlots
  /\ UNCHANGED <<facade, sent>>

\* Mutant: the stream is closed all the same.
AfterErrorClosed(state) == Closing(state)

\* Nothing catches the UpstreamError: the body of the answer stops there.
AfterError(state) == state

\* A status of error, or an HTTPError in the middle.
Fail ==
  /\ phase = "streaming"
  /\ phase' = "broken"
  /\ answer' = AfterError(answer)
  /\ UNCHANGED <<facade, sent, slots>>

\* The client leaves: the generators are closed where they are.
Disconnect ==
  /\ phase = "streaming"
  /\ phase' = "gone"
  /\ UNCHANGED <<facade, sent, slots, answer>>

NextStream ==
  \/ \E asked \in Facades : Begin(asked)
  \/ Content \/ Finish \/ Count \/ End \/ Fail \/ Disconnect
=============================================================================

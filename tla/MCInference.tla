---------------------------- MODULE MCInference -----------------------------
(***************************************************************************)
(* What a client may expect of the streams and of the settings, whatever   *)
(* the facade it has chosen.                                               *)
(***************************************************************************)
EXTENDS Inference

\* The state of a stream: the assembler holds slots of both indices at most,
\* the reasons are those of FinishReason (canonical/result.py:26-40), blocks
\* are numbered from 0 and one at most is open.
TypeOK ==
  /\ facade \in Facades \cup {"none"}
  /\ phase \in {"waiting", "streaming", "closed", "broken", "gone"}
  /\ phase = "waiting" <=> facade = "none"
  /\ DOMAIN slots \subseteq 0..1
  /\ \A i \in DOMAIN slots : slots[i].id \in {"", "c1", "c2"} /\ slots[i].name \in {"", "f", "g"}
  /\ answer.finish \in {"stop", "length", "tool_calls"}
  /\ answer.usage \in {<<>>, UsageChunk.usage}
  /\ answer.open \in {"", "thinking", "text", "tool_use"}
  /\ answer.index \in -1..Len(answer.frames)
  /\ facade # "anthropic" => answer.index = -1 /\ answer.open = ""

-----------------------------------------------------------------------------
(* The answer as a whole: what llama-server would have said, had it not    *)
(* been asked for a stream.                                                *)

\* A chunk holds one fragment of a call at most.
Holds(chunk, index) == \E k \in DOMAIN chunk.fragments : chunk.fragments[k].index = index
FragmentOf(chunk, index) ==
  chunk.fragments[CHOOSE k \in DOMAIN chunk.fragments : chunk.fragments[k].index = index]
Holding(index) == {i \in DOMAIN sent : Holds(sent[i], index)}
FirstOf(index) ==
  FragmentOf(sent[CHOOSE i \in Holding(index) : \A k \in Holding(index) : i <= k], index)
CallOf(index) ==
  [index |-> index, id |-> FirstOf(index).id, name |-> FirstOf(index).name,
   arguments |-> FlattenSeq([i \in DOMAIN sent |->
                   IF Holds(sent[i], index) THEN FragmentOf(sent[i], index).arguments ELSE <<>>])]

SaidText == FlattenSeq([i \in DOMAIN sent |-> sent[i].text])
SaidReasoning == FlattenSeq([i \in DOMAIN sent |-> sent[i].reasoning])
SaidFinish ==
  IF HasFinished THEN sent[CHOOSE i \in DOMAIN sent : sent[i].finish # ""].finish ELSE "stop"

Whole ==
  parse_response(
    [text |-> SaidText, reasoning |-> SaidReasoning,
     tool_calls |-> [i \in 1..(Current + 1) |-> CallOf(i - 1)],
     finish |-> SaidFinish, usage |-> IF HasCounted THEN UsageChunk.usage ELSE <<>>])

\* The message of an answer, in the form the client will send it back.
Paid ==
  CASE facade = "ollama_chat" -> chat_final(Whole).message
    [] facade = "ollama_generate" -> generate_final(Whole, FALSE).message
    [] facade = "openai" -> chat_completion_payload(Whole).message
    [] facade = "completions" -> completion_payload(Whole).text
    [] facade = "anthropic" -> message_payload(Whole).content
    [] facade = "responses" -> response_payload(Whole).output

Saying(event) == {i \in DOMAIN answer.frames : answer.frames[i].event = event}
The(event) == answer.frames[CHOOSE i \in Saying(event) : TRUE]

\* The pieces of the frames of one event, in order.
Texts(frames, event) ==
  FlattenSeq([i \in DOMAIN frames |->
                IF frames[i].event = event THEN frames[i].text ELSE <<>>])
Reasonings(frames) ==
  FlattenSeq([i \in DOMAIN frames |->
                IF frames[i].event = "chunk" THEN frames[i].reasoning ELSE <<>>])
ToldCalls(frames) ==
  FlattenSeq([i \in DOMAIN frames |->
                IF frames[i].event = "chunk" THEN frames[i].calls ELSE <<>>])

\* The blocks of Anthropic that were started before a frame.
StartsBefore(frames, i) == {k \in 1..(i - 1) : frames[k].event = "content_block_start"}

\* The blocks of Anthropic, by their indices: each has its deltas, one if it is a call.
Starts(frames, index) ==
  {i \in DOMAIN frames : frames[i].event = "content_block_start" /\ frames[i].index = index}
Deltas(frames, index) ==
  {i \in DOMAIN frames : frames[i].event = "content_block_delta" /\ frames[i].index = index}
Assembled(frames, index) ==
  LET start == frames[CHOOSE i \in Starts(frames, index) : TRUE]
      deltas == Deltas(frames, index)
  IN IF start.kind = "tool_use"
     THEN [type |-> "tool_use", id |-> start.id, name |-> start.name,
           input |-> OpenAIArguments(frames[CHOOSE i \in deltas : TRUE].delta)]
     ELSE [type |-> start.kind,
           text |-> FlattenSeq([i \in DOMAIN frames |->
                                  IF i \in deltas THEN frames[i].delta ELSE <<>>])]
Blocks(frames) ==
  [k \in 1..Cardinality(StartsBefore(frames, Len(frames) + 1)) |-> Assembled(frames, k - 1)]

\* The same message, put together from the events of the stream: a client of
\* Ollama joins all the chunks, the last one included.
Heard ==
  CASE facade \in {"ollama_chat", "ollama_generate"} ->
         LET final == Last(answer.frames).final.message
         IN [content |-> Texts(answer.frames, "chunk") \o final.content,
             thinking |-> Reasonings(answer.frames) \o final.thinking,
             tool_calls |-> final.tool_calls]
    [] facade = "openai" ->
         LET calls == ToldCalls(answer.frames)
         IN [content |-> Texts(answer.frames, "chunk"),
             reasoning_content |-> Reasonings(answer.frames),
             tool_calls |-> [i \in DOMAIN calls |-> OpenAICall(calls[i])]]
    [] facade = "completions" -> Texts(answer.frames, "chunk")
    [] facade = "anthropic" -> Blocks(answer.frames)
    [] facade = "responses" -> Last(answer.frames).final.output

\* Blocks of one kind, however they alternate, are one text.
BlockTexts(blocks, type) ==
  FlattenSeq([i \in DOMAIN blocks |-> IF blocks[i].type = type THEN blocks[i].text ELSE <<>>])
BlockCalls(blocks) ==
  FlattenSeq([i \in DOMAIN blocks |-> IF blocks[i].type = "tool_use" THEN <<blocks[i]>> ELSE <<>>])
Same(blocks, others) ==
  /\ \A type \in {"thinking", "text"} : BlockTexts(blocks, type) = BlockTexts(others, type)
  /\ BlockCalls(blocks) = BlockCalls(others)

HeardFinish ==
  CASE facade \in {"ollama_chat", "ollama_generate", "responses"} -> Last(answer.frames).final.finish
    [] facade \in {"openai", "completions"} -> The("final").finish
    [] facade = "anthropic" -> The("message_delta").finish
HeardUsage ==
  CASE facade \in {"ollama_chat", "ollama_generate", "responses"} -> Last(answer.frames).final.usage
    [] facade = "openai" -> The("final").usage
    [] facade = "anthropic" -> <<The("message_start").usage[1], The("message_delta").output_tokens>>
    [] facade = "completions" -> <<>>
PaidFinish ==
  CASE facade \in {"ollama_chat", "ollama_generate"} -> to_ollama(Whole.finish)
    [] facade \in {"openai", "completions"} -> to_openai(Whole.finish)
    [] facade = "anthropic" -> to_anthropic(Whole.finish)
    [] facade = "responses" -> "completed"
PaidUsage ==
  CASE facade = "ollama_chat" -> chat_final(Whole).usage
    [] facade = "ollama_generate" -> generate_final(Whole, FALSE).usage
    [] facade = "openai" -> chat_completion_payload(Whole).usage
    [] facade = "completions" -> completion_payload(Whole).usage
    [] facade = "anthropic" -> message_payload(Whole).usage
    [] facade = "responses" -> response_payload(Whole).usage

\* The calls were in earlier chunks than the reason: chat_stream does not
\* correct a stop then, as parse_response does.
StopAfterCalls ==
  \E i \in DOMAIN sent :
    sent[i].finish \in {"stop", "content_filter"} /\ sent[i].fragments = <<>> /\ Current >= 0

\* The counts that a stream carries: OpenAI those that came, Anthropic one
\* of the two, /v1/completions none.
CountsAgree ==
  CASE facade = "openai" -> HeardUsage = IF HasCounted THEN PaidUsage ELSE <<>>
    [] facade = "anthropic" -> HeardUsage[2] = PaidUsage[2]
    [] facade = "completions" -> TRUE
    [] OTHER -> HeardUsage = PaidUsage

(* api/ollama.py:238-285, api/openai.py:389-508, api/anthropic.py:331-433, *)
(* api/responses.py:284-338: a client that puts the events of a stream     *)
(* together has the answer it would have been given without a stream: the  *)
(* same text, reasoning and calls, none lost, repeated, cut or out of      *)
(* order; the same counts of tokens, as far as the stream of its facade    *)
(* carries them; and the same reason for the end, but for StopAfterCalls   *)
(* (CallsEndAsCalls, which the code does not satisfy).                     *)
StreamAgreesWithWhole ==
  phase = "closed" =>
    /\ IF facade = "anthropic" THEN Same(Heard, Paid) ELSE Heard = Paid
    /\ CountsAgree
    /\ HeardFinish = PaidFinish \/ StopAfterCalls
    /\ facade = "responses" =>
         /\ Texts(answer.frames, "text.delta") = Joined(Whole.content, "text")
         /\ Texts(answer.frames, "reasoning.delta") = Joined(Whole.content, "reasoning")

(* « la raison canonique doit refléter ce qui s'est réellement passé,      *)
(* sinon les façades OpenAI et Anthropic annonceraient une fin de tour     *)
(* alors qu'un outil est attendu » (backend.py:313-315): a streamed turn   *)
(* with calls ends for the reason it would have without a stream.          *)
CallsEndAsCalls ==
  phase = "closed" /\ Whole.calls # <<>> => HeardFinish = PaidFinish

-----------------------------------------------------------------------------
\* The next request of the client carries the message as it was received.
Replayed ==
  CASE facade = "ollama_chat" ->
         parse_message([role |-> "assistant", content |-> Heard.content,
                        thinking |-> Heard.thinking, tool_calls |-> Heard.tool_calls])
    [] facade = "openai" ->
         OpenAIMessage([role |-> "assistant", content |-> Text("text", Heard.content),
                        reasoning_content |-> Heard.reasoning_content,
                        tool_calls |-> Heard.tool_calls])
    [] facade = "anthropic" -> AssistantBlocks(Heard)
    [] facade = "responses" -> parse_input([instructions |-> <<>>, input |-> Heard])[1]

(* canonical/messages.py:15-25 and api/responses.py:199-205: the loop of   *)
(* an agent.  The streamed answer, given back as it is in the next request,*)
(* reaches llama-server as the message that it had produced: same text,    *)
(* same reasoning apart from it, same calls with the same ids, arguments   *)
(* that were not JSON included.                                            *)
AnswerSurvivesReplay ==
  phase = "closed" /\ facade \in Chats /\ (Whole.content # <<>> \/ Whole.calls # <<>>) =>
    serialize_message(Replayed) = serialize_message(AssistantMessage(Whole.content, Whole.calls))

TellingChunks == {i \in Saying("chunk") : answer.frames[i].calls # <<>>}
TellingBlocks == {i \in Saying("content_block_delta") : answer.frames[i].kind = "tool_use"}

(* backend.py:363-378: no call is told before the upstream has given its   *)
(* reason, or has ended, and one event at most carries the list of calls.  *)
CallsToldAtTheEnd ==
  /\ \A i, k \in TellingChunks : i = k
  /\ TellingChunks # {} \/ TellingBlocks # {} => HasFinished \/ phase = "closed"

(* backend.py:363-378: a call is told once it is complete and only once,   *)
(* never in pieces, whatever becomes of the stream afterwards; before the  *)
(* upstream has given its reason, or has ended, none is told.              *)
CallsArriveWhole ==
  LET blocks == FlattenSeq([i \in DOMAIN answer.frames |->
                              IF i \in TellingBlocks THEN <<answer.frames[i].delta>> ELSE <<>>])
  IN /\ CallsToldAtTheEnd
     /\ \A i \in TellingChunks : answer.frames[i].calls = Whole.calls
     /\ blocks # <<>> =>
          blocks = [i \in DOMAIN Whole.calls |-> Dumped(Whole.calls[i].arguments)]

(* A stream that was cut, by llama-server or by the client, never looks    *)
(* complete: the closing event comes last, once, when and only when the    *)
(* upstream has come to its own end (backend.py:471-472 lets UpstreamError *)
(* through, and no generator catches it).                                  *)
ClosedOnlyByUpstreamEnd ==
  /\ Saying("done") = IF phase = "closed" THEN {Len(answer.frames)} ELSE {}
  /\ phase \in {"broken", "gone"} => Saying("final") = {} /\ Saying("message_delta") = {}

\* The blocks that were started before a frame, and are not yet stopped.
OpenBefore(frames, i) ==
  {k \in StartsBefore(frames, i) :
     \A j \in (k + 1)..(i - 1) : frames[j].event # "content_block_stop"}

WellPlaced(frames, i) ==
  LET frame == frames[i]
  IN /\ frame.event \in {"content_block_start", "message_delta"} => OpenBefore(frames, i) = {}
     /\ frame.event = "content_block_start" =>
          frame.index = Cardinality(StartsBefore(frames, i))
     /\ frame.event \in {"content_block_delta", "content_block_stop"} =>
          \E k \in 1..(i - 1) :
            /\ OpenBefore(frames, i) = {k}
            /\ frame.index = frames[k].index
            /\ frame.event = "content_block_delta" => frame.kind = frames[k].kind

(* api/anthropic.py:334-337: blocks are numbered in order, one is open at  *)
(* a time, every delta belongs to the one that is open and is of its kind, *)
(* and all are closed before the message is.                               *)
BlocksAreWellFormed == \A i \in DOMAIN answer.frames : WellPlaced(answer.frames, i)

-----------------------------------------------------------------------------
(* The settings a client may want, whatever the facade.                    *)

Wishes ==
  [thinking : {"absent", "off", "on"} \cup Levels,
   choice : {"absent", "auto", "none", "required", "f"},
   tools : {{}, {"f"}}, format : {"text", "json", "json_schema"},
   limit : {-1, 0, 5},             \* none, not said, five tokens
   options : {NoOptions, "temperature" :> 3, ("num_ctx" :> 4) @@ ("top_k" :> 2),
              ("num_keep" :> 1) @@ ("mirostat" :> 6)}]

Says(f, wish) ==
  CASE f = "ollama_chat" -> wish.choice = "absent"
    [] f = "anthropic" ->
         /\ wish.thinking \notin Levels /\ wish.format = "text" /\ wish.limit = 5
         /\ DOMAIN wish.options \subseteq {"temperature"}
    [] OTHER ->
         /\ wish.limit >= 0 /\ DOMAIN wish.options \subseteq {"temperature"}
         /\ f = "responses" => wish.format = "text"

Limited(wish, name) == wish.options @@ (IF wish.limit = 0 THEN NoOptions ELSE name :> wish.limit)

\* The choice of a tool, and the wish to reason, in the words of the facades.
Choice(f, choice) ==
  CASE choice = "f" -> [type |-> IF f = "anthropic" THEN "tool" ELSE "function", name |-> "f"]
    [] choice = "required" /\ f = "anthropic" -> [type |-> "any", name |-> ""]
    [] OTHER -> [type |-> choice, name |-> ""]

ThinkWord(f, thinking) ==
  CASE thinking = "off" ->
         (CASE f = "ollama_chat" -> "false" [] f = "anthropic" -> "disabled" [] OTHER -> "none")
    [] thinking = "on" ->
         (CASE f = "ollama_chat" -> "true" [] f = "anthropic" -> "enabled" [] OTHER -> "minimal")
    [] OTHER -> thinking

\* The request of each facade for a wish it can say.
Requested(f, wish) ==
  LET word == ThinkWord(f, wish.thinking)
      choice == Choice(f, wish.choice)
  IN CASE f = "ollama_chat" ->
            [tools |-> wish.tools, choice |-> ToolChoice("auto", ""),
             format |-> parse_format(IF wish.format = "text" THEN "absent" ELSE wish.format),
             thinking |-> parse_think(word),
             options |-> parse_options(Limited(wish, "num_predict"))]
       [] f = "openai" ->
            [tools |-> wish.tools, choice |-> parse_tool_choice(choice),
             format |-> parse_response_format(IF wish.format = "json" THEN "json_object" ELSE wish.format),
             thinking |-> parse_reasoning_effort(word),
             options |-> parse_sampling(Limited(wish, "max_completion_tokens"))]
       [] f = "responses" ->
            [tools |-> wish.tools, choice |-> parse_tool_choice(choice), format |-> "text",
             thinking |-> parse_reasoning_effort(word),
             options |-> ResponsesSampling(Limited(wish, "max_output_tokens"))]
       [] f = "anthropic" ->
            [tools |-> wish.tools, choice |-> AnthropicToolChoice(choice), format |-> "text",
             thinking |-> AnthropicThinking(word),
             options |-> AnthropicSampling(Limited(wish, "max_tokens"))]

\* What llama-server should be told of it.
Due(wish) ==
  [tools |-> wish.tools,
   tool_choice |->
     CASE wish.tools = {} \/ wish.choice \in {"absent", "auto"} -> ToolChoice("absent", "")
       [] wish.tools # {} /\ wish.choice = "f" -> ToolChoice("named", "f")
       [] OTHER -> ToolChoice(wish.choice, ""),
   response_format |-> wish.format,
   reasoning_effort |-> CASE wish.thinking = "off" -> "none"
                          [] wish.thinking \in Levels -> wish.thinking
                          [] OTHER -> "",
   enable_thinking |-> wish.thinking \in Levels \cup {"on"},
   options |-> Only(wish.options, {"temperature", "top_k", "mirostat"})
                 @@ (IF wish.limit = 5 THEN "max_tokens" :> 5 ELSE NoOptions)]

(* canonical/request.py:146-161, backend.py:142-234: a wish that two       *)
(* facades can say reaches llama-server as the same parameters, and is     *)
(* refused alike on a model that cannot reason or call tools: reasoning    *)
(* left unsaid is neither asked for nor forbidden, reasoning refused needs *)
(* no capability, a choice is not sent without tools, the limit keeps its  *)
(* value under four names, an option nobody knows gets through, and what   *)
(* configures the runtime goes there and nowhere else (num_keep is lost).  *)
SameSettingsSameParameters ==
  phase = "waiting" /\ turns = <<>> =>
    \A wish \in Wishes, f \in Chats :
      Says(f, wish) =>
        /\ ~Malformed(Requested(f, wish))
        /\ f = "anthropic" => ~LimitMissing(Limited(wish, "max_tokens"))
        /\ serialize_request(Requested(f, wish)) = Due(wish)
        /\ runtime_overrides(wish.options)
             = {[flag |-> "context", value |-> 4] : n \in DOMAIN wish.options \cap {"num_ctx"}}
        /\ \A able \in SUBSET {"thinking", "tools", "vision"} :
             Unsupported(Requested(f, wish), FALSE, able)
               <=> \/ Due(wish).enable_thinking /\ "thinking" \notin able
                   \/ wish.tools # {} /\ "tools" \notin able
=============================================================================

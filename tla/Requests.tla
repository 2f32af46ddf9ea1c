------------------------------ MODULE Requests ------------------------------
(***************************************************************************)
(* From the body of a request to the body sent to llama-server: the        *)
(* parsers of the four facades (api/ollama_parse.py, api/openai.py,        *)
(* api/anthropic.py, api/responses.py), the canonical messages             *)
(* (canonical/messages.py) and their serialisation (backend.py).           *)
(*                                                                         *)
(* A text is a sequence of pieces, so that joining texts is concatenation. *)
(* A refused item is kept in the result as Refusal: the request is then    *)
(* answered 400.  The arguments of a call are an object, either as it came *)
(* or made of one key: [key |-> "", "_raw" or "_value", text].             *)
(***************************************************************************)
EXTENDS Naturals, Sequences, SequencesExt

Refusal == [role |-> "refused"]

\* The canonical messages.
SystemMessage(text) == [role |-> "system", text |-> text]
UserMessage(parts) == [role |-> "user", parts |-> parts]
AssistantMessage(blocks, calls) == [role |-> "assistant", blocks |-> blocks, calls |-> calls]
ToolResultMessage(id, name, text) ==
  [role |-> "tool", call_id |-> id, name |-> name, text |-> text]
ToolCall(id, name, arguments, index) ==
  [id |-> id, name |-> name, arguments |-> arguments, index |-> index]

Block(kind, text) == IF text = <<>> THEN <<>> ELSE <<[kind |-> kind, text |-> text]>>
Image(data) == [kind |-> "image", data |-> data]

\* .text, .reasoning: the pieces of one kind of block, joined.
Joined(blocks, kind) ==
  FlattenSeq([i \in DOMAIN blocks |->
                IF blocks[i].kind = kind THEN blocks[i].text ELSE <<>>])

\* An image that is not the data itself is refused: nothing is fetched.
Picture(p) == IF p.inline THEN Image(p.data) ELSE Refusal

Refused(parts) == Contains(parts, Refusal)
UserTurn(parts) == IF Refused(parts) THEN Refusal ELSE UserMessage(parts)

Arguments(key, text) == [key |-> key, text |-> text]

\* What json.loads makes of a text, in the alphabet of these models.
JsonKind(text) ==
  CASE text = <<"{", "}">> -> "object" [] text = <<"7">> -> "other" [] OTHER -> "invalid"

\* json.dumps of the arguments, which is always the text of an object.
Dumped(arguments) == [json |-> "object", value |-> arguments]

-----------------------------------------------------------------------------
(* link_tool_results *)

Calls(messages) ==
  FlattenSeq([i \in DOMAIN messages |->
                IF messages[i].role = "assistant" THEN messages[i].calls ELSE <<>>])

\* The name of the last call that has this id.
Named(id, messages) ==
  LET calls == Calls(messages)
      known == {i \in DOMAIN calls : calls[i].id # "" /\ calls[i].id = id}
  IN IF known = {} THEN "" ELSE calls[Max(known)].name

link_tool_results(messages) ==
  [i \in DOMAIN messages |->
     IF messages[i].role = "tool" /\ messages[i].name = ""
     THEN [messages[i] EXCEPT !.name = Named(messages[i].call_id, messages)]
     ELSE messages[i]]

-----------------------------------------------------------------------------
(* Ollama: messages of [role, content, thinking, images, tool_calls,       *)
(* tool_call_id, tool_name].                                               *)

OllamaCalls(raw) ==
  [i \in DOMAIN raw |-> ToolCall(raw[i].id, raw[i].name, raw[i].arguments, i - 1)]

parse_message(m) ==
  CASE m.role = "system" -> SystemMessage(m.content)
    [] m.role = "tool" -> ToolResultMessage(m.tool_call_id, m.tool_name, m.content)
    [] m.role = "assistant" ->
         AssistantMessage(Block("reasoning", m.thinking) \o Block("text", m.content),
                          OllamaCalls(m.tool_calls))
    [] m.role \in {"user", ""} ->
         UserTurn(Block("text", m.content)
                    \o [i \in DOMAIN m.images |-> Picture(m.images[i])])
    [] OTHER -> Refusal

parse_chat_request(body) == link_tool_results([i \in DOMAIN body |-> parse_message(body[i])])

\* /api/generate: a system text, a prompt and its images, maybe in raw mode.
parse_generate_request(body) ==
  IF body.raw /\ (body.system # <<>> \/ body.template # <<>>) THEN <<Refusal>>
  ELSE LET parts == Block("text", body.prompt)
                      \o [i \in DOMAIN body.images |-> Picture(body.images[i])]
       IN (IF body.system = <<>> THEN <<>> ELSE <<SystemMessage(body.system)>>)
            \o (IF parts = <<>> THEN <<>> ELSE <<UserTurn(parts)>>)

-----------------------------------------------------------------------------
(* OpenAI Chat Completions: messages of [role, content, reasoning_content, *)
(* tool_calls, tool_call_id, name], whose content is a sequence of parts.  *)

OpenAIPart(p) ==
  CASE p.type \in {"text", "input_text", "output_text"} -> Block("text", p.text)
    [] p.type \in {"image_url", "input_image"} -> <<Picture(p)>>
    [] OTHER -> <<>>

parse_content(raw) == FlattenSeq([i \in DOMAIN raw |-> OpenAIPart(raw[i])])

\* _flatten, of a content that is not refused
Flattened(raw) == Joined(parse_content(raw), "text")

\* Arguments arrive as JSON text: what is not JSON is kept raw, what is JSON
\* but not an object is lost.
OpenAIArguments(a) ==
  CASE a.json = "object" -> a.value
    [] a.json = "invalid" -> Arguments("_raw", a.text)
    [] OTHER -> Arguments("", <<>>)

OpenAICalls(raw) ==
  [i \in DOMAIN raw |->
     ToolCall(raw[i].id, raw[i].name, OpenAIArguments(raw[i].arguments), i - 1)]

OpenAIMessage(m) ==
  IF Refused(parse_content(m.content)) THEN Refusal
  ELSE CASE m.role \in {"system", "developer"} -> SystemMessage(Flattened(m.content))
         [] m.role = "user" -> UserMessage(parse_content(m.content))
         [] m.role = "assistant" ->
              AssistantMessage(Block("reasoning", m.reasoning_content)
                                 \o Block("text", Flattened(m.content)),
                               OpenAICalls(m.tool_calls))
         [] m.role = "tool" -> ToolResultMessage(m.tool_call_id, m.name, Flattened(m.content))
         [] OTHER -> Refusal

parse_chat_messages(body) == [i \in DOMAIN body |-> OpenAIMessage(body[i])]
build_chat_request(body) == link_tool_results(parse_chat_messages(body))

-----------------------------------------------------------------------------
(* Anthropic: [system, messages], messages of [role, blocks].              *)

parse_system(text) == IF text = <<>> THEN <<>> ELSE <<SystemMessage(text)>>

\* Mutant: a result stays where it is, as text of the user's message.
UserBlocksInPlace(blocks) ==
  <<UserTurn(FlattenSeq([i \in DOMAIN blocks |->
      IF blocks[i].type = "image" THEN <<Picture(blocks[i])>>
                                  ELSE Block("text", blocks[i].text)]))>>

\* _parse_user_blocks: the results first, then one message with the rest.
ToolResult(block) ==
  IF block.type = "tool_result"
  THEN <<ToolResultMessage(block.tool_use_id, "", block.text)>> ELSE <<>>
UserPart(block) ==
  CASE block.type = "image" -> <<Picture(block)>>
    [] block.type = "text" -> Block("text", block.text)
    [] OTHER -> <<>>
UserBlocks(blocks) ==
  LET results == FlattenSeq([i \in DOMAIN blocks |-> ToolResult(blocks[i])])
      parts == FlattenSeq([i \in DOMAIN blocks |-> UserPart(blocks[i])])
  IN results \o (IF parts = <<>> THEN <<>> ELSE <<UserTurn(parts)>>)

\* _parse_assistant_blocks: the index of a call is that of its block.
AssistantBlocks(blocks) ==
  AssistantMessage(
    FlattenSeq([i \in DOMAIN blocks |->
      CASE blocks[i].type = "text" -> Block("text", blocks[i].text)
        [] blocks[i].type = "thinking" -> Block("reasoning", blocks[i].text)
        [] OTHER -> <<>>]),
    FlattenSeq([i \in DOMAIN blocks |->
      IF blocks[i].type = "tool_use"
      THEN <<ToolCall(blocks[i].id, blocks[i].name, blocks[i].input, i - 1)>>
      ELSE <<>>]))

parse_messages(messages) ==
  FlattenSeq([i \in DOMAIN messages |->
    CASE messages[i].role = "user" -> UserBlocks(messages[i].blocks)
      [] messages[i].role = "assistant" -> <<AssistantBlocks(messages[i].blocks)>>
      [] OTHER -> <<Refusal>>])

build_request(body) ==
  link_tool_results(parse_system(body.system) \o parse_messages(body.messages))

-----------------------------------------------------------------------------
(* Responses: instructions, then items of [type, role, content, call_id,   *)
(* name, arguments, output, summary].  The calls and the blocks of a turn  *)
(* of the assistant are items: they are pending until something else comes.*)

Pending(acc) == [acc EXCEPT !.calls = <<>>, !.blocks = <<>>]

flush(acc) ==
  IF acc.calls = <<>> /\ acc.blocks = <<>> THEN acc
  ELSE [Pending(acc) EXCEPT
          !.messages = Append(@, AssistantMessage(acc.blocks, acc.calls))]

Flushed(acc, message) == [flush(acc) EXCEPT !.messages = Append(@, message)]

ResponsesMessage(acc, item) ==
  IF Refused(parse_content(item.content)) THEN Flushed(acc, Refusal)
  ELSE CASE item.role = "assistant" ->
              [acc EXCEPT !.blocks = @ \o Block("text", Flattened(item.content))]
         [] item.role \in {"system", "developer"} ->
              Flushed(acc, SystemMessage(Flattened(item.content)))
         [] OTHER -> Flushed(acc, UserMessage(parse_content(item.content)))

ResponsesItem(acc, item) ==
  CASE item.type = "function_call_output" ->
         Flushed(acc, ToolResultMessage(item.call_id, item.name, item.output))
    [] item.type = "function_call" ->
         [acc EXCEPT !.calls = Append(@, ToolCall(item.call_id, item.name,
                                          OpenAIArguments(item.arguments), Len(@)))]
    [] item.type = "reasoning" ->
         [acc EXCEPT !.blocks = @ \o Block("reasoning", item.summary)]
    [] item.type = "message" -> ResponsesMessage(acc, item)
    [] OTHER -> Flushed(acc, Refusal)

parse_input(body) ==
  LET start == [messages |-> parse_system(body.instructions),
                calls |-> <<>>, blocks |-> <<>>]
  IN link_tool_results(flush(FoldLeft(ResponsesItem, start, body.input)).messages)

-----------------------------------------------------------------------------
(* backend.py: serialize_messages.                                         *)

\* _serialize_user_content: a text, unless there are images.
UserContent(parts) ==
  IF \A i \in DOMAIN parts : parts[i].kind = "text" THEN Joined(parts, "text") ELSE parts

serialize_message(m) ==
  CASE m.role = "system" -> [role |-> "system", content |-> m.text]
    [] m.role = "user" -> [role |-> "user", content |-> UserContent(m.parts)]
    [] m.role = "assistant" ->
         [role |-> "assistant", content |-> Joined(m.blocks, "text"),
          reasoning_content |-> Joined(m.blocks, "reasoning"),
          tool_calls |-> [i \in DOMAIN m.calls |->
            [id |-> m.calls[i].id, name |-> m.calls[i].name,
             arguments |-> Dumped(m.calls[i].arguments)]]]
    [] OTHER -> [role |-> "tool", tool_call_id |-> m.call_id, content |-> m.text]

serialize_messages(messages) == [i \in DOMAIN messages |-> serialize_message(messages[i])]
=============================================================================

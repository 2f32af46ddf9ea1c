----------------------------- MODULE Inference ------------------------------
(***************************************************************************)
(* A client holds a conversation, puts it in the form of one facade, and   *)
(* reads the streamed answer.  The modules Requests, Settings and Streams  *)
(* are the code; here are the clients, which the facades exist for, and    *)
(* what they may expect.                                                   *)
(*                                                                         *)
(* llama-server answers whatever it likes: an answer does not depend on    *)
(* the conversation, which is dropped once it has been sent.               *)
(***************************************************************************)
EXTENDS Streams, Settings

CONSTANT MaxTurns                  \* bound on the turns of a conversation

VARIABLE turns

vars == <<streamVars, turns>>

Chats == {"ollama_chat", "openai", "anthropic", "responses"}

-----------------------------------------------------------------------------
(* Turns, whatever the facade.                                             *)

Plain == Arguments("", <<"{", "}">>)
Call(id, name) == [id |-> id, name |-> name, arguments |-> Plain]

TurnsOfInstruction == [kind : {"system", "developer"}, text : {<<"s">>}]
TurnsOfUser == [kind : {"user"}, text : {<<>>, <<"u">>}, image : {"none", "inline", "url"}]
                 \ {[kind |-> "user", text |-> <<>>, image |-> "none"]}
TurnsOfAssistant ==
  [kind : {"assistant"}, reasoning : {<<>>, <<"r">>}, text : {<<>>, <<"t">>},
   calls : {<<>>, <<Call("c1", "f")>>, <<Call("c1", "f"), Call("c2", "g")>>}]
    \ {[kind |-> "assistant", reasoning |-> <<>>, text |-> <<>>, calls |-> <<>>]}
TurnsOfTool == {[kind |-> "tool", id |-> "c1", name |-> "f", text |-> <<"o">>],
                [kind |-> "tool", id |-> "c2", name |-> "g", text |-> <<"o">>]}

\* Two turns of the assistant never follow each other, a result follows its call.
MayFollow(turn) ==
  /\ turn.kind = "assistant" => turns # <<>> /\ Last(turns).kind # "assistant"
  /\ turn.kind = "tool" =>
       \E i \in DOMAIN turns :
         turns[i].kind = "assistant" /\ \E k \in DOMAIN turns[i].calls : turns[i].calls[k].id = turn.id

Speak(turn) ==
  /\ phase = "waiting" /\ Len(turns) < MaxTurns
  /\ MayFollow(turn)
  /\ turns' = Append(turns, turn)
  /\ UNCHANGED streamVars

Ask(asked) == turns # <<>> /\ Begin(asked) /\ turns' = <<>>

Hear ==
  /\ Content \/ Finish \/ Count \/ End \/ Fail \/ Disconnect
  /\ UNCHANGED turns

Init == InitStream /\ turns = <<>>
Next ==
  \/ \E turn \in TurnsOfInstruction \cup TurnsOfUser : Speak(turn)
  \/ \E turn \in TurnsOfAssistant \cup TurnsOfTool : Speak(turn)
  \/ \E asked \in Facades : Ask(asked)
  \/ Hear
Spec == Init /\ [][Next]_vars

-----------------------------------------------------------------------------
(* The clients: one conversation in four forms.                            *)

Pictures(turn, type) ==
  IF turn.image = "none" THEN <<>>
  ELSE <<[type |-> type, inline |-> turn.image = "inline", data |-> "p"]>>
Text(type, text) == IF text = <<>> THEN <<>> ELSE <<[type |-> type, text |-> text]>>

OllamaTurn(t) ==
  [role |-> t.kind, content |-> t.text,
   thinking |-> IF t.kind = "assistant" THEN t.reasoning ELSE <<>>,
   images |-> IF t.kind = "user" THEN Pictures(t, "image") ELSE <<>>,
   tool_calls |-> IF t.kind = "assistant" THEN t.calls ELSE <<>>,
   tool_call_id |-> IF t.kind = "tool" THEN t.id ELSE "",
   tool_name |-> IF t.kind = "tool" THEN t.name ELSE ""]

OpenAITurn(t) ==
  [role |-> t.kind,
   content |-> Text("text", t.text)
                 \o (IF t.kind = "user" THEN Pictures(t, "image_url") ELSE <<>>),
   reasoning_content |-> IF t.kind = "assistant" THEN t.reasoning ELSE <<>>,
   tool_calls |-> IF t.kind = "assistant"
                  THEN [i \in DOMAIN t.calls |-> OpenAICall(t.calls[i])] ELSE <<>>,
   tool_call_id |-> IF t.kind = "tool" THEN t.id ELSE "",
   name |-> ""]

AnthropicBlocks(t) ==
  CASE t.kind = "tool" -> <<[type |-> "tool_result", tool_use_id |-> t.id, text |-> t.text]>>
    [] t.kind = "user" -> Text("text", t.text) \o Pictures(t, "image")
    [] t.kind = "assistant" ->
         Text("thinking", t.reasoning) \o Text("text", t.text)
           \o [i \in DOMAIN t.calls |->
                 [type |-> "tool_use", id |-> t.calls[i].id, name |-> t.calls[i].name,
                  input |-> t.calls[i].arguments]]
    [] OTHER -> Text("text", t.text)

\* The results and the text that comes with them are one message of the user.
AnthropicTurn(messages, t) ==
  LET role == IF t.kind = "tool" THEN "user" ELSE t.kind
  IN IF /\ role = "user" /\ messages # <<>> /\ Last(messages).role = "user"
        /\ Last(Last(messages).blocks).type = "tool_result"
     THEN [messages EXCEPT ![Len(messages)].blocks = @ \o AnthropicBlocks(t)]
     ELSE Append(messages, [role |-> role, blocks |-> AnthropicBlocks(t)])

ResponsesItems(t) ==
  CASE t.kind = "tool" ->
         <<[type |-> "function_call_output", call_id |-> t.id, name |-> "", output |-> t.text]>>
    [] t.kind = "assistant" ->
         ReasoningItem(t.reasoning) \o MessageItem(t.text)
           \o [i \in DOMAIN t.calls |->
                 [type |-> "function_call", call_id |-> t.calls[i].id,
                  name |-> t.calls[i].name, arguments |-> Dumped(t.calls[i].arguments)]]
    [] OTHER ->
         <<[type |-> "message", role |-> t.kind,
            content |-> Text("input_text", t.text)
                          \o (IF t.kind = "user" THEN Pictures(t, "input_image") ELSE <<>>)]>>

\* The system text that opens a conversation has a place of its own.
Opens == turns # <<>> /\ turns[1].kind = "system"
Preamble == IF Opens THEN turns[1].text ELSE <<>>
Body == IF Opens THEN Tail(turns) ELSE turns

Parsed(f) ==
  CASE f = "ollama_chat" -> parse_chat_request([i \in DOMAIN turns |-> OllamaTurn(turns[i])])
    [] f = "openai" -> build_chat_request([i \in DOMAIN turns |-> OpenAITurn(turns[i])])
    [] f = "anthropic" ->
         build_request([system |-> Preamble, messages |-> FoldLeft(AnthropicTurn, <<>>, Body)])
    [] f = "responses" ->
         parse_input([instructions |-> Preamble,
                      input |-> FlattenSeq([i \in DOMAIN Body |-> ResponsesItems(Body[i])])])

-----------------------------------------------------------------------------
(* A prompt of /api/generate: a text, perhaps after a system text.         *)

IsPrompt ==
  /\ turns # <<>> /\ Last(turns).kind = "user"
  /\ Len(turns) = 1 \/ (Len(turns) = 2 /\ turns[1].kind = "system")

PromptBody(raw) ==
  [raw |-> raw, system |-> Preamble, template |-> <<>>, prompt |-> Last(turns).text,
   images |-> Pictures(Last(turns), "image")]

-----------------------------------------------------------------------------
(* What llama-server is to receive.                                        *)

Wanted(t) ==
  CASE t.kind \in {"system", "developer"} -> [role |-> "system", content |-> t.text]
    [] t.kind = "user" ->
         [role |-> "user",
          content |-> IF t.image = "none" THEN t.text ELSE Block("text", t.text) \o <<Image("p")>>]
    [] t.kind = "assistant" ->
         [role |-> "assistant", content |-> t.text, reasoning_content |-> t.reasoning,
          tool_calls |-> [i \in DOMAIN t.calls |-> OpenAICall(t.calls[i])]]
    [] t.kind = "tool" -> [role |-> "tool", tool_call_id |-> t.id, content |-> t.text]

Speakable(f, t) ==
  CASE t.kind = "developer" -> f \in {"openai", "responses"}
    [] t.kind = "system" -> f # "anthropic"
    [] t.kind = "user" -> t.image # "url"
    [] OTHER -> TRUE

Acceptable(f) ==
  \A i \in DOMAIN turns : Speakable(f, turns[i]) \/ (i = 1 /\ turns[1].kind = "system")

ResultNames(messages) ==
  FlattenSeq([i \in DOMAIN messages |->
                IF messages[i].role = "tool" THEN <<messages[i].name>> ELSE <<>>])
TurnNames ==
  FlattenSeq([i \in DOMAIN turns |->
                IF turns[i].kind = "tool" THEN <<turns[i].name>> ELSE <<>>])

(* canonical/messages.py:7-25: one exchange, told to any of the four       *)
(* facades, reaches llama-server as the same messages: every result of a   *)
(* tool stays a message of its own with the id of its call and the name of *)
(* its tool, also where the protocol does not carry it, reasoning never    *)
(* enters the visible text, the calls of a turn stay together and in       *)
(* order; and it is refused when, and only when, the protocol of the       *)
(* facade cannot say it or it points to an image elsewhere.  A prompt of   *)
(* /api/generate is the same exchange, unless it is raw and has a system.  *)
SameExchangeSameRequest ==
  /\ \A f \in Chats :
       IF Acceptable(f)
       THEN /\ serialize_messages(Parsed(f)) = [i \in DOMAIN turns |-> Wanted(turns[i])]
            /\ ResultNames(Parsed(f)) = TurnNames
       ELSE Refused(Parsed(f))
  /\ IsPrompt =>
       \A raw \in BOOLEAN :
         LET parsed == parse_generate_request(PromptBody(raw))
         IN IF Acceptable("ollama_chat") /\ ~(raw /\ Preamble # <<>>)
            THEN serialize_messages(parsed) = [i \in DOMAIN turns |-> Wanted(turns[i])]
            ELSE Refused(parsed)
=============================================================================

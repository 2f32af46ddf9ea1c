---------------------------- MODULE RequestProofs -----------------------------
(***************************************************************************)
(* What a conversation becomes, for every bound on the chunks and on the   *)
(* turns.                                                                  *)
(*                                                                         *)
(* What a client has been told, it can say again: the answer put together  *)
(* from a stream, given back in the next request of the same facade,       *)
(* reaches llama-server as the message that llama-server had produced      *)
(* (AnswersSurviveReplay).                                                 *)
(*                                                                         *)
(* One exchange, told to any of the facades, reaches llama-server as the   *)
(* same messages, or is refused where the protocol of the facade cannot    *)
(* say it (SameExchangesSameRequests).                                     *)
(***************************************************************************)
EXTENDS AnswerProofs

-----------------------------------------------------------------------------
(* The items of Responses are folded into messages, and the turns of a     *)
(* conversation into messages of Anthropic, from left to right.            *)

Items(acc, s) == FoldLeft(ResponsesItem, acc, s)
Bodies(acc, s) == FoldLeft(AnthropicTurn, acc, s)

Step(kind, acc, x) == IF kind = "item" THEN ResponsesItem(acc, x) ELSE AnthropicTurn(acc, x)

\* The function on the sets of positions that a fold computes
Folding(kind, acc, s, n, f) ==
  f = [u \in SUBSET (1..n) |->
         IF u = {} THEN acc ELSE Step(kind, f[u \ {Max(u)}], s[Max(u)])]
Folded(kind, acc, s) == (CHOOSE f : Folding(kind, acc, s, Len(s), f))[1..Len(s)]

\* The greatest of a set of positions that holds the last one
LEMMA TopOf ==
  ASSUME NEW n \in Nat, NEW u \in SUBSET (1..(n + 1)), n + 1 \in u
  PROVE  Max(u) = n + 1 /\ u \ {n + 1} \in SUBSET (1..n)
<1>1. \A x \in u : n + 1 >= x
  OBVIOUS
<1>2. \A x \in u : (\A y \in u : x >= y) => x = n + 1
  OBVIOUS
<1>3. \E x \in u : \A y \in u : x >= y
  BY <1>1
<1>4. Max(u) = CHOOSE x \in u : \A y \in u : x >= y
  BY DEF Max
<1>5. Max(u) \in u /\ \A y \in u : Max(u) >= y
  BY <1>3, <1>4
<1>6. Max(u) = n + 1
  BY <1>2, <1>5
<1>7. u \ {n + 1} \in SUBSET (1..n)
  OBVIOUS
<1> QED
  BY <1>6, <1>7

\* Such a function exists, whatever is folded
LEMMA FoldingExists ==
  ASSUME NEW kind, NEW acc, NEW s, NEW n \in Nat
  PROVE  \E f : Folding(kind, acc, s, n, f)
<1> DEFINE K == {k \in Nat : \E f : Folding(kind, acc, s, k, f)}
<1>1. 0 \in K
  <2> DEFINE f == [u \in {{}} |-> acc]
  <2>1. SUBSET (1..0) = {{}}
    OBVIOUS
  <2>2. Folding(kind, acc, s, 0, f)
    BY <2>1 DEF Folding
  <2> QED
    BY <2>2
<1>2. ASSUME NEW k \in Nat, k \in K PROVE k + 1 \in K
  <2>1. PICK f : Folding(kind, acc, s, k, f)
    BY <1>2
  <2> DEFINE g == [u \in SUBSET (1..(k + 1)) |->
                     IF k + 1 \in u THEN Step(kind, f[u \ {k + 1}], s[k + 1]) ELSE f[u]]
  <2>2. ASSUME NEW u \in SUBSET (1..(k + 1))
        PROVE  g[u] = IF u = {} THEN acc ELSE Step(kind, g[u \ {Max(u)}], s[Max(u)])
    <3>1. CASE k + 1 \in u
      <4>1. Max(u) = k + 1 /\ u \ {k + 1} \in SUBSET (1..k)
        BY <3>1, TopOf
      <4>2. g[u \ {k + 1}] = f[u \ {k + 1}]
        BY <4>1
      <4>3. g[u] = Step(kind, f[u \ {k + 1}], s[k + 1])
        BY <3>1
      <4> HIDE DEF g
      <4> QED
        BY <3>1, <4>1, <4>2, <4>3
    <3>2. CASE k + 1 \notin u
      <4>1. u \in SUBSET (1..k)
        BY <3>2
      <4>2. g[u] = f[u] /\ \A v : u \ {v} \in SUBSET (1..k) /\ g[u \ {v}] = f[u \ {v}]
        BY <3>2, <4>1
      <4>3. f[u] = IF u = {} THEN acc ELSE Step(kind, f[u \ {Max(u)}], s[Max(u)])
        BY <2>1, <4>1 DEF Folding
      <4> HIDE DEF g
      <4> QED
        BY <4>2, <4>3
    <3> QED
      BY <3>1, <3>2
  <2>3. g = [u \in SUBSET (1..(k + 1)) |-> g[u]]
    OBVIOUS
  <2> HIDE DEF g
  <2>4. Folding(kind, acc, s, k + 1, g)
    BY <2>2, <2>3 DEF Folding
  <2> QED
    BY <2>4
<1> HIDE DEF K
<1>3. Nat \subseteq K
  BY <1>1, <1>2, NatSet
<1> QED
  BY <1>3 DEF K

\* The fold is the last value of such a function
LEMMA FoldedBy ==
  ASSUME NEW kind, NEW acc, NEW s, IsSequence(s)
  PROVE  \E f : Folding(kind, acc, s, Len(s), f) /\ Folded(kind, acc, s) = f[1..Len(s)]
<1>1. Len(s) \in Nat /\ DOMAIN s = 1..Len(s)
  BY Appended
<1> DEFINE h == CHOOSE f : Folding(kind, acc, s, Len(s), f)
<1>2. Folding(kind, acc, s, Len(s), h)
  BY <1>1, FoldingExists
<1>3. Folded(kind, acc, s) = h[1..Len(s)]
  BY DEF Folded
<1> QED
  BY <1>2, <1>3

Prolongs(t, s, n) == \A i \in 1..n : t[i] = s[i]

\* The fold of a longer sequence begins as that of the shorter one
LEMMA FoldingAgrees ==
  ASSUME NEW kind, NEW acc, NEW s, NEW t, NEW n \in Nat, Prolongs(t, s, n),
         NEW f, Folding(kind, acc, s, n, f), NEW g, Folding(kind, acc, t, n + 1, g)
  PROVE  \A k \in 0..n : g[1..k] = f[1..k]
<1> DEFINE K == {k \in Nat : k <= n => g[1..k] = f[1..k]}
<1>1. 0 \in K
  <2>1. 1..0 = {} /\ {} \in SUBSET (1..n) /\ {} \in SUBSET (1..(n + 1))
    OBVIOUS
  <2>2. f[{}] = acc /\ g[{}] = acc
    BY <2>1 DEF Folding
  <2> QED
    BY <2>1, <2>2
<1>2. ASSUME NEW k \in Nat, k \in K PROVE k + 1 \in K
  <2> SUFFICES ASSUME k + 1 <= n PROVE g[1..(k + 1)] = f[1..(k + 1)]
    OBVIOUS
  <2> DEFINE u == 1..(k + 1)
  <2>1. u \in SUBSET (1..n) /\ u \in SUBSET (1..(n + 1)) /\ u # {} /\ k + 1 \in 1..n
        /\ u \in SUBSET (1..(k + 1)) /\ k + 1 \in u /\ u \ {k + 1} = 1..k
    OBVIOUS
  <2>2. g[1..k] = f[1..k] /\ t[k + 1] = s[k + 1]
    BY <1>2, <2>1 DEF Prolongs
  <2> HIDE DEF u
  <2>3. Max(u) = k + 1
    BY <2>1, TopOf
  <2>4. f[u] = Step(kind, f[1..k], s[k + 1]) /\ g[u] = Step(kind, g[1..k], t[k + 1])
    BY <2>1, <2>3 DEF Folding
  <2> QED
    BY <2>2, <2>4 DEF u
<1> HIDE DEF K
<1>3. Nat \subseteq K
  BY <1>1, <1>2, NatSet
<1> QED
  BY <1>3 DEF K

\* Nothing is folded to what it began with
LEMMA FoldedEmpty ==
  ASSUME NEW kind, NEW acc
  PROVE  Folded(kind, acc, <<>>) = acc
<1> DEFINE s == <<>>
<1>1. IsSequence(s) /\ Len(s) = 0
  BY ShortSequences
<1> HIDE DEF s
<1>2. PICK f : Folding(kind, acc, s, Len(s), f) /\ Folded(kind, acc, s) = f[1..Len(s)]
  BY <1>1, FoldedBy
<1>3. 1..0 = {} /\ {} \in SUBSET (1..0)
  OBVIOUS
<1>4. f[{}] = acc
  BY <1>1, <1>2, <1>3 DEF Folding
<1>5. Folded(kind, acc, s) = acc
  BY <1>1, <1>2, <1>3, <1>4
<1> QED
  BY <1>5 DEF s

\* One element more is one step more
LEMMA FoldedMore ==
  ASSUME NEW kind, NEW acc, NEW s, IsSequence(s), NEW x
  PROVE  Folded(kind, acc, Append(s, x)) = Step(kind, Folded(kind, acc, s), x)
<1> DEFINE t == Append(s, x)
           n == Len(s)
           u == 1..(n + 1)
<1>1. /\ IsSequence(t) /\ n \in Nat /\ Len(t) = n + 1 /\ t[n + 1] = x
      /\ Prolongs(t, s, n)
  BY Appended DEF Prolongs
<1> HIDE DEF t
<1>2. PICK f : Folding(kind, acc, s, n, f) /\ Folded(kind, acc, s) = f[1..n]
  BY FoldedBy
<1>3. PICK g : Folding(kind, acc, t, Len(t), g) /\ Folded(kind, acc, t) = g[1..Len(t)]
  BY <1>1, FoldedBy
<1> HIDE DEF n
<1>4. Folding(kind, acc, t, n + 1, g) /\ Folded(kind, acc, t) = g[u]
  BY <1>1, <1>3
<1>5. g[1..n] = f[1..n]
  <2>3. /\ n \in Nat /\ Prolongs(t, s, n)
        /\ Folding(kind, acc, s, n, f) /\ Folding(kind, acc, t, n + 1, g)
    BY <1>1, <1>2, <1>4
  <2>1. \A k \in 0..n : g[1..k] = f[1..k]
    BY <2>3, FoldingAgrees
  <2>2. n \in 0..n
    BY <2>3
  <2> QED
    BY <2>1, <2>2
<1>11. n \in Nat
  BY <1>1
<1>6. u \in SUBSET (1..(n + 1)) /\ n + 1 \in u /\ u # {}
  <2>1. n + 1 \in 1..(n + 1)
    BY <1>11
  <2>2. u = 1..(n + 1)
    OBVIOUS
  <2> HIDE DEF u
  <2>3. u # {} /\ n + 1 \in u
    BY <2>1, <2>2
  <2> QED
    BY <2>2, <2>3
<1>10. u \ {n + 1} = 1..n
  BY <1>11
<1> HIDE DEF u
<1>7. Max(u) = n + 1
  BY <1>1, <1>6, TopOf
<1>8. g[u] = Step(kind, g[1..n], x)
  BY <1>1, <1>4, <1>6, <1>7, <1>10 DEF Folding
<1>9. Folded(kind, acc, t) = Step(kind, Folded(kind, acc, s), x)
  BY <1>2, <1>4, <1>5, <1>8
<1> QED
  BY <1>9 DEF t

\* Both folds of the model are such folds
LEMMA ItemsFolded ==
  ASSUME NEW acc, NEW s, IsSequence(s)
  PROVE  Items(acc, s) = Folded("item", acc, s) /\ Bodies(acc, s) = Folded("turn", acc, s)
<1>1. Len(s) \in Nat /\ DOMAIN s = 1..Len(s)
  BY Appended
<1>2. Items(acc, s) = (CHOOSE f : f = [u \in SUBSET (DOMAIN s) |->
         IF u = {} THEN acc ELSE ResponsesItem(f[u \ {Max(u)}], s[Max(u)])])[DOMAIN s]
  BY DEF Items, FoldLeft, MapThenFoldSet
<1>3. Bodies(acc, s) = (CHOOSE f : f = [u \in SUBSET (DOMAIN s) |->
         IF u = {} THEN acc ELSE AnthropicTurn(f[u \ {Max(u)}], s[Max(u)])])[DOMAIN s]
  BY DEF Bodies, FoldLeft, MapThenFoldSet
<1>4. "turn" # "item"
  OBVIOUS
<1> QED
  BY <1>1, <1>2, <1>3, <1>4 DEF Folded, Folding, Step

\* Without items nothing changes
LEMMA NoItems ==
  ASSUME NEW acc
  PROVE  Items(acc, <<>>) = acc /\ Bodies(acc, <<>>) = acc
<1> DEFINE s == <<>>
<1>1. IsSequence(s)
  BY ShortSequences
<1>2. Folded("item", acc, <<>>) = acc /\ Folded("turn", acc, <<>>) = acc
  BY FoldedEmpty
<1>3. Folded("item", acc, s) = acc /\ Folded("turn", acc, s) = acc
  BY <1>2
<1> HIDE DEF s
<1>4. Items(acc, s) = acc /\ Bodies(acc, s) = acc
  BY <1>1, <1>3, ItemsFolded
<1> QED
  BY <1>4 DEF s

\* One item more is one step more
LEMMA ItemsMore ==
  ASSUME NEW acc, NEW s, IsSequence(s), NEW x
  PROVE  /\ Items(acc, Append(s, x)) = ResponsesItem(Items(acc, s), x)
         /\ Bodies(acc, Append(s, x)) = AnthropicTurn(Bodies(acc, s), x)
<1> DEFINE t == Append(s, x)
<1>1. IsSequence(t)
  BY Appended
<1>2. /\ Folded("item", acc, Append(s, x)) = Step("item", Folded("item", acc, s), x)
      /\ Folded("turn", acc, Append(s, x)) = Step("turn", Folded("turn", acc, s), x)
  BY FoldedMore
<1>3. /\ Folded("item", acc, t) = Step("item", Folded("item", acc, s), x)
      /\ Folded("turn", acc, t) = Step("turn", Folded("turn", acc, s), x)
  BY <1>2
<1> HIDE DEF t
<1>4. /\ Items(acc, s) = Folded("item", acc, s) /\ Bodies(acc, s) = Folded("turn", acc, s)
      /\ Items(acc, t) = Folded("item", acc, t) /\ Bodies(acc, t) = Folded("turn", acc, t)
  BY <1>1, ItemsFolded
<1>5. \A y : Step("item", y, x) = ResponsesItem(y, x) /\ Step("turn", y, x) = AnthropicTurn(y, x)
  <2>1. "turn" # "item"
    OBVIOUS
  <2> QED
    BY <2>1 DEF Step
<1>6. Items(acc, t) = ResponsesItem(Items(acc, s), x)
  BY <1>3, <1>4, <1>5
<1>7. Bodies(acc, t) = AnthropicTurn(Bodies(acc, s), x)
  BY <1>3, <1>4, <1>5
<1> QED
  BY <1>6, <1>7 DEF t

-----------------------------------------------------------------------------
(* The next request: the answer is parsed again, and serialized.           *)

Serialized(text, reasoning, calls) ==
  [role |-> "assistant", content |-> text, reasoning_content |-> reasoning,
   tool_calls |-> [i \in DOMAIN calls |-> OpenAICall(calls[i])]]

\* The call of an assistant message, by its content
SameCall(call, other) ==
  call.id = other.id /\ call.name = other.name /\ call.arguments = other.arguments
SameCallLists(calls, others) ==
  DOMAIN calls = DOMAIN others /\ \A i \in DOMAIN others : SameCall(calls[i], others[i])

\* An assistant message is serialized by its texts and its calls
LEMMA AssistantSerialized ==
  ASSUME NEW blocks, NEW calls, NEW others, SameCallLists(calls, others)
  PROVE  serialize_message(AssistantMessage(blocks, calls)) =
           Serialized(Joined(blocks, "text"), Joined(blocks, "reasoning"), others)
<1> DEFINE m == AssistantMessage(blocks, calls)
<1>1. m.role = "assistant" /\ m.blocks = blocks /\ m.calls = calls
  BY DEF AssistantMessage
<1> HIDE DEF m
<1>2. serialize_message(m) =
        [role |-> "assistant", content |-> Joined(m.blocks, "text"),
         reasoning_content |-> Joined(m.blocks, "reasoning"),
         tool_calls |-> [i \in DOMAIN m.calls |-> OpenAICall(m.calls[i])]]
  BY <1>1 DEF serialize_message, OpenAICall
<1>3. \A i \in DOMAIN others : OpenAICall(calls[i]) = OpenAICall(others[i])
  BY DEF SameCallLists, SameCall, OpenAICall
<1>4. [i \in DOMAIN calls |-> OpenAICall(calls[i])] =
        [i \in DOMAIN others |-> OpenAICall(others[i])]
  BY <1>3 DEF SameCallLists
<1> QED
  BY <1>1, <1>2, <1>4 DEF Serialized, m

\* What is to be sent again, facade by facade
Given ==
  serialize_message(AssistantMessage(Whole.content, Whole.calls))

\* It has the texts and the calls of the chunks
LEMMA GivenSerialized ==
  ASSUME NEW b, Before(b)
  PROVE  Given = Serialized(TextOf(sent), ReasoningOf(sent), Whole.calls)
<1> DEFINE calls == Whole.calls
           content == Whole.content
<1>1. SameCallLists(calls, calls)
  BY DEF SameCallLists, SameCall
<1>2. Given = serialize_message(AssistantMessage(content, calls))
  BY DEF Given
<1>3. Joined(content, "text") = TextOf(sent) /\ Joined(content, "reasoning") = ReasoningOf(sent)
  BY DEF Before
<1> HIDE DEF calls, content
<1>4. serialize_message(AssistantMessage(content, calls)) =
        Serialized(Joined(content, "text"), Joined(content, "reasoning"), calls)
  BY <1>1, AssistantSerialized
<1> QED
  BY <1>2, <1>3, <1>4 DEF calls

\* A message of two blocks at most, reasoning and text
LEMMA TwoBlocksSerialized ==
  ASSUME NEW text, IsSequence(text), NEW reasoning, IsSequence(reasoning),
         NEW calls, NEW others, SameCallLists(calls, others)
  PROVE  serialize_message(AssistantMessage(Block("reasoning", reasoning) \o Block("text", text),
     calls)) =
           Serialized(text, reasoning, others)
<1> DEFINE d == Block("reasoning", reasoning) \o Block("text", text)
<1>1. JoinsTo(d, reasoning, text)
  BY BlocksJoined
<1> HIDE DEF d
<1>2. serialize_message(AssistantMessage(d, calls)) =
        Serialized(Joined(d, "text"), Joined(d, "reasoning"), others)
  BY AssistantSerialized
<1>3. serialize_message(AssistantMessage(d, calls)) = Serialized(text, reasoning, others)
  BY <1>1, <1>2 DEF JoinsTo
<1> QED
  BY <1>3 DEF d

-----------------------------------------------------------------------------
(* Ollama.                                                                 *)

\* An answer of /api/chat, said again
LEMMA OllamaReplayed ==
  ASSUME NEW b, Before(b), facade = "ollama_chat"
  PROVE  serialize_message(Replayed) = Serialized(TextOf(sent), ReasoningOf(sent), Whole.calls)
<1> DEFINE t == TextOf(sent)
           r == ReasoningOf(sent)
           calls == Whole.calls
           m == [role |-> "assistant", content |-> t, thinking |-> r, tool_calls |-> calls]
<1>1. Heard = Paid
  BY OllamaAgrees
<1>2. Paid.content = t /\ Paid.thinking = r /\ Paid.tool_calls = calls
  <2>1. Paid = chat_final(Whole).message
    BY DEF Paid
  <2> QED
    BY <2>1 DEF chat_final, Before
<1>3. IsSequence(t) /\ IsSequence(r)
  BY DEF Before
<1>4. Replayed = parse_message(m)
  BY <1>1, <1>2 DEF Replayed
<1>5. m.role = "assistant" /\ m.content = t /\ m.thinking = r /\ m.tool_calls = calls
  OBVIOUS
<1> HIDE DEF t, r, calls, m
<1>6. Replayed = AssistantMessage(Block("reasoning", r) \o Block("text", t), OllamaCalls(calls))
  BY <1>4, <1>5 DEF parse_message
<1>7. SameCallLists(OllamaCalls(calls), calls)
  BY DEF OllamaCalls, SameCallLists, SameCall, ToolCall
<1>8. serialize_message(Replayed) = Serialized(t, r, calls)
  BY <1>3, <1>6, <1>7, TwoBlocksSerialized
<1> QED
  BY <1>8 DEF t, r, calls

-----------------------------------------------------------------------------
(* OpenAI.                                                                 *)

\* A content of one text, or none
LEMMA TextContent ==
  ASSUME NEW text, IsSequence(text), NEW type \in {"text", "input_text", "output_text"}
  PROVE  /\ Flattened(Text(type, text)) = text /\ ~Refused(parse_content(Text(type, text)))
         /\ parse_content(Text(type, text)) = Block("text", text)
<1> DEFINE raw == Text(type, text)
           g == [i \in DOMAIN raw |-> OpenAIPart(raw[i])]
           d == Block("text", text)
<1>1. parse_content(raw) = d
  <2>1. CASE text = <<>>
    <3>1. raw = <<>> /\ d = <<>>
      BY <2>1 DEF Text, Block
    <3>2. Family(g, 0)
      BY <3>1, ShortSequences DEF Family
    <3> HIDE DEF g
    <3>3. FlattenSeq(g) = <<>>
      BY <3>2, FlattenedEmpty
    <3> QED
      BY <3>1, <3>3 DEF parse_content, g
  <2>2. CASE text # <<>>
    <3> DEFINE p == [type |-> type, text |-> text]
               x == <<p>>
               none == [i \in 1..0 |-> g[i]]
    <3>1. raw = x /\ p.type = type /\ p.text = text
      BY <2>2 DEF Text
    <3> HIDE DEF p
    <3>2. DOMAIN x = 1..1 /\ x[1] = p
      OBVIOUS
    <3>3. IsSequence(d) /\ OpenAIPart(p) = d
      BY <3>1, ShortSequences DEF OpenAIPart, Block
    <3> HIDE DEF x, d
    <3>4. Family(g, 1) /\ g[1] = d
      BY <3>1, <3>2, <3>3 DEF Family
    <3>5. Family(none, 0) /\ Extends(g, none, 0)
      BY ShortSequences DEF Family, Extends
    <3> HIDE DEF g, none
    <3>6. FlattenSeq(g) = FlattenSeq(none) \o g[0 + 1]
      <4>1. Family(g, 0 + 1)
        BY <3>4
      <4> QED
        BY <4>1, <3>5, FlattenedOneMore
    <3>7. FlattenSeq(none) = <<>> /\ <<>> \o d = d
      BY <3>3, <3>5, FlattenedEmpty, Concatenation
    <3> QED
      BY <3>4, <3>6, <3>7 DEF parse_content, g
  <2> QED
    BY <2>1, <2>2
<1>2. ~Refused(d)
  <2>1. \A i \in DOMAIN d : d[i] = [kind |-> "text", text |-> text]
    BY ShortSequences DEF Block
  <2>2. [kind |-> "text", text |-> text] # Refusal
    <3>1. "kind" \in DOMAIN [kind |-> "text", text |-> text] /\ "kind" \notin DOMAIN Refusal
      BY DEF Refusal
    <3> QED
      BY <3>1
  <2> QED
    BY <2>1, <2>2 DEF Refused, Contains
<1>3. Joined(d, "text") = text
  <2>1. NotesMore(<<>>, d, "text", text)
    <3>1. IsSequence(d)
      BY ShortSequences DEF Block
    <3> HIDE DEF d
    <3>2. <<>> \o d = d
      BY <3>1, Concatenation
    <3> QED
      BY <3>2 DEF NotesMore, d
  <2> HIDE DEF d
  <2>2. ContentTyped(<<>>) /\ Joined(<<>>, "text") = <<>>
    BY NothingNoted
  <2>3. JoinsMore(<<>>, d, "text", text)
    BY <2>1, <2>2, BlockNoted
  <2> QED
    BY <2>2, <2>3, Concatenation DEF JoinsMore
<1> QED
  BY <1>1, <1>2, <1>3 DEF Flattened

\* An answer of chat completions, said again
LEMMA OpenAIReplayed ==
  ASSUME NEW b, Before(b), facade = "openai"
  PROVE  serialize_message(Replayed) = Serialized(TextOf(sent), ReasoningOf(sent), Whole.calls)
<1> DEFINE t == TextOf(sent)
           r == ReasoningOf(sent)
           calls == Whole.calls
           raw == [i \in DOMAIN calls |-> OpenAICall(calls[i])]
           m == [role |-> "assistant", content |-> Text("text", t), reasoning_content |-> r,
                 tool_calls |-> raw]
<1>1. Heard = Paid
  BY OpenAIAgrees
<1>2. Paid.content = t /\ Paid.reasoning_content = r /\ Paid.tool_calls = raw
  <2>1. Paid = chat_completion_payload(Whole).message
    BY DEF Paid
  <2> QED
    BY <2>1 DEF chat_completion_payload, Before
<1>3. IsSequence(t) /\ IsSequence(r)
  BY DEF Before
<1>4. Replayed = OpenAIMessage(m)
  BY <1>1, <1>2 DEF Replayed
<1>5. /\ m.role = "assistant" /\ m.content = Text("text", t) /\ m.reasoning_content = r
      /\ m.tool_calls = raw
  OBVIOUS
<1> HIDE DEF t, r, calls
<1>6. SameCallLists(OpenAICalls(raw), calls)
  BY DEF OpenAICalls, OpenAICall, OpenAIArguments, Dumped, SameCallLists, SameCall, ToolCall
<1> HIDE DEF raw, m
<1>7. Flattened(Text("text", t)) = t /\ ~Refused(parse_content(Text("text", t)))
  BY <1>3, TextContent
<1>8. Replayed = AssistantMessage(Block("reasoning", r) \o Block("text", t), OpenAICalls(raw))
  BY <1>4, <1>5, <1>7 DEF OpenAIMessage
<1>9. serialize_message(Replayed) = Serialized(t, r, calls)
  BY <1>3, <1>6, <1>8, TwoBlocksSerialized
<1> QED
  BY <1>9 DEF t, r, calls

-----------------------------------------------------------------------------
(* Responses.                                                              *)

ItemOf(call) ==
  [type |-> "function_call", call_id |-> call.id, name |-> call.name,
   arguments |-> Dumped(call.arguments)]
ItemsOf(calls) == [i \in DOMAIN calls |-> ItemOf(calls[i])]

\* A turn of the assistant that is pending: its blocks, and its first calls
PendingTurn(acc, before, blocks, calls, n) ==
  /\ acc = [messages |-> before, calls |-> acc.calls, blocks |-> blocks]
  /\ IsSequence(acc.calls) /\ Len(acc.calls) = n
  /\ \A i \in 1..n : SameCall(acc.calls[i], calls[i])
AtRest(acc, before) == acc = [messages |-> before, calls |-> <<>>, blocks |-> <<>>]

\* Between two turns nothing is pending
LEMMA NothingPending ==
  ASSUME NEW acc, NEW before, AtRest(acc, before), NEW calls
  PROVE  PendingTurn(acc, before, <<>>, calls, 0)
<1>1. acc = [messages |-> before, calls |-> <<>>, blocks |-> <<>>]
  BY DEF AtRest
<1>2. acc.calls = <<>>
  BY <1>1
<1> QED
  BY <1>1, <1>2, ShortSequences DEF PendingTurn

Adding(acc, block) == [acc EXCEPT !.blocks = @ \o block]

\* A block is pending with the others
LEMMA BlockPending ==
  ASSUME NEW acc, NEW before, NEW blocks, NEW calls, NEW n, PendingTurn(acc, before, blocks, calls,
         n), NEW block
  PROVE  PendingTurn(Adding(acc, block), before, blocks \o block, calls, n)
<1> DEFINE t == Adding(acc, block)
           more == blocks \o block
           mine == acc.calls
<1>1. acc = [messages |-> before, calls |-> mine, blocks |-> blocks]
  BY DEF PendingTurn
<1> HIDE DEF mine
<1>6. acc.blocks = blocks
  BY <1>1
<1>7. t = [acc EXCEPT !.blocks = more]
  BY <1>6, Zenon DEF Adding
<1> HIDE DEF t, more
<1>2. t = [messages |-> before, calls |-> mine, blocks |-> more]
  BY <1>1, <1>7
<1>3. t.calls = mine
  BY <1>2
<1>4. t = [messages |-> before, calls |-> t.calls, blocks |-> more]
  BY <1>2, <1>3
<1>5. PendingTurn(t, before, more, calls, n)
  BY <1>3, <1>4 DEF PendingTurn, mine
<1> QED
  BY <1>5 DEF t, more

\* An item with the reasoning
LEMMA ReasoningTaken ==
  ASSUME NEW acc, NEW before, NEW a, IsSequence(a), NEW t, IsSequence(t), NEW blocks,
         IsSequence(blocks),
         NEW calls, PendingTurn(Items(acc, a), before, blocks, calls, 0)
  PROVE  PendingTurn(Items(acc, a \o ReasoningItem(t)), before, blocks \o Block("reasoning", t),
     calls, 0)
<1> DEFINE s == ReasoningItem(t)
           d == Block("reasoning", t)
           none == <<>>
<1>1. CASE t = <<>>
  <2>1. s = none /\ d = none
    BY <1>1 DEF ReasoningItem, Block
  <2>2. a \o <<>> = a /\ blocks \o <<>> = blocks
    BY Concatenation
  <2> QED
    BY <2>1, <2>2
<1>2. CASE t # <<>>
  <2> DEFINE x == [type |-> "reasoning", summary |-> t]
             u == Items(acc, a)
  <2>1. x.type = "reasoning" /\ x.summary = t /\ s = <<x>>
    BY <1>2 DEF ReasoningItem
  <2> HIDE DEF x
  <2>2. a \o <<x>> = Append(a, x)
    BY OneBehind
  <2>3. Items(acc, Append(a, x)) = ResponsesItem(u, x)
    BY ItemsMore
  <2> HIDE DEF u
  <2>5. ResponsesItem(u, x) = Adding(u, d)
    BY <2>1 DEF ResponsesItem, Adding
  <2>6. PendingTurn(Adding(u, d), before, blocks \o d, calls, 0)
    BY BlockPending DEF u
  <2>7. a \o s = Append(a, x)
    BY <2>1, <2>2
  <2> QED
    BY <2>3, <2>5, <2>6, <2>7
<1> QED
  BY <1>1, <1>2

\* An item with the text
LEMMA MessageTaken ==
  ASSUME NEW acc, NEW before, NEW a, IsSequence(a), NEW t, IsSequence(t), NEW blocks,
         IsSequence(blocks),
         NEW calls, PendingTurn(Items(acc, a), before, blocks, calls, 0)
  PROVE  PendingTurn(Items(acc, a \o MessageItem(t)), before, blocks \o Block("text", t), calls, 0)
<1> DEFINE s == MessageItem(t)
           d == Block("text", t)
           none == <<>>
<1>1. CASE t = <<>>
  <2>1. s = none /\ d = none
    BY <1>1 DEF MessageItem, Block
  <2>2. a \o <<>> = a /\ blocks \o <<>> = blocks
    BY Concatenation
  <2> QED
    BY <2>1, <2>2
<1>2. CASE t # <<>>
  <2> DEFINE x == [type |-> "message", role |-> "assistant",
                   content |-> <<[type |-> "output_text", text |-> t]>>]
             u == Items(acc, a)
  <2>1. /\ x.type = "message" /\ x.role = "assistant" /\ x.content = Text("output_text", t)
        /\ s = <<x>>
    BY <1>2 DEF MessageItem, Text
  <2> HIDE DEF x
  <2>2. a \o <<x>> = Append(a, x)
    BY OneBehind
  <2>3. Items(acc, Append(a, x)) = ResponsesItem(u, x)
    BY ItemsMore
  <2>4. ~Refused(parse_content(Text("output_text", t))) /\ Flattened(Text("output_text", t)) = t
    BY TextContent
  <2> HIDE DEF u
  <2>5. ResponsesItem(u, x) = Adding(u, d)
    <3>1. ResponsesItem(u, x) = ResponsesMessage(u, x)
      BY <2>1 DEF ResponsesItem
    <3>2. ~Refused(parse_content(x.content)) /\ Flattened(x.content) = t
      BY <2>1, <2>4
    <3>3. ResponsesMessage(u, x) = [u EXCEPT !.blocks = @ \o Block("text", Flattened(x.content))]
      BY <2>1, <3>2 DEF ResponsesMessage
    <3> QED
      BY <3>1, <3>2, <3>3 DEF Adding
  <2>6. PendingTurn(Adding(u, d), before, blocks \o d, calls, 0)
    BY BlockPending DEF u
  <2>7. a \o s = Append(a, x)
    BY <2>1, <2>2
  <2> QED
    BY <2>3, <2>5, <2>6, <2>7
<1> QED
  BY <1>1, <1>2

Calling(acc, call) ==
  [acc EXCEPT !.calls = Append(@, ToolCall(call.id, call.name, call.arguments, Len(@)))]

\* A call is pending with the others
LEMMA CallPending ==
  ASSUME NEW acc, NEW before, NEW blocks, NEW calls, NEW n \in Nat, PendingTurn(acc, before,
         blocks, calls, n)
  PROVE  PendingTurn(Calling(acc, calls[n + 1]), before, blocks, calls, n + 1)
<1> DEFINE c == calls[n + 1]
           mine == acc.calls
           k == ToolCall(c.id, c.name, c.arguments, Len(mine))
           more == Append(mine, k)
           t == Calling(acc, c)
<1>1. /\ acc = [messages |-> before, calls |-> mine, blocks |-> blocks]
      /\ IsSequence(mine) /\ Len(mine) = n /\ \A i \in 1..n : SameCall(mine[i], calls[i])
  BY DEF PendingTurn
<1>2. SameCall(k, c)
  BY DEF SameCall, ToolCall
<1> HIDE DEF mine, c
<1>3. t = [messages |-> before, calls |-> more, blocks |-> blocks]
  <2>1. t = [acc EXCEPT !.calls = more]
    BY DEF Calling, mine
  <2> HIDE DEF t, more
  <2>2. acc = [messages |-> before, calls |-> mine, blocks |-> blocks]
    BY <1>1
  <2> QED
    BY <2>1, <2>2
<1> HIDE DEF k
<1>4. /\ IsSequence(more) /\ Len(more) = n + 1 /\ more[n + 1] = k
      /\ \A i \in 1..n : more[i] = mine[i]
  BY <1>1, Appended
<1>5. t.calls = more
  BY <1>3
<1>6. t = [messages |-> before, calls |-> t.calls, blocks |-> blocks]
  BY <1>3, <1>5
<1> HIDE DEF t, more
<1>7. \A i \in 1..(n + 1) : i \in 1..n \/ i = n + 1
  OBVIOUS
<1>8. SameCall(more[n + 1], calls[n + 1]) /\ \A i \in 1..n : SameCall(more[i], calls[i])
  BY <1>1, <1>2, <1>4 DEF c
<1>9. \A i \in 1..(n + 1) : SameCall(more[i], calls[i])
  BY <1>7, <1>8
<1>10. PendingTurn(t, before, blocks, calls, n + 1)
  BY <1>4, <1>5, <1>6, <1>9 DEF PendingTurn
<1> QED
  BY <1>10 DEF t, c

\* A function on the first numbers is a sequence
LEMMA FunctionListed ==
  ASSUME NEW n \in Nat, NEW list, DOMAIN list = 1..n, list = [i \in 1..n |-> list[i]]
  PROVE  IsSequence(list)
<1> DEFINE S == {list[i] : i \in DOMAIN list}
<1>1. \A i \in 1..n : list[i] \in S
  OBVIOUS
<1> HIDE DEF S
<1>2. list \in [1..n -> S]
  BY <1>1
<1>3. list \in Seq(S)
  BY <1>2
<1> QED
  BY <1>3, SequenceOf

\* The first items of the calls
FirstItems(calls, n) == [i \in 1..n |-> ItemOf(calls[i])]

\* One item more for one call more
LEMMA NextItem ==
  ASSUME NEW calls, NEW n \in Nat
  PROVE  /\ IsSequence(FirstItems(calls, n))
         /\ FirstItems(calls, n + 1) = Append(FirstItems(calls, n), ItemOf(calls[n + 1]))
<1> DEFINE p == FirstItems(calls, n)
           q == FirstItems(calls, n + 1)
           e == ItemOf(calls[n + 1])
<1>1. DOMAIN p = 1..n /\ \A i \in 1..n : p[i] = ItemOf(calls[i])
  BY DEF FirstItems
<1>2. q = [i \in 1..(n + 1) |-> q[i]] /\ q[n + 1] = e /\ \A i \in 1..n : q[i] = ItemOf(calls[i])
  BY DEF FirstItems
<1>3. IsSequence(p)
  <2>1. p = [i \in 1..n |-> p[i]]
    BY DEF FirstItems
  <2> HIDE DEF p
  <2> QED
    BY <1>1, <2>1, FunctionListed
<1>4. Len(p) = n
  BY <1>1
<1> HIDE DEF p, q, e
<1> DEFINE w == Append(p, e)
<1>5. IsSequence(w) /\ DOMAIN w = 1..(n + 1) /\ w[n + 1] = e /\ \A i \in 1..n : w[i] = p[i]
  BY <1>3, <1>4, Appended
<1> HIDE DEF w
<1>6. w = [i \in 1..(n + 1) |-> w[i]]
  BY <1>5 DEF IsSequence
<1>7. \A i \in 1..(n + 1) : i \in 1..n \/ i = n + 1
  OBVIOUS
<1>8. \A i \in 1..(n + 1) : w[i] = q[i]
  BY <1>1, <1>2, <1>5, <1>7
<1>9. q = w
  BY <1>2, <1>6, <1>8
<1> QED
  BY <1>3, <1>9 DEF p, q, e, w

\* The items of the calls
LEMMA CallsTaken ==
  ASSUME NEW acc, NEW before, NEW a, IsSequence(a), NEW blocks, NEW calls,
         PendingTurn(Items(acc, a), before, blocks, calls, 0)
  PROVE  \A n \in Nat : PendingTurn(Items(acc, a \o FirstItems(calls, n)), before, blocks, calls, n)
<1> DEFINE K == {n \in Nat :
                   PendingTurn(Items(acc, a \o FirstItems(calls, n)), before, blocks, calls, n)}
<1>1. 0 \in K
  <2> DEFINE p == FirstItems(calls, 0)
  <2>1. p = <<>>
    BY DEF FirstItems
  <2>2. a \o <<>> = a
    BY Concatenation
  <2> QED
    BY <2>1, <2>2
<1>2. ASSUME NEW n \in Nat, n \in K PROVE n + 1 \in K
  <2> DEFINE p == FirstItems(calls, n)
             e == ItemOf(calls[n + 1])
             s == a \o p
             u == Items(acc, s)
  <2>1. IsSequence(p) /\ FirstItems(calls, n + 1) = Append(p, e)
    BY NextItem
  <2> HIDE DEF p
  <2>2. a \o Append(p, e) = Append(s, e)
    <3> DEFINE v == <<e>>
    <3>1. IsSequence(p) /\ IsSequence(v)
      BY <2>1, ShortSequences
    <3>5. IsSequence(s)
      BY <3>1, Concatenation
    <3> HIDE DEF v
    <3>2. (a \o p) \o v = a \o (p \o v)
      BY <3>1, Associative
    <3> USE DEF v
    <3>3. p \o <<e>> = Append(p, e)
      BY <2>1, OneBehind
    <3> HIDE DEF e
    <3>4. s \o <<e>> = Append(s, e)
      BY <3>5, OneBehind
    <3> QED
      BY <3>2, <3>3, <3>4
  <2>3. IsSequence(s)
    BY <2>1, Concatenation
  <2>4. PendingTurn(u, before, blocks, calls, n)
    BY <1>2 DEF p
  <2> HIDE DEF s
  <2>5. Items(acc, Append(s, e)) = ResponsesItem(u, e)
    BY <2>3, ItemsMore
  <2> HIDE DEF u
  <2>6. ResponsesItem(u, e) = Calling(u, calls[n + 1])
    <3> DEFINE c == calls[n + 1]
    <3>1. /\ e.type = "function_call" /\ e.call_id = c.id /\ e.name = c.name
          /\ e.arguments = Dumped(c.arguments)
      BY DEF ItemOf
    <3>2. OpenAIArguments(Dumped(c.arguments)) = c.arguments
      BY DumpedRead
    <3> HIDE DEF e, c
    <3>3. ResponsesItem(u, e) =
            [u EXCEPT !.calls =
               Append(@, ToolCall(e.call_id, e.name, OpenAIArguments(e.arguments), Len(@)))]
      BY <3>1 DEF ResponsesItem
    <3>4. ResponsesItem(u, e) = Calling(u, c)
      BY <3>1, <3>2, <3>3 DEF Calling
    <3> QED
      BY <3>4 DEF c
  <2>7. PendingTurn(Calling(u, calls[n + 1]), before, blocks, calls, n + 1)
    BY <2>4, CallPending
  <2>8. a \o FirstItems(calls, n + 1) = Append(s, e)
    BY <2>1, <2>2
  <2> HIDE DEF e
  <2>9. PendingTurn(Items(acc, Append(s, e)), before, blocks, calls, n + 1)
    BY <2>5, <2>6, <2>7
  <2>10. PendingTurn(Items(acc, a \o FirstItems(calls, n + 1)), before, blocks, calls, n + 1)
    BY <2>8, <2>9
  <2> QED
    BY <2>10
<1> HIDE DEF K
<1>3. Nat \subseteq K
  BY <1>1, <1>2, NatSet
<1> QED
  BY <1>3 DEF K

-----------------------------------------------------------------------------
(* The whole turn of Responses.                                            *)

TurnItems(r, t, calls) == ReasoningItem(r) \o MessageItem(t) \o ItemsOf(calls)
TurnBlocks(r, t) == Block("reasoning", r) \o Block("text", t)

Three(b, c, d) == b \o c \o d
Behind(a, b) == a \o b
OneByOne(a, b, c, d) == ((a \o b) \o c) \o d

\* Four sequences, one after the other
LEMMA FourTogether ==
  ASSUME NEW a, IsSequence(a), NEW b, IsSequence(b), NEW c, IsSequence(c), NEW d, IsSequence(d)
  PROVE  Behind(a, Three(b, c, d)) = OneByOne(a, b, c, d)
<1> DEFINE p == b \o c
<1>1. IsSequence(p)
  BY Concatenation
<1>2. PICK S : a \in Seq(S) /\ b \in Seq(S) /\ c \in Seq(S)
  BY Together
<1>3. (a \o b) \o c = a \o p
  BY <1>2, ConcatAssociative
<1> HIDE DEF p
<1>4. (a \o p) \o d = a \o (p \o d)
  BY <1>1, Associative
<1> QED
  BY <1>3, <1>4 DEF p, Behind, Three, OneByOne

\* The items of a turn, folded after others
LEMMA TurnTaken ==
  ASSUME NEW acc, NEW a, IsSequence(a), NEW before, AtRest(Items(acc, a), before),
         NEW r, IsSequence(r), NEW t, IsSequence(t), NEW calls, IsSequence(calls)
  PROVE  PendingTurn(Items(acc, a \o TurnItems(r, t, calls)), before, TurnBlocks(r, t), calls,
                     Len(calls))
<1> DEFINE b == ReasoningItem(r)
           c == MessageItem(t)
           n == Len(calls)
           d == Block("reasoning", r)
           e == Block("text", t)
           none == <<>>
           rest == FirstItems(calls, n)
<1>1. IsSequence(b) /\ IsSequence(c) /\ IsSequence(d) /\ IsSequence(e) /\ IsSequence(none)
  BY ShortSequences DEF ReasoningItem, MessageItem, Block
<1>2. n \in Nat /\ ItemsOf(calls) = rest
  BY Appended DEF ItemsOf, FirstItems
<1>3. IsSequence(rest)
  BY <1>2, NextItem
<1>4. PendingTurn(Items(acc, a), before, none, calls, 0)
  BY NothingPending
<1>5. PendingTurn(Items(acc, a \o b), before, none \o d, calls, 0)
  <2> HIDE DEF none
  <2> QED
    BY <1>1, <1>4, ReasoningTaken
<1>6. none \o d = d
  <2> HIDE DEF d, none
  <2> QED
    BY <1>1, Concatenation DEF none
<1> DEFINE p == a \o b
           q == p \o c
           blocks == d \o e
<1>7. IsSequence(p)
  <2> HIDE DEF b
  <2> QED
    BY <1>1, Concatenation
<1>8. PendingTurn(Items(acc, p), before, d, calls, 0)
  BY <1>5, <1>6
<1> HIDE DEF p, d
<1>9. PendingTurn(Items(acc, q), before, blocks, calls, 0)
  BY <1>1, <1>7, <1>8, MessageTaken
<1>10. IsSequence(q)
  <2> HIDE DEF c
  <2> QED
    BY <1>1, <1>7, Concatenation
<1> HIDE DEF q, blocks, rest, n
<1>11. PendingTurn(Items(acc, q \o rest), before, blocks, calls, n)
  <2>1. \A k \in Nat : PendingTurn(Items(acc, q \o FirstItems(calls, k)), before, blocks, calls, k)
    BY <1>9, <1>10, CallsTaken
  <2> QED
    BY <1>2, <2>1 DEF rest
<1>12. a \o TurnItems(r, t, calls) = q \o rest
  <2>1. TurnItems(r, t, calls) = b \o c \o rest
    BY <1>2 DEF TurnItems
  <2> HIDE DEF b, c
  <2>2. Behind(a, Three(b, c, rest)) = OneByOne(a, b, c, rest)
    BY <1>1, <1>3, FourTogether
  <2> QED
    BY <2>1, <2>2 DEF q, p, Behind, Three, OneByOne
<1>13. TurnBlocks(r, t) = blocks
  BY DEF TurnBlocks, blocks, d
<1> QED
  BY <1>11, <1>12, <1>13 DEF n

\* What was pending becomes one message of the assistant
LEMMA TurnFlushed ==
  ASSUME NEW acc, NEW before, NEW blocks, NEW calls, NEW n \in Nat,
         PendingTurn(acc, before, blocks, calls, n), blocks # <<>> \/ n # 0,
         NEW list, list = Append(before, AssistantMessage(blocks, acc.calls))
  PROVE  AtRest(flush(acc), list) /\ flush(acc).messages = list
<1> DEFINE mine == acc.calls
           m == AssistantMessage(blocks, mine)
           rest == Pending(acc)
           none == <<>>
<1>1. /\ acc = [messages |-> before, calls |-> mine, blocks |-> blocks]
      /\ Len(mine) = n
  BY DEF PendingTurn
<1>2. acc.blocks = blocks /\ acc.messages = before
  BY <1>1
<1>3. ~(mine = <<>> /\ blocks = <<>>)
  BY <1>1, ShortSequences
<1> HIDE DEF mine
<1>4. rest.messages = before /\ rest = [messages |-> before, calls |-> <<>>, blocks |-> <<>>]
  <2>1. rest = [acc EXCEPT !.calls = <<>>, !.blocks = <<>>]
    BY Zenon DEF Pending
  <2> HIDE DEF rest
  <2>2. rest = [messages |-> before, calls |-> <<>>, blocks |-> <<>>]
    BY <1>1, <2>1
  <2> QED
    BY <2>2
<1> HIDE DEF rest
<1>5. flush(acc) = [rest EXCEPT !.messages = Append(@, AssistantMessage(acc.blocks, acc.calls))]
  BY <1>2, <1>3 DEF flush, rest, mine
<1>6. AssistantMessage(acc.blocks, acc.calls) = m
  BY <1>2 DEF mine
<1>7. list = Append(before, m)
  BY DEF mine
<1> HIDE DEF m
<1> DEFINE t == flush(acc)
<1>8. t = [rest EXCEPT !.messages = list]
  BY <1>4, <1>5, <1>6, <1>7
<1>9. rest = [messages |-> before, calls |-> none, blocks |-> none]
  BY <1>4
<1> HIDE DEF t, none
<1>10. t = [messages |-> list, calls |-> none, blocks |-> none]
  BY <1>8, <1>9
<1>11. t.messages = list
  BY <1>10
<1> QED
  BY <1>10, <1>11 DEF AtRest, t, none

\* The message that has something to say has a text, a reasoning or a call
LEMMA WholeSays ==
  ASSUME IsSequence(sent), AllTelling(sent), Whole.content # <<>> \/ Whole.calls # <<>>
  PROVE  TurnBlocks(ReasoningOf(sent), TextOf(sent)) # <<>> \/ Whole.calls # <<>>
  BY WholeFields, BegunSaid DEF TurnBlocks

Beginning(text) == [messages |-> parse_system(text), calls |-> <<>>, blocks |-> <<>>]

\* An answer of Responses, said again
LEMMA ResponsesReplayed ==
  ASSUME NEW b, Before(b), facade = "responses", IsSequence(sent), AllTelling(sent),
         Whole.content # <<>> \/ Whole.calls # <<>>
  PROVE  serialize_message(Replayed) = Serialized(TextOf(sent), ReasoningOf(sent), Whole.calls)
<1> DEFINE t == TextOf(sent)
           r == ReasoningOf(sent)
           calls == Whole.calls
           n == Len(calls)
           list == TurnItems(r, t, calls)
           blocks == TurnBlocks(r, t)
           acc == Items(Beginning(<<>>), list)
           body == [instructions |-> <<>>, input |-> Heard]
           none == <<>>
<1>1. Heard = list
  <2>1. Heard = Paid
    BY ResponsesAgree
  <2>2. Paid = response_payload(Whole).output
    BY DEF Paid
  <2>3. response_payload(Whole).output =
          ReasoningItem(Joined(Whole.content, "reasoning"))
            \o MessageItem(Joined(Whole.content, "text")) \o ItemsOf(Whole.calls)
    BY DEF response_payload, ItemsOf, ItemOf
  <2> QED
    BY <2>1, <2>2, <2>3 DEF Before, TurnItems
<1>2. IsSequence(t) /\ IsSequence(r) /\ IsSequence(calls)
  <2>1. calls = b.calls
    BY ResultFields DEF Before, SameResult
  <2> QED
    BY <2>1 DEF Before
<1>3. n \in Nat /\ (calls # <<>> => n # 0) /\ DOMAIN calls = 1..n
  BY <1>2, Appended, EmptySeq
<1>4. blocks # <<>> \/ calls # <<>>
  BY WholeSays
<1>5. body.instructions = <<>> /\ body.input = list
  BY <1>1
<1>6. Replayed = parse_input(body)[1]
  BY DEF Replayed
<1>7. IsSequence(none) /\ AtRest(Items(Beginning(<<>>), none), none)
  <2>1. Items(Beginning(<<>>), <<>>) = Beginning(<<>>)
    BY NoItems
  <2> QED
    BY <2>1, ShortSequences DEF AtRest, Beginning, parse_system
<1>8. none \o list = list
  <2> DEFINE x == ReasoningItem(r)
             y == MessageItem(t)
             z == ItemsOf(calls)
  <2>1. IsSequence(x) /\ IsSequence(y)
    BY ShortSequences DEF ReasoningItem, MessageItem
  <2>2. IsSequence(z)
    BY <1>3, NextItem DEF ItemsOf, FirstItems
  <2>3. list = x \o y \o z
    BY DEF TurnItems
  <2> HIDE DEF x, y, z
  <2>4. IsSequence(list)
    <3> DEFINE p == x \o y
    <3>1. IsSequence(p)
      BY <2>1, Concatenation
    <3>2. list = p \o z
      BY <2>3
    <3> HIDE DEF p
    <3> QED
      BY <2>2, <3>1, <3>2, Concatenation
  <2> HIDE DEF list
  <2> QED
    BY <2>4, Concatenation
<1> HIDE DEF t, r, calls, list, blocks, body, none
<1>9. PendingTurn(acc, none, blocks, calls, n)
  <2>1. PendingTurn(Items(Beginning(<<>>), none \o TurnItems(r, t, calls)), none,
                    TurnBlocks(r, t), calls,
                    Len(calls))
    BY <1>2, <1>7, TurnTaken
  <2> QED
    BY <1>8, <2>1 DEF list, blocks
<1>10. parse_input(body) = link_tool_results(flush(acc).messages)
  BY <1>5 DEF parse_input, Items, Beginning
<1> HIDE DEF acc, n
<1> DEFINE m == AssistantMessage(blocks, acc.calls)
           one == Append(none, m)
<1>11. flush(acc).messages = one
  BY <1>3, <1>4, <1>9, TurnFlushed
<1>12. m.role = "assistant"
  BY DEF AssistantMessage
<1> HIDE DEF m
<1>13. one[1] = m /\ DOMAIN one = {1}
  BY ShortSequences DEF none
<1> HIDE DEF one
<1>14. link_tool_results(one)[1] = m
  BY <1>12, <1>13 DEF link_tool_results
<1>15. SameCallLists(acc.calls, calls)
  <2>1. /\ IsSequence(acc.calls) /\ Len(acc.calls) = n
        /\ \A i \in 1..n : SameCall(acc.calls[i], calls[i])
    BY <1>9 DEF PendingTurn
  <2>2. DOMAIN acc.calls = 1..n
    BY <2>1, Appended
  <2> QED
    BY <1>3, <2>1, <2>2 DEF SameCallLists
<1>16. serialize_message(Replayed) = Serialized(t, r, calls)
  <2>1. Replayed = AssistantMessage(Block("reasoning", r) \o Block("text", t), acc.calls)
    BY <1>6, <1>10, <1>11, <1>14 DEF m, blocks, TurnBlocks
  <2> QED
    BY <1>2, <1>15, <2>1, TwoBlocksSerialized
<1> QED
  BY <1>16 DEF t, r, calls

-----------------------------------------------------------------------------
(* Anthropic.                                                              *)

PartOf(block) ==
  CASE block.type = "text" -> Block("text", block.text)
    [] block.type = "thinking" -> Block("reasoning", block.text)
    [] OTHER -> <<>>
CallAt(block, i) ==
  IF block.type = "tool_use" THEN <<ToolCall(block.id, block.name, block.input, i - 1)>> ELSE <<>>
Parts(blocks) == FlattenSeq([i \in DOMAIN blocks |-> PartOf(blocks[i])])
CallsAt(blocks) == FlattenSeq([i \in DOMAIN blocks |-> CallAt(blocks[i], i)])

\* The message of a list of blocks is made of its parts and its calls
LEMMA BlocksSorted ==
  ASSUME NEW x
  PROVE  AssistantBlocks(x) = AssistantMessage(Parts(x), CallsAt(x))
BY DEF AssistantBlocks, Parts, CallsAt, PartOf, CallAt

\* The calls of a message, and the blocks they are made of
CallsOfBlocks(calls, blocks) ==
  /\ IsSequence(calls) /\ IsSequence(blocks) /\ Len(calls) = Len(blocks)
  /\ \A i \in 1..Len(blocks) :
       /\ calls[i].id = blocks[i].id /\ calls[i].name = blocks[i].name
       /\ calls[i].arguments = blocks[i].input

\* A message that is made of these blocks
MadeOf(x) ==
  /\ ContentTyped(Parts(x))
  /\ Joined(Parts(x), "reasoning") = BlockTexts(x, "thinking")
  /\ Joined(Parts(x), "text") = BlockTexts(x, "text")
  /\ CallsOfBlocks(CallsAt(x), BlockCalls(x))

\* No block
LEMMA NothingMade ==
  ASSUME NEW x, IsBlockList(x, 0)
  PROVE  MadeOf(x)
<1>1. DOMAIN x = 1..0
  BY DEF IsBlockList
<1> DEFINE g == [i \in DOMAIN x |-> PartOf(x[i])]
           h == [i \in DOMAIN x |-> CallAt(x[i], i)]
           e == [i \in DOMAIN x |-> IF x[i].type = "tool_use" THEN <<x[i]>> ELSE <<>>]
<1>2. Family(g, 0) /\ Family(h, 0) /\ Family(e, 0)
  BY <1>1 DEF Family
<1>3. Parts(x) = FlattenSeq(g) /\ CallsAt(x) = FlattenSeq(h) /\ BlockCalls(x) = FlattenSeq(e)
  BY DEF Parts, CallsAt, BlockCalls
<1>4. ASSUME NEW type PROVE BlockTexts(x, type) = <<>>
  <2> DEFINE w == [i \in DOMAIN x |-> IF x[i].type = type THEN x[i].text ELSE <<>>]
  <2>1. Family(w, 0)
    BY <1>1 DEF Family
  <2>2. BlockTexts(x, type) = FlattenSeq(w)
    BY DEF BlockTexts
  <2> HIDE DEF w
  <2> QED
    BY <2>1, <2>2, FlattenedEmpty
<1> HIDE DEF g, h, e
<1>5. Parts(x) = <<>> /\ CallsAt(x) = <<>> /\ BlockCalls(x) = <<>>
  BY <1>2, <1>3, FlattenedEmpty
<1>6. CallsOfBlocks(<<>>, <<>>)
  BY ShortSequences DEF CallsOfBlocks
<1>7. ContentTyped(<<>>) /\ \A kind : Joined(<<>>, kind) = <<>>
  BY NothingNoted
<1> QED
  BY <1>4, <1>5, <1>6, <1>7 DEF MadeOf

\* The parts and the calls of one block more
LEMMA OneMoreSorted ==
  ASSUME NEW n \in Nat, NEW x, IsBlockList(x, n), NEW y, IsBlockList(y, n + 1), Extends(y, x, n)
  PROVE  /\ Parts(y) = Parts(x) \o PartOf(y[n + 1])
         /\ CallsAt(y) = CallsAt(x) \o CallAt(y[n + 1], n + 1)
         /\ IsSequence(Parts(x)) /\ IsSequence(CallsAt(x))
<1>1. DOMAIN x = 1..n /\ DOMAIN y = 1..(n + 1)
  BY DEF IsBlockList
<1>2. n + 1 \in 1..(n + 1) /\ \A k \in 1..n : k \in 1..(n + 1) /\ y[k] = x[k]
  BY DEF Extends
<1>3. \A b : IsSequence(PartOf(b)) /\ \A i : IsSequence(CallAt(b, i))
  BY ShortSequences DEF PartOf, CallAt, Block
<1>4. Parts(y) = Parts(x) \o PartOf(y[n + 1]) /\ IsSequence(Parts(x))
  <2> DEFINE g == [k \in 1..n |-> PartOf(x[k])]
             h == [k \in 1..(n + 1) |-> PartOf(y[k])]
  <2>1. Family(g, n) /\ Family(h, n + 1)
    BY <1>3 DEF Family
  <2>2. Parts(x) = FlattenSeq(g) /\ Parts(y) = FlattenSeq(h)
    BY <1>1 DEF Parts
  <2>3. Extends(h, g, n) /\ h[n + 1] = PartOf(y[n + 1])
    BY <1>2 DEF Extends
  <2> HIDE DEF g, h
  <2>4. FlattenSeq(h) = FlattenSeq(g) \o h[n + 1] /\ IsSequence(FlattenSeq(g))
    BY <2>1, <2>3, FlattenedOneMore
  <2> QED
    BY <2>2, <2>3, <2>4
<1>5. CallsAt(y) = CallsAt(x) \o CallAt(y[n + 1], n + 1) /\ IsSequence(CallsAt(x))
  <2> DEFINE g == [k \in 1..n |-> CallAt(x[k], k)]
             h == [k \in 1..(n + 1) |-> CallAt(y[k], k)]
  <2>1. Family(g, n) /\ Family(h, n + 1)
    BY <1>3 DEF Family
  <2>2. CallsAt(x) = FlattenSeq(g) /\ CallsAt(y) = FlattenSeq(h)
    BY <1>1 DEF CallsAt
  <2>3. Extends(h, g, n) /\ h[n + 1] = CallAt(y[n + 1], n + 1)
    BY <1>2 DEF Extends
  <2> HIDE DEF g, h
  <2>4. FlattenSeq(h) = FlattenSeq(g) \o h[n + 1] /\ IsSequence(FlattenSeq(g))
    BY <2>1, <2>3, FlattenedOneMore
  <2> QED
    BY <2>2, <2>3, <2>4
<1> QED
  BY <1>4, <1>5

\* A call more, on both sides
LEMMA CallsOfBlocksMore ==
  ASSUME NEW calls, NEW blocks, CallsOfBlocks(calls, blocks), NEW b, NEW i
  PROVE  CallsOfBlocks(Append(calls, ToolCall(b.id, b.name, b.input, i)), Append(blocks, b))
<1> DEFINE c == ToolCall(b.id, b.name, b.input, i)
           p == Append(calls, c)
           q == Append(blocks, b)
           n == Len(blocks)
<1>1. c.id = b.id /\ c.name = b.name /\ c.arguments = b.input
  BY DEF ToolCall
<1> HIDE DEF c
<1>2. /\ IsSequence(p) /\ Len(p) = n + 1 /\ p[n + 1] = c /\ \A k \in 1..n : p[k] = calls[k]
      /\ IsSequence(q) /\ Len(q) = n + 1 /\ q[n + 1] = b /\ \A k \in 1..n : q[k] = blocks[k]
      /\ n \in Nat
  <2>1. IsSequence(calls) /\ IsSequence(blocks) /\ Len(calls) = n
    BY DEF CallsOfBlocks
  <2>2. IsSequence(p) /\ Len(p) = n + 1 /\ p[n + 1] = c /\ \A k \in 1..n : p[k] = calls[k]
    BY <2>1, Appended
  <2>3. /\ IsSequence(q) /\ Len(q) = n + 1 /\ q[n + 1] = b /\ \A k \in 1..n : q[k] = blocks[k]
        /\ n \in Nat
    BY <2>1, Appended
  <2> QED
    BY <2>2, <2>3
<1> HIDE DEF p, q
<1>3. \A k \in 1..n : /\ calls[k].id = blocks[k].id /\ calls[k].name = blocks[k].name
                      /\ calls[k].arguments = blocks[k].input
  BY DEF CallsOfBlocks
<1> HIDE DEF n
<1>4. \A k \in 1..(n + 1) : k \in 1..n \/ k = n + 1
  BY <1>2
<1>5. \A k \in 1..(n + 1) : /\ p[k].id = q[k].id /\ p[k].name = q[k].name
                            /\ p[k].arguments = q[k].input
  BY <1>1, <1>2, <1>3, <1>4
<1>6. CallsOfBlocks(p, q)
  BY <1>2, <1>5 DEF CallsOfBlocks
<1> QED
  BY <1>6 DEF p, q, c

\* One block more
LEMMA OneMoreMade ==
  ASSUME NEW n \in Nat, NEW x, IsBlockList(x, n), NEW y, IsBlockList(y, n + 1), Extends(y, x, n),
         MadeOf(x)
  PROVE  MadeOf(y)
<1> DEFINE b == y[n + 1]
           c == Parts(x)
           k == CallsAt(x)
           u == BlockTexts(x, "thinking")
           v == BlockTexts(x, "text")
           w == BlockCalls(x)
<1>1. /\ Parts(y) = c \o PartOf(b) /\ CallsAt(y) = k \o CallAt(b, n + 1)
      /\ IsSequence(c) /\ IsSequence(k)
  BY OneMoreSorted
<1>2. /\ BlockTexts(y, "thinking") = u \o BlockTextIn(b, "thinking")
      /\ BlockTexts(y, "text") = v \o BlockTextIn(b, "text")
      /\ BlockCalls(y) = w \o BlockCallIn(b)
  BY BlockMore DEF Pieces
<1>3. IsSequence(u) /\ IsSequence(v) /\ IsSequence(w)
  BY BlocksTyped DEF Pieces
<1>4. /\ ContentTyped(c) /\ Joined(c, "reasoning") = u /\ Joined(c, "text") = v
      /\ CallsOfBlocks(k, w)
  BY DEF MadeOf
<1>5. BlockTyped(b)
  <2>1. n + 1 \in 1..(n + 1)
    OBVIOUS
  <2> QED
    BY <2>1 DEF IsBlockList
<1> HIDE DEF b, c, k, u, v, w
<1>6. k \o <<>> = k /\ u \o <<>> = u /\ v \o <<>> = v /\ w \o <<>> = w /\ c \o <<>> = c
  BY <1>1, <1>3, Concatenation
<1>7. CASE b.type = "text"
  <2> DEFINE t == b.text
             d == Parts(y)
  <2>1. IsSequence(t)
    BY <1>5, <1>7 DEF BlockTyped, Pieces
  <2>2. PartOf(b) = Block("text", t) /\ CallAt(b, n + 1) = <<>> /\ BlockCallIn(b) = <<>>
        /\ BlockTextIn(b, "thinking") = <<>> /\ BlockTextIn(b, "text") = t
    BY <1>7 DEF PartOf, CallAt, BlockCallIn, BlockTextIn
  <2>3. NotesMore(c, d, "text", t)
    BY <1>1, <2>2 DEF NotesMore
  <2> HIDE DEF d, t
  <2>4. /\ ContentTyped(d) /\ JoinsMore(c, d, "text", t)
        /\ \A other : other # "text" => Joined(d, other) = Joined(c, other)
    BY <1>4, <2>1, <2>3, BlockNoted
  <2>5. Joined(d, "text") = v \o t /\ Joined(d, "reasoning") = u
    BY <1>4, <2>4 DEF JoinsMore
  <2>6. CallsAt(y) = k /\ BlockCalls(y) = w
    BY <1>1, <1>2, <1>6, <2>2
  <2>7. BlockTexts(y, "thinking") = u /\ BlockTexts(y, "text") = v \o t
    BY <1>2, <1>6, <2>2
  <2> QED
    BY <1>4, <2>4, <2>5, <2>6, <2>7 DEF MadeOf, d
<1>8. CASE b.type = "thinking"
  <2> DEFINE t == b.text
             d == Parts(y)
  <2>1. IsSequence(t)
    BY <1>5, <1>8 DEF BlockTyped, Pieces
  <2>2. PartOf(b) = Block("reasoning", t) /\ CallAt(b, n + 1) = <<>> /\ BlockCallIn(b) = <<>>
        /\ BlockTextIn(b, "thinking") = t /\ BlockTextIn(b, "text") = <<>>
    BY <1>8 DEF PartOf, CallAt, BlockCallIn, BlockTextIn
  <2>3. NotesMore(c, d, "reasoning", t)
    BY <1>1, <2>2 DEF NotesMore
  <2> HIDE DEF d, t
  <2>4. /\ ContentTyped(d) /\ JoinsMore(c, d, "reasoning", t)
        /\ \A other : other # "reasoning" => Joined(d, other) = Joined(c, other)
    BY <1>4, <2>1, <2>3, BlockNoted
  <2>5. Joined(d, "reasoning") = u \o t /\ Joined(d, "text") = v
    BY <1>4, <2>4 DEF JoinsMore
  <2>6. CallsAt(y) = k /\ BlockCalls(y) = w
    BY <1>1, <1>2, <1>6, <2>2
  <2>7. BlockTexts(y, "thinking") = u \o t /\ BlockTexts(y, "text") = v
    BY <1>2, <1>6, <2>2
  <2> QED
    BY <1>4, <2>4, <2>5, <2>6, <2>7 DEF MadeOf, d
<1>9. CASE b.type \notin {"text", "thinking"}
  <2>1. PartOf(b) = <<>> /\ BlockTextIn(b, "thinking") = <<>> /\ BlockTextIn(b, "text") = <<>>
    BY <1>9 DEF PartOf, BlockTextIn
  <2>2. Parts(y) = c /\ BlockTexts(y, "thinking") = u /\ BlockTexts(y, "text") = v
    BY <1>1, <1>2, <1>6, <2>1
  <2>3. CallsOfBlocks(CallsAt(y), BlockCalls(y))
    <3>1. CASE b.type = "tool_use"
      <4> DEFINE e == ToolCall(b.id, b.name, b.input, (n + 1) - 1)
      <4>1. CallAt(b, n + 1) = <<e>> /\ BlockCallIn(b) = <<b>>
        BY <3>1 DEF CallAt, BlockCallIn
      <4>2. CallsOfBlocks(Append(k, e), Append(w, b))
        BY <1>4, CallsOfBlocksMore
      <4> HIDE DEF e
      <4>3. k \o <<e>> = Append(k, e) /\ w \o <<b>> = Append(w, b)
        BY <1>1, <1>3, OneBehind
      <4> QED
        BY <1>1, <1>2, <4>1, <4>2, <4>3
    <3>2. CASE b.type # "tool_use"
      <4>1. CallAt(b, n + 1) = <<>> /\ BlockCallIn(b) = <<>>
        BY <3>2 DEF CallAt, BlockCallIn
      <4> QED
        BY <1>1, <1>2, <1>4, <1>6, <4>1
    <3> QED
      BY <3>1, <3>2
  <2> QED
    BY <1>4, <2>2, <2>3 DEF MadeOf
<1> QED
  BY <1>7, <1>8, <1>9

\* All the blocks
LEMMA BlocksMade ==
  \A n \in Nat : \A x : IsBlockList(x, n) => MadeOf(x)
<1> DEFINE K == {n \in Nat : \A x : IsBlockList(x, n) => MadeOf(x)}
<1>1. 0 \in K
  BY NothingMade
<1>2. ASSUME NEW n \in Nat, n \in K PROVE n + 1 \in K
  <2> SUFFICES ASSUME NEW y, IsBlockList(y, n + 1) PROVE MadeOf(y)
    OBVIOUS
  <2> DEFINE x == [i \in 1..n |-> y[i]]
  <2>1. IsBlockList(x, n) /\ Extends(y, x, n)
    <3>1. \A i \in 1..n : i \in 1..(n + 1) /\ x[i] = y[i]
      OBVIOUS
    <3> QED
      BY <3>1 DEF IsBlockList, Extends
  <2> HIDE DEF x
  <2>2. MadeOf(x)
    BY <1>2, <2>1
  <2> QED
    BY <2>1, <2>2, OneMoreMade
<1> HIDE DEF K
<1>3. Nat \subseteq K
  BY <1>1, <1>2, NatSet
<1> QED
  BY <1>3 DEF K

\* The blocks that a client has put together are a list
LEMMA HeardListed ==
  ASSUME AnswerInv, phase = "closed", facade = "anthropic"
  PROVE  \E n \in Nat : IsBlockList(Heard, n)
<1>1. PICK b : Unclosed(b) /\ Agrees(b, sent, TRUE, facade) /\ answer = Closing(b)
  BY DEF AnswerInv
<1>2. facade \in Facades /\ StateInv(answer)
  BY DEF AnswerInv, StreamInv, Facades
<1>3. StateInv(b) /\ MayHold(b, facade)
  BY <1>1 DEF Agrees, Tells
<1>4. MayHold(answer, facade)
  BY <1>1, <1>2, <1>3, ClosingIsQuiet
<1> DEFINE n == answer.index + 1
           x == BlockList(answer.frames, n)
<1>5. n \in Nat /\ IsSequence(answer.frames) /\ Blocks(answer.frames) = x
  BY <1>2, BlocksListed
<1>6. HoldsBlocks(answer.frames, n)
  BY <1>4 DEF MayHold
<1> HIDE DEF n
<1>7. IsBlockList(x, n)
  BY <1>5, <1>6, BlockListTyped
<1>8. Heard = Blocks(answer.frames)
  BY DEF Heard
<1> QED
  BY <1>5, <1>7, <1>8

\* The calls that are read are those the blocks were made of
LEMMA CallsMatch ==
  ASSUME NEW calls, IsSequence(calls), NEW mine, CallsOfBlocks(mine, BlocksOf(calls))
  PROVE  SameCallLists(mine, calls) /\ IsSequence(mine)
<1> DEFINE n == Len(calls)
           q == BlocksOf(calls)
<1>1. n \in Nat /\ DOMAIN calls = 1..n
  BY Appended
<1>2. /\ DOMAIN q = 1..n /\ \A i \in 1..n : /\ q[i].id = calls[i].id /\ q[i].name = calls[i].name
                                            /\ q[i].input = calls[i].arguments
  BY <1>1 DEF BlocksOf
<1> HIDE DEF n, q
<1>3. IsSequence(mine) /\ IsSequence(q) /\ Len(mine) = Len(q)
  BY DEF CallsOfBlocks, q
<1>4. Len(q) \in Nat /\ DOMAIN q = 1..Len(q) /\ DOMAIN mine = 1..Len(q)
  BY <1>3, Appended
<1>5. \A i \in 1..Len(q) : /\ mine[i].id = q[i].id /\ mine[i].name = q[i].name
                           /\ mine[i].arguments = q[i].input
  BY DEF CallsOfBlocks, q
<1>6. DOMAIN mine = 1..n /\ 1..Len(q) = 1..n
  BY <1>2, <1>4
<1> QED
  BY <1>1, <1>2, <1>3, <1>5, <1>6 DEF SameCallLists, SameCall

\* An answer of Anthropic, said again
LEMMA AnthropicReplayed ==
  ASSUME AnswerInv, phase = "closed", NEW b, Before(b), facade = "anthropic"
  PROVE  serialize_message(Replayed) = Serialized(TextOf(sent), ReasoningOf(sent), Whole.calls)
<1> DEFINE x == Heard
           t == TextOf(sent)
           r == ReasoningOf(sent)
           calls == Whole.calls
           made == Parts(x)
           mine == CallsAt(x)
<1>1. MadeOf(x)
  BY HeardListed, BlocksMade
<1>2. b.calls = calls /\ IsSequence(calls) /\ answer.calls = calls
  BY ResultFields DEF Before, SameResult
<1>3. BlockTexts(x, "text") = t /\ BlockTexts(x, "thinking") = r /\ BlockCalls(x) = BlocksOf(calls)
  <2>1. Heard = Blocks(answer.frames)
    BY DEF Heard
  <2> QED
    BY <1>2, <2>1 DEF Before, TellsTexts, TellsCalls
<1>4. Replayed = AssistantBlocks(x)
  BY DEF Replayed
<1> HIDE DEF x, t, r, calls
<1>5. Replayed = AssistantMessage(made, mine)
  BY <1>4, BlocksSorted
<1>6. /\ Joined(made, "text") = t /\ Joined(made, "reasoning") = r
      /\ CallsOfBlocks(mine, BlocksOf(calls))
  BY <1>1, <1>3 DEF MadeOf
<1> HIDE DEF made, mine
<1>7. SameCallLists(mine, calls)
  BY <1>2, <1>6, CallsMatch
<1>8. serialize_message(Replayed) = Serialized(t, r, calls)
  <2>1. serialize_message(AssistantMessage(made, mine)) =
          Serialized(Joined(made, "text"), Joined(made, "reasoning"), calls)
    BY <1>7, AssistantSerialized
  <2> QED
    BY <1>5, <1>6, <2>1
<1> QED
  BY <1>8 DEF t, r, calls

-----------------------------------------------------------------------------

\* The loop of an agent: what a client has put together from a stream, given back as it is in
\* the next request, reaches llama-server as the message that it had produced, with the same text,
\* the reasoning apart from it, and the same calls with their ids and arguments, for each of the
\* four protocols (canonical/messages.py:15-25, api/responses.py:199-205).
THEOREM AnswersSurviveReplay == Spec => []AnswerSurvivesReplay
<1>1. AnswerInv => AnswerSurvivesReplay
  <2> SUFFICES ASSUME AnswerInv, phase = "closed", facade \in Chats,
                      Whole.content # <<>> \/ Whole.calls # <<>>
               PROVE  serialize_message(Replayed) = Given
    BY DEF AnswerSurvivesReplay, Given
  <2>1. PICK b : Before(b)
    BY ClosedAnswer
  <2>2. IsSequence(sent) /\ AllTelling(sent)
    BY DEF AnswerInv, StreamInv
  <2>3. Given = Serialized(TextOf(sent), ReasoningOf(sent), Whole.calls)
    BY <2>1, GivenSerialized
  <2>4. serialize_message(Replayed) = Serialized(TextOf(sent), ReasoningOf(sent), Whole.calls)
    <3>1. CASE facade = "ollama_chat"
      BY <2>1, <3>1, OllamaReplayed
    <3>2. CASE facade = "openai"
      BY <2>1, <3>2, OpenAIReplayed
    <3>3. CASE facade = "anthropic"
      BY <2>1, <3>3, AnthropicReplayed
    <3>4. CASE facade = "responses"
      BY <2>1, <2>2, <3>4, ResponsesReplayed
    <3> QED
      BY <3>1, <3>2, <3>3, <3>4 DEF Chats
  <2> QED
    BY <2>3, <2>4
<1> QED
  BY <1>1, AnswerInvariant, PTL

-----------------------------------------------------------------------------
(* What the client has said so far.                                        *)

TurnKinds == TurnsOfInstruction \cup TurnsOfUser \cup TurnsOfAssistant \cup TurnsOfTool

\* The turns of the assistant that have called this id
CallsFor(s, i, id) ==
  s[i].kind = "assistant" /\ \E k \in DOMAIN s[i].calls : s[i].calls[k].id = id

\* A conversation that may be held
Conversation(s) ==
  /\ IsSequence(s) /\ \A i \in DOMAIN s : s[i] \in TurnKinds
  /\ \A i \in DOMAIN s : s[i].kind = "assistant" => i # 1 /\ s[i - 1].kind # "assistant"
  /\ \A i \in DOMAIN s : s[i].kind = "tool" => \E j \in DOMAIN s : CallsFor(s, j, s[i].id)

\* One turn more
LEMMA ConversationGrows ==
  ASSUME Conversation(turns), NEW turn \in TurnKinds, MayFollow(turn)
  PROVE  Conversation(Append(turns, turn))
<1> DEFINE n == Len(turns)
           s == Append(turns, turn)
<1>1. /\ IsSequence(s) /\ n \in Nat /\ DOMAIN turns = 1..n /\ DOMAIN s = 1..(n + 1)
      /\ s[n + 1] = turn /\ \A i \in 1..n : s[i] = turns[i]
  BY Appended DEF Conversation
<1>2. turn.kind = "assistant" => n # 0 /\ turns[n].kind # "assistant"
  <2>1. turns # <<>> => n # 0
    BY <1>1, EmptySeq DEF Conversation, IsSequence
  <2> QED
    BY <2>1 DEF MayFollow, Last
<1>3. turn.kind = "tool" => \E i \in 1..n : CallsFor(turns, i, turn.id)
  BY <1>1 DEF MayFollow, CallsFor
<1> HIDE DEF s, n
<1>4. \A i \in 1..(n + 1) : i \in 1..n \/ i = n + 1
  BY <1>1
<1>5. \A i \in 1..n : i \in 1..(n + 1) /\ (i # 1 => i - 1 \in 1..n)
  BY <1>1
<1>6. ASSUME NEW i \in 1..(n + 1) PROVE s[i] \in TurnKinds
  BY <1>1, <1>4 DEF Conversation
<1>7. ASSUME NEW i \in 1..(n + 1), s[i].kind = "assistant"
      PROVE  i # 1 /\ s[i - 1].kind # "assistant"
  <2>1. CASE i \in 1..n
    <3>1. turns[i].kind = "assistant"
      BY <1>1, <1>7, <2>1
    <3>2. i # 1 /\ turns[i - 1].kind # "assistant"
      BY <1>1, <2>1, <3>1 DEF Conversation
    <3> QED
      BY <1>1, <1>5, <2>1, <3>2
  <2>2. CASE i = n + 1
    <3>1. n # 0 /\ turns[n].kind # "assistant"
      BY <1>1, <1>2, <1>7, <2>2
    <3>2. n \in 1..n /\ i - 1 = n /\ i # 1
      BY <1>1, <2>2, <3>1
    <3> QED
      BY <1>1, <3>1, <3>2
  <2> QED
    BY <1>4, <2>1, <2>2
<1>8. ASSUME NEW i \in 1..(n + 1), s[i].kind = "tool"
      PROVE  \E j \in 1..(n + 1) : CallsFor(s, j, s[i].id)
  <2>1. \E j \in 1..n : CallsFor(turns, j, s[i].id)
    <3>1. CASE i \in 1..n
      BY <1>1, <1>8, <3>1 DEF Conversation
    <3>2. CASE i = n + 1
      BY <1>1, <1>3, <1>8, <3>2
    <3> QED
      BY <1>4, <3>1, <3>2
  <2>2. PICK j \in 1..n : CallsFor(turns, j, s[i].id)
    BY <2>1
  <2>3. j \in 1..(n + 1) /\ s[j] = turns[j]
    BY <1>1, <1>5
  <2>4. CallsFor(s, j, s[i].id)
    BY <2>2, <2>3 DEF CallsFor
  <2> QED
    BY <2>3, <2>4
<1>9. Conversation(s)
  BY <1>1, <1>6, <1>7, <1>8 DEF Conversation
<1> QED
  BY <1>9 DEF s

\* What a client has said, turn by turn, is always a conversation that may be
\* held: no two turns of the assistant follow each other (Responses would merge
\* their items, api/responses.py:83-90), and every result answers a call of the
\* conversation, in which link_tool_results can find its name
\* (canonical/messages.py:222).
THEOREM ConversationInvariant == Spec => []Conversation(turns)
<1>1. Init => Conversation(turns)
  <2>1. Conversation(<<>>)
    BY ShortSequences DEF Conversation
  <2> QED
    BY <2>1 DEF Init
<1>2. Conversation(turns) /\ [Next]_vars => Conversation(turns)'
  <2> SUFFICES ASSUME Conversation(turns), [Next]_vars PROVE Conversation(turns')
    OBVIOUS
  <2>1. ASSUME NEW turn \in TurnKinds, Speak(turn) PROVE Conversation(turns')
    <3>1. turns' = Append(turns, turn) /\ MayFollow(turn)
      BY <2>1 DEF Speak
    <3>2. Conversation(Append(turns, turn))
      BY <3>1, ConversationGrows
    <3> QED
      BY <3>1, <3>2
  <2>2. ASSUME NEW asked, Ask(asked) PROVE Conversation(turns')
    <3>1. turns' = <<>>
      BY <2>2 DEF Ask
    <3>2. Conversation(<<>>)
      BY ShortSequences DEF Conversation
    <3> QED
      BY <3>1, <3>2
  <2>3. CASE Hear \/ UNCHANGED vars
    BY <2>3 DEF Hear, vars
  <2> QED
    BY <2>1, <2>2, <2>3 DEF Next, TurnKinds
<1> QED
  BY <1>1, <1>2, PTL DEF Spec

-----------------------------------------------------------------------------
(* The turns, by their kinds.                                              *)

Instructs(t) ==
  t.kind \in {"system", "developer"} /\ IsSequence(t.text) /\ t.text # <<>>
Asks(t) ==
  /\ t.kind = "user" /\ IsSequence(t.text) /\ t.image \in {"none", "inline", "url"}
  /\ t.text # <<>> \/ t.image # "none"
KnownCall(id, name) == <<id, name>> \in {<<"c1", "f">>, <<"c2", "g">>}
Answers(t) ==
  /\ t.kind = "assistant" /\ IsSequence(t.text) /\ IsSequence(t.reasoning) /\ IsSequence(t.calls)
  /\ t.text # <<>> \/ t.reasoning # <<>> \/ t.calls # <<>>
  /\ \A k \in DOMAIN t.calls : KnownCall(t.calls[k].id, t.calls[k].name)
  /\ Len(t.calls) \in 0..2
Returns(t) == t.kind = "tool" /\ IsSequence(t.text) /\ KnownCall(t.id, t.name)

\* Every turn is one of four
LEMMA TurnsSorted ==
  ASSUME NEW t \in TurnKinds
  PROVE  Instructs(t) \/ Asks(t) \/ Answers(t) \/ Returns(t)
<1>1. \A x : IsSequence(<<x>>) /\ <<x>> # <<>>
  BY ShortSequences
<1>2. IsSequence(<<>>)
  BY ShortSequences
<1>3. CASE t \in TurnsOfInstruction
  BY <1>1, <1>3 DEF TurnsOfInstruction, Instructs
<1>4. CASE t \in TurnsOfUser
  <2> DEFINE one == <<"u">>
             none == <<>>
             empty == [kind |-> "user", text |-> none, image |-> "none"]
  <2>1. t \in [kind : {"user"}, text : {none, one}, image : {"none", "inline", "url"}] \ {empty}
    BY <1>4 DEF TurnsOfUser
  <2>2. IsSequence(none) /\ IsSequence(one) /\ none # one
    BY <1>1, <1>2
  <2> HIDE DEF one, none
  <2>3. /\ t.kind = "user" /\ t.text \in {none, one} /\ t.image \in {"none", "inline", "url"}
        /\ t = [kind |-> t.kind, text |-> t.text, image |-> t.image]
    BY <2>1
  <2>4. t.text # none \/ t.image # "none"
    BY <2>1, <2>3
  <2> QED
    BY <2>2, <2>3, <2>4 DEF Asks, none
<1>5. CASE t \in TurnsOfAssistant
  <2> DEFINE r == <<"r">>
             w == <<"t">>
             none == <<>>
             c == Call("c1", "f")
             d == Call("c2", "g")
             one == <<c>>
             two == <<c, d>>
             empty == [kind |-> "assistant", reasoning |-> none, text |-> none, calls |-> none]
  <2>1. t \in [kind : {"assistant"}, reasoning : {none, r}, text : {none, w},
               calls : {none, one, two}]
              \ {empty}
    BY <1>5 DEF TurnsOfAssistant
  <2>2. IsSequence(none) /\ IsSequence(r) /\ IsSequence(w)
    BY <1>1, <1>2
  <2>3. KnownCall(c.id, c.name) /\ KnownCall(d.id, d.name)
    BY DEF KnownCall, Call
  <2> HIDE DEF c, d
  <2>4. /\ IsSequence(one) /\ DOMAIN one = {1} /\ one[1] = c
        /\ DOMAIN two = {1, 2} /\ two[1] = c /\ two[2] = d
    BY ShortSequences
  <2>5. IsSequence(two)
    <3>1. two \in Seq({c, d})
      OBVIOUS
    <3> QED
      BY <3>1, SequenceOf
  <2>6. DOMAIN none = {} /\ Len(none) = 0 /\ Len(one) = 1 /\ Len(two) = 2
    OBVIOUS
  <2> HIDE DEF r, w, none, one, two
  <2>7. /\ t.kind = "assistant" /\ t.reasoning \in {none, r} /\ t.text \in {none, w}
        /\ t.calls \in {none, one, two}
        /\ t = [kind |-> t.kind, reasoning |-> t.reasoning, text |-> t.text, calls |-> t.calls]
    BY <2>1
  <2>8. t.text # none \/ t.reasoning # none \/ t.calls # none
    BY <2>1, <2>7
  <2>9. \A k \in DOMAIN t.calls : KnownCall(t.calls[k].id, t.calls[k].name)
    BY <2>3, <2>4, <2>6, <2>7
  <2>10. IsSequence(t.text) /\ IsSequence(t.reasoning) /\ IsSequence(t.calls)
    BY <2>2, <2>4, <2>5, <2>7
  <2>11. Len(t.calls) \in 0..2
    BY <2>6, <2>7
  <2> QED
    BY <2>7, <2>8, <2>9, <2>10, <2>11 DEF Answers, none
<1>6. CASE t \in TurnsOfTool
  BY <1>1, <1>6 DEF TurnsOfTool, Returns, KnownCall
<1> QED
  BY <1>3, <1>4, <1>5, <1>6 DEF TurnKinds

-----------------------------------------------------------------------------
(* link_tool_results: the calls of all the messages, and the last of them  *)
(* that has an id.                                                         *)

\* The elements of a flattened family are those of its sequences
MembersOf(s, g, n) ==
  /\ \A j \in DOMAIN s : \E i \in 1..n : \E k \in DOMAIN g[i] : s[j] = g[i][k]
  /\ \A i \in 1..n : \A k \in DOMAIN g[i] : \E j \in DOMAIN s : s[j] = g[i][k]

\* The elements of a concatenation
LEMMA Parted ==
  ASSUME NEW a, IsSequence(a), NEW b, IsSequence(b), NEW c, Couples(c, a, b)
  PROVE  /\ \A i \in DOMAIN a : i \in DOMAIN c /\ c[i] = a[i]
         /\ \A i \in DOMAIN b : Len(a) + i \in DOMAIN c /\ c[Len(a) + i] = b[i]
         /\ \A i \in DOMAIN c : i \in DOMAIN a \/ (i - Len(a) \in DOMAIN b /\ c[i] = b[i - Len(a)])
<1>1. PICK S : a \in Seq(S) /\ b \in Seq(S)
  BY Together
<1>2. /\ Len(a) \in Nat /\ Len(b) \in Nat /\ DOMAIN a = 1..Len(a) /\ DOMAIN b = 1..Len(b)
  BY <1>1
<1>3. c \in Seq(S) /\ Len(c) = Len(a) + Len(b) /\ DOMAIN c = 1..(Len(a) + Len(b))
  BY <1>1 DEF Couples
<1>4. \A i \in 1..(Len(a) + Len(b)) : c[i] = IF i <= Len(a) THEN a[i] ELSE b[i - Len(a)]
  BY <1>1 DEF Couples
<1>5. \A i \in DOMAIN a : i \in DOMAIN c /\ c[i] = a[i]
  BY <1>2, <1>3, <1>4
<1>6. ASSUME NEW i \in 1..Len(b)
      PROVE  /\ Len(a) + i \in 1..(Len(a) + Len(b)) /\ ~(Len(a) + i <= Len(a))
             /\ (Len(a) + i) - Len(a) = i
  BY <1>2
<1>7. \A i \in DOMAIN b : Len(a) + i \in DOMAIN c /\ c[Len(a) + i] = b[i]
  BY <1>2, <1>3, <1>4, <1>6
<1>8. ASSUME NEW i \in 1..(Len(a) + Len(b)), ~(i <= Len(a))
      PROVE  i - Len(a) \in 1..Len(b)
  BY <1>2, <1>8
<1>9. ASSUME NEW i \in DOMAIN c
      PROVE  i \in DOMAIN a \/ (i - Len(a) \in DOMAIN b /\ c[i] = b[i - Len(a)])
  <2>1. i \in 1..(Len(a) + Len(b)) /\ (i <= Len(a) => i \in 1..Len(a))
    BY <1>2, <1>3
  <2> QED
    BY <1>2, <1>4, <1>8, <2>1
<1> QED
  BY <1>5, <1>7, <1>9

\* One sequence more brings its own elements
LEMMA MembersMore ==
  ASSUME NEW n \in Nat, NEW g, NEW h, Extends(h, g, n), NEW a, IsSequence(a), MembersOf(a, g, n),
         NEW b, IsSequence(b), b = h[n + 1], NEW c, Couples(c, a, b)
  PROVE  MembersOf(c, h, n + 1)
<1>1. /\ \A i \in DOMAIN a : i \in DOMAIN c /\ c[i] = a[i]
      /\ \A i \in DOMAIN b : Len(a) + i \in DOMAIN c /\ c[Len(a) + i] = b[i]
      /\ \A i \in DOMAIN c : i \in DOMAIN a \/ (i - Len(a) \in DOMAIN b /\ c[i] = b[i - Len(a)])
  BY Parted
<1>2. /\ \A i \in 1..n : i \in 1..(n + 1) /\ h[i] = g[i]
      /\ n + 1 \in 1..(n + 1) /\ \A i \in 1..(n + 1) : i \in 1..n \/ i = n + 1
  BY DEF Extends
<1>3. ASSUME NEW j \in DOMAIN c
      PROVE  \E i \in 1..(n + 1) : \E k \in DOMAIN h[i] : c[j] = h[i][k]
  <2>1. CASE j \in DOMAIN a
    <3>1. PICK i \in 1..n : \E k \in DOMAIN g[i] : a[j] = g[i][k]
      BY <2>1 DEF MembersOf
    <3> QED
      BY <1>1, <1>2, <2>1, <3>1
  <2>2. CASE j - Len(a) \in DOMAIN b /\ c[j] = b[j - Len(a)]
    BY <1>2, <2>2
  <2> QED
    BY <1>1, <2>1, <2>2
<1>4. ASSUME NEW i \in 1..(n + 1), NEW k \in DOMAIN h[i]
      PROVE  \E j \in DOMAIN c : c[j] = h[i][k]
  <2>1. CASE i \in 1..n
    <3>1. PICK j \in DOMAIN a : a[j] = g[i][k]
      BY <1>2, <2>1 DEF MembersOf
    <3> QED
      BY <1>1, <1>2, <2>1, <3>1
  <2>2. CASE i = n + 1
    BY <1>1, <2>2
  <2> QED
    BY <1>2, <2>1, <2>2
<1> QED
  BY <1>3, <1>4 DEF MembersOf

\* The members of a flattened family are those of its sequences
LEMMA FlattenedMembers ==
  \A n \in Nat : \A g : Family(g, n) => MembersOf(FlattenSeq(g), g, n)
<1> DEFINE K == {n \in Nat : \A g : Family(g, n) => MembersOf(FlattenSeq(g), g, n)}
<1>1. 0 \in K
  <2> SUFFICES ASSUME NEW g, Family(g, 0) PROVE MembersOf(FlattenSeq(g), g, 0)
    OBVIOUS
  <2>1. FlattenSeq(g) = <<>>
    BY FlattenedEmpty
  <2> QED
    BY <2>1 DEF MembersOf
<1>2. ASSUME NEW n \in Nat, n \in K PROVE n + 1 \in K
  <2> SUFFICES ASSUME NEW h, Family(h, n + 1) PROVE MembersOf(FlattenSeq(h), h, n + 1)
    OBVIOUS
  <2> DEFINE g == [i \in 1..n |-> h[i]]
             a == FlattenSeq(g)
             b == h[n + 1]
             c == FlattenSeq(h)
  <2>1. Family(g, n) /\ Extends(h, g, n)
    <3>1. \A i \in 1..n : i \in 1..(n + 1) /\ g[i] = h[i]
      OBVIOUS
    <3> QED
      BY <3>1 DEF Family, Extends
  <2> HIDE DEF g
  <2>2. MembersOf(a, g, n)
    BY <1>2, <2>1
  <2>3. IsSequence(a) /\ IsSequence(b) /\ Couples(c, a, b)
    BY <2>1, FlattenedOneMore DEF Couples
  <2>4. b = h[n + 1]
    OBVIOUS
  <2> HIDE DEF a, b, c
  <2>5. MembersOf(c, h, n + 1)
    BY <2>1, <2>2, <2>3, <2>4, MembersMore
  <2> QED
    BY <2>5 DEF c
<1> HIDE DEF K
<1>3. Nat \subseteq K
  BY <1>1, <1>2, NatSet
<1> QED
  BY <1>3 DEF K

\* A set of positions has a last one
LEMMA GreatestOf ==
  \A n \in Nat : \A u \in SUBSET (1..n) : u # {} => Max(u) \in u
<1> DEFINE K == {n \in Nat : \A u \in SUBSET (1..n) : u # {} => \E x \in u : \A y \in u : x >= y}
<1>1. 0 \in K
  <2>1. 1..0 = {}
    OBVIOUS
  <2> QED
    BY <2>1
<1>2. ASSUME NEW n \in Nat, n \in K PROVE n + 1 \in K
  <2> SUFFICES ASSUME NEW u \in SUBSET (1..(n + 1)), u # {} PROVE \E x \in u : \A y \in u : x >= y
    OBVIOUS
  <2>1. CASE n + 1 \in u
    BY <2>1
  <2>2. CASE n + 1 \notin u
    <3>1. u \in SUBSET (1..n)
      BY <2>2
    <3> QED
      BY <1>2, <3>1
  <2> QED
    BY <2>1, <2>2
<1> HIDE DEF K
<1>3. Nat \subseteq K
  BY <1>1, <1>2, NatSet
<1>4. ASSUME NEW n \in Nat, NEW u \in SUBSET (1..n), u # {} PROVE Max(u) \in u
  <2>1. \E x \in u : \A y \in u : x >= y
    BY <1>3, <1>4 DEF K
  <2>2. Max(u) = CHOOSE x \in u : \A y \in u : x >= y
    BY DEF Max
  <2> QED
    BY <2>1, <2>2
<1> QED
  BY <1>4

\* The calls of messages that all call this id by this name
AllName(messages, id, name) ==
  \A i \in DOMAIN messages : messages[i].role = "assistant" =>
    \A k \in DOMAIN messages[i].calls :
      messages[i].calls[k].id = id => messages[i].calls[k].name = name
SomeCalls(messages, id) ==
  \E i \in DOMAIN messages : messages[i].role = "assistant" /\
    \E k \in DOMAIN messages[i].calls : messages[i].calls[k].id = id
CallsListed(messages) ==
  \A i \in DOMAIN messages : messages[i].role = "assistant" => IsSequence(messages[i].calls)

\* The name that a result is given
LEMMA NameFound ==
  ASSUME NEW messages, IsSequence(messages), CallsListed(messages), NEW id, id # Nothing, NEW name,
         AllName(messages, id, name), SomeCalls(messages, id)
  PROVE  Named(id, messages) = name
<1> DEFINE n == Len(messages)
           g == [i \in DOMAIN messages |->
                   IF messages[i].role = "assistant" THEN messages[i].calls ELSE <<>>]
           calls == Calls(messages)
           known == {i \in DOMAIN calls : calls[i].id # Nothing /\ calls[i].id = id}
<1>1. n \in Nat /\ DOMAIN messages = 1..n
  BY Appended
<1>2. Family(g, n)
  BY <1>1, ShortSequences DEF Family, CallsListed
<1>3. calls = FlattenSeq(g)
  BY DEF Calls
<1>4. \A i \in 1..n : IF messages[i].role = "assistant" THEN g[i] = messages[i].calls
                      ELSE DOMAIN g[i] = {}
  BY <1>1
<1>5. Named(id, messages) = IF known = {} THEN "" ELSE calls[Max(known)].name
  BY DEF Named, Nothing
<1> HIDE DEF g, n, calls
<1>6. MembersOf(calls, g, n) /\ IsSequence(calls)
  BY <1>1, <1>2, <1>3, FlattenedMembers, FlattenedIsSequence
<1>7. \A j \in DOMAIN calls : calls[j].id = id => calls[j].name = name
  <2> SUFFICES ASSUME NEW j \in DOMAIN calls, calls[j].id = id PROVE calls[j].name = name
    OBVIOUS
  <2>1. PICK i \in 1..n : \E k \in DOMAIN g[i] : calls[j] = g[i][k]
    BY <1>6 DEF MembersOf
  <2>2. PICK k \in DOMAIN g[i] : calls[j] = g[i][k]
    BY <2>1
  <2>3. messages[i].role = "assistant" /\ g[i] = messages[i].calls
    BY <1>4, <2>2
  <2> QED
    BY <1>1, <2>2, <2>3 DEF AllName
<1>8. \E j \in DOMAIN calls : calls[j].id = id
  <2>1. PICK i \in DOMAIN messages :
               /\ messages[i].role = "assistant"
               /\ \E k \in DOMAIN messages[i].calls : messages[i].calls[k].id = id
    BY DEF SomeCalls
  <2>2. i \in 1..n /\ g[i] = messages[i].calls
    BY <1>1, <1>4, <2>1
  <2> QED
    BY <1>6, <2>1, <2>2 DEF MembersOf
<1>9. DOMAIN calls = 1..Len(calls) /\ Len(calls) \in Nat
  BY <1>6, Appended
<1>10. known # {} /\ known \in SUBSET (1..Len(calls))
  BY <1>8, <1>9
<1>11. Max(known) \in known
  BY <1>9, <1>10, GreatestOf
<1>12. Max(known) \in DOMAIN calls /\ calls[Max(known)].id = id
  BY <1>11
<1> HIDE DEF known
<1> QED
  BY <1>5, <1>7, <1>10, <1>12

\* A message that says this turn to llama-server, but for the name of its tool
Rendered(m, t) ==
  /\ serialize_message(m) = Wanted(t)
  /\ m.role = "tool" <=> t.kind = "tool"
  /\ m.role = "assistant" <=> t.kind = "assistant"
  /\ t.kind = "tool" => m = ToolResultMessage(t.id, m.name, t.text) /\ m.name \in {Nothing, t.name}
  /\ t.kind = "assistant" => IsSequence(m.calls) /\ SameCallLists(m.calls, t.calls)

\* What llama-server is to receive of the conversation
AsWanted(messages) ==
  /\ serialize_messages(messages) = [i \in DOMAIN turns |-> Wanted(turns[i])]
  /\ ResultNames(messages) = TurnNames

\* A result of the model's tools has one name, which its call has told
LEMMA NamesAgree ==
  ASSUME Conversation(turns), NEW messages, IsSequence(messages), DOMAIN messages = DOMAIN turns,
         \A i \in DOMAIN turns : Rendered(messages[i], turns[i]),
         NEW i \in DOMAIN turns, turns[i].kind = "tool"
  PROVE  Named(turns[i].id, messages) = turns[i].name /\ turns[i].name # Nothing
<1> DEFINE id == turns[i].id
           name == turns[i].name
<1>1. ASSUME NEW j \in DOMAIN turns, turns[j].kind = "assistant"
      PROVE  \A k \in DOMAIN turns[j].calls : KnownCall(turns[j].calls[k].id,
         turns[j].calls[k].name)
  <2>1. Answers(turns[j])
    BY <1>1, TurnsSorted DEF Conversation, Instructs, Asks, Returns
  <2> QED
    BY <2>1 DEF Answers
<1>2. KnownCall(id, name)
  <2>1. Returns(turns[i])
    BY TurnsSorted DEF Conversation, Instructs, Asks, Answers
  <2> QED
    BY <2>1 DEF Returns
<1>3. \A other : KnownCall(id, other) => other = name
  BY <1>2 DEF KnownCall
<1>4. id # Nothing /\ name # Nothing
  BY <1>2 DEF KnownCall, Nothing
<1>5. ASSUME NEW j \in DOMAIN turns, messages[j].role = "assistant"
      PROVE  turns[j].kind = "assistant" /\ SameCallLists(messages[j].calls, turns[j].calls)
             /\ IsSequence(messages[j].calls)
  BY <1>5 DEF Rendered
<1>6. CallsListed(messages)
  BY <1>5 DEF CallsListed
<1>7. AllName(messages, id, name)
  <2> SUFFICES ASSUME NEW j \in DOMAIN turns, messages[j].role = "assistant",
                      NEW k \in DOMAIN messages[j].calls, messages[j].calls[k].id = id
               PROVE  messages[j].calls[k].name = name
    BY DEF AllName
  <2>1. /\ k \in DOMAIN turns[j].calls /\ turns[j].calls[k].id = id
        /\ messages[j].calls[k].name = turns[j].calls[k].name
    BY <1>5 DEF SameCallLists, SameCall
  <2>2. KnownCall(id, turns[j].calls[k].name)
    BY <1>1, <1>5, <2>1
  <2> QED
    BY <1>3, <2>1, <2>2
<1>8. SomeCalls(messages, id)
  <2>1. PICK j \in DOMAIN turns : CallsFor(turns, j, id)
    BY DEF Conversation
  <2>2. turns[j].kind = "assistant" /\ \E k \in DOMAIN turns[j].calls : turns[j].calls[k].id = id
    BY <2>1 DEF CallsFor
  <2>3. messages[j].role = "assistant" /\ SameCallLists(messages[j].calls, turns[j].calls)
    BY <2>2 DEF Rendered
  <2>4. \E k \in DOMAIN messages[j].calls : messages[j].calls[k].id = id
    BY <2>2, <2>3 DEF SameCallLists, SameCall
  <2> QED
    BY <2>3, <2>4 DEF SomeCalls
<1> HIDE DEF id, name
<1>9. Named(id, messages) = name
  BY <1>4, <1>6, <1>7, <1>8, NameFound
<1> QED
  BY <1>4, <1>9 DEF id, name

\* A result with the name of its tool
LEMMA ResultLinked ==
  ASSUME NEW m, NEW id, NEW name, NEW text, m = ToolResultMessage(id, m.name, text), NEW other
  PROVE  /\ [m EXCEPT !.name = other] = ToolResultMessage(id, other, text)
         /\ m.role = "tool" /\ m.call_id = id
BY DEF ToolResultMessage

\* Messages that say the turns, linked, are what is wanted
LEMMA Linked ==
  ASSUME Conversation(turns), NEW messages, IsSequence(messages), DOMAIN messages = DOMAIN turns,
         \A i \in DOMAIN turns : Rendered(messages[i], turns[i])
  PROVE  AsWanted(link_tool_results(messages))
<1> DEFINE list == link_tool_results(messages)
<1>1. DOMAIN list = DOMAIN turns
  BY DEF link_tool_results
<1>2. ASSUME NEW i \in DOMAIN turns, turns[i].kind # "tool"
      PROVE  list[i] = messages[i] /\ messages[i].role # "tool"
  <2>1. messages[i].role # "tool"
    BY <1>2 DEF Rendered
  <2> QED
    BY <2>1 DEF link_tool_results
<1>3. ASSUME NEW i \in DOMAIN turns, turns[i].kind = "tool"
      PROVE  list[i] = ToolResultMessage(turns[i].id, turns[i].name, turns[i].text)
  <2> DEFINE m == messages[i]
             t == turns[i]
  <2>1. m = ToolResultMessage(t.id, m.name, t.text) /\ m.name \in {Nothing, t.name}
    BY <1>3 DEF Rendered
  <2>2. Named(t.id, messages) = t.name /\ t.name # Nothing
    BY <1>3, NamesAgree
  <2>3. list[i] = IF m.role = "tool" /\ m.name = Nothing
                  THEN [m EXCEPT !.name = Named(m.call_id, messages)] ELSE m
    BY DEF link_tool_results, Nothing
  <2> HIDE DEF m, t, list
  <2>4. m.role = "tool" /\ m.call_id = t.id
        /\ [m EXCEPT !.name = t.name] = ToolResultMessage(t.id, t.name, t.text)
    BY <2>1, ResultLinked
  <2>5. list[i] = ToolResultMessage(t.id, t.name, t.text)
    <3>1. CASE m.name = Nothing
      BY <2>2, <2>3, <2>4, <3>1
    <3>2. CASE m.name = t.name
      BY <2>1, <2>2, <2>3, <3>2
    <3> QED
      BY <2>1, <3>1, <3>2
  <2> QED
    BY <2>5 DEF t
<1> HIDE DEF list
<1>4. ASSUME NEW i \in DOMAIN turns
      PROVE  /\ serialize_message(list[i]) = Wanted(turns[i])
             /\ list[i].role = "tool" <=> turns[i].kind = "tool"
             /\ turns[i].kind = "tool" => list[i].name = turns[i].name
  <2>1. CASE turns[i].kind # "tool"
    BY <1>2, <2>1 DEF Rendered
  <2>2. CASE turns[i].kind = "tool"
    <3> DEFINE t == turns[i]
               m == list[i]
    <3>1. m = ToolResultMessage(t.id, t.name, t.text) /\ t.kind = "tool"
      BY <1>3, <2>2
    <3> HIDE DEF m, t
    <3>2. m.role = "tool" /\ m.name = t.name /\ m.call_id = t.id /\ m.text = t.text
      BY <3>1 DEF ToolResultMessage
    <3>3. serialize_message(m) = [role |-> "tool", tool_call_id |-> t.id, content |-> t.text]
      BY <3>2 DEF serialize_message
    <3>4. Wanted(t) = [role |-> "tool", tool_call_id |-> t.id, content |-> t.text]
      BY <3>1 DEF Wanted
    <3> QED
      BY <2>2, <3>2, <3>3, <3>4 DEF m, t
  <2> QED
    BY <2>1, <2>2
<1>5. serialize_messages(list) = [i \in DOMAIN turns |-> Wanted(turns[i])]
  BY <1>1, <1>4 DEF serialize_messages
<1>6. ResultNames(list) = TurnNames
  <2> DEFINE g == [i \in DOMAIN list |-> IF list[i].role = "tool" THEN <<list[i].name>> ELSE <<>>]
             h == [i \in DOMAIN turns |->
                     IF turns[i].kind = "tool" THEN <<turns[i].name>> ELSE <<>>]
  <2>1. g = h
    BY <1>1, <1>4
  <2>2. ResultNames(list) = FlattenSeq(g) /\ TurnNames = FlattenSeq(h)
    BY DEF ResultNames, TurnNames
  <2> HIDE DEF g, h
  <2> QED
    BY <2>1, <2>2
<1>7. AsWanted(list)
  BY <1>5, <1>6 DEF AsWanted
<1> QED
  BY <1>7 DEF list

\* A refused message is refused with the others
LEMMA RefusalLinked ==
  ASSUME NEW messages, IsSequence(messages), NEW i \in DOMAIN messages, messages[i] = Refusal
  PROVE  Refused(link_tool_results(messages))
<1> DEFINE list == link_tool_results(messages)
           n == Len(messages)
<1>1. n \in Nat /\ DOMAIN messages = 1..n
  BY Appended
<1> HIDE DEF n
<1>2. DOMAIN list = 1..n
  BY <1>1 DEF link_tool_results
<1>3. list = [j \in 1..n |-> list[j]]
  BY <1>1 DEF link_tool_results
<1>4. list[i] = Refusal
  <2>1. Refusal.role # "tool"
    BY DEF Refusal
  <2> QED
    BY <2>1 DEF link_tool_results
<1> HIDE DEF list
<1>5. Len(list) = n
  BY <1>1, <1>2, <1>3
<1>6. Refused(list)
  BY <1>1, <1>4, <1>5 DEF Refused, Contains
<1> QED
  BY <1>6 DEF list

-----------------------------------------------------------------------------
(* The turns, one by one: the message that each is to become.              *)

\* What becomes of a turn: a message that says it, or a refusal
Renders(m, t, spoken) == IF spoken THEN Rendered(m, t) ELSE m = Refusal

\* An instruction
LEMMA InstructionRendered ==
  ASSUME NEW t, Instructs(t)
  PROVE  Rendered(SystemMessage(t.text), t)
<1> DEFINE m == SystemMessage(t.text)
<1>1. m.role = "system" /\ m.text = t.text /\ t.kind \in {"system", "developer"}
  BY DEF SystemMessage, Instructs
<1> HIDE DEF m
<1>2. serialize_message(m) = [role |-> "system", content |-> t.text]
  BY <1>1 DEF serialize_message
<1>3. Wanted(t) = [role |-> "system", content |-> t.text]
  BY <1>1 DEF Wanted
<1>4. Rendered(m, t)
  BY <1>1, <1>2, <1>3 DEF Rendered
<1> QED
  BY <1>4 DEF m

\* A result of a tool, with its name or without
LEMMA ResultRendered ==
  ASSUME NEW t, Returns(t), NEW name \in {Nothing, t.name}
  PROVE  Rendered(ToolResultMessage(t.id, name, t.text), t)
<1> DEFINE m == ToolResultMessage(t.id, name, t.text)
<1>1. /\ m.role = "tool" /\ m.call_id = t.id /\ m.name = name /\ m.text = t.text
      /\ t.kind = "tool"
  BY DEF ToolResultMessage, Returns
<1>2. m = ToolResultMessage(t.id, m.name, t.text)
  BY <1>1
<1> HIDE DEF m
<1>3. serialize_message(m) = [role |-> "tool", tool_call_id |-> t.id, content |-> t.text]
  BY <1>1 DEF serialize_message
<1>4. Wanted(t) = [role |-> "tool", tool_call_id |-> t.id, content |-> t.text]
  BY <1>1 DEF Wanted
<1>5. Rendered(m, t)
  BY <1>1, <1>2, <1>3, <1>4 DEF Rendered
<1> QED
  BY <1>5 DEF m

\* A turn of the assistant, whatever the blocks it is made of
LEMMA AnswerRendered ==
  ASSUME NEW t, Answers(t), NEW blocks, JoinsTo(blocks, t.reasoning, t.text),
         NEW calls, IsSequence(calls), SameCallLists(calls, t.calls)
  PROVE  Rendered(AssistantMessage(blocks, calls), t)
<1> DEFINE m == AssistantMessage(blocks, calls)
<1>1. m.role = "assistant" /\ m.calls = calls /\ t.kind = "assistant"
  BY DEF AssistantMessage, Answers
<1>2. serialize_message(m) =
        Serialized(Joined(blocks, "text"), Joined(blocks, "reasoning"), t.calls)
  BY AssistantSerialized
<1> HIDE DEF m
<1>3. serialize_message(m) = Serialized(t.text, t.reasoning, t.calls)
  BY <1>2 DEF JoinsTo
<1>4. Wanted(t) = Serialized(t.text, t.reasoning, t.calls)
  BY <1>1 DEF Wanted, Serialized
<1>5. Rendered(m, t)
  BY <1>1, <1>3, <1>4 DEF Rendered
<1> QED
  BY <1>5 DEF m

\* The parts of a question
Shown(t) ==
  CASE t.image = "none" -> <<>>
    [] t.image = "inline" -> <<Image("p")>>
    [] OTHER -> <<Refusal>>
PartsOf(t) == Block("text", t.text) \o Shown(t)

\* A block of text, alone
LEMMA OneText ==
  ASSUME NEW text, IsSequence(text)
  PROVE  /\ Joined(Block("text", text), "text") = text /\ IsSequence(Block("text", text))
         /\ \A i \in DOMAIN Block("text", text) :
              Block("text", text)[i].kind = "text" /\ Block("text", text)[i] # Refusal
<1> DEFINE d == Block("text", text)
<1>1. Flattened(Text("text", text)) = text /\ parse_content(Text("text", text)) = d
  BY TextContent
<1>2. Joined(d, "text") = text
  BY <1>1 DEF Flattened
<1>3. IsSequence(d) /\ \A i \in DOMAIN d : d[i] = [kind |-> "text", text |-> text]
  BY ShortSequences DEF Block
<1>4. [kind |-> "text", text |-> text] # Refusal
  <2>1. "kind" \in DOMAIN [kind |-> "text", text |-> text] /\ "kind" \notin DOMAIN Refusal
    BY DEF Refusal
  <2> QED
    BY <2>1
<1>5. \A i \in DOMAIN d : d[i].kind = "text" /\ d[i] # Refusal
  BY <1>3, <1>4
<1> QED
  BY <1>2, <1>3, <1>5

\* A question
LEMMA QuestionRendered ==
  ASSUME NEW t, Asks(t)
  PROVE  /\ Renders(UserTurn(PartsOf(t)), t, t.image # "url")
         /\ IsSequence(PartsOf(t)) /\ PartsOf(t) # <<>>
<1> DEFINE d == Block("text", t.text)
           parts == PartsOf(t)
<1>1. /\ Joined(d, "text") = t.text /\ IsSequence(d)
      /\ \A i \in DOMAIN d : d[i].kind = "text" /\ d[i] # Refusal
  BY OneText DEF Asks
<1>2. /\ t.kind = "user" /\ t.image \in {"none", "inline", "url"}
      /\ t.text # <<>> \/ t.image # "none"
  BY DEF Asks
<1>3. d = <<>> <=> t.text = <<>>
  BY ShortSequences DEF Block
<1> HIDE DEF d
<1>4. CASE t.image = "none"
  <2>1. parts = d
    <3>1. Shown(t) = <<>>
      BY <1>4 DEF Shown
    <3>2. d \o <<>> = d
      BY <1>1, Concatenation
    <3> QED
      BY <3>1, <3>2 DEF PartsOf, d
  <2>2. ~Refused(d)
    <3>1. DOMAIN d = 1..Len(d)
      BY <1>1, Appended
    <3> QED
      BY <1>1, <3>1 DEF Refused, Contains
  <2>3. Rendered(UserMessage(d), t)
    <3> DEFINE m == UserMessage(d)
    <3>1. m.role = "user" /\ m.parts = d
      BY DEF UserMessage
    <3> HIDE DEF m
    <3>2. serialize_message(m) = [role |-> "user", content |-> UserContent(d)]
      BY <3>1 DEF serialize_message
    <3>3. UserContent(d) = t.text
      BY <1>1 DEF UserContent
    <3>4. Wanted(t) = [role |-> "user", content |-> t.text]
      BY <1>2, <1>4 DEF Wanted
    <3>5. Rendered(m, t)
      BY <1>2, <3>1, <3>2, <3>3, <3>4 DEF Rendered
    <3> QED
      BY <3>5 DEF m
  <2>4. UserTurn(d) = UserMessage(d)
    BY <2>2 DEF UserTurn
  <2> HIDE DEF parts
  <2>5. Renders(UserTurn(parts), t, t.image # "url")
    BY <1>4, <2>1, <2>3, <2>4 DEF Renders
  <2> QED
    BY <1>1, <1>2, <1>3, <1>4, <2>1, <2>5 DEF parts
<1>5. CASE t.image # "none"
  <2> DEFINE p == IF t.image = "inline" THEN Image("p") ELSE Refusal
             n == Len(d)
             one == <<p>>
  <2>1. parts = Append(d, p)
    <3>1. Shown(t) = <<p>>
      BY <1>2, <1>5 DEF Shown
    <3>2. d \o <<p>> = Append(d, p)
      BY <1>1, OneBehind
    <3> QED
      BY <3>1, <3>2 DEF PartsOf, d
  <2>2. parts = d \o <<p>>
    BY <1>1, <2>1, OneBehind
  <2>3. /\ IsSequence(Append(d, p)) /\ n \in Nat /\ Len(Append(d, p)) = n + 1
        /\ DOMAIN d = 1..n /\ DOMAIN Append(d, p) = 1..(n + 1) /\ Append(d, p)[n + 1] = p
        /\ \A i \in 1..n : Append(d, p)[i] = d[i]
    BY <1>1, Appended
  <2> HIDE DEF parts, p, n
  <2>4. /\ IsSequence(parts) /\ n \in Nat /\ Len(parts) = n + 1 /\ DOMAIN d = 1..n
        /\ DOMAIN parts = 1..(n + 1) /\ parts[n + 1] = p /\ \A i \in 1..n : parts[i] = d[i]
    BY <2>1, <2>3
  <2>5. n + 1 \in 1..(n + 1) /\ \A i \in 1..(n + 1) : i \in 1..n \/ i = n + 1
    BY <2>4
  <2>6. parts # <<>>
    BY <2>4, <2>5
  <2>7. CASE t.image = "inline"
    <3>1. p = Image("p")
      BY <2>7 DEF p
    <3>2. p.kind = "image" /\ p # Refusal
      <4>1. "kind" \in DOMAIN Image("p") /\ "kind" \notin DOMAIN Refusal
        BY DEF Refusal, Image
      <4> QED
        BY <3>1, <4>1 DEF Image
    <3>3. ~Refused(parts)
      <4>1. \A i \in 1..(n + 1) : parts[i] # Refusal
        BY <1>1, <2>4, <2>5, <3>2
      <4> QED
        BY <2>4, <4>1 DEF Refused, Contains
    <3>4. UserTurn(parts) = UserMessage(parts)
      BY <3>3 DEF UserTurn
    <3>5. Rendered(UserMessage(parts), t)
      <4> DEFINE m == UserMessage(parts)
      <4>1. m.role = "user" /\ m.parts = parts
        BY DEF UserMessage
      <4> HIDE DEF m
      <4>2. serialize_message(m) = [role |-> "user", content |-> UserContent(parts)]
        BY <4>1 DEF serialize_message
      <4>3. UserContent(parts) = parts
        <5>1. ~(\A i \in DOMAIN parts : parts[i].kind = "text")
          BY <2>4, <2>5, <3>2
        <5> QED
          BY <5>1 DEF UserContent
      <4>4. Wanted(t) = [role |-> "user", content |-> parts]
        <5>1. Wanted(t) = [role |-> "user", content |-> Block("text", t.text) \o <<Image("p")>>]
          BY <1>2, <2>7 DEF Wanted
        <5> QED
          BY <2>2, <3>1, <5>1 DEF d
      <4>5. Rendered(m, t)
        BY <1>2, <4>1, <4>2, <4>3, <4>4 DEF Rendered
      <4> QED
        BY <4>5 DEF m
    <3> QED
      BY <2>4, <2>6, <2>7, <3>4, <3>5 DEF Renders, parts
  <2>8. CASE t.image = "url"
    <3>1. p = Refusal
      BY <2>8 DEF p
    <3>2. Refused(parts)
      BY <2>4, <2>5, <3>1 DEF Refused, Contains
    <3>3. UserTurn(parts) = Refusal
      BY <3>2 DEF UserTurn
    <3> QED
      BY <2>4, <2>6, <2>8, <3>3 DEF Renders, parts
  <2> QED
    BY <1>2, <1>5, <2>7, <2>8
<1> QED
  BY <1>4, <1>5

-----------------------------------------------------------------------------
(* A conversation, as a whole.                                             *)

MaySay(f, i) == Speakable(f, turns[i]) \/ (i = 1 /\ turns[1].kind = "system")
Conveyed(f, messages) == IF Acceptable(f) THEN AsWanted(messages) ELSE Refused(messages)

\* A function on the turns is a sequence
LEMMA TurnsListed ==
  ASSUME Conversation(turns), NEW list, DOMAIN list = DOMAIN turns,
         list = [i \in DOMAIN turns |-> list[i]]
  PROVE  IsSequence(list)
<1> DEFINE n == Len(turns)
<1>1. n \in Nat /\ DOMAIN turns = 1..n
  BY Appended DEF Conversation
<1> HIDE DEF n
<1>2. DOMAIN list = 1..n /\ list = [i \in 1..n |-> list[i]]
  BY <1>1
<1> QED
  BY <1>1, <1>2, FunctionListed

\* A conversation whose messages are those of its turns
LEMMA AllTold ==
  ASSUME Conversation(turns), NEW f, NEW messages, IsSequence(messages),
         DOMAIN messages = DOMAIN turns,
         \A i \in DOMAIN turns : Renders(messages[i], turns[i], MaySay(f, i))
  PROVE  Conveyed(f, link_tool_results(messages))
<1>1. CASE Acceptable(f)
  <2>1. \A i \in DOMAIN turns : Rendered(messages[i], turns[i])
    BY <1>1 DEF Acceptable, MaySay, Renders
  <2> QED
    BY <1>1, <2>1, Linked DEF Conveyed
<1>2. CASE ~Acceptable(f)
  <2>1. PICK i \in DOMAIN turns : ~MaySay(f, i)
    BY <1>2 DEF Acceptable, MaySay
  <2>2. messages[i] = Refusal
    BY <2>1 DEF Renders
  <2> QED
    BY <1>2, <2>2, RefusalLinked DEF Conveyed
<1> QED
  BY <1>1, <1>2

-----------------------------------------------------------------------------
(* Contents, and the questions of OpenAI and Responses.                    *)

\* One part more of a content
LEMMA ContentMore ==
  ASSUME NEW raw, IsSequence(raw), NEW p
  PROVE  parse_content(Append(raw, p)) = parse_content(raw) \o OpenAIPart(p)
<1> DEFINE n == Len(raw)
           more == Append(raw, p)
           g == [i \in DOMAIN raw |-> OpenAIPart(raw[i])]
           h == [i \in DOMAIN more |-> OpenAIPart(more[i])]
<1>1. /\ n \in Nat /\ DOMAIN raw = 1..n /\ DOMAIN more = 1..(n + 1) /\ more[n + 1] = p
      /\ \A i \in 1..n : more[i] = raw[i]
  BY Appended
<1>2. \A x : IsSequence(OpenAIPart(x))
  BY ShortSequences DEF OpenAIPart, Block
<1>3. parse_content(raw) = FlattenSeq(g) /\ parse_content(more) = FlattenSeq(h)
  BY DEF parse_content
<1> HIDE DEF n, more
<1>4. n + 1 \in 1..(n + 1) /\ \A i \in 1..n : i \in 1..(n + 1)
  BY <1>1
<1>5. Family(g, n) /\ Family(h, n + 1) /\ Extends(h, g, n) /\ h[n + 1] = OpenAIPart(p)
  BY <1>1, <1>2, <1>4 DEF Family, Extends
<1> HIDE DEF g, h
<1>6. FlattenSeq(h) = FlattenSeq(g) \o h[n + 1]
  BY <1>1, <1>5, FlattenedOneMore
<1>7. parse_content(more) = parse_content(raw) \o OpenAIPart(p)
  BY <1>3, <1>5, <1>6
<1> QED
  BY <1>7 DEF more

\* A picture, and what becomes of it
LEMMA PictureTaken ==
  ASSUME NEW t, Asks(t), t.image # "none", NEW type
  PROVE  \E p : /\ Pictures(t, type) = <<p>> /\ p.type = type /\ Shown(t) = <<Picture(p)>>
<1> DEFINE p == [type |-> type, inline |-> t.image = "inline", data |-> "p"]
<1>1. Pictures(t, type) = <<p>>
  BY DEF Pictures
<1>2. p.type = type /\ p.inline = (t.image = "inline") /\ p.data = "p"
  OBVIOUS
<1> HIDE DEF p
<1>3. Shown(t) = <<Picture(p)>>
  BY <1>2 DEF Shown, Picture, Asks
<1> QED
  BY <1>1, <1>2, <1>3

\* The content of a question is its parts
LEMMA QuestionRead ==
  ASSUME NEW t, Asks(t), NEW type \in {"text", "input_text", "output_text"},
         NEW picture \in {"image_url", "input_image"}
  PROVE  parse_content(Text(type, t.text) \o Pictures(t, picture)) = PartsOf(t)
<1> DEFINE raw == Text(type, t.text)
           d == Block("text", t.text)
<1>1. IsSequence(t.text)
  BY DEF Asks
<1>2. parse_content(raw) = d
  BY <1>1, TextContent
<1>3. IsSequence(raw) /\ IsSequence(d)
  BY ShortSequences DEF Text, Block
<1> HIDE DEF raw, d
<1>4. CASE t.image = "none"
  <2>1. Pictures(t, picture) = <<>> /\ Shown(t) = <<>>
    BY <1>4 DEF Pictures, Shown
  <2>2. raw \o <<>> = raw /\ d \o <<>> = d
    BY <1>3, Concatenation
  <2> QED
    BY <1>2, <2>1, <2>2 DEF PartsOf, raw, d
<1>5. CASE t.image # "none"
  <2>1. PICK p : /\ Pictures(t, picture) = <<p>> /\ p.type = picture /\ Shown(t) = <<Picture(p)>>
    BY <1>5, PictureTaken
  <2>2. OpenAIPart(p) = <<Picture(p)>>
    BY <2>1 DEF OpenAIPart
  <2>3. raw \o <<p>> = Append(raw, p)
    BY <1>3, OneBehind
  <2>4. parse_content(Append(raw, p)) = parse_content(raw) \o OpenAIPart(p)
    BY <1>3, ContentMore
  <2>5. parse_content(raw \o <<p>>) = d \o <<Picture(p)>>
    BY <1>2, <2>2, <2>3, <2>4
  <2> QED
    BY <2>1, <2>5 DEF PartsOf, raw, d
<1> QED
  BY <1>4, <1>5

-----------------------------------------------------------------------------
(* OpenAI.                                                                 *)

OpenAIBody == [i \in DOMAIN turns |-> OpenAITurn(turns[i])]

\* The calls of a turn, told to OpenAI
Recalled(calls) == OpenAICalls([i \in DOMAIN calls |-> OpenAICall(calls[i])])

\* They are the same calls
LEMMA CallsRecalled ==
  ASSUME NEW calls, IsSequence(calls)
  PROVE  SameCallLists(Recalled(calls), calls) /\ IsSequence(Recalled(calls))
<1> DEFINE raw == [i \in DOMAIN calls |-> OpenAICall(calls[i])]
           list == OpenAICalls(raw)
           n == Len(calls)
<1>1. n \in Nat /\ DOMAIN calls = 1..n
  BY Appended
<1>2. SameCallLists(list, calls)
  BY DEF OpenAICalls, OpenAICall, OpenAIArguments, Dumped, SameCallLists, SameCall, ToolCall
<1>3. DOMAIN list = 1..n /\ list = [i \in 1..n |-> list[i]]
  BY <1>1 DEF OpenAICalls
<1>4. Recalled(calls) = list
  BY DEF Recalled
<1> HIDE DEF list, n
<1>6. IsSequence(list)
  BY <1>1, <1>3, FunctionListed
<1> QED
  BY <1>2, <1>4, <1>6

\* A message of the user, that is not refused
LEMMA UserRead ==
  ASSUME NEW m, m.role = "user", NEW parts, parts = parse_content(m.content)
  PROVE  OpenAIMessage(m) = UserTurn(parts)
<1>1. CASE Refused(parts)
  <2>1. Refused(parse_content(m.content))
    BY <1>1
  <2>2. OpenAIMessage(m) = Refusal
    BY <2>1 DEF OpenAIMessage
  <2> QED
    BY <1>1, <2>2 DEF UserTurn
<1>2. CASE ~Refused(parts)
  <2>1. ~Refused(parse_content(m.content)) /\ m.role \notin {"system", "developer"}
    BY <1>2
  <2>2. OpenAIMessage(m) = UserMessage(parts)
    BY <2>1 DEF OpenAIMessage
  <2> QED
    BY <1>2, <2>2 DEF UserTurn
<1> QED
  BY <1>1, <1>2

\* A turn, told to OpenAI
LEMMA OpenAISays ==
  ASSUME NEW t \in TurnKinds
  PROVE  Renders(OpenAIMessage(OpenAITurn(t)), t, Speakable("openai", t))
<1> DEFINE m == OpenAITurn(t)
           f == "openai"
<1>1. /\ m.role = t.kind
      /\ m.content = Text("text", t.text)
                       \o (IF t.kind = "user" THEN Pictures(t, "image_url") ELSE <<>>)
      /\ t.kind = "assistant" => /\ m.reasoning_content = t.reasoning
                                 /\ m.tool_calls = [i \in DOMAIN t.calls |-> OpenAICall(t.calls[i])]
      /\ t.kind = "tool" => m.tool_call_id = t.id /\ m.name = Nothing
  BY DEF OpenAITurn, Nothing
<1> HIDE DEF m, f
<1>2. Instructs(t) \/ Asks(t) \/ Answers(t) \/ Returns(t)
  BY TurnsSorted
<1>3. CASE Asks(t)
  <2>1. t.kind = "user"
    BY <1>3 DEF Asks
  <2>2. m.content = Text("text", t.text) \o Pictures(t, "image_url")
    BY <1>1, <2>1
  <2>3. parse_content(m.content) = PartsOf(t)
    <3>1. parse_content(Text("text", t.text) \o Pictures(t, "image_url")) = PartsOf(t)
      BY <1>3, QuestionRead
    <3> QED
      BY <2>2, <3>1
  <2>4. OpenAIMessage(m) = UserTurn(PartsOf(t))
    <3>1. m.role = "user"
      BY <1>1, <2>1
    <3> QED
      BY <2>3, <3>1, UserRead
  <2>5. Speakable(f, t) = (t.image # "url")
    BY <2>1 DEF Speakable
  <2>6. Renders(UserTurn(PartsOf(t)), t, t.image # "url")
    BY <1>3, QuestionRendered
  <2> QED
    BY <2>4, <2>5, <2>6 DEF m, f
<1>4. ASSUME t.kind # "user", IsSequence(t.text)
      PROVE  Flattened(m.content) = t.text /\ ~Refused(parse_content(m.content))
  <2> DEFINE raw == Text("text", t.text)
  <2>1. IsSequence(raw)
    BY ShortSequences DEF Text
  <2>2. Flattened(raw) = t.text /\ ~Refused(parse_content(raw))
    BY <1>4, TextContent
  <2>3. m.content = raw \o <<>>
    BY <1>1, <1>4
  <2> HIDE DEF raw
  <2>4. raw \o <<>> = raw
    BY <2>1, Concatenation
  <2> QED
    BY <2>2, <2>3, <2>4
<1>5. CASE Instructs(t)
  <2>1. t.kind \in {"system", "developer"} /\ IsSequence(t.text)
    BY <1>5 DEF Instructs
  <2>2. OpenAIMessage(m) = SystemMessage(t.text)
    BY <1>1, <1>4, <2>1 DEF OpenAIMessage
  <2>3. Rendered(SystemMessage(t.text), t)
    BY <1>5, InstructionRendered
  <2>4. Speakable(f, t)
    BY <2>1 DEF Speakable, f
  <2> QED
    BY <2>2, <2>3, <2>4 DEF Renders, m, f
<1>6. CASE Answers(t)
  <2> DEFINE calls == OpenAICalls(m.tool_calls)
             d == Block("reasoning", t.reasoning) \o Block("text", t.text)
  <2>1. t.kind = "assistant" /\ IsSequence(t.text) /\ IsSequence(t.reasoning) /\ IsSequence(t.calls)
    BY <1>6 DEF Answers
  <2>2. calls = Recalled(t.calls)
    BY <1>1, <2>1 DEF Recalled
  <2>3. SameCallLists(calls, t.calls) /\ IsSequence(calls)
    BY <2>1, <2>2, CallsRecalled
  <2>4. JoinsTo(d, t.reasoning, t.text)
    BY <2>1, BlocksJoined
  <2>5. OpenAIMessage(m) = AssistantMessage(d, calls)
    BY <1>1, <1>4, <2>1 DEF OpenAIMessage
  <2> HIDE DEF calls, d
  <2>6. Rendered(AssistantMessage(d, calls), t)
    BY <1>6, <2>3, <2>4, AnswerRendered
  <2>7. Speakable(f, t)
    BY <2>1 DEF Speakable
  <2> QED
    BY <2>5, <2>6, <2>7 DEF Renders, m, f
<1>7. CASE Returns(t)
  <2>1. t.kind = "tool" /\ IsSequence(t.text)
    BY <1>7 DEF Returns
  <2>2. OpenAIMessage(m) = ToolResultMessage(t.id, Nothing, t.text)
    BY <1>1, <1>4, <2>1 DEF OpenAIMessage
  <2>3. Rendered(ToolResultMessage(t.id, Nothing, t.text), t)
    BY <1>7, ResultRendered
  <2>4. Speakable(f, t)
    BY <2>1 DEF Speakable
  <2> QED
    BY <2>2, <2>3, <2>4 DEF Renders, m, f
<1> QED
  BY <1>2, <1>3, <1>5, <1>6, <1>7

\* A facade can say a turn, or it cannot
LEMMA SpeakableOrNot ==
  ASSUME NEW f, NEW t \in TurnKinds
  PROVE  Speakable(f, t) \in BOOLEAN
<1>1. t.kind \in {"system", "developer", "user", "assistant", "tool"}
  BY TurnsSorted DEF Instructs, Asks, Answers, Returns
<1>2. CASE t.kind = "developer"
  <2>1. Speakable(f, t) = (f \in {"openai", "responses"})
    BY <1>2 DEF Speakable
  <2> QED
    BY <2>1
<1>3. CASE t.kind = "system"
  <2>1. Speakable(f, t) = (f # "anthropic")
    BY <1>3 DEF Speakable
  <2> QED
    BY <2>1
<1>4. CASE t.kind = "user"
  <2>1. Speakable(f, t) = (t.image # "url")
    BY <1>4 DEF Speakable
  <2> QED
    BY <2>1
<1>5. CASE t.kind \in {"assistant", "tool"}
  <2>1. Speakable(f, t) = TRUE
    BY <1>5 DEF Speakable
  <2> QED
    BY <2>1
<1> QED
  BY <1>1, <1>2, <1>3, <1>4, <1>5

\* What a client may always say is said by it wherever it stands
LEMMA MaySayFirst ==
  ASSUME Conversation(turns), NEW f \in {"ollama_chat", "openai", "responses"},
         NEW i \in DOMAIN turns
  PROVE  MaySay(f, i) = Speakable(f, turns[i])
<1>1. turns[i].kind = "system" => Speakable(f, turns[i])
  BY DEF Speakable
<1>2. Speakable(f, turns[i]) \in BOOLEAN
  BY SpeakableOrNot DEF Conversation
<1> QED
  BY <1>1, <1>2 DEF MaySay

\* A conversation, told to OpenAI
LEMMA OpenAITold ==
  ASSUME Conversation(turns)
  PROVE  Conveyed("openai", Parsed("openai"))
<1> DEFINE f == "openai"
           messages == parse_chat_messages(OpenAIBody)
<1>1. Parsed("openai") = link_tool_results(messages)
  BY DEF Parsed, build_chat_request, OpenAIBody
<1>2. /\ DOMAIN messages = DOMAIN turns /\ messages = [i \in DOMAIN turns |-> messages[i]]
      /\ \A i \in DOMAIN turns : messages[i] = OpenAIMessage(OpenAITurn(turns[i]))
  BY DEF parse_chat_messages, OpenAIBody
<1> HIDE DEF messages, f
<1>3. IsSequence(messages)
  BY <1>2, TurnsListed
<1>4. ASSUME NEW i \in DOMAIN turns PROVE Renders(messages[i], turns[i], MaySay(f, i))
  <2>1. Renders(OpenAIMessage(OpenAITurn(turns[i])), turns[i], Speakable(f, turns[i]))
    BY OpenAISays DEF Conversation, f
  <2>2. MaySay(f, i) = Speakable(f, turns[i])
    BY MaySayFirst DEF f
  <2> QED
    BY <1>2, <2>1, <2>2
<1>5. Conveyed(f, link_tool_results(messages))
  BY <1>2, <1>3, <1>4, AllTold
<1> QED
  BY <1>1, <1>5 DEF f

-----------------------------------------------------------------------------
(* Ollama.                                                                 *)

OllamaBody == [i \in DOMAIN turns |-> OllamaTurn(turns[i])]
Read(images) == [i \in DOMAIN images |-> Picture(images[i])]

\* The pictures of a question, read
LEMMA PicturesRead ==
  ASSUME NEW t, Asks(t), NEW type
  PROVE  Read(Pictures(t, type)) = Shown(t)
<1> DEFINE list == Pictures(t, type)
<1>1. CASE t.image = "none"
  <2>1. list = <<>> /\ Shown(t) = <<>>
    BY <1>1 DEF Pictures, Shown
  <2>2. Read(<<>>) = <<>>
    BY DEF Read
  <2> QED
    BY <2>1, <2>2
<1>2. CASE t.image # "none"
  <2>1. PICK p : list = <<p>> /\ Shown(t) = <<Picture(p)>>
    BY <1>2, PictureTaken
  <2> DEFINE q == Picture(p)
             one == <<p>>
  <2>2. DOMAIN one = {1} /\ one[1] = p
    OBVIOUS
  <2> HIDE DEF one
  <2>3. Read(one) = [i \in {1} |-> q]
    BY <2>2 DEF Read
  <2> HIDE DEF q
  <2>4. [i \in {1} |-> q] = <<q>>
    OBVIOUS
  <2> QED
    BY <2>1, <2>3, <2>4 DEF q, one
<1> QED
  BY <1>1, <1>2

\* A turn, told to Ollama
LEMMA OllamaSays ==
  ASSUME NEW t \in TurnKinds
  PROVE  Renders(parse_message(OllamaTurn(t)), t, Speakable("ollama_chat", t))
<1> DEFINE m == OllamaTurn(t)
           f == "ollama_chat"
<1>1. /\ m.role = t.kind /\ m.content = t.text
      /\ t.kind = "user" => m.images = Pictures(t, "image")
      /\ t.kind = "assistant" => m.thinking = t.reasoning /\ m.tool_calls = t.calls
      /\ t.kind = "tool" => m.tool_call_id = t.id /\ m.tool_name = t.name
  BY DEF OllamaTurn
<1> HIDE DEF m
<1>2. Instructs(t) \/ Asks(t) \/ Answers(t) \/ Returns(t)
  BY TurnsSorted
<1>3. CASE Asks(t)
  <2>1. t.kind = "user"
    BY <1>3 DEF Asks
  <2>2. Read(m.images) = Shown(t)
    BY <1>1, <1>3, <2>1, PicturesRead
  <2>3. parse_message(m) = UserTurn(Block("text", t.text) \o Read(m.images))
    BY <1>1, <2>1 DEF parse_message, Read
  <2>4. parse_message(m) = UserTurn(PartsOf(t))
    BY <2>2, <2>3 DEF PartsOf
  <2>5. Speakable(f, t) = (t.image # "url")
    BY <2>1 DEF Speakable
  <2>6. Renders(UserTurn(PartsOf(t)), t, t.image # "url")
    BY <1>3, QuestionRendered
  <2> QED
    BY <2>4, <2>5, <2>6 DEF m
<1>5. CASE Instructs(t)
  <2>1. t.kind \in {"system", "developer"}
    BY <1>5 DEF Instructs
  <2>2. CASE t.kind = "system"
    <3>1. parse_message(m) = SystemMessage(t.text)
      BY <1>1, <2>2 DEF parse_message
    <3>2. Rendered(SystemMessage(t.text), t)
      BY <1>5, InstructionRendered
    <3>3. Speakable(f, t)
      BY <2>2 DEF Speakable
    <3> QED
      BY <3>1, <3>2, <3>3 DEF Renders, m
  <2>3. CASE t.kind = "developer"
    <3>1. parse_message(m) = Refusal
      <4>1. m.role \notin {"system", "tool", "assistant", "user", Nothing}
        BY <1>1, <2>3 DEF Nothing
      <4> QED
        BY <4>1 DEF parse_message, Nothing
    <3>2. ~Speakable(f, t)
      BY <2>3 DEF Speakable
    <3> QED
      BY <3>1, <3>2 DEF Renders, m
  <2> QED
    BY <2>1, <2>2, <2>3
<1>6. CASE Answers(t)
  <2> DEFINE calls == OllamaCalls(t.calls)
             d == Block("reasoning", t.reasoning) \o Block("text", t.text)
             n == Len(t.calls)
  <2>1. t.kind = "assistant" /\ IsSequence(t.text) /\ IsSequence(t.reasoning) /\ IsSequence(t.calls)
    BY <1>6 DEF Answers
  <2>2. SameCallLists(calls, t.calls)
    BY DEF OllamaCalls, SameCallLists, SameCall, ToolCall
  <2>3. IsSequence(calls)
    <3>1. n \in Nat /\ DOMAIN t.calls = 1..n
      BY <2>1, Appended
    <3>2. DOMAIN calls = 1..n /\ calls = [i \in 1..n |-> calls[i]]
      BY <3>1 DEF OllamaCalls
    <3> HIDE DEF calls, n
    <3> QED
      BY <3>1, <3>2, FunctionListed
  <2>4. JoinsTo(d, t.reasoning, t.text)
    BY <2>1, BlocksJoined
  <2>5. parse_message(m) = AssistantMessage(d, calls)
    BY <1>1, <2>1 DEF parse_message
  <2> HIDE DEF calls, d
  <2>6. Rendered(AssistantMessage(d, calls), t)
    BY <1>6, <2>2, <2>3, <2>4, AnswerRendered
  <2>7. Speakable(f, t)
    BY <2>1 DEF Speakable
  <2> QED
    BY <2>5, <2>6, <2>7 DEF Renders, m
<1>7. CASE Returns(t)
  <2>1. t.kind = "tool" /\ IsSequence(t.text)
    BY <1>7 DEF Returns
  <2>2. parse_message(m) = ToolResultMessage(t.id, t.name, t.text)
    BY <1>1, <2>1 DEF parse_message
  <2>3. Rendered(ToolResultMessage(t.id, t.name, t.text), t)
    BY <1>7, ResultRendered
  <2>4. Speakable(f, t)
    BY <2>1 DEF Speakable
  <2> QED
    BY <2>2, <2>3, <2>4 DEF Renders, m
<1> QED
  BY <1>2, <1>3, <1>5, <1>6, <1>7

\* A conversation, told to Ollama
LEMMA OllamaTold ==
  ASSUME Conversation(turns)
  PROVE  Conveyed("ollama_chat", Parsed("ollama_chat"))
<1> DEFINE f == "ollama_chat"
           messages == [i \in DOMAIN OllamaBody |-> parse_message(OllamaBody[i])]
<1>1. Parsed(f) = link_tool_results(messages)
  BY DEF Parsed, parse_chat_request, OllamaBody
<1>2. /\ DOMAIN messages = DOMAIN turns /\ messages = [i \in DOMAIN turns |-> messages[i]]
      /\ \A i \in DOMAIN turns : messages[i] = parse_message(OllamaTurn(turns[i]))
  BY DEF OllamaBody
<1> HIDE DEF messages
<1>3. IsSequence(messages)
  BY <1>2, TurnsListed
<1>4. ASSUME NEW i \in DOMAIN turns PROVE Renders(messages[i], turns[i], MaySay(f, i))
  <2>1. Renders(parse_message(OllamaTurn(turns[i])), turns[i], Speakable(f, turns[i]))
    BY OllamaSays DEF Conversation
  <2>2. MaySay(f, i) = Speakable(f, turns[i])
    BY MaySayFirst
  <2> QED
    BY <1>2, <2>1, <2>2
<1> HIDE DEF f
<1>5. Conveyed(f, link_tool_results(messages))
  BY <1>2, <1>3, <1>4, AllTold
<1> QED
  BY <1>1, <1>5 DEF f

-----------------------------------------------------------------------------
(* Responses: a turn that is not the assistant's is one item.              *)

\* An item that ends what was pending, and becomes a message
Becomes(x, m) == \A acc : ResponsesItem(acc, x) = Flushed(acc, m)

\* A message without a picture
LEMMA TextAlone ==
  ASSUME NEW text, IsSequence(text), NEW type \in {"text", "input_text", "output_text"},
         NEW content, content = Text(type, text) \o <<>>
  PROVE  Flattened(content) = text /\ ~Refused(parse_content(content))
<1> DEFINE raw == Text(type, text)
<1>1. IsSequence(raw)
  BY ShortSequences DEF Text
<1>2. Flattened(raw) = text /\ ~Refused(parse_content(raw))
  BY TextContent
<1>3. content = raw \o <<>>
  OBVIOUS
<1> HIDE DEF raw
<1>4. raw \o <<>> = raw
  BY <1>1, Concatenation
<1> QED
  BY <1>2, <1>3, <1>4

\* What becomes of an item that is not refused, and of one that is
LEMMA MessageBecomes ==
  ASSUME NEW x, x.type = "message", NEW parts, parts = parse_content(x.content)
  PROVE  /\ x.role = "user" => Becomes(x, UserTurn(parts))
         /\ x.role \in {"system", "developer"} /\ ~Refused(parts) =>
              Becomes(x, SystemMessage(Flattened(x.content)))
<1>1. \A acc : ResponsesItem(acc, x) = ResponsesMessage(acc, x)
  BY DEF ResponsesItem
<1>2. ASSUME NEW acc, x.role = "user"
      PROVE  ResponsesMessage(acc, x) = Flushed(acc, UserTurn(parts))
  <2>1. CASE Refused(parts)
    <3>1. ResponsesMessage(acc, x) = Flushed(acc, Refusal)
      BY <2>1 DEF ResponsesMessage
    <3> QED
      BY <2>1, <3>1 DEF UserTurn
  <2>2. CASE ~Refused(parts)
    <3>1. x.role \notin {"assistant", "system", "developer"} /\ ~Refused(parse_content(x.content))
      BY <1>2, <2>2
    <3>2. ResponsesMessage(acc, x) = Flushed(acc, UserMessage(parts))
      BY <3>1 DEF ResponsesMessage
    <3> QED
      BY <2>2, <3>2 DEF UserTurn
  <2> QED
    BY <2>1, <2>2
<1>3. ASSUME NEW acc, x.role \in {"system", "developer"}, ~Refused(parts)
      PROVE  ResponsesMessage(acc, x) = Flushed(acc, SystemMessage(Flattened(x.content)))
  <2>1. x.role # "assistant" /\ ~Refused(parse_content(x.content))
    BY <1>3
  <2> QED
    BY <1>3, <2>1 DEF ResponsesMessage
<1> QED
  BY <1>1, <1>2, <1>3 DEF Becomes

\* A turn that is not the assistant's, told to Responses
LEMMA ResponsesSays ==
  ASSUME NEW t \in TurnKinds, t.kind # "assistant"
  PROVE  \E x : \E m : /\ ResponsesItems(t) = <<x>> /\ Becomes(x, m)
                       /\ Renders(m, t, Speakable("responses", t))
<1> DEFINE f == "responses"
           content == Text("input_text", t.text)
                        \o (IF t.kind = "user" THEN Pictures(t, "input_image") ELSE <<>>)
           x == [type |-> "message", role |-> t.kind, content |-> content]
           y == [type |-> "function_call_output", call_id |-> t.id, name |-> "", output |-> t.text]
<1>1. x.type = "message" /\ x.role = t.kind /\ x.content = content
  OBVIOUS
<1>2. Instructs(t) \/ Asks(t) \/ Returns(t)
  BY TurnsSorted DEF Answers
<1>3. t.kind # "tool" => ResponsesItems(t) = <<x>>
  BY DEF ResponsesItems
<1>4. CASE Asks(t)
  <2>1. t.kind = "user"
    BY <1>4 DEF Asks
  <2>2. content = Text("input_text", t.text) \o Pictures(t, "input_image")
    BY <2>1
  <2> HIDE DEF x, content
  <2>3. parse_content(content) = PartsOf(t)
    <3>1. parse_content(Text("input_text", t.text) \o Pictures(t, "input_image")) = PartsOf(t)
      BY <1>4, QuestionRead
    <3> QED
      BY <2>2, <3>1
  <2>4. Becomes(x, UserTurn(PartsOf(t)))
    BY <1>1, <2>1, <2>3, MessageBecomes
  <2>5. Speakable(f, t) = (t.image # "url")
    BY <2>1 DEF Speakable
  <2>6. Renders(UserTurn(PartsOf(t)), t, t.image # "url")
    BY <1>4, QuestionRendered
  <2> QED
    BY <1>3, <2>1, <2>4, <2>5, <2>6
<1>5. CASE Instructs(t)
  <2>1. t.kind \in {"system", "developer"} /\ IsSequence(t.text)
    BY <1>5 DEF Instructs
  <2>2. content = Text("input_text", t.text) \o <<>>
    BY <2>1
  <2> HIDE DEF x, content
  <2>3. Flattened(content) = t.text /\ ~Refused(parse_content(content))
    BY <2>1, <2>2, TextAlone
  <2>4. Becomes(x, SystemMessage(t.text))
    BY <1>1, <2>1, <2>3, MessageBecomes
  <2>5. Speakable(f, t)
    BY <2>1 DEF Speakable
  <2>6. Rendered(SystemMessage(t.text), t)
    BY <1>5, InstructionRendered
  <2> QED
    BY <1>3, <2>1, <2>4, <2>5, <2>6 DEF Renders
<1>6. CASE Returns(t)
  <2>1. t.kind = "tool"
    BY <1>6 DEF Returns
  <2>2. ResponsesItems(t) = <<y>>
    BY <2>1 DEF ResponsesItems
  <2>3. y.type = "function_call_output" /\ y.call_id = t.id /\ y.name = Nothing /\ y.output = t.text
    BY DEF Nothing
  <2> HIDE DEF y
  <2>4. Becomes(y, ToolResultMessage(t.id, Nothing, t.text))
    BY <2>3 DEF Becomes, ResponsesItem
  <2>5. Speakable(f, t)
    BY <2>1 DEF Speakable
  <2>6. Rendered(ToolResultMessage(t.id, Nothing, t.text), t)
    BY <1>6, ResultRendered
  <2> QED
    BY <2>2, <2>4, <2>5, <2>6 DEF Renders
<1> QED
  BY <1>2, <1>4, <1>5, <1>6

\* A message behind those that are there
LEMMA FlushedRests ==
  ASSUME NEW acc, NEW list, AtRest(flush(acc), list), NEW m, NEW more, more = Append(list, m)
  PROVE  AtRest(Flushed(acc, m), more) /\ AtRest(flush(Flushed(acc, m)), more)
<1> DEFINE t == flush(acc)
           u == Flushed(acc, m)
           none == <<>>
<1>1. t = [messages |-> list, calls |-> none, blocks |-> none]
  BY DEF AtRest
<1> HIDE DEF t
<1>2. t.messages = list
  BY <1>1
<1>3. u = [t EXCEPT !.messages = Append(@, m)]
  BY Zenon DEF Flushed, t
<1>4. u = [t EXCEPT !.messages = more]
  BY <1>2, <1>3
<1> HIDE DEF u, none
<1>5. u = [messages |-> more, calls |-> none, blocks |-> none]
  BY <1>1, <1>4
<1>6. u.calls = none /\ u.blocks = none
  BY <1>5
<1>7. flush(u) = u
  BY <1>6 DEF flush, none
<1> QED
  BY <1>5, <1>7 DEF AtRest, u, none

-----------------------------------------------------------------------------
(* The system text that opens a conversation, and the turns behind it.     *)

Shift == IF Opens THEN 1 ELSE 0

\* The turns of the body
LEMMA BodyTurns ==
  ASSUME Conversation(turns)
  PROVE  /\ IsSequence(Body) /\ Len(Body) \in Nat /\ DOMAIN Body = 1..Len(Body)
         /\ Len(turns) \in Nat /\ DOMAIN turns = 1..Len(turns) /\ Len(Body) + Shift = Len(turns)
         /\ Shift \in {0, 1}
         /\ \A k \in 1..Len(Body) : k + Shift \in 1..Len(turns) /\ Body[k] = turns[k + Shift]
<1>1. Len(turns) \in Nat /\ DOMAIN turns = 1..Len(turns)
  BY Appended DEF Conversation
<1>2. CASE Opens
  <2> DEFINE S == {turns[i] : i \in DOMAIN turns}
             n == Len(turns)
             b == Tail(turns)
  <2>1. turns \in Seq(S) /\ turns # <<>>
    BY <1>2 DEF Conversation, IsSequence, Opens
  <2> HIDE DEF S
  <2>2. b \in Seq(S) /\ Len(b) = n - 1 /\ DOMAIN b = 1..(n - 1) /\ n - 1 \in Nat
        /\ \A k \in 1..(n - 1) : b[k] = turns[k + 1]
    BY <2>1
  <2>3. Body = b /\ Shift = 1
    BY <1>2 DEF Body, Shift
  <2>4. IsSequence(b)
    BY <2>2, SequenceOf
  <2>5. \A k \in 1..(n - 1) : k + 1 \in 1..n
    BY <1>1
  <2> HIDE DEF b, n
  <2>6. /\ IsSequence(Body) /\ Len(Body) = n - 1 /\ DOMAIN Body = 1..(n - 1) /\ n - 1 \in Nat
        /\ \A k \in 1..(n - 1) : Body[k] = turns[k + 1]
    BY <2>2, <2>3, <2>4
  <2>7. n \in Nat /\ n = Len(turns)
    BY <1>1 DEF n
  <2> QED
    BY <1>1, <2>3, <2>5, <2>6, <2>7
<1>3. CASE ~Opens
  <2>1. Body = turns /\ Shift = 0
    BY <1>3 DEF Body, Shift
  <2> QED
    BY <1>1, <2>1 DEF Conversation
<1> QED
  BY <1>2, <1>3

\* The first messages say the first turns
SaysFirst(f, list, k) ==
  /\ IsSequence(list) /\ Len(list) = k
  /\ \A i \in 1..k : Renders(list[i], turns[i], MaySay(f, i))

\* The opening is said by its message, to any facade
LEMMA OpeningSays ==
  ASSUME Conversation(turns), NEW f
  PROVE  SaysFirst(f, parse_system(Preamble), Shift)
<1>1. CASE Opens
  <2> DEFINE t == turns[1]
             m == SystemMessage(t.text)
             list == <<m>>
  <2>1. t.kind = "system" /\ t \in TurnKinds
    BY <1>1, BodyTurns DEF Opens, Conversation, Shift
  <2>2. Instructs(t)
    BY <2>1, TurnsSorted DEF Asks, Answers, Returns
  <2>3. Rendered(m, t)
    BY <2>2, InstructionRendered
  <2>4. MaySay(f, 1)
    BY <2>1 DEF MaySay
  <2>5. Renders(m, t, MaySay(f, 1))
    BY <2>3, <2>4 DEF Renders
  <2>6. parse_system(Preamble) = list
    BY <1>1, <2>2 DEF parse_system, Preamble, Instructs
  <2>7. Shift = 1
    BY <1>1 DEF Shift
  <2> HIDE DEF m
  <2>8. IsSequence(list) /\ Len(list) = 1 /\ list[1] = m /\ \A i \in 1..1 : i = 1
    BY ShortSequences
  <2> HIDE DEF list
  <2> QED
    BY <2>5, <2>6, <2>7, <2>8 DEF SaysFirst
<1>2. CASE ~Opens
  <2>1. parse_system(Preamble) = <<>>
    BY <1>2 DEF parse_system, Preamble
  <2>2. Shift = 0
    BY <1>2 DEF Shift
  <2> QED
    BY <2>1, <2>2, ShortSequences DEF SaysFirst
<1> QED
  BY <1>1, <1>2

\* One message more says one turn more
LEMMA OneMoreSaid ==
  ASSUME NEW f, NEW k \in Nat, NEW list, SaysFirst(f, list, k),
         NEW m, Renders(m, turns[k + 1], MaySay(f, k + 1))
  PROVE  SaysFirst(f, Append(list, m), k + 1)
<1> DEFINE more == Append(list, m)
<1>1. /\ IsSequence(more) /\ Len(more) = k + 1 /\ more[k + 1] = m
      /\ \A i \in 1..k : more[i] = list[i]
  BY Appended DEF SaysFirst
<1> HIDE DEF more
<1>2. \A i \in 1..(k + 1) : i \in 1..k \/ i = k + 1
  OBVIOUS
<1>3. \A i \in 1..(k + 1) : Renders(more[i], turns[i], MaySay(f, i))
  BY <1>1, <1>2 DEF SaysFirst
<1>4. SaysFirst(f, more, k + 1)
  BY <1>1, <1>3 DEF SaysFirst
<1> QED
  BY <1>4 DEF more

\* Messages that say all the turns
LEMMA AllSaid ==
  ASSUME Conversation(turns), NEW f, NEW list, SaysFirst(f, list, Len(turns))
  PROVE  Conveyed(f, link_tool_results(list))
<1>1. IsSequence(list) /\ DOMAIN list = DOMAIN turns /\ DOMAIN turns = 1..Len(turns)
  BY BodyTurns, Appended DEF SaysFirst
<1>2. \A i \in DOMAIN turns : Renders(list[i], turns[i], MaySay(f, i))
  BY <1>1 DEF SaysFirst
<1> QED
  BY <1>1, <1>2, AllTold

-----------------------------------------------------------------------------
(* Responses: the items of the turns, one turn after the other.            *)

FirstTurns(k) == FlattenSeq([i \in 1..k |-> ResponsesItems(Body[i])])
After(k) == Items(Beginning(Preamble), FirstTurns(k))

\* The first turns have been taken: what was pending, flushed, says them
TakenSoFar(k, list) ==
  /\ SaysFirst("responses", list, k + Shift) /\ AtRest(flush(After(k)), list)
  /\ k = 0 \/ Body[k].kind # "assistant" => AtRest(After(k), list)

\* The items of a turn are a sequence
LEMMA ItemsListed ==
  ASSUME NEW t \in TurnKinds
  PROVE  /\ IsSequence(ResponsesItems(t))
         /\ t.kind = "assistant" => ResponsesItems(t) = TurnItems(t.reasoning, t.text, t.calls)
<1>1. CASE t.kind = "assistant"
  <2> DEFINE x == ReasoningItem(t.reasoning)
             y == MessageItem(t.text)
             z == ItemsOf(t.calls)
             n == Len(t.calls)
  <2>1. ResponsesItems(t) = TurnItems(t.reasoning, t.text, t.calls)
    BY <1>1 DEF ResponsesItems, TurnItems, ItemsOf, ItemOf
  <2>2. IsSequence(t.calls)
    BY <1>1, TurnsSorted DEF Instructs, Asks, Answers, Returns
  <2>3. IsSequence(x) /\ IsSequence(y)
    BY ShortSequences DEF ReasoningItem, MessageItem
  <2>4. IsSequence(z)
    <3>1. n \in Nat /\ DOMAIN t.calls = 1..n
      BY <2>2, Appended
    <3> HIDE DEF n
    <3>2. z = FirstItems(t.calls, n)
      BY <3>1 DEF ItemsOf, FirstItems
    <3> QED
      BY <3>1, <3>2, NextItem
  <2> DEFINE p == x \o y
             list == TurnItems(t.reasoning, t.text, t.calls)
  <2>5. list = p \o z
    BY DEF TurnItems
  <2> HIDE DEF x, y, z, list
  <2>6. IsSequence(p)
    BY <2>3, Concatenation
  <2> HIDE DEF p
  <2>7. IsSequence(list)
    BY <2>4, <2>5, <2>6, Concatenation
  <2> QED
    BY <2>1, <2>7 DEF list
<1>2. CASE t.kind # "assistant"
  <2>1. PICK x : ResponsesItems(t) = <<x>>
    BY <1>2, ResponsesSays
  <2> QED
    BY <1>2, <2>1, ShortSequences
<1> QED
  BY <1>1, <1>2

\* The items of one turn more
LEMMA OneTurnMore ==
  ASSUME Conversation(turns), NEW k \in Nat, k + 1 \in 1..Len(Body)
  PROVE  /\ IsSequence(FirstTurns(k)) /\ IsSequence(ResponsesItems(Body[k + 1]))
         /\ FirstTurns(k + 1) = FirstTurns(k) \o ResponsesItems(Body[k + 1])
<1> DEFINE g == [i \in 1..k |-> ResponsesItems(Body[i])]
           h == [i \in 1..(k + 1) |-> ResponsesItems(Body[i])]
<1>1. \A i \in 1..Len(Body) : IsSequence(ResponsesItems(Body[i]))
  BY BodyTurns, ItemsListed DEF Conversation
<1>2. /\ k + 1 \in 1..(k + 1) /\ \A i \in 1..k : i \in 1..(k + 1)
      /\ \A i \in 1..(k + 1) : i \in 1..Len(Body)
  BY BodyTurns
<1>3. Family(g, k) /\ Family(h, k + 1) /\ Extends(h, g, k)
      /\ h[k + 1] = ResponsesItems(Body[k + 1])
  BY <1>1, <1>2 DEF Family, Extends
<1>4. FirstTurns(k) = FlattenSeq(g) /\ FirstTurns(k + 1) = FlattenSeq(h)
  BY DEF FirstTurns
<1> HIDE DEF g, h
<1> QED
  BY <1>3, <1>4, FlattenedOneMore

\* Nothing is pending: there is nothing to flush
LEMMA RestFlushed ==
  ASSUME NEW acc, NEW list, AtRest(acc, list)
  PROVE  flush(acc) = acc
<1> DEFINE none == <<>>
<1>1. acc = [messages |-> list, calls |-> none, blocks |-> none]
  BY DEF AtRest
<1> HIDE DEF none
<1>2. acc.calls = none /\ acc.blocks = none
  BY <1>1
<1> QED
  BY <1>2 DEF flush, none

\* Before the first turn there is the opening, and nothing pending
LEMMA NothingTaken ==
  ASSUME Conversation(turns)
  PROVE  TakenSoFar(0, parse_system(Preamble))
<1> DEFINE list == parse_system(Preamble)
           g == [i \in 1..0 |-> ResponsesItems(Body[i])]
           acc == Beginning(Preamble)
<1>1. FirstTurns(0) = <<>>
  <2>1. Family(g, 0)
    BY DEF Family
  <2> HIDE DEF g
  <2>2. FlattenSeq(g) = <<>>
    BY <2>1, FlattenedEmpty
  <2> QED
    BY <2>2 DEF FirstTurns, g
<1>2. After(0) = acc
  <2>1. Items(acc, <<>>) = acc
    BY NoItems
  <2> HIDE DEF acc
  <2> QED
    BY <1>1, <2>1 DEF After, acc
<1>3. AtRest(acc, list)
  BY DEF AtRest, Beginning
<1> HIDE DEF acc, list
<1>4. flush(acc) = acc
  BY <1>3, RestFlushed
<1>5. SaysFirst("responses", list, 0 + Shift)
  <2>1. 0 + Shift = Shift
    BY DEF Shift
  <2> QED
    BY <2>1, OpeningSays DEF list
<1>6. TakenSoFar(0, list)
  BY <1>2, <1>3, <1>4, <1>5 DEF TakenSoFar
<1> QED
  BY <1>6 DEF list

\* A turn of the assistant comes when nothing is pending
LEMMA AnswerComes ==
  ASSUME Conversation(turns), NEW k \in Nat, k + 1 \in 1..Len(Body), Body[k + 1].kind = "assistant",
         NEW list, TakenSoFar(k, list)
  PROVE  AtRest(After(k), list)
<1> DEFINE i == (k + 1) + Shift
<1>1. i \in DOMAIN turns /\ turns[i].kind = "assistant"
  BY BodyTurns
<1>2. i # 1 /\ turns[i - 1].kind # "assistant"
  BY <1>1 DEF Conversation
<1>3. CASE k = 0
  BY <1>3 DEF TakenSoFar
<1>4. CASE k # 0
  <2>1. k \in 1..Len(Body) /\ Shift \in Nat
    BY <1>4, BodyTurns
  <2>2. Body[k] = turns[k + Shift]
    BY <2>1, BodyTurns
  <2>3. i - 1 = k + Shift
    BY <2>1
  <2> QED
    BY <1>2, <2>2, <2>3 DEF TakenSoFar
<1> QED
  BY <1>3, <1>4

\* A turn of the assistant is taken: it is pending, and one message when it is flushed
LEMMA AnswerTaken ==
  ASSUME Conversation(turns), NEW k \in Nat, k + 1 \in 1..Len(Body), Body[k + 1].kind = "assistant",
         NEW list, TakenSoFar(k, list)
  PROVE  \E more : TakenSoFar(k + 1, more)
<1> DEFINE t == Body[k + 1]
           s == FirstTurns(k)
           items == ResponsesItems(t)
           acc == After(k + 1)
           blocks == TurnBlocks(t.reasoning, t.text)
           n == Len(t.calls)
           m == AssistantMessage(blocks, acc.calls)
           more == Append(list, m)
<1>1. t \in TurnKinds /\ t = turns[(k + 1) + Shift] /\ Shift \in Nat
  BY BodyTurns DEF Conversation
<1>2. Answers(t)
  BY <1>1, TurnsSorted DEF Instructs, Asks, Returns
<1>3. IsSequence(s) /\ FirstTurns(k + 1) = s \o items
  BY OneTurnMore
<1>4. items = TurnItems(t.reasoning, t.text, t.calls)
  BY <1>1, ItemsListed
<1>5. AtRest(Items(Beginning(Preamble), s), list)
  BY AnswerComes DEF After
<1>6. IsSequence(t.reasoning) /\ IsSequence(t.text) /\ IsSequence(t.calls)
  BY <1>2 DEF Answers
<1>7. acc = Items(Beginning(Preamble), s \o TurnItems(t.reasoning, t.text, t.calls))
  BY <1>3, <1>4 DEF After
<1>8. PendingTurn(acc, list, blocks, t.calls, n)
  <2> HIDE DEF t, s, acc
  <2>1. PendingTurn(Items(Beginning(Preamble), s \o TurnItems(t.reasoning, t.text, t.calls)), list,
                    TurnBlocks(t.reasoning, t.text), t.calls, Len(t.calls))
    BY <1>3, <1>5, <1>6, TurnTaken
  <2> QED
    BY <1>7, <2>1
<1>9. n \in Nat /\ DOMAIN t.calls = 1..n /\ (t.calls # <<>> => n # 0)
  BY <1>6, Appended, EmptySeq
<1>10. blocks # <<>> \/ n # 0
  <2> DEFINE b == Block("reasoning", t.reasoning)
             c == Block("text", t.text)
  <2>1. IsSequence(b) /\ IsSequence(c) /\ (b = <<>> => t.reasoning = <<>>)
        /\ (c = <<>> => t.text = <<>>)
    BY ShortSequences DEF Block
  <2>2. blocks = b \o c
    BY DEF TurnBlocks
  <2> HIDE DEF b, c, blocks
  <2>3. b \o c = <<>> => b = <<>> /\ c = <<>>
    BY <2>1, Concatenation
  <2> QED
    BY <1>2, <1>9, <2>1, <2>2, <2>3 DEF Answers
<1>11. SameCallLists(acc.calls, t.calls) /\ IsSequence(acc.calls)
  <2> HIDE DEF acc, t, n
  <2>1. /\ IsSequence(acc.calls) /\ Len(acc.calls) = n
        /\ \A i \in 1..n : SameCall(acc.calls[i], t.calls[i])
    BY <1>8 DEF PendingTurn
  <2>2. DOMAIN acc.calls = 1..n
    BY <2>1, Appended
  <2> QED
    BY <1>9, <2>1, <2>2 DEF SameCallLists
<1>12. JoinsTo(blocks, t.reasoning, t.text)
  <2> HIDE DEF t
  <2> QED
    BY <1>6, BlocksJoined DEF TurnBlocks
<1> HIDE DEF acc, blocks, n
<1>13. Rendered(m, t)
  BY <1>2, <1>11, <1>12, AnswerRendered
<1>14. AtRest(flush(acc), more)
  BY <1>8, <1>9, <1>10, TurnFlushed
<1>15. SaysFirst("responses", more, (k + 1) + Shift)
  <2> DEFINE j == k + Shift
  <2>1. j \in Nat /\ j + 1 = (k + 1) + Shift
    BY <1>1
  <2>2. SaysFirst("responses", list, j)
    BY DEF TakenSoFar
  <2>3. MaySay("responses", j + 1)
    <3>1. Speakable("responses", t)
      BY DEF Speakable
    <3> QED
      BY <1>1, <2>1, <3>1 DEF MaySay
  <2> HIDE DEF m, t
  <2>4. Renders(m, turns[j + 1], MaySay("responses", j + 1))
    BY <1>1, <1>13, <2>1, <2>3 DEF Renders
  <2> HIDE DEF j
  <2>5. SaysFirst("responses", Append(list, m), j + 1)
    BY <2>1, <2>2, <2>4, OneMoreSaid
  <2> QED
    BY <2>1, <2>5
<1> HIDE DEF more
<1>16. k + 1 # 0
  OBVIOUS
<1>17. TakenSoFar(k + 1, more)
  BY <1>14, <1>15, <1>16 DEF TakenSoFar, acc
<1> QED
  BY <1>17

\* Another turn is taken: what was pending is flushed before its message
LEMMA OtherTaken ==
  ASSUME Conversation(turns), NEW k \in Nat, k + 1 \in 1..Len(Body), Body[k + 1].kind # "assistant",
         NEW list, TakenSoFar(k, list)
  PROVE  \E more : TakenSoFar(k + 1, more)
<1> DEFINE t == Body[k + 1]
           s == FirstTurns(k)
           before == After(k)
           f == "responses"
           j == k + Shift
<1>1. t \in TurnKinds /\ t = turns[(k + 1) + Shift] /\ Shift \in Nat
  BY BodyTurns DEF Conversation
<1>2. PICK x : \E m : /\ ResponsesItems(t) = <<x>> /\ Becomes(x, m)
                      /\ Renders(m, t, Speakable(f, t))
  BY <1>1, ResponsesSays
<1>3. PICK m : /\ ResponsesItems(t) = <<x>> /\ Becomes(x, m)
               /\ Renders(m, t, Speakable(f, t))
  BY <1>2
<1> DEFINE more == Append(list, m)
           acc == Flushed(before, m)
<1>4. IsSequence(s) /\ FirstTurns(k + 1) = s \o <<x>>
  <2>1. IsSequence(s) /\ FirstTurns(k + 1) = s \o ResponsesItems(t)
    BY OneTurnMore
  <2> QED
    BY <1>3, <2>1
<1>5. After(k + 1) = acc
  <2> HIDE DEF s
  <2>1. s \o <<x>> = Append(s, x)
    BY <1>4, OneBehind
  <2>2. Items(Beginning(Preamble), Append(s, x)) = ResponsesItem(Items(Beginning(Preamble), s), x)
    BY <1>4, ItemsMore
  <2>3. After(k + 1) = ResponsesItem(before, x)
    BY <1>4, <2>1, <2>2 DEF After, s
  <2> QED
    BY <1>3, <2>3 DEF Becomes
<1>6. AtRest(flush(before), list)
  BY DEF TakenSoFar
<1> HIDE DEF before
<1>7. /\ AtRest(Flushed(before, m), Append(list, m))
      /\ AtRest(flush(Flushed(before, m)), Append(list, m))
  BY <1>6, FlushedRests
<1>8. SaysFirst(f, more, (k + 1) + Shift)
  <2>1. j \in Nat /\ j + 1 = (k + 1) + Shift /\ j + 1 \in DOMAIN turns
    BY <1>1, BodyTurns
  <2>2. SaysFirst(f, list, j)
    BY DEF TakenSoFar
  <2>3. MaySay(f, j + 1) = Speakable(f, t)
    BY <1>1, <2>1, MaySayFirst
  <2>4. Renders(m, turns[j + 1], MaySay(f, j + 1))
    BY <1>1, <1>3, <2>1, <2>3
  <2> HIDE DEF j, f
  <2>5. SaysFirst(f, Append(list, m), j + 1)
    BY <2>1, <2>2, <2>4, OneMoreSaid
  <2> QED
    BY <2>1, <2>5
<1> HIDE DEF more, acc
<1>9. TakenSoFar(k + 1, more)
  BY <1>5, <1>7, <1>8 DEF TakenSoFar, acc, more
<1> QED
  BY <1>9

\* All the turns are taken
LEMMA TurnsTaken ==
  ASSUME Conversation(turns)
  PROVE  \E list : TakenSoFar(Len(Body), list)
<1> DEFINE K == {k \in Nat : k <= Len(Body) => \E list : TakenSoFar(k, list)}
<1>1. 0 \in K
  BY NothingTaken
<1>2. ASSUME NEW k \in Nat, k \in K PROVE k + 1 \in K
  <2> SUFFICES ASSUME k + 1 <= Len(Body) PROVE \E list : TakenSoFar(k + 1, list)
    OBVIOUS
  <2>1. Len(Body) \in Nat
    BY BodyTurns
  <2>2. k + 1 \in 1..Len(Body) /\ k <= Len(Body)
    BY <2>1
  <2>3. PICK list : TakenSoFar(k, list)
    BY <1>2, <2>2
  <2> QED
    BY <2>2, <2>3, AnswerTaken, OtherTaken
<1> HIDE DEF K
<1>3. Nat \subseteq K
  BY <1>1, <1>2, NatSet
<1>4. Len(Body) \in Nat /\ Len(Body) <= Len(Body)
  BY BodyTurns
<1> QED
  BY <1>3, <1>4 DEF K

\* A conversation, told to Responses
LEMMA ResponsesTold ==
  ASSUME Conversation(turns)
  PROVE  Conveyed("responses", Parsed("responses"))
<1> DEFINE n == Len(Body)
           items == FlattenSeq([i \in DOMAIN Body |-> ResponsesItems(Body[i])])
           body == [instructions |-> Preamble, input |-> items]
<1>1. n \in Nat /\ DOMAIN Body = 1..n /\ n + Shift = Len(turns)
  BY BodyTurns
<1>2. items = FirstTurns(n)
  BY <1>1 DEF FirstTurns
<1>3. Parsed("responses") = parse_input(body)
  BY DEF Parsed
<1>4. body.instructions = Preamble /\ body.input = items
  OBVIOUS
<1> HIDE DEF body, items
<1>5. parse_input(body) = link_tool_results(flush(After(n)).messages)
  BY <1>2, <1>4 DEF parse_input, After, Items, Beginning
<1>6. PICK list : TakenSoFar(n, list)
  BY TurnsTaken
<1>7. flush(After(n)).messages = list
  <2> DEFINE none == <<>>
  <2>1. flush(After(n)) = [messages |-> list, calls |-> none, blocks |-> none]
    BY <1>6 DEF TakenSoFar, AtRest
  <2> HIDE DEF none
  <2> QED
    BY <2>1
<1>8. SaysFirst("responses", list, Len(turns))
  BY <1>1, <1>6 DEF TakenSoFar
<1>9. Conveyed("responses", link_tool_results(list))
  BY <1>8, AllSaid
<1> QED
  BY <1>3, <1>5, <1>7, <1>9

-----------------------------------------------------------------------------
(* Anthropic: the blocks of the user, and the results among them.          *)

Results(blocks) == FlattenSeq([i \in DOMAIN blocks |-> ToolResult(blocks[i])])
UserParts(blocks) == FlattenSeq([i \in DOMAIN blocks |-> UserPart(blocks[i])])
Remainder(parts) == IF parts = <<>> THEN <<>> ELSE <<UserTurn(parts)>>

\* The results, then what remains
LEMMA UserSorted ==
  ASSUME NEW blocks
  PROVE  UserBlocks(blocks) = Results(blocks) \o Remainder(UserParts(blocks))
BY DEF UserBlocks, Results, UserParts, Remainder

\* What the blocks hold is a sequence
LEMMA SortedTyped ==
  ASSUME NEW blocks, IsSequence(blocks)
  PROVE  /\ IsSequence(Results(blocks)) /\ IsSequence(UserParts(blocks))
         /\ IsSequence(UserBlocks(blocks))
<1> DEFINE n == Len(blocks)
           g == [i \in DOMAIN blocks |-> ToolResult(blocks[i])]
           h == [i \in DOMAIN blocks |-> UserPart(blocks[i])]
           a == Results(blocks)
           b == Remainder(UserParts(blocks))
<1>1. n \in Nat /\ DOMAIN blocks = 1..n
  BY Appended
<1>2. \A x : IsSequence(ToolResult(x)) /\ IsSequence(UserPart(x))
  BY ShortSequences DEF ToolResult, UserPart, Block
<1>3. Family(g, n) /\ Family(h, n)
  BY <1>1, <1>2 DEF Family
<1>4. Results(blocks) = FlattenSeq(g) /\ UserParts(blocks) = FlattenSeq(h)
  BY DEF Results, UserParts
<1> HIDE DEF n, g, h
<1>5. IsSequence(Results(blocks)) /\ IsSequence(UserParts(blocks))
  BY <1>1, <1>3, <1>4, FlattenedIsSequence
<1>6. IsSequence(b)
  BY ShortSequences DEF Remainder
<1> HIDE DEF a, b
<1>7. IsSequence(a \o b)
  BY <1>5, <1>6, Concatenation DEF a
<1> QED
  BY <1>5, <1>7, UserSorted DEF a, b

\* One block more
LEMMA UserBlockMore ==
  ASSUME NEW blocks, IsSequence(blocks), NEW b
  PROVE  /\ Results(Append(blocks, b)) = Results(blocks) \o ToolResult(b)
         /\ UserParts(Append(blocks, b)) = UserParts(blocks) \o UserPart(b)
<1> DEFINE n == Len(blocks)
           more == Append(blocks, b)
           g == [i \in DOMAIN blocks |-> ToolResult(blocks[i])]
           h == [i \in DOMAIN more |-> ToolResult(more[i])]
           p == [i \in DOMAIN blocks |-> UserPart(blocks[i])]
           q == [i \in DOMAIN more |-> UserPart(more[i])]
<1>1. /\ n \in Nat /\ DOMAIN blocks = 1..n /\ DOMAIN more = 1..(n + 1) /\ more[n + 1] = b
      /\ \A i \in 1..n : more[i] = blocks[i]
  BY Appended
<1>2. \A x : IsSequence(ToolResult(x)) /\ IsSequence(UserPart(x))
  BY ShortSequences DEF ToolResult, UserPart, Block
<1>3. /\ Results(blocks) = FlattenSeq(g) /\ Results(more) = FlattenSeq(h)
      /\ UserParts(blocks) = FlattenSeq(p) /\ UserParts(more) = FlattenSeq(q)
  BY DEF Results, UserParts
<1> HIDE DEF n, more
<1>4. n + 1 \in 1..(n + 1) /\ \A i \in 1..n : i \in 1..(n + 1)
  BY <1>1
<1>5. Family(g, n) /\ Family(h, n + 1) /\ Extends(h, g, n) /\ h[n + 1] = ToolResult(b)
  BY <1>1, <1>2, <1>4 DEF Family, Extends
<1>6. Family(p, n) /\ Family(q, n + 1) /\ Extends(q, p, n) /\ q[n + 1] = UserPart(b)
  BY <1>1, <1>2, <1>4 DEF Family, Extends
<1> HIDE DEF g, h, p, q
<1>7. FlattenSeq(h) = FlattenSeq(g) \o h[n + 1]
  BY <1>1, <1>5, FlattenedOneMore
<1>8. FlattenSeq(q) = FlattenSeq(p) \o q[n + 1]
  BY <1>1, <1>6, FlattenedOneMore
<1>9. /\ Results(more) = Results(blocks) \o ToolResult(b)
      /\ UserParts(more) = UserParts(blocks) \o UserPart(b)
  BY <1>3, <1>5, <1>6, <1>7, <1>8
<1> QED
  BY <1>9 DEF more

\* Blocks that are results, and nothing else
ResultsOnly(blocks) == IsSequence(blocks) /\ \A i \in DOMAIN blocks : blocks[i].type = "tool_result"

\* They hold no part of a message
LEMMA NoUserParts ==
  ASSUME NEW blocks, ResultsOnly(blocks)
  PROVE  UserParts(blocks) = <<>> /\ UserBlocks(blocks) = Results(blocks)
<1> DEFINE n == Len(blocks)
           g == [i \in DOMAIN blocks |-> UserPart(blocks[i])]
           s == UserParts(blocks)
           a == Results(blocks)
<1>1. n \in Nat /\ DOMAIN blocks = 1..n
  BY Appended DEF ResultsOnly
<1>2. \A i \in 1..n : UserPart(blocks[i]) = <<>>
  BY <1>1 DEF ResultsOnly, UserPart
<1>3. Family(g, n) /\ \A i \in 1..n : DOMAIN g[i] = {}
  BY <1>1, <1>2, ShortSequences DEF Family
<1>4. s = FlattenSeq(g)
  BY DEF UserParts
<1> HIDE DEF n, g, s
<1>5. MembersOf(s, g, n)
  BY <1>1, <1>3, <1>4, FlattenedMembers
<1>6. DOMAIN s = {}
  BY <1>3, <1>5 DEF MembersOf
<1>7. IsSequence(s) /\ IsSequence(a)
  BY SortedTyped DEF ResultsOnly, s
<1>8. s = <<>>
  <2>1. DOMAIN s = 1..Len(s) /\ Len(s) \in Nat
    BY <1>7, Appended
  <2>2. Len(s) = 0
    BY <1>6, <2>1
  <2> QED
    BY <1>7, <2>2, EmptySeq
<1> HIDE DEF a
<1>9. Remainder(s) = <<>> /\ a \o <<>> = a
  BY <1>7, <1>8, Concatenation DEF Remainder
<1> QED
  BY <1>8, <1>9, UserSorted DEF s, a

\* A result behind other results is a message of its own behind theirs
LEMMA ResultBehind ==
  ASSUME NEW blocks, ResultsOnly(blocks), NEW b, b.type = "tool_result",
         NEW m, m = ToolResultMessage(b.tool_use_id, Nothing, b.text)
  PROVE  /\ UserBlocks(Append(blocks, b)) = Append(UserBlocks(blocks), m)
         /\ ResultsOnly(Append(blocks, b))
<1> DEFINE more == Append(blocks, b)
           n == Len(blocks)
           a == Results(blocks)
<1>1. ResultsOnly(more)
  <2>1. /\ IsSequence(more) /\ n \in Nat /\ DOMAIN blocks = 1..n /\ DOMAIN more = 1..(n + 1)
        /\ more[n + 1] = b /\ \A i \in 1..n : more[i] = blocks[i]
    BY Appended DEF ResultsOnly
  <2> HIDE DEF more, n
  <2>2. \A i \in 1..(n + 1) : i \in 1..n \/ i = n + 1
    BY <2>1
  <2> QED
    BY <2>1, <2>2 DEF ResultsOnly
<1>2. Results(Append(blocks, b)) = Results(blocks) \o ToolResult(b)
  BY UserBlockMore DEF ResultsOnly
<1>3. ToolResult(b) = <<m>>
  BY DEF ToolResult, Nothing
<1>4. IsSequence(a)
  BY SortedTyped DEF ResultsOnly
<1>5. UserBlocks(more) = Results(more) /\ UserBlocks(blocks) = a
  BY <1>1, NoUserParts
<1> HIDE DEF a
<1>6. a \o <<m>> = Append(a, m)
  BY <1>4, OneBehind
<1>7. UserBlocks(more) = Append(UserBlocks(blocks), m)
  BY <1>2, <1>3, <1>5, <1>6 DEF a
<1> QED
  BY <1>1, <1>7

\* A block that is part of a message
LEMMA PartBehind ==
  ASSUME NEW blocks, IsSequence(blocks), NEW b, b.type # "tool_result", NEW part, part = UserPart(b)
  PROVE  /\ Results(Append(blocks, b)) = Results(blocks)
         /\ UserParts(Append(blocks, b)) = UserParts(blocks) \o part
<1> DEFINE a == Results(blocks)
<1>1. /\ Results(Append(blocks, b)) = Results(blocks) \o ToolResult(b)
      /\ UserParts(Append(blocks, b)) = UserParts(blocks) \o UserPart(b)
  BY UserBlockMore
<1>2. ToolResult(b) = <<>>
  BY DEF ToolResult
<1>3. IsSequence(a)
  BY SortedTyped
<1> HIDE DEF a
<1>4. a \o <<>> = a
  BY <1>3, Concatenation
<1> QED
  BY <1>1, <1>2, <1>4 DEF a

\* The last block of a sequence
EndsWith(blocks, type) ==
  IsSequence(blocks) /\ blocks # <<>> /\ Last(blocks).type = type
\* What is put behind is the last
LEMMA EndOf ==
  ASSUME NEW blocks, IsSequence(blocks), NEW b
  PROVE  EndsWith(Append(blocks, b), b.type)
<1> DEFINE more == Append(blocks, b)
           n == Len(blocks)
<1>1. IsSequence(more) /\ n \in Nat /\ Len(more) = n + 1 /\ more[n + 1] = b
  BY Appended
<1> HIDE DEF more, n
<1>2. Len(more) # 0 /\ Last(more) = b
  BY <1>1 DEF Last
<1>3. more # <<>>
  BY <1>2, ShortSequences
<1> QED
  BY <1>1, <1>2, <1>3 DEF EndsWith, more

\* A text behind results
LEMMA TextBehind ==
  ASSUME NEW blocks, ResultsOnly(blocks), NEW text, IsSequence(text),
         NEW mid, Couples(mid, blocks, Text("text", text))
  PROVE  /\ IsSequence(mid) /\ Results(mid) = Results(blocks)
         /\ UserParts(mid) = Block("text", text)
         /\ text # <<>> => EndsWith(mid, "text")
<1>0. mid = blocks \o Text("text", text)
  BY DEF Couples
<1>1. UserParts(blocks) = <<>> /\ IsSequence(blocks)
  BY NoUserParts DEF ResultsOnly
<1>2. CASE text = <<>>
  <2>1. Text("text", text) = <<>> /\ Block("text", text) = <<>>
    BY <1>2 DEF Text, Block
  <2>2. blocks \o <<>> = blocks
    BY <1>1, Concatenation
  <2>3. mid = blocks
    BY <1>0, <2>1, <2>2
  <2> QED
    BY <1>1, <1>2, <2>1, <2>3
<1>3. CASE text # <<>>
  <2> DEFINE b == [type |-> "text", text |-> text]
             d == Block("text", text)
  <2>1. Text("text", text) = <<b>> /\ b.type = "text" /\ b.text = text
    BY <1>3 DEF Text
  <2> HIDE DEF b
  <2>2. blocks \o <<b>> = Append(blocks, b)
    BY <1>1, OneBehind
  <2>3. mid = Append(blocks, b)
    BY <1>0, <2>1, <2>2
  <2>4. d = UserPart(b) /\ b.type # "tool_result"
    BY <2>1 DEF UserPart
  <2>5. IsSequence(d)
    BY ShortSequences DEF Block
  <2> HIDE DEF d
  <2>6. /\ Results(Append(blocks, b)) = Results(blocks)
        /\ UserParts(Append(blocks, b)) = UserParts(blocks) \o d
    BY <1>1, <2>4, PartBehind
  <2>7. <<>> \o d = d
    BY <2>5, Concatenation
  <2>8. EndsWith(Append(blocks, b), b.type)
    BY <1>1, EndOf
  <2>9. EndsWith(mid, "text")
    BY <2>1, <2>3, <2>8
  <2> QED
    BY <1>1, <2>3, <2>6, <2>7, <2>9 DEF d, EndsWith
<1> QED
  BY <1>2, <1>3

\* Then a picture, if there is one
LEMMA PictureBehind ==
  ASSUME NEW t, Asks(t), NEW mid, IsSequence(mid), NEW full,
         Couples(full, mid, Pictures(t, "image"))
  PROVE  /\ IsSequence(full) /\ Results(full) = Results(mid)
         /\ UserParts(full) = UserParts(mid) \o Shown(t)
         /\ t.image = "none" => full = mid
         /\ t.image # "none" => EndsWith(full, "image")
<1>0. full = mid \o Pictures(t, "image")
  BY DEF Couples
<1>1. CASE t.image = "none"
  <2> DEFINE a == UserParts(mid)
  <2>1. Pictures(t, "image") = <<>> /\ Shown(t) = <<>>
    BY <1>1 DEF Pictures, Shown
  <2>2. IsSequence(a)
    BY SortedTyped
  <2> HIDE DEF a
  <2>3. mid \o <<>> = mid /\ a \o <<>> = a
    BY <2>2, Concatenation
  <2>4. full = mid
    BY <1>0, <2>1, <2>3
  <2> QED
    BY <1>1, <2>1, <2>3, <2>4 DEF a
<1>2. CASE t.image # "none"
  <2>1. PICK b : Pictures(t, "image") = <<b>> /\ b.type = "image" /\ Shown(t) = <<Picture(b)>>
    BY <1>2, PictureTaken
  <2> DEFINE part == Shown(t)
  <2>2. part = UserPart(b) /\ b.type # "tool_result"
    BY <2>1 DEF UserPart
  <2> HIDE DEF part
  <2>3. mid \o <<b>> = Append(mid, b)
    BY OneBehind
  <2>4. full = Append(mid, b)
    BY <1>0, <2>1, <2>3
  <2>5. /\ Results(Append(mid, b)) = Results(mid)
        /\ UserParts(Append(mid, b)) = UserParts(mid) \o part
    BY <2>2, PartBehind
  <2>6. EndsWith(Append(mid, b), b.type)
    BY EndOf
  <2>7. EndsWith(full, "image")
    BY <2>1, <2>4, <2>6
  <2> QED
    BY <1>2, <2>4, <2>5, <2>7 DEF part, EndsWith
<1> QED
  BY <1>1, <1>2

\* A question behind results is a message of its own behind theirs
LEMMA QuestionBehind ==
  ASSUME NEW t, Asks(t), NEW blocks, ResultsOnly(blocks),
         NEW more, Couples(more, blocks, AnthropicBlocks(t)), NEW m, m = UserTurn(PartsOf(t))
  PROVE  /\ UserBlocks(more) = Append(UserBlocks(blocks), m)
         /\ EndsWith(more, "text") \/ EndsWith(more, "image")
<1> DEFINE x == Text("text", t.text)
           y == Pictures(t, "image")
           mid == blocks \o x
           full == mid \o y
           a == Results(blocks)
<1>0. more = blocks \o AnthropicBlocks(t)
  BY DEF Couples
<1>1. IsSequence(t.text) /\ (t.text # <<>> \/ t.image # "none")
  BY DEF Asks
<1>2. IsSequence(x) /\ IsSequence(y) /\ IsSequence(blocks)
  BY ShortSequences DEF Text, Pictures, ResultsOnly
<1>3. AnthropicBlocks(t) = x \o y
  BY DEF AnthropicBlocks, Asks
<1>4. /\ IsSequence(mid) /\ Results(mid) = a /\ UserParts(mid) = Block("text", t.text)
      /\ t.text # <<>> => EndsWith(mid, "text")
  <2>1. Couples(mid, blocks, Text("text", t.text))
    BY DEF Couples
  <2> HIDE DEF mid, x, a
  <2>2. /\ IsSequence(mid) /\ Results(mid) = Results(blocks)
        /\ UserParts(mid) = Block("text", t.text)
        /\ t.text # <<>> => EndsWith(mid, "text")
    BY <1>1, <2>1, TextBehind
  <2> QED
    BY <2>2 DEF a
<1>5. /\ IsSequence(full) /\ Results(full) = Results(mid)
      /\ UserParts(full) = UserParts(mid) \o Shown(t)
      /\ t.image = "none" => full = mid
      /\ t.image # "none" => EndsWith(full, "image")
  <2>1. Couples(full, mid, Pictures(t, "image"))
    BY DEF Couples
  <2> HIDE DEF mid, full, y
  <2> QED
    BY <1>4, <2>1, PictureBehind
<1>6. more = full
  <2> HIDE DEF x, y
  <2>1. (blocks \o x) \o y = blocks \o (x \o y)
    BY <1>2, Associative
  <2> QED
    BY <1>0, <1>3, <2>1 DEF x, y
<1> HIDE DEF full, mid
<1>7. UserParts(more) = PartsOf(t) /\ Results(more) = a
  BY <1>4, <1>5, <1>6 DEF PartsOf
<1>8. PartsOf(t) # <<>>
  BY QuestionRendered
<1>9. UserBlocks(more) = a \o <<m>>
  BY <1>7, <1>8, UserSorted DEF Remainder
<1>10. UserBlocks(blocks) = a /\ IsSequence(a)
  BY NoUserParts, SortedTyped DEF ResultsOnly
<1> HIDE DEF a
<1>11. a \o <<m>> = Append(a, m)
  BY <1>10, OneBehind
<1>12. EndsWith(more, "text") \/ EndsWith(more, "image")
  BY <1>1, <1>4, <1>5, <1>6
<1> QED
  BY <1>9, <1>10, <1>11, <1>12

\* What a message of the user leaves to the next turn
MayMerge(blocks) == EndsWith(blocks, "tool_result") => ResultsOnly(blocks)

\* A turn of the user, or of a tool, behind results
LEMMA UserSays ==
  ASSUME NEW t \in TurnKinds, t.kind \in {"user", "tool"}, NEW blocks, ResultsOnly(blocks),
         NEW more, Couples(more, blocks, AnthropicBlocks(t))
  PROVE  /\ \E m : /\ UserBlocks(more) = Append(UserBlocks(blocks), m)
                   /\ Renders(m, t, Speakable("anthropic", t))
         /\ IsSequence(more) /\ more # <<>> /\ MayMerge(more)
<1>0. more = blocks \o AnthropicBlocks(t)
  BY DEF Couples
<1>1. Asks(t) \/ Returns(t)
  BY TurnsSorted DEF Instructs, Answers
<1>2. CASE Asks(t)
  <2> DEFINE m == UserTurn(PartsOf(t))
  <2>1. /\ UserBlocks(more) = Append(UserBlocks(blocks), m)
        /\ EndsWith(more, "text") \/ EndsWith(more, "image")
    <3>1. m = UserTurn(PartsOf(t))
      OBVIOUS
    <3> HIDE DEF m
    <3> QED
      BY <1>2, <3>1, QuestionBehind
  <2>2. Renders(m, t, t.image # "url")
    BY <1>2, QuestionRendered
  <2>3. Speakable("anthropic", t) = (t.image # "url")
    BY <1>2 DEF Speakable, Asks
  <2> HIDE DEF m
  <2>4. IsSequence(more) /\ more # <<>> /\ MayMerge(more)
    BY <2>1 DEF EndsWith, MayMerge
  <2> QED
    BY <2>1, <2>2, <2>3, <2>4
<1>3. CASE Returns(t)
  <2> DEFINE b == [type |-> "tool_result", tool_use_id |-> t.id, text |-> t.text]
             m == ToolResultMessage(t.id, Nothing, t.text)
  <2>1. /\ AnthropicBlocks(t) = <<b>> /\ b.type = "tool_result" /\ b.tool_use_id = t.id
        /\ b.text = t.text
    BY <1>3 DEF AnthropicBlocks, Returns
  <2> HIDE DEF b
  <2>2. IsSequence(blocks)
    BY DEF ResultsOnly
  <2>3. blocks \o <<b>> = Append(blocks, b)
    BY <2>2, OneBehind
  <2>4. m = ToolResultMessage(b.tool_use_id, Nothing, b.text)
    BY <2>1
  <2>5. Renders(m, t, Speakable("anthropic", t))
    <3>1. Rendered(m, t)
      BY <1>3, ResultRendered
    <3>2. Speakable("anthropic", t)
      BY <1>3 DEF Speakable, Returns
    <3> QED
      BY <3>1, <3>2 DEF Renders
  <2> HIDE DEF m
  <2>6. /\ UserBlocks(Append(blocks, b)) = Append(UserBlocks(blocks), m)
        /\ ResultsOnly(Append(blocks, b))
    BY <2>1, <2>4, ResultBehind
  <2>7. EndsWith(Append(blocks, b), b.type)
    BY <2>2, EndOf
  <2>8. more = Append(blocks, b)
    BY <1>0, <2>1, <2>3
  <2>9. IsSequence(more) /\ more # <<>> /\ MayMerge(more)
    BY <2>6, <2>7, <2>8 DEF EndsWith, MayMerge
  <2> QED
    BY <2>5, <2>6, <2>8, <2>9
<1> QED
  BY <1>1, <1>2, <1>3

\* A turn of the assistant
LEMMA AssistantSays ==
  ASSUME NEW t, Answers(t)
  PROVE  Rendered(AssistantBlocks(AnthropicBlocks(t)), t) /\ IsSequence(AnthropicBlocks(t))
<1> DEFINE z == AnthropicBlocks(t)
           blocks == Parts(z)
           calls == CallsAt(z)
<1>1. t.kind = "assistant" /\ IsSequence(t.text) /\ IsSequence(t.reasoning) /\ IsSequence(t.calls)
      /\ Len(t.calls) \in 0..2
  BY DEF Answers
<1>2. ThreeParts(z, t.reasoning, t.text, t.calls)
  BY <1>1 DEF ThreeParts, AnthropicBlocks, Text, TextBlock, BlocksOf
<1> HIDE DEF z
<1>3. /\ BlockTexts(z, "thinking") = t.reasoning /\ BlockTexts(z, "text") = t.text
      /\ BlockCalls(z) = BlocksOf(t.calls) /\ BlockSequence(z)
  BY <1>1, <1>2, PaidBlocks
<1>4. MadeOf(z)
  BY <1>3, ListOfSequence, BlocksMade
<1>5. JoinsTo(blocks, t.reasoning, t.text) /\ CallsOfBlocks(calls, BlocksOf(t.calls))
  BY <1>3, <1>4 DEF MadeOf, JoinsTo
<1>6. AssistantBlocks(z) = AssistantMessage(blocks, calls)
  BY BlocksSorted
<1> HIDE DEF blocks, calls
<1>7. SameCallLists(calls, t.calls) /\ IsSequence(calls)
  BY <1>1, <1>5, CallsMatch
<1>8. Rendered(AssistantMessage(blocks, calls), t)
  BY <1>5, <1>7, AnswerRendered
<1> QED
  BY <1>3, <1>6, <1>8 DEF BlockSequence, z

-----------------------------------------------------------------------------
(* Anthropic: the turns of the body, one message or a part of one each.    *)

\* A turn of the body is not an opening: it is said when the facade can say it
LEMMA MaySayBehind ==
  ASSUME Conversation(turns), NEW k \in 1..Len(Body), NEW f
  PROVE  MaySay(f, k + Shift) = Speakable(f, Body[k])
<1> DEFINE j == k + Shift
<1>1. j \in DOMAIN turns /\ Body[k] = turns[j]
  BY BodyTurns
<1>2. ~(j = 1 /\ turns[1].kind = "system")
  <2> SUFFICES ASSUME j = 1, turns[1].kind = "system" PROVE FALSE
    OBVIOUS
  <2>1. Shift = 0
    BY BodyTurns
  <2>2. turns # <<>>
    <3>1. DOMAIN turns # {}
      BY <1>1
    <3> QED
      BY <3>1, ShortSequences
  <2>3. Opens
    BY <2>2 DEF Opens
  <2> QED
    BY <2>1, <2>3 DEF Shift
<1>3. Speakable(f, turns[j]) \in BOOLEAN
  BY <1>1, SpeakableOrNot DEF Conversation
<1> HIDE DEF j
<1>4. MaySay(f, j) = Speakable(f, turns[j])
  BY <1>2, <1>3 DEF MaySay
<1> QED
  BY <1>1, <1>4 DEF j

\* The blocks of a turn are a sequence
LEMMA TurnBlocksListed ==
  ASSUME NEW t \in TurnKinds
  PROVE  IsSequence(AnthropicBlocks(t))
<1> DEFINE x == Text("text", t.text)
           y == Pictures(t, "image")
<1>1. IsSequence(x) /\ IsSequence(y)
  BY ShortSequences DEF Text, Pictures
<1>2. Instructs(t) \/ Asks(t) \/ Answers(t) \/ Returns(t)
  BY TurnsSorted
<1>3. CASE Answers(t)
  BY <1>3, AssistantSays
<1>4. CASE Returns(t)
  <2>1. AnthropicBlocks(t) = <<[type |-> "tool_result", tool_use_id |-> t.id, text |-> t.text]>>
    BY <1>4 DEF AnthropicBlocks, Returns
  <2> QED
    BY <2>1, ShortSequences
<1>5. CASE Asks(t)
  <2>1. AnthropicBlocks(t) = x \o y
    BY <1>5 DEF AnthropicBlocks, Asks
  <2> HIDE DEF x, y
  <2>2. IsSequence(x \o y)
    BY <1>1, Concatenation
  <2> QED
    BY <2>1, <2>2
<1>6. CASE Instructs(t)
  <2>1. AnthropicBlocks(t) = x
    BY <1>6 DEF AnthropicBlocks, Instructs
  <2> QED
    BY <1>1, <2>1
<1> QED
  BY <1>2, <1>3, <1>4, <1>5, <1>6

\* A message of the client, and what becomes of it
IsMessage(m) == m = [role |-> m.role, blocks |-> m.blocks] /\ IsSequence(m.blocks)
Messages(messages) == IsSequence(messages) /\ \A i \in DOMAIN messages : IsMessage(messages[i])
ParsedMessage(m) ==
  CASE m.role = "user" -> UserBlocks(m.blocks)
    [] m.role = "assistant" -> <<AssistantBlocks(m.blocks)>>
    [] OTHER -> <<Refusal>>

\* A message of the client becomes a sequence of messages
LEMMA ParsedListed ==
  ASSUME NEW m, IsMessage(m)
  PROVE  IsSequence(ParsedMessage(m))
<1>1. CASE m.role = "user"
  <2>1. ParsedMessage(m) = UserBlocks(m.blocks)
    BY <1>1 DEF ParsedMessage
  <2>2. IsSequence(UserBlocks(m.blocks))
    BY SortedTyped DEF IsMessage
  <2> QED
    BY <2>1, <2>2
<1>2. CASE m.role = "assistant"
  <2>1. ParsedMessage(m) = <<AssistantBlocks(m.blocks)>>
    BY <1>2 DEF ParsedMessage
  <2> QED
    BY <2>1, ShortSequences
<1>3. CASE m.role \notin {"user", "assistant"}
  <2>1. ParsedMessage(m) = <<Refusal>>
    BY <1>3 DEF ParsedMessage
  <2> QED
    BY <2>1, ShortSequences
<1> QED
  BY <1>1, <1>2, <1>3

\* The messages of a body, one by one
LEMMA ParsedFamily ==
  ASSUME NEW messages, Messages(messages)
  PROVE  /\ parse_messages(messages) =
              FlattenSeq([i \in DOMAIN messages |-> ParsedMessage(messages[i])])
         /\ IsSequence(parse_messages(messages))
<1> DEFINE n == Len(messages)
           g == [i \in DOMAIN messages |-> ParsedMessage(messages[i])]
<1>1. parse_messages(messages) = FlattenSeq(g)
  BY DEF parse_messages, ParsedMessage
<1>2. n \in Nat /\ DOMAIN messages = 1..n
  BY Appended DEF Messages
<1>3. \A i \in 1..n : IsSequence(ParsedMessage(messages[i]))
  BY <1>2, ParsedListed DEF Messages
<1> HIDE DEF n
<1>4. Family(g, n)
  BY <1>2, <1>3 DEF Family
<1> HIDE DEF g
<1>5. IsSequence(FlattenSeq(g))
  BY <1>2, <1>4, FlattenedIsSequence
<1> QED
  BY <1>1, <1>5 DEF g

\* One message more
LEMMA ParsedMore ==
  ASSUME NEW messages, Messages(messages), NEW m, IsMessage(m)
  PROVE  /\ Messages(Append(messages, m))
         /\ parse_messages(Append(messages, m)) = parse_messages(messages) \o ParsedMessage(m)
<1> DEFINE n == Len(messages)
           more == Append(messages, m)
           g == [i \in DOMAIN messages |-> ParsedMessage(messages[i])]
           h == [i \in DOMAIN more |-> ParsedMessage(more[i])]
<1>1. /\ n \in Nat /\ DOMAIN messages = 1..n /\ DOMAIN more = 1..(n + 1) /\ more[n + 1] = m
      /\ \A i \in 1..n : more[i] = messages[i]
      /\ IsSequence(more)
  BY Appended DEF Messages
<1> HIDE DEF n, more
<1>2. \A i \in 1..(n + 1) : i \in 1..n \/ i = n + 1
  BY <1>1
<1>3. Messages(more)
  BY <1>1, <1>2 DEF Messages
<1>4. parse_messages(messages) = FlattenSeq(g) /\ parse_messages(more) = FlattenSeq(h)
  BY <1>3, ParsedFamily
<1>5. n + 1 \in 1..(n + 1) /\ \A i \in 1..n : i \in 1..(n + 1)
  BY <1>1
<1>6. \A i \in 1..(n + 1) : IsSequence(ParsedMessage(more[i]))
  BY <1>1, <1>3, ParsedListed DEF Messages
<1>7. Family(g, n) /\ Family(h, n + 1) /\ Extends(h, g, n) /\ h[n + 1] = ParsedMessage(m)
  BY <1>1, <1>5, <1>6 DEF Family, Extends
<1> HIDE DEF g, h
<1>8. FlattenSeq(h) = FlattenSeq(g) \o h[n + 1]
  BY <1>1, <1>7, FlattenedOneMore
<1>9. parse_messages(more) = parse_messages(messages) \o ParsedMessage(m)
  BY <1>4, <1>7, <1>8
<1> QED
  BY <1>3, <1>9 DEF more

\* The messages of the client, and of the conversation, one longer
Entire(messages) == parse_system(Preamble) \o parse_messages(messages)
Longer(after, before, m) == parse_messages(after) = Append(parse_messages(before), m)
UserLonger(after, before, m) == UserBlocks(after) = Append(UserBlocks(before), m)

\* The last message may take what comes with its results
Mergeable(messages) ==
  messages # <<>> /\ Last(messages).role = "user" =>
    Last(messages).blocks # <<>> /\ MayMerge(Last(messages).blocks)

\* The messages say the first turns of the body
SaidBy(messages, k) ==
  /\ Messages(messages) /\ Mergeable(messages)
  /\ SaysFirst("anthropic", Entire(messages), k + Shift)

\* One message more, also with the system text before them
LEMMA WholeLonger ==
  ASSUME NEW before, Messages(before), NEW after, NEW m, Longer(after, before, m)
  PROVE  Entire(after) = Append(Entire(before), m)
<1> DEFINE a == parse_system(Preamble)
           b == parse_messages(before)
           c == a \o b
<1>1. IsSequence(a) /\ IsSequence(b)
  BY ShortSequences, ParsedFamily DEF parse_system
<1>2. parse_messages(after) = Append(b, m) /\ Entire(before) = c
  BY DEF Longer, Entire
<1>3. Entire(after) = a \o parse_messages(after)
  BY DEF Entire
<1> HIDE DEF a, b
<1>4. IsSequence(c)
  BY <1>1, Concatenation
<1>5. Append(b, m) = b \o <<m>>
  BY <1>1, OneBehind
<1>6. a \o (b \o <<m>>) = c \o <<m>>
  <2> DEFINE one == <<m>>
  <2>1. IsSequence(one)
    BY ShortSequences
  <2> HIDE DEF one
  <2>2. (a \o b) \o one = a \o (b \o one)
    BY <1>1, <2>1, Associative
  <2> QED
    BY <2>2 DEF one
<1> HIDE DEF c
<1>7. c \o <<m>> = Append(c, m)
  BY <1>4, OneBehind
<1> QED
  BY <1>2, <1>3, <1>5, <1>6, <1>7

\* A message more of the conversation says a turn more
LEMMA TurnSaid ==
  ASSUME Conversation(turns), NEW k \in Nat, k + 1 \in 1..Len(Body),
         NEW before, SaidBy(before, k), NEW after, Messages(after), Mergeable(after),
         NEW m, Longer(after, before, m),
         Renders(m, Body[k + 1], Speakable("anthropic", Body[k + 1]))
  PROVE  SaidBy(after, k + 1)
<1> DEFINE f == "anthropic"
           j == k + Shift
<1>1. j \in Nat /\ j + 1 = (k + 1) + Shift /\ Body[k + 1] = turns[j + 1]
  BY BodyTurns
<1>2. MaySay(f, j + 1) = Speakable(f, Body[k + 1])
  <2> HIDE DEF f
  <2>1. MaySay(f, (k + 1) + Shift) = Speakable(f, Body[k + 1])
    BY MaySayBehind
  <2> QED
    BY <1>1, <2>1
<1>3. Renders(m, turns[j + 1], MaySay(f, j + 1))
  BY <1>1, <1>2
<1>4. SaysFirst(f, Entire(before), j) /\ Messages(before)
  BY DEF SaidBy
<1> DEFINE list == Entire(before)
<1> HIDE DEF j, f, list
<1>5. SaysFirst(f, Append(list, m), j + 1)
  BY <1>1, <1>3, <1>4, OneMoreSaid DEF list
<1>6. Entire(after) = Append(Entire(before), m)
  BY <1>4, WholeLonger
<1>7. SaysFirst(f, Entire(after), (k + 1) + Shift)
  BY <1>1, <1>5, <1>6 DEF list
<1> QED
  BY <1>7 DEF SaidBy, f

\* A message is behind the others
LEMMA MessageBehind ==
  ASSUME NEW before, Messages(before), NEW m, IsMessage(m),
         NEW said, ParsedMessage(m) = <<said>>
  PROVE  Longer(Append(before, m), before, said) /\ Messages(Append(before, m))
<1> DEFINE b == parse_messages(before)
<1>1. /\ Messages(Append(before, m))
      /\ parse_messages(Append(before, m)) = parse_messages(before) \o ParsedMessage(m)
  BY ParsedMore
<1>2. IsSequence(b)
  BY ParsedFamily
<1>3. parse_messages(Append(before, m)) = b \o <<said>>
  BY <1>1
<1> HIDE DEF b
<1>4. b \o <<said>> = Append(b, said)
  BY <1>2, OneBehind
<1> QED
  BY <1>1, <1>3, <1>4 DEF Longer, b

\* What a message says that is not merged
LEMMA MessageSays ==
  ASSUME NEW t \in TurnKinds, NEW m,
         m = [role |-> IF t.kind = "tool" THEN "user" ELSE t.kind, blocks |-> AnthropicBlocks(t)]
  PROVE  /\ IsMessage(m)
         /\ \E said : ParsedMessage(m) = <<said>> /\ Renders(said, t, Speakable("anthropic", t))
         /\ m.role = "user" => m.blocks # <<>> /\ MayMerge(m.blocks)
<1> DEFINE z == AnthropicBlocks(t)
           role == IF t.kind = "tool" THEN "user" ELSE t.kind
<1>1. IsSequence(z)
  BY TurnBlocksListed
<1>2. m = [role |-> role, blocks |-> z]
  OBVIOUS
<1> HIDE DEF z, role
<1>3. m.role = role /\ m.blocks = z
  BY <1>2
<1>4. IsMessage(m)
  BY <1>1, <1>2, <1>3 DEF IsMessage
<1>5. Instructs(t) \/ Asks(t) \/ Answers(t) \/ Returns(t)
  BY TurnsSorted
<1>6. CASE t.kind \in {"user", "tool"}
  <2> DEFINE none == <<>>
             r == Results(none)
  <2>1. role = "user"
    BY <1>6 DEF role
  <2>2. ParsedMessage(m) = UserBlocks(z)
    BY <1>3, <2>1 DEF ParsedMessage
  <2>3. ResultsOnly(none)
    BY ShortSequences DEF ResultsOnly
  <2>4. Couples(z, none, AnthropicBlocks(t))
    <3>1. none \o z = z
      BY <1>1, Concatenation
    <3> QED
      BY <3>1 DEF Couples, z
  <2>5. r = <<>>
    <3> DEFINE g == [i \in DOMAIN none |-> ToolResult(none[i])]
    <3>1. Family(g, 0)
      BY ShortSequences DEF Family
    <3>2. r = FlattenSeq(g)
      BY DEF Results
    <3> HIDE DEF g
    <3> QED
      BY <3>1, <3>2, FlattenedEmpty
  <2>6. UserBlocks(none) = <<>>
    <3> HIDE DEF none
    <3>1. UserBlocks(none) = Results(none)
      BY <2>3, NoUserParts
    <3> QED
      BY <2>5, <3>1
  <2> HIDE DEF none, r
  <2>7. /\ \E said : /\ UserBlocks(z) = Append(UserBlocks(none), said)
                     /\ Renders(said, t, Speakable("anthropic", t))
        /\ IsSequence(z) /\ z # <<>> /\ MayMerge(z)
    BY <1>6, <2>3, <2>4, UserSays
  <2>8. PICK said : /\ UserBlocks(z) = Append(UserBlocks(none), said)
                    /\ Renders(said, t, Speakable("anthropic", t))
    BY <2>7
  <2>9. UserBlocks(z) = <<said>>
    BY <2>6, <2>8
  <2> QED
    BY <1>3, <1>4, <2>2, <2>7, <2>8, <2>9
<1>7. CASE Answers(t)
  <2> DEFINE said == AssistantBlocks(z)
  <2>1. role = "assistant" /\ t.kind = "assistant"
    BY <1>7 DEF role, Answers
  <2>2. ParsedMessage(m) = <<said>>
    BY <1>3, <2>1 DEF ParsedMessage
  <2>3. Rendered(said, t)
    BY <1>7, AssistantSays DEF z
  <2>4. Speakable("anthropic", t)
    BY <2>1 DEF Speakable
  <2> HIDE DEF said
  <2>5. Renders(said, t, Speakable("anthropic", t))
    BY <2>3, <2>4 DEF Renders
  <2> QED
    BY <1>3, <1>4, <2>1, <2>2, <2>5
<1>8. CASE Instructs(t)
  <2>1. t.kind \in {"system", "developer"} /\ role = t.kind
    BY <1>8 DEF role, Instructs
  <2>2. ParsedMessage(m) = <<Refusal>>
    BY <1>3, <2>1 DEF ParsedMessage
  <2>3. ~Speakable("anthropic", t)
    BY <2>1 DEF Speakable
  <2>4. Renders(Refusal, t, Speakable("anthropic", t))
    BY <2>3 DEF Renders
  <2> QED
    BY <1>3, <1>4, <2>1, <2>2, <2>4
<1> QED
  BY <1>5, <1>6, <1>7, <1>8 DEF Asks, Returns

\* Blocks that join the last message
MergedInto(messages, blocks) == [messages EXCEPT ![Len(messages)].blocks = @ \o blocks]
Merges(more, messages, blocks) == more = MergedInto(messages, blocks)

\* A message that takes more blocks: the messages before it stay as they are
LEMMA Merging ==
  ASSUME NEW messages, Messages(messages), messages # <<>>, NEW blocks, IsSequence(blocks),
         NEW more, Merges(more, messages, blocks), NEW n, n = Len(messages)
  PROVE  /\ n \in Nat /\ n # 0 /\ DOMAIN messages = 1..n /\ DOMAIN more = 1..n
         /\ IsSequence(more) /\ Len(more) = n /\ more # <<>> /\ Messages(more)
         /\ \A i \in 1..(n - 1) : more[i] = messages[i]
         /\ more[n].role = messages[n].role
         /\ Couples(more[n].blocks, messages[n].blocks, blocks)
<1> DEFINE last == messages[n]
           b == last.blocks \o blocks
           role == last.role
<1>1. n \in Nat /\ DOMAIN messages = 1..n
  BY Appended DEF Messages
<1>2. n # 0
  BY EmptySeq DEF Messages, IsSequence
<1>3. n \in 1..n /\ \A i \in 1..(n - 1) : i \in 1..n /\ i # n
  BY <1>1, <1>2
<1>4. IsMessage(last)
  BY <1>1, <1>3 DEF Messages
<1>5. last = [role |-> role, blocks |-> last.blocks] /\ IsSequence(last.blocks)
  BY <1>4 DEF IsMessage
<1>6. more = [messages EXCEPT ![n] = [last EXCEPT !.blocks = b]]
  BY DEF Merges, MergedInto
<1>7. IsSequence(b)
  <2> DEFINE a == last.blocks
  <2>1. IsSequence(a)
    BY <1>5
  <2> HIDE DEF a
  <2>2. IsSequence(a \o blocks)
    BY <2>1, Concatenation
  <2> QED
    BY <2>2 DEF a
<1>8. b = last.blocks \o blocks
  OBVIOUS
<1> HIDE DEF b, last, role
<1>9. [last EXCEPT !.blocks = b] = [role |-> role, blocks |-> b]
  BY <1>5
<1> DEFINE new == [role |-> role, blocks |-> b]
<1>10. more = [messages EXCEPT ![n] = new]
  BY <1>6, <1>9
<1>11. new.role = role /\ new.blocks = b /\ IsMessage(new)
  BY <1>7 DEF IsMessage
<1> HIDE DEF new
<1>12. /\ DOMAIN more = 1..n /\ more = [i \in 1..n |-> more[i]] /\ more[n] = new
       /\ \A i \in 1..(n - 1) : more[i] = messages[i]
       /\ \A i \in 1..n : i # n => more[i] = messages[i]
  BY <1>1, <1>3, <1>10
<1>13. IsSequence(more)
  BY <1>1, <1>12, FunctionListed
<1>14. Len(more) = n
  <2>1. DOMAIN more = 1..Len(more) /\ Len(more) \in Nat
    BY <1>13, Appended
  <2> QED
    BY <1>1, <1>12, <2>1
<1>15. more # <<>>
  BY <1>2, <1>14, ShortSequences
<1>16. Messages(more)
  <2>1. ASSUME NEW i \in 1..n PROVE IsMessage(more[i])
    BY <1>1, <1>11, <1>12 DEF Messages
  <2> QED
    BY <1>12, <1>13, <2>1 DEF Messages
<1>17. more[n].role = messages[n].role
  BY <1>11, <1>12 DEF role, last
<1>18. Couples(more[n].blocks, messages[n].blocks, blocks)
  BY <1>8, <1>11, <1>12 DEF Couples, last
<1> QED
  BY <1>1, <1>2, <1>12, <1>13, <1>14, <1>15, <1>16, <1>17, <1>18

\* They are one message more of the conversation
LEMMA MergedSaid ==
  ASSUME NEW messages, Messages(messages), messages # <<>>, NEW blocks, IsSequence(blocks),
         NEW more, Merges(more, messages, blocks), NEW n, n = Len(messages),
         messages[n].role = "user",
         NEW said, UserLonger(more[n].blocks, messages[n].blocks, said)
  PROVE  Longer(more, messages, said)
<1> DEFINE g == [i \in 1..n |-> ParsedMessage(messages[i])]
           h == [i \in 1..n |-> ParsedMessage(more[i])]
           front == [i \in 1..(n - 1) |-> ParsedMessage(messages[i])]
           p == FlattenSeq(front)
           u == UserBlocks(messages[n].blocks)
           k == n - 1
<1>1. /\ n \in Nat /\ n # 0 /\ DOMAIN messages = 1..n /\ DOMAIN more = 1..n /\ Messages(more)
      /\ \A i \in 1..(n - 1) : more[i] = messages[i]
      /\ more[n].role = messages[n].role
  BY Merging
<1>2. /\ k \in Nat /\ k + 1 = n /\ n \in 1..n /\ \A i \in 1..k : i \in 1..n
  BY <1>1
<1>3. \A i \in 1..n : IsSequence(ParsedMessage(messages[i])) /\ IsSequence(ParsedMessage(more[i]))
  BY <1>1, ParsedListed DEF Messages
<1>4. parse_messages(messages) = FlattenSeq(g) /\ parse_messages(more) = FlattenSeq(h)
  BY <1>1, ParsedFamily
<1>5. g[n] = u
  BY <1>2 DEF ParsedMessage
<1>6. h[n] = Append(u, said)
  <2>1. h[n] = UserBlocks(more[n].blocks)
    BY <1>1, <1>2 DEF ParsedMessage
  <2> QED
    BY <2>1 DEF UserLonger
<1>7. Family(g, k + 1) /\ Family(h, k + 1) /\ Family(front, k)
  BY <1>2, <1>3 DEF Family
<1>8. Extends(g, front, k) /\ Extends(h, front, k)
  BY <1>1, <1>2 DEF Extends
<1> HIDE DEF g, h, front, u, k
<1>9. IsSequence(p) /\ IsSequence(g[k + 1]) /\ FlattenSeq(g) = p \o g[k + 1]
  BY <1>2, <1>7, <1>8, FlattenedOneMore
<1>10. FlattenSeq(h) = p \o h[k + 1]
  BY <1>2, <1>7, <1>8, FlattenedOneMore
<1> HIDE DEF p
<1> DEFINE one == <<said>>
           z == p \o u
<1>11. IsSequence(u) /\ IsSequence(one)
  BY <1>2, <1>5, <1>9, ShortSequences
<1>12. Append(u, said) = u \o one
  BY <1>11, OneBehind
<1> HIDE DEF one
<1>13. IsSequence(z)
  BY <1>9, <1>11, Concatenation
<1>14. (p \o u) \o one = p \o (u \o one)
  <2>1. IsSequence(p)
    BY <1>9
  <2> HIDE DEF z
  <2> QED
    BY <1>11, <2>1, Associative, SMTT(30)
<1>15. FlattenSeq(g) = z /\ FlattenSeq(h) = z \o one
  BY <1>2, <1>5, <1>6, <1>9, <1>10, <1>12, <1>14
<1> HIDE DEF z
<1>16. z \o one = Append(z, said)
  BY <1>13, OneBehind DEF one
<1> QED
  BY <1>4, <1>15, <1>16 DEF Longer

\* A turn that is merged
LEMMA TurnMerged ==
  ASSUME Conversation(turns), NEW k \in Nat, k + 1 \in 1..Len(Body),
         NEW before, SaidBy(before, k), NEW t, t = Body[k + 1],
         t.kind \in {"user", "tool"}, before # <<>>, Last(before).role = "user",
         Last(Last(before).blocks).type = "tool_result",
         NEW more, Merges(more, before, AnthropicBlocks(t))
  PROVE  SaidBy(more, k + 1)
<1> DEFINE n == Len(before)
           b == before[n].blocks
           c == more[n].blocks
           z == AnthropicBlocks(t)
<1>1. t \in TurnKinds
  BY BodyTurns DEF Conversation
<1>2. IsSequence(z) /\ Messages(before)
  BY <1>1, TurnBlocksListed DEF SaidBy
<1>11. n = Len(before) /\ Merges(more, before, z)
  OBVIOUS
<1>3. /\ n \in Nat /\ n # 0 /\ DOMAIN before = 1..n /\ Messages(more) /\ Len(more) = n
      /\ more # <<>>
      /\ more[n].role = before[n].role
      /\ Couples(c, b, z)
  <2> HIDE DEF n, z
  <2>1. /\ n \in Nat /\ n # 0 /\ DOMAIN before = 1..n /\ DOMAIN more = 1..n
        /\ IsSequence(more) /\ Len(more) = n /\ more # <<>> /\ Messages(more)
        /\ \A i \in 1..(n - 1) : more[i] = before[i]
        /\ more[n].role = before[n].role
        /\ Couples(more[n].blocks, before[n].blocks, z)
    BY <1>2, <1>11, Merging
  <2> QED
    BY <2>1
<1>4. Last(before) = before[n] /\ Last(more) = more[n] /\ before[n].role = "user"
  BY <1>3 DEF Last
<1>5. ResultsOnly(b)
  <2>1. b # <<>> /\ MayMerge(b)
    BY <1>4 DEF SaidBy, Mergeable
  <2>2. IsSequence(b)
    BY <1>2, <1>3 DEF Messages, IsMessage
  <2>3. EndsWith(b, "tool_result")
    BY <1>4, <2>1, <2>2 DEF EndsWith
  <2> QED
    BY <2>1, <2>3 DEF MayMerge
<1> HIDE DEF n, b, c
<1>6. /\ \E m : /\ UserBlocks(c) = Append(UserBlocks(b), m)
                /\ Renders(m, t, Speakable("anthropic", t))
      /\ IsSequence(c) /\ c # <<>> /\ MayMerge(c)
  BY <1>1, <1>3, <1>5, UserSays
<1>7. PICK m : /\ UserBlocks(c) = Append(UserBlocks(b), m)
               /\ Renders(m, t, Speakable("anthropic", t))
  BY <1>6
<1>8. UserLonger(more[n].blocks, before[n].blocks, m)
  BY <1>7 DEF UserLonger, b, c
<1>9. Longer(more, before, m)
  <2> HIDE DEF z
  <2> QED
    BY <1>2, <1>4, <1>8, <1>11, MergedSaid
<1>10. Mergeable(more)
  BY <1>4, <1>6 DEF Mergeable, c
<1> QED
  BY <1>3, <1>7, <1>9, <1>10, TurnSaid

\* A turn that is a message of its own
LEMMA TurnAppended ==
  ASSUME Conversation(turns), NEW k \in Nat, k + 1 \in 1..Len(Body),
         NEW before, SaidBy(before, k), NEW t, t = Body[k + 1], NEW m,
         m = [role |-> IF t.kind = "tool" THEN "user" ELSE t.kind, blocks |-> AnthropicBlocks(t)]
  PROVE  SaidBy(Append(before, m), k + 1)
<1> DEFINE more == Append(before, m)
           n == Len(before)
<1>1. t \in TurnKinds
  BY BodyTurns DEF Conversation
<1>2. /\ IsMessage(m)
      /\ \E said : ParsedMessage(m) = <<said>> /\ Renders(said, t, Speakable("anthropic", t))
      /\ m.role = "user" => m.blocks # <<>> /\ MayMerge(m.blocks)
  BY <1>1, MessageSays
<1>3. PICK said : ParsedMessage(m) = <<said>> /\ Renders(said, t, Speakable("anthropic", t))
  BY <1>2
<1>4. Messages(before)
  BY DEF SaidBy
<1>5. Longer(Append(before, m), before, said) /\ Messages(Append(before, m))
  BY <1>2, <1>3, <1>4, MessageBehind
<1>6. Last(more) = m
  <2>1. n \in Nat /\ Len(more) = n + 1 /\ more[n + 1] = m
    BY <1>4, Appended DEF Messages
  <2> HIDE DEF more, n
  <2> QED
    BY <2>1 DEF Last
<1> HIDE DEF more
<1>7. Mergeable(more)
  BY <1>2, <1>6 DEF Mergeable
<1>8. Longer(more, before, said) /\ Messages(more)
  BY <1>5 DEF more
<1>9. SaidBy(more, k + 1)
  BY <1>3, <1>7, <1>8, TurnSaid
<1> QED
  BY <1>9 DEF more

\* The first turns of the body
BodyUpTo(k) == [i \in 1..k |-> Body[i]]

\* The first turns, one more of them
LEMMA BodyGrows ==
  ASSUME NEW k \in Nat
  PROVE  /\ IsSequence(BodyUpTo(k))
         /\ BodyUpTo(k + 1) = Append(BodyUpTo(k), Body[k + 1])
<1> DEFINE p == BodyUpTo(k)
           q == BodyUpTo(k + 1)
           e == Body[k + 1]
           w == Append(p, e)
<1>1. DOMAIN p = 1..k /\ p = [i \in 1..k |-> p[i]] /\ \A i \in 1..k : p[i] = Body[i]
  BY DEF BodyUpTo
<1>2. q = [i \in 1..(k + 1) |-> q[i]] /\ q[k + 1] = e /\ \A i \in 1..k : q[i] = Body[i]
  BY DEF BodyUpTo
<1> HIDE DEF p, q, e
<1>3. IsSequence(p)
  BY <1>1, FunctionListed
<1>4. Len(p) = k
  BY <1>1
<1>5. IsSequence(w) /\ DOMAIN w = 1..(k + 1) /\ w[k + 1] = e /\ \A i \in 1..k : w[i] = p[i]
  BY <1>3, <1>4, Appended
<1> HIDE DEF w
<1>6. w = [i \in 1..(k + 1) |-> w[i]]
  BY <1>5 DEF IsSequence
<1>7. \A i \in 1..(k + 1) : i \in 1..k \/ i = k + 1
  OBVIOUS
<1>8. \A i \in 1..(k + 1) : w[i] = q[i]
  BY <1>1, <1>2, <1>5, <1>7
<1>9. q = w
  BY <1>2, <1>6, <1>8
<1> QED
  BY <1>3, <1>9 DEF p, q, e, w

\* The messages of the first turns
BodiesUpTo(k) == Bodies(<<>>, BodyUpTo(k))

\* The messages of one turn more
LEMMA OneBodyMore ==
  ASSUME NEW k \in Nat
  PROVE  BodiesUpTo(k + 1) = AnthropicTurn(BodiesUpTo(k), Body[k + 1])
<1> DEFINE none == <<>>
           s == BodyUpTo(k)
           x == Body[k + 1]
<1>1. IsSequence(s) /\ BodyUpTo(k + 1) = Append(s, x)
  BY BodyGrows
<1>2. BodiesUpTo(k) = Bodies(none, s) /\ BodiesUpTo(k + 1) = Bodies(none, BodyUpTo(k + 1))
  BY DEF BodiesUpTo
<1> HIDE DEF none, s, x
<1>3. Bodies(none, Append(s, x)) = AnthropicTurn(Bodies(none, s), x)
  BY <1>1, ItemsMore
<1> QED
  BY <1>1, <1>2, <1>3 DEF x

\* A turn more is said, whether it is merged or not
LEMMA BodySaidMore ==
  ASSUME Conversation(turns), NEW k \in Nat, k + 1 \in 1..Len(Body), SaidBy(BodiesUpTo(k), k)
  PROVE  SaidBy(BodiesUpTo(k + 1), k + 1)
<1> DEFINE before == BodiesUpTo(k)
           t == Body[k + 1]
           role == IF t.kind = "tool" THEN "user" ELSE t.kind
           m == [role |-> role, blocks |-> AnthropicBlocks(t)]
           merging == /\ role = "user" /\ before # <<>> /\ Last(before).role = "user"
                      /\ Last(Last(before).blocks).type = "tool_result"
           more == AnthropicTurn(before, t)
           joined == MergedInto(before, AnthropicBlocks(t))
<1>1. more = IF merging THEN joined ELSE Append(before, m)
  BY DEF AnthropicTurn, MergedInto
<1>2. BodiesUpTo(k + 1) = more
  BY OneBodyMore
<1> HIDE DEF before, more
<1>3. SaidBy(before, k)
  BY DEF before
<1>4. CASE merging
  <2>1. /\ before # <<>> /\ Last(before).role = "user"
        /\ Last(Last(before).blocks).type = "tool_result"
    BY <1>4
  <2>2. t.kind \in {"user", "tool"}
    BY <1>4
  <2>3. t = Body[k + 1]
    OBVIOUS
  <2>4. Merges(joined, before, AnthropicBlocks(t))
    BY DEF Merges
  <2>5. more = joined
    BY <1>1, <1>4
  <2> HIDE DEF joined, t
  <2>6. SaidBy(joined, k + 1)
    BY <1>3, <2>1, <2>2, <2>3, <2>4, TurnMerged
  <2> QED
    BY <1>2, <2>5, <2>6
<1>5. CASE ~merging
  <2>1. more = Append(before, m)
    BY <1>1, <1>5
  <2>2. t = Body[k + 1]
    OBVIOUS
  <2>3. m = [role |-> IF t.kind = "tool" THEN "user" ELSE t.kind, blocks |-> AnthropicBlocks(t)]
    OBVIOUS
  <2> HIDE DEF m, t
  <2>4. SaidBy(Append(before, m), k + 1)
    BY <1>3, <2>2, <2>3, TurnAppended
  <2> QED
    BY <1>2, <2>1, <2>4
<1> QED
  BY <1>4, <1>5

\* Before the first turn there is the opening
LEMMA NothingSaidYet ==
  ASSUME Conversation(turns)
  PROVE  SaidBy(BodiesUpTo(0), 0)
<1> DEFINE none == <<>>
           g == [i \in DOMAIN none |-> ParsedMessage(none[i])]
           a == parse_system(Preamble)
<1>1. BodyUpTo(0) = <<>>
  <2>1. 1..0 = {}
    OBVIOUS
  <2>2. DOMAIN BodyUpTo(0) = {} /\ IsSequence(BodyUpTo(0))
    BY <2>1, BodyGrows DEF BodyUpTo
  <2>3. DOMAIN BodyUpTo(0) = 1..Len(BodyUpTo(0)) /\ Len(BodyUpTo(0)) \in Nat
    BY <2>2, Appended
  <2>4. Len(BodyUpTo(0)) = 0
    BY <2>2, <2>3
  <2> QED
    BY <2>2, <2>4, EmptySeq
<1>2. BodiesUpTo(0) = none
  BY <1>1, NoItems DEF BodiesUpTo
<1>3. Messages(none) /\ Mergeable(none)
  BY ShortSequences DEF Messages, Mergeable
<1>4. parse_messages(none) = <<>>
  <2>1. Family(g, 0)
    BY ShortSequences DEF Family
  <2>2. parse_messages(none) = FlattenSeq(g)
    BY <1>3, ParsedFamily
  <2> HIDE DEF g
  <2> QED
    BY <2>1, <2>2, FlattenedEmpty
<1>5. IsSequence(a)
  BY ShortSequences DEF parse_system
<1> HIDE DEF none
<1>6. Entire(none) = a \o <<>>
  BY <1>4 DEF Entire
<1> HIDE DEF a
<1>7. a \o <<>> = a
  BY <1>5, Concatenation
<1>8. 0 + Shift = Shift
  BY DEF Shift
<1>9. SaysFirst("anthropic", a, Shift)
  BY OpeningSays DEF a
<1> QED
  BY <1>2, <1>3, <1>6, <1>7, <1>8, <1>9 DEF SaidBy

\* All the turns are said
LEMMA BodySaid ==
  ASSUME Conversation(turns)
  PROVE  SaidBy(BodiesUpTo(Len(Body)), Len(Body))
<1> DEFINE K == {k \in Nat : k <= Len(Body) => SaidBy(BodiesUpTo(k), k)}
<1>1. 0 \in K
  BY NothingSaidYet
<1>2. ASSUME NEW k \in Nat, k \in K PROVE k + 1 \in K
  <2> SUFFICES ASSUME k + 1 <= Len(Body) PROVE SaidBy(BodiesUpTo(k + 1), k + 1)
    OBVIOUS
  <2>1. Len(Body) \in Nat
    BY BodyTurns
  <2>2. k + 1 \in 1..Len(Body) /\ k <= Len(Body)
    BY <2>1
  <2> QED
    BY <1>2, <2>2, BodySaidMore
<1> HIDE DEF K
<1>3. Nat \subseteq K
  BY <1>1, <1>2, NatSet
<1>4. Len(Body) \in Nat /\ Len(Body) <= Len(Body)
  BY BodyTurns
<1> QED
  BY <1>3, <1>4 DEF K

\* A conversation, told to Anthropic
LEMMA AnthropicTold ==
  ASSUME Conversation(turns)
  PROVE  Conveyed("anthropic", Parsed("anthropic"))
<1> DEFINE n == Len(Body)
           none == <<>>
           messages == FoldLeft(AnthropicTurn, none, Body)
           body == [system |-> Preamble, messages |-> messages]
<1>1. n \in Nat /\ DOMAIN Body = 1..n /\ n + Shift = Len(turns) /\ IsSequence(Body)
  BY BodyTurns
<1>2. BodyUpTo(n) = Body
  BY <1>1 DEF BodyUpTo, IsSequence
<1>3. messages = BodiesUpTo(n)
  BY <1>2 DEF BodiesUpTo, Bodies
<1>4. Parsed("anthropic") = build_request(body)
  BY DEF Parsed
<1>5. body.system = Preamble /\ body.messages = messages
  OBVIOUS
<1> HIDE DEF body, messages
<1>6. build_request(body) = link_tool_results(Entire(messages))
  BY <1>5 DEF build_request, Entire
<1>7. SaysFirst("anthropic", Entire(messages), Len(turns))
  BY <1>1, <1>3, BodySaid DEF SaidBy
<1> DEFINE list == Entire(messages)
<1> HIDE DEF list
<1>8. Conveyed("anthropic", link_tool_results(list))
  BY <1>7, AllSaid DEF list
<1> QED
  BY <1>4, <1>6, <1>8 DEF list

-----------------------------------------------------------------------------
(* A prompt of /api/generate.                                              *)

\* What is told of a list without results
LEMMA ListTold ==
  ASSUME Conversation(turns), NEW f, NEW list, SaysFirst(f, list, Len(turns))
  PROVE  IF Acceptable(f) THEN serialize_messages(list) = [i \in DOMAIN turns |-> Wanted(turns[i])]
                          ELSE Refused(list)
<1> DEFINE n == Len(turns)
<1>1. n \in Nat /\ DOMAIN turns = 1..n
  BY BodyTurns
<1>2. /\ IsSequence(list) /\ Len(list) = n
      /\ \A i \in 1..n : Renders(list[i], turns[i], MaySay(f, i))
  BY DEF SaysFirst
<1> HIDE DEF n
<1>3. DOMAIN list = 1..n
  BY <1>2, Appended
<1>4. CASE Acceptable(f)
  <2>1. \A i \in 1..n : serialize_message(list[i]) = Wanted(turns[i])
    BY <1>1, <1>2, <1>4 DEF Acceptable, MaySay, Renders, Rendered
  <2>2. serialize_messages(list) = [i \in DOMAIN turns |-> Wanted(turns[i])]
    BY <1>1, <1>3, <2>1 DEF serialize_messages
  <2> QED
    BY <1>4, <2>2
<1>5. CASE ~Acceptable(f)
  <2>1. PICK i \in 1..n : ~MaySay(f, i)
    BY <1>1, <1>5 DEF Acceptable, MaySay
  <2>2. list[i] = Refusal
    BY <1>2, <2>1 DEF Renders
  <2>3. i \in 1..Len(list)
    BY <1>2
  <2>4. Refused(list)
    BY <2>2, <2>3 DEF Refused, Contains
  <2> QED
    BY <1>5, <2>4
<1> QED
  BY <1>4, <1>5

\* The message of a prompt
LEMMA PromptRead ==
  ASSUME Conversation(turns), IsPrompt, NEW raw \in BOOLEAN, ~(raw /\ Preamble # <<>>),
         NEW m, m = UserTurn(PartsOf(Last(turns))), Asks(Last(turns))
  PROVE  parse_generate_request(PromptBody(raw)) = Append(parse_system(Preamble), m)
<1> DEFINE body == PromptBody(raw)
           t == Last(turns)
           a == parse_system(Preamble)
           parts == Block("text", body.prompt) \o Read(body.images)
<1>1. /\ body.raw = raw /\ body.system = Preamble /\ body.template = <<>> /\ body.prompt = t.text
      /\ body.images = Pictures(t, "image")
  BY DEF PromptBody
<1> HIDE DEF body
<1>2. parse_generate_request(body) = parse_system(body.system) \o Remainder(parts)
  <2>1. ~(body.raw /\ (body.system # <<>> \/ body.template # <<>>))
    BY <1>1
  <2> QED
    BY <2>1 DEF parse_generate_request, parse_system, Remainder, Read
<1>3. parts = PartsOf(t)
  <2> HIDE DEF t
  <2>1. Read(Pictures(t, "image")) = Shown(t)
    BY PicturesRead DEF t
  <2> QED
    BY <1>1, <2>1 DEF PartsOf
<1>4. PartsOf(t) # <<>>
  BY QuestionRendered
<1>5. Remainder(parts) = <<m>>
  BY <1>3, <1>4 DEF Remainder
<1>6. IsSequence(a)
  BY ShortSequences DEF parse_system
<1> HIDE DEF parts
<1>7. parse_generate_request(body) = a \o <<m>>
  BY <1>1, <1>2, <1>5
<1> HIDE DEF a
<1>8. a \o <<m>> = Append(a, m)
  BY <1>6, OneBehind
<1> QED
  BY <1>7, <1>8 DEF a, body

\* A prompt is the exchange of its system text and its question
LEMMA PromptTold ==
  ASSUME Conversation(turns), IsPrompt, NEW raw \in BOOLEAN,
         NEW parsed, parsed = parse_generate_request(PromptBody(raw))
  PROVE  IF Acceptable("ollama_chat") /\ ~(raw /\ Preamble # <<>>)
         THEN serialize_messages(parsed) = [i \in DOMAIN turns |-> Wanted(turns[i])]
         ELSE Refused(parsed)
<1> DEFINE f == "ollama_chat"
           t == Last(turns)
           m == UserTurn(PartsOf(t))
           a == parse_system(Preamble)
<1>1. CASE raw /\ Preamble # <<>>
  <2> DEFINE body == PromptBody(raw)
             one == <<Refusal>>
  <2>1. body.raw /\ body.system # <<>>
    BY <1>1 DEF PromptBody
  <2> HIDE DEF body
  <2>2. parse_generate_request(body) = one
    BY <2>1 DEF parse_generate_request
  <2>3. Len(one) = 1 /\ one[1] = Refusal /\ 1 \in 1..1
    BY ShortSequences
  <2> HIDE DEF one
  <2>4. Refused(one)
    BY <2>3 DEF Refused, Contains
  <2> QED
    BY <1>1, <2>2, <2>4 DEF body
<1>2. CASE ~(raw /\ Preamble # <<>>)
  <2>1. Len(turns) \in Nat /\ DOMAIN turns = 1..Len(turns)
    BY BodyTurns
  <2>2. t = turns[Len(turns)] /\ t.kind = "user" /\ turns # <<>>
    BY DEF IsPrompt, Last
  <2>3. Len(turns) = Shift + 1
    <3>1. CASE Len(turns) = 1
      <4>1. turns[1].kind = "user"
        BY <2>2, <3>1
      <4> QED
        BY <3>1, <4>1 DEF Shift, Opens
    <3>2. CASE Len(turns) = 2 /\ turns[1].kind = "system"
      BY <2>2, <3>2 DEF Shift, Opens
    <3> QED
      BY <3>1, <3>2 DEF IsPrompt
  <2>4. Shift \in Nat /\ Shift + 1 \in DOMAIN turns /\ t = turns[Shift + 1]
    BY <2>1, <2>2, <2>3, BodyTurns
  <2>5. t \in TurnKinds
    BY <2>4 DEF Conversation
  <2>6. Asks(t)
    BY <2>2, <2>5, TurnsSorted DEF Instructs, Answers, Returns
  <2>7. Renders(m, t, Speakable(f, t))
    <3>1. Renders(UserTurn(PartsOf(t)), t, t.image # "url")
      BY <2>6, QuestionRendered
    <3>2. Speakable(f, t) = (t.image # "url")
      BY <2>2 DEF Speakable
    <3> QED
      BY <3>1, <3>2
  <2>8. m = UserTurn(PartsOf(Last(turns)))
    OBVIOUS
  <2> HIDE DEF m, f
  <2>9. MaySay(f, Shift + 1) = Speakable(f, turns[Shift + 1])
    BY <2>4, MaySayFirst DEF f
  <2>10. Renders(m, turns[Shift + 1], MaySay(f, Shift + 1))
    BY <2>4, <2>7, <2>9
  <2>11. SaysFirst(f, a, Shift)
    BY OpeningSays
  <2> HIDE DEF a
  <2>12. SaysFirst(f, Append(a, m), Shift + 1)
    BY <2>4, <2>10, <2>11, OneMoreSaid
  <2>13. parse_generate_request(PromptBody(raw)) = Append(parse_system(Preamble), m)
    BY <1>2, <2>6, <2>8, PromptRead
  <2>14. SaysFirst(f, parsed, Len(turns))
    BY <2>3, <2>12, <2>13 DEF a
  <2>15. IF Acceptable(f)
         THEN serialize_messages(parsed) = [i \in DOMAIN turns |-> Wanted(turns[i])]
         ELSE Refused(parsed)
    BY <2>14, ListTold
  <2> QED
    BY <1>2, <2>15 DEF f
<1> QED
  BY <1>1, <1>2

-----------------------------------------------------------------------------

\* A conversation that may be held is the same request whatever the facade
LEMMA ConversationsAgree ==
  ASSUME Conversation(turns)
  PROVE  SameExchangeSameRequest
<1>1. ASSUME NEW f \in Chats
      PROVE  IF Acceptable(f)
             THEN /\ serialize_messages(Parsed(f)) = [i \in DOMAIN turns |-> Wanted(turns[i])]
                  /\ ResultNames(Parsed(f)) = TurnNames
             ELSE Refused(Parsed(f))
  <2>1. Conveyed(f, Parsed(f))
    BY OllamaTold, OpenAITold, AnthropicTold, ResponsesTold DEF Chats
  <2> QED
    BY <2>1 DEF Conveyed, AsWanted
<1>2. ASSUME IsPrompt, NEW raw \in BOOLEAN
      PROVE  LET parsed == parse_generate_request(PromptBody(raw))
             IN IF Acceptable("ollama_chat") /\ ~(raw /\ Preamble # <<>>)
                THEN serialize_messages(parsed) = [i \in DOMAIN turns |-> Wanted(turns[i])]
                ELSE Refused(parsed)
  <2> DEFINE parsed == parse_generate_request(PromptBody(raw))
  <2>1. parsed = parse_generate_request(PromptBody(raw))
    OBVIOUS
  <2> HIDE DEF parsed
  <2>2. IF Acceptable("ollama_chat") /\ ~(raw /\ Preamble # <<>>)
        THEN serialize_messages(parsed) = [i \in DOMAIN turns |-> Wanted(turns[i])]
        ELSE Refused(parsed)
    BY <1>2, <2>1, PromptTold
  <2> QED
    BY <2>2 DEF parsed
<1> QED
  BY <1>1, <1>2 DEF SameExchangeSameRequest

\* canonical/messages.py:7-25.  For every bound on the turns: one exchange,
\* told to any of the four facades or as a prompt of /api/generate, reaches
\* llama-server as the same messages, or is refused where the protocol of the
\* facade cannot say it (SameExchangeSameRequest).
THEOREM SameExchangesSameRequests == Spec => []SameExchangeSameRequest
<1>1. Conversation(turns) => SameExchangeSameRequest
  BY ConversationsAgree
<1> QED
  BY <1>1, ConversationInvariant, PTL
=============================================================================

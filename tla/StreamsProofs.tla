---------------------------- MODULE StreamsProofs ----------------------------
(***************************************************************************)
(* The streams, for every bound on the chunks and on the turns: whatever   *)
(* llama-server sends and wherever the stream is cut, it is closed only by *)
(* the end of the upstream, the blocks of Anthropic are well formed and    *)
(* the calls are told once.  The last sections prove what the operators of *)
(* Streams yield for one chunk more: the texts, the calls and what the     *)
(* assembler holds of them.  AnswerProofs builds on both.                  *)
(***************************************************************************)
EXTENDS MCInference, FiniteSetTheorems, SequenceTheorems, WellFoundedInduction, TLAPS

-----------------------------------------------------------------------------
(* The locals of a generator.                                              *)

IsSequence(s) == s \in Seq({s[i] : i \in DOMAIN s})

Locals(frames, finish, usage, calls, content, index, open) ==
  [frames |-> frames, finish |-> finish, usage |-> usage, calls |-> calls, content |-> content,
   index |-> index, open |-> open]

IsState(s) ==
  /\ s = Locals(s.frames, s.finish, s.usage, s.calls, s.content, s.index, s.open)
  /\ IsSequence(s.frames)

\* An append adds the last element and changes no other
LEMMA Appended ==
  ASSUME NEW s, IsSequence(s), NEW e
  PROVE  /\ IsSequence(Append(s, e))
         /\ Len(s) \in Nat /\ DOMAIN s = 1..Len(s)
         /\ Len(Append(s, e)) = Len(s) + 1
         /\ DOMAIN Append(s, e) = 1..(Len(s) + 1)
         /\ Append(s, e)[Len(s) + 1] = e
         /\ \A i \in 1..Len(s) : Append(s, e)[i] = s[i]
<1> DEFINE t == Append(s, e)
           S == {s[i] : i \in DOMAIN s}
           T == S \cup {e}
<1>1. s \in Seq(T)
  <2>1. s \in Seq(S)
    BY DEF IsSequence
  <2> QED
    BY <2>1
<1> HIDE DEF S
<1>2. t \in Seq(T) /\ Len(t) = Len(s) + 1
  BY <1>1
<1>3. /\ Len(s) \in Nat /\ DOMAIN s = 1..Len(s) /\ DOMAIN t = 1..Len(t)
      /\ t[Len(s) + 1] = e
      /\ \A i \in 1..Len(s) : t[i] = s[i]
  BY <1>1, <1>2
<1>4. IsSequence(t)
  BY <1>2, <1>3 DEF IsSequence
<1> QED
  BY <1>2, <1>3, <1>4

\* The fields of the locals are independent
LEMMA LocalsFields ==
  ASSUME NEW frames, NEW finish, NEW usage, NEW calls, NEW content, NEW index, NEW open
  PROVE  LET s == Locals(frames, finish, usage, calls, content, index, open)
         IN /\ s.frames = frames /\ s.finish = finish /\ s.usage = usage /\ s.calls = calls
            /\ s.content = content /\ s.index = index /\ s.open = open
BY DEF Locals

\* Each assignment changes its own field
LEMMA FramesAssigned ==
  ASSUME NEW a, NEW b, NEW c, NEW d, NEW e, NEW g, NEW h, NEW x,
         NEW s, s = Locals(a, b, c, d, e, g, h)
  PROVE  [s EXCEPT !.frames = x] = Locals(x, b, c, d, e, g, h)
BY DEF Locals

LEMMA FinishAssigned ==
  ASSUME NEW a, NEW b, NEW c, NEW d, NEW e, NEW g, NEW h, NEW x,
         NEW s, s = Locals(a, b, c, d, e, g, h)
  PROVE  [s EXCEPT !.finish = x] = Locals(a, x, c, d, e, g, h)
BY DEF Locals

LEMMA UsageAssigned ==
  ASSUME NEW a, NEW b, NEW c, NEW d, NEW e, NEW g, NEW h, NEW x,
         NEW s, s = Locals(a, b, c, d, e, g, h)
  PROVE  [s EXCEPT !.usage = x] = Locals(a, b, x, d, e, g, h)
BY DEF Locals

LEMMA CallsAssigned ==
  ASSUME NEW a, NEW b, NEW c, NEW d, NEW e, NEW g, NEW h, NEW x,
         NEW s, s = Locals(a, b, c, d, e, g, h)
  PROVE  [s EXCEPT !.calls = x] = Locals(a, b, c, x, e, g, h)
BY DEF Locals

LEMMA ContentAssigned ==
  ASSUME NEW a, NEW b, NEW c, NEW d, NEW e, NEW g, NEW h, NEW x,
         NEW s, s = Locals(a, b, c, d, e, g, h)
  PROVE  [s EXCEPT !.content = x] = Locals(a, b, c, d, x, g, h)
BY DEF Locals

LEMMA IndexAssigned ==
  ASSUME NEW a, NEW b, NEW c, NEW d, NEW e, NEW g, NEW h, NEW x,
         NEW s, s = Locals(a, b, c, d, e, g, h)
  PROVE  [s EXCEPT !.index = x] = Locals(a, b, c, d, e, x, h)
BY DEF Locals

LEMMA OpenAssigned ==
  ASSUME NEW a, NEW b, NEW c, NEW d, NEW e, NEW g, NEW h, NEW x,
         NEW s, s = Locals(a, b, c, d, e, g, h)
  PROVE  [s EXCEPT !.open = x] = Locals(a, b, c, d, e, g, x)
BY DEF Locals

\* The assignments to the flag, or to the counter and the flag
LEMMA Reopened ==
  ASSUME NEW s, IsState(s), NEW x
  PROVE  /\ [s EXCEPT !.open = x]
              = Locals(s.frames, s.finish, s.usage, s.calls, s.content, s.index, x)
         /\ [s EXCEPT !.index = @ + 1, !.open = x]
              = Locals(s.frames, s.finish, s.usage, s.calls, s.content, s.index + 1, x)
<1> DEFINE a == s.frames
           b == s.finish
           c == s.usage
           d == s.calls
           e == s.content
           g == s.index
           h == s.open
           k == g + 1
           u == [s EXCEPT !.index = k]
<1>1. s = Locals(a, b, c, d, e, g, h)
  BY DEF IsState
<1>2. [s EXCEPT !.index = @ + 1, !.open = x] = [u EXCEPT !.open = x]
  OBVIOUS
<1> HIDE DEF a, b, c, d, e, g, h, k
<1>3. u = Locals(a, b, c, d, e, k, h)
  BY <1>1, IndexAssigned
<1> HIDE DEF u
<1>4. [s EXCEPT !.open = x] = Locals(a, b, c, d, e, g, x)
  BY <1>1, OpenAssigned
<1>5. [u EXCEPT !.open = x] = Locals(a, b, c, d, e, k, x)
  BY <1>3, OpenAssigned
<1>6. [s EXCEPT !.index = @ + 1, !.open = x] = Locals(a, b, c, d, e, k, x)
  BY <1>2, <1>5
<1> QED
  BY <1>4, <1>6 DEF a, b, c, d, e, g, k

\* Saying a frame changes nothing else
LEMMA Said ==
  ASSUME NEW s, IsState(s), NEW f
  PROVE  /\ IsState(Say(s, f))
         /\ Say(s, f).frames = Append(s.frames, f)
         /\ Say(s, f).finish = s.finish /\ Say(s, f).usage = s.usage
         /\ Say(s, f).calls = s.calls /\ Say(s, f).content = s.content
         /\ Say(s, f).index = s.index /\ Say(s, f).open = s.open
<1> DEFINE a == s.frames
           b == s.finish
           c == s.usage
           d == s.calls
           e == s.content
           g == s.index
           h == s.open
           x == Append(a, f)
<1>1. s = Locals(a, b, c, d, e, g, h) /\ IsSequence(x)
  BY Appended DEF IsState
<1>2. Say(s, f) = [s EXCEPT !.frames = x]
  BY DEF Say
<1> HIDE DEF a, b, c, d, e, g, h, x
<1>3. Say(s, f) = Locals(x, b, c, d, e, g, h)
  BY <1>1, <1>2, FramesAssigned
<1>4. IsState(Say(s, f)) /\ Say(s, f).frames = x /\ Say(s, f).finish = b /\ Say(s, f).usage = c
      /\ Say(s, f).calls = d /\ Say(s, f).content = e /\ Say(s, f).index = g /\ Say(s, f).open = h
  BY <1>1, <1>3, LocalsFields DEF IsState
<1> QED
  BY <1>4 DEF a, b, c, d, e, g, h, x

-----------------------------------------------------------------------------
(* The blocks of Anthropic.                                                *)

\* What a frame more does to the blocks before it, and to those before the next one
LEMMA BlocksBefore ==
  ASSUME NEW s, IsSequence(s), NEW e
  PROVE  LET n == Len(s)
             t == Append(s, e)
         IN /\ \A i \in 1..(n + 1) : /\ StartsBefore(t, i) = StartsBefore(s, i)
                                     /\ OpenBefore(t, i) = OpenBefore(s, i)
            /\ StartsBefore(t, n + 2)
                 = IF e.event = "content_block_start" THEN StartsBefore(s, n + 1) \cup {n + 1}
                   ELSE StartsBefore(s, n + 1)
            /\ OpenBefore(t, n + 2)
                 = IF e.event = "content_block_stop" THEN {}
                   ELSE IF e.event = "content_block_start" THEN OpenBefore(s, n + 1) \cup {n + 1}
                   ELSE OpenBefore(s, n + 1)
            /\ IsFiniteSet(StartsBefore(s, n + 1))
<1> DEFINE n == Len(s)
           t == Append(s, e)
<1>1. /\ n \in Nat /\ t[n + 1] = e
      /\ \A i \in 1..n : t[i] = s[i]
  BY Appended
<1> HIDE DEF n, t
<1>2. ASSUME NEW i \in 1..(n + 1)
      PROVE  StartsBefore(t, i) = StartsBefore(s, i) /\ OpenBefore(t, i) = OpenBefore(s, i)
  <2>1. \A k \in 1..(i - 1) : t[k] = s[k]
    BY <1>1
  <2>2. StartsBefore(t, i) = StartsBefore(s, i)
    BY <2>1 DEF StartsBefore
  <2>3. \A k \in StartsBefore(s, i) : \A j \in (k + 1)..(i - 1) : t[j] = s[j]
    BY <2>1, <1>1 DEF StartsBefore
  <2> QED
    BY <2>2, <2>3 DEF OpenBefore
<1>3. StartsBefore(t, n + 2)
        = IF e.event = "content_block_start" THEN StartsBefore(s, n + 1) \cup {n + 1}
          ELSE StartsBefore(s, n + 1)
  <2>1. 1..((n + 2) - 1) = (1..n) \cup {n + 1} /\ 1..((n + 1) - 1) = 1..n
    BY <1>1
  <2>2. StartsBefore(s, n + 1) = {k \in 1..n : s[k].event = "content_block_start"}
    BY <2>1 DEF StartsBefore
  <2>3. StartsBefore(t, n + 2) = {k \in (1..n) \cup {n + 1} : t[k].event = "content_block_start"}
    BY <2>1 DEF StartsBefore
  <2>4. n + 1 \notin 1..n
    BY <1>1
  <2> QED
    BY <1>1, <2>2, <2>3, <2>4
<1>4. OpenBefore(t, n + 2)
        = IF e.event = "content_block_stop" THEN {}
          ELSE IF e.event = "content_block_start" THEN OpenBefore(s, n + 1) \cup {n + 1}
          ELSE OpenBefore(s, n + 1)
  <2>1. \A k \in StartsBefore(t, n + 2) :
          /\ k \in 1..(n + 1)
          /\ (k + 1)..((n + 2) - 1) = IF k = n + 1 THEN {} ELSE ((k + 1)..n) \cup {n + 1}
    <3>1. 1..((n + 2) - 1) = 1..(n + 1)
      BY <1>1
    <3>2. StartsBefore(t, n + 2) \subseteq 1..(n + 1)
      BY <3>1 DEF StartsBefore
    <3>3. \A k \in 1..(n + 1) :
            (k + 1)..((n + 2) - 1) = IF k = n + 1 THEN {} ELSE ((k + 1)..n) \cup {n + 1}
      <4>1. ASSUME NEW k \in 1..n PROVE (k + 1)..((n + 2) - 1) = ((k + 1)..n) \cup {n + 1}
        BY <1>1
      <4>2. ((n + 1) + 1)..((n + 2) - 1) = {}
        BY <1>1
      <4>3. \A k \in 1..(n + 1) : (k \in 1..n /\ k # n + 1) \/ k = n + 1
        BY <1>1
      <4> QED
        BY <4>1, <4>2, <4>3
    <3> QED
      BY <3>2, <3>3
  <2>2. \A k \in StartsBefore(s, n + 1) : k \in 1..n /\ (k + 1)..((n + 1) - 1) = (k + 1)..n
    BY <1>1 DEF StartsBefore
  <2>3. \A k \in 1..n : \A j \in (k + 1)..n : t[j] = s[j]
    BY <1>1
  <2>4. CASE e.event = "content_block_start"
    <3>1. StartsBefore(t, n + 2) = StartsBefore(s, n + 1) \cup {n + 1}
      BY <1>3, <2>4
    <3> DEFINE P(k) == \A j \in (k + 1)..((n + 2) - 1) : t[j].event # "content_block_stop"
               Q(k) == \A j \in (k + 1)..((n + 1) - 1) : s[j].event # "content_block_stop"
    <3>2. OpenBefore(t, n + 2) = {k \in StartsBefore(s, n + 1) \cup {n + 1} : P(k)}
      BY <3>1 DEF OpenBefore
    <3>3. OpenBefore(s, n + 1) = {k \in StartsBefore(s, n + 1) : Q(k)}
      BY DEF OpenBefore
    <3>4. P(n + 1)
      BY <1>1
    <3>5. ASSUME NEW k \in StartsBefore(s, n + 1) PROVE P(k) <=> Q(k)
      <4>1. k \in 1..n /\ (k + 1)..((n + 1) - 1) = (k + 1)..n
            /\ (k + 1)..((n + 2) - 1) = ((k + 1)..n) \cup {n + 1}
        BY <1>1, <2>2
      <4> QED
        BY <1>1, <2>3, <2>4, <4>1
    <3> HIDE DEF P, Q
    <3> QED
      BY <2>4, <3>2, <3>3, <3>4, <3>5
  <2>5. CASE e.event = "content_block_stop"
    <3>1. StartsBefore(t, n + 2) = StartsBefore(s, n + 1)
      BY <1>3, <2>5
    <3>2. ASSUME NEW k \in StartsBefore(t, n + 2)
          PROVE  n + 1 \in (k + 1)..((n + 2) - 1)
      BY <1>1, <2>2, <3>1
    <3> QED
      BY <1>1, <2>5, <3>2 DEF OpenBefore
  <2>6. CASE e.event \notin {"content_block_start", "content_block_stop"}
    <3>1. StartsBefore(t, n + 2) = StartsBefore(s, n + 1)
      BY <1>3, <2>6
    <3>2. ASSUME NEW k \in StartsBefore(s, n + 1)
          PROVE  (\A j \in (k + 1)..((n + 2) - 1) : t[j].event # "content_block_stop")
                   <=> (\A j \in (k + 1)..((n + 1) - 1) : s[j].event # "content_block_stop")
      <4>1. k \in 1..n /\ (k + 1)..((n + 1) - 1) = (k + 1)..n
            /\ (k + 1)..((n + 2) - 1) = ((k + 1)..n) \cup {n + 1}
        BY <1>1, <2>1, <2>2, <3>1
      <4> QED
        BY <1>1, <2>3, <2>6, <4>1
    <3> DEFINE P(k) == \A j \in (k + 1)..((n + 2) - 1) : t[j].event # "content_block_stop"
               Q(k) == \A j \in (k + 1)..((n + 1) - 1) : s[j].event # "content_block_stop"
    <3>3. OpenBefore(t, n + 2) = {k \in StartsBefore(s, n + 1) : P(k)}
      BY <3>1 DEF OpenBefore
    <3>4. OpenBefore(s, n + 1) = {k \in StartsBefore(s, n + 1) : Q(k)}
      BY DEF OpenBefore
    <3>5. \A k \in StartsBefore(s, n + 1) : P(k) <=> Q(k)
      BY <3>2
    <3> HIDE DEF P, Q
    <3> QED
      BY <2>6, <3>3, <3>4, <3>5
  <2> QED
    BY <2>4, <2>5, <2>6
<1>5. IsFiniteSet(StartsBefore(s, n + 1))
  <2>1. IsFiniteSet(1..((n + 1) - 1))
    BY <1>1, FS_Interval
  <2> QED
    BY <2>1, FS_Subset DEF StartsBefore
<1> QED
  BY <1>2, <1>3, <1>4, <1>5 DEF n, t

\* A frame keeps its place, whatever is said after it
LEMMA StaysPlaced ==
  ASSUME NEW s, IsSequence(s), NEW e, NEW i \in 1..Len(s), WellPlaced(s, i)
  PROVE  WellPlaced(Append(s, e), i)
<1> DEFINE t == Append(s, e)
<1>1. /\ Len(s) \in Nat
      /\ \A k \in 1..Len(s) : t[k] = s[k]
  BY Appended
<1>2. i \in 1..(Len(s) + 1)
  BY <1>1
<1>3. StartsBefore(t, i) = StartsBefore(s, i) /\ OpenBefore(t, i) = OpenBefore(s, i)
  BY <1>2, BlocksBefore
<1>4. t[i] = s[i] /\ \A k \in 1..(i - 1) : t[k] = s[k]
  BY <1>1
<1> HIDE DEF t
<1>5. WellPlaced(t, i)
  BY <1>3, <1>4 DEF WellPlaced
<1> QED
  BY <1>5 DEF t

Kinds == {"thinking", "text", "tool_use"}

\* What open, a reason or a name is when there is none.
Nothing == ""

\* The counter and the flag of the generator tell what its frames say.
BlockInv(frames, index, open) ==
  /\ index \in -1..Len(frames)
  /\ index + 1 = Cardinality(StartsBefore(frames, Len(frames) + 1))
  /\ open \in {Nothing} \cup Kinds
  /\ open = Nothing => OpenBefore(frames, Len(frames) + 1) = {}
  /\ open # Nothing =>
       \E k \in 1..Len(frames) : /\ OpenBefore(frames, Len(frames) + 1) = {k}
                                /\ frames[k].index = index
                                /\ frames[k].kind = open
  /\ \A i \in 1..Len(frames) : WellPlaced(frames, i)

Indifferent(frame, open) ==
  /\ frame.event \notin {"content_block_start", "content_block_delta", "content_block_stop"}
  /\ frame.event = "message_delta" => open = Nothing

\* A frame of another kind is indifferent to the blocks
LEMMA PlainSaid ==
  ASSUME NEW a, IsSequence(a), NEW index, NEW open, BlockInv(a, index, open),
         NEW f, Indifferent(f, open)
  PROVE  BlockInv(Append(a, f), index, open)
<1> DEFINE n == Len(a)
           b == Append(a, f)
<1>1. /\ n \in Nat /\ Len(b) = n + 1 /\ b[n + 1] = f
      /\ \A i \in 1..n : b[i] = a[i]
  BY Appended
<1> HIDE DEF n, b
<1>2. n + 1 \in 1..(n + 1) /\ Len(b) + 1 = n + 2 /\ 1..(n + 1) = (1..n) \cup {n + 1}
  BY <1>1
<1>3. /\ StartsBefore(b, n + 2) = StartsBefore(a, n + 1)
      /\ OpenBefore(b, n + 2) = OpenBefore(a, n + 1)
      /\ OpenBefore(b, n + 1) = OpenBefore(a, n + 1)
  BY <1>2, BlocksBefore DEF n, b, Indifferent
<1>4. \A i \in 1..n : WellPlaced(b, i)
  BY StaysPlaced DEF BlockInv, n, b
<1>5. WellPlaced(b, n + 1)
  BY <1>1, <1>3 DEF WellPlaced, BlockInv, n, Indifferent
<1>6. \A i \in 1..(n + 1) : WellPlaced(b, i)
  BY <1>2, <1>4, <1>5
<1>7. open # Nothing => \E k \in 1..(n + 1) : /\ OpenBefore(b, n + 2) = {k}
                                       /\ b[k].index = index
                                       /\ b[k].kind = open
  <2>1. SUFFICES ASSUME open # Nothing
                 PROVE  \E k \in 1..(n + 1) : /\ OpenBefore(b, n + 2) = {k}
                                             /\ b[k].index = index
                                             /\ b[k].kind = open
    OBVIOUS
  <2>2. PICK k \in 1..n : /\ OpenBefore(a, n + 1) = {k}
                          /\ a[k].index = index
                          /\ a[k].kind = open
    BY <2>1 DEF BlockInv, n
  <2>3. k \in 1..(n + 1) /\ b[k] = a[k]
    BY <1>1
  <2>4. OpenBefore(b, n + 2) = {k} /\ b[k].index = index /\ b[k].kind = open
    BY <1>3, <2>2, <2>3
  <2> QED
    BY <2>3, <2>4
<1>8. index \in -1..(n + 1) /\ index + 1 = Cardinality(StartsBefore(b, n + 2))
  <2>1. index \in -1..n /\ index + 1 = Cardinality(StartsBefore(a, n + 1))
    BY Zenon DEF BlockInv, n
  <2> QED
    BY <1>1, <1>3, <2>1
<1>9. open \in {Nothing} \cup Kinds /\ (open = Nothing => OpenBefore(b, n + 2) = {})
  BY <1>3 DEF BlockInv, n
<1>10. BlockInv(b, index, open)
  <2>1. Len(b) = n + 1 /\ Len(b) + 1 = n + 2
    BY <1>1, <1>2
  <2> QED
    BY <2>1, <1>6, <1>7, <1>8, <1>9 DEF BlockInv
<1> QED
  BY <1>10 DEF b

IsDelta(frame, index, open) ==
  frame.event = "content_block_delta" /\ frame.index = index /\ frame.kind = open

\* A piece of the block that is open
LEMMA DeltaSaid ==
  ASSUME NEW a, IsSequence(a), NEW index, NEW open, BlockInv(a, index, open), open # Nothing,
         NEW f, IsDelta(f, index, open)
  PROVE  BlockInv(Append(a, f), index, open)
<1> DEFINE n == Len(a)
           b == Append(a, f)
<1>1. /\ n \in Nat /\ Len(b) = n + 1 /\ b[n + 1] = f
      /\ \A i \in 1..n : b[i] = a[i]
  BY Appended
<1> HIDE DEF n, b
<1>2. n + 1 \in 1..(n + 1) /\ Len(b) + 1 = n + 2 /\ 1..(n + 1) = (1..n) \cup {n + 1}
      /\ (n + 1) - 1 = n
  BY <1>1
<1>3. /\ StartsBefore(b, n + 2) = StartsBefore(a, n + 1)
      /\ OpenBefore(b, n + 2) = OpenBefore(a, n + 1)
      /\ OpenBefore(b, n + 1) = OpenBefore(a, n + 1)
  BY <1>2, BlocksBefore DEF n, b, IsDelta
<1>4. \A i \in 1..n : WellPlaced(b, i)
  BY StaysPlaced DEF BlockInv, n, b
<1>5. PICK k \in 1..n : OpenBefore(a, n + 1) = {k} /\ a[k].index = index /\ a[k].kind = open
  BY DEF BlockInv, n
<1>6. k \in 1..(n + 1) /\ b[k] = a[k]
  BY <1>1
<1>7. OpenBefore(b, n + 2) = {k} /\ b[k].index = index /\ b[k].kind = open
  BY <1>3, <1>5, <1>6
<1>8. WellPlaced(b, n + 1)
  BY <1>1, <1>2, <1>3, <1>5, <1>7 DEF WellPlaced, IsDelta
<1>9. \A i \in 1..(n + 1) : WellPlaced(b, i)
  BY <1>2, <1>4, <1>8
<1>10. index \in -1..(n + 1) /\ index + 1 = Cardinality(StartsBefore(b, n + 2))
  <2>1. index \in -1..n /\ index + 1 = Cardinality(StartsBefore(a, n + 1))
    BY Zenon DEF BlockInv, n
  <2> QED
    BY <1>1, <1>3, <2>1
<1>11. open \in {Nothing} \cup Kinds
  BY DEF BlockInv
<1>12. BlockInv(b, index, open)
  <2>1. Len(b) = n + 1 /\ Len(b) + 1 = n + 2
    BY <1>1, <1>2
  <2> QED
    BY <2>1, <1>6, <1>7, <1>9, <1>10, <1>11 DEF BlockInv
<1> QED
  BY <1>12 DEF b

IsStop(frame, index) == frame.event = "content_block_stop" /\ frame.index = index

\* The end of the block that is open
LEMMA StopSaid ==
  ASSUME NEW a, IsSequence(a), NEW index, NEW open, BlockInv(a, index, open), open # Nothing,
         NEW f, IsStop(f, index)
  PROVE  BlockInv(Append(a, f), index, Nothing)
<1> DEFINE n == Len(a)
           b == Append(a, f)
<1>1. /\ n \in Nat /\ Len(b) = n + 1 /\ b[n + 1] = f
      /\ \A i \in 1..n : b[i] = a[i]
  BY Appended
<1> HIDE DEF n, b
<1>2. n + 1 \in 1..(n + 1) /\ Len(b) + 1 = n + 2 /\ 1..(n + 1) = (1..n) \cup {n + 1}
      /\ (n + 1) - 1 = n
  BY <1>1
<1>3. /\ StartsBefore(b, n + 2) = StartsBefore(a, n + 1)
      /\ OpenBefore(b, n + 2) = {}
      /\ OpenBefore(b, n + 1) = OpenBefore(a, n + 1)
  BY <1>2, BlocksBefore DEF n, b, IsStop
<1>4. \A i \in 1..n : WellPlaced(b, i)
  BY StaysPlaced DEF BlockInv, n, b
<1>5. PICK k \in 1..n : OpenBefore(a, n + 1) = {k} /\ a[k].index = index /\ a[k].kind = open
  BY DEF BlockInv, n
<1>6. b[k] = a[k]
  BY <1>1
<1>7. OpenBefore(b, n + 1) = {k} /\ b[k].index = index
  BY <1>3, <1>5, <1>6
<1>8. WellPlaced(b, n + 1)
  BY <1>1, <1>2, <1>5, <1>7 DEF WellPlaced, IsStop
<1>9. \A i \in 1..(n + 1) : WellPlaced(b, i)
  BY <1>2, <1>4, <1>8
<1>10. index \in -1..(n + 1) /\ index + 1 = Cardinality(StartsBefore(b, n + 2))
  <2>1. index \in -1..n /\ index + 1 = Cardinality(StartsBefore(a, n + 1))
    BY Zenon DEF BlockInv, n
  <2> QED
    BY <1>1, <1>3, <2>1
<1>11. BlockInv(b, index, Nothing)
  <2>1. Len(b) = n + 1 /\ Len(b) + 1 = n + 2
    BY <1>1, <1>2
  <2> QED
    BY <2>1, <1>3, <1>9, <1>10 DEF BlockInv
<1> QED
  BY <1>11 DEF b

IsStart(frame, index, open) ==
  frame.event = "content_block_start" /\ frame.index = index /\ frame.kind = open

\* The start of a block, when none is open
LEMMA StartSaid ==
  ASSUME NEW a, IsSequence(a), NEW index, BlockInv(a, index, Nothing), NEW open \in Kinds,
         NEW f, IsStart(f, index + 1, open)
  PROVE  BlockInv(Append(a, f), index + 1, open)
<1> DEFINE n == Len(a)
           b == Append(a, f)
<1>1. /\ n \in Nat /\ Len(b) = n + 1 /\ b[n + 1] = f
      /\ \A i \in 1..n : b[i] = a[i]
  BY Appended
<1> HIDE DEF n, b
<1>2. n + 1 \in 1..(n + 1) /\ Len(b) + 1 = n + 2 /\ 1..(n + 1) = (1..n) \cup {n + 1}
  BY <1>1
<1>3. /\ StartsBefore(b, n + 2) = StartsBefore(a, n + 1) \cup {n + 1}
      /\ OpenBefore(b, n + 2) = OpenBefore(a, n + 1) \cup {n + 1}
      /\ OpenBefore(b, n + 1) = OpenBefore(a, n + 1)
      /\ StartsBefore(b, n + 1) = StartsBefore(a, n + 1)
      /\ IsFiniteSet(StartsBefore(a, n + 1))
  BY <1>2, BlocksBefore DEF n, b, IsStart
<1>4. \A i \in 1..n : WellPlaced(b, i)
  BY StaysPlaced DEF BlockInv, n, b
<1>5. OpenBefore(a, n + 1) = {}
  BY DEF BlockInv, n
<1>6. index \in -1..n /\ index + 1 = Cardinality(StartsBefore(a, n + 1))
  BY Zenon DEF BlockInv, n
<1>7. WellPlaced(b, n + 1)
  BY <1>1, <1>3, <1>5, <1>6 DEF WellPlaced, IsStart
<1>8. \A i \in 1..(n + 1) : WellPlaced(b, i)
  BY <1>2, <1>4, <1>7
<1>9. Cardinality(StartsBefore(b, n + 2)) = Cardinality(StartsBefore(a, n + 1)) + 1
  <2>1. n + 1 \notin StartsBefore(a, n + 1)
    <3>1. n + 1 \notin 1..((n + 1) - 1)
      BY <1>1
    <3> QED
      BY <3>1 DEF StartsBefore
  <2> QED
    BY <1>3, <2>1, FS_AddElement
<1>10. index + 1 \in -1..(n + 1) /\ (index + 1) + 1 = Cardinality(StartsBefore(b, n + 2))
  BY <1>1, <1>6, <1>9
<1>11. OpenBefore(b, n + 2) = {n + 1} /\ b[n + 1].index = index + 1 /\ b[n + 1].kind = open
  BY <1>1, <1>3, <1>5 DEF IsStart
<1>12. BlockInv(b, index + 1, open)
  <2>1. Len(b) = n + 1 /\ Len(b) + 1 = n + 2 /\ n + 1 \in 1..(n + 1)
    BY <1>1, <1>2
  <2>2. open # Nothing /\ open \in {Nothing} \cup Kinds
    BY Zenon DEF Kinds, Nothing
  <2> QED
    BY <2>1, <2>2, <1>8, <1>10, <1>11 DEF BlockInv
<1> QED
  BY <1>12 DEF b

-----------------------------------------------------------------------------
(* What a generator adds to what it has said.                              *)

StateInv(s) == IsState(s) /\ BlockInv(s.frames, s.index, s.open)

Ends == {"final", "message_delta", "done"}
EndsNothing(frame) == frame.event \notin Ends
TellsNoCall(frame) ==
  /\ frame.event = "chunk" => frame.calls = <<>>
  /\ frame.event = "content_block_delta" => frame.kind # "tool_use"
IsNoChunk(frame) == frame.event # "chunk"

New(s, t) == (Len(s.frames) + 1)..Len(t.frames)

Adds(s, t) ==
  /\ Len(s.frames) \in Nat /\ Len(t.frames) \in Nat
  /\ Len(s.frames) <= Len(t.frames)
  /\ \A i \in 1..Len(s.frames) : t.frames[i] = s.frames[i]
  /\ t.finish = s.finish /\ t.usage = s.usage
  /\ t.calls = s.calls /\ t.content = s.content
Unended(s, t) == \A i \in New(s, t) : EndsNothing(t.frames[i])
Uncalled(s, t) == \A i \in New(s, t) : TellsNoCall(t.frames[i])
Unchunked(s, t) == \A i \in New(s, t) : IsNoChunk(t.frames[i])

LEMMA AddsNothing ==
  ASSUME NEW s, IsState(s)
  PROVE  Adds(s, s) /\ Unended(s, s) /\ Uncalled(s, s) /\ Unchunked(s, s)
<1>1. Len(s.frames) \in Nat
  BY Appended DEF IsState
<1>2. New(s, s) = {}
  BY <1>1 DEF New
<1> QED
  BY <1>1, <1>2 DEF Adds, Unended, Uncalled, Unchunked

LEMMA AddsOne ==
  ASSUME NEW s, IsState(s), NEW f, NEW t, t.frames = Append(s.frames, f),
         t.finish = s.finish, t.usage = s.usage, t.calls = s.calls, t.content = s.content
  PROVE  /\ Adds(s, t)
         /\ New(s, t) = {Len(s.frames) + 1} /\ t.frames[Len(s.frames) + 1] = f
         /\ EndsNothing(f) => Unended(s, t)
         /\ TellsNoCall(f) => Uncalled(s, t)
         /\ IsNoChunk(f) => Unchunked(s, t)
<1>1. /\ Len(s.frames) \in Nat /\ Len(t.frames) = Len(s.frames) + 1
      /\ t.frames[Len(s.frames) + 1] = f
      /\ \A i \in 1..Len(s.frames) : t.frames[i] = s.frames[i]
  BY Appended DEF IsState
<1>2. New(s, t) = {Len(s.frames) + 1}
  BY <1>1 DEF New
<1> QED
  BY <1>1, <1>2 DEF Adds, Unended, Uncalled, Unchunked

LEMMA AddsMore ==
  ASSUME NEW s, NEW t, NEW u, Adds(s, t), Adds(t, u)
  PROVE  /\ Adds(s, u)
         /\ Unended(s, t) /\ Unended(t, u) => Unended(s, u)
         /\ Uncalled(s, t) /\ Uncalled(t, u) => Uncalled(s, u)
         /\ Unchunked(s, t) /\ Unchunked(t, u) => Unchunked(s, u)
<1>1. Adds(s, u)
  BY DEF Adds
<1>2. ASSUME NEW i \in New(s, u)
      PROVE  (i \in New(s, t) /\ u.frames[i] = t.frames[i]) \/ i \in New(t, u)
  BY DEF Adds, New
<1> QED
  BY <1>1, <1>2 DEF Unended, Uncalled, Unchunked

LEMMA BlockClosed ==
  ASSUME NEW s, StateInv(s), NEW t, t = close_block(s)
  PROVE  /\ StateInv(t) /\ t.open = Nothing /\ t.index = s.index
         /\ Adds(s, t) /\ Unended(s, t) /\ Uncalled(s, t) /\ Unchunked(s, t)
<1> DEFINE f == [event |-> "content_block_stop", index |-> s.index]
           u == Say(s, f)
<1>1. t = IF s.open = Nothing THEN s ELSE [u EXCEPT !.open = Nothing]
  BY Zenon DEF close_block, Nothing
<1>2. CASE s.open = Nothing
  BY <1>1, <1>2, AddsNothing DEF StateInv
<1>3. CASE s.open # Nothing
  <2>1. /\ IsState(u) /\ u.frames = Append(s.frames, f) /\ u.index = s.index
        /\ u.finish = s.finish /\ u.usage = s.usage
        /\ u.calls = s.calls /\ u.content = s.content
    BY Said DEF StateInv
  <2>2. IsStop(f, s.index) /\ EndsNothing(f) /\ TellsNoCall(f) /\ IsNoChunk(f)
    BY DEF IsStop, EndsNothing, Ends, TellsNoCall, IsNoChunk
  <2> HIDE DEF f, u
  <2>3. t = [u EXCEPT !.open = Nothing]
    BY <1>1, <1>3
  <2>4. t = Locals(u.frames, u.finish, u.usage, u.calls, u.content, u.index, Nothing)
    BY <2>1, <2>3, Reopened
  <2>5. /\ IsState(t) /\ t.frames = Append(s.frames, f) /\ t.index = s.index
        /\ t.open = Nothing /\ t.finish = s.finish /\ t.usage = s.usage
        /\ t.calls = s.calls /\ t.content = s.content
    BY <2>1, <2>4, LocalsFields DEF IsState
  <2>6. BlockInv(t.frames, t.index, t.open)
    BY <1>3, <2>2, <2>5, StopSaid DEF StateInv, IsState
  <2>7. Adds(s, t) /\ Unended(s, t) /\ Uncalled(s, t) /\ Unchunked(s, t)
    BY <2>2, <2>5, AddsOne DEF StateInv
  <2> QED
    BY <2>5, <2>6, <2>7 DEF StateInv
<1> QED
  BY <1>2, <1>3

LEMMA BlockOpened ==
  ASSUME NEW s, StateInv(s), NEW kind \in Kinds, NEW call, NEW t, t = OpenBlock(s, kind, call)
  PROVE  /\ StateInv(t) /\ t.open = kind
         /\ Adds(s, t) /\ Unended(s, t) /\ Uncalled(s, t) /\ Unchunked(s, t)
<1> DEFINE c == close_block(s)
           d == [c EXCEPT !.index = @ + 1, !.open = kind]
           f == BlockStart(kind, s.index + 1, call)
<1>1. /\ StateInv(c) /\ c.open = Nothing /\ c.index = s.index
      /\ Adds(s, c) /\ Unended(s, c) /\ Uncalled(s, c) /\ Unchunked(s, c)
  BY BlockClosed
<1>2. t = Say(d, f)
  BY DEF OpenBlock
<1>3. /\ IsStart(f, s.index + 1, kind)
      /\ EndsNothing(f) /\ TellsNoCall(f) /\ IsNoChunk(f)
  BY DEF BlockStart, IsStart, EndsNothing, Ends, TellsNoCall, IsNoChunk
<1> HIDE DEF c, f
<1>4. d = Locals(c.frames, c.finish, c.usage, c.calls, c.content, c.index + 1, kind)
  BY <1>1, Reopened DEF StateInv
<1>5. /\ IsState(d) /\ d.frames = c.frames /\ d.index = s.index + 1 /\ d.open = kind
      /\ d.finish = c.finish /\ d.usage = c.usage /\ d.calls = c.calls /\ d.content = c.content
  BY <1>1, <1>4, LocalsFields DEF IsState, StateInv
<1> HIDE DEF d
<1>6. /\ IsState(t) /\ t.frames = Append(c.frames, f) /\ t.index = s.index + 1 /\ t.open = kind
      /\ t.finish = c.finish /\ t.usage = c.usage /\ t.calls = c.calls /\ t.content = c.content
  BY <1>2, <1>5, Said
<1>7. BlockInv(t.frames, t.index, t.open)
  BY <1>1, <1>3, <1>6, StartSaid DEF StateInv, IsState
<1>8. Adds(c, t) /\ Unended(c, t) /\ Uncalled(c, t) /\ Unchunked(c, t)
  BY <1>1, <1>3, <1>6, AddsOne DEF StateInv
<1> QED
  BY <1>1, <1>6, <1>7, <1>8, AddsMore DEF StateInv

LEMMA DeltaTold ==
  ASSUME NEW s, StateInv(s), s.open # Nothing, NEW payload, NEW t, t = BlockDelta(s, payload)
  PROVE  /\ StateInv(t) /\ t.open = s.open
         /\ Adds(s, t) /\ Unended(s, t) /\ Unchunked(s, t)
         /\ s.open # "tool_use" => Uncalled(s, t)
<1> DEFINE f == [event |-> "content_block_delta", index |-> s.index, kind |-> s.open,
                 delta |-> payload]
<1>1. t = Say(s, f)
  BY DEF BlockDelta
<1>2. /\ IsDelta(f, s.index, s.open) /\ EndsNothing(f) /\ IsNoChunk(f)
      /\ s.open # "tool_use" => TellsNoCall(f)
  BY DEF IsDelta, EndsNothing, Ends, TellsNoCall, IsNoChunk
<1> HIDE DEF f
<1>3. /\ IsState(t) /\ t.frames = Append(s.frames, f) /\ t.index = s.index /\ t.open = s.open
      /\ t.finish = s.finish /\ t.usage = s.usage /\ t.calls = s.calls /\ t.content = s.content
  BY <1>1, Said DEF StateInv
<1>4. BlockInv(t.frames, t.index, t.open)
  BY <1>2, <1>3, DeltaSaid DEF StateInv, IsState
<1>5. Adds(s, t) /\ Unended(s, t) /\ Unchunked(s, t) /\ (s.open # "tool_use" => Uncalled(s, t))
  BY <1>2, <1>3, AddsOne DEF StateInv
<1> QED
  BY <1>3, <1>4, <1>5 DEF StateInv

LEMMA PieceTold ==
  ASSUME NEW s, StateInv(s), NEW kind \in {"thinking", "text"}, NEW text,
         NEW t, t = ToldPiece(s, kind, text)
  PROVE  StateInv(t) /\ Adds(s, t) /\ Unended(s, t) /\ Uncalled(s, t) /\ Unchunked(s, t)
<1>1. CASE text = <<>>
  <2>1. t = s
    BY <1>1 DEF ToldPiece
  <2> QED
    BY <2>1, AddsNothing DEF StateInv
<1>2. CASE text # <<>>
  <2> DEFINE u == IF s.open = kind THEN s ELSE OpenBlock(s, kind, NoCall)
  <2>1. t = BlockDelta(u, text)
    BY <1>2 DEF ToldPiece
  <2>2. kind \in Kinds /\ kind # Nothing /\ kind # "tool_use"
    BY Zenon DEF Kinds, Nothing
  <2>3. StateInv(u) /\ u.open = kind /\ Adds(s, u) /\ Unended(s, u) /\ Uncalled(s, u) /\ Unchunked(s, u)
    <3>1. CASE s.open = kind
      BY <3>1, AddsNothing DEF StateInv
    <3>2. CASE s.open # kind
      BY <2>2, <3>2, BlockOpened
    <3> QED
      BY <3>1, <3>2
  <2> HIDE DEF u
  <2>4. StateInv(t) /\ Adds(u, t) /\ Unended(u, t) /\ Uncalled(u, t) /\ Unchunked(u, t)
    BY <2>1, <2>2, <2>3, DeltaTold
  <2> QED
    BY <2>3, <2>4, AddsMore
<1> QED
  BY <1>1, <1>2

LEMMA CallTold ==
  ASSUME NEW s, StateInv(s), NEW call, NEW t, t = ToldCall(s, call)
  PROVE  StateInv(t) /\ Adds(s, t) /\ Unended(s, t) /\ Unchunked(s, t)
<1> DEFINE u == OpenBlock(s, "tool_use", call)
<1>1. "tool_use" \in Kinds /\ "tool_use" # Nothing
  BY Zenon DEF Kinds, Nothing
<1>2. StateInv(u) /\ u.open = "tool_use" /\ Adds(s, u) /\ Unended(s, u) /\ Unchunked(s, u)
  BY <1>1, BlockOpened
<1>3. t = BlockDelta(u, Dumped(call.arguments))
  BY DEF ToldCall
<1> HIDE DEF u
<1>4. StateInv(t) /\ Adds(u, t) /\ Unended(u, t) /\ Unchunked(u, t)
  BY <1>1, <1>2, <1>3, DeltaTold
<1> QED
  BY <1>2, <1>4, AddsMore

\* Two calls at most: the indices of a stream are those of Begun
LEMMA BlocksTold ==
  ASSUME NEW s, StateInv(s), NEW delta, Len(delta.calls) \in 0..2,
         NEW t, t = ToldBlocks(s, delta)
  PROVE  /\ StateInv(t) /\ Adds(s, t) /\ Unended(s, t) /\ Unchunked(s, t)
         /\ Len(delta.calls) = 0 => Uncalled(s, t)
<1> DEFINE a == ToldPiece(s, "thinking", delta.reasoning)
           b == ToldPiece(a, "text", delta.text)
           n == Len(delta.calls)
           Next1(f) == [k \in 0..n |-> IF k = 0 THEN b ELSE ToldCall(f[k - 1], delta.calls[k])]
           told == CHOOSE f : f = Next1(f)
           one == ToldCall(b, delta.calls[1])
           two == ToldCall(one, delta.calls[2])
           g == [k \in 0..n |-> IF k = 0 THEN b ELSE IF k = 1 THEN one ELSE two]
<1>1. StateInv(a) /\ Adds(s, a) /\ Unended(s, a) /\ Uncalled(s, a) /\ Unchunked(s, a)
  BY PieceTold
<1>2. StateInv(b) /\ Adds(a, b) /\ Unended(a, b) /\ Uncalled(a, b) /\ Unchunked(a, b)
  BY <1>1, PieceTold
<1>3. StateInv(b) /\ Adds(s, b) /\ Unended(s, b) /\ Uncalled(s, b) /\ Unchunked(s, b)
  BY <1>1, <1>2, AddsMore
<1>4. StateInv(one) /\ Adds(b, one) /\ Unended(b, one) /\ Unchunked(b, one)
  BY <1>3, CallTold
<1>5. StateInv(two) /\ Adds(one, two) /\ Unended(one, two) /\ Unchunked(one, two)
  BY <1>4, CallTold
<1>6. t = told[n]
  BY DEF ToldBlocks
<1>7. told = Next1(told)
  <2>1. g = Next1(g)
    <3>1. \A k \in 0..n : k = 0 \/ (k = 1 /\ k - 1 = 0 /\ k - 1 \in 0..n)
                                \/ (k = 2 /\ k - 1 = 1 /\ k - 1 \in 0..n)
      <4>1. n \in {0, 1, 2}
        OBVIOUS
      <4> HIDE DEF n
      <4> QED
        BY <4>1
    <3> HIDE DEF a, b, n
    <3> QED
      BY <3>1
  <2> HIDE DEF g, Next1
  <2> QED
    BY <2>1
<1> HIDE DEF a, b, told
<1>8. CASE n = 0
  BY <1>3, <1>6, <1>7, <1>8
<1>9. CASE n = 1
  BY <1>3, <1>4, <1>6, <1>7, <1>9, AddsMore
<1>10. CASE n = 2
  BY <1>3, <1>4, <1>5, <1>6, <1>7, <1>10, AddsMore
<1> QED
  BY <1>8, <1>9, <1>10

-----------------------------------------------------------------------------
(* A delta is noted, and then told.                                        *)

NotedFinish(delta) == IF delta.finish # Nothing THEN delta.finish ELSE answer.finish
NotedUsage(delta) == IF delta.usage # <<>> THEN delta.usage ELSE answer.usage
NotedCalls(delta) == IF delta.calls # <<>> THEN delta.calls ELSE answer.calls
NotedContent(delta) ==
  answer.content \o Block("reasoning", delta.reasoning) \o Block("text", delta.text)

LEMMA DeltaNoted ==
  ASSUME IsState(answer), NEW delta, NEW t, t = Noted(delta)
  PROVE  /\ IsState(t) /\ t.frames = answer.frames
         /\ t.index = answer.index /\ t.open = answer.open
         /\ t.finish = NotedFinish(delta) /\ t.usage = NotedUsage(delta)
         /\ t.calls = NotedCalls(delta) /\ t.content = NotedContent(delta)
<1> DEFINE a == answer.frames
           b == answer.finish
           c == answer.usage
           d == answer.calls
           e == answer.content
           g == answer.index
           h == answer.open
           b1 == NotedFinish(delta)
           c1 == NotedUsage(delta)
           d1 == NotedCalls(delta)
           e1 == NotedContent(delta)
           t1 == [answer EXCEPT !.finish = b1]
           t2 == [t1 EXCEPT !.usage = c1]
           t3 == [t2 EXCEPT !.calls = d1]
<1>1. answer = Locals(a, b, c, d, e, g, h) /\ IsSequence(a)
  BY DEF IsState
<1>2. t = [t3 EXCEPT !.content = e1]
  BY Zenon DEF Noted, NotedFinish, NotedUsage, NotedCalls, NotedContent, Nothing
<1> HIDE DEF a, b, c, d, e, g, h, b1, c1, d1, e1
<1>3. t1 = Locals(a, b1, c, d, e, g, h)
  BY <1>1, FinishAssigned
<1> HIDE DEF t1
<1>4. t2 = Locals(a, b1, c1, d, e, g, h)
  BY <1>3, UsageAssigned
<1> HIDE DEF t2
<1>5. t3 = Locals(a, b1, c1, d1, e, g, h)
  BY <1>4, CallsAssigned
<1> HIDE DEF t3
<1>6. t = Locals(a, b1, c1, d1, e1, g, h)
  BY <1>2, <1>5, ContentAssigned
<1>7. /\ IsState(t) /\ t.frames = a /\ t.index = g /\ t.open = h /\ t.finish = b1 /\ t.usage = c1
      /\ t.calls = d1 /\ t.content = e1
  BY <1>1, <1>6, LocalsFields DEF IsState
<1> QED
  BY <1>7 DEF a, g, h, b1, c1, d1, e1

OneChunk(s, t) == \A i, k \in New(s, t) : ~IsNoChunk(t.frames[i]) /\ ~IsNoChunk(t.frames[k]) => i = k

\* A frame that is indifferent to the blocks, whatever generator says it
LEMMA FrameTold ==
  ASSUME NEW s, StateInv(s), NEW f, Indifferent(f, s.open), EndsNothing(f), NEW t, t = Say(s, f)
  PROVE  /\ StateInv(t) /\ t.index = s.index /\ t.open = s.open
         /\ Adds(s, t) /\ Unended(s, t) /\ OneChunk(s, t)
         /\ TellsNoCall(f) => Uncalled(s, t)
         /\ IsNoChunk(f) => Unchunked(s, t)
<1>1. /\ IsState(t) /\ t.frames = Append(s.frames, f) /\ t.index = s.index /\ t.open = s.open
      /\ t.finish = s.finish /\ t.usage = s.usage /\ t.calls = s.calls /\ t.content = s.content
  BY Said DEF StateInv
<1>2. BlockInv(t.frames, t.index, t.open)
  BY <1>1, PlainSaid DEF StateInv, IsState
<1>3. /\ Adds(s, t) /\ New(s, t) = {Len(s.frames) + 1} /\ Unended(s, t)
      /\ TellsNoCall(f) => Uncalled(s, t)
      /\ IsNoChunk(f) => Unchunked(s, t)
  BY <1>1, AddsOne DEF StateInv
<1>4. OneChunk(s, t)
  BY <1>3 DEF OneChunk
<1> QED
  BY <1>1, <1>2, <1>3, <1>4 DEF StateInv

LEMMA SilenceTold ==
  ASSUME NEW s, StateInv(s)
  PROVE  Adds(s, s) /\ Unended(s, s) /\ OneChunk(s, s) /\ Uncalled(s, s) /\ Unchunked(s, s)
BY AddsNothing DEF StateInv, OneChunk, Unchunked

LEMMA ChunkTold ==
  ASSUME NEW s, StateInv(s), NEW text, NEW reasoning, NEW calls,
         NEW t, t = ToldChunk(s, text, reasoning, calls)
  PROVE  /\ StateInv(t) /\ t.index = s.index /\ t.open = s.open
         /\ Adds(s, t) /\ Unended(s, t) /\ OneChunk(s, t)
         /\ calls = <<>> => Uncalled(s, t)
<1> DEFINE f == Chunk(text, reasoning, calls)
<1>1. t = s \/ t = Say(s, f)
  BY DEF ToldChunk
<1>2. Indifferent(f, s.open) /\ EndsNothing(f) /\ (calls = <<>> => TellsNoCall(f))
  BY DEF Chunk, Indifferent, EndsNothing, Ends, TellsNoCall
<1> HIDE DEF f
<1> QED
  BY <1>1, <1>2, FrameTold, SilenceTold

LEMMA GenerateTold ==
  ASSUME NEW s, StateInv(s), NEW delta, NEW t, t = ToldGenerate(s, delta)
  PROVE  /\ StateInv(t) /\ t.index = s.index /\ t.open = s.open
         /\ Adds(s, t) /\ Unended(s, t) /\ OneChunk(s, t) /\ Uncalled(s, t)
<1> DEFINE f == Chunk(delta.text, delta.reasoning, <<>>)
<1>1. t = s \/ t = Say(s, f)
  BY DEF ToldGenerate
<1>2. Indifferent(f, s.open) /\ EndsNothing(f) /\ TellsNoCall(f)
  BY DEF Chunk, Indifferent, EndsNothing, Ends, TellsNoCall
<1> HIDE DEF f
<1> QED
  BY <1>1, <1>2, FrameTold, SilenceTold

LEMMA EventTold ==
  ASSUME NEW s, StateInv(s), NEW event \in {"reasoning.delta", "text.delta"}, NEW text,
         NEW t, t = ToldEvent(s, event, text)
  PROVE  /\ StateInv(t) /\ t.index = s.index /\ t.open = s.open
         /\ Adds(s, t) /\ Unended(s, t) /\ Unchunked(s, t) /\ Uncalled(s, t)
<1> DEFINE f == [event |-> event, text |-> text]
<1>1. t = s \/ t = Say(s, f)
  BY DEF ToldEvent
<1>2. Indifferent(f, s.open) /\ EndsNothing(f) /\ TellsNoCall(f) /\ IsNoChunk(f)
  BY DEF Indifferent, EndsNothing, Ends, TellsNoCall, IsNoChunk
<1> HIDE DEF f
<1> QED
  BY <1>1, <1>2, FrameTold, SilenceTold

\* What every generator does with a delta
LEMMA AnyDeltaTold ==
  ASSUME StateInv(answer), facade \in Facades, NEW delta, Len(delta.calls) \in 0..2,
         NEW u, u = Noted(delta), NEW t, t = Told(delta)
  PROVE  /\ StateInv(t) /\ u.frames = answer.frames
         /\ facade # "anthropic" => (t.index = answer.index /\ t.open = answer.open)
         /\ t.finish = NotedFinish(delta) /\ t.usage = NotedUsage(delta)
         /\ t.calls = NotedCalls(delta) /\ t.content = NotedContent(delta)
         /\ Adds(u, t) /\ Unended(u, t) /\ OneChunk(u, t)
         /\ delta.calls = <<>> => Uncalled(u, t)
<1>1. /\ StateInv(u) /\ u.frames = answer.frames
      /\ u.index = answer.index /\ u.open = answer.open
      /\ u.finish = NotedFinish(delta) /\ u.usage = NotedUsage(delta)
      /\ u.calls = NotedCalls(delta) /\ u.content = NotedContent(delta)
  BY DeltaNoted DEF StateInv
<1>2. Adds(u, t) => /\ t.finish = u.finish /\ t.usage = u.usage
                   /\ t.calls = u.calls /\ t.content = u.content
  BY DEF Adds
<1> SUFFICES /\ StateInv(t)
             /\ facade # "anthropic" => (t.index = u.index /\ t.open = u.open)
             /\ Adds(u, t) /\ Unended(u, t) /\ OneChunk(u, t)
             /\ delta.calls = <<>> => Uncalled(u, t)
  BY <1>1, <1>2
<1>3. CASE facade \in {"ollama_chat", "openai"}
  <2>1. t = ToldChunk(u, delta.text, delta.reasoning, delta.calls)
    BY <1>3 DEF Told
  <2> QED
    BY <1>1, <2>1, ChunkTold
<1>4. CASE facade = "ollama_generate"
  <2>1. t = ToldGenerate(u, delta)
    BY <1>4 DEF Told
  <2> QED
    BY <1>1, <2>1, GenerateTold
<1>5. CASE facade = "completions"
  <2>1. t = ToldChunk(u, delta.text, <<>>, <<>>)
    BY <1>5 DEF Told
  <2> QED
    BY <1>1, <2>1, ChunkTold
<1>6. CASE facade = "anthropic"
  <2>1. t = ToldBlocks(u, delta)
    BY <1>6 DEF Told
  <2>2. /\ StateInv(t) /\ Adds(u, t) /\ Unended(u, t) /\ Unchunked(u, t)
        /\ Len(delta.calls) = 0 => Uncalled(u, t)
    BY <1>1, <2>1, BlocksTold
  <2>3. delta.calls = <<>> => Len(delta.calls) = 0
    OBVIOUS
  <2>4. OneChunk(u, t)
    BY <2>2 DEF OneChunk, Unchunked
  <2> QED
    BY <1>6, <2>2, <2>3, <2>4
<1>7. CASE facade = "responses"
  <2> DEFINE a == ToldEvent(u, "reasoning.delta", delta.reasoning)
  <2>1. t = ToldEvent(a, "text.delta", delta.text)
    BY <1>7 DEF Told
  <2>2. /\ StateInv(a) /\ a.index = u.index /\ a.open = u.open
        /\ Adds(u, a) /\ Unended(u, a) /\ Unchunked(u, a) /\ Uncalled(u, a)
    BY <1>1, EventTold
  <2> HIDE DEF a
  <2>3. /\ StateInv(t) /\ t.index = a.index /\ t.open = a.open
        /\ Adds(a, t) /\ Unended(a, t) /\ Unchunked(a, t) /\ Uncalled(a, t)
    BY <2>1, <2>2, EventTold
  <2>4. Adds(u, t) /\ Unended(u, t) /\ Unchunked(u, t) /\ Uncalled(u, t)
    BY <2>2, <2>3, AddsMore
  <2>5. OneChunk(u, t)
    BY <2>4 DEF OneChunk, Unchunked
  <2> QED
    BY <2>2, <2>3, <2>4, <2>5
<1> QED
  BY <1>3, <1>4, <1>5, <1>6, <1>7 DEF Facades

-----------------------------------------------------------------------------
(* The closing events.                                                     *)

Unclosed(s) == \A i \in 1..Len(s.frames) : EndsNothing(s.frames[i])

IsDone(frame) == frame.event = "done"
Undone(s) == \A i \in 1..Len(s.frames) : ~IsDone(s.frames[i])
DoneLast(s) ==
  /\ Len(s.frames) \in Nat \ {0}
  /\ IsDone(s.frames[Len(s.frames)])
  /\ \A i \in 1..(Len(s.frames) - 1) : ~IsDone(s.frames[i])

LEMMA EndTold ==
  ASSUME NEW s, StateInv(s), Undone(s), NEW f, Indifferent(f, s.open), TellsNoCall(f),
         IsNoChunk(f), NEW t, t = Say(s, f)
  PROVE  /\ StateInv(t) /\ t.index = s.index /\ t.open = s.open
         /\ Adds(s, t) /\ Uncalled(s, t) /\ Unchunked(s, t)
         /\ IF IsDone(f) THEN DoneLast(t) ELSE Undone(t)
<1>1. /\ IsState(t) /\ t.frames = Append(s.frames, f) /\ t.index = s.index /\ t.open = s.open
      /\ t.finish = s.finish /\ t.usage = s.usage /\ t.calls = s.calls /\ t.content = s.content
  BY Said DEF StateInv
<1>2. BlockInv(t.frames, t.index, t.open)
  BY <1>1, PlainSaid DEF StateInv, IsState
<1>3. Adds(s, t) /\ Uncalled(s, t) /\ Unchunked(s, t)
  BY <1>1, AddsOne DEF StateInv
<1>4. /\ Len(s.frames) \in Nat /\ Len(t.frames) = Len(s.frames) + 1
      /\ t.frames[Len(s.frames) + 1] = f
      /\ \A i \in 1..Len(s.frames) : t.frames[i] = s.frames[i]
  BY <1>1, Appended DEF StateInv, IsState
<1>5. IF IsDone(f) THEN DoneLast(t) ELSE Undone(t)
  <2>1. \A i \in 1..Len(s.frames) : ~IsDone(t.frames[i])
    BY <1>4 DEF Undone
  <2>2. /\ Len(t.frames) \in Nat \ {0} /\ Len(t.frames) - 1 = Len(s.frames)
        /\ t.frames[Len(t.frames)] = f
        /\ \A i \in 1..Len(t.frames) : i \in 1..Len(s.frames) \/ i = Len(t.frames)
    BY <1>4
  <2> QED
    BY <2>1, <2>2 DEF DoneLast, Undone
<1> QED
  BY <1>1, <1>2, <1>3, <1>5 DEF StateInv

LEMMA StaysUnended ==
  ASSUME NEW s, Unclosed(s), NEW t, Adds(s, t), Unended(s, t)
  PROVE  Unclosed(t) /\ Undone(t)
<1>1. ASSUME NEW i \in 1..Len(t.frames)
      PROVE  (i \in 1..Len(s.frames) /\ t.frames[i] = s.frames[i]) \/ i \in New(s, t)
  BY DEF Adds, New
<1>2. Unclosed(t)
  BY <1>1 DEF Unclosed, Unended
<1>3. \A f : EndsNothing(f) => ~IsDone(f)
  BY DEF EndsNothing, Ends, IsDone
<1> QED
  BY <1>2, <1>3 DEF Unclosed, Undone

LEMMA AnyClosing ==
  ASSUME NEW s, StateInv(s), Unclosed(s), facade \in Facades, NEW t, t = Closing(s)
  PROVE  /\ StateInv(t) /\ DoneLast(t)
         /\ facade # "anthropic" => (t.index = s.index /\ t.open = s.open)
         /\ Adds(s, t) /\ Uncalled(s, t) /\ Unchunked(s, t)
<1>1. Undone(s)
  BY AddsNothing, StaysUnended DEF StateInv
\* the last event, after what comes before it
<1>2. ASSUME NEW u, StateInv(u), Undone(u), NEW f, IsDone(f), t = Say(u, f),
             Adds(s, u), Uncalled(s, u), Unchunked(s, u)
      PROVE  /\ StateInv(t) /\ DoneLast(t) /\ t.index = u.index /\ t.open = u.open
             /\ Adds(s, t) /\ Uncalled(s, t) /\ Unchunked(s, t)
  <2>1. Indifferent(f, u.open) /\ TellsNoCall(f) /\ IsNoChunk(f)
    BY <1>2 DEF Indifferent, TellsNoCall, IsNoChunk, IsDone
  <2>2. /\ StateInv(t) /\ DoneLast(t) /\ t.index = u.index /\ t.open = u.open
        /\ Adds(u, t) /\ Uncalled(u, t) /\ Unchunked(u, t)
    BY <1>2, <2>1, EndTold
  <2> QED
    BY <1>2, <2>2, AddsMore
<1>3. CASE facade \in {"ollama_chat", "ollama_generate", "responses"}
  <2>1. PICK x : t = Say(s, [event |-> "done", final |-> x])
    BY <1>3 DEF Closing
  <2>2. IsDone([event |-> "done", final |-> x])
    BY DEF IsDone
  <2>3. Adds(s, s) /\ Uncalled(s, s) /\ Unchunked(s, s)
    BY AddsNothing DEF StateInv
  <2> QED
    BY <1>1, <1>2, <2>1, <2>2, <2>3
<1>4. CASE facade \in {"openai", "completions"}
  <2>1. PICK f : t = Say(Say(s, f), [event |-> "done"]) /\ f.event = "final"
    <3>1. CASE facade = "openai"
      <4> DEFINE f == [event |-> "final", finish |-> to_openai(s.finish), usage |-> s.usage]
      <4>1. t = Say(Say(s, f), [event |-> "done"])
        BY <3>1 DEF Closing
      <4> QED
        BY <4>1
    <3>2. CASE facade = "completions"
      <4> DEFINE f == [event |-> "final", finish |-> to_openai(s.finish)]
      <4>1. t = Say(Say(s, f), [event |-> "done"])
        BY <3>2 DEF Closing
      <4> QED
        BY <4>1
    <3> QED
      BY <1>4, <3>1, <3>2
  <2> DEFINE u == Say(s, f)
  <2>2. Indifferent(f, s.open) /\ TellsNoCall(f) /\ IsNoChunk(f) /\ ~IsDone(f)
    BY <2>1 DEF Indifferent, TellsNoCall, IsNoChunk, IsDone
  <2>3. /\ StateInv(u) /\ Undone(u) /\ u.index = s.index /\ u.open = s.open
        /\ Adds(s, u) /\ Uncalled(s, u) /\ Unchunked(s, u)
    BY <1>1, <2>2, EndTold
  <2>4. IsDone([event |-> "done"]) /\ t = Say(u, [event |-> "done"])
    BY <2>1 DEF IsDone
  <2> HIDE DEF u
  <2> QED
    BY <1>2, <2>3, <2>4
<1>5. CASE facade = "anthropic"
  <2> DEFINE c == close_block(s)
             f == [event |-> "message_delta", finish |-> to_anthropic(s.finish),
                   output_tokens |-> Counted(s.usage)[2]]
             u == Say(c, f)
  <2>1. t = Say(u, [event |-> "done"])
    BY <1>5 DEF Closing
  <2>2. /\ StateInv(c) /\ c.open = Nothing
        /\ Adds(s, c) /\ Unended(s, c) /\ Uncalled(s, c) /\ Unchunked(s, c)
    BY BlockClosed
  <2>3. Undone(c)
    BY <2>2, StaysUnended
  <2> HIDE DEF c
  <2>4. Indifferent(f, c.open) /\ TellsNoCall(f) /\ IsNoChunk(f) /\ ~IsDone(f)
    BY <2>2 DEF Indifferent, TellsNoCall, IsNoChunk, IsDone
  <2> HIDE DEF f
  <2>5. StateInv(u) /\ Undone(u) /\ Adds(c, u) /\ Uncalled(c, u) /\ Unchunked(c, u)
    BY <2>2, <2>3, <2>4, EndTold
  <2>6. Adds(s, u) /\ Uncalled(s, u) /\ Unchunked(s, u)
    BY <2>2, <2>5, AddsMore
  <2>7. IsDone([event |-> "done"])
    BY DEF IsDone
  <2> HIDE DEF u
  <2> QED
    BY <1>2, <1>5, <2>1, <2>5, <2>6, <2>7
<1> QED
  BY <1>3, <1>4, <1>5 DEF Facades

-----------------------------------------------------------------------------
(* The chunks, and the assembler.                                          *)

Ids == {"", "c1", "c2"}
Names == {"", "f", "g"}
Reasons == {"stop", "length", "tool_calls"}

FragmentOK(fragment) == fragment.index \in 0..1 /\ fragment.id \in Ids /\ fragment.name \in Names
FragmentsOK(fragments) == \A i \in DOMAIN fragments : FragmentOK(fragments[i])
SlotsOK(f) == DOMAIN f \subseteq 0..1 /\ \A i \in DOMAIN f : f[i].id \in Ids /\ f[i].name \in Names

\* What a chunk may be; a chunk of content or of usage gives no reason.
ChunkOK(chunk) == FragmentsOK(chunk.fragments) /\ chunk.usage \in {<<>>, <<11, 7>>}
IsMute(chunk) == chunk.finish = Nothing /\ chunk.fragments = <<>>

\* Silence without its empty text, which is a name here
LEMMA SilenceFields ==
  Silence = [text |-> <<>>, reasoning |-> <<>>, fragments |-> <<>>, finish |-> Nothing, usage |-> <<>>]
BY Zenon DEF Silence, Nothing

LEMMA ChunkFields ==
  ASSUME NEW n, NEW s,
         s = [text |-> <<>>, reasoning |-> <<>>, fragments |-> <<>>, finish |-> n, usage |-> <<>>],
         NEW x, NEW y
  PROVE  /\ [s EXCEPT !.text = x].fragments = <<>> /\ [s EXCEPT !.text = x].usage = <<>>
         /\ [s EXCEPT !.reasoning = x].fragments = <<>> /\ [s EXCEPT !.reasoning = x].usage = <<>>
         /\ [s EXCEPT !.fragments = x].fragments = x /\ [s EXCEPT !.fragments = x].usage = <<>>
         /\ [s EXCEPT !.finish = x].fragments = <<>> /\ [s EXCEPT !.finish = x].usage = <<>>
         /\ [s EXCEPT !.usage = x].fragments = <<>> /\ [s EXCEPT !.usage = x].usage = x
         /\ [s EXCEPT !.usage = x].finish = n
         /\ [s EXCEPT !.finish = y, !.fragments = x].fragments = x
         /\ [s EXCEPT !.finish = y, !.fragments = x].usage = <<>>
OBVIOUS

\* There are two indices
LEMMA TwoIndices ==
  ASSUME NEW S, S \subseteq 0..1
  PROVE  Cardinality(S) \in 0..2
<1>1. IsFiniteSet({}) /\ Cardinality({}) = 0
  BY FS_EmptySet
<1>2. IsFiniteSet({0}) /\ Cardinality({0}) = 1
  BY FS_Singleton
<1>3. IsFiniteSet({0, 1}) /\ Cardinality({0, 1}) = 2
  <2>1. {0, 1} = {0} \cup {1} /\ 1 \notin {0}
    OBVIOUS
  <2> QED
    BY <1>2, <2>1, FS_AddElement
<1>4. S \subseteq {0, 1}
  OBVIOUS
<1>5. IsFiniteSet(S) /\ Cardinality(S) <= 2
  BY <1>3, <1>4, FS_Subset
<1>6. Cardinality(S) \in Nat
  BY <1>5, FS_CardinalityType
<1> QED
  BY <1>5, <1>6

LEMMA CurrentType == Current \in -1..1
<1>1. Begun \subseteq 0..1
  BY DEF Begun
<1>2. Cardinality(Begun) \in 0..2
  BY <1>1, TwoIndices
<1> QED
  BY <1>2 DEF Current

LEMMA FragmentsTyped == \A f \in Fragments : FragmentOK(f)
<1>1. ASSUME NEW i \in 0..1 PROVE FragmentOK(Start(i))
  <2>1. /\ Start(i).index = i
        /\ Start(i).id = IF i = 0 THEN "c1" ELSE "c2"
        /\ Start(i).name = IF i = 0 THEN "f" ELSE "g"
    BY DEF Start
  <2>2. Start(i).id \in Ids /\ Start(i).name \in Names
    BY <2>1, Zenon DEF Ids, Names
  <2> QED
    BY <2>1, <2>2 DEF FragmentOK
<1>2. ASSUME NEW piece, Current # -1 PROVE FragmentOK(Part(piece))
  <2>1. Part(piece).index = Current /\ Part(piece).id \in Ids /\ Part(piece).name \in Names
    BY Zenon DEF Part, Ids, Names
  <2>2. Current \in 0..1
    BY <1>2, CurrentType
  <2> QED
    BY <2>1, <2>2 DEF FragmentOK
<1> QED
  BY <1>1, <1>2 DEF Fragments

LEMMA ChunksTyped ==
  /\ \A chunk \in ContentChunks : ChunkOK(chunk)
  /\ \A chunk \in FinalChunks : ChunkOK(chunk)
  /\ ChunkOK(UsageChunk) /\ IsMute(UsageChunk) /\ UsageChunk.usage = <<11, 7>>
<1> DEFINE One(f) == <<f>>
<1>1. FragmentsOK(<<>>) /\ \A f \in Fragments : FragmentsOK(<<f>>)
  BY FragmentsTyped DEF FragmentsOK
<1>2. \A x : /\ [Silence EXCEPT !.text = x].fragments = <<>> /\ [Silence EXCEPT !.text = x].usage = <<>>
             /\ [Silence EXCEPT !.reasoning = x].fragments = <<>>
             /\ [Silence EXCEPT !.reasoning = x].usage = <<>>
             /\ [Silence EXCEPT !.fragments = x].fragments = x
             /\ [Silence EXCEPT !.fragments = x].usage = <<>>
             /\ [Silence EXCEPT !.finish = x].fragments = <<>> /\ [Silence EXCEPT !.finish = x].usage = <<>>
  BY SilenceFields, ChunkFields
<1>3. \A x, y : /\ [Silence EXCEPT !.finish = y, !.fragments = x].fragments = x
               /\ [Silence EXCEPT !.finish = y, !.fragments = x].usage = <<>>
  BY SilenceFields, ChunkFields
<1>4. UsageChunk.fragments = <<>> /\ UsageChunk.usage = <<11, 7>> /\ UsageChunk.finish = Nothing
  BY SilenceFields, ChunkFields DEF UsageChunk
<1>5. ASSUME NEW chunk \in ContentChunks PROVE ChunkOK(chunk)
  <2>1. CASE \E x : chunk = [Silence EXCEPT !.text = x] \/ chunk = [Silence EXCEPT !.reasoning = x]
    BY <1>1, <1>2, <2>1 DEF ChunkOK
  <2>2. CASE \E f \in Fragments : chunk = [Silence EXCEPT !.fragments = <<f>>]
    BY <1>1, <1>2, <2>2 DEF ChunkOK
  <2> QED
    BY <2>1, <2>2, Zenon DEF ContentChunks
<1>6. ASSUME NEW chunk \in FinalChunks PROVE ChunkOK(chunk)
  <2>1. CASE \E x : chunk = [Silence EXCEPT !.finish = x]
    BY <1>1, <1>2, <2>1 DEF ChunkOK
  <2>2. CASE \E f \in Fragments : chunk = [Silence EXCEPT !.finish = "stop", !.fragments = <<f>>]
    BY <1>1, <1>3, <2>2 DEF ChunkOK
  <2> QED
    BY <2>1, <2>2, Zenon DEF FinalChunks
<1> QED
  BY <1>1, <1>4, <1>5, <1>6 DEF ChunkOK, IsMute

\* The assembler holds what the fragments say, of both indices at most
LEMMA FedSlots ==
  ASSUME SlotsOK(slots), NEW fragments, FragmentsOK(fragments)
  PROVE  SlotsOK(feed(fragments)) /\ (fragments = <<>> => DOMAIN feed(fragments) = DOMAIN slots)
<1> DEFINE touched == {fragments[i].index : i \in DOMAIN fragments}
           Fragment(index) == fragments[CHOOSE i \in DOMAIN fragments : fragments[i].index = index]
           fed == feed(fragments)
<1>1. /\ DOMAIN fed = touched \cup DOMAIN slots
      /\ \A index \in DOMAIN fed :
           fed[index] = IF index \in touched THEN Absorb(Slot(index), Fragment(index)) ELSE slots[index]
  BY DEF feed
<1>2. touched \subseteq 0..1
  BY DEF FragmentsOK, FragmentOK
<1>3. ASSUME NEW index \in touched PROVE FragmentOK(Fragment(index))
  BY DEF FragmentsOK
<1>4. ASSUME NEW index PROVE Slot(index).id \in Ids /\ Slot(index).name \in Names
  <2>1. CASE index \in DOMAIN slots
    BY <2>1 DEF Slot, SlotsOK
  <2>2. CASE index \notin DOMAIN slots
    <3>1. Slot(index) = IF index \in DOMAIN slots THEN slots[index]
                        ELSE [id |-> Nothing, name |-> Nothing, arguments |-> <<>>]
      BY Zenon DEF Slot, Nothing
    <3>2. Slot(index).id = Nothing /\ Slot(index).name = Nothing
      BY <2>2, <3>1
    <3>3. Nothing \in Ids /\ Nothing \in Names
      BY Zenon DEF Ids, Names, Nothing
    <3> QED
      BY <3>2, <3>3
  <2> QED
    BY <2>1, <2>2
<1>5. ASSUME NEW slot, NEW f, slot.id \in Ids, slot.name \in Names, FragmentOK(f)
      PROVE  Absorb(slot, f).id \in Ids /\ Absorb(slot, f).name \in Names
  <2>1. /\ Absorb(slot, f).id = (IF f.id # "" THEN f.id ELSE slot.id)
        /\ Absorb(slot, f).name = (IF f.name # "" THEN f.name ELSE slot.name)
    BY Zenon DEF Absorb
  <2> QED
    BY <1>5, <2>1, Zenon DEF FragmentOK
<1>6. fragments = <<>> => touched = {}
  OBVIOUS
<1> HIDE DEF touched, Fragment, fed
<1>7. ASSUME NEW index \in DOMAIN fed PROVE fed[index].id \in Ids /\ fed[index].name \in Names
  <2>1. CASE index \in touched
    BY <1>1, <1>3, <1>4, <1>5, <2>1
  <2>2. CASE index \notin touched
    BY <1>1, <2>2 DEF SlotsOK
  <2> QED
    BY <2>1, <2>2
<1>8. SlotsOK(fed)
  BY <1>1, <1>2, <1>7 DEF SlotsOK
<1> QED
  BY <1>1, <1>6, <1>8 DEF fed

LEMMA DrainedCalls ==
  ASSUME NEW fed, DOMAIN fed \subseteq 0..1
  PROVE  Len(drain(fed)) \in 0..2
<1> DEFINE named == {index \in DOMAIN fed : fed[index].name # ""}
<1>1. named \subseteq 0..1
  OBVIOUS
<1> DEFINE Nth(i) == CHOOSE index \in named : Cardinality({k \in named : k <= index}) = i
           Item(i) == ToolCall(fed[Nth(i)].id, fed[Nth(i)].name,
                               _parse_arguments(fed[Nth(i)].arguments), Nth(i))
<1>2. drain(fed) = [i \in 1..Cardinality(named) |-> Item(i)]
  BY Zenon DEF drain
<1> HIDE DEF named, Item
<1>3. Cardinality(named) \in 0..2
  BY <1>1, TwoIndices
<1>4. ASSUME NEW c \in 0..2 PROVE Len([i \in 1..c |-> Item(i)]) = c
  OBVIOUS
<1> QED
  BY <1>2, <1>3, <1>4

-----------------------------------------------------------------------------
(* The inductive invariant.  The frames of a stream that goes on hold no   *)
(* closing event; the assembler is empty from the reason on, so that the   *)
(* delta of the end tells no call a second time.                           *)

Phases == {"waiting", "streaming", "closed", "broken", "gone"}

AnswerTyped(s) == s.finish \in Reasons /\ s.usage \in {<<>>, <<11, 7>>}
CallFrames(s) == {i \in 1..Len(s.frames) : ~TellsNoCall(s.frames[i])}
CallsOnce(s) ==
  \A i, k \in CallFrames(s) : ~IsNoChunk(s.frames[i]) /\ ~IsNoChunk(s.frames[k]) => i = k

StreamInv ==
  /\ facade \in Facades \cup {"none"} /\ phase \in Phases
  /\ phase = "waiting" <=> facade = "none"
  /\ IsSequence(sent)
  /\ SlotsOK(slots)
  /\ StateInv(answer) /\ AnswerTyped(answer)
  /\ facade # "anthropic" => answer.index = -1 /\ answer.open = Nothing
  /\ phase = "waiting" => answer = NoAnswer
  /\ IF phase = "closed" THEN DoneLast(answer) ELSE Unclosed(answer)
  /\ HasFinished => DOMAIN slots = {}
  /\ CallsOnce(answer)
  /\ CallFrames(answer) # {} => HasFinished \/ phase = "closed"

\* What has been told of the calls, when frames are added
LEMMA CallsCarried ==
  ASSUME NEW s, NEW t, Adds(s, t), OneChunk(s, t), CallsOnce(s),
         Uncalled(s, t) \/ CallFrames(s) = {}
  PROVE  CallsOnce(t) /\ (Uncalled(s, t) => CallFrames(t) = CallFrames(s))
<1>1. ASSUME NEW i \in 1..Len(t.frames)
      PROVE  (i \in 1..Len(s.frames) /\ t.frames[i] = s.frames[i]) \/ i \in New(s, t)
  BY DEF Adds, New
<1>2. \A i \in 1..Len(s.frames) : i \in 1..Len(t.frames) /\ t.frames[i] = s.frames[i]
  BY DEF Adds
<1>3. CASE Uncalled(s, t)
  <2>1. CallFrames(t) = CallFrames(s)
    BY <1>1, <1>2, <1>3 DEF CallFrames, Uncalled
  <2>2. \A i \in CallFrames(s) : t.frames[i] = s.frames[i]
    BY <1>2 DEF CallFrames
  <2> QED
    BY <2>1, <2>2 DEF CallsOnce
<1>4. CASE ~Uncalled(s, t)
  <2>1. \A i \in CallFrames(t) : i \in New(s, t)
    BY <1>1, <1>4 DEF CallFrames
  <2> QED
    BY <1>4, <2>1 DEF CallsOnce, OneChunk
<1> QED
  BY <1>3, <1>4

LEMMA SameFrames ==
  ASSUME NEW s, NEW t, s.frames = t.frames
  PROVE  /\ CallFrames(s) = CallFrames(t)
         /\ CallsOnce(s) <=> CallsOnce(t)
         /\ Unclosed(s) <=> Unclosed(t)
BY DEF CallFrames, CallsOnce, Unclosed

\* The empty answer
LEMMA NothingSaid ==
  /\ StateInv(NoAnswer) /\ AnswerTyped(NoAnswer)
  /\ NoAnswer.index = -1 /\ NoAnswer.open = Nothing /\ NoAnswer.frames = <<>>
<1> DEFINE m == -1
           stop == "stop"
<1>1. NoAnswer = Locals(<<>>, stop, <<>>, <<>>, <<>>, m, Nothing)
  BY Zenon DEF NoAnswer, Locals, Nothing
<1> HIDE DEF m, stop
<1>2. /\ NoAnswer.frames = <<>> /\ NoAnswer.finish = stop /\ NoAnswer.usage = <<>>
      /\ NoAnswer.calls = <<>> /\ NoAnswer.content = <<>>
      /\ NoAnswer.index = m /\ NoAnswer.open = Nothing
  BY <1>1, LocalsFields
<1>3. IsSequence(<<>>)
  BY DEF IsSequence
<1>4. IsState(NoAnswer)
  BY <1>1, <1>2, <1>3 DEF IsState
<1>5. BlockInv(<<>>, m, Nothing)
  <2>1. Len(<<>>) = 0 /\ 1..0 = {} /\ 1..((0 + 1) - 1) = {}
    OBVIOUS
  <2>2. StartsBefore(<<>>, Len(<<>>) + 1) = {}
    BY <2>1 DEF StartsBefore
  <2>3. OpenBefore(<<>>, Len(<<>>) + 1) = {}
    BY <2>2 DEF OpenBefore
  <2>4. Cardinality(StartsBefore(<<>>, Len(<<>>) + 1)) = 0
    BY <2>2, FS_EmptySet
  <2>5. m + 1 = 0 /\ m \in -1..0
    BY DEF m
  <2> QED
    BY <2>1, <2>3, <2>4, <2>5 DEF BlockInv
<1>6. AnswerTyped(NoAnswer)
  BY <1>2 DEF AnswerTyped, Reasons, stop
<1> QED
  BY <1>2, <1>4, <1>5, <1>6 DEF StateInv, m

LEMMA EmptySlots == SlotsOK(NoSlots) /\ DOMAIN NoSlots = {}
BY DEF NoSlots, SlotsOK

LEMMA InitStreamInv == Init => StreamInv
<1> SUFFICES ASSUME Init PROVE StreamInv
  OBVIOUS
<1>1. /\ facade = "none" /\ phase = "waiting" /\ sent = <<>> /\ slots = NoSlots
      /\ answer = NoAnswer
  BY DEF Init, InitStream
<1>2. "none" \in Facades \cup {"none"} /\ "waiting" \in Phases /\ "waiting" # "closed"
  BY DEF Phases
<1>3. IsSequence(sent)
  BY <1>1 DEF IsSequence
<1>4. StateInv(answer) /\ AnswerTyped(answer) /\ answer.index = -1 /\ answer.open = Nothing
  BY <1>1, NothingSaid
<1>5. Unclosed(answer) /\ CallFrames(answer) = {} /\ CallsOnce(answer)
  BY <1>1, NothingSaid DEF Unclosed, CallFrames, CallsOnce
<1> QED
  BY <1>1, <1>2, <1>3, <1>4, <1>5, EmptySlots DEF StreamInv

\* The reason that a delta gives, "" when the chunk gives none
LEMMA ReasonGiven ==
  ASSUME NEW chunk
  PROVE  /\ chunk.finish = Nothing => ChunkFinish(chunk) = Nothing
         /\ chunk.finish # Nothing => ChunkFinish(chunk) \in Reasons
<1> DEFINE f == FinishReason(chunk.finish)
           c == Corrected(f, chunk.fragments)
<1>1. /\ chunk.finish = Nothing => ChunkFinish(chunk) = Nothing
      /\ chunk.finish # Nothing => ChunkFinish(chunk) = c
  BY Zenon DEF ChunkFinish, Nothing
<1>2. f \in Reasons
  BY DEF FinishReason, Reasons
<1>3. c \in Reasons
  BY <1>2 DEF Corrected, Reasons
<1> QED
  BY <1>1, <1>3

LEMMA ReasonsSaySomething == Nothing \notin Reasons
BY Zenon DEF Nothing, Reasons

LEMMA Finished ==
  /\ HasFinished <=> \E i \in DOMAIN sent : sent[i].finish # Nothing
  /\ HasFinished' <=> \E i \in DOMAIN sent' : sent'[i].finish # Nothing
BY Zenon DEF HasFinished, Nothing

\* A line of llama-server
LEMMA ChunkReceived ==
  ASSUME StreamInv, NEW chunk, ChunkOK(chunk), HasFinished => IsMute(chunk), Receive(chunk)
  PROVE  StreamInv'
<1> DEFINE delta == Delta(chunk)
           u == Noted(delta)
           fed == feed(chunk.fragments)
<1>1. /\ phase = "streaming" /\ sent' = Append(sent, chunk)
      /\ answer' = Told(delta) /\ facade' = facade /\ phase' = phase
  BY DEF Receive
<1>2. slots' = IF ChunkFinish(chunk) # Nothing THEN NoSlots ELSE fed
  BY Zenon DEF Receive, Drains, Nothing
<1>3. /\ delta.finish = ChunkFinish(chunk) /\ delta.usage = chunk.usage
      /\ delta.calls = IF ChunkFinish(chunk) # Nothing THEN drain(fed) ELSE <<>>
  <2>1. delta = [text |-> chunk.text, reasoning |-> chunk.reasoning,
                 calls |-> IF ChunkFinish(chunk) # Nothing THEN drain(fed) ELSE <<>>,
                 finish |-> ChunkFinish(chunk), usage |-> chunk.usage]
    BY Zenon DEF Delta, Drains, Nothing
  <2> HIDE DEF delta, fed
  <2> QED
    BY <2>1
<1> HIDE DEF delta, fed, u
<1>4. /\ facade \in Facades /\ StateInv(answer) /\ AnswerTyped(answer) /\ SlotsOK(slots)
      /\ IsSequence(sent) /\ Unclosed(answer) /\ CallsOnce(answer)
      /\ HasFinished => DOMAIN slots = {}
      /\ CallFrames(answer) # {} => HasFinished
      /\ facade # "anthropic" => answer.index = -1 /\ answer.open = Nothing
  BY <1>1 DEF StreamInv
<1>5. SlotsOK(fed) /\ (chunk.fragments = <<>> => DOMAIN fed = DOMAIN slots)
  BY <1>4, FedSlots DEF ChunkOK, fed
<1>6. IsSequence(sent') /\ (HasFinished' <=> HasFinished \/ chunk.finish # Nothing)
  <2>1. /\ IsSequence(sent') /\ Len(sent) \in Nat /\ DOMAIN sent = 1..Len(sent)
        /\ DOMAIN sent' = 1..(Len(sent) + 1) /\ sent'[Len(sent) + 1] = chunk
        /\ \A i \in 1..Len(sent) : sent'[i] = sent[i]
    BY <1>1, <1>4, Appended
  <2>2. \A i \in DOMAIN sent' : (i \in DOMAIN sent /\ sent'[i] = sent[i]) \/ sent'[i] = chunk
    BY <2>1
  <2>3. \A i \in DOMAIN sent : i \in DOMAIN sent' /\ sent'[i] = sent[i]
    BY <2>1
  <2>4. \E i \in DOMAIN sent' : sent'[i] = chunk
    BY <2>1
  <2> QED
    BY <2>1, <2>2, <2>3, <2>4, Finished
<1>7. SlotsOK(slots') /\ (HasFinished' => DOMAIN slots' = {})
  <2>1. CASE ChunkFinish(chunk) # Nothing
    BY <1>2, <2>1, EmptySlots
  <2>2. CASE ChunkFinish(chunk) = Nothing
    <3>1. chunk.finish = Nothing
      BY <2>2, ReasonGiven, ReasonsSaySomething
    <3> QED
      BY <1>2, <1>4, <1>5, <1>6, <2>2, <3>1 DEF IsMute
  <2> QED
    BY <2>1, <2>2
<1>8. Len(delta.calls) \in 0..2
  <2>1. Len(drain(fed)) \in 0..2
    BY <1>5, DrainedCalls DEF SlotsOK
  <2>2. Len(<<>>) \in 0..2
    OBVIOUS
  <2> QED
    BY <1>3, <2>1, <2>2
<1>9. /\ StateInv(answer') /\ u.frames = answer.frames
      /\ facade # "anthropic" => (answer'.index = answer.index /\ answer'.open = answer.open)
      /\ answer'.finish = NotedFinish(delta) /\ answer'.usage = NotedUsage(delta)
      /\ Adds(u, answer') /\ Unended(u, answer') /\ OneChunk(u, answer')
      /\ delta.calls = <<>> => Uncalled(u, answer')
  BY <1>1, <1>4, <1>8, AnyDeltaTold DEF u
<1>10. AnswerTyped(answer')
  <2>1. NotedFinish(delta) \in Reasons
    BY <1>3, <1>4, ReasonGiven DEF NotedFinish, AnswerTyped
  <2>2. NotedUsage(delta) \in {<<>>, <<11, 7>>}
    BY <1>3, <1>4 DEF NotedUsage, AnswerTyped, ChunkOK
  <2> QED
    BY <1>9, <2>1, <2>2 DEF AnswerTyped
<1>11. Unclosed(answer')
  BY <1>4, <1>9, SameFrames, StaysUnended
<1>12. CallsOnce(u) /\ CallFrames(u) = CallFrames(answer)
  BY <1>4, <1>9, SameFrames
<1>13. CallsOnce(answer') /\ (CallFrames(answer') # {} => HasFinished')
  <2>1. CASE delta.calls = <<>>
    BY <1>4, <1>6, <1>9, <1>12, <2>1, CallsCarried
  <2>2. CASE delta.calls # <<>>
    <3>1. ChunkFinish(chunk) # Nothing
      BY <1>3, <2>2
    <3>2. chunk.finish # Nothing
      BY <3>1, ReasonGiven
    <3>3. ~HasFinished
      BY <3>2 DEF IsMute
    <3> QED
      BY <1>4, <1>6, <1>9, <1>12, <3>2, <3>3, CallsCarried
  <2> QED
    BY <2>1, <2>2
<1>14. phase' = "streaming" /\ "streaming" # "closed" /\ "streaming" # "waiting" /\ "streaming" \in Phases
       /\ facade' # "none"
  BY <1>1, <1>4 DEF Phases, Facades
<1> QED
  BY <1>1, <1>4, <1>6, <1>7, <1>9, <1>10, <1>11, <1>13, <1>14 DEF StreamInv

\* The end of the upstream
LEMMA UpstreamEnded ==
  ASSUME StreamInv, End
  PROVE  StreamInv'
<1> DEFINE told == Told(LastDelta)
           u == Noted(LastDelta)
           b == IF DOMAIN slots = {} THEN answer ELSE told
<1>1. /\ phase = "streaming" /\ phase' = "closed" /\ answer' = Closing(b)
      /\ slots' = NoSlots /\ facade' = facade /\ sent' = sent
  BY DEF End
<1>2. /\ facade \in Facades /\ StateInv(answer) /\ AnswerTyped(answer) /\ SlotsOK(slots)
      /\ IsSequence(sent) /\ Unclosed(answer) /\ CallsOnce(answer)
      /\ HasFinished => DOMAIN slots = {}
      /\ CallFrames(answer) # {} => HasFinished
      /\ facade # "anthropic" => answer.index = -1 /\ answer.open = Nothing
  BY <1>1 DEF StreamInv
<1>3. LastDelta.finish = "tool_calls" /\ LastDelta.usage = <<>> /\ LastDelta.calls = drain(slots)
  BY DEF LastDelta
<1>4. Len(LastDelta.calls) \in 0..2
  BY <1>2, <1>3, DrainedCalls DEF SlotsOK
<1> HIDE DEF told, u
<1>5. /\ StateInv(told) /\ u.frames = answer.frames
      /\ facade # "anthropic" => (told.index = answer.index /\ told.open = answer.open)
      /\ told.finish = NotedFinish(LastDelta) /\ told.usage = NotedUsage(LastDelta)
      /\ Adds(u, told) /\ Unended(u, told) /\ OneChunk(u, told)
  BY <1>2, <1>4, AnyDeltaTold DEF u, told
<1>6. /\ StateInv(b) /\ AnswerTyped(b) /\ Unclosed(b) /\ CallsOnce(b)
      /\ facade # "anthropic" => b.index = -1 /\ b.open = Nothing
  <2>1. CASE DOMAIN slots = {}
    BY <1>2, <2>1
  <2>2. CASE DOMAIN slots # {}
    <3>1. AnswerTyped(told)
      BY <1>2, <1>3, <1>5 DEF AnswerTyped, NotedFinish, NotedUsage, Reasons
    <3>2. Unclosed(told)
      BY <1>2, <1>5, SameFrames, StaysUnended
    <3>3. CallFrames(u) = {} /\ CallsOnce(u)
      BY <1>2, <1>5, <2>2, SameFrames
    <3>4. CallsOnce(told)
      BY <1>5, <3>3, CallsCarried
    <3> QED
      BY <1>2, <1>5, <2>2, <3>1, <3>2, <3>4
  <2> QED
    BY <2>1, <2>2
<1> HIDE DEF b
<1>7. /\ StateInv(answer') /\ DoneLast(answer')
      /\ facade # "anthropic" => (answer'.index = b.index /\ answer'.open = b.open)
      /\ Adds(b, answer') /\ Uncalled(b, answer') /\ Unchunked(b, answer')
  BY <1>1, <1>2, <1>6, AnyClosing
<1>8. AnswerTyped(answer')
  BY <1>6, <1>7 DEF AnswerTyped, Adds
<1>9. OneChunk(b, answer')
  BY <1>7 DEF OneChunk, Unchunked
<1>10. CallsOnce(answer')
  BY <1>6, <1>7, <1>9, CallsCarried
<1>11. "closed" # "waiting" /\ "closed" \in Phases /\ facade' # "none"
  BY <1>1, <1>2 DEF Phases, Facades
<1> QED
  BY <1>1, <1>2, <1>6, <1>7, <1>8, <1>10, <1>11, EmptySlots DEF StreamInv

\* The first frame, if there is one
LEMMA OpeningTold ==
  ASSUME StreamInv, NEW asked \in Facades, Begin(asked)
  PROVE  answer' = answer \/ \E f : /\ answer' = Say(answer, f)
                                    /\ f.event \in {"role", "message_start", "created"}
<1>1. phase = "waiting" /\ answer' = [answer EXCEPT !.frames = Opening(asked)]
  BY DEF Begin
<1>2. StateInv(answer) /\ answer.frames = <<>>
  BY <1>1, NothingSaid DEF StreamInv
<1>3. CASE Opening(asked) = <<>>
  <2> DEFINE a == answer.frames
             b == answer.finish
             c == answer.usage
             d == answer.calls
             e == answer.content
             g == answer.index
             h == answer.open
  <2>1. answer = Locals(a, b, c, d, e, g, h) /\ a = Opening(asked)
    BY <1>2, <1>3 DEF StateInv, IsState
  <2> HIDE DEF a, b, c, d, e, g, h
  <2>2. answer' = Locals(a, b, c, d, e, g, h)
    <3>1. answer' = [answer EXCEPT !.frames = a]
      BY <1>1, <2>1
    <3> QED
      BY <2>1, <3>1, FramesAssigned
  <2> QED
    BY <2>1, <2>2
<1>4. ASSUME NEW f, f.event \in {"role", "message_start", "created"}, Opening(asked) = <<f>>
      PROVE  answer' = Say(answer, f)
  <2>1. Append(<<>>, f) = <<f>>
    OBVIOUS
  <2>2. Opening(asked) = Append(answer.frames, f)
    BY <1>2, <1>4, <2>1
  <2> QED
    BY <1>1, <2>2 DEF Say
<1>5. CASE asked = "openai"
  <2> DEFINE f == [event |-> "role"]
  <2>1. Opening(asked) = <<f>> /\ f.event = "role"
    BY <1>5 DEF Opening
  <2> QED
    BY <1>4, <2>1
<1>6. CASE asked = "anthropic"
  <2> DEFINE f == [event |-> "message_start", usage |-> <<0, 0>>]
  <2>1. Opening(asked) = <<f>> /\ f.event = "message_start"
    BY <1>6 DEF Opening
  <2> QED
    BY <1>4, <2>1
<1>7. CASE asked = "responses"
  <2> DEFINE f == [event |-> "created"]
  <2>1. Opening(asked) = <<f>> /\ f.event = "created"
    BY <1>7 DEF Opening
  <2> QED
    BY <1>4, <2>1
<1>8. CASE asked \in {"ollama_chat", "ollama_generate", "completions"}
  BY <1>3, <1>8 DEF Opening
<1> QED
  BY <1>5, <1>6, <1>7, <1>8 DEF Facades

LEMMA Began ==
  ASSUME StreamInv, NEW asked \in Facades, Begin(asked)
  PROVE  StreamInv'
<1>1. /\ phase = "waiting" /\ facade' = asked /\ phase' = "streaming"
      /\ answer' = [answer EXCEPT !.frames = Opening(asked)]
      /\ sent' = sent /\ slots' = slots
  BY DEF Begin
<1>2. /\ answer = NoAnswer /\ StateInv(answer) /\ AnswerTyped(answer) /\ SlotsOK(slots)
      /\ IsSequence(sent) /\ Unclosed(answer) /\ CallsOnce(answer)
      /\ HasFinished => DOMAIN slots = {}
      /\ answer.index = -1 /\ answer.open = Nothing /\ answer.frames = <<>>
  BY <1>1, NothingSaid DEF StreamInv
<1>3. CallFrames(answer) = {}
  BY <1>2 DEF CallFrames
<1>4. answer' = answer \/ \E f : /\ answer' = Say(answer, f)
                                /\ f.event \in {"role", "message_start", "created"}
  BY OpeningTold
<1>5. /\ StateInv(answer') /\ AnswerTyped(answer') /\ Unclosed(answer') /\ CallsOnce(answer')
      /\ CallFrames(answer') = {} /\ answer'.index = -1 /\ answer'.open = Nothing
  <2>1. CASE answer' = answer
    BY <1>2, <1>3, <2>1
  <2>2. CASE answer' # answer
    <3>1. PICK f : /\ answer' = Say(answer, f)
                   /\ f.event \in {"role", "message_start", "created"}
      BY <1>4, <2>2
    <3>2. Indifferent(f, answer.open) /\ EndsNothing(f) /\ TellsNoCall(f)
      BY <3>1 DEF Indifferent, EndsNothing, Ends, TellsNoCall
    <3>3. /\ StateInv(answer') /\ answer'.index = answer.index /\ answer'.open = answer.open
          /\ Adds(answer, answer') /\ Unended(answer, answer') /\ OneChunk(answer, answer')
          /\ Uncalled(answer, answer')
      BY <1>2, <3>1, <3>2, FrameTold
    <3>4. Unclosed(answer')
      BY <1>2, <3>3, StaysUnended
    <3>5. CallsOnce(answer') /\ CallFrames(answer') = {}
      BY <1>2, <1>3, <3>3, CallsCarried
    <3>6. AnswerTyped(answer')
      BY <1>2, <3>3 DEF AnswerTyped, Adds
    <3> QED
      BY <1>2, <3>3, <3>4, <3>5, <3>6
  <2> QED
    BY <2>1, <2>2
<1>6. HasFinished' <=> HasFinished
  BY <1>1, Finished
<1>7. "streaming" # "waiting" /\ "streaming" # "closed" /\ "streaming" \in Phases /\ asked # "none"
  BY DEF Phases, Facades
<1> QED
  BY <1>1, <1>2, <1>5, <1>6, <1>7 DEF StreamInv

\* A stream that is cut tells nothing more
LEMMA CutShort ==
  ASSUME StreamInv, Fail \/ Disconnect
  PROVE  StreamInv'
<1>1. /\ phase = "streaming" /\ phase' \in {"broken", "gone"} /\ answer' = answer
      /\ facade' = facade /\ sent' = sent /\ slots' = slots
  BY DEF Fail, Disconnect, AfterError
<1>2. HasFinished' <=> HasFinished
  BY <1>1, Finished
<1>3. phase # "closed" /\ phase # "waiting" /\ phase' # "closed" /\ phase' # "waiting" /\ phase' \in Phases
  BY <1>1 DEF Phases
<1> QED
  BY <1>1, <1>2, <1>3 DEF StreamInv

LEMMA NextStreamInv == StreamInv /\ [Next]_vars => StreamInv'
<1> SUFFICES ASSUME StreamInv, [Next]_vars PROVE StreamInv'
  OBVIOUS
<1>1. CASE UNCHANGED streamVars
  <2>1. /\ facade' = facade /\ phase' = phase /\ sent' = sent /\ slots' = slots /\ answer' = answer
    BY <1>1 DEF streamVars
  <2>2. HasFinished' <=> HasFinished
    BY <2>1, Finished
  <2> QED
    BY <2>1, <2>2 DEF StreamInv
<1>2. ASSUME NEW asked \in Facades, Begin(asked) PROVE StreamInv'
  BY <1>2, Began
<1>3. CASE Content
  <2>1. PICK chunk \in ContentChunks : Receive(chunk)
    BY <1>3 DEF Content
  <2> QED
    BY <1>3, <2>1, ChunksTyped, ChunkReceived DEF Content
<1>4. CASE Finish
  <2>1. PICK chunk \in FinalChunks : Receive(chunk)
    BY <1>4 DEF Finish
  <2> QED
    BY <1>4, <2>1, ChunksTyped, ChunkReceived DEF Finish
<1>5. CASE Count
  BY <1>5, ChunksTyped, ChunkReceived DEF Count
<1>6. CASE End
  BY <1>6, UpstreamEnded
<1>7. CASE Fail \/ Disconnect
  BY <1>7, CutShort
<1>8. ASSUME NEW turn, Speak(turn) PROVE UNCHANGED streamVars
  BY <1>8 DEF Speak
<1> QED
  BY <1>1, <1>2, <1>3, <1>4, <1>5, <1>6, <1>7, <1>8 DEF Next, Ask, Hear, vars

\* Every state of the streams satisfies the invariant: the answer is well typed
\* and well formed, unclosed as long as the stream may go on (api/*.py, the
\* generators), the assembler empty once the reason was given (backend.py:363-378).
THEOREM StreamInvariant == Spec => []StreamInv
<1>1. Init => StreamInv
  BY InitStreamInv
<1>2. StreamInv /\ [Next]_vars => StreamInv'
  BY NextStreamInv
<1> QED
  BY <1>1, <1>2, PTL DEF Spec

-----------------------------------------------------------------------------
(* The properties of MCInference.                                          *)

LEMMA FramesAreCounted == StreamInv => DOMAIN answer.frames = 1..Len(answer.frames)
BY Appended DEF StreamInv, StateInv, IsState

\* The generators of the facades, whatever llama-server sends and however many
\* chunks: the assembler stays within its slots, the counter and the flag of
\* the blocks of Anthropic belong to it alone (api/anthropic.py:353-368).
THEOREM StreamTypes == Spec => []TypeOK
<1>1. StreamInv => TypeOK
  <2> SUFFICES ASSUME StreamInv PROVE TypeOK
    OBVIOUS
  <2>1. DOMAIN slots \subseteq 0..1
        /\ \A i \in DOMAIN slots : slots[i].id \in {"", "c1", "c2"} /\ slots[i].name \in {"", "f", "g"}
    BY Zenon DEF StreamInv, SlotsOK, Ids, Names
  <2>2. answer.finish \in {"stop", "length", "tool_calls"} /\ answer.usage \in {<<>>, UsageChunk.usage}
    BY ChunksTyped DEF StreamInv, AnswerTyped, Reasons
  <2>3. answer.open \in {"", "thinking", "text", "tool_use"} /\ answer.index \in -1..Len(answer.frames)
    <3>1. answer.open \in {Nothing} \cup Kinds /\ answer.index \in -1..Len(answer.frames)
      BY Zenon DEF StreamInv, StateInv, BlockInv
    <3> QED
      BY <3>1, Zenon DEF Nothing, Kinds
  <2>4. facade # "anthropic" => answer.index = -1 /\ answer.open = ""
    BY Zenon DEF StreamInv, Nothing
  <2>5. /\ facade \in Facades \cup {"none"}
        /\ phase \in {"waiting", "streaming", "closed", "broken", "gone"}
        /\ phase = "waiting" <=> facade = "none"
    BY DEF StreamInv, Phases
  <2> QED
    BY <2>1, <2>2, <2>3, <2>4, <2>5, Zenon DEF TypeOK
<1> QED
  BY <1>1, StreamInvariant, PTL

\* A stream that was cut never looks complete: for every facade, the closing
\* event is the last one, is said once, and only when the upstream has ended
\* (backend.py:471-472: UpstreamError goes through every generator).
THEOREM CutStreamsStayOpen == Spec => []ClosedOnlyByUpstreamEnd
<1>1. StreamInv => ClosedOnlyByUpstreamEnd
  <2> SUFFICES ASSUME StreamInv PROVE ClosedOnlyByUpstreamEnd
    OBVIOUS
  <2>1. \A event : Saying(event) = {i \in 1..Len(answer.frames) : answer.frames[i].event = event}
    BY FramesAreCounted DEF Saying
  <2>2. CASE phase = "closed"
    <3>1. DoneLast(answer)
      BY <2>2 DEF StreamInv
    <3>2. Saying("done") = {i \in 1..Len(answer.frames) : IsDone(answer.frames[i])}
      BY <2>1 DEF IsDone
    <3>3. \A i \in 1..Len(answer.frames) : i = Len(answer.frames) \/ i \in 1..(Len(answer.frames) - 1)
      BY <3>1 DEF DoneLast
    <3>4. Saying("done") = {Len(answer.frames)}
      BY <3>1, <3>2, <3>3 DEF DoneLast
    <3> QED
      BY <2>2, <3>4 DEF ClosedOnlyByUpstreamEnd
  <2>3. CASE phase # "closed"
    <3>1. \A i \in 1..Len(answer.frames) : answer.frames[i].event \notin Ends
      BY <2>3 DEF StreamInv, Unclosed, EndsNothing
    <3>2. \A event \in Ends : Saying(event) = {}
      BY <2>1, <3>1
    <3> QED
      BY <2>3, <3>2 DEF ClosedOnlyByUpstreamEnd, Ends
  <2> QED
    BY <2>2, <2>3
<1> QED
  BY <1>1, StreamInvariant, PTL

\* The blocks of Anthropic are well formed at every moment, for every sequence
\* of chunks and calls (api/anthropic.py:334-337): numbered from 0 in order, one
\* open at a time, every delta in the one that is open and of its kind, all
\* closed before the message is.
THEOREM BlocksStayWellFormed == Spec => []BlocksAreWellFormed
<1>1. StreamInv => BlocksAreWellFormed
  BY FramesAreCounted DEF StreamInv, StateInv, BlockInv, BlocksAreWellFormed
<1> QED
  BY <1>1, StreamInvariant, PTL

\* No call is told before the upstream has given its reason or has ended, and
\* the list of calls is told once (backend.py:363-378): the reason empties the
\* assembler, so that the end of the body finds nothing to tell again.
THEOREM CallsAreToldOnce == Spec => []CallsToldAtTheEnd
<1>1. StreamInv => CallsToldAtTheEnd
  <2> SUFFICES ASSUME StreamInv PROVE CallsToldAtTheEnd
    OBVIOUS
  <2>1. \A event : Saying(event) = {i \in 1..Len(answer.frames) : answer.frames[i].event = event}
    BY FramesAreCounted DEF Saying
  <2>2. \A i \in TellingChunks : i \in CallFrames(answer) /\ ~IsNoChunk(answer.frames[i])
    BY <2>1 DEF TellingChunks, CallFrames, TellsNoCall, IsNoChunk
  <2>3. \A i \in TellingBlocks : i \in CallFrames(answer)
    BY <2>1 DEF TellingBlocks, CallFrames, TellsNoCall
  <2>4. CallsOnce(answer) /\ (CallFrames(answer) # {} => HasFinished \/ phase = "closed")
    BY DEF StreamInv
  <2> QED
    BY <2>2, <2>3, <2>4 DEF CallsToldAtTheEnd, CallsOnce
<1> QED
  BY <1>1, StreamInvariant, PTL

-----------------------------------------------------------------------------
(* Sequences of any elements, and the flattening of families of them: what *)
(* FlattenSeq yields is proved by induction over a set (NatSet).           *)

\* Induction over the naturals, for a set
LEMMA NatSet ==
  ASSUME NEW S, 0 \in S, \A n \in Nat : n \in S => n + 1 \in S
  PROVE  Nat \subseteq S
<1> SUFFICES ASSUME Nat \ S # {} PROVE FALSE
  OBVIOUS
<1> DEFINE U == Nat \ S
           D(k) == 0 .. k
           T == {D(k) : k \in U}
<1>1. T \subseteq FiniteSubsetsOf(Nat)
  <2> SUFFICES ASSUME NEW k \in U PROVE D(k) \in FiniteSubsetsOf(Nat)
    OBVIOUS
  <2>1. IsFiniteSet(0 .. k)
    BY FS_Interval
  <2> QED
    BY <2>1 DEF FiniteSubsetsOf
<1>2. T # {}
  OBVIOUS
<1>3. \E x \in T : \A y \in T : ~ (<<y, x>> \in StrictSubsetOrdering(Nat))
  <2> HIDE DEF T
  <2> QED
    BY <1>1, <1>2, FS_StrictSubsetOrderingWellFounded, WFMin
<1>4. PICK k \in U : \A y \in U : ~ (<<D(y), D(k)>> \in StrictSubsetOrdering(Nat))
  BY <1>3
<1>5. k \in Nat /\ k # 0 /\ k - 1 \in Nat /\ (k - 1) + 1 = k
  OBVIOUS
<1>6. k - 1 \in U
  BY <1>5
<1>7. <<D(k - 1), D(k)>> \in StrictSubsetOrdering(Nat)
  <2>1. D(k - 1) \subseteq D(k) /\ k \in D(k) /\ k \notin D(k - 1)
    BY <1>5
  <2> QED
    BY <2>1, <1>5 DEF StrictSubsetOrdering
<1> QED
  BY <1>4, <1>6, <1>7

\* What FlattenSeq goes through
Flattening(g, n, f) ==
  f = [i \in 1..n |-> IF i = 1 THEN g[i] ELSE f[i - 1] \o g[i]]

\* Every finite family has a flattening, prefix by prefix
LEMMA FlatteningExists ==
  ASSUME NEW g, NEW n \in Nat
  PROVE  \E f : Flattening(g, n, f)
<1> DEFINE S == {k \in Nat : \E f : Flattening(g, k, f)}
<1>1. 0 \in S
  <2> DEFINE f == [i \in 1..0 |-> g]
  <2>1. Flattening(g, 0, f)
    BY DEF Flattening
  <2> QED
    BY <2>1
<1>2. ASSUME NEW k \in Nat, k \in S PROVE k + 1 \in S
  <2>1. PICK f : Flattening(g, k, f)
    BY <1>2
  <2> DEFINE h == [i \in 1..(k + 1) |-> IF i = k + 1 THEN (IF i = 1 THEN g[i] ELSE f[k] \o g[i]) ELSE f[i]]
  <2>2. \A i \in 1..k : h[i] = f[i]
    OBVIOUS
  <2>3. \A i \in 1..k : f[i] = IF i = 1 THEN g[i] ELSE f[i - 1] \o g[i]
    BY <2>1 DEF Flattening
  <2>7. h[k + 1] = IF k + 1 = 1 THEN g[k + 1] ELSE f[k] \o g[k + 1]
    OBVIOUS
  <2>5. h = [i \in 1..(k + 1) |-> h[i]]
    OBVIOUS
  <2> HIDE DEF h
  <2>4. \A i \in 1..(k + 1) : h[i] = IF i = 1 THEN g[i] ELSE h[i - 1] \o g[i]
    <3>1. ASSUME NEW i \in 1..k PROVE h[i] = IF i = 1 THEN g[i] ELSE h[i - 1] \o g[i]
      <4>1. CASE i = 1
        BY <4>1, <2>2, <2>3
      <4>2. CASE i # 1
        <5>1. i - 1 \in 1..k
          BY <4>2
        <5> QED
          BY <5>1, <4>2, <2>2, <2>3
      <4> QED
        BY <4>1, <4>2
    <3>2. h[k + 1] = IF k + 1 = 1 THEN g[k + 1] ELSE h[k] \o g[k + 1]
      <4>1. CASE k = 0
        BY <4>1, <2>7
      <4>2. CASE k # 0
        <5>1. k \in 1..k /\ k + 1 # 1
          BY <4>2
        <5> QED
          BY <5>1, <2>2, <2>7
      <4> QED
        BY <4>1, <4>2
    <3>3. (k + 1) - 1 = k /\ \A i \in 1..(k + 1) : i \in 1..k \/ i = k + 1
      OBVIOUS
    <3> QED
      BY <3>1, <3>2, <3>3
  <2>6. Flattening(g, k + 1, h)
    BY <2>4, <2>5 DEF Flattening
  <2> QED
    BY <2>6
<1> HIDE DEF S
<1>3. Nat \subseteq S
  BY <1>1, <1>2, NatSet
<1> QED
  BY <1>3 DEF S

Extends(h, g, n) == \A i \in 1..n : h[i] = g[i]

\* The flattening of a longer family continues that of the shorter one
LEMMA FlatteningUnique ==
  ASSUME NEW g, NEW h, NEW n \in Nat, Extends(h, g, n)
  PROVE  \A f, e : Flattening(g, n, f) /\ Flattening(h, n + 1, e) =>
           \A i \in 1..n : e[i] = f[i]
<1> SUFFICES ASSUME NEW f, Flattening(g, n, f), NEW e, Flattening(h, n + 1, e)
             PROVE  \A i \in 1..n : e[i] = f[i]
  OBVIOUS
<1> DEFINE S == {k \in Nat : k \in 1..n => e[k] = f[k]}
<1>1. \A i \in 1..n : /\ f[i] = IF i = 1 THEN g[i] ELSE f[i - 1] \o g[i]
                      /\ e[i] = IF i = 1 THEN g[i] ELSE e[i - 1] \o g[i]
  <2>1. \A i \in 1..n : f[i] = IF i = 1 THEN g[i] ELSE f[i - 1] \o g[i]
    BY DEF Flattening
  <2>2. \A i \in 1..(n + 1) : e[i] = IF i = 1 THEN h[i] ELSE e[i - 1] \o h[i]
    BY DEF Flattening
  <2>3. \A i \in 1..n : i \in 1..(n + 1)
    OBVIOUS
  <2> QED
    BY <2>1, <2>2, <2>3 DEF Extends
<1>2. 0 \in S
  OBVIOUS
<1>3. ASSUME NEW k \in Nat, k \in S PROVE k + 1 \in S
  <2> SUFFICES ASSUME k + 1 \in 1..n PROVE e[k + 1] = f[k + 1]
    OBVIOUS
  <2>1. CASE k = 0
    <3>1. 1 \in 1..n /\ k + 1 = 1
      BY <2>1
    <3> QED
      BY <3>1, <1>1
  <2>2. CASE k # 0
    <3>1. k \in 1..n /\ k + 1 # 1 /\ (k + 1) - 1 = k
      BY <2>2
    <3>2. e[k] = f[k]
      BY <1>3, <3>1
    <3> QED
      BY <3>1, <3>2, <1>1
  <2> QED
    BY <2>1, <2>2
<1> HIDE DEF S
<1>4. Nat \subseteq S
  BY <1>2, <1>3, NatSet
<1> QED
  BY <1>4 DEF S

\* FlattenSeq of no sequence, of one more, and its type
LEMMA Flattened0 ==
  ASSUME NEW S, NEW g \in [1..0 -> Seq(S)]
  PROVE  FlattenSeq(g) = <<>>
<1>1. g \in Seq(Seq(S)) /\ Len(g) = 0
  OBVIOUS
<1>2. g = <<>>
  BY <1>1, EmptySeq
<1> QED
  BY <1>1, <1>2 DEF FlattenSeq

\* FlattenSeq is the last value of the flattening
LEMMA FlattenedBy ==
  ASSUME NEW S, NEW n \in Nat \ {0}, NEW g \in [1..n -> Seq(S)]
  PROVE  \E f : Flattening(g, n, f) /\ FlattenSeq(g) = f[n]
<1> DEFINE F == CHOOSE f : Flattening(g, n, f)
<1>1. g \in Seq(Seq(S)) /\ Len(g) = n
  OBVIOUS
<1>2. FlattenSeq(g) = F[n]
  BY <1>1 DEF FlattenSeq, Flattening
<1>3. Flattening(g, n, F)
  BY FlatteningExists
<1> QED
  BY <1>2, <1>3

\* A flattened family of sequences is one of their type
LEMMA FlattenedType ==
  ASSUME NEW S, NEW n \in Nat, NEW g \in [1..n -> Seq(S)]
  PROVE  FlattenSeq(g) \in Seq(S)
<1>1. CASE n = 0
  BY <1>1, Flattened0, EmptySeq
<1>2. CASE n # 0
  <2>1. PICK f : Flattening(g, n, f) /\ FlattenSeq(g) = f[n]
    BY <1>2, FlattenedBy
  <2>2. \A i \in 1..n : f[i] = IF i = 1 THEN g[i] ELSE f[i - 1] \o g[i]
    BY <2>1 DEF Flattening
  <2> DEFINE K == {k \in Nat : k \in 1..n => f[k] \in Seq(S)}
  <2>3. 0 \in K
    OBVIOUS
  <2>4. ASSUME NEW k \in Nat, k \in K PROVE k + 1 \in K
    <3> SUFFICES ASSUME k + 1 \in 1..n PROVE f[k + 1] \in Seq(S)
      OBVIOUS
    <3>1. CASE k = 0
      <4>1. 1 \in 1..n /\ k + 1 = 1
        BY <3>1
      <4> QED
        BY <4>1, <2>2
    <3>2. CASE k # 0
      <4>1. k \in 1..n /\ k + 1 # 1 /\ (k + 1) - 1 = k
        BY <3>2
      <4>2. f[k] \in Seq(S) /\ g[k + 1] \in Seq(S)
        BY <2>4, <4>1
      <4>3. f[k + 1] = f[k] \o g[k + 1]
        BY <2>2, <4>1
      <4> QED
        BY <4>2, <4>3, ConcatProperties
    <3> QED
      BY <3>1, <3>2
  <2> HIDE DEF K
  <2>5. Nat \subseteq K
    BY <2>3, <2>4, NatSet
  <2>6. n \in K /\ n \in 1..n
    BY <1>2, <2>5
  <2> QED
    BY <2>1, <2>6 DEF K
<1> QED
  BY <1>1, <1>2

\* One sequence more is concatenated behind the others
LEMMA FlattenedMore ==
  ASSUME NEW S, NEW n \in Nat, NEW g \in [1..n -> Seq(S)], NEW h \in [1..(n + 1) -> Seq(S)],
         \A i \in 1..n : h[i] = g[i]
  PROVE  /\ FlattenSeq(g) \in Seq(S) /\ FlattenSeq(h) \in Seq(S)
         /\ FlattenSeq(h) = FlattenSeq(g) \o h[n + 1]
<1>1. n + 1 \in Nat \ {0} /\ h[n + 1] \in Seq(S)
  OBVIOUS
<1>2. FlattenSeq(g) \in Seq(S) /\ FlattenSeq(h) \in Seq(S)
  BY <1>1, FlattenedType
<1>3. PICK e : Flattening(h, n + 1, e) /\ FlattenSeq(h) = e[n + 1]
  BY <1>1, FlattenedBy
<1>4. e[n + 1] = IF n + 1 = 1 THEN h[n + 1] ELSE e[n] \o h[n + 1]
  <2>1. n + 1 \in 1..(n + 1) /\ (n + 1) - 1 = n
    OBVIOUS
  <2>2. \A i \in 1..(n + 1) : e[i] = IF i = 1 THEN h[i] ELSE e[i - 1] \o h[i]
    BY <1>3 DEF Flattening
  <2> QED
    BY <2>1, <2>2
<1>5. CASE n = 0
  <2>1. FlattenSeq(g) = <<>>
    BY <1>5, Flattened0
  <2>2. FlattenSeq(h) = h[n + 1]
    BY <1>3, <1>4, <1>5
  <2> QED
    BY <1>1, <1>2, <2>1, <2>2, ConcatEmptySeq
<1>6. CASE n # 0
  <2>1. PICK f : Flattening(g, n, f) /\ FlattenSeq(g) = f[n]
    BY <1>6, FlattenedBy
  <2>2. e[n] = f[n]
    <3>1. n \in 1..n
      BY <1>6
    <3>2. Flattening(g, n, f) /\ Flattening(h, n + 1, e)
      BY <2>1, <1>3
    <3>5. Extends(h, g, n)
      BY DEF Extends
    <3>4. \A x, y : Flattening(g, n, x) /\ Flattening(h, n + 1, y) =>
                   \A i \in 1..n : y[i] = x[i]
      BY <3>5, FlatteningUnique
    <3>3. \A i \in 1..n : e[i] = f[i]
      BY <3>2, <3>4
    <3> QED
      BY <3>1, <3>3
  <2>3. n + 1 # 1
    BY <1>6
  <2> QED
    BY <1>2, <1>3, <1>4, <2>1, <2>2, <2>3
<1> QED
  BY <1>5, <1>6

-----------------------------------------------------------------------------
(* Sequences of any kind of element.                                       *)

\* A sequence over any set is one
LEMMA SequenceOf ==
  ASSUME NEW S, NEW s \in Seq(S)
  PROVE  IsSequence(s)
<1> DEFINE R == {s[i] : i \in DOMAIN s}
<1>1. Len(s) \in Nat /\ DOMAIN s = 1..Len(s) /\ s = [i \in 1..Len(s) |-> s[i]]
  OBVIOUS
<1>2. \A i \in 1..Len(s) : s[i] \in R
  BY <1>1
<1> HIDE DEF R
<1>3. s \in Seq(R)
  BY <1>1, <1>2
<1> QED
  BY <1>3 DEF IsSequence, R

\* Sequences share a set of elements
LEMMA Together ==
  ASSUME NEW a, IsSequence(a), NEW b, IsSequence(b), NEW c, IsSequence(c)
  PROVE  \E S : a \in Seq(S) /\ b \in Seq(S) /\ c \in Seq(S)
<1> DEFINE A == {a[i] : i \in DOMAIN a}
           B == {b[i] : i \in DOMAIN b}
           C == {c[i] : i \in DOMAIN c}
<1>1. a \in Seq(A) /\ b \in Seq(B) /\ c \in Seq(C)
  BY DEF IsSequence
<1> HIDE DEF A, B, C
<1>2. a \in Seq(A \cup B \cup C) /\ b \in Seq(A \cup B \cup C) /\ c \in Seq(A \cup B \cup C)
  BY <1>1
<1> QED
  BY <1>2

\* What concatenation keeps, for sequences of any elements
LEMMA Concatenation ==
  ASSUME NEW a, IsSequence(a), NEW b, IsSequence(b), NEW c, IsSequence(c)
  PROVE  /\ IsSequence(a \o b) /\ Len(a \o b) = Len(a) + Len(b)
         /\ (a \o b) \o c = a \o (b \o c)
         /\ a \o <<>> = a /\ <<>> \o a = a
         /\ a \o b = <<>> => a = <<>> /\ b = <<>>
<1>1. PICK S : a \in Seq(S) /\ b \in Seq(S) /\ c \in Seq(S)
  BY Together
<1>2. a \o b \in Seq(S) /\ Len(a \o b) = Len(a) + Len(b)
  BY <1>1
<1>3. IsSequence(a \o b)
  BY <1>2, SequenceOf
<1>4. (a \o b) \o c = a \o (b \o c)
  BY <1>1, ConcatAssociative
<1>5. a \o <<>> = a /\ <<>> \o a = a
  BY <1>1, ConcatEmptySeq
<1>6. a \o b = <<>> => a = <<>> /\ b = <<>>
  <2>1. a \o b = <<>> => Len(a) + Len(b) = 0
    BY <1>2
  <2>2. Len(a) \in Nat /\ Len(b) \in Nat
    BY <1>1
  <2> QED
    BY <1>1, <2>1, <2>2, EmptySeq
<1> QED
  BY <1>2, <1>3, <1>4, <1>5, <1>6

\* Concatenation is associative
LEMMA Associative ==
  ASSUME NEW a, IsSequence(a), NEW b, IsSequence(b), NEW c, IsSequence(c)
  PROVE  (a \o b) \o c = a \o (b \o c)
<1>1. PICK S : a \in Seq(S) /\ b \in Seq(S) /\ c \in Seq(S)
  BY Together
<1> QED
  BY <1>1, ConcatAssociative

\* The empty sequence and the sequences of one element
LEMMA ShortSequences ==
  /\ IsSequence(<<>>) /\ \A x : IsSequence(<<x>>) /\ <<x>> # <<>>
  /\ Len(<<>>) = 0 /\ DOMAIN <<>> = 1..0
  /\ \A x : Len(<<x>>) = 1 /\ DOMAIN <<x>> = {1} /\ <<x>>[1] = x
<1>1. <<>> \in Seq({}) /\ \A x : <<x>> \in Seq({x})
  OBVIOUS
<1>2. IsSequence(<<>>) /\ \A x : IsSequence(<<x>>)
  BY <1>1, SequenceOf
<1> QED
  BY <1>2

-----------------------------------------------------------------------------
(* A family of sequences, flattened.                                       *)

Family(g, n) == g = [i \in 1..n |-> g[i]] /\ \A i \in 1..n : IsSequence(g[i])

\* A family is a function to the sequences of some set
LEMMA FamilyOf ==
  ASSUME NEW n \in Nat, NEW g, Family(g, n)
  PROVE  \E S : g \in [1..n -> Seq(S)]
<1> DEFINE S == UNION {{g[i][k] : k \in DOMAIN g[i]} : i \in 1..n}
<1>1. ASSUME NEW i \in 1..n PROVE g[i] \in Seq(S)
  <2> DEFINE R == {g[i][k] : k \in DOMAIN g[i]}
  <2>1. g[i] \in Seq(R)
    BY DEF Family, IsSequence
  <2>2. R \subseteq S
    OBVIOUS
  <2> HIDE DEF R, S
  <2> QED
    BY <2>1, <2>2
<1> HIDE DEF S
<1>2. g \in [1..n -> Seq(S)]
  BY <1>1 DEF Family
<1> QED
  BY <1>2

\* Nothing is flattened to nothing
LEMMA FlattenedEmpty ==
  ASSUME NEW g, Family(g, 0)
  PROVE  FlattenSeq(g) = <<>>
BY FamilyOf, Flattened0

\* A flattened family is a sequence
LEMMA FlattenedIsSequence ==
  ASSUME NEW n \in Nat, NEW g, Family(g, n)
  PROVE  IsSequence(FlattenSeq(g))
<1>1. PICK S : g \in [1..n -> Seq(S)]
  BY FamilyOf
<1>2. FlattenSeq(g) \in Seq(S)
  BY <1>1, FlattenedType
<1> QED
  BY <1>2, SequenceOf

\* One sequence more, whatever the elements
LEMMA FlattenedOneMore ==
  ASSUME NEW n \in Nat, NEW g, Family(g, n), NEW h, Family(h, n + 1), Extends(h, g, n)
  PROVE  /\ IsSequence(FlattenSeq(g)) /\ IsSequence(FlattenSeq(h)) /\ IsSequence(h[n + 1])
         /\ FlattenSeq(h) = FlattenSeq(g) \o h[n + 1]
<1>1. PICK S : h \in [1..(n + 1) -> Seq(S)]
  BY FamilyOf
<1>2. g \in [1..n -> Seq(S)] /\ h[n + 1] \in Seq(S) /\ \A i \in 1..n : h[i] = g[i]
  <2>1. \A i \in 1..n : i \in 1..(n + 1) /\ h[i] = g[i]
    BY DEF Extends
  <2>2. \A i \in 1..n : g[i] \in Seq(S)
    BY <1>1, <2>1
  <2>3. n + 1 \in 1..(n + 1)
    OBVIOUS
  <2> QED
    BY <1>1, <2>1, <2>2, <2>3 DEF Family
<1>3. /\ FlattenSeq(g) \in Seq(S) /\ FlattenSeq(h) \in Seq(S)
      /\ FlattenSeq(h) = FlattenSeq(g) \o h[n + 1]
  BY <1>1, <1>2, FlattenedMore
<1> QED
  BY <1>2, <1>3, SequenceOf

\* One family after another
Follows(e, h, n, m) == \A i \in 1..m : e[n + i] = h[i]

\* Two families, one after the other, are flattened to the concatenation
LEMMA FlattenedConcatenation ==
  ASSUME NEW n \in Nat, NEW g, Family(g, n), NEW m \in Nat, NEW h, Family(h, m),
         NEW e, Family(e, n + m), Extends(e, g, n), Follows(e, h, n, m)
  PROVE  FlattenSeq(e) = FlattenSeq(g) \o FlattenSeq(h)
<1> DEFINE P(k, x, y) == /\ Family(x, k) /\ Family(y, n + k) /\ Extends(y, g, n)
                         /\ Follows(y, x, n, k)
           S == {k \in Nat : \A x, y : P(k, x, y) => FlattenSeq(y) = FlattenSeq(g) \o FlattenSeq(x)}
<1>1. 0 \in S
  <2> SUFFICES ASSUME NEW x, NEW y, P(0, x, y) PROVE FlattenSeq(y) = FlattenSeq(g) \o FlattenSeq(x)
    OBVIOUS
  <2>1. FlattenSeq(x) = <<>>
    BY FlattenedEmpty
  <2>2. y = g
    <3>1. y = [i \in 1..n |-> y[i]] /\ g = [i \in 1..n |-> g[i]]
      BY DEF Family
    <3>2. \A i \in 1..n : y[i] = g[i]
      BY DEF Extends
    <3> HIDE DEF P
    <3> QED
      BY <3>1, <3>2
  <2>3. IsSequence(FlattenSeq(g))
    BY FlattenedIsSequence
  <2> QED
    BY <2>1, <2>2, <2>3, Concatenation
<1>2. ASSUME NEW k \in Nat, k \in S PROVE k + 1 \in S
  <2> SUFFICES ASSUME NEW x, NEW y, P(k + 1, x, y) PROVE FlattenSeq(y) = FlattenSeq(g) \o FlattenSeq(x)
    OBVIOUS
  <2> DEFINE v == [i \in 1..k |-> x[i]]
             w == [i \in 1..(n + k) |-> y[i]]
  <2>1. /\ \A i \in 1..k : v[i] = x[i] /\ i \in 1..(k + 1) /\ n + i \in 1..(n + k)
        /\ \A i \in 1..(n + k) : w[i] = y[i] /\ i \in 1..(n + (k + 1))
        /\ \A i \in 1..n : i \in 1..(n + k)
    OBVIOUS
  <2>2. /\ v = [i \in 1..k |-> v[i]] /\ w = [i \in 1..(n + k) |-> w[i]]
    OBVIOUS
  <2> HIDE DEF v, w
  <2>3. Family(v, k) /\ Family(w, n + k) /\ Extends(x, v, k) /\ Extends(y, w, n + k)
    BY <2>1, <2>2 DEF Family, Extends
  <2>4. Extends(w, g, n) /\ Follows(w, v, n, k)
    <3>1. \A i \in 1..n : w[i] = g[i]
      BY <2>1 DEF Extends
    <3>2. \A i \in 1..k : w[n + i] = v[i]
      BY <2>1 DEF Follows
    <3> QED
      BY <3>1, <3>2 DEF Extends, Follows
  <2>5. FlattenSeq(w) = FlattenSeq(g) \o FlattenSeq(v)
    BY <1>2, <2>3, <2>4
  <2>6. Family(x, k + 1) /\ Family(y, (n + k) + 1) /\ n + k \in Nat
    <3>1. n + (k + 1) = (n + k) + 1
      OBVIOUS
    <3> QED
      BY <3>1
  <2>7. /\ IsSequence(FlattenSeq(v)) /\ IsSequence(x[k + 1])
        /\ FlattenSeq(x) = FlattenSeq(v) \o x[k + 1]
    BY <2>3, <2>6, FlattenedOneMore
  <2>8. FlattenSeq(y) = FlattenSeq(w) \o y[(n + k) + 1]
    BY <2>3, <2>6, FlattenedOneMore
  <2>9. y[(n + k) + 1] = x[k + 1]
    <3>1. k + 1 \in 1..(k + 1) /\ n + (k + 1) = (n + k) + 1
      OBVIOUS
    <3>2. \A i \in 1..(k + 1) : y[n + i] = x[i]
      BY DEF Follows
    <3>3. y[n + (k + 1)] = x[k + 1]
      BY <3>1, <3>2
    <3> QED
      BY <3>1, <3>3
  <2>10. IsSequence(FlattenSeq(g))
    BY FlattenedIsSequence
  <2>11. (FlattenSeq(g) \o FlattenSeq(v)) \o x[k + 1] = FlattenSeq(g) \o (FlattenSeq(v) \o x[k + 1])
    <3> DEFINE p == FlattenSeq(g)
               q == FlattenSeq(v)
               r == x[k + 1]
    <3>1. IsSequence(p) /\ IsSequence(q) /\ IsSequence(r)
      BY <2>7, <2>10
    <3> HIDE DEF p, q, r, P, S
    <3>2. (p \o q) \o r = p \o (q \o r)
      BY <3>1, Associative
    <3> QED
      BY <3>2 DEF p, q, r
  <2> QED
    BY <2>5, <2>7, <2>8, <2>9, <2>11
<1>3. Nat \subseteq S
  <2> HIDE DEF S
  <2> QED
    BY <1>1, <1>2, NatSet
<1>4. P(m, h, e)
  OBVIOUS
<1> HIDE DEF P
<1> QED
  BY <1>3, <1>4

\* A family that is one more, by its function
Over(g, D) == g = [i \in D |-> g[i]]
Grows(g, h, n) == \A i \in 1..n : IsSequence(g[i]) /\ h[i] = g[i]

\* What is read off the elements of a sequence, when it has one element more
LEMMA PointwiseMore ==
  ASSUME NEW s, IsSequence(s), NEW x, NEW g, NEW h,
         Over(g, DOMAIN s), Over(h, DOMAIN Append(s, x)),
         Grows(g, h, Len(s)), IsSequence(h[Len(s) + 1])
  PROVE  /\ IsSequence(FlattenSeq(g)) /\ IsSequence(FlattenSeq(h))
         /\ FlattenSeq(h) = FlattenSeq(g) \o h[Len(s) + 1]
<1> DEFINE n == Len(s)
<1>1. n \in Nat /\ DOMAIN s = 1..n /\ DOMAIN Append(s, x) = 1..(n + 1)
  BY Appended
<1> HIDE DEF n
<1>2. \A i \in 1..(n + 1) : i \in 1..n \/ i = n + 1
  BY <1>1
<1>3. Family(g, n)
  BY <1>1 DEF Family, Over, Grows, n
<1>4. Family(h, n + 1)
  BY <1>1, <1>2 DEF Family, Over, Grows, n
<1>5. Extends(h, g, n)
  BY DEF Extends, Grows, n
<1> QED
  BY <1>1, <1>3, <1>4, <1>5, FlattenedOneMore DEF n

-----------------------------------------------------------------------------
(* The pieces of a list of frames, or of chunks, or of blocks, when there  *)
(* is one more.                                                            *)

TextEvents == {"chunk", "text.delta", "reasoning.delta"}

\* The fields of a frame that hold sequences, and what a frame has to say.
Speaks(frame) ==
  /\ frame.event \in TextEvents => IsSequence(frame.text)
  /\ frame.event = "chunk" => IsSequence(frame.reasoning) /\ IsSequence(frame.calls)
AllSpeak(frames) == \A i \in 1..Len(frames) : Speaks(frames[i])

TextIn(frame, event) == IF frame.event = event THEN frame.text ELSE <<>>
ReasoningIn(frame) == IF frame.event = "chunk" THEN frame.reasoning ELSE <<>>
CallsIn(frame) == IF frame.event = "chunk" THEN frame.calls ELSE <<>>
BlockCall(frame) == frame.event = "content_block_delta" /\ frame.kind = "tool_use"
DumpIn(frame) == IF BlockCall(frame) THEN <<frame.delta>> ELSE <<>>
Dumps(frames) == FlattenSeq([i \in DOMAIN frames |-> DumpIn(frames[i])])

\* What a frame more tells
LEMMA FrameMore ==
  ASSUME NEW s, IsSequence(s), NEW x, AllSpeak(s), Speaks(x)
  PROVE  LET t == Append(s, x)
         IN /\ AllSpeak(t)
            /\ \A event \in TextEvents :
                 /\ IsSequence(Texts(s, event)) /\ IsSequence(TextIn(x, event))
                 /\ Texts(t, event) = Texts(s, event) \o TextIn(x, event)
            /\ IsSequence(Reasonings(s)) /\ IsSequence(ReasoningIn(x))
            /\ Reasonings(t) = Reasonings(s) \o ReasoningIn(x)
            /\ IsSequence(ToldCalls(s)) /\ IsSequence(CallsIn(x))
            /\ ToldCalls(t) = ToldCalls(s) \o CallsIn(x)
            /\ IsSequence(Dumps(s)) /\ IsSequence(DumpIn(x))
            /\ Dumps(t) = Dumps(s) \o DumpIn(x)
<1> DEFINE t == Append(s, x)
<1>1. /\ Len(s) \in Nat /\ DOMAIN s = 1..Len(s) /\ DOMAIN t = 1..(Len(s) + 1)
      /\ Len(t) = Len(s) + 1
      /\ t[Len(s) + 1] = x /\ \A i \in 1..Len(s) : t[i] = s[i]
  BY Appended
<1> HIDE DEF t
<1>2. /\ \A i \in 1..Len(s) : i \in DOMAIN s /\ i \in DOMAIN t /\ t[i] = s[i] /\ Speaks(s[i])
      /\ Len(s) + 1 \in DOMAIN t
  BY <1>1 DEF AllSpeak
<1>3. AllSpeak(t)
  BY <1>1 DEF AllSpeak
<1>4. ASSUME NEW event \in TextEvents
      PROVE  /\ IsSequence(Texts(s, event)) /\ IsSequence(TextIn(x, event))
             /\ Texts(t, event) = Texts(s, event) \o TextIn(x, event)
  <2> DEFINE g == [i \in DOMAIN s |-> TextIn(s[i], event)]
             h == [i \in DOMAIN t |-> TextIn(t[i], event)]
  <2>1. ASSUME NEW f, Speaks(f) PROVE IsSequence(TextIn(f, event))
    BY <2>1, ShortSequences DEF Speaks, TextIn
  <2>2. /\ Grows(g, h, Len(s)) /\ h[Len(s) + 1] = TextIn(x, event) /\ IsSequence(h[Len(s) + 1])
    BY <1>1, <1>2, <2>1 DEF Grows
  <2>3. Over(g, DOMAIN s) /\ Over(h, DOMAIN t)
    BY DEF Over
  <2>4. Texts(s, event) = FlattenSeq(g) /\ Texts(t, event) = FlattenSeq(h)
    BY DEF Texts, TextIn
  <2> HIDE DEF g, h
  <2>5. /\ IsSequence(FlattenSeq(g)) /\ FlattenSeq(h) = FlattenSeq(g) \o h[Len(s) + 1]
    BY <2>2, <2>3, PointwiseMore DEF t
  <2> QED
    BY <2>2, <2>4, <2>5
<1>5. /\ IsSequence(Reasonings(s)) /\ IsSequence(ReasoningIn(x))
      /\ Reasonings(t) = Reasonings(s) \o ReasoningIn(x)
  <2> DEFINE g == [i \in DOMAIN s |-> ReasoningIn(s[i])]
             h == [i \in DOMAIN t |-> ReasoningIn(t[i])]
  <2>1. ASSUME NEW f, Speaks(f) PROVE IsSequence(ReasoningIn(f))
    BY <2>1, ShortSequences DEF Speaks, ReasoningIn
  <2>2. /\ Grows(g, h, Len(s)) /\ h[Len(s) + 1] = ReasoningIn(x) /\ IsSequence(h[Len(s) + 1])
    BY <1>1, <1>2, <2>1 DEF Grows
  <2>3. Over(g, DOMAIN s) /\ Over(h, DOMAIN t)
    BY DEF Over
  <2>4. Reasonings(s) = FlattenSeq(g) /\ Reasonings(t) = FlattenSeq(h)
    BY DEF Reasonings, ReasoningIn
  <2> HIDE DEF g, h
  <2>5. /\ IsSequence(FlattenSeq(g)) /\ FlattenSeq(h) = FlattenSeq(g) \o h[Len(s) + 1]
    BY <2>2, <2>3, PointwiseMore DEF t
  <2> QED
    BY <2>2, <2>4, <2>5
<1>6. /\ IsSequence(ToldCalls(s)) /\ IsSequence(CallsIn(x))
      /\ ToldCalls(t) = ToldCalls(s) \o CallsIn(x)
  <2> DEFINE g == [i \in DOMAIN s |-> CallsIn(s[i])]
             h == [i \in DOMAIN t |-> CallsIn(t[i])]
  <2>1. ASSUME NEW f, Speaks(f) PROVE IsSequence(CallsIn(f))
    BY <2>1, ShortSequences DEF Speaks, CallsIn
  <2>2. /\ Grows(g, h, Len(s)) /\ h[Len(s) + 1] = CallsIn(x) /\ IsSequence(h[Len(s) + 1])
    BY <1>1, <1>2, <2>1 DEF Grows
  <2>3. Over(g, DOMAIN s) /\ Over(h, DOMAIN t)
    BY DEF Over
  <2>4. ToldCalls(s) = FlattenSeq(g) /\ ToldCalls(t) = FlattenSeq(h)
    BY DEF ToldCalls, CallsIn
  <2> HIDE DEF g, h
  <2>5. /\ IsSequence(FlattenSeq(g)) /\ FlattenSeq(h) = FlattenSeq(g) \o h[Len(s) + 1]
    BY <2>2, <2>3, PointwiseMore DEF t
  <2> QED
    BY <2>2, <2>4, <2>5
<1>7. /\ IsSequence(Dumps(s)) /\ IsSequence(DumpIn(x))
      /\ Dumps(t) = Dumps(s) \o DumpIn(x)
  <2> DEFINE g == [i \in DOMAIN s |-> DumpIn(s[i])]
             h == [i \in DOMAIN t |-> DumpIn(t[i])]
  <2>1. \A f : IsSequence(DumpIn(f))
    BY ShortSequences DEF DumpIn
  <2>2. /\ Grows(g, h, Len(s)) /\ h[Len(s) + 1] = DumpIn(x) /\ IsSequence(h[Len(s) + 1])
    BY <1>1, <1>2, <2>1 DEF Grows
  <2>3. Over(g, DOMAIN s) /\ Over(h, DOMAIN t)
    BY DEF Over
  <2>4. Dumps(s) = FlattenSeq(g) /\ Dumps(t) = FlattenSeq(h)
    BY DEF Dumps
  <2> HIDE DEF g, h
  <2>5. /\ IsSequence(FlattenSeq(g)) /\ FlattenSeq(h) = FlattenSeq(g) \o h[Len(s) + 1]
    BY <2>2, <2>3, PointwiseMore DEF t
  <2> QED
    BY <2>2, <2>4, <2>5
<1> QED
  BY <1>3, <1>4, <1>5, <1>6, <1>7 DEF t

-----------------------------------------------------------------------------
(* What llama-server has said.                                             *)

\* A chunk has one fragment at most, and the fields that hold sequences do.
ArgumentsSay(fragments) == \A k \in DOMAIN fragments : IsSequence(fragments[k].arguments)
Telling(chunk) ==
  /\ IsSequence(chunk.text) /\ IsSequence(chunk.reasoning)
  /\ chunk.fragments = <<>> \/ \E f \in {chunk.fragments[1]} : chunk.fragments = <<f>>
  /\ ArgumentsSay(chunk.fragments)
AllTelling(chunks) == \A i \in 1..Len(chunks) : Telling(chunks[i])

ArgumentsIn(chunk, index) ==
  IF Holds(chunk, index) THEN FragmentOf(chunk, index).arguments ELSE <<>>
ArgumentsOf(chunks, index) == FlattenSeq([i \in DOMAIN chunks |-> ArgumentsIn(chunks[i], index)])
TextOf(chunks) == FlattenSeq([i \in DOMAIN chunks |-> chunks[i].text])
ReasoningOf(chunks) == FlattenSeq([i \in DOMAIN chunks |-> chunks[i].reasoning])

\* What a chunk says of the arguments of a call
LEMMA ArgumentsAreSequences ==
  ASSUME NEW chunk, Telling(chunk), NEW index
  PROVE  IsSequence(ArgumentsIn(chunk, index))
<1>1. CASE Holds(chunk, index)
  <2> DEFINE k == CHOOSE k \in DOMAIN chunk.fragments : chunk.fragments[k].index = index
  <2>1. k \in DOMAIN chunk.fragments /\ FragmentOf(chunk, index) = chunk.fragments[k]
    BY <1>1 DEF Holds, FragmentOf
  <2> HIDE DEF k
  <2>2. IsSequence(FragmentOf(chunk, index).arguments)
    BY <2>1 DEF Telling, ArgumentsSay
  <2> QED
    BY <1>1, <2>2 DEF ArgumentsIn
<1>2. CASE ~Holds(chunk, index)
  BY <1>2, ShortSequences DEF ArgumentsIn
<1> QED
  BY <1>1, <1>2

\* One chunk more adds what it says, and no more
LEMMA ChunkMore ==
  ASSUME NEW s, IsSequence(s), NEW x, AllTelling(s), Telling(x)
  PROVE  LET t == Append(s, x)
         IN /\ AllTelling(t)
            /\ IsSequence(TextOf(s)) /\ TextOf(t) = TextOf(s) \o x.text
            /\ IsSequence(ReasoningOf(s)) /\ ReasoningOf(t) = ReasoningOf(s) \o x.reasoning
            /\ \A index : /\ IsSequence(ArgumentsOf(s, index))
                          /\ ArgumentsOf(t, index) = ArgumentsOf(s, index) \o ArgumentsIn(x, index)
<1> DEFINE t == Append(s, x)
<1>1. /\ Len(s) \in Nat /\ DOMAIN s = 1..Len(s) /\ DOMAIN t = 1..(Len(s) + 1)
      /\ Len(t) = Len(s) + 1
      /\ t[Len(s) + 1] = x /\ \A i \in 1..Len(s) : t[i] = s[i]
  BY Appended
<1> HIDE DEF t
<1>2. /\ \A i \in 1..Len(s) : i \in DOMAIN s /\ i \in DOMAIN t /\ t[i] = s[i] /\ Telling(s[i])
      /\ Len(s) + 1 \in DOMAIN t
  BY <1>1 DEF AllTelling
<1>3. AllTelling(t)
  BY <1>1 DEF AllTelling
<1>4. IsSequence(TextOf(s)) /\ TextOf(t) = TextOf(s) \o x.text
  <2> DEFINE g == [i \in DOMAIN s |-> s[i].text]
             h == [i \in DOMAIN t |-> t[i].text]
  <2>1. /\ Grows(g, h, Len(s)) /\ h[Len(s) + 1] = x.text /\ IsSequence(h[Len(s) + 1])
    BY <1>1, <1>2 DEF Grows, Telling
  <2>2. Over(g, DOMAIN s) /\ Over(h, DOMAIN t)
    BY DEF Over
  <2>3. TextOf(s) = FlattenSeq(g) /\ TextOf(t) = FlattenSeq(h)
    BY DEF TextOf
  <2> HIDE DEF g, h
  <2>4. /\ IsSequence(FlattenSeq(g)) /\ FlattenSeq(h) = FlattenSeq(g) \o h[Len(s) + 1]
    BY <2>1, <2>2, PointwiseMore DEF t
  <2> QED
    BY <2>1, <2>3, <2>4
<1>5. IsSequence(ReasoningOf(s)) /\ ReasoningOf(t) = ReasoningOf(s) \o x.reasoning
  <2> DEFINE g == [i \in DOMAIN s |-> s[i].reasoning]
             h == [i \in DOMAIN t |-> t[i].reasoning]
  <2>1. /\ Grows(g, h, Len(s)) /\ h[Len(s) + 1] = x.reasoning /\ IsSequence(h[Len(s) + 1])
    BY <1>1, <1>2 DEF Grows, Telling
  <2>2. Over(g, DOMAIN s) /\ Over(h, DOMAIN t)
    BY DEF Over
  <2>3. ReasoningOf(s) = FlattenSeq(g) /\ ReasoningOf(t) = FlattenSeq(h)
    BY DEF ReasoningOf
  <2> HIDE DEF g, h
  <2>4. /\ IsSequence(FlattenSeq(g)) /\ FlattenSeq(h) = FlattenSeq(g) \o h[Len(s) + 1]
    BY <2>1, <2>2, PointwiseMore DEF t
  <2> QED
    BY <2>1, <2>3, <2>4
<1>6. ASSUME NEW index
      PROVE  /\ IsSequence(ArgumentsOf(s, index))
             /\ ArgumentsOf(t, index) = ArgumentsOf(s, index) \o ArgumentsIn(x, index)
  <2> DEFINE g == [i \in DOMAIN s |-> ArgumentsIn(s[i], index)]
             h == [i \in DOMAIN t |-> ArgumentsIn(t[i], index)]
  <2>1. /\ Grows(g, h, Len(s)) /\ h[Len(s) + 1] = ArgumentsIn(x, index)
        /\ IsSequence(h[Len(s) + 1])
    BY <1>1, <1>2, ArgumentsAreSequences DEF Grows
  <2>2. Over(g, DOMAIN s) /\ Over(h, DOMAIN t)
    BY DEF Over
  <2>3. ArgumentsOf(s, index) = FlattenSeq(g) /\ ArgumentsOf(t, index) = FlattenSeq(h)
    BY DEF ArgumentsOf
  <2> HIDE DEF g, h
  <2>4. /\ IsSequence(FlattenSeq(g)) /\ FlattenSeq(h) = FlattenSeq(g) \o h[Len(s) + 1]
    BY <2>1, <2>2, PointwiseMore DEF t
  <2> QED
    BY <2>1, <2>3, <2>4
<1> QED
  BY <1>3, <1>4, <1>5, <1>6 DEF t

-----------------------------------------------------------------------------
(* The first fragment of a call.                                           *)

HoldingIn(chunks, index) == {i \in DOMAIN chunks : Holds(chunks[i], index)}
FirstIn(chunks, index) ==
  FragmentOf(chunks[CHOOSE i \in HoldingIn(chunks, index) :
                      \A k \in HoldingIn(chunks, index) : i <= k], index)

\* A chunk holds a call when its fragment has the index
LEMMA OneFragment ==
  ASSUME NEW chunk, NEW index
  PROVE  /\ chunk.fragments = <<>> => ~Holds(chunk, index)
         /\ \A f : chunk.fragments = <<f>> =>
              /\ Holds(chunk, index) <=> f.index = index
              /\ f.index = index => FragmentOf(chunk, index) = f
<1>1. chunk.fragments = <<>> => ~Holds(chunk, index)
  BY DEF Holds
<1>2. ASSUME NEW f, chunk.fragments = <<f>>
      PROVE  /\ Holds(chunk, index) <=> f.index = index
             /\ f.index = index => FragmentOf(chunk, index) = f
  <2>1. DOMAIN chunk.fragments = {1} /\ chunk.fragments[1] = f
    BY <1>2
  <2> QED
    BY <2>1 DEF Holds, FragmentOf
<1> QED
  BY <1>1, <1>2

\* A set of numbers has a least one
LEMMA Least ==
  ASSUME NEW n \in Nat, NEW H, H \subseteq 1..n, H # {}
  PROVE  \E i \in H : \A k \in H : i <= k
<1> SUFFICES ASSUME \A i \in H : \E k \in H : k < i PROVE FALSE
  <2>1. ASSUME ~\E i \in H : \A k \in H : i <= k PROVE \A i \in H : \E k \in H : k < i
    BY <2>1
  <2> QED
    BY <2>1
<1> DEFINE S == {m \in Nat : \A i \in H : i > m}
<1>1. 0 \in S
  OBVIOUS
<1>2. ASSUME NEW m \in Nat, m \in S PROVE m + 1 \in S
  <2>1. ASSUME NEW i \in H PROVE i > m + 1
    <3>1. PICK k \in H : k < i
      OBVIOUS
    <3> QED
      BY <1>2, <3>1
  <2> QED
    BY <2>1
<1>3. Nat \subseteq S
  <2> HIDE DEF S
  <2> QED
    BY <1>1, <1>2, NatSet
<1>4. \A i \in H : i > n
  BY <1>3
<1>5. \A i \in H : i \in 1..n
  OBVIOUS
<1>6. \A i \in 1..n : ~(i > n)
  OBVIOUS
<1> QED
  BY <1>4, <1>5, <1>6

\* A call is begun by the first fragment of its index
LEMMA FirstMore ==
  ASSUME NEW s, IsSequence(s), NEW x, NEW index
  PROVE  LET t == Append(s, x)
         IN /\ HoldingIn(t, index) # {} <=> HoldingIn(s, index) # {} \/ Holds(x, index)
            /\ HoldingIn(s, index) # {} => FirstIn(t, index) = FirstIn(s, index)
            /\ HoldingIn(s, index) = {} /\ Holds(x, index) =>
                 FirstIn(t, index) = FragmentOf(x, index)
<1> DEFINE t == Append(s, x)
           n == Len(s)
           H == HoldingIn(s, index)
           K == HoldingIn(t, index)
<1>1. /\ n \in Nat /\ DOMAIN s = 1..n /\ DOMAIN t = 1..(n + 1)
      /\ t[n + 1] = x /\ \A i \in 1..n : t[i] = s[i]
  BY Appended
<1> HIDE DEF t, n
<1>2. H \subseteq 1..n /\ K = H \cup (IF Holds(x, index) THEN {n + 1} ELSE {})
  <2>1. \A i \in 1..(n + 1) : i \in 1..n \/ i = n + 1
    BY <1>1
  <2>2. n + 1 \in 1..(n + 1) /\ \A i \in 1..n : i \in 1..(n + 1)
    BY <1>1
  <2> QED
    BY <1>1, <2>1, <2>2 DEF HoldingIn
<1>3. FirstIn(t, index) = FragmentOf(t[CHOOSE i \in K : \A k \in K : i <= k], index)
      /\ FirstIn(s, index) = FragmentOf(s[CHOOSE i \in H : \A k \in H : i <= k], index)
  BY DEF FirstIn
<1> HIDE DEF H, K
<1>4. CASE H # {}
  <2> DEFINE a == CHOOSE i \in H : \A k \in H : i <= k
             b == CHOOSE i \in K : \A k \in K : i <= k
  <2>1. a \in H /\ \A k \in H : a <= k
    BY <1>1, <1>2, <1>4, Least
  <2>2. a \in 1..n
    BY <1>2, <2>1
  <2>3. a \in K /\ \A k \in K : a <= k
    <3> HIDE DEF a
    <3>1. a \in K /\ a <= n + 1
      BY <1>1, <1>2, <2>1, <2>2
    <3>2. \A k \in K : k \in H \/ k = n + 1
      BY <1>2
    <3> QED
      BY <2>1, <3>1, <3>2
  <2>4. b \in K /\ \A k \in K : b <= k
    BY <2>3
  <2>5. K \subseteq Int
    BY <1>1, <1>2
  <2> HIDE DEF a, b
  <2>6. a = b
    BY <2>3, <2>4, <2>5
  <2>7. FirstIn(t, index) = FirstIn(s, index)
    BY <1>1, <1>3, <2>2, <2>6 DEF a, b
  <2> QED
    BY <1>2, <1>4, <2>7 DEF t, H, K
<1>5. CASE H = {}
  <2>1. CASE Holds(x, index)
    <3>1. K = {n + 1} /\ n + 1 <= n + 1
      BY <1>1, <1>2, <1>5, <2>1
    <3>2. (CHOOSE i \in K : \A k \in K : i <= k) = n + 1
      BY <3>1
    <3>3. FirstIn(t, index) = FragmentOf(x, index)
      BY <1>1, <1>3, <3>2
    <3> QED
      BY <1>5, <2>1, <3>1, <3>3 DEF t, H, K
  <2>2. CASE ~Holds(x, index)
    BY <1>2, <1>5, <2>2 DEF t, H, K
  <2> QED
    BY <2>1, <2>2
<1> QED
  BY <1>4, <1>5

-----------------------------------------------------------------------------
(* The assembler holds what llama-server has said of the calls.            *)

CallIn(chunks, index) ==
  [index |-> index, id |-> FirstIn(chunks, index).id, name |-> FirstIn(chunks, index).name,
   arguments |-> ArgumentsOf(chunks, index)]
BegunIn(chunks) == {index \in 0..1 : HoldingIn(chunks, index) # {}}

\* The calls begin in order, and each with its identity.
InOrder(chunks) ==
  /\ BegunIn(chunks) \in {{}, {0}, {0, 1}}
  /\ \A index \in 0..1 :
       IF index \in BegunIn(chunks)
       THEN FirstIn(chunks, index).id = Start(index).id /\ FirstIn(chunks, index).name = Start(index).name
       ELSE ArgumentsOf(chunks, index) = <<>>

SlotIn(chunks, index) ==
  [id |-> FirstIn(chunks, index).id, name |-> FirstIn(chunks, index).name,
   arguments |-> ArgumentsOf(chunks, index)]
Complete(f, chunks) ==
  DOMAIN f = BegunIn(chunks) /\ \A index \in DOMAIN f : f[index] = SlotIn(chunks, index)

\* The fragments that llama-server may send.
Sendable(fragments) == fragments = <<>> \/ \E f \in Fragments : fragments = <<f>>

\* The calls of Streams, by the chunks that were sent
LEMMA BegunSaid ==
  /\ Begun = BegunIn(sent)
  /\ \A index : CallOf(index) = CallIn(sent, index)
  /\ SaidText = TextOf(sent) /\ SaidReasoning = ReasoningOf(sent)
<1>1. \A index : Holding(index) = HoldingIn(sent, index)
  BY DEF Holding, HoldingIn
<1>2. Begun = BegunIn(sent)
  BY DEF Begun, BegunIn, HoldingIn, Holds
<1>3. \A index : FirstOf(index) = FirstIn(sent, index)
  BY <1>1 DEF FirstOf, FirstIn
<1>4. \A index : CallOf(index) = CallIn(sent, index)
  BY <1>3 DEF CallOf, CallIn, ArgumentsOf, ArgumentsIn
<1>5. SaidText = TextOf(sent) /\ SaidReasoning = ReasoningOf(sent)
  BY DEF SaidText, SaidReasoning, TextOf, ReasoningOf
<1> QED
  BY <1>2, <1>4, <1>5

\* As many calls as there are slots
LEMMA SmallSets ==
  /\ Cardinality({}) = 0 /\ Cardinality({0}) = 1 /\ Cardinality({0, 1}) = 2
<1>1. Cardinality({}) = 0
  BY FS_EmptySet
<1>2. IsFiniteSet({0}) /\ Cardinality({0}) = 1
  BY FS_Singleton
<1>3. {0, 1} = {0} \cup {1} /\ 1 \notin {0}
  OBVIOUS
<1>4. Cardinality({0, 1}) = 2
  BY <1>2, <1>3, FS_AddElement
<1> QED
  BY <1>1, <1>2, <1>4

\* A fragment begins the next call, or goes on with the last one
LEMMA NextFragment ==
  ASSUME InOrder(sent), NEW f \in Fragments
  PROVE  /\ f.index \in 0..1 /\ IsSequence(f.arguments)
         /\ \/ /\ f = Start(f.index) /\ f.index \notin BegunIn(sent) /\ f.arguments = <<>>
               /\ f.id # Nothing /\ f.name # Nothing
               /\ BegunIn(sent) \cup {f.index} \in {{}, {0}, {0, 1}}
            \/ f.id = Nothing /\ f.name = Nothing /\ f.index \in BegunIn(sent)
<1>1. Current = Cardinality(BegunIn(sent)) - 1
  BY BegunSaid DEF Current
<1>2. CASE \E i \in {Current + 1} \cap 0..1 : f = Start(i)
  <2>1. PICK i \in {Current + 1} \cap 0..1 : f = Start(i)
    BY <1>2
  <2>2. /\ f.index = i /\ f.arguments = <<>>
        /\ f.id \in {"c1", "c2"} /\ f.name \in {"f", "g"}
    <3>1. /\ f.index = i /\ f.arguments = <<>>
          /\ f.id = (IF i = 0 THEN "c1" ELSE "c2")
          /\ f.name = (IF i = 0 THEN "f" ELSE "g")
      BY <2>1 DEF Start
    <3> QED
      BY <3>1
  <2>3. f.id # Nothing /\ f.name # Nothing
    BY <2>2, Zenon DEF Nothing
  <2>4. i \notin BegunIn(sent) /\ BegunIn(sent) \cup {i} \in {{}, {0}, {0, 1}}
    <3>1. CASE BegunIn(sent) = {}
      <4>1. i = 0
        BY <1>1, <2>1, <3>1, SmallSets
      <4> QED
        BY <3>1, <4>1
    <3>2. CASE BegunIn(sent) = {0}
      <4>1. i = 1
        BY <1>1, <2>1, <3>2, SmallSets
      <4> QED
        BY <3>2, <4>1
    <3>3. CASE BegunIn(sent) = {0, 1}
      BY <1>1, <2>1, <3>3, SmallSets
    <3> QED
      BY <3>1, <3>2, <3>3 DEF InOrder
  <2>5. f.index \in 0..1 /\ IsSequence(f.arguments) /\ f = Start(f.index)
    BY <2>1, <2>2, ShortSequences
  <2> HIDE DEF Nothing
  <2> QED
    BY <2>2, <2>3, <2>4, <2>5
<1>3. CASE Current # -1 /\ \E piece : f = Part(piece)
  <2>1. PICK piece : f = Part(piece)
    BY <1>3
  <2>2. f.index = Current /\ f.arguments = <<piece>> /\ f.id = Nothing /\ f.name = Nothing
    <3>1. f = [index |-> Current, id |-> Nothing, name |-> Nothing, arguments |-> <<piece>>]
      BY <2>1, Zenon DEF Part, Nothing
    <3> QED
      BY <3>1
  <2>3. Current \in BegunIn(sent) /\ Current \in 0..1
    <3>1. CASE BegunIn(sent) = {}
      <4>1. Current = 0 - 1
        BY <1>1, <3>1, SmallSets
      <4> QED
        BY <1>3, <4>1
    <3>2. CASE BegunIn(sent) = {0}
      <4>1. Current = 0
        BY <1>1, <3>2, SmallSets
      <4> QED
        BY <3>2, <4>1
    <3>3. CASE BegunIn(sent) = {0, 1}
      <4>1. Current = 1
        BY <1>1, <3>3, SmallSets
      <4> QED
        BY <3>3, <4>1
    <3> QED
      BY <3>1, <3>2, <3>3 DEF InOrder
  <2> QED
    BY <2>2, <2>3, ShortSequences
<1> QED
  BY <1>2, <1>3, Zenon DEF Fragments

\* A chunk without a fragment changes nothing in the calls
LEMMA NoFragmentMore ==
  ASSUME IsSequence(sent), AllTelling(sent), NEW chunk, Telling(chunk), NEW t, t = Append(sent,
         chunk),
         chunk.fragments = <<>>
  PROVE  /\ BegunIn(t) = BegunIn(sent)
         /\ \A index \in 0..1 : ArgumentsOf(t, index) = ArgumentsOf(sent, index)
         /\ \A index \in BegunIn(sent) : FirstIn(t, index) = FirstIn(sent, index)
<1>1. ASSUME NEW index
      PROVE  ~Holds(chunk, index) /\ ArgumentsOf(t, index) = ArgumentsOf(sent, index)
  <2>1. ~Holds(chunk, index) /\ ArgumentsIn(chunk, index) = <<>>
    BY OneFragment DEF ArgumentsIn
  <2>2. /\ IsSequence(ArgumentsOf(sent, index))
        /\ ArgumentsOf(t, index) = ArgumentsOf(sent, index) \o ArgumentsIn(chunk, index)
    BY ChunkMore
  <2>3. ArgumentsOf(sent, index) \o <<>> = ArgumentsOf(sent, index)
    BY <2>2, Concatenation
  <2> QED
    BY <2>1, <2>2, <2>3
<1>2. \A index : /\ HoldingIn(t, index) # {} <=> HoldingIn(sent, index) # {} \/ Holds(chunk, index)
                 /\ HoldingIn(sent, index) # {} => FirstIn(t, index) = FirstIn(sent, index)
  BY FirstMore
<1> QED
  BY <1>1, <1>2 DEF BegunIn

Carries(chunk, f) == chunk.fragments = <<f>>
ArgumentsGrow(s, t, f) ==
  \A index \in 0..1 :
    ArgumentsOf(t, index) =
      IF index = f.index THEN ArgumentsOf(s, index) \o f.arguments ELSE ArgumentsOf(s, index)
FirstsKept(s, t, f) ==
  \A index \in BegunIn(t) :
    FirstIn(t, index) = IF index \in BegunIn(s) THEN FirstIn(s, index) ELSE f

\* One with a fragment changes the call that it is of
LEMMA FragmentMore ==
  ASSUME IsSequence(sent), AllTelling(sent), NEW chunk, Telling(chunk), NEW t, t = Append(sent,
         chunk),
         NEW f, Carries(chunk, f), f.index \in 0..1
  PROVE  /\ BegunIn(t) = BegunIn(sent) \cup {f.index}
         /\ ArgumentsGrow(sent, t, f)
         /\ FirstsKept(sent, t, f)
<1>1. \A index : /\ Holds(chunk, index) <=> f.index = index
                 /\ f.index = index => FragmentOf(chunk, index) = f
  BY OneFragment DEF Carries
<1>2. ASSUME NEW index
      PROVE  ArgumentsOf(t, index) = IF index = f.index THEN ArgumentsOf(sent, index) \o f.arguments
                                     ELSE ArgumentsOf(sent, index)
  <2>1. ArgumentsIn(chunk, index) = IF index = f.index THEN f.arguments ELSE <<>>
    BY <1>1 DEF ArgumentsIn
  <2>2. /\ IsSequence(ArgumentsOf(sent, index))
        /\ ArgumentsOf(t, index) = ArgumentsOf(sent, index) \o ArgumentsIn(chunk, index)
    BY ChunkMore
  <2>3. ArgumentsOf(sent, index) \o <<>> = ArgumentsOf(sent, index)
    BY <2>2, Concatenation
  <2> QED
    BY <2>1, <2>2, <2>3
<1>3. \A index : /\ HoldingIn(t, index) # {} <=> HoldingIn(sent, index) # {} \/ Holds(chunk, index)
                 /\ HoldingIn(sent, index) # {} => FirstIn(t, index) = FirstIn(sent, index)
                 /\ HoldingIn(sent, index) = {} /\ Holds(chunk, index) =>
                      FirstIn(t, index) = FragmentOf(chunk, index)
  BY FirstMore
<1>4. \A index \in 0..1 : index \in BegunIn(t) <=> index \in BegunIn(sent) \/ index = f.index
  BY <1>1, <1>3 DEF BegunIn
<1>5. BegunIn(t) = BegunIn(sent) \cup {f.index}
  BY <1>4 DEF BegunIn
<1>6. ASSUME NEW index \in BegunIn(t)
      PROVE  FirstIn(t, index) = IF index \in BegunIn(sent) THEN FirstIn(sent, index) ELSE f
  BY <1>1, <1>3, <1>6 DEF BegunIn
<1>7. ArgumentsGrow(sent, t, f) /\ FirstsKept(sent, t, f)
  BY <1>2, <1>6 DEF ArgumentsGrow, FirstsKept
<1> QED
  BY <1>5, <1>7

\* Another chunk keeps the calls in order
LEMMA StaysInOrder ==
  ASSUME IsSequence(sent), AllTelling(sent), InOrder(sent),
         NEW chunk, Telling(chunk), Sendable(chunk.fragments), NEW t, t = Append(sent, chunk)
  PROVE  InOrder(t) /\ (chunk.fragments # <<>> => BegunIn(t) # {})
<1>1. CASE chunk.fragments = <<>>
  <2>1. /\ BegunIn(t) = BegunIn(sent)
        /\ \A index \in 0..1 : ArgumentsOf(t, index) = ArgumentsOf(sent, index)
        /\ \A index \in BegunIn(sent) : FirstIn(t, index) = FirstIn(sent, index)
    BY <1>1, NoFragmentMore
  <2> QED
    BY <1>1, <2>1 DEF InOrder
<1>2. ASSUME NEW f \in Fragments, chunk.fragments = <<f>>
      PROVE  InOrder(t) /\ BegunIn(t) # {}
  <2>1. /\ f.index \in 0..1
        /\ \/ /\ f = Start(f.index) /\ f.index \notin BegunIn(sent) /\ f.arguments = <<>>
              /\ BegunIn(sent) \cup {f.index} \in {{}, {0}, {0, 1}}
           \/ f.index \in BegunIn(sent)
    BY NextFragment
  <2>2. /\ BegunIn(t) = BegunIn(sent) \cup {f.index}
        /\ ArgumentsGrow(sent, t, f)
        /\ FirstsKept(sent, t, f)
    <3>1. Carries(chunk, f)
      BY <1>2 DEF Carries
    <3> QED
      BY <2>1, <3>1, FragmentMore
  <2>3. BegunIn(t) \in {{}, {0}, {0, 1}}
    <3>1. f.index \in BegunIn(sent) => BegunIn(t) = BegunIn(sent)
      BY <2>2
    <3> QED
      BY <2>1, <2>2, <3>1 DEF InOrder
  <2>4. ASSUME NEW index \in 0..1
        PROVE  IF index \in BegunIn(t)
               THEN FirstIn(t, index).id = Start(index).id /\ FirstIn(t, index).name = Start(index).name
               ELSE ArgumentsOf(t, index) = <<>>
    <3>1. CASE index \in BegunIn(sent)
      BY <2>2, <3>1 DEF InOrder, FirstsKept
    <3>2. CASE index \notin BegunIn(sent) /\ index = f.index
      BY <2>1, <2>2, <3>2 DEF FirstsKept
    <3>3. CASE index \notin BegunIn(sent) /\ index # f.index
      BY <2>2, <3>3 DEF InOrder, ArgumentsGrow
    <3> QED
      BY <3>1, <3>2, <3>3
  <2> QED
    BY <2>2, <2>3, <2>4 DEF InOrder
<1> QED
  BY <1>1, <1>2 DEF Sendable

\* _ToolCallAssembler.feed keeps the assembler complete
LEMMA FedComplete ==
  ASSUME IsSequence(sent), AllTelling(sent), InOrder(sent), Complete(slots, sent),
         NEW chunk, Telling(chunk), Sendable(chunk.fragments), NEW t, t = Append(sent, chunk)
  PROVE  Complete(feed(chunk.fragments), t)
<1> DEFINE fragments == chunk.fragments
           touched == {fragments[i].index : i \in DOMAIN fragments}
           Fragment(index) == fragments[CHOOSE i \in DOMAIN fragments : fragments[i].index = index]
           fed == feed(fragments)
<1>1. /\ DOMAIN fed = touched \cup DOMAIN slots
      /\ \A index \in DOMAIN fed :
           fed[index] = IF index \in touched THEN Absorb(Slot(index), Fragment(index)) ELSE slots[index]
  BY DEF feed
<1>2. CASE fragments = <<>>
  <2>1. touched = {}
    BY <1>2
  <2> HIDE DEF touched, Fragment, fed
  <2>2. DOMAIN fed = BegunIn(sent) /\ \A index \in DOMAIN fed : fed[index] = SlotIn(sent, index)
    BY <1>1, <2>1 DEF Complete
  <2>3. /\ BegunIn(t) = BegunIn(sent)
        /\ \A index \in 0..1 : ArgumentsOf(t, index) = ArgumentsOf(sent, index)
        /\ \A index \in BegunIn(sent) : FirstIn(t, index) = FirstIn(sent, index)
    BY <1>2, NoFragmentMore
  <2>4. BegunIn(sent) \subseteq 0..1
    BY DEF BegunIn
  <2>5. \A index \in BegunIn(sent) : SlotIn(t, index) = SlotIn(sent, index)
    BY <2>3, <2>4 DEF SlotIn
  <2>6. Complete(fed, t)
    BY <2>2, <2>3, <2>5 DEF Complete
  <2> QED
    BY <2>6 DEF fed
<1>3. ASSUME NEW f \in Fragments, fragments = <<f>>
      PROVE  Complete(fed, t)
  <2>1. touched = {f.index} /\ Fragment(f.index) = f
    <3>1. DOMAIN fragments = {1} /\ fragments[1] = f
      BY <1>3
    <3> QED
      BY <3>1
  <2> HIDE DEF touched, Fragment, fed
  <2>2. /\ f.index \in 0..1 /\ IsSequence(f.arguments)
        /\ \/ /\ f.index \notin BegunIn(sent) /\ f.arguments = <<>>
              /\ f.id # Nothing /\ f.name # Nothing
           \/ f.id = Nothing /\ f.name = Nothing /\ f.index \in BegunIn(sent)
    BY NextFragment
  <2>3. /\ BegunIn(t) = BegunIn(sent) \cup {f.index}
        /\ ArgumentsGrow(sent, t, f)
        /\ FirstsKept(sent, t, f)
    <3>1. Carries(chunk, f)
      BY <1>3 DEF Carries
    <3> QED
      BY <2>2, <3>1, FragmentMore
  <2>4. BegunIn(sent) \subseteq 0..1
    BY DEF BegunIn
  <2>5. DOMAIN fed = BegunIn(t)
    BY <1>1, <2>1, <2>3 DEF Complete
  <2>6. ASSUME NEW index \in BegunIn(t), index # f.index
        PROVE  fed[index] = SlotIn(t, index)
    <3>1. fed[index] = slots[index] /\ index \in BegunIn(sent) /\ index \in 0..1
      BY <1>1, <2>1, <2>3, <2>4, <2>5, <2>6
    <3>2. slots[index] = SlotIn(sent, index)
      BY <3>1 DEF Complete
    <3>3. SlotIn(t, index) = SlotIn(sent, index)
      BY <2>3, <2>6, <3>1 DEF SlotIn, ArgumentsGrow, FirstsKept
    <3> QED
      BY <3>1, <3>2, <3>3
  <2>7. fed[f.index] = Absorb(Slot(f.index), f)
    BY <1>1, <2>1, <2>3, <2>5
  <2>8. \A slot : Absorb(slot, f) = [id |-> IF f.id # Nothing THEN f.id ELSE slot.id,
                                    name |-> IF f.name # Nothing THEN f.name ELSE slot.name,
                                    arguments |-> slot.arguments \o f.arguments]
    BY Zenon DEF Absorb, Nothing
  <2>9. CASE f.index \notin BegunIn(sent)
    <3>1. Slot(f.index).arguments = <<>>
      <4>1. Slot(f.index) = [id |-> Nothing, name |-> Nothing, arguments |-> <<>>]
        BY <2>9, Zenon DEF Slot, Complete, Nothing
      <4> QED
        BY <4>1
    <3>2. ArgumentsOf(sent, f.index) = <<>>
      BY <2>2, <2>9 DEF InOrder
    <3>3. FirstIn(t, f.index) = f
      BY <2>3, <2>9 DEF FirstsKept
    <3>4. ArgumentsOf(t, f.index) = <<>> \o f.arguments
      BY <2>2, <2>3, <3>2 DEF ArgumentsGrow
    <3>5. fed[f.index] = [id |-> f.id, name |-> f.name, arguments |-> <<>> \o f.arguments]
      BY <2>2, <2>7, <2>8, <2>9, <3>1
    <3>6. fed[f.index] = SlotIn(t, f.index)
      BY <3>3, <3>4, <3>5 DEF SlotIn
    <3> QED
      BY <2>5, <2>6, <3>6 DEF Complete
  <2>10. CASE f.index \in BegunIn(sent)
    <3>1. Slot(f.index) = SlotIn(sent, f.index)
      BY <2>10 DEF Slot, Complete
    <3>2. FirstIn(t, f.index) = FirstIn(sent, f.index)
      BY <2>3, <2>10 DEF FirstsKept
    <3>3. ArgumentsOf(t, f.index) = ArgumentsOf(sent, f.index) \o f.arguments
      BY <2>2, <2>3 DEF ArgumentsGrow
    <3>4. fed[f.index] = [id |-> Slot(f.index).id, name |-> Slot(f.index).name,
                          arguments |-> Slot(f.index).arguments \o f.arguments]
      BY <2>2, <2>7, <2>8, <2>10
    <3>5. fed[f.index] = SlotIn(t, f.index)
      BY <3>1, <3>2, <3>3, <3>4 DEF SlotIn
    <3> QED
      BY <2>5, <2>6, <3>5 DEF Complete
  <2> QED
    BY <2>9, <2>10
<1> QED
  BY <1>2, <1>3 DEF Sendable, fragments, fed

-----------------------------------------------------------------------------
(* What the assembler gives out is what the whole answer holds.            *)

CallsOf(chunks) ==
  _parse_tool_calls([i \in 1..Cardinality(BegunIn(chunks)) |-> CallIn(chunks, i - 1)])

\* The whole answer has the calls of the chunks
LEMMA WholeCalls == Whole.calls = CallsOf(sent)
<1>1. Current + 1 = Cardinality(BegunIn(sent))
  <2>1. BegunIn(sent) \subseteq 0..1
    BY DEF BegunIn
  <2>2. Cardinality(BegunIn(sent)) \in 0..2
    BY <2>1, TwoIndices
  <2>3. Current = Cardinality(BegunIn(sent)) - 1
    BY BegunSaid DEF Current
  <2> QED
    BY <2>2, <2>3
<1> DEFINE raw == [i \in 1..(Current + 1) |-> CallOf(i - 1)]
<1>2. raw = [i \in 1..Cardinality(BegunIn(sent)) |-> CallIn(sent, i - 1)]
  BY <1>1, BegunSaid
<1>3. Whole.calls = _parse_tool_calls(raw)
  BY DEF Whole, parse_response
<1> QED
  BY <1>2, <1>3 DEF CallsOf

\* The call of a slot
CallFrom(slot, index) == ToolCall(slot.id, slot.name, _parse_arguments(slot.arguments), index)

\* The calls of the chunks, as the assembler would give them
LEMMA CallsBySlots ==
  ASSUME NEW chunks
  PROVE  CallsOf(chunks) =
           [i \in 1..Cardinality(BegunIn(chunks)) |-> CallFrom(SlotIn(chunks, i - 1), i - 1)]
<1> DEFINE n == Cardinality(BegunIn(chunks))
           raw == [i \in 1..n |-> CallIn(chunks, i - 1)]
<1>1. ASSUME NEW i
      PROVE  /\ CallIn(chunks, i).id = SlotIn(chunks, i).id
             /\ CallIn(chunks, i).name = SlotIn(chunks, i).name
             /\ CallIn(chunks, i).arguments = SlotIn(chunks, i).arguments
             /\ CallIn(chunks, i).index = i
  BY DEF CallIn, SlotIn
<1>2. DOMAIN raw = 1..n /\ \A i \in 1..n : raw[i] = CallIn(chunks, i - 1)
  OBVIOUS
<1>3. CallsOf(chunks) = _parse_tool_calls(raw)
  BY DEF CallsOf
<1> HIDE DEF n, raw
<1>4. CallsOf(chunks) = [i \in 1..n |-> ToolCall(raw[i].id, raw[i].name,
                                          _parse_arguments(raw[i].arguments), raw[i].index)]
  BY <1>2, <1>3 DEF _parse_tool_calls
<1>5. \A i \in 1..n : ToolCall(raw[i].id, raw[i].name, _parse_arguments(raw[i].arguments), raw[i].index)
                        = CallFrom(SlotIn(chunks, i - 1), i - 1)
  BY <1>1, <1>2 DEF CallFrom
<1> QED
  BY <1>4, <1>5 DEF n

\* A complete assembler gives out the calls of the whole answer
LEMMA DrainedWhole ==
  ASSUME NEW chunks, InOrder(chunks), NEW f, Complete(f, chunks)
  PROVE  drain(f) = CallsOf(chunks)
<1> DEFINE named == {index \in DOMAIN f : f[index].name # ""}
           Nth(i) == CHOOSE index \in named : Cardinality({k \in named : k <= index}) = i
           n == Cardinality(BegunIn(chunks))
<1>1. DOMAIN f = BegunIn(chunks) /\ BegunIn(chunks) \subseteq 0..1
      /\ \A index \in DOMAIN f : f[index] = SlotIn(chunks, index)
  BY DEF Complete, BegunIn
<1>2. ASSUME NEW index \in DOMAIN f PROVE f[index].name # ""
  <2>1. f[index].name = Start(index).name /\ index \in 0..1
    BY <1>1 DEF InOrder, SlotIn
  <2>2. Start(index).name \in {"f", "g"}
    <3>1. Start(index).name = IF index = 0 THEN "f" ELSE "g"
      BY DEF Start
    <3> QED
      BY <3>1
  <2> QED
    BY <2>1, <2>2, Zenon
<1>3. named = BegunIn(chunks)
  BY <1>1, <1>2, Zenon
<1>4. drain(f) = [i \in 1..Cardinality(named) |->
                    ToolCall(f[Nth(i)].id, f[Nth(i)].name, _parse_arguments(f[Nth(i)].arguments), Nth(i))]
  BY Zenon DEF drain
<1> HIDE DEF named
<1>5. \A i \in 1..n : Nth(i) = i - 1 /\ i - 1 \in DOMAIN f
  <2>1. CASE BegunIn(chunks) = {}
    BY <2>1, SmallSets
  <2>2. CASE BegunIn(chunks) = {0}
    <3>1. {k \in named : k <= 0} = {0} /\ \A index \in named : index = 0
      BY <1>3, <2>2
    <3>2. Nth(1) = 0
      BY <1>3, <2>2, <3>1, SmallSets
    <3>3. n = 1
      BY <2>2, SmallSets
    <3>4. \A i \in 1..n : i = 1
      BY <3>3
    <3> HIDE DEF Nth, n
    <3>5. 0 \in DOMAIN f
      BY <1>1, <2>2
    <3> QED
      BY <3>2, <3>4, <3>5
  <2>3. CASE BegunIn(chunks) = {0, 1}
    <3>1. {k \in named : k <= 0} = {0} /\ {k \in named : k <= 1} = {0, 1}
          /\ \A index \in named : index = 0 \/ index = 1
      BY <1>3, <2>3
    <3> DEFINE Below(index) == Cardinality({k \in named : k <= index})
    <3>6. Below(0) = 1 /\ Below(1) = 2 /\ 0 \in named /\ 1 \in named
      BY <1>3, <2>3, <3>1, SmallSets
    <3>7. \A i : Nth(i) = CHOOSE index \in named : Below(index) = i
      OBVIOUS
    <3> HIDE DEF Nth, Below
    <3>2. Nth(1) = 0
      BY <3>1, <3>6, <3>7
    <3>3. Nth(2) = 1
      BY <3>1, <3>6, <3>7
    <3>4. n = 2
      BY <2>3, SmallSets
    <3>5. \A i \in 1..n : i = 1 \/ i = 2
      BY <3>4
    <3> QED
      BY <1>1, <2>3, <3>2, <3>3, <3>5
  <2> QED
    BY <2>1, <2>2, <2>3 DEF InOrder
<1>6. drain(f) = [i \in 1..n |->
                    ToolCall(f[Nth(i)].id, f[Nth(i)].name, _parse_arguments(f[Nth(i)].arguments), Nth(i))]
  BY <1>3, <1>4
<1> HIDE DEF Nth, n
<1>7. \A i \in 1..n : ToolCall(f[Nth(i)].id, f[Nth(i)].name, _parse_arguments(f[Nth(i)].arguments), Nth(i))
                        = CallFrom(SlotIn(chunks, i - 1), i - 1)
  BY <1>1, <1>5 DEF CallFrom
<1> QED
  BY <1>6, <1>7, CallsBySlots DEF n

\* An answer has calls when one has begun, two at most
LEMMA AsManyCalls ==
  ASSUME NEW chunks, InOrder(chunks)
  PROVE  /\ IsSequence(CallsOf(chunks)) /\ Len(CallsOf(chunks)) \in 0..2
         /\ CallsOf(chunks) = <<>> <=> BegunIn(chunks) = {}
<1> DEFINE n == Cardinality(BegunIn(chunks))
           Item(i) == CallFrom(SlotIn(chunks, i - 1), i - 1)
           R == {Item(i) : i \in 1..n}
<1>1. CallsOf(chunks) = [i \in 1..n |-> Item(i)]
  BY CallsBySlots
<1>2. n \in 0..2 /\ (n = 0 <=> BegunIn(chunks) = {})
  <2>1. BegunIn(chunks) = {} \/ BegunIn(chunks) = {0} \/ BegunIn(chunks) = {0, 1}
    BY DEF InOrder
  <2>2. {0} # {} /\ {0, 1} # {}
    OBVIOUS
  <2>3. CASE BegunIn(chunks) = {}
    BY <2>3, SmallSets
  <2>4. CASE BegunIn(chunks) = {0}
    BY <2>2, <2>4, SmallSets
  <2>5. CASE BegunIn(chunks) = {0, 1}
    BY <2>2, <2>5, SmallSets
  <2> QED
    BY <2>1, <2>3, <2>4, <2>5
<1>3. \A i \in 1..n : Item(i) \in R
  OBVIOUS
<1> HIDE DEF n, Item, R
<1>4. CallsOf(chunks) \in Seq(R) /\ Len(CallsOf(chunks)) = n
  BY <1>1, <1>2, <1>3
<1>5. CallsOf(chunks) = <<>> <=> n = 0
  <2> DEFINE c == CallsOf(chunks)
  <2>1. c \in Seq(R) /\ Len(c) = n
    BY <1>4
  <2> HIDE DEF c
  <2>2. c = <<>> <=> Len(c) = 0
    BY <2>1, EmptySeq
  <2> QED
    BY <2>1, <2>2 DEF c
<1>6. IsSequence(CallsOf(chunks))
  BY <1>4, SequenceOf
<1>7. CallsOf(chunks) = <<>> <=> BegunIn(chunks) = {}
  BY <1>2, <1>5
<1>8. Len(CallsOf(chunks)) \in 0..2
  BY <1>2, <1>4
<1> QED
  BY <1>6, <1>7, <1>8

-----------------------------------------------------------------------------
(* The chunks that llama-server may send.                                  *)

\* The fields of a chunk that differs from Silence in one or two of them
LEMMA ChunkTexts ==
  ASSUME NEW n, NEW s,
         s = [text |-> <<>>, reasoning |-> <<>>, fragments |-> <<>>, finish |-> n, usage |-> <<>>],
         NEW x, NEW y
  PROVE  /\ [s EXCEPT !.text = x].text = x /\ [s EXCEPT !.text = x].reasoning = <<>>
         /\ [s EXCEPT !.text = x].finish = n
         /\ [s EXCEPT !.reasoning = x].text = <<>> /\ [s EXCEPT !.reasoning = x].reasoning = x
         /\ [s EXCEPT !.reasoning = x].finish = n
         /\ [s EXCEPT !.fragments = x].text = <<>> /\ [s EXCEPT !.fragments = x].reasoning = <<>>
         /\ [s EXCEPT !.fragments = x].finish = n
         /\ [s EXCEPT !.finish = x].text = <<>> /\ [s EXCEPT !.finish = x].reasoning = <<>>
         /\ [s EXCEPT !.finish = x].finish = x
         /\ [s EXCEPT !.usage = x].text = <<>> /\ [s EXCEPT !.usage = x].reasoning = <<>>
         /\ [s EXCEPT !.finish = y, !.fragments = x].text = <<>>
         /\ [s EXCEPT !.finish = y, !.fragments = x].reasoning = <<>>
         /\ [s EXCEPT !.finish = y, !.fragments = x].finish = y
OBVIOUS

RawReasons == {"stop", "length", "tool_calls", "content_filter"}

\* A chunk of content, of the reason or of the usage.
MayContent(chunk) ==
  Telling(chunk) /\ Sendable(chunk.fragments) /\ chunk.finish = Nothing /\ chunk.usage = <<>>
MayFinal(chunk) ==
  /\ Telling(chunk) /\ Sendable(chunk.fragments)
  /\ chunk.text = <<>> /\ chunk.reasoning = <<>>
  /\ chunk.finish \in RawReasons /\ chunk.usage = <<>>
  /\ chunk.fragments # <<>> => chunk.finish = "stop"
MayCount(chunk) ==
  /\ Telling(chunk) /\ chunk.fragments = <<>>
  /\ chunk.text = <<>> /\ chunk.reasoning = <<>>
  /\ chunk.finish = Nothing /\ chunk.usage = <<11, 7>>

\* The fragments that may come are well formed, and may be fed
LEMMA FragmentsTelling ==
  ASSUME InOrder(sent)
  PROVE  /\ ArgumentsSay(<<>>) /\ Sendable(<<>>)
         /\ \A f \in Fragments : ArgumentsSay(<<f>>) /\ Sendable(<<f>>) /\ <<f>> # <<>> /\ <<f>>[1] = f
<1>1. ArgumentsSay(<<>>)
  BY DEF ArgumentsSay
<1>2. ASSUME NEW f \in Fragments PROVE ArgumentsSay(<<f>>)
  <2>1. IsSequence(f.arguments)
    BY <1>2, NextFragment
  <2>2. DOMAIN <<f>> = {1} /\ <<f>>[1] = f
    BY ShortSequences
  <2> QED
    BY <2>1, <2>2 DEF ArgumentsSay
<1> QED
  BY <1>1, <1>2, ShortSequences DEF Sendable

\* Each kind of chunk says what such a chunk may say
LEMMA ChunksMay ==
  ASSUME InOrder(sent)
  PROVE  /\ \A chunk \in ContentChunks : MayContent(chunk)
         /\ \A chunk \in FinalChunks : MayFinal(chunk)
         /\ MayCount(UsageChunk)
<1>1. \A x : /\ [Silence EXCEPT !.text = x].fragments = <<>> /\ [Silence EXCEPT !.text = x].usage = <<>>
             /\ [Silence EXCEPT !.reasoning = x].fragments = <<>>
             /\ [Silence EXCEPT !.reasoning = x].usage = <<>>
             /\ [Silence EXCEPT !.fragments = x].fragments = x
             /\ [Silence EXCEPT !.fragments = x].usage = <<>>
             /\ [Silence EXCEPT !.finish = x].fragments = <<>> /\ [Silence EXCEPT !.finish = x].usage = <<>>
  BY SilenceFields, ChunkFields
<1>2. \A x, y : /\ [Silence EXCEPT !.finish = y, !.fragments = x].fragments = x
               /\ [Silence EXCEPT !.finish = y, !.fragments = x].usage = <<>>
  BY SilenceFields, ChunkFields
<1>3. \A x :
         /\ [Silence EXCEPT !.text = x].text = x /\ [Silence EXCEPT !.text = x].reasoning = <<>>
         /\ [Silence EXCEPT !.text = x].finish = Nothing
         /\ [Silence EXCEPT !.reasoning = x].text = <<>> /\ [Silence EXCEPT !.reasoning = x].reasoning = x
         /\ [Silence EXCEPT !.reasoning = x].finish = Nothing
         /\ [Silence EXCEPT !.fragments = x].text = <<>> /\ [Silence EXCEPT !.fragments = x].reasoning = <<>>
         /\ [Silence EXCEPT !.fragments = x].finish = Nothing
         /\ [Silence EXCEPT !.finish = x].text = <<>> /\ [Silence EXCEPT !.finish = x].reasoning = <<>>
         /\ [Silence EXCEPT !.finish = x].finish = x
  BY SilenceFields, ChunkTexts
<1>4. \A x, y : /\ [Silence EXCEPT !.finish = y, !.fragments = x].text = <<>>
                /\ [Silence EXCEPT !.finish = y, !.fragments = x].reasoning = <<>>
                /\ [Silence EXCEPT !.finish = y, !.fragments = x].finish = y
  BY SilenceFields, ChunkTexts
<1>5. UsageChunk.fragments = <<>> /\ UsageChunk.usage = <<11, 7>> /\ UsageChunk.finish = Nothing
      /\ UsageChunk.text = <<>> /\ UsageChunk.reasoning = <<>>
  BY SilenceFields, ChunkFields, ChunkTexts DEF UsageChunk
<1>6. ASSUME NEW chunk, IsSequence(chunk.text), IsSequence(chunk.reasoning),
             chunk.fragments = <<>> \/ \E f \in Fragments : chunk.fragments = <<f>>
      PROVE  Telling(chunk) /\ Sendable(chunk.fragments)
  <2>1. CASE chunk.fragments = <<>>
    BY <1>6, <2>1, FragmentsTelling DEF Telling
  <2>2. ASSUME NEW f \in Fragments, chunk.fragments = <<f>> PROVE Telling(chunk) /\ Sendable(chunk.fragments)
    <3>1. chunk.fragments[1] = f
      BY <2>2, ShortSequences
    <3>2. ArgumentsSay(chunk.fragments) /\ Sendable(chunk.fragments)
      BY <2>2, FragmentsTelling
    <3> QED
      BY <1>6, <2>2, <3>1, <3>2 DEF Telling
  <2> QED
    BY <1>6, <2>1, <2>2
<1>7. ASSUME NEW chunk \in ContentChunks PROVE MayContent(chunk)
  <2>1. CASE chunk = [Silence EXCEPT !.text = <<Len(sent)>>]
    <3>1. IsSequence(chunk.text) /\ chunk.reasoning = <<>> /\ chunk.fragments = <<>>
          /\ chunk.finish = Nothing /\ chunk.usage = <<>>
      BY <1>1, <1>3, <2>1, ShortSequences
    <3> QED
      BY <1>6, <3>1, ShortSequences DEF MayContent
  <2>2. CASE chunk = [Silence EXCEPT !.reasoning = <<Len(sent)>>]
    <3>1. IsSequence(chunk.reasoning) /\ chunk.text = <<>> /\ chunk.fragments = <<>>
          /\ chunk.finish = Nothing /\ chunk.usage = <<>>
      BY <1>1, <1>3, <2>2, ShortSequences
    <3> QED
      BY <1>6, <3>1, ShortSequences DEF MayContent
  <2>3. CASE \E f \in Fragments : chunk = [Silence EXCEPT !.fragments = <<f>>]
    <3>1. /\ chunk.text = <<>> /\ chunk.reasoning = <<>> /\ \E f \in Fragments : chunk.fragments = <<f>>
          /\ chunk.finish = Nothing /\ chunk.usage = <<>>
      BY <1>1, <1>3, <2>3
    <3> QED
      BY <1>6, <3>1, ShortSequences DEF MayContent
  <2> QED
    BY <2>1, <2>2, <2>3, Zenon DEF ContentChunks
<1>8. ASSUME NEW chunk \in FinalChunks PROVE MayFinal(chunk)
  <2>1. CASE \E x \in RawReasons : chunk = [Silence EXCEPT !.finish = x]
    <3>1. /\ chunk.text = <<>> /\ chunk.reasoning = <<>> /\ chunk.fragments = <<>>
          /\ chunk.finish \in RawReasons /\ chunk.usage = <<>>
      BY <1>1, <1>3, <2>1
    <3> QED
      BY <1>6, <3>1, ShortSequences DEF MayFinal
  <2>2. CASE \E f \in Fragments : chunk = [Silence EXCEPT !.finish = "stop", !.fragments = <<f>>]
    <3>1. /\ chunk.text = <<>> /\ chunk.reasoning = <<>> /\ \E f \in Fragments : chunk.fragments = <<f>>
          /\ chunk.finish = "stop" /\ chunk.usage = <<>>
      BY <1>2, <1>4, <2>2
    <3> QED
      BY <1>6, <3>1, ShortSequences DEF MayFinal, RawReasons
  <2> QED
    BY <2>1, <2>2, Zenon DEF FinalChunks, RawReasons
<1>9. MayCount(UsageChunk)
  BY <1>5, <1>6, ShortSequences DEF MayCount
<1> QED
  BY <1>7, <1>8, <1>9
=============================================================================

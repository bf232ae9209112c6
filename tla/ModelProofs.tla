---------------------------- MODULE ModelProofs ----------------------------
(***************************************************************************)
(* What the tool loop of a model guarantees for every provider, any number *)
(* of steps, of failed generations and of tool calls in an answer, and     *)
(* what the prompt builder guarantees for any number of blocks, messages   *)
(* and builds.                                                             *)
(***************************************************************************)
EXTENDS Conversation, Prompt, SequenceLemmas

IDSet == Nat \ {NoID}

NamedCalls == [id : IDSet, tool : Tools]

Results == [id : IDSet, outcome : {"unresolved", "failed", "done"}]

StopReasons == {"tool_use", "end_turn", "max_tokens"}

Messages ==
  [role : {"user", "agent"}, stop : StopReasons \cup {"none"},
   calls : Seq(NamedCalls), results : Seq(Results)]

StepRecords ==
  [index : Nat, attempt : Nat, stop : StopReasons \cup {"no step", "no response"},
   calls : Seq(NamedCalls), results : Seq(Results)]

\* The types of the loop's state.
ConvTypeOK ==
  /\ provider \in {"bedrock", "openai", "ollama"}
  /\ registered \subseteq Tools
  /\ messages \in Seq(Messages) /\ messages # <<>>
  /\ last \in StepRecords
  /\ todo \in Seq(NamedCalls)
  /\ phase \in {"ready", "generate", "tools", "yield", "stopped"}
  /\ canceled \in BOOLEAN /\ nextID \in Nat /\ fails \in Nat
  /\ executed \in Seq(IDSet)

\* The results are those of the first calls, in order and under their IDs.
AnswersSome(calls, results) ==
  /\ Len(results) <= Len(calls)
  /\ \A i \in 1 .. Len(results) : results[i].id = calls[i].id

AnswersAll(calls, results) ==
  Len(results) = Len(calls) /\ AnswersSome(calls, results)

\* The calls are those that have a result and then the rest.
Underway(calls, results, rest) ==
  /\ AnswersSome(calls, results)
  /\ Len(results) + Len(rest) = Len(calls)
  /\ \A j \in 1 .. Len(rest) : rest[j] = calls[Len(results) + j]

(***************************************************************************)
(* While the tools run, the calls of the step are those that have a result *)
(* and then those to make; after that every call of a tool_use step has    *)
(* its result, and a step of another kind has none.                        *)
(***************************************************************************)
StepInv ==
  /\ phase = "tools" => last.stop = "tool_use" /\ Underway(last.calls, last.results, todo)
  /\ phase # "tools" => todo = <<>>
  /\ phase # "tools" /\ last.stop = "tool_use" => AnswersAll(last.calls, last.results)
  /\ last.stop # "tool_use" => last.results = <<>>
  /\ phase = "generate" => last.stop = "no response"

\* The IDs that ran and those of the rest of the calls are all different, none above n.
Different(ran, rest, n) ==
  /\ \A i \in 1 .. Len(ran) : ran[i] <= n
  /\ \A j \in 1 .. Len(rest) : rest[j].id <= n
  /\ \A i, j \in 1 .. Len(ran) : ran[i] = ran[j] => i = j
  /\ \A i, j \in 1 .. Len(rest) : rest[i].id = rest[j].id => i = j
  /\ \A i \in 1 .. Len(ran), j \in 1 .. Len(rest) : ran[i] # rest[j].id

\* No ID is given out twice.
IDInv == Different(executed, todo, nextID)

\* The conversation: an answer and its results after every answered step.
MessagesInv ==
  /\ HistoryInStep
  /\ \A i \in 1 .. Len(messages) - 1 :
       messages[i].stop = "tool_use" => AnswersAll(messages[i].calls, messages[i + 1].results)
  /\ messages[Len(messages)].stop = "none"

ConvInv == ConvTypeOK /\ StepInv /\ IDInv /\ MessagesInv

-----------------------------------------------------------------------------
(* What reaches a provider. *)

IsFlat(g, seqs, n) ==
  g = [i \in 1 .. n |-> IF i = 1 THEN seqs[i] ELSE g[i - 1] \o seqs[i]]

\* FlattenSeq appends one sequence after the other.
LEMMA FlattenRounds ==
  ASSUME NEW X, NEW seqs \in Seq(X), seqs # <<>>
  PROVE  \E f : /\ FlattenSeq(seqs) = f[Len(seqs)]
                /\ f[1] = seqs[1]
                /\ \A n \in 1 .. Len(seqs) - 1 : f[n + 1] = f[n] \o seqs[n + 1]
<1> DEFINE S == {n \in Nat : \E g : IsFlat(g, seqs, n)}
<1>1. Len(seqs) \in Nat /\ Len(seqs) # 0
  OBVIOUS
<1>2. 0 \in S
  <2> DEFINE g == [i \in 1 .. 0 |-> IF i = 1 THEN seqs[i] ELSE <<>>]
  <2>1. \A i \in 1 .. 0 : FALSE
    OBVIOUS
  <2>2. g = [i \in 1 .. 0 |-> IF i = 1 THEN seqs[i] ELSE g[i - 1] \o seqs[i]]
    BY <2>1
  <2> HIDE DEF g
  <2>3. IsFlat(g, seqs, 0)
    BY <2>2, Zenon DEF IsFlat
  <2> QED
    BY <2>3
<1>3. ASSUME NEW n \in S PROVE n + 1 \in S
  <2>1. PICK g : IsFlat(g, seqs, n)
    OBVIOUS
  <2> DEFINE h == [i \in 1 .. n + 1 |-> IF i <= n THEN g[i]
                                        ELSE IF i = 1 THEN seqs[i] ELSE g[n] \o seqs[i]]
  <2>2. \A i \in 1 .. n : h[i] = g[i]
    OBVIOUS
  <2>3. ASSUME NEW i \in 1 .. n + 1
        PROVE  h[i] = IF i = 1 THEN seqs[i] ELSE h[i - 1] \o seqs[i]
    <3>1. CASE i <= n
      <4>1. g[i] = IF i = 1 THEN seqs[i] ELSE g[i - 1] \o seqs[i]
        <5>1. i \in 1 .. n
          BY <3>1
        <5> HIDE DEF h
        <5> QED
          BY <2>1, <5>1, Zenon DEF IsFlat
      <4>2. i # 1 => h[i - 1] = g[i - 1]
        BY <2>2, <3>1
      <4>3. h[i] = g[i]
        BY <2>2, <3>1
      <4> HIDE DEF h
      <4> QED
        BY <4>1, <4>2, <4>3
    <3>2. CASE i = n + 1
      <4>1. h[i] = IF i = 1 THEN seqs[i] ELSE g[n] \o seqs[i]
        BY <3>2
      <4>2. i # 1 => h[n] = g[n] /\ i - 1 = n
        BY <2>2, <3>2
      <4> HIDE DEF h
      <4> QED
        BY <4>1, <4>2
    <3> QED
      BY <3>1, <3>2
  <2>4. IsFlat(h, seqs, n + 1)
    <3>1. h = [i \in 1 .. n + 1 |-> h[i]]
      OBVIOUS
    <3> HIDE DEF h
    <3> QED
      BY <2>3, <3>1 DEF IsFlat
  <2> QED
    BY <2>4
<1>4. Len(seqs) \in S
  <2> HIDE DEF S
  <2>1. S \in SUBSET Nat
    BY DEF S
  <2> QED
    BY <1>1, <1>2, <1>3, <2>1, Induction
<1>5. PICK g : IsFlat(g, seqs, Len(seqs))
  BY <1>4
<1> DEFINE f == CHOOSE x : IsFlat(x, seqs, Len(seqs))
<1>6. IsFlat(f, seqs, Len(seqs))
  BY <1>5
<1>7. FlattenSeq(seqs) = f[Len(seqs)]
  BY <1>1, Zenon DEF FlattenSeq, IsFlat
<1> HIDE DEF f, S
<1>8. ASSUME NEW x, IsFlat(x, seqs, Len(seqs))
      PROVE  \A i \in 1 .. Len(seqs) : x[i] = IF i = 1 THEN seqs[i] ELSE x[i - 1] \o seqs[i]
  BY <1>8, Zenon DEF IsFlat
<1>9. f[1] = seqs[1]
  BY <1>1, <1>6, <1>8
<1>10. ASSUME NEW n \in 1 .. Len(seqs) - 1 PROVE f[n + 1] = f[n] \o seqs[n + 1]
  <2>1. n + 1 \in 1 .. Len(seqs) /\ n + 1 # 1 /\ (n + 1) - 1 = n
    BY <1>1
  <2> QED
    BY <1>6, <1>8, <2>1
<1> QED
  BY <1>7, <1>9, <1>10

\* One sequence is flattened to itself.
LEMMA FlattenOne ==
  ASSUME NEW s PROVE FlattenSeq(<<s>>) = s /\ FlattenSeq(<<>>) = <<>>
<1>1. <<s>> \in Seq({s}) /\ <<s>> # <<>> /\ Len(<<s>>) = 1 /\ <<s>>[1] = s
  OBVIOUS
<1>2. FlattenSeq(<<s>>) = s
  <2>1. PICK f : FlattenSeq(<<s>>) = f[Len(<<s>>)] /\ f[1] = <<s>>[1]
    BY <1>1, FlattenRounds
  <2> QED
    BY <1>1, <2>1
<1>3. Len(<<>>) = 0
  OBVIOUS
<1>4. FlattenSeq(<<>>) = <<>>
  BY <1>3, Zenon DEF FlattenSeq
<1> QED
  BY <1>2, <1>4

\* One message for every element has the elements in their order.
LEMMA FlattenSingles ==
  ASSUME NEW X, NEW s \in Seq(X)
  PROVE  FlattenSeq(OpenAIMessages(s)) = s
<1> DEFINE q == OpenAIMessages(s)
<1>1. /\ q \in Seq(Seq(X)) /\ Len(q) = Len(s) /\ Len(s) \in Nat
      /\ \A i \in 1 .. Len(s) : s[i] \in X /\ q[i] = <<s[i]>>
  BY DEF OpenAIMessages
<1> HIDE DEF q
<1>2. CASE Len(s) = 0
  <2>1. s = <<>> /\ q = <<>>
    BY <1>1, <1>2
  <2> QED
    BY <2>1, FlattenOne DEF q
<1>3. CASE Len(s) # 0
  <2>1. q # <<>>
    BY <1>1, <1>3
  <2>2. PICK f : /\ FlattenSeq(q) = f[Len(q)] /\ f[1] = q[1]
                 /\ \A n \in 1 .. Len(q) - 1 : f[n + 1] = f[n] \o q[n + 1]
    BY <1>1, <2>1, FlattenRounds
  <2> DEFINE Same(a, n) == a \in Seq(X) /\ Len(a) = n /\ \A i \in 1 .. n : a[i] = s[i]
             S == {n \in Nat : n + 1 <= Len(s) => Same(f[n + 1], n + 1)}
  <2>3. 0 \in S
    <3>1. ASSUME NEW x \in X, NEW a, a = <<x>>
          PROVE  a \in Seq(X) /\ Len(a) = 1 /\ a[1] = x /\ \A i \in 1 .. 1 : i = 1
      BY <3>1
    <3>2. 1 \in 1 .. Len(s)
      BY <1>1, <1>3
    <3>3. PICK a : a = f[1]
      OBVIOUS
    <3>4. a = <<s[1]>> /\ s[1] \in X
      BY <1>1, <2>2, <3>2, <3>3
    <3>5. Same(f[1], 1)
      BY <3>1, <3>3, <3>4
    <3> QED
      BY <3>5
  <2>4. ASSUME NEW n \in S PROVE n + 1 \in S
    <3> SUFFICES ASSUME (n + 1) + 1 <= Len(s) PROVE Same(f[(n + 1) + 1], (n + 1) + 1)
      OBVIOUS
    <3>1. PICK m : m = n + 1 /\ m \in Nat /\ m \in 1 .. Len(q) - 1 /\ m + 1 \in 1 .. Len(s)
      BY <1>1
    <3>2. Same(f[m], m)
      BY <1>1, <3>1
    <3>3. f[m + 1] = f[m] \o <<s[m + 1]>> /\ s[m + 1] \in X
      BY <1>1, <2>2, <3>1
    <3>4. ASSUME NEW a \in Seq(X), Len(a) = m, NEW x \in X, NEW b, b = a \o <<x>>
          PROVE  /\ b \in Seq(X) /\ Len(b) = m + 1
                 /\ b[m + 1] = x /\ \A i \in 1 .. m : b[i] = a[i]
      BY <3>1, <3>4
    <3>5. PICK b : b = f[m + 1]
      OBVIOUS
    <3>6. PICK a : a = f[m]
      OBVIOUS
    <3>7. PICK x : x = s[m + 1]
      OBVIOUS
    <3>8. a \in Seq(X) /\ Len(a) = m /\ x \in X /\ b = a \o <<x>>
      BY <3>2, <3>3, <3>5, <3>6, <3>7
    <3>9. /\ b \in Seq(X) /\ Len(b) = m + 1
          /\ b[m + 1] = x /\ \A i \in 1 .. m : b[i] = a[i]
      BY <3>4, <3>8
    <3>10. /\ b \in Seq(X) /\ Len(b) = m + 1
           /\ b[m + 1] = s[m + 1] /\ \A i \in 1 .. m : b[i] = f[m][i]
      BY <3>6, <3>7, <3>9
    <3>11. \A i \in 1 .. m + 1 : i = m + 1 \/ i \in 1 .. m
      BY <3>1
    <3>12. Same(b, m + 1)
      BY <3>2, <3>10, <3>11
    <3> QED
      BY <3>1, <3>5, <3>12
  <2>5. Len(s) - 1 \in S
    <3> HIDE DEF S
    <3>1. S \in SUBSET Nat
      BY DEF S
    <3>2. Len(s) - 1 \in Nat
      BY <1>1, <1>3
    <3> QED
      BY <2>3, <2>4, <3>1, <3>2, Induction
  <2>6. Len(s) - 1 + 1 = Len(s)
    BY <1>1
  <2>7. Same(f[Len(s)], Len(s))
    BY <1>1, <2>5, <2>6
  <2>8. ASSUME NEW a \in Seq(X), Len(a) = Len(s), \A i \in 1 .. Len(s) : a[i] = s[i]
        PROVE  a = s
    BY <2>8
  <2> QED
    BY <1>1, <2>2, <2>7, <2>8 DEF q
<1> QED
  BY <1>2, <1>3

\* Every result of a message reaches Bedrock and OpenAI, and the first one Ollama.
LEMMA DeliveredResults ==
  ASSUME provider \in {"bedrock", "openai", "ollama"}, NEW m, m.results \in Seq(Results)
  PROVE  Delivered(m) = IF provider = "ollama" /\ m.results # <<>>
                        THEN <<m.results[1]>> ELSE m.results
<1> DEFINE s == m.results
           T == {x \in ToSet(s) : x.id # NoID}
<1>1. \A i \in 1 .. Len(s) : s[i] \in T
  <2>1. \A i \in 1 .. Len(s) : s[i] \in Results /\ s[i] \in ToSet(s)
    BY DEF ToSet
  <2> HIDE DEF s
  <2> QED
    BY <2>1 DEF Results, IDSet
<1>2. GetToolResultParts(m) = s
  <2>1. Kept(s, T) = s
    <3> HIDE DEF T
    <3> QED
      BY <1>1, KeptUnchanged
  <2> QED
    BY <2>1, Zenon DEF GetToolResultParts
<1>3. Delivered(m) = FlattenSeq(ToolMessages(s))
  BY <1>2, Zenon DEF Delivered
<1>4. CASE provider = "bedrock"
  <2>1. ToolMessages(s) = BedrockMessages(s)
    BY <1>4 DEF ToolMessages
  <2>2. FlattenSeq(BedrockMessages(s)) = s
    BY FlattenOne, Zenon DEF BedrockMessages
  <2> QED
    BY <1>3, <1>4, <2>1, <2>2
<1>5. CASE provider = "openai"
  <2>1. ToolMessages(s) = OpenAIMessages(s)
    BY <1>5 DEF ToolMessages
  <2>2. FlattenSeq(OpenAIMessages(s)) = s
    BY FlattenSingles
  <2> QED
    BY <1>3, <1>5, <2>1, <2>2
<1>6. CASE provider = "ollama"
  <2>1. ToolMessages(s) = OllamaMessages(s)
    BY <1>6 DEF ToolMessages
  <2>2. FlattenSeq(OllamaMessages(s)) = IF s = <<>> THEN <<>> ELSE <<s[1]>>
    BY FlattenOne, Zenon DEF OllamaMessages
  <2> QED
    BY <1>3, <1>6, <2>1, <2>2
<1> QED
  BY <1>4, <1>5, <1>6

\* Results of all calls have the IDs of the calls, in their order.
LEMMA SameIDs ==
  ASSUME NEW calls \in Seq(NamedCalls), NEW results \in Seq(Results), AnswersAll(calls, results)
  PROVE  /\ IDs(results) = IDs(calls)
         /\ results # <<>> => IDs(<<results[1]>>) = <<Head(IDs(calls))>>
         /\ results = <<>> <=> IDs(calls) = <<>>
<1>1. /\ Len(results) = Len(calls) /\ Len(calls) \in Nat
      /\ \A i \in 1 .. Len(calls) : results[i].id = calls[i].id
  BY DEF AnswersAll, AnswersSome
<1>2. IDs(results) = IDs(calls)
  BY <1>1 DEF IDs
<1>3. /\ IDs(calls) \in Seq(IDSet) /\ Len(IDs(calls)) = Len(calls)
      /\ \A i \in 1 .. Len(calls) : IDs(calls)[i] = calls[i].id
  <2>1. \A i \in 1 .. Len(calls) : calls[i] \in NamedCalls
    OBVIOUS
  <2>2. \A i \in 1 .. Len(calls) : calls[i].id \in IDSet
    BY <2>1 DEF NamedCalls
  <2> QED
    BY <1>1, <2>2 DEF IDs
<1>4. results = <<>> <=> IDs(calls) = <<>>
  BY <1>1, <1>3
<1>5. ASSUME results # <<>> PROVE IDs(<<results[1]>>) = <<Head(IDs(calls))>>
  <2>1. Len(calls) # 0
    BY <1>1, <1>5
  <2>2. 1 \in 1 .. Len(calls)
    BY <1>1, <2>1
  <2>3. Head(IDs(calls)) = calls[1].id
    BY <1>3, <2>1, <2>2
  <2>4. IDs(<<results[1]>>) = <<results[1].id>>
    <3>1. PICK q : q = <<results[1]>>
      OBVIOUS
    <3>2. Len(q) = 1 /\ q[1] = results[1]
      BY <3>1
    <3>3. [i \in 1 .. 1 |-> q[i].id] = <<results[1].id>>
      BY <3>2
    <3> QED
      BY <3>1, <3>2, <3>3 DEF IDs
  <2> QED
    BY <1>1, <2>2, <2>3, <2>4
<1> QED
  BY <1>2, <1>4, <1>5

\* In a state of the invariant the provider is sent the results of the calls.
LEMMA Answered == ConvInv => CallsAreAnswered
<1> SUFFICES ASSUME ConvInv, NEW i \in 1 .. Len(messages) - 1, messages[i].stop = "tool_use"
             PROVE  IDs(Delivered(messages[i + 1])) =
                      IF provider = "ollama" /\ IDs(messages[i].calls) # <<>>
                      THEN <<Head(IDs(messages[i].calls))>> ELSE IDs(messages[i].calls)
  BY DEF CallsAreAnswered
<1>1. /\ messages[i] \in Messages /\ messages[i + 1] \in Messages
      /\ AnswersAll(messages[i].calls, messages[i + 1].results)
      /\ provider \in {"bedrock", "openai", "ollama"}
  BY DEF ConvInv, ConvTypeOK, MessagesInv
<1>2. messages[i].calls \in Seq(NamedCalls) /\ messages[i + 1].results \in Seq(Results)
  BY <1>1 DEF Messages
<1> DEFINE c == messages[i].calls
           s == messages[i + 1].results
<1>3. /\ IDs(s) = IDs(c)
      /\ s # <<>> => IDs(<<s[1]>>) = <<Head(IDs(c))>>
      /\ s = <<>> <=> IDs(c) = <<>>
  BY <1>1, <1>2, SameIDs
<1>4. Delivered(messages[i + 1]) = IF provider = "ollama" /\ s # <<>> THEN <<s[1]>> ELSE s
  BY <1>1, <1>2, DeliveredResults
<1> HIDE DEF c, s
<1>5. IDs(Delivered(messages[i + 1])) =
        IF provider = "ollama" /\ IDs(c) # <<>> THEN <<Head(IDs(c))>> ELSE IDs(c)
  BY <1>3, <1>4, Zenon
<1> QED
  BY <1>5 DEF c

-----------------------------------------------------------------------------
(* The answer of the model. *)

RawCalls == [id : Nat, tool : Tools, args : {"ok", "not an object", "broken"}]

\* An answer: its calls have fresh IDs, but for the first call of Ollama.
LEMMA AnswerType ==
  ASSUME nextID \in Nat, NEW a \in ServiceAnswers
  PROVE  /\ a.calls \in Seq(RawCalls)
         /\ \A i \in 1 .. Len(a.calls) : a.calls[i].id = CallID(i)
         /\ a.finish \in {"end_turn", "max_tokens", "tool_use", "other"}
<1>1. PICK c \in UNION {[1 .. n -> Asked] : n \in 0 .. MaxCalls},
           f \in {"end_turn", "max_tokens", "tool_use", "other"} :
        a = [calls  |-> [i \in 1 .. Len(c) |-> [id |-> CallID(i), tool |-> c[i].tool, args |-> c[i].args]],
             finish |-> f]
  BY DEF ServiceAnswers
<1>2. PICK n \in 0 .. MaxCalls : c \in [1 .. n -> Asked]
  OBVIOUS
<1>3. n \in Nat
  BY ConversationAssumption
<1>4. c \in Seq(Asked) /\ Len(c) = n
  BY <1>2, <1>3
<1>5. ASSUME NEW i \in 1 .. n
      PROVE  [id |-> CallID(i), tool |-> c[i].tool, args |-> c[i].args] \in RawCalls
  <2>1. CallID(i) \in Nat
    BY <1>3 DEF CallID, NoID
  <2>2. c[i] \in Asked
    BY <1>2
  <2> QED
    BY <2>1, <2>2 DEF Asked, RawCalls
<1>6. PICK q : q = [i \in 1 .. n |-> [id |-> CallID(i), tool |-> c[i].tool, args |-> c[i].args]]
  OBVIOUS
<1>7. q \in [1 .. n -> RawCalls] /\ \A i \in 1 .. n : q[i].id = CallID(i)
  BY <1>5, <1>6
<1>8. q \in Seq(RawCalls) /\ Len(q) = n
  BY <1>3, <1>7
<1>9. a.calls = q /\ a.finish = f
  BY <1>1, <1>4, <1>6
<1> QED
  BY <1>7, <1>8, <1>9

\* IDs that are new, each of its own.
FreshCalls(calls, n) ==
  /\ calls \in Seq(NamedCalls)
  /\ \A i \in 1 .. Len(calls) : nextID < calls[i].id /\ calls[i].id <= nextID + n
  /\ \A i, j \in 1 .. Len(calls) : calls[i].id = calls[j].id => i = j

\* The calls of Bedrock and OpenAI: those of the answer, of Bedrock without the broken ones.
LEMMA NamedFresh ==
  ASSUME nextID \in Nat, NEW s \in Seq(RawCalls), NEW k \in Seq(RawCalls),
         \A i \in 1 .. Len(s) : s[i].id = nextID + i, InOrderOf(k, s, Len(s))
  PROVE  FreshCalls(Named(k), Len(s))
<1>1. Len(s) \in Nat /\ Len(k) \in Nat
  OBVIOUS
<1>2. ASSUME NEW i \in 1 .. Len(k)
      PROVE  /\ Named(k)[i] = [id |-> k[i].id, tool |-> k[i].tool]
             /\ k[i] \in RawCalls /\ nextID < k[i].id /\ k[i].id <= nextID + Len(s)
  <2>1. PICK p \in 1 .. Len(s) : k[i] = s[p]
    BY DEF InOrderOf
  <2>2. k[i].id = nextID + p
    BY <2>1
  <2>3. p \in Nat /\ 1 <= p /\ p <= Len(s)
    BY <1>1
  <2>4. nextID < k[i].id /\ k[i].id <= nextID + Len(s)
    BY <1>1, <2>2, <2>3
  <2>5. Named(k)[i] = [id |-> k[i].id, tool |-> k[i].tool] /\ k[i] \in RawCalls
    BY DEF Named
  <2> QED
    BY <2>4, <2>5
<1>3. ASSUME NEW i \in 1 .. Len(k), NEW j \in 1 .. Len(k), i < j PROVE k[i].id < k[j].id
  <2>1. PICK p \in 1 .. Len(s), q \in 1 .. Len(s) : p < q /\ k[i] = s[p] /\ k[j] = s[q]
    BY <1>3 DEF InOrderOf
  <2>2. k[i].id = nextID + p /\ k[j].id = nextID + q
    BY <2>1
  <2>3. p \in Nat /\ q \in Nat
    BY <1>1
  <2> QED
    BY <2>1, <2>2, <2>3
<1>4. ASSUME NEW i \in 1 .. Len(k)
      PROVE  Named(k)[i].id = k[i].id /\ Named(k)[i] \in NamedCalls
  <2>1. PICK x : x = k[i].id
    OBVIOUS
  <2>2. k[i].tool \in Tools /\ x \in Nat
    BY <1>2, <2>1 DEF RawCalls
  <2>3. x # 0
    <3>1. nextID < x
      BY <1>2, <2>1
    <3> QED
      BY <2>2, <3>1
  <2>4. Named(k)[i] = [id |-> x, tool |-> k[i].tool]
    BY <1>2, <2>1, Zenon
  <2> QED
    BY <2>1, <2>2, <2>3, <2>4 DEF NamedCalls, IDSet, NoID
<1>5. Named(k) \in Seq(NamedCalls) /\ Len(Named(k)) = Len(k)
  <2>1. Named(k) = [i \in 1 .. Len(k) |-> Named(k)[i]]
    BY DEF Named
  <2>2. Named(k) \in [1 .. Len(k) -> NamedCalls]
    BY <1>4, <2>1
  <2> QED
    BY <1>1, <2>2
<1>6. ASSUME NEW i \in 1 .. Len(k), NEW j \in 1 .. Len(k), k[i].id = k[j].id PROVE i = j
  <2>1. k[i] \in RawCalls /\ i \in Nat /\ j \in Nat
    BY <1>1, <1>2
  <2>2. PICK x : x = k[i].id
    OBVIOUS
  <2>3. x \in Nat /\ ~(x < x)
    <3>1. ASSUME NEW r \in RawCalls PROVE r.id \in Nat
      BY DEF RawCalls
    <3>2. x \in Nat
      BY <2>1, <2>2, <3>1
    <3> QED
      BY <3>2
  <2>4. ~(i < j)
    BY <1>3, <1>6, <2>2, <2>3
  <2>5. ~(j < i)
    BY <1>3, <1>6, <2>2, <2>3
  <2> QED
    BY <2>1, <2>4, <2>5
<1> QED
  BY <1>2, <1>4, <1>5, <1>6 DEF FreshCalls

\* Ollama names a call by its place when the service has not named it.
LEMMA GeneratedFresh ==
  ASSUME nextID \in Nat, NEW s \in Seq(RawCalls), NEW calls,
         \A i \in 1 .. Len(s) : s[i].id \in {NoID, nextID + i},
         calls = [i \in 1 .. Len(s) |-> [id |-> GeneratedID(s[i], i), tool |-> s[i].tool]]
  PROVE  FreshCalls(calls, Len(s))
<1>1. Len(s) \in Nat
  OBVIOUS
<1>2. ASSUME NEW i \in 1 .. Len(s)
      PROVE  calls[i] \in NamedCalls /\ calls[i].id = nextID + i
  <2>1. i \in Nat /\ 1 <= i /\ s[i] \in RawCalls
    BY <1>1
  <2>2. GeneratedID(s[i], i) = nextID + i
    BY DEF GeneratedID
  <2>3. PICK x : x = nextID + i /\ x \in Nat /\ x # 0
    BY <2>1
  <2>4. calls[i] = [id |-> x, tool |-> s[i].tool]
    BY <2>2, <2>3
  <2>5. s[i].tool \in Tools
    BY <2>1 DEF RawCalls
  <2> QED
    BY <2>3, <2>4, <2>5 DEF NamedCalls, IDSet, NoID
<1>3. calls \in Seq(NamedCalls) /\ Len(calls) = Len(s)
  <2>1. calls \in [1 .. Len(s) -> NamedCalls]
    BY <1>2
  <2> QED
    BY <1>1, <2>1
<1>4. \A i \in 1 .. Len(s) : nextID < calls[i].id /\ calls[i].id <= nextID + Len(s)
  BY <1>1, <1>2
<1>5. \A i, j \in 1 .. Len(s) : calls[i].id = calls[j].id => i = j
  BY <1>1, <1>2
<1> QED
  BY <1>3, <1>4, <1>5 DEF FreshCalls

\* Every sequence is in its own order.
LEMMA InItsOrder ==
  ASSUME NEW X, NEW s \in Seq(X) PROVE InOrderOf(s, s, Len(s))
BY DEF InOrderOf

\* What a provider makes of an answer: fresh calls and a stop reason.
LEMMA ResponseType ==
  ASSUME ConvTypeOK, NEW a \in ServiceAnswers
  PROVE  /\ FreshCalls(Response(a).calls, Len(a.calls))
         /\ Response(a).stop \in StopReasons
         /\ Len(a.calls) \in Nat
<1>1. /\ a.calls \in Seq(RawCalls) /\ nextID \in Nat
      /\ \A i \in 1 .. Len(a.calls) : a.calls[i].id = CallID(i)
      /\ a.finish \in {"end_turn", "max_tokens", "tool_use", "other"}
      /\ provider \in {"bedrock", "openai", "ollama"}
  BY AnswerType DEF ConvTypeOK
<1>2. \A calls : StopOf(calls) \in StopReasons /\ Given(a, calls) \in StopReasons
  BY <1>1 DEF StopOf, Given, StopReasons
<1>3. provider # "ollama" => \A i \in 1 .. Len(a.calls) : a.calls[i].id = nextID + i
  BY <1>1 DEF CallID
<1>4. CASE provider = "bedrock"
  <2> DEFINE T == {c \in ToSet(a.calls) : c.args # "broken"}
             k == Kept(a.calls, T)
  <2>1. InOrderOf(k, a.calls, Len(a.calls)) /\ k \in Seq(RawCalls \cap T)
    <3> HIDE DEF T
    <3> QED
      BY <1>1, KeptInOrder, KeptAll DEF KeptFrom
  <2>2. Response(a) = [ok |-> TRUE, calls |-> Named(k), stop |-> Given(a, Named(k))]
    BY <1>4 DEF Response, BedrockResponse
  <2> HIDE DEF T, k
  <2>3. k \in Seq(RawCalls)
    BY <2>1
  <2>4. FreshCalls(Named(k), Len(a.calls))
    BY <1>1, <1>3, <1>4, <2>1, <2>3, NamedFresh
  <2>5. Response(a).calls = Named(k) /\ Response(a).stop = Given(a, Named(k))
    BY <2>2
  <2> QED
    BY <1>1, <1>2, <2>4, <2>5
<1>5. CASE provider = "openai"
  <2>1. Response(a).calls = Named(a.calls) /\ Response(a).stop = Given(a, a.calls)
    BY <1>5 DEF Response, OpenAIResponse
  <2>2. FreshCalls(Named(a.calls), Len(a.calls))
    BY <1>1, <1>3, <1>5, InItsOrder, NamedFresh
  <2> QED
    BY <1>1, <1>2, <2>1, <2>2
<1>6. CASE provider = "ollama"
  <2> DEFINE k == [i \in 1 .. Len(a.calls) |->
                     [id |-> GeneratedID(a.calls[i], i), tool |-> a.calls[i].tool]]
  <2>1. Response(a).calls = k /\ Response(a).stop = StopOf(a.calls)
    BY <1>6 DEF Response, OllamaResponse
  <2>2. \A i \in 1 .. Len(a.calls) : a.calls[i].id \in {NoID, nextID + i}
    BY <1>1 DEF CallID
  <2>3. FreshCalls(k, Len(a.calls))
    BY <1>1, <2>2, GeneratedFresh
  <2> HIDE DEF k
  <2> QED
    BY <1>1, <1>2, <2>1, <2>3
<1> QED
  BY <1>1, <1>4, <1>5, <1>6

-----------------------------------------------------------------------------
(* The steps. *)

\* A step that leaves the conversation alone leaves it in step.
LEMMA MessagesKept ==
  ASSUME MessagesInv, messages' = messages, last'.index = last.index
  PROVE  MessagesInv'
BY DEF MessagesInv, HistoryInStep

\* A step that gives no ID out and runs no tool.
LEMMA IDsKept ==
  ASSUME IDInv, executed' = executed, nextID' = nextID, todo' = todo
  PROVE  IDInv'
BY DEF IDInv

\* Registration, cancellation and the moves of the consumer change neither calls nor results.
LEMMA ConsumerSteps ==
  ASSUME ConvInv,
         \/ \E t \in Tools : RegisterTool(t)
         \/ Cancel \/ GenerateFails \/ ToolsDone \/ Continue \/ Stop \/ Resume
         \/ UNCHANGED convVars
  PROVE  ConvInv'
<1>1. /\ messages' = messages /\ last' = last /\ todo' = todo
      /\ executed' = executed /\ nextID' = nextID /\ provider' = provider
  BY DEF RegisterTool, Cancel, GenerateFails, ToolsDone, Continue, Stop, Resume, convVars
<1>2. ConvTypeOK'
  <2>1. ConvTypeOK
    BY DEF ConvInv
  <2>2. registered' \subseteq Tools
    BY <2>1 DEF ConvTypeOK, RegisterTool, Cancel, GenerateFails, ToolsDone, Continue, Stop,
                Resume, convVars
  <2>3. phase' \in {"ready", "generate", "tools", "yield", "stopped"}
    BY <2>1 DEF ConvTypeOK, RegisterTool, Cancel, GenerateFails, ToolsDone, Continue, Stop,
                Resume, convVars
  <2>4. canceled' \in BOOLEAN
    BY <2>1 DEF ConvTypeOK, RegisterTool, Cancel, GenerateFails, ToolsDone, Continue, Stop,
                Resume, convVars
  <2>5. fails' \in Nat
    BY <2>1 DEF ConvTypeOK, RegisterTool, Cancel, GenerateFails, ToolsDone, Continue, Stop,
                Resume, convVars
  <2> QED
    BY <1>1, <2>1, <2>2, <2>3, <2>4, <2>5 DEF ConvTypeOK
<1>3. StepInv'
  <2>1. CASE phase' = phase
    BY <1>1, <2>1 DEF ConvInv, StepInv
  <2>2. CASE ToolsDone
    <3>1. /\ last.stop = "tool_use" /\ AnswersSome(last.calls, last.results)
          /\ Len(last.results) + Len(todo) = Len(last.calls) /\ todo = <<>>
      BY <2>2 DEF ConvInv, StepInv, ToolsDone, Underway
    <3>2. Len(todo) = 0 /\ last.results \in Seq(Results)
      BY <3>1 DEF ConvInv, ConvTypeOK, StepRecords
    <3>3. Len(last.results) = Len(last.calls)
      BY <3>1, <3>2
    <3>4. AnswersAll(last.calls, last.results)
      BY <3>1, <3>3 DEF AnswersAll
    <3>5. phase' = "yield"
      BY <2>2 DEF ToolsDone
    <3> QED
      BY <1>1, <3>1, <3>4, <3>5 DEF StepInv
  <2>3. CASE GenerateFails \/ Continue \/ Stop \/ Resume
    <3>1. phase # "tools" /\ phase' \notin {"tools", "generate"}
      BY <2>3 DEF GenerateFails, Continue, Stop, Resume
    <3> QED
      BY <1>1, <3>1 DEF ConvInv, StepInv
  <2> QED
    BY <2>1, <2>2, <2>3 DEF RegisterTool, Cancel, convVars
<1>4. IDInv' /\ MessagesInv'
  BY <1>1, IDsKept, MessagesKept DEF ConvInv
<1> QED
  BY <1>2, <1>3, <1>4 DEF ConvInv

\* What putting two messages at the end of a conversation does.
LEMMA TwoMore ==
  ASSUME NEW m \in Seq(Messages), NEW a \in Messages, NEW u \in Messages,
         NEW n, n = m \o <<a, u>>
  PROVE  /\ n \in Seq(Messages) /\ Len(n) = Len(m) + 2
         /\ \A i \in 1 .. Len(m) : n[i] = m[i]
         /\ n[Len(m) + 1] = a /\ n[Len(m) + 2] = u
OBVIOUS

\* The step before is put in with its results, once.
LEMMA StartStepKeeps == ASSUME ConvInv, StartStep PROVE ConvInv'
<1>1. /\ messages \in Seq(Messages) /\ messages # <<>> /\ last \in StepRecords /\ todo = <<>>
      /\ last.stop = "tool_use" => AnswersAll(last.calls, last.results)
  BY DEF ConvInv, ConvTypeOK, StepInv, StartStep
<1>2. PICK k \in Nat, t \in Nat :
        /\ last' = [index |-> k, attempt |-> t, stop |-> "no response",
                    calls |-> <<>>, results |-> <<>>]
        /\ k = IF HasResponse(last) THEN last.index + 1 ELSE last.index
  <2>1. last.index \in Nat /\ last.attempt \in Nat
    BY <1>1 DEF StepRecords
  <2>2. PICK k : k = IF HasResponse(last) THEN last.index + 1 ELSE last.index
    OBVIOUS
  <2>3. PICK t : t = IF last = NoStep \/ HasResponse(last) THEN 0 ELSE last.attempt + 1
    OBVIOUS
  <2>4. k \in Nat /\ t \in Nat
    BY <2>1, <2>2, <2>3
  <2>5. last' = [NoStep EXCEPT !.stop = "no response", !.index = k, !.attempt = t]
    BY <2>2, <2>3 DEF StartStep
  <2>6. last' = [index |-> k, attempt |-> t, stop |-> "no response",
                 calls |-> <<>>, results |-> <<>>]
    BY <2>5 DEF NoStep
  <2> QED
    BY <2>2, <2>4, <2>6
<1>3. last' \in StepRecords
  <2>1. <<>> \in Seq(NamedCalls) /\ <<>> \in Seq(Results)
    OBVIOUS
  <2>2. "no response" \in StopReasons \cup {"no step", "no response"}
    OBVIOUS
  <2> QED
    BY <1>2, <2>1, <2>2 DEF StepRecords
<1>4. /\ last'.index = k /\ last'.stop = "no response" /\ last'.results = <<>>
  BY <1>2
<1>5. /\ provider' = provider /\ registered' = registered /\ todo' = todo /\ phase' = "generate"
      /\ canceled' = canceled /\ nextID' = nextID /\ executed' = executed /\ fails' = fails
  BY DEF StartStep
<1>6. CASE ~HasResponse(last)
  <2>1. messages' = messages /\ last'.index = last.index
    BY <1>2, <1>4, <1>6 DEF StartStep
  <2>2. MessagesInv'
    BY <2>1, MessagesKept DEF ConvInv
  <2> QED
    BY <1>1, <1>3, <1>4, <1>5, <2>1, <2>2, IDsKept DEF ConvInv, ConvTypeOK, StepInv
<1>7. CASE HasResponse(last)
  <2> DEFINE a == [role |-> "agent", stop |-> last.stop, calls |-> last.calls, results |-> <<>>]
             u == UserMessage(last.results)
  <2>1. last.stop \in StopReasons
    BY <1>1, <1>7 DEF HasResponse, StepRecords
  <2>2. a \in Messages /\ u \in Messages
    <3>1. <<>> \in Seq(NamedCalls) /\ <<>> \in Seq(Results)
      OBVIOUS
    <3>2. last.calls \in Seq(NamedCalls) /\ last.results \in Seq(Results)
      BY <1>1 DEF StepRecords
    <3>3. a \in Messages
      BY <2>1, <3>1, <3>2 DEF Messages
    <3>4. u \in Messages
      BY <3>1, <3>2 DEF Messages, UserMessage
    <3> QED
      BY <3>3, <3>4
  <2>3. /\ a.role = "agent" /\ a.stop = last.stop /\ a.calls = last.calls
        /\ u.role = "user" /\ u.stop = "none" /\ u.results = last.results
    BY DEF UserMessage
  <2>4. messages' = messages \o <<a, u>>
    BY <1>7 DEF StartStep
  <2> HIDE DEF a, u
  <2> DEFINE l == Len(messages)
  <2>5. /\ messages' \in Seq(Messages) /\ Len(messages') = l + 2
        /\ \A i \in 1 .. l : messages'[i] = messages[i]
        /\ messages'[l + 1] = a /\ messages'[l + 2] = u
    BY <1>1, <2>2, <2>4, TwoMore
  <2>6. l \in Nat /\ l # 0
    BY <1>1
  <2> HIDE DEF l
  <2>7. HistoryInStep'
    <3>1. /\ Len(messages) = 1 + 2 * last.index
          /\ \A i \in 1 .. l : (messages[i].role = "agent") <=> (i % 2 = 0)
          /\ \A i \in 1 .. l :
               messages[i].role = "agent" => messages[i].stop \in {"tool_use", "end_turn", "max_tokens"}
      BY DEF ConvInv, MessagesInv, HistoryInStep, l
    <3>2. last.index \in Nat /\ k = last.index + 1
      BY <1>1, <1>2, <1>7 DEF StepRecords
    <3>3. PICK d \in Nat : d = last.index /\ l = 1 + 2 * d /\ k = d + 1
      BY <3>1, <3>2 DEF l
    <3>4. Len(messages') = 1 + 2 * last'.index
      <4>1. l + 2 = 1 + 2 * k
        BY <3>3
      <4> QED
        BY <1>4, <2>5, <4>1, Zenon
    <3>5. (l + 1) % 2 = 0 /\ (l + 2) % 2 # 0
      BY <3>3
    <3>6. \A i \in 1 .. l + 2 : i \in 1 .. l \/ i = l + 1 \/ i = l + 2
      BY <2>6
    <3>7. \A i \in 1 .. l + 2 : (messages'[i].role = "agent") <=> (i % 2 = 0)
      BY <2>3, <2>5, <3>1, <3>5, <3>6
    <3>8. \A i \in 1 .. l + 2 :
            messages'[i].role = "agent" => messages'[i].stop \in {"tool_use", "end_turn", "max_tokens"}
      BY <2>1, <2>3, <2>5, <3>1, <3>6 DEF StopReasons
    <3> QED
      BY <2>5, <3>4, <3>7, <3>8 DEF HistoryInStep
  <2>8. ASSUME NEW i \in 1 .. Len(messages') - 1, messages'[i].stop = "tool_use"
        PROVE  AnswersAll(messages'[i].calls, messages'[i + 1].results)
    <3>1. i \in 1 .. l - 1 \/ i = l \/ i = l + 1
      BY <2>5, <2>6
    <3>2. CASE i \in 1 .. l - 1
      <4>1. i \in 1 .. l /\ i + 1 \in 1 .. l
        BY <2>6, <3>2
      <4>2. messages'[i] = messages[i] /\ messages'[i + 1] = messages[i + 1]
        BY <2>5, <4>1
      <4>3. messages[i].stop = "tool_use" => AnswersAll(messages[i].calls, messages[i + 1].results)
        BY <3>2 DEF ConvInv, MessagesInv, l
      <4> QED
        BY <2>8, <4>2, <4>3
    <3>3. i # l
      <4>1. messages[l].stop = "none" /\ l \in 1 .. l
        BY <2>6 DEF ConvInv, MessagesInv, l
      <4> QED
        BY <2>5, <2>8, <4>1
    <3>4. CASE i = l + 1
      <4>1. i + 1 = l + 2
        BY <2>6, <3>4
      <4> QED
        BY <1>1, <2>3, <2>5, <2>8, <3>4, <4>1
    <3> QED
      BY <3>1, <3>2, <3>3, <3>4
  <2>9. messages' # <<>> /\ messages'[Len(messages')].stop = "none"
    BY <2>3, <2>5, <2>6
  <2>10. MessagesInv'
    BY <2>7, <2>8, <2>9 DEF MessagesInv
  <2> QED
    BY <1>1, <1>3, <1>4, <1>5, <2>5, <2>9, <2>10, IDsKept DEF ConvInv, ConvTypeOK, StepInv
<1> QED
  BY <1>6, <1>7


\* An answer comes with calls that were never seen, all of them still to make.
LEMMA GenerateKeeps ==
  ASSUME ConvInv, NEW a \in ServiceAnswers, Generate(a) PROVE ConvInv'
<1> DEFINE r == Response(a)
<1>1. PICK n \in Nat : n = Len(a.calls) /\ FreshCalls(r.calls, n) /\ r.stop \in StopReasons
  BY ResponseType DEF ConvInv
<1> HIDE DEF r
<1>2. /\ last \in StepRecords /\ last.stop = "no response" /\ last.results = <<>>
      /\ nextID \in Nat /\ executed \in Seq(IDSet)
  BY DEF ConvInv, ConvTypeOK, StepInv, Generate
<1>3. /\ last' = [last EXCEPT !.stop = r.stop, !.calls = r.calls]
      /\ nextID' = nextID + n
      /\ todo' = IF r.stop = "tool_use" THEN r.calls ELSE <<>>
      /\ phase' = IF r.stop = "tool_use" THEN "tools" ELSE "yield"
      /\ provider' = provider /\ registered' = registered /\ messages' = messages
      /\ canceled' = canceled /\ executed' = executed /\ fails' = fails
  BY <1>1 DEF Generate, r
<1>4. nextID \in Nat /\ n \in Nat /\ nextID' = nextID + n /\ nextID' \in Nat
  <2>1. nextID \in Nat /\ n \in Nat /\ nextID' = nextID + n
    BY <1>1, <1>2, <1>3, Zenon
  <2> QED
    BY <2>1
<1>5. /\ last' \in StepRecords /\ last'.index = last.index /\ last'.results = <<>>
      /\ last'.stop = r.stop /\ last'.calls = r.calls
  <2>1. r.calls \in Seq(NamedCalls)
    BY <1>1 DEF FreshCalls
  <2>2. last' \in StepRecords
    BY <1>1, <1>2, <1>3, <2>1 DEF StepRecords
  <2> QED
    BY <1>2, <1>3, <2>2 DEF StepRecords
<1>6. /\ todo' \in Seq(NamedCalls)
      /\ \A j \in 1 .. Len(todo') : nextID < todo'[j].id /\ todo'[j].id <= nextID'
      /\ \A i, j \in 1 .. Len(todo') : todo'[i].id = todo'[j].id => i = j
  <2>1. CASE r.stop = "tool_use"
    BY <1>1, <1>3, <2>1 DEF FreshCalls
  <2>2. CASE r.stop # "tool_use"
    <3>1. todo' = <<>> /\ \A j \in 1 .. Len(<<>>) : FALSE
      BY <1>3, <2>2
    <3> QED
      BY <3>1
  <2> QED
    BY <2>1, <2>2
<1>7. ConvTypeOK'
  <2>1. nextID' \in Nat
    BY <1>4
  <2>2. phase' \in {"ready", "generate", "tools", "yield", "stopped"}
    BY <1>3
  <2> QED
    BY <1>3, <1>5, <1>6, <2>1, <2>2 DEF ConvInv, ConvTypeOK
<1>8. StepInv'
  <2>1. AnswersSome(r.calls, <<>>)
    <3>1. Len(r.calls) \in Nat
      BY <1>1 DEF FreshCalls
    <3>2. Len(<<>>) = 0 /\ \A i \in 1 .. Len(<<>>) : FALSE
      OBVIOUS
    <3> QED
      BY <3>1, <3>2 DEF AnswersSome
  <2>2. CASE r.stop = "tool_use"
    <3>1. todo' = r.calls /\ phase' = "tools"
      BY <1>3, <2>2
    <3>2. r.calls \in Seq(NamedCalls)
      BY <1>1 DEF FreshCalls
    <3>3. /\ Len(<<>>) + Len(r.calls) = Len(r.calls)
          /\ \A j \in 1 .. Len(r.calls) : r.calls[j] = r.calls[Len(<<>>) + j]
      BY <3>2
    <3> QED
      BY <1>5, <2>1, <2>2, <3>1, <3>3 DEF StepInv, Underway
  <2>3. CASE r.stop # "tool_use"
    BY <1>3, <1>5, <2>3 DEF StepInv
  <2> QED
    BY <2>2, <2>3
<1>9. IDInv'
  <2>1. \A i \in 1 .. Len(executed) : executed[i] \in Nat /\ executed[i] <= nextID
    <3>1. \A i \in 1 .. Len(executed) : executed[i] \in IDSet
      <4>1. executed \in Seq(IDSet)
        BY <1>2, Zenon
      <4> QED
        BY <4>1
    <3> QED
      BY <3>1 DEF ConvInv, IDInv, Different, IDSet
  <2>2. \A j \in 1 .. Len(todo') : todo'[j].id \in Nat
    <3>1. \A j \in 1 .. Len(todo') : todo'[j] \in NamedCalls
      BY <1>6
    <3> QED
      BY <3>1 DEF NamedCalls, IDSet
  <2>3. \A i \in 1 .. Len(executed) : executed[i] <= nextID'
    <3> SUFFICES ASSUME NEW i \in 1 .. Len(executed) PROVE executed[i] <= nextID'
      OBVIOUS
    <3>1. PICK x \in Nat : x = executed[i]
      BY <2>1
    <3>2. x <= nextID
      BY <2>1, <3>1
    <3> QED
      BY <1>4, <3>1, <3>2
  <2>4. ASSUME NEW i \in 1 .. Len(executed), NEW j \in 1 .. Len(todo')
        PROVE  executed[i] # todo'[j].id
    <3>1. PICK x \in Nat, y \in Nat : x = executed[i] /\ y = todo'[j].id
      BY <2>1, <2>2
    <3>2. x <= nextID /\ nextID < y
      BY <1>6, <2>1, <3>1
    <3> QED
      BY <1>4, <3>1, <3>2
  <2>5. \A i, j \in 1 .. Len(executed) : executed[i] = executed[j] => i = j
    BY DEF ConvInv, IDInv, Different
  <2> QED
    BY <1>3, <1>6, <2>3, <2>4, <2>5 DEF IDInv, Different
<1>10. MessagesInv'
  BY <1>3, <1>5, MessagesKept DEF ConvInv
<1> QED
  BY <1>7, <1>8, <1>9, <1>10 DEF ConvInv

\* The call at the head of those to make gets its result at the end of the results.
LEMMA OneResult ==
  ASSUME NEW calls \in Seq(NamedCalls), NEW results \in Seq(Results), NEW rest \in Seq(NamedCalls),
         rest # <<>>, Underway(calls, results, rest),
         NEW r \in Results, r.id = Head(rest).id,
         NEW more, more = Append(results, r),
         NEW left, left = Tail(rest)
  PROVE  more \in Seq(Results) /\ left \in Seq(NamedCalls) /\ Underway(calls, more, left)
<1>1. PICK k \in Nat, n \in Nat : k = Len(results) /\ n + 1 = Len(rest)
  <2>1. Len(results) \in Nat /\ Len(rest) \in Nat /\ Len(rest) # 0
    OBVIOUS
  <2>2. Len(rest) - 1 \in Nat /\ (Len(rest) - 1) + 1 = Len(rest)
    BY <2>1
  <2> QED
    BY <2>1, <2>2
<1>2. /\ more \in Seq(Results) /\ Len(more) = k + 1 /\ more[k + 1] = r
      /\ \A i \in 1 .. k : more[i] = results[i]
  <2>1. ASSUME NEW R, NEW s \in Seq(R), NEW x \in R, NEW m, m = Append(s, x)
        PROVE  /\ m \in Seq(R) /\ Len(m) = Len(s) + 1 /\ m[Len(s) + 1] = x
               /\ \A i \in 1 .. Len(s) : m[i] = s[i]
    BY <2>1
  <2> QED
    BY <1>1, <2>1
<1>3. /\ left \in Seq(NamedCalls) /\ Len(left) = n
      /\ \A j \in 1 .. n : left[j] = rest[j + 1]
      /\ Head(rest) = rest[1]
  <2>1. ASSUME NEW R, NEW s \in Seq(R), s # <<>>, NEW m, m = Tail(s), Len(s) = n + 1
        PROVE  /\ m \in Seq(R) /\ Len(m) = n /\ \A j \in 1 .. n : m[j] = s[j + 1]
               /\ Head(s) = s[1]
    BY <2>1
  <2> QED
    BY <1>1, <2>1
<1>4. k + (n + 1) = Len(calls)
  BY <1>1 DEF Underway
<1>5. Head(rest) = calls[k + 1]
  <2>1. 1 \in 1 .. Len(rest)
    BY <1>1
  <2> QED
    BY <1>1, <1>3, <2>1 DEF Underway
<1>6. \A j \in 1 .. n : left[j] = calls[(k + 1) + j]
  <2> SUFFICES ASSUME NEW j \in 1 .. n PROVE left[j] = calls[(k + 1) + j]
    OBVIOUS
  <2>1. j + 1 \in 1 .. Len(rest) /\ k + (j + 1) = (k + 1) + j
    BY <1>1
  <2>2. rest[j + 1] = calls[k + (j + 1)]
    BY <1>1, <2>1 DEF Underway
  <2> QED
    BY <1>3, <2>1, <2>2
<1>7. AnswersSome(calls, more)
  <2>1. \A i \in 1 .. k : more[i].id = calls[i].id
    BY <1>1, <1>2 DEF Underway, AnswersSome
  <2>2. more[k + 1].id = calls[k + 1].id
    BY <1>2, <1>5
  <2>3. \A i \in 1 .. k + 1 : i \in 1 .. k \/ i = k + 1
    OBVIOUS
  <2>4. k + 1 <= Len(calls)
    BY <1>4
  <2> QED
    BY <1>2, <2>1, <2>2, <2>3, <2>4 DEF AnswersSome
<1>8. Len(more) + Len(left) = Len(calls)
  <2>1. (k + 1) + n = k + (n + 1)
    OBVIOUS
  <2> QED
    BY <1>2, <1>3, <1>4, <2>1, Zenon
<1> QED
  BY <1>2, <1>3, <1>6, <1>7, <1>8 DEF Underway

\* The ID that leaves the calls to make enters those that ran, or none.
LEMMA OneRun ==
  ASSUME NEW ran \in Seq(IDSet), NEW rest \in Seq(NamedCalls), rest # <<>>, NEW n \in Nat,
         Different(ran, rest, n),
         NEW more, more = ran \/ more = Append(ran, Head(rest).id),
         NEW left, left = Tail(rest)
  PROVE  more \in Seq(IDSet) /\ Different(more, left, n)
<1>1. PICK k \in Nat : k + 1 = Len(rest)
  <2>1. Len(rest) \in Nat /\ Len(rest) # 0
    OBVIOUS
  <2>2. Len(rest) - 1 \in Nat /\ (Len(rest) - 1) + 1 = Len(rest)
    BY <2>1
  <2> QED
    BY <2>2
<1> USE DEF Different
<1>2. /\ Len(left) = k /\ \A j \in 1 .. k : left[j] = rest[j + 1]
      /\ Head(rest) = rest[1]
  BY <1>1
<1>3. \A j \in 1 .. k : j + 1 \in 1 .. Len(rest) /\ j + 1 # 1
  BY <1>1
<1>4. 1 \in 1 .. Len(rest) /\ rest[1].id \in IDSet
  <2>1. 1 \in 1 .. Len(rest)
    BY <1>1
  <2>2. rest[1] \in NamedCalls
    BY <2>1
  <2> QED
    BY <2>1, <2>2 DEF NamedCalls
<1>5. \A j \in 1 .. Len(left) : left[j].id <= n
  BY <1>2, <1>3
<1>6. ASSUME NEW i \in 1 .. Len(left), NEW j \in 1 .. Len(left), left[i].id = left[j].id PROVE i = j
  <2>1. i + 1 \in 1 .. Len(rest) /\ j + 1 \in 1 .. Len(rest) /\ i \in Nat /\ j \in Nat
    BY <1>2, <1>3
  <2>2. rest[i + 1].id = rest[j + 1].id
    BY <1>2, <1>6
  <2>3. i + 1 = j + 1
    BY <2>1, <2>2
  <2> QED
    BY <2>1, <2>3
<1>7. CASE more = ran
  <2>1. \A i \in 1 .. Len(more), j \in 1 .. Len(left) : more[i] # left[j].id
    BY <1>2, <1>3, <1>7
  <2> QED
    BY <1>5, <1>6, <1>7, <2>1
<1>8. CASE more = Append(ran, Head(rest).id)
  <2>1. PICK x \in IDSet : x = rest[1].id
    BY <1>4
  <2>2. Len(ran) \in Nat /\ more = Append(ran, x)
    BY <1>2, <1>8, <2>1
  <2>3. /\ more \in Seq(IDSet) /\ Len(more) = Len(ran) + 1 /\ more[Len(ran) + 1] = x
        /\ \A i \in 1 .. Len(ran) : more[i] = ran[i]
    BY <2>2
  <2>4. \A i \in 1 .. Len(more) : i \in 1 .. Len(ran) \/ i = Len(ran) + 1
    BY <2>2, <2>3
  <2>5. x <= n /\ \A i \in 1 .. Len(ran) : ran[i] # x
    BY <1>4, <2>1
  <2>6. \A j \in 1 .. Len(left) : left[j].id # x
    <3> SUFFICES ASSUME NEW j \in 1 .. Len(left), left[j].id = x PROVE FALSE
      OBVIOUS
    <3>1. rest[j + 1].id = rest[1].id /\ j + 1 \in 1 .. Len(rest) /\ j + 1 # 1
      BY <1>2, <1>3, <2>1
    <3> QED
      BY <1>4, <3>1
  <2>7. \A i \in 1 .. Len(more) : more[i] <= n
    BY <2>3, <2>4, <2>5
  <2>8. \A i, j \in 1 .. Len(more) : more[i] = more[j] => i = j
    BY <2>3, <2>4, <2>5
  <2>9. \A i \in 1 .. Len(more), j \in 1 .. Len(left) : more[i] # left[j].id
    <3>1. \A i \in 1 .. Len(ran), j \in 1 .. Len(left) : ran[i] # left[j].id
      BY <1>2, <1>3
    <3> QED
      BY <2>3, <2>4, <2>6, <3>1
  <2> QED
    BY <1>5, <1>6, <2>3, <2>7, <2>8, <2>9
<1> QED
  BY <1>7, <1>8

\* A call is made once, and answered under its ID.
LEMMA CallToolKeeps ==
  ASSUME ConvInv, NEW outcome \in {"unresolved", "failed", "done"}, CallTool(outcome)
  PROVE  ConvInv'
<1>1. /\ last \in StepRecords /\ todo \in Seq(NamedCalls) /\ todo # <<>> /\ phase = "tools"
      /\ executed \in Seq(IDSet) /\ nextID \in Nat
      /\ last.stop = "tool_use" /\ Underway(last.calls, last.results, todo)
  BY DEF ConvInv, ConvTypeOK, StepInv, CallTool
<1>2. last.calls \in Seq(NamedCalls) /\ last.results \in Seq(Results)
  BY <1>1 DEF StepRecords
<1>3. Head(todo).id \in IDSet
  <2>1. Head(todo) \in NamedCalls
    BY <1>1
  <2> QED
    BY <2>1 DEF NamedCalls
<1>4. PICK r : r = [id |-> Head(todo).id, outcome |-> outcome]
  OBVIOUS
<1>5. r \in Results /\ r.id = Head(todo).id
  BY <1>3, <1>4 DEF Results
<1>6. PICK more : more = Append(last.results, r)
  OBVIOUS
<1>7. more \in Seq(Results) /\ Tail(todo) \in Seq(NamedCalls) /\ Underway(last.calls, more, Tail(todo))
  BY <1>1, <1>2, <1>5, <1>6, OneResult
<1>8. /\ last' = [last EXCEPT !.results = more] /\ todo' = Tail(todo)
      /\ provider' = provider /\ registered' = registered /\ messages' = messages
      /\ phase' = phase /\ canceled' = canceled /\ nextID' = nextID /\ fails' = fails
      /\ executed' = executed \/ executed' = Append(executed, Head(todo).id)
  BY <1>4, <1>6 DEF CallTool, AddsResult, RemainingCalls
<1>9. /\ last' \in StepRecords /\ last'.index = last.index /\ last'.stop = last.stop
      /\ last'.calls = last.calls /\ last'.results = more
  BY <1>1, <1>7, <1>8 DEF StepRecords
<1>10. StepInv'
  BY <1>1, <1>7, <1>8, <1>9 DEF StepInv
<1>11. executed' \in Seq(IDSet) /\ IDInv'
  <2>1. Different(executed, todo, nextID)
    BY DEF ConvInv, IDInv
  <2>2. executed' \in Seq(IDSet) /\ Different(executed', todo', nextID)
    BY <1>1, <1>8, <2>1, OneRun
  <2> QED
    BY <1>8, <2>2 DEF IDInv
<1>12. ConvTypeOK'
  BY <1>7, <1>8, <1>9, <1>11 DEF ConvInv, ConvTypeOK
<1>13. MessagesInv'
  BY <1>8, <1>9, MessagesKept DEF ConvInv
<1> QED
  BY <1>10, <1>11, <1>12, <1>13 DEF ConvInv

-----------------------------------------------------------------------------
(* The theorems. *)

\* The loop starts in a state of the invariant.
LEMMA ConvStart == ConvInit => ConvInv
<1> SUFFICES ASSUME ConvInit PROVE ConvInv
  OBVIOUS
<1>1. PICK u : u = UserMessage(<<>>)
  OBVIOUS
<1>2. /\ <<>> \in Seq(NamedCalls) /\ <<>> \in Seq(Results) /\ <<>> \in Seq(IDSet)
      /\ Len(<<>>) = 0 /\ \A i \in 1 .. Len(<<>>) : FALSE
  OBVIOUS
<1>3. u \in Messages /\ u.role = "user" /\ u.stop = "none"
  BY <1>1, <1>2 DEF UserMessage, Messages
<1>4. /\ messages \in Seq(Messages) /\ Len(messages) = 1 /\ messages[1] = u
      /\ messages # <<>> /\ \A i \in 1 .. Len(messages) : i = 1
  BY <1>1, <1>3 DEF ConvInit
<1>5. /\ last \in StepRecords /\ last.index = 0 /\ last.stop = "no step" /\ last.results = <<>>
  BY <1>2 DEF ConvInit, NoStep, StepRecords
<1>6. ConvTypeOK
  BY <1>2, <1>4, <1>5, ConversationAssumption DEF ConvInit, ConvTypeOK
<1>7. StepInv
  BY <1>5 DEF ConvInit, StepInv
<1>8. IDInv
  BY <1>2 DEF ConvInit, IDInv, Different
<1>9. HistoryInStep
  <2>1. Len(messages) = 1 + 2 * last.index
    <3>1. 1 = 1 + 2 * 0
      OBVIOUS
    <3> QED
      BY <1>4, <1>5, <3>1, Zenon
  <2>2. 1 % 2 # 0
    OBVIOUS
  <2> QED
    BY <1>3, <1>4, <2>1, <2>2 DEF HistoryInStep
<1>10. MessagesInv
  BY <1>3, <1>4, <1>9 DEF MessagesInv
<1> QED
  BY <1>6, <1>7, <1>8, <1>10 DEF ConvInv

\* Every step of the loop, of its tools and of its caller keeps the invariant.
LEMMA ConvStep == ConvInv /\ [ConvNext]_convVars => ConvInv'
<1> SUFFICES ASSUME ConvInv, [ConvNext]_convVars PROVE ConvInv'
  OBVIOUS
<1>1. CASE StartStep
  BY <1>1, StartStepKeeps
<1>2. CASE \E a \in ServiceAnswers : Generate(a)
  BY <1>2, GenerateKeeps
<1>3. CASE \E outcome \in {"unresolved", "failed", "done"} : CallTool(outcome)
  BY <1>3, CallToolKeeps
<1>4. CASE \/ \E t \in Tools : RegisterTool(t)
           \/ Cancel \/ GenerateFails \/ ToolsDone \/ Continue \/ Stop \/ Resume
           \/ UNCHANGED convVars
  BY <1>4, ConsumerSteps
<1> QED
  BY <1>1, <1>2, <1>3, <1>4 DEF ConvNext

(***************************************************************************)
(* The inductive invariant of the runner's loop: types, the place of the   *)
(* loop among the calls of a step, the IDs given out, and the conversation *)
(* so far.                                                                 *)
(***************************************************************************)
THEOREM ConvInvariant == ConvSpec => []ConvInv
<1>1. ConvInit => ConvInv
  BY ConvStart
<1>2. ConvInv /\ [ConvNext]_convVars => ConvInv'
  BY ConvStep
<1> QED
  BY <1>1, <1>2, PTL DEF ConvSpec

(***************************************************************************)
(* In every conversation that a provider is sent, each call of a tool_use  *)
(* answer is followed by its result, in order and under its ID; Ollama     *)
(* gets the first one.                                                     *)
(***************************************************************************)
THEOREM CallsGetAnswers == ConvSpec => []CallsAreAnswered
<1>1. ConvInv => CallsAreAnswered
  BY Answered
<1> QED
  BY <1>1, ConvInvariant, PTL

\* Failures and repeated calls of Next put no answer in twice and leave none out.
THEOREM HistoryKeepsStep == ConvSpec => []HistoryInStep
<1>1. ConvInv => HistoryInStep
  BY DEF ConvInv, MessagesInv
<1> QED
  BY <1>1, ConvInvariant, PTL

\* No call runs twice, and none is left when the model is asked again.
THEOREM ToolsOnce == ConvSpec => []ToolsRunOnce
<1>1. ConvInv => ToolsRunOnce
  BY DEF ConvInv, StepInv, IDInv, Different, ToolsRunOnce
<1> QED
  BY <1>1, ConvInvariant, PTL

-----------------------------------------------------------------------------
(* The prompt builder. *)

Modes == {"system", "messages"}

Blocks ==
  [type : {"task", "message", "other"}, messages : Seq(Seq(Files)), artifacts : Seq(TaskArtifacts),
   fileParts : BOOLEAN, inlineArtifacts : BOOLEAN, history : BOOLEAN, max : Nat]

\* A message is shown whole, and what is neither task nor message has no references and no tool.
BlockOK(b) ==
  /\ b.type = "message" => ~Truncated(b)
  /\ b.type = "other" =>
       /\ \A mode, run : References(b, mode, run) = {}
       /\ \A mode : ~SetsTool(b, mode)

\* The blocks of the builder.
ContentInv ==
  /\ content \in Seq(Blocks)
  /\ \A i \in 1 .. Len(content) : BlockOK(content[i])

\* Every reference comes from a block, in a run there was.
ShownInv ==
  /\ formatted \in Nat
  /\ \A ref \in shown :
       /\ ref.mode \in Modes /\ ref.by \in 1 .. formatted
       /\ \E i \in 1 .. Len(content) : ref \in References(content[i], ref.mode, ref.by)

(***************************************************************************)
(* The tool t is that of a block, as it was formatted in its run: all      *)
(* references of that run are in the text, and the text has no other ones  *)
(* of the run.                                                             *)
(***************************************************************************)
IsToolOf(t, b, mode, refs) ==
  /\ SetsTool(b, mode)
  /\ t = BlockTool(b, mode, t.by)
  /\ References(b, mode, t.by) \subseteq refs
  /\ \A ref \in refs : ref.by = t.by => ref \in References(b, mode, t.by)

ToolInv ==
  \/ /\ tool = NoTool
     /\ \A ref \in shown : ref.kind = "history" /\ ref.mode = "system"
  \/ /\ tool.by \in 1 .. formatted
     /\ \E i \in 1 .. Len(content), mode \in Modes : IsToolOf(tool, content[i], mode, shown)

PromptInv == ContentInv /\ ShownInv /\ ToolInv

\* What a reference stands for.
LEMMA RefKinds ==
  ASSUME NEW b, NEW mode, NEW run, NEW ref \in References(b, mode, run)
  PROVE  /\ ref.mode = mode /\ ref.by = run
         /\ \/ ref.kind = "file" /\ <<ref.id, ref.data>> \in FileMap(b)
            \/ ref.kind = "artifact" /\ <<ref.id, ref.data>> \in ArtifactMap(b, mode)
            \/ ref.kind = "history" /\ Truncated(b) /\ ref.data = b.messages
<1>1. ASSUME NEW f \in FileMap(b),
             ref = [kind |-> "file", mode |-> mode, id |-> f[1], data |-> f[2], by |-> run]
      PROVE  ref.mode = mode /\ ref.by = run /\ ref.kind = "file" /\ <<ref.id, ref.data>> \in FileMap(b)
  <2>1. PICK i : f = <<i, FileParts(b)[i]>>
    BY DEF FileMap
  <2>2. f = <<f[1], f[2]>>
    BY <2>1
  <2> QED
    BY <1>1, <2>2
<1>2. ASSUME NEW f \in ArtifactMap(b, mode),
             ref = [kind |-> "artifact", mode |-> mode, id |-> f[1], data |-> f[2], by |-> run]
      PROVE  ref.mode = mode /\ ref.by = run /\ ref.kind = "artifact"
             /\ <<ref.id, ref.data>> \in ArtifactMap(b, mode)
  <2>1. PICK i : f = <<GenerateID(i, Len(FileParts(b))), ArtifactParts(b, mode)[i]>>
    BY DEF ArtifactMap
  <2>2. f = <<f[1], f[2]>>
    BY <2>1
  <2> QED
    BY <1>2, <2>2
<1>3. ASSUME Truncated(b),
             ref = [kind |-> "history", mode |-> mode, id |-> 0, data |-> b.messages, by |-> run]
      PROVE  ref.mode = mode /\ ref.by = run /\ ref.kind = "history" /\ ref.data = b.messages
  BY <1>3
<1>4. \/ \E f \in FileMap(b) :
           ref = [kind |-> "file", mode |-> mode, id |-> f[1], data |-> f[2], by |-> run]
      \/ \E f \in ArtifactMap(b, mode) :
           ref = [kind |-> "artifact", mode |-> mode, id |-> f[1], data |-> f[2], by |-> run]
      \/ /\ Truncated(b)
         /\ ref = [kind |-> "history", mode |-> mode, id |-> 0, data |-> b.messages, by |-> run]
  BY DEF References
<1> QED
  BY <1>1, <1>2, <1>3, <1>4

\* A reference is of the mode and the run of its text.
LEMMA RefMode ==
  ASSUME NEW b, NEW mode, NEW run, NEW ref \in References(b, mode, run)
  PROVE  ref.mode = mode /\ ref.by = run
<1>1. \/ \E f \in FileMap(b) :
           ref = [kind |-> "file", mode |-> mode, id |-> f[1], data |-> f[2], by |-> run]
      \/ \E f \in ArtifactMap(b, mode) :
           ref = [kind |-> "artifact", mode |-> mode, id |-> f[1], data |-> f[2], by |-> run]
      \/ ref = [kind |-> "history", mode |-> mode, id |-> 0, data |-> b.messages, by |-> run]
  BY DEF References
<1> QED
  BY <1>1

\* Prompts made of messages refer to no artifacts.
LEMMA NoArtifacts == \A b : ArtifactMap(b, "messages") = {}
<1>1. \A i \in 1 .. Len(<<>>) : FALSE
  OBVIOUS
<1>2. \A b : ArtifactParts(b, "messages") = <<>>
  BY DEF ArtifactParts
<1> QED
  BY <1>1, <1>2 DEF ArtifactMap

\* A file or a cut history is referred to in either mode.
LEMMA FileIsReferred ==
  ASSUME NEW b, NEW mode, NEW run, FileMap(b) # {} \/ Truncated(b)
  PROVE  References(b, mode, run) # {}
<1>1. CASE FileMap(b) # {}
  <2>1. PICK f : f \in FileMap(b)
    BY <1>1
  <2>2. [kind |-> "file", mode |-> mode, id |-> f[1], data |-> f[2], by |-> run] \in References(b, mode, run)
    BY <2>1 DEF References
  <2> QED
    BY <2>2
<1>2. CASE Truncated(b)
  <2>1. [kind |-> "history", mode |-> mode, id |-> 0, data |-> b.messages, by |-> run]
          \in References(b, mode, run)
    BY <1>2 DEF References
  <2> QED
    BY <2>1
<1> QED
  BY <1>1, <1>2

\* Prompts made of messages keep a tool only for what they refer to.
LEMMA ToolIsReferred ==
  ASSUME NEW b, NEW run, SetsTool(b, "messages") PROVE References(b, "messages", run) # {}
<1>1. FileMap(b) # {} \/ Truncated(b)
  BY NoArtifacts DEF SetsTool
<1> QED
  BY <1>1, FileIsReferred

\* A reference keeps a tool, but for the hint of a system prompt.
LEMMA ReferenceSetsTool ==
  ASSUME NEW b, BlockOK(b), b.type \in {"task", "message", "other"},
         NEW mode \in Modes, NEW run, NEW ref \in References(b, mode, run)
  PROVE  SetsTool(b, mode) \/ (ref.kind = "history" /\ ref.mode = "system")
<1>1. /\ ref.mode = mode
      /\ \/ ref.kind = "file" /\ <<ref.id, ref.data>> \in FileMap(b)
         \/ ref.kind = "artifact" /\ <<ref.id, ref.data>> \in ArtifactMap(b, mode)
         \/ ref.kind = "history" /\ Truncated(b)
  BY RefKinds
<1>2. CASE FileMap(b) # {} \/ ArtifactMap(b, mode) # {}
  BY <1>2 DEF SetsTool
<1>3. CASE ref.kind = "history" /\ Truncated(b) /\ mode = "messages"
  <2>1. b.type = "task"
    BY <1>3 DEF BlockOK
  <2> QED
    BY <1>3, <2>1 DEF SetsTool
<1> QED
  BY <1>1, <1>2, <1>3 DEF Modes

\* The tool of a block has what a reference to the block stands for, whatever the run.
LEMMA OwnReferencesResolve ==
  ASSUME NEW b, BlockOK(b), b.type \in {"task", "message", "other"},
         NEW mode, NEW run, NEW ref \in References(b, mode, run),
         tool = BlockTool(b, mode, tool.by)
  PROVE  Resolves(ref)
<1>1. /\ \/ ref.kind = "file" /\ <<ref.id, ref.data>> \in FileMap(b)
         \/ ref.kind = "artifact" /\ <<ref.id, ref.data>> \in ArtifactMap(b, mode)
         \/ ref.kind = "history" /\ Truncated(b) /\ ref.data = b.messages
  BY RefKinds
<1>2. /\ tool.files = FileMap(b) /\ tool.artifacts = ArtifactMap(b, mode)
      /\ tool.history = IF b.type = "task" THEN b.messages ELSE <<>>
  BY DEF BlockTool
<1>3. Truncated(b) => b.type = "task"
  BY DEF BlockOK
<1>4. CASE ref.kind = "file" /\ <<ref.id, ref.data>> \in FileMap(b)
  BY <1>2, <1>4 DEF Resolves
<1>5. CASE ref.kind = "artifact" /\ <<ref.id, ref.data>> \in ArtifactMap(b, mode)
  BY <1>2, <1>5 DEF Resolves
<1>6. CASE ref.kind = "history" /\ Truncated(b) /\ ref.data = b.messages
  BY <1>2, <1>3, <1>6 DEF Resolves
<1> QED
  BY <1>1, <1>4, <1>5, <1>6

(***************************************************************************)
(* In a state of the invariant the references resolve: those of the run of *)
(* the tool, and those that come from one block in one mode, but for the   *)
(* hint about a cut history.                                               *)
(***************************************************************************)
LEMMA Resolved == PromptInv => ReferencesResolve
<1> SUFFICES ASSUME PromptInv PROVE ReferencesResolve
  OBVIOUS
<1> DEFINE sources == {i \in 1 .. Len(content) : content[i].type # "other"}
           alone   == /\ \A i, j \in sources : i = j
                      /\ \A r1, r2 \in shown : r1.mode = r2.mode
<1>1. ASSUME NEW ref \in shown,
             ref.by = tool.by \/ (alone /\ ~(ref.kind = "history" /\ ref.mode = "system"))
      PROVE  Resolves(ref)
  <2>1. CASE tool = NoTool /\ \A r \in shown : r.kind = "history" /\ r.mode = "system"
    <3>1. tool.by = 0 /\ ref.kind = "history" /\ ref.mode = "system"
      BY <2>1 DEF NoTool
    <3>2. ref.by # 0
      BY DEF PromptInv, ShownInv
    <3> QED
      BY <1>1, <3>1, <3>2
  <2>2. CASE \E i \in 1 .. Len(content), mode \in Modes : IsToolOf(tool, content[i], mode, shown)
    <3>1. PICK i \in 1 .. Len(content), mode \in Modes : IsToolOf(tool, content[i], mode, shown)
      BY <2>2
    <3>2. \A k \in 1 .. Len(content) :
            BlockOK(content[k]) /\ content[k].type \in {"task", "message", "other"}
      <4>1. \A k \in 1 .. Len(content) : content[k] \in Blocks
        BY DEF PromptInv, ContentInv
      <4> QED
        BY <4>1 DEF PromptInv, ContentInv, Blocks
    <3>3. tool = BlockTool(content[i], mode, tool.by)
      BY <3>1 DEF IsToolOf
    <3>4. CASE ref.by = tool.by
      <4>1. ref \in References(content[i], mode, tool.by)
        BY <3>1, <3>4 DEF IsToolOf
      <4> QED
        BY <3>2, <3>3, <4>1, OwnReferencesResolve
    <3>5. CASE alone
      <4>1. PICK j \in 1 .. Len(content) : ref \in References(content[j], ref.mode, ref.by)
        BY DEF PromptInv, ShownInv
      <4>2. i = j
        <5>1. content[i].type # "other"
          BY <3>1, <3>2 DEF BlockOK, IsToolOf
        <5>2. content[j].type # "other"
          BY <3>2, <4>1 DEF BlockOK
        <5> QED
          BY <3>5, <5>1, <5>2
      <4>3. References(content[i], mode, tool.by) = {} \/ ref.mode = mode
        <5> SUFFICES ASSUME NEW r \in References(content[i], mode, tool.by) PROVE ref.mode = mode
          OBVIOUS
        <5>1. r.mode = mode
          BY RefMode
        <5>2. r \in shown
          BY <3>1 DEF IsToolOf
        <5> QED
          BY <3>5, <5>1, <5>2
      <4>4. ref.mode = mode
        <5> SUFFICES ASSUME References(content[i], mode, tool.by) = {} PROVE FALSE
          BY <4>3
        <5>1. mode = "system"
          BY <3>1, ToolIsReferred DEF IsToolOf, Modes
        <5>2. FileMap(content[i]) = {} /\ ~Truncated(content[i])
          BY FileIsReferred
        <5>3. ref.mode \in Modes
          BY DEF PromptInv, ShownInv
        <5>4. ArtifactMap(content[i], ref.mode) # {}
          BY <4>1, <4>2, <5>2, RefKinds
        <5>5. ref.mode = "system"
          BY <5>3, <5>4, NoArtifacts DEF Modes
        <5>6. ArtifactMap(content[i], "system") # {}
          BY <5>4, <5>5
        <5>7. PICK f : f \in ArtifactMap(content[i], "system")
          BY <5>6
        <5>8. [kind |-> "artifact", mode |-> "system", id |-> f[1], data |-> f[2], by |-> tool.by]
                \in References(content[i], "system", tool.by)
          BY <5>7 DEF References
        <5> QED
          BY <5>1, <5>8
      <4>5. ref \in References(content[i], mode, ref.by)
        BY <4>1, <4>2, <4>4
      <4> QED
        BY <3>2, <3>3, <4>5, OwnReferencesResolve
    <3> QED
      BY <1>1, <3>4, <3>5
  <2> QED
    BY <2>1, <2>2 DEF PromptInv, ToolInv
<1> QED
  BY <1>1 DEF ReferencesResolve

-----------------------------------------------------------------------------
(* The steps of the builder. *)

\* A block more at the end leaves the other ones where they are.
LEMMA WriteKeeps ==
  ASSUME PromptInv, NEW b \in Blocks, BlockOK(b), WriteBlock(b)
  PROVE  PromptInv'
<1>1. content \in Seq(Blocks) /\ content' = Append(content, b)
  BY DEF PromptInv, ContentInv, WriteBlock
<1>2. /\ content' \in Seq(Blocks) /\ Len(content') = Len(content) + 1
      /\ content'[Len(content) + 1] = b
      /\ \A i \in 1 .. Len(content) : content'[i] = content[i]
      /\ Len(content) \in Nat
  BY <1>1
<1>3. \A i \in 1 .. Len(content) : i \in 1 .. Len(content')
  BY <1>2
<1>4. \A i \in 1 .. Len(content') : i \in 1 .. Len(content) \/ i = Len(content) + 1
  BY <1>2
<1>5. tool' = tool /\ shown' = shown /\ formatted' = formatted
  BY DEF WriteBlock
<1>6. ContentInv'
  BY <1>2, <1>4 DEF PromptInv, ContentInv
<1>7. ShownInv'
  <2> SUFFICES ASSUME NEW ref \in shown
               PROVE  /\ ref.mode \in Modes /\ ref.by \in 1 .. formatted
                      /\ \E i \in 1 .. Len(content') : ref \in References(content'[i], ref.mode, ref.by)
    BY <1>5 DEF PromptInv, ShownInv
  <2>1. /\ ref.mode \in Modes /\ ref.by \in 1 .. formatted
        /\ \E i \in 1 .. Len(content) : ref \in References(content[i], ref.mode, ref.by)
    BY DEF PromptInv, ShownInv
  <2>2. PICK i \in 1 .. Len(content) : ref \in References(content[i], ref.mode, ref.by)
    BY <2>1
  <2>3. i \in 1 .. Len(content') /\ content'[i] = content[i]
    BY <1>2, <1>3
  <2> QED
    BY <2>1, <2>2, <2>3
<1>8. ToolInv'
  <2>1. CASE tool = NoTool /\ \A ref \in shown : ref.kind = "history" /\ ref.mode = "system"
    BY <1>5, <2>1 DEF ToolInv
  <2>2. CASE /\ tool.by \in 1 .. formatted
             /\ \E i \in 1 .. Len(content), mode \in Modes : IsToolOf(tool, content[i], mode, shown)
    <3>1. PICK i \in 1 .. Len(content), mode \in Modes : IsToolOf(tool, content[i], mode, shown)
      BY <2>2
    <3>2. i \in 1 .. Len(content') /\ IsToolOf(tool', content'[i], mode, shown')
      BY <1>2, <1>3, <1>5, <3>1
    <3> QED
      BY <1>5, <2>2, <3>2 DEF ToolInv
  <2> QED
    BY <2>1, <2>2 DEF PromptInv, ToolInv
<1> QED
  BY <1>6, <1>7, <1>8 DEF PromptInv

\* Blocks that are no task have no files but those of a message that is shown.
LEMMA WritesAreBlocks ==
  /\ \A ms \in Histories, as \in {<<>>} \cup {<<a>> : a \in TaskArtifacts},
        fileParts, inlineArtifacts, history \in BOOLEAN, max \in 0 .. 1 :
       LET b == Task(ms, as, fileParts, inlineArtifacts, history, max)
       IN  b \in Blocks /\ BlockOK(b)
  /\ \A m \in Message, fileParts \in BOOLEAN :
       LET b == [Task(<<m>>, <<>>, fileParts, TRUE, TRUE, 0) EXCEPT !.type = "message"]
       IN  b \in Blocks /\ BlockOK(b)
  /\ LET b == [Task(<<>>, <<>>, TRUE, TRUE, TRUE, 0) EXCEPT !.type = "other"]
     IN  b \in Blocks /\ BlockOK(b)
<1>1. /\ \A m \in Message : m \in Seq(Files)
      /\ <<>> \in Seq(TaskArtifacts) /\ \A a \in TaskArtifacts : <<a>> \in Seq(TaskArtifacts)
      /\ <<>> \in Seq(Seq(Files))
  <2>1. \A f \in Files : <<f>> \in Seq(Files)
    OBVIOUS
  <2>2. <<>> \in Seq(Files) /\ <<>> \in Seq(TaskArtifacts) /\ <<>> \in Seq(Seq(Files))
    OBVIOUS
  <2>3. \A a \in TaskArtifacts : <<a>> \in Seq(TaskArtifacts)
    OBVIOUS
  <2> QED
    BY <2>1, <2>2, <2>3, Zenon DEF Message
<1>2. \A m \in Message : <<m>> \in Seq(Seq(Files))
  BY <1>1
<1>3. ASSUME NEW ms \in Histories PROVE ms \in Seq(Seq(Files))
  <2>1. PICK n \in 1 .. MaxMessages : ms \in [1 .. n -> Message]
    BY DEF Histories
  <2>2. n \in Nat
    BY PromptAssumption
  <2>3. ms \in [1 .. n -> Seq(Files)]
    BY <1>1, <2>1
  <2> QED
    BY <2>2, <2>3
<1>4. ASSUME NEW ms \in Histories, NEW as \in {<<>>} \cup {<<a>> : a \in TaskArtifacts},
             NEW fileParts \in BOOLEAN, NEW inlineArtifacts \in BOOLEAN, NEW history \in BOOLEAN,
             NEW max \in 0 .. 1,
             NEW b, b = Task(ms, as, fileParts, inlineArtifacts, history, max)
      PROVE  b \in Blocks /\ BlockOK(b)
  <2>1. ms \in Seq(Seq(Files)) /\ as \in Seq(TaskArtifacts) /\ max \in Nat
    <3>1. ms \in Seq(Seq(Files))
      BY <1>3
    <3>2. as \in Seq(TaskArtifacts)
      BY <1>1, Zenon
    <3>3. max \in Nat
      OBVIOUS
    <3> QED
      BY <3>1, <3>2, <3>3
  <2>2. b \in Blocks
    BY <1>4, <2>1 DEF Task, Blocks
  <2>3. b.type = "task"
    BY <1>4 DEF Task
  <2> QED
    BY <2>2, <2>3 DEF BlockOK
<1>5. ASSUME NEW m \in Message, NEW fileParts \in BOOLEAN,
             NEW b, b = [Task(<<m>>, <<>>, fileParts, TRUE, TRUE, 0) EXCEPT !.type = "message"]
      PROVE  b \in Blocks /\ BlockOK(b)
  <2>1. b = [type |-> "message", messages |-> <<m>>, artifacts |-> <<>>, fileParts |-> fileParts,
             inlineArtifacts |-> TRUE, history |-> TRUE, max |-> 0]
    BY <1>5 DEF Task
  <2>2. b \in Blocks
    BY <1>1, <1>2, <2>1 DEF Blocks
  <2>3. b.type = "message" /\ ~Truncated(b)
    BY <2>1 DEF Truncated
  <2> QED
    BY <2>2, <2>3 DEF BlockOK
<1>6. ASSUME NEW b, b = [Task(<<>>, <<>>, TRUE, TRUE, TRUE, 0) EXCEPT !.type = "other"]
      PROVE  b \in Blocks /\ BlockOK(b)
  <2>1. b = [type |-> "other", messages |-> <<>>, artifacts |-> <<>>, fileParts |-> TRUE,
             inlineArtifacts |-> TRUE, history |-> TRUE, max |-> 0]
    BY <1>6 DEF Task
  <2>2. b \in Blocks
    BY <1>1, <2>1 DEF Blocks
  <2>3. b.type = "other" /\ ~Truncated(b) /\ b.fileParts /\ b.inlineArtifacts
    BY <2>1 DEF Truncated
  <2>4. \A i \in 1 .. Len(<<>>) : FALSE
    OBVIOUS
  <2>5. FileMap(b) = {}
    BY <2>3, <2>4 DEF FileMap, FileParts
  <2>6. \A mode : ArtifactMap(b, mode) = {}
    <3>1. \A mode : ArtifactParts(b, mode) = <<>>
      BY <2>3 DEF ArtifactParts
    <3> QED
      BY <2>4, <3>1 DEF ArtifactMap
  <2>7. \A mode, run : References(b, mode, run) = {}
    BY <2>3, <2>5, <2>6 DEF References
  <2>8. \A mode : ~SetsTool(b, mode)
    BY <2>3, <2>5, <2>6 DEF SetsTool
  <2> QED
    BY <2>2, <2>3, <2>7, <2>8 DEF BlockOK
<1> QED
  BY <1>4, <1>5, <1>6

\* A set of places that is not empty has a last one.
LEMMA LastPlace ==
  ASSUME NEW n \in Nat, NEW S \in SUBSET (1 .. n), S # {}
  PROVE  \E i \in S : \A j \in S : j <= i
<1> DEFINE T == {k \in Nat : \A R \in SUBSET (1 .. k) : R # {} => \E i \in R : \A j \in R : j <= i}
<1>1. 0 \in T
  <2>1. \A i \in 1 .. 0 : FALSE
    OBVIOUS
  <2> QED
    BY <2>1
<1>2. ASSUME NEW k \in T PROVE k + 1 \in T
  <2> SUFFICES ASSUME NEW R \in SUBSET (1 .. k + 1), R # {} PROVE \E i \in R : \A j \in R : j <= i
    OBVIOUS
  <2>1. CASE k + 1 \in R
    BY <2>1
  <2>2. CASE k + 1 \notin R
    <3>1. \A j \in R : j \in 1 .. k
      BY <2>2
    <3>2. R \in SUBSET (1 .. k)
      BY <3>1
    <3> QED
      BY <3>2
  <2> QED
    BY <2>1, <2>2
<1>3. T \in SUBSET Nat
  OBVIOUS
<1> HIDE DEF T
<1>4. n \in T
  BY <1>1, <1>2, <1>3, Induction
<1> QED
  BY <1>4 DEF T

(***************************************************************************)
(* A build formats every block in a run of its own: its references are     *)
(* those of the runs it adds, and the tool it keeps is that of the last    *)
(* block that sets one.                                                    *)
(***************************************************************************)
LEMMA BuildKeeps ==
  ASSUME PromptInv, NEW mode \in Modes, Build(mode)
  PROVE  PromptInv'
<1> DEFINE setters == {i \in 1 .. Len(content) : SetsTool(content[i], mode)}
           New == UNION {References(content[i], mode, formatted + i) : i \in 1 .. Len(content)}
<1>1. PICK n \in Nat : n = Len(content)
  BY DEF PromptInv, ContentInv
<1>2. /\ content' = content /\ formatted' = formatted + n /\ formatted \in Nat
      /\ shown' = shown \cup New
  BY <1>1 DEF Build, PromptInv, ShownInv
<1>3. /\ setters = {} => tool' = tool
      /\ setters # {} =>
           LET i == CHOOSE i \in setters : \A j \in setters : j <= i
           IN  tool' = BlockTool(content[i], mode, formatted + i)
  BY DEF Build
<1>4. \A ref \in shown :
        /\ ref.mode \in Modes /\ ref.by \in 1 .. formatted
        /\ \E i \in 1 .. n : ref \in References(content[i], ref.mode, ref.by)
  BY <1>1 DEF PromptInv, ShownInv
<1>5. ASSUME NEW ref \in New
      PROVE  \E i \in 1 .. n : /\ ref.mode = mode /\ ref.by = formatted + i
                               /\ ref \in References(content[i], mode, formatted + i)
  <2>1. PICK i \in 1 .. n : ref \in References(content[i], mode, formatted + i)
    BY <1>1
  <2>2. ref.mode = mode /\ ref.by = formatted + i
    BY <2>1, RefMode
  <2> QED
    BY <2>1, <2>2
<1>6. \A i \in 1 .. n :
        /\ BlockOK(content[i]) /\ content[i].type \in {"task", "message", "other"}
        /\ References(content[i], mode, formatted + i) \subseteq New
  <2>1. \A i \in 1 .. n : content[i] \in Blocks /\ BlockOK(content[i])
    BY <1>1 DEF PromptInv, ContentInv
  <2> QED
    BY <1>1, <2>1 DEF Blocks
<1>7. setters \in SUBSET (1 .. n) /\ \A i \in 1 .. n : i \in setters <=> SetsTool(content[i], mode)
  BY <1>1
<1> HIDE DEF New, setters
<1>8. ContentInv'
  BY <1>2 DEF PromptInv, ContentInv
<1>9. ShownInv'
  <2>1. ASSUME NEW ref \in shown'
        PROVE  /\ ref.mode \in Modes /\ ref.by \in 1 .. (formatted + n)
               /\ \E i \in 1 .. n : ref \in References(content[i], ref.mode, ref.by)
    <3>1. CASE ref \in shown
      <4>1. 1 .. formatted \subseteq 1 .. (formatted + n)
        BY <1>2
      <4> QED
        BY <1>4, <3>1, <4>1
    <3>2. CASE ref \in New
      <4>1. PICK i \in 1 .. n : /\ ref.mode = mode /\ ref.by = formatted + i
                                /\ ref \in References(content[i], mode, formatted + i)
        BY <1>5, <3>2
      <4>2. formatted + i \in 1 .. (formatted + n)
        BY <1>2
      <4> QED
        BY <4>1, <4>2
    <3> QED
      BY <1>2, <3>1, <3>2
  <2> QED
    BY <1>1, <1>2, <2>1 DEF ShownInv
<1>10. CASE setters = {}
  <2>1. tool' = tool
    BY <1>3, <1>10
  <2>2. ASSUME tool = NoTool, \A ref \in shown : ref.kind = "history" /\ ref.mode = "system"
        PROVE  ToolInv'
    <3>1. ASSUME NEW ref \in New PROVE ref.kind = "history" /\ ref.mode = "system"
      <4>1. PICK i \in 1 .. n : /\ ref.mode = mode
                                /\ ref \in References(content[i], mode, formatted + i)
        BY <1>5
      <4>2. ~SetsTool(content[i], mode)
        BY <1>7, <1>10
      <4> QED
        BY <1>6, <4>1, <4>2, ReferenceSetsTool
    <3>2. \A ref \in shown' : ref.kind = "history" /\ ref.mode = "system"
      BY <1>2, <2>2, <3>1
    <3>3. tool' = NoTool
      BY <2>1, <2>2
    <3> QED
      BY <3>2, <3>3 DEF ToolInv
  <2>3. ASSUME tool.by \in 1 .. formatted,
               \E i \in 1 .. Len(content), m \in Modes : IsToolOf(tool, content[i], m, shown)
        PROVE  ToolInv'
    <3>1. PICK i \in 1 .. Len(content), m \in Modes : IsToolOf(tool, content[i], m, shown)
      BY <2>3
    <3>2. \A ref \in New : ref.by # tool.by
      <4> SUFFICES ASSUME NEW ref \in New PROVE ref.by # tool.by
        OBVIOUS
      <4>1. PICK j \in 1 .. n : ref.by = formatted + j
        BY <1>5
      <4> QED
        BY <1>2, <2>3, <4>1
    <3>3. IsToolOf(tool', content[i], m, shown')
      BY <1>2, <2>1, <3>1, <3>2 DEF IsToolOf
    <3>4. tool'.by \in 1 .. formatted'
      BY <1>2, <2>1, <2>3
    <3>5. i \in 1 .. Len(content') /\ IsToolOf(tool', content'[i], m, shown')
      BY <1>2, <3>1, <3>3, Zenon
    <3> QED
      BY <3>4, <3>5 DEF ToolInv
  <2>4. ToolInv'
    BY <2>2, <2>3 DEF PromptInv, ToolInv
  <2> QED
    BY <1>8, <1>9, <2>4 DEF PromptInv
<1>11. CASE setters # {}
  <2>1. \E i \in setters : \A j \in setters : j <= i
    BY <1>7, <1>11, LastPlace
  <2>2. PICK i \in setters : tool' = BlockTool(content[i], mode, formatted + i)
    BY <1>3, <1>11, <2>1
  <2>3. i \in 1 .. n /\ SetsTool(content[i], mode)
    BY <1>7
  <2>4. tool'.by = formatted + i
    BY <2>2 DEF BlockTool
  <2>5. References(content[i], mode, formatted + i) \subseteq shown'
    BY <1>2, <1>6, <2>3
  <2>6. ASSUME NEW ref \in shown', ref.by = formatted + i
        PROVE  ref \in References(content[i], mode, formatted + i)
    <3>1. ref \notin shown
      <4> SUFFICES ASSUME ref \in shown PROVE FALSE
        OBVIOUS
      <4>1. formatted + i \in 1 .. formatted
        BY <1>4, <2>6
      <4> QED
        BY <1>2, <2>3, <4>1
    <3>2. PICK j \in 1 .. n : /\ ref.by = formatted + j
                              /\ ref \in References(content[j], mode, formatted + j)
      BY <1>2, <1>5, <3>1
    <3>3. j = i
      BY <1>2, <2>3, <2>6, <3>2
    <3> QED
      BY <3>2, <3>3
  <2>7. IsToolOf(tool', content[i], mode, shown')
    BY <2>2, <2>3, <2>4, <2>5, <2>6 DEF IsToolOf
  <2>8. tool'.by \in 1 .. formatted'
    BY <1>2, <2>3, <2>4
  <2>9. ToolInv'
    BY <1>1, <1>2, <2>3, <2>7, <2>8 DEF ToolInv
  <2> QED
    BY <1>8, <1>9, <2>9 DEF PromptInv
<1> QED
  BY <1>10, <1>11

\* Without blocks there is nothing to refer to.
LEMMA EmptyPrompt ==
  /\ PromptInit => PromptInv
  /\ Reset => PromptInv'
<1>1. <<>> \in Seq(Blocks) /\ Len(<<>>) = 0 /\ \A i \in 1 .. Len(<<>>) : FALSE
  OBVIOUS
<1>2. ASSUME PromptInit PROVE PromptInv
  BY <1>1, <1>2 DEF PromptInit, PromptInv, ContentInv, ShownInv, ToolInv
<1>3. ASSUME Reset PROVE PromptInv'
  BY <1>1, <1>3 DEF Reset, PromptInv, ContentInv, ShownInv, ToolInv
<1> QED
  BY <1>2, <1>3

\* Every call of the builder keeps the invariant.
LEMMA PromptStep == PromptInv /\ [PromptNext]_promptVars => PromptInv'
<1> SUFFICES ASSUME PromptInv, [PromptNext]_promptVars PROVE PromptInv'
  OBVIOUS
<1>1. CASE \E b \in Blocks : BlockOK(b) /\ WriteBlock(b)
  BY <1>1, WriteKeeps
<1>2. CASE \E ms \in Histories, as \in {<<>>} \cup {<<a>> : a \in TaskArtifacts},
              fileParts, inlineArtifacts, history \in BOOLEAN, max \in 0 .. 1 :
             WriteTask(ms, as, fileParts, inlineArtifacts, history, max)
  BY <1>1, <1>2, WritesAreBlocks DEF WriteTask
<1>3. CASE \E m \in Message, fileParts \in BOOLEAN : WriteMessage(m, fileParts)
  BY <1>1, <1>3, WritesAreBlocks DEF WriteMessage
<1>4. CASE WriteOther
  BY <1>1, <1>4, WritesAreBlocks DEF WriteOther
<1>5. CASE Build("system") \/ Build("messages")
  BY <1>5, BuildKeeps DEF Modes
<1>6. CASE Reset
  BY <1>6, EmptyPrompt
<1>7. CASE UNCHANGED promptVars
  BY <1>7 DEF promptVars, PromptInv, ContentInv, ShownInv, ToolInv
<1> QED
  BY <1>2, <1>3, <1>4, <1>5, <1>6, <1>7 DEF PromptNext

\* The inductive invariant of the prompt builder: blocks, references and the tool that is kept.
THEOREM PromptInvariant == PromptSpec => []PromptInv
<1>1. PromptInit => PromptInv
  BY EmptyPrompt
<1>2. PromptInv /\ [PromptNext]_promptVars => PromptInv'
  BY PromptStep
<1> QED
  BY <1>1, <1>2, PTL DEF PromptSpec

(***************************************************************************)
(* However many blocks, messages and builds: the references of the block   *)
(* whose tool is returned resolve; so do those of a prompt with one task   *)
(* or message that is built in one way, but for the hint a system prompt   *)
(* gives about a cut history, which may come without any tool.             *)
(***************************************************************************)
THEOREM ReferencesLead == PromptSpec => []ReferencesResolve
<1>1. PromptInv => ReferencesResolve
  BY Resolved
<1> QED
  BY <1>1, PromptInvariant, PTL

=============================================================================

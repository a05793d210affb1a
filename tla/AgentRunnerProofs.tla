-------------------------- MODULE AgentRunnerProofs --------------------------
(***************************************************************************)
(* Proofs about the agent runner: what the model is asked, what the event  *)
(* bus shows of the run, and that the history agrees with the request.     *)
(***************************************************************************)
EXTENDS AgentRunner, TLAPS, WellFoundedInduction

-----------------------------------------------------------------------------
(* Induction and recursion up to n.                                        *)

LEMMA Induction ==
  ASSUME NEW n \in Nat, NEW Good, 0 \in Good,
         \A i \in 1..n : i - 1 \in Good => i \in Good
  PROVE  \A i \in 0..n : i \in Good
  <1> DEFINE Bad == {i \in 0..n : i \notin Good}
  <1> SUFFICES ASSUME Bad # {} PROVE FALSE OBVIOUS
  <1>1. Bad \subseteq Nat OBVIOUS
  <1>2. PICK m \in Bad : \A j \in Nat : j < m => j \notin Bad
    <2>1. IsWellFoundedOn(OpToRel(<, Nat), Nat) BY NatLessThanWellFounded
    <2>2. PICK m \in Bad : \A j \in Nat : <<j, m>> \in OpToRel(<, Nat) => ~(j \in Bad)
      BY <1>1, <2>1, WFMin
    <2>3. \A j \in Nat : j < m => <<j, m>> \in OpToRel(<, Nat) BY <1>1 DEF OpToRel
    <2> QED BY <2>2, <2>3
  <1>3. m \in 0..n /\ m \notin Good OBVIOUS
  <1>4. m # 0 BY <1>3
  <1>5. m \in 1..n /\ m - 1 \in 0..n /\ m - 1 \in Nat /\ m - 1 < m BY <1>3, <1>4
  <1>6. m - 1 \in Good BY <1>2, <1>5
  <1> QED BY <1>3, <1>5, <1>6

\* f is the function that starts with base and goes on with step, up to n.
Follows(f, n, base, step) ==
  f = [i \in 0..n |-> IF i = 0 THEN base ELSE step[i][f[i - 1]]]

LEMMA Recursion ==
  ASSUME NEW R, NEW base \in R, NEW n \in Nat, NEW step \in [1..n -> [R -> R]]
  PROVE  \E f \in [0..n -> R] : Follows(f, n, base, step)
  <1> DEFINE Good == {m \in 0..n : \E f \in [0..m -> R] :
                        \A i \in 0..m : f[i] = IF i = 0 THEN base ELSE step[i][f[i - 1]]}
  <1>1. 0 \in Good
    <2> DEFINE f == [i \in 0..0 |-> base]
    <2>1. f \in [0..0 -> R] /\ \A i \in 0..0 : f[i] = IF i = 0 THEN base ELSE step[i][f[i - 1]]
      OBVIOUS
    <2> HIDE DEF f
    <2>2. 0 \in 0..n OBVIOUS
    <2> QED BY <2>1, <2>2
  <1>2. ASSUME NEW m \in 1..n, m - 1 \in Good PROVE m \in Good
    <2>1. PICK f \in [0..(m - 1) -> R] :
            \A i \in 0..(m - 1) : f[i] = IF i = 0 THEN base ELSE step[i][f[i - 1]]
      BY <1>2
    <2> DEFINE last == step[m][f[m - 1]]
               g == [i \in 0..m |-> IF i = m THEN last ELSE f[i]]
    <2>2. last \in R BY <2>1
    <2> HIDE DEF last
    <2>3. g \in [0..m -> R] BY <2>1, <2>2
    <2>4. \A i \in 0..(m - 1) : g[i] = f[i] /\ (i # 0 => g[i - 1] = f[i - 1]) OBVIOUS
    <2>5. g[m] = last /\ g[m - 1] = f[m - 1] OBVIOUS
    <2> HIDE DEF g
    <2>6. ASSUME NEW i \in 0..m PROVE g[i] = IF i = 0 THEN base ELSE step[i][g[i - 1]]
      <3>1. CASE i = m BY <2>5, <3>1 DEF last
      <3>2. CASE i # m
        <4>1. i \in 0..(m - 1) BY <3>2
        <4> QED BY <2>1, <2>4, <4>1
      <3> QED BY <3>1, <3>2
    <2> QED BY <2>3, <2>6
  <1> HIDE DEF Good
  <1>3. n \in Good
    <2>1. \A i \in 1..n : i - 1 \in Good => i \in Good BY <1>2
    <2>2. \A i \in 0..n : i \in Good BY <1>1, <2>1, Induction
    <2> QED BY <2>2
  <1>4. PICK f \in [0..n -> R] : \A i \in 0..n : f[i] = IF i = 0 THEN base ELSE step[i][f[i - 1]]
    BY <1>3 DEF Good
  <1> QED BY <1>4 DEF Follows

-----------------------------------------------------------------------------
(* The messages of an attempt.                                             *)

\* said is the loop of OfAttempt.
Says(said, s, a) ==
  said = [i \in 0..Len(s) |->
            IF i = 0 THEN << >>
            ELSE IF s[i].attempt = a THEN Append(said[i - 1], s[i]) ELSE said[i - 1]]

LEMMA OfAttemptLoops ==
  ASSUME NEW s \in Seq(Message), NEW a
  PROVE  \E said \in [0..Len(s) -> Seq(Message)] : Says(said, s, a) /\ OfAttempt(s, a) = said[Len(s)]
  <1> DEFINE n == Len(s)
             R == Seq(Message)
             Turn(i, q) == IF s[i].attempt = a THEN Append(q, s[i]) ELSE q
             step == [i \in 1..n |-> [q \in R |-> Turn(i, q)]]
             Eq(g) == Says(g, s, a)
             g == CHOOSE g : Eq(g)
  <1>1. n \in Nat /\ << >> \in R OBVIOUS
  <1>2. \A i \in 1..n, q \in R : Turn(i, q) \in R OBVIOUS
  <1>3. \E f : Eq(f)
    <2> HIDE DEF Turn, R, n
    <2>1. step \in [1..n -> [R -> R]] BY <1>2
    <2>2. \A i \in 1..n : \A q \in R : step[i][q] = Turn(i, q) OBVIOUS
    <2> HIDE DEF step
    <2>3. PICK f \in [0..n -> R] : Follows(f, n, << >>, step) BY <1>1, <2>1, Recursion
    <2>4. \A i \in 0..n : f[i] = IF i = 0 THEN << >> ELSE Turn(i, f[i - 1])
      <3>1. \A i \in 1..n : f[i - 1] \in R BY <1>1
      <3>2. \A i \in 0..n : f[i] = IF i = 0 THEN << >> ELSE step[i][f[i - 1]] BY <2>3 DEF Follows
      <3>3. \A i \in 0..n : i # 0 => i \in 1..n BY <1>1
      <3> QED BY <2>2, <3>1, <3>2, <3>3
    <2>5. f = [i \in 0..n |-> IF i = 0 THEN << >> ELSE Turn(i, f[i - 1])] BY <2>4
    <2> QED BY <2>5 DEF Turn, Says, n
  <1>4. Eq(g) BY <1>3, Zenon
  <1>5. OfAttempt(s, a) = g[n] BY DEF OfAttempt, Says
  <1>6. \A i \in 0..n : g[i] = IF i = 0 THEN << >> ELSE Turn(i, g[i - 1]) BY <1>4 DEF Says
  <1>7. DOMAIN g = 0..n /\ g = [i \in 0..n |-> g[i]] BY <1>4 DEF Says
  <1> HIDE DEF g, Turn, R, n
  <1>8. g \in [0..n -> R]
    <2> DEFINE Good == {i \in 0..n : g[i] \in R}
    <2>1. 0 \in Good BY <1>1, <1>6
    <2>2. ASSUME NEW i \in 1..n, i - 1 \in Good PROVE i \in Good
      <3>1. i \in 0..n /\ i # 0 /\ g[i - 1] \in R BY <1>1, <2>2
      <3>2. g[i] = Turn(i, g[i - 1]) BY <1>6, <3>1
      <3> QED BY <1>2, <3>1, <3>2
    <2> HIDE DEF Good
    <2>3. \A i \in 0..n : i \in Good BY <1>1, <2>1, <2>2, Induction
    <2> QED BY <1>7, <2>3 DEF Good
  <1> QED BY <1>4, <1>5, <1>8 DEF n, R

\* Two loops over the same beginning agree on it.
LEMMA SaysSame ==
  ASSUME NEW s \in Seq(Message), NEW t \in Seq(Message), NEW a, NEW f, NEW g, Says(f, s, a), Says(g, t, a),
         Len(s) <= Len(t), \A i \in 1..Len(s) : t[i] = s[i]
  PROVE  \A i \in 0..Len(s) : g[i] = f[i]
  <1>1. PICK n \in Nat : n = Len(s) OBVIOUS
  <1>2. \A i \in 0..n : f[i] = IF i = 0 THEN << >>
                               ELSE IF s[i].attempt = a THEN Append(f[i - 1], s[i]) ELSE f[i - 1]
    BY <1>1 DEF Says
  <1>3. \A i \in 0..n : g[i] = IF i = 0 THEN << >>
                               ELSE IF t[i].attempt = a THEN Append(g[i - 1], t[i]) ELSE g[i - 1]
    <2>1. \A i \in 0..n : i \in 0..Len(t) BY <1>1
    <2> QED BY <2>1 DEF Says
  <1> DEFINE Good == {i \in 0..n : g[i] = f[i]}
  <1>4. 0 \in Good BY <1>1, <1>2, <1>3
  <1>5. ASSUME NEW i \in 1..n, i - 1 \in Good PROVE i \in Good
    <2>1. i \in 0..n /\ i # 0 /\ t[i] = s[i] /\ g[i - 1] = f[i - 1] BY <1>1, <1>5
    <2> QED BY <1>2, <1>3, <2>1
  <1> HIDE DEF Good
  <1>6. \A i \in 0..n : i \in Good BY <1>4, <1>5, Induction
  <1> QED BY <1>1, <1>6 DEF Good

\* One more message.
LEMMA OfAttemptAppend ==
  ASSUME NEW s \in Seq(Message), NEW m \in Message, NEW a
  PROVE  OfAttempt(Append(s, m), a) = IF m.attempt = a THEN Append(OfAttempt(s, a), m) ELSE OfAttempt(s, a)
  <1>1. PICK t : t = Append(s, m) OBVIOUS
  <1>2. /\ t \in Seq(Message)
        /\ Len(s) \in Nat /\ Len(t) = Len(s) + 1 /\ t[Len(t)] = m
        /\ \A i \in 1..Len(s) : t[i] = s[i]
    BY <1>1
  <1>3. PICK f \in [0..Len(s) -> Seq(Message)] : Says(f, s, a) /\ OfAttempt(s, a) = f[Len(s)] BY OfAttemptLoops
  <1>4. PICK g \in [0..Len(t) -> Seq(Message)] : Says(g, t, a) /\ OfAttempt(t, a) = g[Len(t)]
    BY <1>2, OfAttemptLoops
  <1>5. \A i \in 0..Len(s) : g[i] = f[i]
    <2>1. Len(s) <= Len(t) BY <1>2
    <2> QED BY <1>2, <1>3, <1>4, <2>1, SaysSame
  <1>6. Len(t) \in 0..Len(t) /\ Len(t) # 0 /\ Len(t) - 1 = Len(s) /\ Len(s) \in 0..Len(s) BY <1>2
  <1>7. g[Len(t)] = IF m.attempt = a THEN Append(g[Len(s)], m) ELSE g[Len(s)] BY <1>2, <1>4, <1>6 DEF Says
  <1> QED BY <1>1, <1>3, <1>4, <1>5, <1>6, <1>7

\* Only one message is of the attempt.
LEMMA OfAttemptAlone ==
  ASSUME NEW s \in Seq(Message), NEW a, NEW p \in 1..Len(s), s[p].attempt = a,
         \A i \in 1..Len(s) : i # p => s[i].attempt # a
  PROVE  OfAttempt(s, a) = <<s[p]>>
  <1>1. PICK n \in Nat : n = Len(s) OBVIOUS
  <1>2. PICK f \in [0..Len(s) -> Seq(Message)] : Says(f, s, a) /\ OfAttempt(s, a) = f[Len(s)] BY OfAttemptLoops
  <1>3. \A i \in 0..n : f[i] = IF i = 0 THEN << >>
                               ELSE IF s[i].attempt = a THEN Append(f[i - 1], s[i]) ELSE f[i - 1]
    BY <1>1, <1>2 DEF Says
  <1> DEFINE Good == {i \in 0..n : f[i] = IF i < p THEN << >> ELSE <<s[p]>>}
  <1>4. 0 \in Good BY <1>1, <1>3
  <1>5. ASSUME NEW i \in 1..n, i - 1 \in Good PROVE i \in Good
    <2>1. i \in 0..n /\ i # 0 /\ i \in 1..Len(s) /\ f[i - 1] = IF i - 1 < p THEN << >> ELSE <<s[p]>>
      BY <1>1, <1>5
    <2>2. CASE i = p
      <3>1. f[i - 1] = << >> BY <2>1, <2>2
      <3>2. f[i] = Append(<< >>, s[p]) BY <1>3, <2>1, <2>2, <3>1
      <3>3. f[i] = <<s[p]>> BY <3>2
      <3> QED BY <2>1, <2>2, <3>3
    <2>3. CASE i # p
      <3>1. f[i] = f[i - 1] BY <1>3, <2>1, <2>3
      <3>2. i - 1 < p <=> i < p BY <1>1, <2>3
      <3> QED BY <2>1, <3>1, <3>2
    <2> QED BY <2>2, <2>3
  <1> HIDE DEF Good
  <1>6. \A i \in 0..n : i \in Good BY <1>4, <1>5, Induction
  <1>7. n \in Good /\ p <= n BY <1>1, <1>6
  <1> QED BY <1>1, <1>2, <1>7 DEF Good

-----------------------------------------------------------------------------
(* The invariant.                                                          *)

EarlyPcs == {"user", "render", "compact", "fold", "rerender", "assemble"}
LoopPcs == {"llm", "decide", "tool"}
OpenPcs == EarlyPcs \cup LoopPcs \cup {"finish", "fail"}

PromptOf(a) == [role |-> "user", calls |-> << >>, to |-> NoId, attempt |-> a]

\* Message m of attempt a answers a call.
AnswersTo(m, call, a) ==
  /\ m.role = "tool" /\ m.attempt = a
  /\ IF call = NoId THEN m.to \notin GivenId ELSE m.to = call

\* The calls of message i of ms are answered.
AnsweredIn(ms, i, a) ==
  \A k \in 1..Len(ms[i].calls) : i + k \in 1..Len(ms) /\ AnswersTo(ms[i + k], ms[i].calls[k], a)

Complete(ms, a) ==
  \A i \in 1..Len(ms) : ms[i].role = "assistant" => AnsweredIn(ms, i, a)

\* All calls are answered, but for the last of those of the last assistant message.
Waiting(ms, left, a) ==
  \E p \in 1..Len(ms) :
    /\ ms[p].role = "assistant"
    /\ Len(ms[p].calls) = Len(ms) - p + Len(left)
    /\ \A k \in 1..(Len(ms) - p) : AnswersTo(ms[p + k], ms[p].calls[k], a)
    /\ \A k \in 1..Len(left) : ms[p].calls[Len(ms) - p + k] = left[k].id
    /\ \A i \in 1..Len(ms) : i # p /\ ms[i].role = "assistant" => AnsweredIn(ms, i, a)

Shape ==
  /\ pc = "llm" => Complete(msgs, attempt)
  /\ pc \in {"decide", "tool"} => Waiting(msgs, calls, attempt)

\* Where the messages of attempt a are, and its prompt: nowhere yet, last, the only message of a.
NoLater(h, a) == \A i \in 1..Len(h) : h[i].attempt <= a
Earlier(h, a) == \A i \in 1..Len(h) : h[i].attempt # a
PromptLast(h, a) ==
  /\ Len(h) >= 1 /\ h[Len(h)] = PromptOf(a)
  /\ \A i \in 1..Len(h) : i # Len(h) => h[i].attempt # a
PromptAlone(h, a) ==
  \E p \in 1..Len(h) : h[p] = PromptOf(a) /\ \A i \in 1..Len(h) : i # p => h[i].attempt # a
HasPrompt(ms, a) == \E p \in 1..Len(ms) : ms[p] = PromptOf(a)

Story ==
  /\ pc # "idle" => attempt >= 1
  /\ NoLater(history, attempt)
  /\ pc = "user" => Earlier(history, attempt)
  /\ pc \in {"render", "compact", "fold"} => PromptLast(history, attempt)
  /\ pc = "fold" => Len(history) > KeepHead + KeepTail + 1
  /\ pc \in {"rerender", "assemble"} => PromptAlone(history, attempt)
  /\ pc \in LoopPcs => HasPrompt(msgs, attempt)
  /\ pc \in LoopPcs /\ ~unsaved => OfAttempt(history, attempt) = OfAttempt(msgs, attempt)

\* What the bus shows, unless an event was lost: the state, or COMPACTING from
\* the announcement of a fold on, until the next event if the fold failed.
Shown ==
  /\ pc \in EarlyPcs \cup {"llm", "decide", "finish"} => cur = "RUNNING"
  /\ pc = "tool" => cur = "WAITING_TOOL"
  /\ pc = "fail" => cur \in {"RUNNING", "WAITING_TOOL"}
  /\ lost \/ pc \notin OpenPcs \/
       IF pc \in {"fold", "rerender"} THEN seen = "COMPACTING"
       ELSE IF pc = "fail" THEN seen \in {"RUNNING", "WAITING_TOOL", "COMPACTING"}
       ELSE \/ seen = cur
            \/ unfolded /\ seen = "COMPACTING" /\ pc \in {"assemble", "llm", "decide", "finish"}

Told ==
  /\ pc \in OpenPcs => outcome = "none"
  /\ EndIsPublished

Inv == TypeOK /\ Shape /\ Story /\ Shown /\ Told

-----------------------------------------------------------------------------
(* Types.                                                                  *)

LEMMA SaidIs ==
  ASSUME TypeOK, NEW role \in {"user", "assistant", "tool"}, NEW ids \in Seq(GivenId), NEW to \in Nat
  PROVE  /\ Said(role, ids, to) \in Message
         /\ Said(role, ids, to).role = role /\ Said(role, ids, to).calls = ids
         /\ Said(role, ids, to).to = to /\ Said(role, ids, to).attempt = attempt
  <1>1. attempt \in Nat BY RunnerAssumption DEF TypeOK
  <1> QED BY <1>1 DEF Said, Message

LEMMA PromptIs == ASSUME TypeOK PROVE Prompt \in Message /\ Prompt.attempt = attempt /\ Prompt = PromptOf(attempt)
  <1>1. << >> \in Seq(GivenId) /\ NoId \in Nat BY DEF NoId
  <1>2. Said("user", << >>, NoId) \in Message /\ Said("user", << >>, NoId).attempt = attempt
    <2>1. PICK role \in {"user", "assistant", "tool"} : role = "user" OBVIOUS
    <2>2. PICK ids \in Seq(GivenId) : ids = << >> BY <1>1
    <2>3. Said(role, ids, NoId) \in Message /\ Said(role, ids, NoId).attempt = attempt BY <1>1, SaidIs
    <2> QED BY <2>1, <2>2, <2>3
  <1> QED BY <1>2 DEF Prompt, PromptOf, Said

LEMMA AssistantIs ==
  ASSUME TypeOK, NEW reply \in Seq(Call)
  PROVE  /\ Assistant(reply) \in Message
         /\ Assistant(reply).role = "assistant" /\ Assistant(reply).attempt = attempt
         /\ Len(Assistant(reply).calls) = Len(reply)
         /\ \A k \in 1..Len(reply) : Assistant(reply).calls[k] = reply[k].id
  <1>1. PICK n \in Nat : n = Len(reply) /\ DOMAIN reply = 1..n OBVIOUS
  <1>2. PICK ids : ids = [k \in 1..n |-> reply[k].id] OBVIOUS
  <1>3. \A k \in 1..n : reply[k].id \in GivenId
    <2>1. \A k \in 1..n : reply[k] \in Call BY <1>1
    <2> QED BY <2>1 DEF Call
  <1>4. ids \in Seq(GivenId) /\ Len(ids) = n /\ \A k \in 1..n : ids[k] = reply[k].id BY <1>2, <1>3
  <1>5. Assistant(reply) = Said("assistant", ids, NoId) BY <1>1, <1>2 DEF Assistant
  <1>6. NoId \in Nat BY DEF NoId
  <1> QED BY <1>1, <1>4, <1>5, <1>6, SaidIs

\* The answer to the call at hand, given the message it follows.
LEMMA AnswerIs ==
  ASSUME TypeOK, calls # << >>, msgs # << >>
  PROVE  /\ Answer \in Message /\ Answer.attempt = attempt
         /\ AnswersTo(Answer, Head(calls).id, attempt)
  <1>1. msgs \in Seq(Message) /\ Len(msgs) \in Nat /\ Len(msgs) >= 1 BY DEF TypeOK
  <1>2. Head(calls) \in Call BY DEF TypeOK
  <1>3. PICK id \in GivenId : id = Head(calls).id BY <1>2 DEF Call
  <1>4. MaxId \in Nat BY RunnerAssumption
  <1>5. CallId \in Nat /\ IF id = NoId THEN CallId \notin GivenId ELSE CallId = id
    BY <1>1, <1>3, <1>4 DEF CallId, NewRunID, GivenId
  <1>6. << >> \in Seq(GivenId) OBVIOUS
  <1>7. /\ Answer \in Message /\ Answer.role = "tool" /\ Answer.attempt = attempt /\ Answer.to = CallId
    <2>1. PICK role \in {"user", "assistant", "tool"} : role = "tool" OBVIOUS
    <2>2. PICK ids \in Seq(GivenId) : ids = << >> BY <1>6
    <2>3. Answer = Said(role, ids, CallId) BY <2>1, <2>2 DEF Answer
    <2> QED BY <1>5, <2>1, <2>3, SaidIs
  <1> QED BY <1>3, <1>5, <1>7 DEF AnswersTo

LEMMA SaveTypes ==
  ASSUME TypeOK, NEW m \in Message, Save(m)
  PROVE  history' \in Seq(Message) /\ unsaved' \in BOOLEAN
  <1>1. history \in Seq(Message) /\ unsaved \in BOOLEAN BY DEF TypeOK
  <1>2. Append(history, m) \in Seq(Message) BY <1>1
  <1> QED BY <1>1, <1>2 DEF Save

LEMMA PublishTypes ==
  ASSUME TypeOK, NEW from, NEW to \in State, PublishState(from, to)
  PROVE  seen' \in State /\ lost' \in BOOLEAN
  BY DEF TypeOK, PublishState

LEMMA AppendIs ==
  ASSUME NEW S, NEW s \in Seq(S), NEW x \in S
  PROVE  /\ Append(s, x) \in Seq(S) /\ Len(Append(s, x)) = Len(s) + 1 /\ Len(s) \in Nat
         /\ Append(s, x)[Len(s) + 1] = x
         /\ \A i \in 1..Len(s) : Append(s, x)[i] = s[i]
  OBVIOUS

LEMMA ConcatIs ==
  ASSUME NEW S, NEW a \in Seq(S), NEW b \in Seq(S)
  PROVE  /\ a \o b \in Seq(S) /\ Len(a \o b) = Len(a) + Len(b) /\ Len(a) \in Nat /\ Len(b) \in Nat
         /\ \A i \in 1..Len(a) : (a \o b)[i] = a[i]
         /\ \A i \in 1..Len(b) : (a \o b)[Len(a) + i] = b[i]
  OBVIOUS

LEMMA FoldedIs ==
  ASSUME NEW h \in Seq(Message), Len(h) > KeepHead + KeepTail + 1
  PROVE  LET t == Folded(h)
         IN  /\ t \in Seq(Message) /\ Len(t) = KeepHead + KeepTail + 1
             /\ \A i \in 1..KeepHead : t[i] = h[i]
             /\ \A i \in 1..KeepTail : t[KeepHead + i] = h[Len(h) - KeepTail + i]
             /\ t[Len(t)] = Old("assistant")
  <1>1. PICK H, T, n : H = KeepHead /\ T = KeepTail /\ n = Len(h) OBVIOUS
  <1>2. n \in Nat /\ H \in Nat /\ T \in Nat /\ T >= 1 /\ n > H + T + 1 BY <1>1, RunnerAssumption
  <1>3. PICK a, b, z : /\ a = SubSeq(h, 1, H) /\ b = SubSeq(h, n - T + 1, n)
                       /\ z = Old("assistant")
    OBVIOUS
  <1>4. z \in Message
    <2>1. << >> \in Seq(GivenId) OBVIOUS
    <2> QED BY <1>3, <2>1 DEF Message, Old, NoId
  <1>5. a \in Seq(Message) /\ Len(a) = H /\ \A i \in 1..H : a[i] = h[i] BY <1>1, <1>2, <1>3
  <1>6. b \in Seq(Message) /\ Len(b) = T /\ \A i \in 1..T : b[i] = h[n - T + i]
    <2>1. n - T + 1 \in 1..n /\ n \in 1..n BY <1>2
    <2>2. b \in Seq(Message) /\ Len(b) = n - (n - T + 1) + 1 BY <1>1, <1>2, <1>3, <2>1
    <2>3. \A i \in 1..T : b[i] = h[n - T + 1 + i - 1] BY <1>1, <1>2, <1>3, <2>1
    <2> QED BY <1>2, <2>2, <2>3
  <1>7. PICK ab : ab = a \o b OBVIOUS
  <1>8. /\ ab \in Seq(Message) /\ Len(ab) = H + T
        /\ \A i \in 1..H : ab[i] = a[i]
        /\ \A i \in 1..T : ab[H + i] = b[i]
    <2>1. a \in Seq(Message) /\ b \in Seq(Message) BY <1>5, <1>6
    <2>2. /\ a \o b \in Seq(Message) /\ Len(a \o b) = Len(a) + Len(b)
          /\ \A i \in 1..Len(a) : (a \o b)[i] = a[i]
          /\ \A i \in 1..Len(b) : (a \o b)[Len(a) + i] = b[i]
      BY <2>1, ConcatIs
    <2>3. Len(a) = H /\ Len(b) = T BY <1>5, <1>6
    <2> QED BY <1>7, <2>2, <2>3
  <1>9. PICK t : t = Append(ab, z) OBVIOUS
  <1>10. /\ t \in Seq(Message) /\ Len(t) = H + T + 1 /\ t[Len(t)] = z
         /\ \A i \in 1..(H + T) : t[i] = ab[i]
    <2>1. ab \in Seq(Message) /\ Len(ab) = H + T BY <1>8
    <2>2. /\ t \in Seq(Message) /\ Len(t) = Len(ab) + 1 /\ t[Len(ab) + 1] = z
          /\ \A i \in 1..Len(ab) : t[i] = ab[i]
      BY <1>4, <1>9, <2>1, AppendIs
    <2> QED BY <2>1, <2>2
  <1>11. t = Folded(h)
    <2>1. Folded(h) = ab \o <<z>> BY <1>1, <1>3, <1>7 DEF Folded
    <2>2. ab \o <<z>> = Append(ab, z) BY <1>4, <1>8
    <2> QED BY <1>9, <2>1, <2>2
  <1>12. \A i \in 1..H : t[i] = h[i]
    <2>1. \A i \in 1..H : i \in 1..(H + T) BY <1>2
    <2> QED BY <1>5, <1>8, <1>10, <2>1
  <1>13. \A i \in 1..T : t[H + i] = h[n - T + i]
    <2>1. \A i \in 1..T : H + i \in 1..(H + T) BY <1>2
    <2> QED BY <1>6, <1>8, <1>10, <2>1
  <1> QED BY <1>1, <1>2, <1>3, <1>10, <1>11, <1>12, <1>13

Forgotten(x) == [x EXCEPT !.calls = << >>, !.to = NoId]
Plain(x) == x.calls = << >> /\ x.to = NoId

LEMMA FromHistoryIs ==
  ASSUME NEW h \in Seq(Message)
  PROVE  LET m == FromHistory(h)
         IN  /\ m \in Seq(Message) /\ Len(m) = Len(h)
             /\ \A i \in 1..Len(h) : /\ Plain(m[i]) /\ m[i].role = h[i].role /\ m[i].attempt = h[i].attempt
                                     /\ Plain(h[i]) => m[i] = h[i]
  <1>1. PICK n \in Nat : n = Len(h) /\ DOMAIN h = 1..n OBVIOUS
  <1>2. PICK m : m = [i \in 1..n |-> Forgotten(h[i])] OBVIOUS
  <1>3. \A i \in 1..n : h[i] \in Message BY <1>1
  <1>4. ASSUME NEW x \in Message
        PROVE  /\ Forgotten(x) \in Message
               /\ Plain(Forgotten(x)) /\ Forgotten(x).role = x.role
               /\ Forgotten(x).attempt = x.attempt
               /\ Plain(x) => Forgotten(x) = x
    <2>1. << >> \in Seq(GivenId) OBVIOUS
    <2> QED BY <2>1 DEF Message, Forgotten, Plain, NoId
  <1>5. m \in [1..n -> Message] BY <1>2, <1>3, <1>4
  <1>6. m \in Seq(Message) /\ Len(m) = n BY <1>1, <1>5
  <1>7. m = FromHistory(h) BY <1>1, <1>2 DEF FromHistory, Forgotten
  <1>8. \A i \in 1..n : m[i] = Forgotten(h[i]) BY <1>2
  <1>9. ASSUME NEW i \in 1..n
        PROVE  /\ Plain(m[i]) /\ m[i].role = h[i].role /\ m[i].attempt = h[i].attempt
               /\ Plain(h[i]) => m[i] = h[i]
    <2>1. PICK x \in Message : x = h[i] BY <1>3
    <2>2. m[i] = Forgotten(x) BY <1>8, <2>1
    <2> QED BY <1>4, <2>1, <2>2
  <1> HIDE DEF Message, Forgotten, Plain
  <1> QED BY <1>1, <1>6, <1>7, <1>9

LEMMA TypesKept == ASSUME Inv, [Next]_vars PROVE TypeOK'
  <1>1. TypeOK /\ Shape /\ Story BY DEF Inv
  <1>2. /\ attempt \in 0..MaxRetry /\ MaxRetry \in Nat /\ attempt \in Nat
        /\ toolRounds \in 0..ToolMaxSteps /\ ToolMaxSteps \in Nat
        /\ children \in 0..MaxChildren /\ MaxChildren \in Nat
        /\ history \in Seq(Message) /\ msgs \in Seq(Message) /\ calls \in Seq(Call)
    BY <1>1, RunnerAssumption DEF TypeOK
  <1>3. CASE Begin
    <2>1. attempt' \in 0..MaxRetry BY <1>2, <1>3 DEF Begin
    <2>2. children' \in 0..MaxChildren BY <1>2, <1>3 DEF Begin
    <2>3. "RUNNING" \in State BY DEF State
    <2> QED BY <1>1, <1>3, <2>1, <2>2, <2>3 DEF TypeOK, Begin, Goto, Phase, noteVars
  <1>4. CASE AppendUser
    <2>1. Prompt \in Message BY <1>1, PromptIs
    <2>2. history' \in Seq(Message)
      <3>1. Append(history, Prompt) \in Seq(Message) BY <1>2, <2>1, AppendIs
      <3> QED BY <1>2, <1>4, <3>1 DEF AppendUser
    <2> QED BY <1>1, <1>4, <2>2 DEF TypeOK, AppendUser, Goto, Phase, runVars, loopVars, busVars, noteVars
  <1>5. CASE Render \/ CompactSkip \/ StreamFails \/ Answered \/ Refused \/ ToolFails \/ Retry
    BY <1>1, <1>5 DEF TypeOK, Render, CompactSkip, StreamFails, Answered, Refused, ToolFails, Retry,
                      Goto, Phase, runVars, loopVars, busVars, noteVars
  <1>6. CASE CompactAnnounce
    <2>1. "COMPACTING" \in State BY DEF State
    <2> QED BY <1>1, <1>6, <2>1 DEF TypeOK, CompactAnnounce, Goto, Phase, runVars, loopVars, busVars, noteVars
  <1>7. CASE Fold
    <2>1. history' \in Seq(Message)
      <3>1. Len(history) > KeepHead + KeepTail + 1 BY <1>1, <1>7 DEF Story, Fold
      <3>2. Folded(history) \in Seq(Message) BY <1>2, <3>1, FoldedIs
      <3> QED BY <1>2, <1>7, <3>2 DEF Fold
    <2> QED BY <1>1, <1>7, <2>1 DEF TypeOK, Fold, Goto, Phase, runVars, loopVars, busVars, noteVars
  <1>8. CASE RenderAfterCompact
    <2>1. seen' \in State /\ lost' \in BOOLEAN
      <3>1. "RUNNING" \in State BY DEF State
      <3>2. CASE PublishState("COMPACTING", "RUNNING") BY <1>1, <3>1, <3>2, PublishTypes
      <3>3. CASE UNCHANGED <<seen, lost>> BY <1>1, <3>3 DEF TypeOK
      <3> QED BY <1>8, <3>2, <3>3 DEF RenderAfterCompact
    <2> QED BY <1>1, <1>8, <2>1 DEF TypeOK, RenderAfterCompact, Goto, Phase, runVars, loopVars, noteVars
  <1>9. CASE Assemble
    <2>1. msgs' \in Seq(Message) BY <1>2, <1>9, FromHistoryIs DEF Assemble
    <2> QED BY <1>1, <1>9, <2>1 DEF TypeOK, Assemble, Goto, Phase, runVars, busVars, noteVars
  <1>10. CASE StreamOnce
    <2>1. PICK reply \in Replies :
            /\ calls' = reply
            /\ msgs' = Append(msgs, Assistant(reply))
            /\ \/ Save(Assistant(reply))
               \/ unsaved' = TRUE /\ UNCHANGED history
      BY <1>10 DEF StreamOnce
    <2>2. reply \in Seq(Call) BY RunnerAssumption
    <2>3. Assistant(reply) \in Message BY <1>1, <2>2, AssistantIs
    <2>4. msgs' \in Seq(Message) BY <1>2, <2>1, <2>3, AppendIs
    <2>5. history' \in Seq(Message) /\ unsaved' \in BOOLEAN BY <1>1, <1>2, <2>1, <2>3, SaveTypes
    <2> QED BY <1>1, <1>10, <2>1, <2>2, <2>4, <2>5 DEF TypeOK, StreamOnce, Goto, Phase, runVars, busVars
  <1>11. CASE StreamCut
    <2>1. << >> \in Seq(Call) /\ Assistant(<< >>) \in Message
      <3>1. << >> \in Seq(Call) OBVIOUS
      <3> QED BY <1>1, <3>1, AssistantIs
    <2>2. msgs' \in Seq(Message) BY <1>2, <1>11, <2>1, AppendIs DEF StreamCut
    <2>3. calls' \in Seq(Call) BY <1>11 DEF StreamCut
    <2> QED BY <1>1, <1>11, <2>2, <2>3 DEF TypeOK, StreamCut, Goto, Phase, runVars, busVars
  <1>12. CASE EnterTools
    <2>1. seen' \in State /\ lost' \in BOOLEAN
      <3>1. "WAITING_TOOL" \in State BY DEF State
      <3> QED BY <1>1, <1>12, <3>1, PublishTypes DEF EnterTools
    <2>2. toolRounds' \in 0..ToolMaxSteps BY <1>2, <1>12 DEF EnterTools, MoreRounds
    <2>3. "WAITING_TOOL" \in State BY DEF State
    <2> QED BY <1>1, <1>12, <2>1, <2>2, <2>3 DEF TypeOK, EnterTools, Goto, Phase, runVars, noteVars
  <1>13. CASE LeaveTools
    <2>1. "RUNNING" \in State BY DEF State
    <2>2. seen' \in State /\ lost' \in BOOLEAN BY <1>1, <1>13, <2>1, PublishTypes DEF LeaveTools
    <2> QED BY <1>1, <1>13, <2>1, <2>2 DEF TypeOK, LeaveTools, Goto, Phase, runVars, loopVars, noteVars
  <1>14. CASE RunTool \/ RunSubagent
    <2>1. ToolResult /\ calls' = Tail(calls) /\ calls # << >> /\ pc = "tool" BY <1>14 DEF RunTool, RunSubagent
    <2>2. msgs # << >>
      <3>1. PICK p \in 1..Len(msgs) : TRUE BY <1>1, <2>1 DEF Shape, Waiting
      <3> QED BY <1>2, <3>1
    <2>4. Answer \in Message BY <1>1, <2>1, <2>2, AnswerIs
    <2>5. msgs' \in Seq(Message) BY <1>2, <2>1, <2>4, AppendIs DEF ToolResult
    <2>6. history' \in Seq(Message) /\ unsaved' \in BOOLEAN BY <1>1, <2>1, <2>4, SaveTypes DEF ToolResult
    <2>7. calls' \in Seq(Call) BY <1>2, <2>1
    <2>8. children' \in 0..MaxChildren BY <1>2, <1>14 DEF RunTool, RunSubagent
    <2> QED BY <1>1, <1>14, <2>5, <2>6, <2>7, <2>8 DEF TypeOK, RunTool, RunSubagent, runVars, busVars
  <1>15. CASE Finish \/ Fail
    <2>1. "DONE" \in State /\ "FAILED" \in State BY DEF State
    <2>2. seen' \in State /\ lost' \in BOOLEAN BY <1>1, <1>15, <2>1, PublishTypes DEF Finish, Fail, PublishEnd
    <2>3. outcome' \in {"none", "done", "error"} BY <1>1, <1>15 DEF Finish, Fail, PublishEnd, TypeOK
    <2>4. << >> \in Seq(Message) /\ << >> \in Seq(Call) /\ 0 \in 0..ToolMaxSteps BY <1>2
    <2>5. /\ pc' \in {"ok", "error"} /\ msgs' = << >> /\ calls' = << >> /\ toolRounds' = 0
          /\ unfolded' = FALSE /\ unsaved' = FALSE
          /\ UNCHANGED <<config, attempt, cancelled, cur, history, children>>
      BY <1>15 DEF Finish, Fail, Return, Goto, runVars
    <2> QED BY <1>1, <2>2, <2>3, <2>4, <2>5 DEF TypeOK, Phase
  <1>16. CASE Cancel BY <1>1, <1>16 DEF TypeOK, Cancel, loopVars, busVars, noteVars
  <1>17. CASE UNCHANGED vars BY <1>1, <1>17 DEF TypeOK, vars, runVars, loopVars, busVars, noteVars
  <1> QED BY <1>3, <1>4, <1>5, <1>6, <1>7, <1>8, <1>9, <1>10, <1>11, <1>12, <1>13, <1>14, <1>15, <1>16, <1>17
          DEF Next, Step

-----------------------------------------------------------------------------
(* The request.                                                            *)

\* What was answered stays so.
LEMMA AnsweredStays ==
  ASSUME NEW ms \in Seq(Message), NEW x \in Message, NEW i \in 1..Len(ms), NEW a, AnsweredIn(ms, i, a)
  PROVE  AnsweredIn(Append(ms, x), i, a)
  <1>1. PICK t : t = Append(ms, x) OBVIOUS
  <1>2. Len(t) = Len(ms) + 1 /\ Len(ms) \in Nat /\ \A j \in 1..Len(ms) : t[j] = ms[j] BY <1>1, AppendIs
  <1>3. t[i] = ms[i] BY <1>2
  <1>4. ASSUME NEW k \in 1..Len(t[i].calls) PROVE i + k \in 1..Len(t) /\ AnswersTo(t[i + k], t[i].calls[k], a)
    <2>1. i + k \in 1..Len(ms) /\ AnswersTo(ms[i + k], ms[i].calls[k], a) BY <1>3, <1>4 DEF AnsweredIn
    <2>2. i + k \in 1..Len(t) /\ t[i + k] = ms[i + k] BY <1>2, <2>1
    <2> QED BY <1>3, <2>1, <2>2
  <1> QED BY <1>1, <1>4 DEF AnsweredIn

LEMMA AsksFor ==
  ASSUME NEW ms \in Seq(Message), NEW a \in Nat, NEW left \in Seq(Call), Complete(ms, a),
         NEW x \in Message, x.role = "assistant", Len(x.calls) = Len(left),
         \A k \in 1..Len(left) : x.calls[k] = left[k].id
  PROVE  Waiting(Append(ms, x), left, a)
  <1>1. PICK n \in Nat : n = Len(left) OBVIOUS
  <1>2. PICK t : t = Append(ms, x) OBVIOUS
  <1>3. /\ Len(t) = Len(ms) + 1 /\ Len(ms) \in Nat /\ t[Len(ms) + 1] = x
        /\ \A i \in 1..Len(ms) : t[i] = ms[i]
    BY <1>2, AppendIs
  <1>4. PICK p : p = Len(t) OBVIOUS
  <1>5. p \in 1..Len(t) /\ Len(t) - p + n = n /\ t[p] = x BY <1>3, <1>4
  <1>6. \A k \in 1..(Len(t) - p) : AnswersTo(t[p + k], t[p].calls[k], a) BY <1>3, <1>4
  <1>7. ASSUME NEW i \in 1..Len(t), i # p, t[i].role = "assistant" PROVE AnsweredIn(t, i, a)
    <2>1. i \in 1..Len(ms) /\ t[i] = ms[i] BY <1>3, <1>4, <1>7
    <2>2. AnsweredIn(ms, i, a) BY <1>7, <2>1 DEF Complete
    <2> QED BY <1>2, <2>1, <2>2, AnsweredStays
  <1>8. \A k \in 1..Len(left) : t[p].calls[Len(t) - p + k] = left[k].id
    <2>1. \A k \in 1..Len(left) : Len(t) - p + k = k BY <1>3, <1>4
    <2> QED BY <1>5, <2>1
  <1>9. Waiting(t, left, a)
    <2>1. t[p].role = "assistant" /\ Len(t[p].calls) = Len(t) - p + Len(left) BY <1>1, <1>5
    <2> QED BY <1>5, <1>6, <1>7, <1>8, <2>1 DEF Waiting
  <1> QED BY <1>2, <1>9

\* The first of the calls that are left is answered.
LEMMA AnswersNext ==
  ASSUME NEW ms \in Seq(Message), NEW a \in Nat, NEW left \in Seq(Call), left # << >>, Waiting(ms, left, a),
         NEW x \in Message, AnswersTo(x, Head(left).id, a)
  PROVE  Waiting(Append(ms, x), Tail(left), a)
  <1>1. PICK p \in 1..Len(ms) :
          /\ ms[p].role = "assistant"
          /\ Len(ms[p].calls) = Len(ms) - p + Len(left)
          /\ \A k \in 1..(Len(ms) - p) : AnswersTo(ms[p + k], ms[p].calls[k], a)
          /\ \A k \in 1..Len(left) : ms[p].calls[Len(ms) - p + k] = left[k].id
          /\ \A i \in 1..Len(ms) : i # p /\ ms[i].role = "assistant" => AnsweredIn(ms, i, a)
    BY DEF Waiting
  <1>2. Len(ms) \in Nat /\ Len(ms) - p \in Nat /\ p \in Nat BY <1>1
  <1>3. PICK rest : rest = Tail(left) OBVIOUS
  <1>4. /\ Len(left) \in Nat /\ Len(left) >= 1 /\ Len(rest) = Len(left) - 1 /\ Head(left) = left[1]
        /\ \A k \in 1..Len(rest) : rest[k] = left[k + 1]
    BY <1>3
  <1>5. PICK no : no = Len(ms) - p + 1 OBVIOUS
  <1>6. PICK t : t = Append(ms, x) OBVIOUS
  <1>7. /\ Len(t) = Len(ms) + 1 /\ t[Len(ms) + 1] = x
        /\ \A i \in 1..Len(ms) : t[i] = ms[i]
    BY <1>6, AppendIs
  <1>8. p \in 1..Len(t) /\ t[p] = ms[p] /\ Len(t[p].calls) = Len(t) - p + Len(rest)
    <2>1. Len(t) - p + Len(rest) = Len(ms) - p + Len(left) BY <1>2, <1>4, <1>7
    <2>2. p \in 1..Len(t) /\ t[p] = ms[p] BY <1>2, <1>7
    <2> QED BY <1>1, <2>1, <2>2
  <1>9. ASSUME NEW k \in 1..(Len(t) - p) PROVE AnswersTo(t[p + k], t[p].calls[k], a)
    <2>1. CASE k = no
      <3>1. p + k = Len(ms) + 1 BY <1>2, <1>5, <2>1
      <3>2. ms[p].calls[no] = left[1].id
        <4>1. 1 \in 1..Len(left) BY <1>4
        <4> QED BY <1>1, <1>5, <4>1
      <3> QED BY <1>4, <1>7, <1>8, <2>1, <3>1, <3>2
    <2>2. CASE k # no
      <3>1. k \in 1..(Len(ms) - p) /\ p + k \in 1..Len(ms) BY <1>2, <1>5, <1>7, <2>2
      <3>2. t[p + k] = ms[p + k] BY <1>7, <3>1
      <3>3. AnswersTo(ms[p + k], ms[p].calls[k], a) BY <1>1, <3>1
      <3> QED BY <1>8, <3>2, <3>3
    <2> QED BY <2>1, <2>2
  <1>10. ASSUME NEW k \in 1..Len(rest) PROVE t[p].calls[Len(t) - p + k] = rest[k].id
    <2>1. k + 1 \in 1..Len(left) /\ Len(t) - p + k = Len(ms) - p + (k + 1) BY <1>2, <1>4, <1>7
    <2>2. ms[p].calls[Len(ms) - p + (k + 1)] = left[k + 1].id BY <1>1, <2>1
    <2> QED BY <1>4, <1>8, <2>1, <2>2
  <1>11. ASSUME NEW i \in 1..Len(t), i # p, t[i].role = "assistant" PROVE AnsweredIn(t, i, a)
    <2>1. i # Len(ms) + 1
      <3>1. x.role = "tool" BY DEF AnswersTo
      <3> QED BY <1>7, <1>11, <3>1
    <2>2. i \in 1..Len(ms) /\ t[i] = ms[i] BY <1>2, <1>7, <2>1
    <2>3. AnsweredIn(ms, i, a) BY <1>1, <1>11, <2>2
    <2> QED BY <1>6, <2>2, <2>3, AnsweredStays
  <1>12. Waiting(t, rest, a) BY <1>1, <1>8, <1>9, <1>10, <1>11 DEF Waiting
  <1> QED BY <1>3, <1>6, <1>12

LEMMA AllAnswered ==
  ASSUME NEW ms \in Seq(Message), NEW a \in Nat, Waiting(ms, << >>, a)
  PROVE  Complete(ms, a)
  <1>1. PICK p \in 1..Len(ms) :
          /\ Len(ms[p].calls) = Len(ms) - p + Len(<< >>)
          /\ \A k \in 1..(Len(ms) - p) : AnswersTo(ms[p + k], ms[p].calls[k], a)
          /\ \A i \in 1..Len(ms) : i # p /\ ms[i].role = "assistant" => AnsweredIn(ms, i, a)
    BY DEF Waiting
  <1>2. Len(<< >>) = 0 OBVIOUS
  <1>3. Len(ms) \in Nat /\ Len(ms[p].calls) = Len(ms) - p BY <1>1, <1>2
  <1>4. \A k \in 1..(Len(ms) - p) : p + k \in 1..Len(ms) BY <1>3
  <1>5. AnsweredIn(ms, p, a) BY <1>1, <1>3, <1>4 DEF AnsweredIn
  <1> QED BY <1>1, <1>5 DEF Complete

LEMMA ShapeKept == ASSUME Inv, [Next]_vars PROVE Shape'
  <1>1. TypeOK /\ Shape BY DEF Inv
  <1>2. /\ attempt \in Nat /\ history \in Seq(Message) /\ msgs \in Seq(Message) /\ calls \in Seq(Call)
    BY <1>1, RunnerAssumption DEF TypeOK
  <1>3. CASE Begin \/ AppendUser \/ Render \/ CompactSkip \/ CompactAnnounce \/ Fold \/ RenderAfterCompact
             \/ StreamFails \/ Answered \/ Refused \/ ToolFails \/ Finish \/ Fail \/ Retry
    <2>1. pc' \notin {"llm", "decide", "tool"}
      BY <1>3 DEF Begin, AppendUser, Render, CompactSkip, CompactAnnounce, Fold, RenderAfterCompact, StreamFails,
                  Answered, Refused, ToolFails, Finish, Fail, Retry, Return, Goto
    <2> QED BY <2>1 DEF Shape
  <1>4. CASE Assemble
    <2>1. CASE msgs' = FromHistory(history) /\ pc' = "llm" /\ attempt' = attempt
      <3>1. PICK m : m = FromHistory(history) OBVIOUS
      <3>2. \A i \in 1..Len(m) : Len(m[i].calls) = 0 BY <1>2, <3>1, FromHistoryIs DEF Plain
      <3>3. Complete(m, attempt) BY <3>2 DEF Complete, AnsweredIn
      <3> QED BY <2>1, <3>1, <3>3 DEF Shape
    <2>2. CASE pc' = "fail" BY <2>2 DEF Shape
    <2> QED BY <1>4, <2>1, <2>2 DEF Assemble, Goto, runVars
  <1>5. CASE StreamOnce
    <2>1. PICK reply \in Replies : calls' = reply /\ msgs' = Append(msgs, Assistant(reply))
      BY <1>5 DEF StreamOnce
    <2>2. reply \in Seq(Call) /\ Complete(msgs, attempt) BY <1>1, <1>5, RunnerAssumption DEF Shape, StreamOnce
    <2>3. Waiting(Append(msgs, Assistant(reply)), reply, attempt) BY <1>1, <1>2, <2>2, AssistantIs, AsksFor
    <2>4. pc' = "decide" /\ attempt' = attempt BY <1>5 DEF StreamOnce, Goto, runVars
    <2> QED BY <2>1, <2>3, <2>4 DEF Shape
  <1>6. CASE StreamCut
    <2>1. calls' = << >> /\ msgs' = Append(msgs, Assistant(<< >>)) /\ Complete(msgs, attempt)
      BY <1>1, <1>6 DEF StreamCut, Shape
    <2>2. << >> \in Seq(Call) OBVIOUS
    <2>3. Waiting(Append(msgs, Assistant(<< >>)), << >>, attempt) BY <1>1, <1>2, <2>1, <2>2, AssistantIs, AsksFor
    <2>4. pc' = "decide" /\ attempt' = attempt BY <1>6 DEF StreamCut, Goto, runVars
    <2> QED BY <2>1, <2>3, <2>4 DEF Shape
  <1>7. CASE EnterTools
    <2>1. pc = "decide" /\ pc' = "tool" /\ UNCHANGED <<msgs, calls, attempt>> BY <1>7 DEF EnterTools, Goto, runVars
    <2> QED BY <1>1, <2>1 DEF Shape
  <1>8. CASE RunTool \/ RunSubagent
    <2>1. /\ pc = "tool" /\ pc' = "tool" /\ calls # << >> /\ calls' = Tail(calls) /\ attempt' = attempt
          /\ msgs' = Append(msgs, Answer)
      BY <1>8 DEF RunTool, RunSubagent, ToolResult, runVars
    <2>2. Waiting(msgs, calls, attempt) BY <1>1, <2>1 DEF Shape
    <2>3. msgs # << >>
      <3>1. PICK p \in 1..Len(msgs) : TRUE BY <2>2 DEF Waiting
      <3> QED BY <1>2, <3>1
    <2>4. Answer \in Message /\ AnswersTo(Answer, Head(calls).id, attempt) BY <1>1, <2>1, <2>3, AnswerIs
    <2>5. Waiting(Append(msgs, Answer), Tail(calls), attempt) BY <1>2, <2>1, <2>2, <2>4, AnswersNext
    <2> QED BY <2>1, <2>5 DEF Shape
  <1>9. CASE LeaveTools
    <2>1. pc = "tool" /\ calls = << >> /\ pc' = "llm" /\ UNCHANGED <<msgs, attempt>>
      BY <1>9 DEF LeaveTools, Goto, runVars, loopVars
    <2>2. Waiting(msgs, << >>, attempt) BY <1>1, <2>1 DEF Shape
    <2>3. Complete(msgs, attempt) BY <1>2, <2>2, AllAnswered
    <2> QED BY <2>1, <2>3 DEF Shape
  <1>10. CASE Cancel \/ UNCHANGED vars
    BY <1>1, <1>10 DEF Shape, Cancel, vars, runVars, loopVars
  <1> QED BY <1>3, <1>4, <1>5, <1>6, <1>7, <1>8, <1>9, <1>10 DEF Next, Step

-----------------------------------------------------------------------------
(* The prompt, and the story the history tells.                            *)

LEMMA NoLaterAppend ==
  ASSUME NEW h \in Seq(Message), NEW x \in Message, NEW a \in Nat, NoLater(h, a), x.attempt <= a
  PROVE  NoLater(Append(h, x), a)
  <1>1. PICK t : t = Append(h, x) OBVIOUS
  <1>2. Len(t) = Len(h) + 1 /\ Len(h) \in Nat /\ t[Len(h) + 1] = x /\ \A j \in 1..Len(h) : t[j] = h[j]
    BY <1>1, AppendIs
  <1>3. \A i \in 1..Len(t) : i = Len(h) + 1 \/ i \in 1..Len(h) BY <1>2
  <1> QED BY <1>1, <1>2, <1>3 DEF NoLater

LEMMA NoLaterNext ==
  ASSUME NEW h \in Seq(Message), NEW a \in Nat, NoLater(h, a)
  PROVE  NoLater(h, a + 1) /\ Earlier(h, a + 1)
  <1>1. \A x \in Message : x.attempt \in Nat BY DEF Message
  <1>2. \A i \in 1..Len(h) : h[i] \in Message OBVIOUS
  <1>3. \A i \in 1..Len(h) : h[i].attempt \in Nat BY <1>1, <1>2
  <1> QED BY <1>3 DEF NoLater, Earlier

LEMMA PromptAppended ==
  ASSUME NEW h \in Seq(Message), NEW a \in Nat, Earlier(h, a), PromptOf(a) \in Message
  PROVE  PromptLast(Append(h, PromptOf(a)), a)
  <1>1. PICK x \in Message : x = PromptOf(a) OBVIOUS
  <1>2. PICK t : t = Append(h, x) OBVIOUS
  <1>3. Len(t) = Len(h) + 1 /\ Len(h) \in Nat /\ t[Len(h) + 1] = x /\ \A j \in 1..Len(h) : t[j] = h[j]
    BY <1>2, AppendIs
  <1>4. \A i \in 1..Len(t) : i # Len(t) => i \in 1..Len(h) BY <1>3
  <1>5. PromptLast(t, a) BY <1>1, <1>3, <1>4 DEF PromptLast, Earlier
  <1> QED BY <1>1, <1>2, <1>5

LEMMA PromptLastAlone ==
  ASSUME NEW h \in Seq(Message), NEW a, PromptLast(h, a)
  PROVE  PromptAlone(h, a)
  <1>1. Len(h) \in 1..Len(h) BY DEF PromptLast
  <1> QED BY <1>1 DEF PromptLast, PromptAlone

\* The fold keeps the prompt, which the tail ends with, and reveals nothing.
LEMMA PromptFolded ==
  ASSUME NEW h \in Seq(Message), NEW a \in Nat, a >= 1, PromptLast(h, a), NoLater(h, a),
         Len(h) > KeepHead + KeepTail + 1
  PROVE  PromptAlone(Folded(h), a) /\ NoLater(Folded(h), a)
  <1>1. PICK H, T, n : H = KeepHead /\ T = KeepTail /\ n = Len(h) OBVIOUS
  <1>2. n \in Nat /\ H \in Nat /\ T \in Nat /\ T >= 1 /\ n > H + T + 1 BY <1>1, RunnerAssumption
  <1>3. PICK t : t = Folded(h) OBVIOUS
  <1>4. PICK z : z = Old("assistant") OBVIOUS
  <1>5. /\ t \in Seq(Message) /\ Len(t) = H + T + 1
        /\ \A i \in 1..H : t[i] = h[i]
        /\ \A i \in 1..T : t[H + i] = h[n - T + i]
        /\ t[Len(t)] = z
    BY <1>1, <1>3, <1>4, FoldedIs
  <1>6. z.attempt = 0 BY <1>4 DEF Old
  <1>7. /\ h[n] = PromptOf(a) /\ \A i \in 1..n : i # n => h[i].attempt # a
        /\ \A i \in 1..n : h[i].attempt <= a
    BY <1>1 DEF PromptLast, NoLater
  <1>8. ASSUME NEW i \in 1..Len(t) PROVE i \in 1..H \/ (\E k \in 1..T : i = H + k) \/ i = Len(t)
    <2>1. i > H /\ i < Len(t) => i - H \in 1..T /\ i = H + (i - H) BY <1>2, <1>5
    <2> QED BY <1>2, <1>5, <2>1
  <1>9. ASSUME NEW i \in 1..Len(t) PROVE t[i].attempt <= a /\ (i # H + T => t[i].attempt # a)
    <2>1. CASE i \in 1..H
      <3>1. i \in 1..n /\ i # n /\ t[i] = h[i] BY <1>2, <1>5, <2>1
      <3> QED BY <1>7, <3>1
    <2>2. ASSUME NEW k \in 1..T, i = H + k PROVE t[i].attempt <= a /\ (i # H + T => t[i].attempt # a)
      <3>1. n - T + k \in 1..n /\ (k # T => n - T + k # n) /\ t[i] = h[n - T + k] BY <1>2, <1>5, <2>2
      <3>2. i # H + T => k # T BY <2>2
      <3> QED BY <1>7, <3>1, <3>2
    <2>3. CASE i = Len(t) BY <1>5, <1>6, <2>3
    <2> QED BY <1>8, <2>1, <2>2, <2>3
  <1>10. H + T \in 1..Len(t) /\ t[H + T] = PromptOf(a)
    <2>1. T \in 1..T /\ n - T + T = n BY <1>2
    <2>2. t[H + T] = h[n] BY <1>5, <2>1
    <2> QED BY <1>2, <1>5, <1>7, <2>2
  <1>11. PromptAlone(t, a) BY <1>9, <1>10 DEF PromptAlone
  <1>12. NoLater(t, a) BY <1>9 DEF NoLater
  <1> QED BY <1>3, <1>11, <1>12

LEMMA PromptRequested ==
  ASSUME NEW h \in Seq(Message), NEW a \in Nat, PromptAlone(h, a)
  PROVE  HasPrompt(FromHistory(h), a) /\ OfAttempt(h, a) = OfAttempt(FromHistory(h), a)
  <1>1. PICK p \in 1..Len(h) : h[p] = PromptOf(a) /\ \A i \in 1..Len(h) : i # p => h[i].attempt # a
    BY DEF PromptAlone
  <1>2. PICK m : m = FromHistory(h) OBVIOUS
  <1>3. /\ m \in Seq(Message) /\ Len(m) = Len(h)
        /\ \A i \in 1..Len(h) : m[i].attempt = h[i].attempt /\ (Plain(h[i]) => m[i] = h[i])
    BY <1>2, FromHistoryIs
  <1>4. Plain(h[p]) /\ h[p].attempt = a BY <1>1 DEF Plain, PromptOf
  <1>5. m[p] = h[p] BY <1>3, <1>4
  <1>6. OfAttempt(h, a) = <<h[p]>> BY <1>1, <1>4, OfAttemptAlone
  <1>7. OfAttempt(m, a) = <<m[p]>>
    <2>1. p \in 1..Len(m) /\ m[p].attempt = a /\ \A i \in 1..Len(m) : i # p => m[i].attempt # a
      BY <1>1, <1>3, <1>4
    <2> QED BY <1>3, <2>1, OfAttemptAlone
  <1>8. HasPrompt(m, a) BY <1>1, <1>3, <1>5 DEF HasPrompt
  <1> QED BY <1>2, <1>5, <1>6, <1>7, <1>8

LEMMA HasPromptAppend ==
  ASSUME NEW ms \in Seq(Message), NEW x \in Message, NEW a, HasPrompt(ms, a)
  PROVE  HasPrompt(Append(ms, x), a)
  <1>1. PICK t : t = Append(ms, x) OBVIOUS
  <1>2. Len(t) = Len(ms) + 1 /\ Len(ms) \in Nat /\ \A j \in 1..Len(ms) : t[j] = ms[j] BY <1>1, AppendIs
  <1>3. PICK p \in 1..Len(ms) : ms[p] = PromptOf(a) BY DEF HasPrompt
  <1>4. p \in 1..Len(t) /\ t[p] = PromptOf(a) BY <1>2, <1>3
  <1>5. HasPrompt(t, a) BY <1>4 DEF HasPrompt
  <1> QED BY <1>1, <1>5

\* A message given to the model and stored, or given and marked as not stored.
LEMMA SaidAndStored ==
  ASSUME TypeOK, Story, pc \in LoopPcs, NEW x \in Message, x.attempt = attempt,
         msgs' = Append(msgs, x), attempt' = attempt,
         Save(x) \/ (unsaved' = TRUE /\ UNCHANGED history)
  PROVE  /\ HasPrompt(msgs', attempt') /\ NoLater(history', attempt')
         /\ ~unsaved' => OfAttempt(history', attempt') = OfAttempt(msgs', attempt')
  <1>1. attempt \in Nat /\ history \in Seq(Message) /\ msgs \in Seq(Message) BY RunnerAssumption DEF TypeOK
  <1>2. /\ HasPrompt(msgs, attempt) /\ NoLater(history, attempt)
        /\ ~unsaved => OfAttempt(history, attempt) = OfAttempt(msgs, attempt)
    BY DEF Story
  <1>3. HasPrompt(Append(msgs, x), attempt) BY <1>1, <1>2, HasPromptAppend
  <1>4. NoLater(Append(history, x), attempt)
    <2>1. x.attempt <= attempt BY <1>1
    <2> QED BY <1>1, <1>2, <2>1, NoLaterAppend
  <1>5. CASE history' = Append(history, x) /\ unsaved' = unsaved
    <2>1. OfAttempt(Append(history, x), attempt) = Append(OfAttempt(history, attempt), x)
      BY <1>1, OfAttemptAppend
    <2>2. OfAttempt(Append(msgs, x), attempt) = Append(OfAttempt(msgs, attempt), x) BY <1>1, OfAttemptAppend
    <2>3. ~unsaved => OfAttempt(Append(history, x), attempt) = OfAttempt(Append(msgs, x), attempt)
      BY <1>2, <2>1, <2>2
    <2> QED BY <1>3, <1>4, <1>5, <2>3
  <1>6. CASE unsaved' = TRUE /\ history' = history BY <1>2, <1>3, <1>6
  <1> QED BY <1>5, <1>6 DEF Save

LEMMA StoryKept == ASSUME Inv, [Next]_vars PROVE Story'
  <1>1. TypeOK /\ Story /\ Shape BY DEF Inv
  <1>2. /\ attempt \in Nat /\ history \in Seq(Message) /\ msgs \in Seq(Message) /\ calls \in Seq(Call)
    BY <1>1, RunnerAssumption DEF TypeOK
  <1>3. CASE Begin
    <2>1. attempt' = attempt + 1 /\ pc' = "user" /\ history' = history BY <1>3 DEF Begin, Goto
    <2>2. NoLater(history', attempt') /\ Earlier(history', attempt') BY <1>1, <1>2, <2>1, NoLaterNext DEF Story
    <2>3. attempt' >= 1 BY <1>2, <2>1
    <2> QED BY <2>1, <2>2, <2>3 DEF Story, LoopPcs
  <1>4. CASE AppendUser
    <2>1. attempt' = attempt /\ attempt >= 1 /\ NoLater(history, attempt) /\ Earlier(history, attempt)
      BY <1>1, <1>4 DEF AppendUser, Story, runVars
    <2>2. CASE history' = Append(history, Prompt) /\ pc' = "render"
      <3>1. Prompt = PromptOf(attempt) /\ Prompt \in Message /\ Prompt.attempt <= attempt
        BY <1>1, <1>2, PromptIs
      <3>2. PromptLast(history', attempt') BY <1>2, <2>1, <2>2, <3>1, PromptAppended
      <3>3. NoLater(history', attempt') BY <1>2, <2>1, <2>2, <3>1, NoLaterAppend
      <3> QED BY <2>1, <2>2, <3>2, <3>3 DEF Story, LoopPcs
    <2>3. CASE history' = history /\ pc' = "fail" BY <2>1, <2>3 DEF Story, LoopPcs
    <2> QED BY <1>4, <2>2, <2>3 DEF AppendUser, Goto
  <1>5. CASE Render \/ CompactSkip \/ CompactAnnounce
    <2>1. /\ attempt' = attempt /\ history' = history /\ attempt >= 1 /\ NoLater(history, attempt)
          /\ PromptLast(history, attempt)
      BY <1>1, <1>5 DEF Render, CompactSkip, CompactAnnounce, Story, runVars
    <2>2. PromptAlone(history, attempt) BY <1>2, <2>1, PromptLastAlone
    <2>3. /\ pc' \in {"compact", "assemble", "fail", "fold"}
          /\ pc' = "fold" => Len(history) > KeepHead + KeepTail + 1
      BY <1>5 DEF Render, CompactSkip, CompactAnnounce, Goto
    <2> QED BY <2>1, <2>2, <2>3 DEF Story, LoopPcs
  <1>6. CASE Fold
    <2>1. /\ attempt' = attempt /\ attempt >= 1 /\ NoLater(history, attempt)
          /\ PromptLast(history, attempt) /\ Len(history) > KeepHead + KeepTail + 1
      BY <1>1, <1>6 DEF Fold, Story, runVars
    <2>2. CASE history' = Folded(history) /\ pc' = "rerender"
      <3>1. PromptAlone(Folded(history), attempt) /\ NoLater(Folded(history), attempt)
        BY <1>2, <2>1, PromptFolded
      <3> QED BY <2>1, <2>2, <3>1 DEF Story, LoopPcs
    <2>3. CASE history' = history /\ pc' = "assemble"
      <3>1. PromptAlone(history, attempt) BY <1>2, <2>1, PromptLastAlone
      <3> QED BY <2>1, <2>3, <3>1 DEF Story, LoopPcs
    <2> QED BY <1>6, <2>2, <2>3 DEF Fold, Goto
  <1>7. CASE RenderAfterCompact
    <2>1. /\ attempt' = attempt /\ history' = history /\ attempt >= 1 /\ NoLater(history, attempt)
          /\ PromptAlone(history, attempt) /\ pc' \in {"assemble", "fail"}
      BY <1>1, <1>7 DEF RenderAfterCompact, Story, runVars, Goto
    <2> QED BY <2>1 DEF Story, LoopPcs
  <1>8. CASE Assemble
    <2>1. /\ attempt' = attempt /\ history' = history /\ attempt >= 1 /\ NoLater(history, attempt)
          /\ PromptAlone(history, attempt)
      BY <1>1, <1>8 DEF Assemble, Story, runVars
    <2>2. CASE msgs' = FromHistory(history) /\ pc' = "llm"
      <3>1. HasPrompt(msgs', attempt') /\ OfAttempt(history', attempt') = OfAttempt(msgs', attempt')
        BY <1>2, <2>1, <2>2, PromptRequested
      <3> QED BY <2>1, <2>2, <3>1 DEF Story
    <2>3. CASE pc' = "fail" BY <2>1, <2>3 DEF Story, LoopPcs
    <2> QED BY <1>8, <2>2, <2>3 DEF Assemble, Goto
  <1>9. CASE StreamOnce \/ StreamCut \/ RunTool \/ RunSubagent
    <2>1. /\ pc \in LoopPcs /\ pc' \in LoopPcs /\ attempt' = attempt /\ attempt >= 1
      BY <1>1, <1>9 DEF StreamOnce, StreamCut, RunTool, RunSubagent, LoopPcs, Goto, Story, runVars
    <2>2. \E x \in Message : /\ x.attempt = attempt /\ msgs' = Append(msgs, x)
                             /\ Save(x) \/ (unsaved' = TRUE /\ UNCHANGED history)
      <3>1. CASE StreamOnce
        <4>1. PICK reply \in Replies :
                /\ msgs' = Append(msgs, Assistant(reply))
                /\ \/ Save(Assistant(reply))
                   \/ unsaved' = TRUE /\ UNCHANGED history
          BY <3>1 DEF StreamOnce
        <4>2. reply \in Seq(Call) BY RunnerAssumption
        <4>3. Assistant(reply) \in Message /\ Assistant(reply).attempt = attempt BY <1>1, <4>2, AssistantIs
        <4> QED BY <4>1, <4>3
      <3>2. CASE StreamCut
        <4>1. Assistant(<< >>) \in Message /\ Assistant(<< >>).attempt = attempt
          <5>1. << >> \in Seq(Call) OBVIOUS
          <5> QED BY <1>1, <5>1, AssistantIs
        <4>2. msgs' = Append(msgs, Assistant(<< >>)) /\ unsaved' = TRUE /\ UNCHANGED history
          BY <3>2 DEF StreamCut
        <4> QED BY <4>1, <4>2
      <3>3. CASE RunTool \/ RunSubagent
        <4>1. pc = "tool" /\ calls # << >> /\ msgs' = Append(msgs, Answer) /\ Save(Answer)
          BY <3>3 DEF RunTool, RunSubagent, ToolResult
        <4>2. msgs # << >>
          <5>1. PICK p \in 1..Len(msgs) : TRUE BY <1>1, <4>1 DEF Shape, Waiting
          <5> QED BY <1>2, <5>1
        <4>4. Answer \in Message /\ Answer.attempt = attempt BY <1>1, <4>1, <4>2, AnswerIs
        <4> QED BY <4>1, <4>4
      <3> QED BY <1>9, <3>1, <3>2, <3>3
    <2>3. /\ HasPrompt(msgs', attempt') /\ NoLater(history', attempt')
          /\ ~unsaved' => OfAttempt(history', attempt') = OfAttempt(msgs', attempt')
      BY <1>1, <2>1, <2>2, SaidAndStored
    <2> QED BY <2>1, <2>3 DEF Story, LoopPcs
  <1>10. CASE EnterTools \/ LeaveTools
    <2>1. /\ pc \in LoopPcs /\ pc' \in LoopPcs /\ UNCHANGED <<attempt, history, msgs, unsaved>>
          /\ pc # "idle" /\ pc' \notin EarlyPcs
      BY <1>10 DEF EnterTools, LeaveTools, LoopPcs, EarlyPcs, Goto, runVars, loopVars, noteVars
    <2> QED BY <1>1, <2>1 DEF Story, LoopPcs, EarlyPcs
  <1>11. CASE StreamFails \/ Answered \/ Refused \/ ToolFails \/ Finish \/ Fail \/ Retry
    <2>1. /\ pc # "idle" /\ pc' \in {"fail", "finish", "ok", "error", "idle", "dead", "gone"}
          /\ UNCHANGED <<attempt, history>>
      BY <1>11 DEF StreamFails, Answered, Refused, ToolFails, Finish, Fail, Retry, Return, Goto, runVars
    <2> QED BY <1>1, <2>1 DEF Story, LoopPcs
  <1>12. CASE Cancel \/ UNCHANGED vars
    <2>1. UNCHANGED <<pc, attempt, history, msgs, unsaved>>
      BY <1>12 DEF Cancel, vars, runVars, loopVars, noteVars
    <2> QED BY <1>1, <2>1 DEF Story
  <1> QED BY <1>3, <1>4, <1>5, <1>6, <1>7, <1>8, <1>9, <1>10, <1>11, <1>12 DEF Next, Step

-----------------------------------------------------------------------------
(* What the event bus shows.                                               *)

LEMMA Transitions ==
  /\ \A to \in {"WAITING_TOOL", "COMPACTING", "DONE", "FAILED"} : CanTransit("RUNNING", to)
  /\ \A to \in {"RUNNING", "FAILED"} : CanTransit("WAITING_TOOL", to) /\ CanTransit("COMPACTING", to)
  BY DEF CanTransit

\* A legal transition is shown or lost.
LEMMA PublishStateIs ==
  ASSUME NEW from, NEW to, PublishState(from, to)
  PROVE  \/ seen' = to /\ lost' = lost /\ CanTransit(from, to)
         \/ lost' = TRUE /\ seen' = seen
  BY DEF PublishState

LEMMA ShownKept == ASSUME Inv, [Next]_vars PROVE Shown'
  <1>1. Shown BY DEF Inv
  <1> USE DEF OpenPcs, EarlyPcs, LoopPcs
  <1>2. CASE Begin BY <1>2 DEF Begin, Goto, Shown
  <1>3. CASE AppendUser \/ Render \/ CompactSkip
    <2>1. /\ pc \in {"user", "render", "compact"} /\ pc' \in {"render", "compact", "assemble", "fail"}
          /\ UNCHANGED <<cur, seen, lost, unfolded>>
      BY <1>3 DEF AppendUser, Render, CompactSkip, Goto, busVars, noteVars
    <2> QED BY <1>1, <2>1 DEF Shown
  <1>4. CASE CompactAnnounce
    <2>1. pc = "compact" /\ UNCHANGED <<cur, unfolded>> BY <1>4 DEF CompactAnnounce, noteVars
    <2>2. \/ pc' = "fold" /\ seen' = "COMPACTING"
          \/ pc' = "assemble" /\ lost' = TRUE
      BY <1>4 DEF CompactAnnounce, Goto
    <2> QED BY <1>1, <2>1, <2>2 DEF Shown
  <1>5. CASE Fold
    <2>1. pc = "fold" /\ UNCHANGED <<cur, seen, lost>> BY <1>5 DEF Fold, busVars
    <2>2. \/ pc' = "rerender" /\ unfolded' = unfolded
          \/ pc' = "assemble" /\ unfolded' = TRUE
      BY <1>5 DEF Fold, Goto
    <2> QED BY <1>1, <2>1, <2>2 DEF Shown
  <1>6. CASE RenderAfterCompact
    <2>1. pc = "rerender" /\ UNCHANGED <<cur, unfolded>> BY <1>6 DEF RenderAfterCompact, noteVars
    <2>2. \/ pc' = "assemble" /\ PublishState("COMPACTING", "RUNNING")
          \/ pc' = "fail" /\ UNCHANGED <<seen, lost>>
      BY <1>6 DEF RenderAfterCompact, Goto
    <2>3. \/ pc' = "assemble" /\ (seen' = "RUNNING" \/ lost' = TRUE)
          \/ pc' = "fail" /\ UNCHANGED <<seen, lost>>
      BY <2>2, PublishStateIs
    <2> QED BY <1>1, <2>1, <2>3 DEF Shown
  <1>7. CASE Assemble \/ StreamOnce \/ StreamFails \/ StreamCut \/ Answered \/ Refused
    <2>1. /\ pc \in {"assemble", "llm", "decide"} /\ pc' \in {"llm", "decide", "finish", "fail"}
          /\ UNCHANGED <<cur, seen, lost, unfolded>>
      BY <1>7 DEF Assemble, StreamOnce, StreamFails, StreamCut, Answered, Refused, Goto, busVars, noteVars
    <2> QED BY <1>1, <2>1 DEF Shown
  <1>8. CASE EnterTools
    <2>1. /\ pc = "decide" /\ pc' = "tool" /\ cur' = "WAITING_TOOL" /\ unfolded' = unfolded
          /\ PublishState(cur, "WAITING_TOOL")
      BY <1>8 DEF EnterTools, Goto, noteVars
    <2>2. seen' = "WAITING_TOOL" \/ lost' = TRUE BY <2>1, PublishStateIs
    <2> QED BY <2>1, <2>2 DEF Shown
  <1>9. CASE LeaveTools
    <2>1. /\ pc' = "llm" /\ cur' = "RUNNING" /\ unfolded' = unfolded /\ PublishState(cur, "RUNNING")
      BY <1>9 DEF LeaveTools, Goto, noteVars
    <2>2. seen' = "RUNNING" \/ lost' = TRUE BY <2>1, PublishStateIs
    <2> QED BY <2>1, <2>2 DEF Shown
  <1>10. CASE RunTool \/ RunSubagent
    <2>1. pc' = pc /\ UNCHANGED <<cur, seen, lost, unfolded>> BY <1>10 DEF RunTool, RunSubagent, busVars
    <2> QED BY <1>1, <2>1 DEF Shown
  <1>11. CASE ToolFails
    <2>1. pc = "tool" /\ pc' = "fail" /\ UNCHANGED <<cur, seen, lost, unfolded>>
      BY <1>11 DEF ToolFails, Goto, busVars, noteVars
    <2> QED BY <1>1, <2>1 DEF Shown
  <1>12. CASE Finish \/ Fail \/ Retry
    <2>1. pc' \in {"ok", "error", "idle", "dead", "gone"} BY <1>12 DEF Finish, Fail, Retry, Return, Goto
    <2> QED BY <2>1 DEF Shown
  <1>13. CASE Cancel \/ UNCHANGED vars
    <2>1. UNCHANGED <<pc, cur, seen, lost, unfolded>> BY <1>13 DEF Cancel, vars, busVars, noteVars
    <2> QED BY <1>1, <2>1 DEF Shown
  <1> QED BY <1>2, <1>3, <1>4, <1>5, <1>6, <1>7, <1>8, <1>9, <1>10, <1>11, <1>12, <1>13 DEF Next, Step

LEMMA ToldKept == ASSUME Inv, [Next]_vars PROVE Told'
  <1>1. Told /\ Shown /\ TypeOK BY DEF Inv
  <1> USE DEF OpenPcs, EarlyPcs, LoopPcs
  <1>2. CASE Begin BY <1>2 DEF Begin, Goto, Told, EndIsPublished
  <1>3. CASE AppendUser \/ Render \/ CompactSkip \/ CompactAnnounce \/ Fold \/ RenderAfterCompact \/ Assemble
             \/ StreamOnce \/ StreamFails \/ StreamCut \/ Answered \/ Refused \/ EnterTools \/ LeaveTools
             \/ RunTool \/ RunSubagent \/ ToolFails
    <2>1. outcome' = outcome
      BY <1>3 DEF AppendUser, Render, CompactSkip, CompactAnnounce, Fold, RenderAfterCompact, Assemble, StreamOnce,
                  StreamFails, StreamCut, Answered, Refused, EnterTools, LeaveTools, RunTool, RunSubagent, ToolFails,
                  busVars
    <2>2. pc \in OpenPcs /\ pc' \in OpenPcs
      BY <1>3 DEF AppendUser, Render, CompactSkip, CompactAnnounce, Fold, RenderAfterCompact, Assemble, StreamOnce,
                  StreamFails, StreamCut, Answered, Refused, EnterTools, LeaveTools, RunTool, RunSubagent, ToolFails,
                  Goto
    <2> QED BY <1>1, <2>1, <2>2 DEF Told, EndIsPublished
  <1>4. CASE Finish
    <2>1. /\ pc = "finish" /\ pc' = "ok" /\ PublishState(cur, "DONE") /\ cancelled' = cancelled
          /\ outcome' = "done" \/ (MayFail("publish") /\ outcome' = outcome)
      BY <1>4 DEF Finish, PublishEnd, Return, Goto, runVars
    <2>2. outcome = "none" BY <1>1, <2>1 DEF Told
    <2>3. seen' = "DONE" \/ lost' = TRUE BY <2>1, PublishStateIs
    <2> QED BY <2>1, <2>2, <2>3 DEF Told, EndIsPublished, MayFail
  <1>5. CASE Fail
    <2>1. /\ pc = "fail" /\ pc' = "error" /\ PublishState(cur, "FAILED") /\ cancelled' = cancelled
          /\ outcome' = "error" \/ (MayFail("publish") /\ outcome' = outcome)
      BY <1>5 DEF Fail, PublishEnd, Return, Goto, runVars
    <2>2. outcome = "none" BY <1>1, <2>1 DEF Told
    <2>3. seen' = "FAILED" \/ lost' = TRUE BY <2>1, PublishStateIs
    <2> QED BY <2>1, <2>2, <2>3 DEF Told, EndIsPublished, MayFail
  <1>6. CASE Retry
    <2>1. pc' \in {"idle", "dead", "gone"} BY <1>6 DEF Retry, Goto
    <2> QED BY <2>1 DEF Told, EndIsPublished
  <1>7. CASE Cancel
    <2>1. cancelled' = TRUE /\ UNCHANGED <<pc, seen, outcome, lost>> BY <1>7 DEF Cancel, busVars
    <2> QED BY <1>1, <2>1 DEF Told, EndIsPublished
  <1>8. CASE UNCHANGED vars
    <2>1. UNCHANGED <<pc, seen, outcome, lost, cancelled>> BY <1>8 DEF vars, busVars, runVars
    <2> QED BY <1>1, <2>1 DEF Told, EndIsPublished
  <1> QED BY <1>2, <1>3, <1>4, <1>5, <1>6, <1>7, <1>8 DEF Next, Step

-----------------------------------------------------------------------------
(* The theorems.                                                           *)

LEMMA InitInv == ASSUME Init PROVE Inv
  <1>1. PICK k \in Prior : history = [i \in 1..k |-> Old("user")] BY DEF Init
  <1>2. k \in Nat BY <1>1, RunnerAssumption
  <1>3. PICK z \in Message : z = Old("user")
    <2>1. << >> \in Seq(GivenId) OBVIOUS
    <2> QED BY <2>1 DEF Message, Old, NoId
  <1>4. history = [i \in 1..k |-> z] BY <1>1, <1>3
  <1>5. history \in Seq(Message) /\ Len(history) = k /\ \A i \in 1..k : history[i] = z BY <1>2, <1>4
  <1>6. z.attempt = 0 BY <1>3 DEF Old
  <1>7. /\ config \in Configs /\ pc = "idle" /\ attempt = 0 /\ cur = "PENDING" /\ seen = "PENDING"
        /\ msgs = << >> /\ calls = << >> /\ toolRounds = 0 /\ children = 0
        /\ cancelled = FALSE /\ outcome = "none" /\ lost = FALSE /\ unfolded = FALSE /\ unsaved = FALSE
    BY DEF Init
  <1>8. TypeOK
    <2>1. "PENDING" \in State /\ "idle" \in Phase BY DEF State, Phase
    <2>2. 0 \in 0..MaxRetry /\ 0 \in 0..ToolMaxSteps /\ 0 \in 0..MaxChildren BY RunnerAssumption
    <2>3. << >> \in Seq(Message) /\ << >> \in Seq(Call) OBVIOUS
    <2> QED BY <1>5, <1>7, <2>1, <2>2, <2>3 DEF TypeOK
  <1>9. NoLater(history, attempt) BY <1>5, <1>6, <1>7 DEF NoLater
  <1>10. Shape /\ Story /\ Shown /\ Told
    BY <1>7, <1>9 DEF Shape, Story, Shown, Told, EndIsPublished, OpenPcs, EarlyPcs, LoopPcs
  <1> QED BY <1>8, <1>10 DEF Inv

LEMMA Invariance == Spec => []Inv
  <1>1. Init => Inv BY InitInv
  <1>2. Inv /\ [Next]_vars => Inv'
    <2>1. ASSUME Inv, [Next]_vars PROVE Inv'
      BY <2>1, TypesKept, ShapeKept, StoryKept, ShownKept, ToldKept DEF Inv
    <2> QED BY <2>1
  <1> QED BY <1>1, <1>2, PTL DEF Spec

\* The runner's variables keep their types, whatever fails.
THEOREM RunnerTypes == Spec => []TypeOK
  <1>1. Inv => TypeOK BY DEF Inv
  <1> QED BY <1>1, Invariance, PTL

\* Every request to the model is well-formed: the tool calls of an assistant
\* message are answered, all of them and in order, by the messages after it,
\* under the ids the model gave them, and a call that came without an id under
\* an id that names no call of the model.
THEOREM RequestsAreWellFormed == Spec => []CallsAnswered
  <1>1. Inv => CallsAnswered
    <2> SUFFICES ASSUME Inv, pc = "llm" PROVE CallsAnswered BY DEF CallsAnswered
    <2>1. msgs \in Seq(Message) /\ Complete(msgs, attempt) BY DEF Inv, TypeOK, Shape
    <2>2. DOMAIN msgs = 1..Len(msgs) BY <2>1
    <2>3. \A i \in DOMAIN msgs : DOMAIN msgs[i].calls = 1..Len(msgs[i].calls)
      <3>1. \A i \in DOMAIN msgs : msgs[i] \in Message BY <2>1
      <3>2. \A i \in DOMAIN msgs : msgs[i].calls \in Seq(GivenId) BY <3>1 DEF Message
      <3> QED BY <3>2
    <2> QED BY <2>1, <2>2, <2>3 DEF CallsAnswered, Complete, AnsweredIn, AnswersTo, Answers
  <1> QED BY <1>1, Invariance, PTL

\* However long the history and wherever it is folded, the prompt of the
\* attempt is in every request.
THEOREM PromptIsNeverFolded == Spec => []PromptInRequest
  <1>1. Inv => PromptInRequest
    <2> SUFFICES ASSUME Inv, pc = "llm" PROVE PromptInRequest BY DEF PromptInRequest
    <2>1. msgs \in Seq(Message) /\ HasPrompt(msgs, attempt) BY DEF Inv, TypeOK, Story, LoopPcs
    <2>2. DOMAIN msgs = 1..Len(msgs) BY <2>1
    <2> QED BY <2>1, <2>2 DEF PromptInRequest, HasPrompt, PromptOf, Prompt, Said
  <1> QED BY <1>1, Invariance, PTL

\* What an attempt stored is what it told the model, message by message, as
\* long as no append failed.
THEOREM HistoryIsFaithful == Spec => []HistoryMatchesRequest
  <1>1. Inv => HistoryMatchesRequest BY DEF Inv, Story, LoopPcs, HistoryMatchesRequest
  <1> QED BY <1>1, Invariance, PTL

\* An attempt that ended said so on the bus, and what it said is what the task
\* queue is told.
THEOREM EndsAreTold == Spec => []EndIsPublished
  <1>1. Inv => EndIsPublished BY DEF Inv, Told
  <1> QED BY <1>1, Invariance, PTL

\* The step A of TransitionsFollowTable, and its two halves.
InTable == seen' # seen /\ pc # "idle" => CanTransit(seen, seen') \/ lost \/ UnfoldedJump
Excused == lost' /\ ~lost => cancelled \/ "publish" \in Faults

\* A transition that the table has is published, unless publishing fails.
LEMMA LegalIsPublished ==
  ASSUME NEW from, NEW to, PublishState(from, to), CanTransit(from, to)
  PROVE  Excused /\ (seen' = to \/ seen' = seen)
  BY DEF PublishState, Excused, MayFail

\* Whatever fails, the runner asks only for transitions of the table in
\* state.go, and an event is missing on the bus only because it could not be
\* published. Who follows the run sees these transitions, but for the event
\* after a fold that failed, which leaves COMPACTING for WAITING_TOOL or DONE,
\* and for what follows an event that is missing.
THEOREM TableIsFollowed == Spec => TransitionsFollowTable
  <1>1. Inv /\ [Next]_vars => [InTable /\ Excused]_vars
    <2> SUFFICES ASSUME Inv, Next PROVE InTable /\ Excused OBVIOUS
    <2>1. Shown BY DEF Inv
    <2> USE DEF OpenPcs, EarlyPcs, LoopPcs
    <2>2. CASE CompactAnnounce
      <3>1. /\ pc = "compact"
            /\ \/ seen' = "COMPACTING" /\ lost' = lost
               \/ MayFail("publish") /\ seen' = seen
        BY <2>2 DEF CompactAnnounce
      <3>2. lost \/ seen = "RUNNING" BY <2>1, <3>1 DEF Shown
      <3> QED BY <3>1, <3>2, Transitions DEF InTable, Excused, MayFail
    <2>3. CASE RenderAfterCompact
      <3>1. pc = "rerender" /\ (PublishState("COMPACTING", "RUNNING") \/ UNCHANGED <<seen, lost>>)
        BY <2>3 DEF RenderAfterCompact
      <3>2. lost \/ seen = "COMPACTING" BY <2>1, <3>1 DEF Shown
      <3> QED BY <3>1, <3>2, Transitions, LegalIsPublished DEF InTable, Excused
    <2>4. CASE EnterTools
      <3>1. pc = "decide" /\ PublishState(cur, "WAITING_TOOL") BY <2>4 DEF EnterTools
      <3>2. cur = "RUNNING" /\ (lost \/ seen = cur \/ (unfolded /\ seen = "COMPACTING"))
        BY <2>1, <3>1 DEF Shown
      <3>3. Excused /\ (seen' = "WAITING_TOOL" \/ seen' = seen) BY <3>1, <3>2, Transitions, LegalIsPublished
      <3> QED BY <3>2, <3>3, Transitions DEF InTable, UnfoldedJump
    <2>5. CASE LeaveTools
      <3>1. pc = "tool" /\ PublishState(cur, "RUNNING") BY <2>5 DEF LeaveTools
      <3>2. cur = "WAITING_TOOL" /\ (lost \/ seen = cur) BY <2>1, <3>1 DEF Shown
      <3>3. Excused /\ (seen' = "RUNNING" \/ seen' = seen) BY <3>1, <3>2, Transitions, LegalIsPublished
      <3> QED BY <3>2, <3>3, Transitions DEF InTable
    <2>6. CASE Finish
      <3>1. pc = "finish" /\ PublishState(cur, "DONE") BY <2>6 DEF Finish, PublishEnd
      <3>2. cur = "RUNNING" /\ (lost \/ seen = cur \/ (unfolded /\ seen = "COMPACTING"))
        BY <2>1, <3>1 DEF Shown
      <3>3. Excused /\ (seen' = "DONE" \/ seen' = seen) BY <3>1, <3>2, Transitions, LegalIsPublished
      <3> QED BY <3>2, <3>3, Transitions DEF InTable, UnfoldedJump
    <2>7. CASE Fail
      <3>1. pc = "fail" /\ PublishState(cur, "FAILED") BY <2>7 DEF Fail, PublishEnd
      <3>2. /\ cur \in {"RUNNING", "WAITING_TOOL"}
            /\ lost \/ seen \in {"RUNNING", "WAITING_TOOL", "COMPACTING"}
        BY <2>1, <3>1 DEF Shown
      <3>3. CanTransit(cur, "FAILED") BY <3>2, Transitions
      <3>4. Excused /\ (seen' = "FAILED" \/ seen' = seen) BY <3>1, <3>3, LegalIsPublished
      <3> QED BY <3>2, <3>4, Transitions DEF InTable
    <2>8. CASE AppendUser \/ Render \/ CompactSkip \/ Fold \/ Assemble \/ StreamOnce \/ StreamFails \/ StreamCut
               \/ Answered \/ Refused \/ RunTool \/ RunSubagent \/ ToolFails \/ Retry \/ Cancel
      <3>1. UNCHANGED <<seen, lost>>
        BY <2>8 DEF AppendUser, Render, CompactSkip, Fold, Assemble, StreamOnce, StreamFails, StreamCut,
                    Answered, Refused, RunTool, RunSubagent, ToolFails, Retry, Cancel, busVars
      <3> QED BY <3>1 DEF InTable, Excused
    <2>9. CASE Begin BY <2>9 DEF Begin, InTable, Excused
    <2> QED BY <2>2, <2>3, <2>4, <2>5, <2>6, <2>7, <2>8, <2>9 DEF Next, Step
  <1>2. Spec => [][Next]_vars BY DEF Spec
  <1> QED BY <1>1, <1>2, Invariance, PTL DEF TransitionsFollowTable, InTable, Excused
=============================================================================

--------------------------- MODULE ToolPathProofs ----------------------------
(***************************************************************************)
(* Proofs about one ExecTool call, from the gateway to the worker and      *)
(* back: what the hook engine answers, how often a tool runs, what it is   *)
(* called with and what the caller is told.                                *)
(*                                                                         *)
(* Execute and LoadWithConfig are loops over the hooks. What they compute  *)
(* is proved by induction in the form the provers can use: over a set of   *)
(* numbers (Induction), which also gives the existence of the recursive    *)
(* functions (Recursion).                                                  *)
(***************************************************************************)
EXTENDS ToolPath, TLAPS, WellFoundedInduction

-----------------------------------------------------------------------------
(* Induction and recursion up to n.                                        *)

LEMMA Induction ==
  ASSUME NEW n \in Nat, NEW Good, 0 \in Good,
         \A i \in 1..n : i - 1 \in Good => i \in Good
  PROVE  \A i \in 0..n : i \in Good
  <1> DEFINE Bad == {i \in 0..n : i \notin Good}
  <1> SUFFICES ASSUME Bad # {} PROVE FALSE OBVIOUS
  <1>1. Bad \subseteq Nat OBVIOUS
  <1>2. PICK m \in Bad : \A j \in Nat : j < m => j \notin Bad
    <2>1. IsWellFoundedOn(OpToRel(<, Nat), Nat) BY NatLessThanWellFounded
    <2>2. PICK m \in Bad : \A j \in Nat : <<j, m>> \in OpToRel(<, Nat) => ~(j \in Bad)
      BY <1>1, <2>1, WFMin
    <2>3. \A j \in Nat : j < m => <<j, m>> \in OpToRel(<, Nat) BY <1>1 DEF OpToRel
    <2> QED BY <2>2, <2>3
  <1>3. m \in 0..n /\ m \notin Good OBVIOUS
  <1>4. m # 0 BY <1>3
  <1>5. m \in 1..n /\ m - 1 \in 0..n /\ m - 1 \in Nat /\ m - 1 < m BY <1>3, <1>4
  <1>6. m - 1 \in Good BY <1>2, <1>5
  <1> QED BY <1>3, <1>5, <1>6

\* f is the function that starts with base and goes on with step, up to n.
Follows(f, n, base, step) ==
  f = [i \in 0..n |-> IF i = 0 THEN base ELSE step[i][f[i - 1]]]

LEMMA Recursion ==
  ASSUME NEW R, NEW base \in R, NEW n \in Nat, NEW step \in [1..n -> [R -> R]]
  PROVE  \E f \in [0..n -> R] : Follows(f, n, base, step)
  <1> DEFINE Good == {m \in 0..n : \E f \in [0..m -> R] :
                        \A i \in 0..m : f[i] = IF i = 0 THEN base ELSE step[i][f[i - 1]]}
  <1>1. 0 \in Good
    <2> DEFINE f == [i \in 0..0 |-> base]
    <2>1. f \in [0..0 -> R] /\ \A i \in 0..0 : f[i] = IF i = 0 THEN base ELSE step[i][f[i - 1]]
      OBVIOUS
    <2> HIDE DEF f
    <2>2. 0 \in 0..n OBVIOUS
    <2> QED BY <2>1, <2>2
  <1>2. ASSUME NEW m \in 1..n, m - 1 \in Good PROVE m \in Good
    <2>1. PICK f \in [0..(m - 1) -> R] :
            \A i \in 0..(m - 1) : f[i] = IF i = 0 THEN base ELSE step[i][f[i - 1]]
      BY <1>2
    <2> DEFINE last == step[m][f[m - 1]]
               g == [i \in 0..m |-> IF i = m THEN last ELSE f[i]]
    <2>2. last \in R BY <2>1
    <2> HIDE DEF last
    <2>3. g \in [0..m -> R] BY <2>1, <2>2
    <2>4. \A i \in 0..(m - 1) : g[i] = f[i] /\ (i # 0 => g[i - 1] = f[i - 1]) OBVIOUS
    <2>5. g[m] = last /\ g[m - 1] = f[m - 1] OBVIOUS
    <2> HIDE DEF g
    <2>6. ASSUME NEW i \in 0..m PROVE g[i] = IF i = 0 THEN base ELSE step[i][g[i - 1]]
      <3>1. CASE i = m BY <2>5, <3>1 DEF last
      <3>2. CASE i # m
        <4>1. i \in 0..(m - 1) BY <3>2
        <4> QED BY <2>1, <2>4, <4>1
      <3> QED BY <3>1, <3>2
    <2> QED BY <2>3, <2>6
  <1> HIDE DEF Good
  <1>3. n \in Good
    <2>1. \A i \in 1..n : i - 1 \in Good => i \in Good BY <1>2
    <2>2. \A i \in 0..n : i \in Good BY <1>1, <2>1, Induction
    <2> QED BY <2>2
  <1>4. PICK f \in [0..n -> R] : \A i \in 0..n : f[i] = IF i = 0 THEN base ELSE step[i][f[i - 1]]
    BY <1>3 DEF Good
  <1> QED BY <1>4 DEF Follows

-----------------------------------------------------------------------------
(* The hook engine.                                                        *)

Resp == [err : BOOLEAN, allowed : BOOLEAN, payload : Payloads, by : {"request", "wasm"}]

Begin(payload) == [err |-> FALSE, allowed |-> TRUE, payload |-> payload, by |-> "request"]

Replaces(h) == h.replacement \in {"plain", "broken"}

\* What one turn of the loop makes of the response.
Turn(h, event, tool, payload, answer, r) ==
  IF r.err \/ ~r.allowed \/ ~h.enabled \/ h.event # event THEN r ELSE runHook(h, r, tool, payload, answer)

\* resp is the loop's response after each hook.
Loop(resp, hooks, event, tool, payload, answers) ==
  resp = [i \in 0..Len(hooks) |->
            IF i = 0 THEN Begin(payload)
            ELSE Turn(hooks[i], event, tool, payload, answers[i], resp[i - 1])]

\* The answers fit the hooks they are for.
Fit(hooks, answers) ==
  \A i \in 1..Len(hooks) : /\ hooks[i].type = "wasm" => answers[i] \in WasmAnswer
                           /\ Replaces(hooks[i])

LEMMA WasmTypes ==
  ASSUME NEW h, NEW answer \in WasmAnswer, NEW r \in Resp, LET next == executeWASM(h, answer) IN ~next.err
  PROVE  LET m == mergeResponse(r, executeWASM(h, answer))
         IN  /\ m \in Resp /\ m.err = r.err
             /\ m.allowed => r.allowed
             /\ (m.payload = r.payload /\ m.by = r.by) \/ (m.by = "wasm" /\ m.payload \in JSON)
  <1>1. /\ answer.allowed \in BOOLEAN
        /\ answer.payload \in JSON \cup {NoPayload} /\ JSON \subseteq Payloads
    BY DEF WasmAnswer, JSON, Payloads, Marks
  <1>2. executeWASM(h, answer) = [err |-> FALSE, allowed |-> answer.allowed, payload |-> answer.payload]
    BY DEF executeWASM
  <1>3. mergeResponse(r, executeWASM(h, answer))
          = [r EXCEPT !.allowed = r.allowed /\ answer.allowed,
                      !.payload = IF answer.payload = NoPayload THEN r.payload ELSE answer.payload,
                      !.by = IF answer.payload = NoPayload THEN r.by ELSE "wasm"]
    BY <1>2 DEF mergeResponse
  <1> QED BY <1>1, <1>3 DEF Resp

\* One hook: an error ends the loop, a denial stays, the payload is the
\* request's, less what is redacted, or a module's, and only a replacement
\* breaks it.
LEMMA TurnDoes ==
  ASSUME NEW h, Replaces(h), NEW event, NEW tool,
         NEW payload \in Payloads, NEW answer, NEW r \in Resp,
         h.type = "wasm" => answer \in WasmAnswer
  PROVE  LET t == Turn(h, event, tool, payload, answer, r)
         IN  /\ t \in Resp
             /\ r.err => t.err
             /\ ~r.allowed => ~t.allowed
             /\ t.by = "wasm" \/ (t.by = r.by /\ t.payload \ {"broken"} \subseteq r.payload)
             /\ "broken" \in t.payload => "broken" \in r.payload \/ h.replacement = "broken"
  <1> DEFINE t == Turn(h, event, tool, payload, answer, r)
  <1>1. CASE r.err \/ ~r.allowed \/ ~h.enabled \/ h.event # event
    <2>1. t = r BY <1>1 DEF Turn
    <2> QED BY <2>1 DEF Resp
  <1>2. CASE ~(r.err \/ ~r.allowed \/ ~h.enabled \/ h.event # event)
    <2>1. t = runHook(h, r, tool, payload, answer) BY <1>2 DEF Turn
    <2>2. CASE h.type = "deny_dangerous_bash"
      <3>1. t = [r EXCEPT !.allowed = ~denyDangerousBash(tool, payload)] BY <2>1, <2>2 DEF runHook
      <3>2. (~denyDangerousBash(tool, payload)) \in BOOLEAN BY DEF denyDangerousBash
      <3> QED BY <1>2, <3>1, <3>2 DEF Resp
    <2>3. CASE h.type = "redact"
      <3>1. PICK text : text = redactPayload(r.payload, h.pattern, h.replacement) OBVIOUS
      <3>2. t = [r EXCEPT !.payload = text] BY <2>1, <2>3, <3>1 DEF runHook
      <3>3. /\ r.payload \in Payloads /\ text \ {"broken"} \subseteq r.payload
            /\ "broken" \in text => "broken" \in r.payload \/ h.replacement = "broken"
        BY <3>1 DEF redactPayload, Resp, Replaces
      <3>4. text \in Payloads BY <3>3 DEF Payloads, Marks
      <3> QED BY <1>2, <3>2, <3>3, <3>4 DEF Resp
    <2>4. CASE h.type = "wasm"
      <3>1. t = IF executeWASM(h, answer).err THEN [r EXCEPT !.err = TRUE]
                ELSE mergeResponse(r, executeWASM(h, answer))
        BY <2>1, <2>4 DEF runHook
      <3>2. CASE executeWASM(h, answer).err
        <4>1. t = [r EXCEPT !.err = TRUE] BY <3>1, <3>2
        <4> QED BY <1>2, <4>1 DEF Resp
      <3>3. CASE ~executeWASM(h, answer).err
        <4>1. /\ t \in Resp /\ t.err = r.err
              /\ t.allowed => r.allowed
              /\ (t.payload = r.payload /\ t.by = r.by) \/ (t.by = "wasm" /\ t.payload \in JSON)
          BY <2>4, <3>1, <3>3, WasmTypes
        <4>2. "broken" \notin Texts BY DEF Texts
        <4> QED BY <1>2, <4>1, <4>2 DEF JSON
      <3> QED BY <3>2, <3>3
    <2>5. CASE h.type \notin {"deny_dangerous_bash", "redact", "wasm"}
      <3>1. t = r BY <2>1, <2>5 DEF runHook
      <3> QED BY <3>1 DEF Resp
    <2> QED BY <2>2, <2>3, <2>4, <2>5
  <1> QED BY <1>1, <1>2

\* Execute is the last value of its loop.
LEMMA ExecuteLoops ==
  ASSUME NEW hooks, Len(hooks) \in Nat, NEW event, NEW tool, NEW payload \in Payloads, NEW answers,
         Fit(hooks, answers)
  PROVE  \E resp \in [0..Len(hooks) -> Resp] :
           /\ Loop(resp, hooks, event, tool, payload, answers)
           /\ Execute(hooks, event, tool, payload, answers) = resp[Len(hooks)]
  <1> DEFINE n == Len(hooks)
             Step(i, r) == Turn(hooks[i], event, tool, payload, answers[i], r)
             step == [i \in 1..n |-> [r \in Resp |-> Step(i, r)]]
  <1>1. \A i \in 1..n, r \in Resp : Step(i, r) \in Resp BY TurnDoes DEF Fit
  <1>2. Begin(payload) \in Resp BY DEF Begin, Resp
  <1> DEFINE Eq(g) == Loop(g, hooks, event, tool, payload, answers)
  <1>3. \E f : Eq(f)
    <2> HIDE DEF Step
    <2>1. step \in [1..n -> [Resp -> Resp]] BY <1>1
    <2>2. \A i \in 1..n : \A r \in Resp : step[i][r] = Step(i, r) OBVIOUS
    <2> HIDE DEF step
    <2>3. PICK f \in [0..n -> Resp] : Follows(f, n, Begin(payload), step)
      BY <1>2, <2>1, Recursion
    <2>4. f = [i \in 0..n |-> IF i = 0 THEN Begin(payload) ELSE Step(i, f[i - 1])]
      <3>1. \A i \in 1..n : f[i - 1] \in Resp OBVIOUS
      <3>2. \A i \in 0..n : f[i] = IF i = 0 THEN Begin(payload) ELSE step[i][f[i - 1]]
        BY <2>3 DEF Follows
      <3>3. \A i \in 0..n : i # 0 => i \in 1..n OBVIOUS
      <3>4. \A i \in 0..n : f[i] = IF i = 0 THEN Begin(payload) ELSE Step(i, f[i - 1])
        BY <2>2, <3>1, <3>2, <3>3
      <3> QED BY <3>4
    <2> QED BY <2>4 DEF Step, Loop
  <1> DEFINE g == CHOOSE g : Eq(g)
  <1>4. Eq(g) BY <1>3, Zenon
  <1>5. Execute(hooks, event, tool, payload, answers) = g[n]
    BY DEF Execute, Loop, Turn, Begin
  <1>6. \A i \in 0..n : g[i] = IF i = 0 THEN Begin(payload) ELSE Step(i, g[i - 1])
    BY <1>4 DEF Loop
  <1>7. DOMAIN g = 0..n /\ g = [i \in 0..n |-> g[i]] BY <1>4 DEF Loop
  <1> HIDE DEF g, Step
  <1>8. g \in [0..n -> Resp]
    <2> DEFINE Good == {i \in 0..n : g[i] \in Resp}
    <2>1. 0 \in Good BY <1>2, <1>6
    <2>2. ASSUME NEW i \in 1..n, i - 1 \in Good PROVE i \in Good
      <3>1. i \in 0..n /\ i # 0 /\ g[i - 1] \in Resp BY <2>2
      <3>2. g[i] = Step(i, g[i - 1]) BY <1>6, <3>1
      <3> QED BY <1>1, <3>1, <3>2
    <2> HIDE DEF Good
    <2>3. \A i \in 0..n : i \in Good BY <2>1, <2>2, Induction
    <2> QED BY <1>7, <2>3 DEF Good
  <1> QED BY <1>4, <1>5, <1>8

HasFields(h, event, type, pattern) ==
  /\ h.event = event /\ h.type = type /\ h.pattern = pattern
  /\ h.enabled = TRUE /\ h.replacement = "plain"

LEMMA BuiltinFields ==
  ASSUME NEW event, NEW type, NEW pattern
  PROVE  HasFields(Builtin(event, type, pattern), event, type, pattern)
  <1> DEFINE h == Builtin(event, type, pattern)
  <1>1. h.event = event BY DEF Builtin
  <1>2. h.type = type BY DEF Builtin
  <1>3. h.pattern = pattern BY DEF Builtin
  <1>4. h.enabled = TRUE BY DEF Builtin
  <1>5. h.replacement = "plain" BY DEF Builtin
  <1> QED BY <1>1, <1>2, <1>3, <1>4, <1>5 DEF HasFields

LEMMA BuiltinIs ==
  /\ builtinHooks[1].type = "deny_dangerous_bash" /\ builtinHooks[1].event = "PreToolUse"
  /\ builtinHooks[2].event = "PreLLM"
  /\ builtinHooks[3].type = "redact" /\ builtinHooks[3].event = "PostToolUse"
  /\ builtinHooks[3].pattern = "secret"
  /\ \A i \in 1..3 : builtinHooks[i].enabled /\ builtinHooks[i].replacement = "plain"
  <1>1. PICK pre : pre = "PreToolUse" OBVIOUS
  <1>2. PICK llm : llm = "PreLLM" OBVIOUS
  <1>3. PICK post : post = "PostToolUse" OBVIOUS
  <1>4. PICK deny : deny = "deny_dangerous_bash" OBVIOUS
  <1>5. PICK append : append = "append_system" OBVIOUS
  <1>6. PICK redact : redact = "redact" OBVIOUS
  <1>7. PICK secret : secret = "secret" OBVIOUS
  <1>8. PICK none : none = "" OBVIOUS
  <1>9. /\ builtinHooks[1] = Builtin(pre, deny, none) /\ builtinHooks[2] = Builtin(llm, append, none)
        /\ builtinHooks[3] = Builtin(post, redact, secret)
    BY <1>1, <1>2, <1>3, <1>4, <1>5, <1>6, <1>7, <1>8, Zenon DEF builtinHooks
  <1>10. HasFields(builtinHooks[1], pre, deny, none)
    <2>1. HasFields(Builtin(pre, deny, none), pre, deny, none) BY BuiltinFields
    <2> QED BY <1>9, <2>1, Zenon
  <1>11. HasFields(builtinHooks[2], llm, append, none)
    <2>1. HasFields(Builtin(llm, append, none), llm, append, none) BY BuiltinFields
    <2> QED BY <1>9, <2>1, Zenon
  <1>12. HasFields(builtinHooks[3], post, redact, secret)
    <2>1. HasFields(Builtin(post, redact, secret), post, redact, secret) BY BuiltinFields
    <2> QED BY <1>9, <2>1, Zenon
  <1>13. \A i \in 1..3 : i = 1 \/ i = 2 \/ i = 3 OBVIOUS
  <1> QED BY <1>1, <1>2, <1>3, <1>4, <1>6, <1>7, <1>10, <1>11, <1>12, <1>13 DEF HasFields

\* What the worker relies on: the hooks that are built in come first.
Loaded(hooks) ==
  /\ Len(hooks) \in Nat /\ Len(hooks) >= 3 /\ DOMAIN hooks = 1..Len(hooks)
  /\ \A i \in 1..3 : hooks[i] = builtinHooks[i]
  /\ \A i \in 1..Len(hooks) : Replaces(hooks[i])

LEMMA LoadedFirst == ASSUME NEW files \in Seq(Manifest) PROVE Loaded(LoadWithConfig(files))
  <1> DEFINE n == Len(files)
             H == {builtinHooks[i] : i \in 1..3} \cup {Typed(files[i]) : i \in 1..n}
             R == Seq(H)
             Step(i, hs) == IF files[i].type = "unparsable" THEN hs ELSE Append(hs, Typed(files[i]))
             Eq(g) == g = [i \in 0..n |-> IF i = 0 THEN builtinHooks ELSE Step(i, g[i - 1])]
             g == CHOOSE g : Eq(g)
  <1>1. n \in Nat OBVIOUS
  <1>2. builtinHooks \in R /\ Len(builtinHooks) = 3
    <2>1. builtinHooks = <<builtinHooks[1], builtinHooks[2], builtinHooks[3]>> BY DEF builtinHooks
    <2>2. \A i \in 1..3 : builtinHooks[i] \in H OBVIOUS
    <2> HIDE DEF H
    <2>3. builtinHooks[1] \in H /\ builtinHooks[2] \in H /\ builtinHooks[3] \in H BY <2>2
    <2>4. \A x, y, z \in H : <<x, y, z>> \in Seq(H) /\ Len(<<x, y, z>>) = 3 OBVIOUS
    <2> QED BY <2>1, <2>3, <2>4
  <1>3. \A i \in 1..n : Typed(files[i]) \in H OBVIOUS
  <1>13. \A h \in H : Replaces(h)
    <2>1. \A i \in 1..3 : Replaces(builtinHooks[i]) BY BuiltinIs DEF Replaces
    <2>2. ASSUME NEW i \in 1..n PROVE Replaces(Typed(files[i]))
      <3>1. files[i] \in Manifest OBVIOUS
      <3>2. Typed(files[i]).replacement = files[i].replacement BY <3>1 DEF Typed, Manifest
      <3> QED BY <3>1, <3>2 DEF Manifest, Replaces
    <2> QED BY <2>1, <2>2
  <1> HIDE DEF H
  <1>4. \A i \in 1..n, hs \in R : Step(i, hs) \in R BY <1>3
  <1>5. \E f : Eq(f)
    <2> DEFINE step == [i \in 1..n |-> [hs \in R |-> Step(i, hs)]]
    <2> HIDE DEF Step, R, n
    <2>1. step \in [1..n -> [R -> R]] BY <1>4
    <2>2. \A i \in 1..n : \A hs \in R : step[i][hs] = Step(i, hs) OBVIOUS
    <2> HIDE DEF step
    <2>3. PICK f \in [0..n -> R] : Follows(f, n, builtinHooks, step) BY <1>1, <1>2, <2>1, Recursion
    <2>4. \A i \in 0..n : f[i] = IF i = 0 THEN builtinHooks ELSE Step(i, f[i - 1])
      <3>1. \A i \in 1..n : f[i - 1] \in R BY <1>1
      <3>2. \A i \in 0..n : f[i] = IF i = 0 THEN builtinHooks ELSE step[i][f[i - 1]]
        BY <2>3 DEF Follows
      <3>3. \A i \in 0..n : i # 0 => i \in 1..n BY <1>1
      <3> QED BY <2>2, <3>1, <3>2, <3>3
    <2>5. Eq(f) BY <2>4
    <2> QED BY <2>5
  <1>6. Eq(g) BY <1>5, Zenon
  <1>7. LoadWithConfig(files) = g[n] BY DEF LoadWithConfig
  <1>8. \A i \in 0..n : g[i] = IF i = 0 THEN builtinHooks ELSE Step(i, g[i - 1])
    BY <1>6
  <1> HIDE DEF g, n
  <1> DEFINE Fine(hs) == hs \in R /\ Len(hs) >= 3 /\ \A j \in 1..3 : hs[j] = builtinHooks[j]
             Good == {i \in 0..n : Fine(g[i])}
  <1>9. 0 \in Good
    <2>1. 0 \in 0..n BY <1>1
    <2>2. g[0] = builtinHooks BY <1>8, <2>1
    <2> HIDE DEF R
    <2>3. Fine(builtinHooks) BY <1>2
    <2> HIDE DEF Fine
    <2> QED BY <2>1, <2>2, <2>3
  <1>10. ASSUME NEW i \in 1..n, i - 1 \in Good PROVE i \in Good
    <2>1. i \in 0..n /\ i # 0 /\ Fine(g[i - 1]) BY <1>1, <1>10
    <2>2. g[i] = Step(i, g[i - 1]) BY <1>8, <2>1
    <2>3. ASSUME NEW hs, Fine(hs) PROVE Fine(Append(hs, Typed(files[i]))) BY <1>3, <2>3
    <2>4. Fine(Step(i, g[i - 1])) BY <2>1, <2>3
    <2> QED BY <2>1, <2>2, <2>4
  <1> HIDE DEF Good
  <1>11. \A i \in 0..n : i \in Good BY <1>1, <1>9, <1>10, Induction
  <1>12. Fine(g[n]) BY <1>1, <1>11 DEF Good
  <1>14. \A i \in 1..Len(g[n]) : g[n][i] \in H BY <1>12
  <1> QED BY <1>7, <1>12, <1>13, <1>14 DEF Loaded

LEMMA AnswersFit ==
  ASSUME NEW hooks, Loaded(hooks), NEW f \in Answers(hooks)
  PROVE  Fit(hooks, f)
  BY DEF Answers, Loaded, Fit

\* A response holds nothing the request did not, but for what a module or a
\* breaking replacement put into it.
LEMMA Bounded ==
  ASSUME NEW hooks, Loaded(hooks), NEW event, NEW payload \in JSON, NEW f \in Answers(hooks), NEW tool
  PROVE  LET r == Execute(hooks, event, tool, payload, f)
         IN  /\ r \in Resp
             /\ r.by = "wasm" \/ r.payload \ {"broken"} \subseteq payload
             /\ "broken" \in r.payload => \E i \in DOMAIN hooks : hooks[i].replacement = "broken"
  <1>1. PICK n \in Nat : n = Len(hooks) /\ n >= 3 /\ DOMAIN hooks = 1..n BY DEF Loaded
  <1>2. Fit(hooks, f) BY AnswersFit
  <1>3. payload \in Payloads /\ "broken" \notin payload BY DEF JSON, Payloads, Marks, Texts
  <1>4. PICK resp \in [0..Len(hooks) -> Resp] :
          /\ Loop(resp, hooks, event, tool, payload, f)
          /\ Execute(hooks, event, tool, payload, f) = resp[Len(hooks)]
    <2>1. Len(hooks) \in Nat BY <1>1
    <2> QED BY <1>2, <1>3, <2>1, ExecuteLoops
  <1>5. \A i \in 0..n : resp[i] = IF i = 0 THEN Begin(payload)
                                  ELSE Turn(hooks[i], event, tool, payload, f[i], resp[i - 1])
    BY <1>1, <1>4 DEF Loop
  <1> DEFINE Fine(r) == /\ r.by = "wasm" \/ r.payload \ {"broken"} \subseteq payload
                        /\ "broken" \in r.payload => \E i \in DOMAIN hooks : hooks[i].replacement = "broken"
             Good == {i \in 0..n : Fine(resp[i])}
  <1>6. 0 \in Good
    <2>1. resp[0] = Begin(payload) /\ 0 \in 0..n BY <1>1, <1>5
    <2> QED BY <1>3, <2>1 DEF Begin
  <1>7. ASSUME NEW i \in 1..n, i - 1 \in Good PROVE i \in Good
    <2>1. /\ i \in 0..n /\ i # 0 /\ i - 1 \in 0..n /\ resp[i - 1] \in Resp
          /\ hooks[i].type = "wasm" => f[i] \in WasmAnswer
          /\ Replaces(hooks[i])
      BY <1>1, <1>2 DEF Fit
    <2>2. resp[i] = Turn(hooks[i], event, tool, payload, f[i], resp[i - 1]) BY <1>5, <2>1
    <2>3. LET t == Turn(hooks[i], event, tool, payload, f[i], resp[i - 1])
          IN  /\ t.by = "wasm" \/ (t.by = resp[i - 1].by /\ t.payload \ {"broken"} \subseteq resp[i - 1].payload)
              /\ "broken" \in t.payload => "broken" \in resp[i - 1].payload \/ hooks[i].replacement = "broken"
      BY <1>3, <2>1, TurnDoes
    <2>4. Fine(resp[i - 1]) BY <1>7
    <2>5. Fine(resp[i]) BY <1>1, <2>2, <2>3, <2>4
    <2> QED BY <2>1, <2>5
  <1> HIDE DEF Good
  <1>8. \A i \in 0..n : i \in Good BY <1>1, <1>6, <1>7, Induction
  <1>9. n \in Good /\ n \in 0..n BY <1>1, <1>8
  <1> QED BY <1>1, <1>4, <1>9 DEF Good

\* denyDangerousBash is the first hook of PreToolUse and its denial stays: no call
\* with a dangerous command is allowed, whatever the modules after it say.
LEMMA Denies ==
  ASSUME NEW hooks, Loaded(hooks), NEW payload \in Payloads, NEW f \in Answers(hooks), NEW tool
  PROVE  LET r == Execute(hooks, "PreToolUse", tool, payload, f)
         IN  r \in Resp /\ (r.allowed => ~(tool = "bash" /\ "danger" \in payload))
  <1>1. PICK n \in Nat : n = Len(hooks) /\ n >= 3 BY DEF Loaded
  <1>2. Fit(hooks, f) BY AnswersFit
  <1>3. PICK resp \in [0..Len(hooks) -> Resp] :
          /\ Loop(resp, hooks, "PreToolUse", tool, payload, f)
          /\ Execute(hooks, "PreToolUse", tool, payload, f) = resp[Len(hooks)]
    <2>1. Len(hooks) \in Nat BY <1>1
    <2>2. PICK event : event = "PreToolUse" OBVIOUS
    <2>3. \E resp \in [0..Len(hooks) -> Resp] :
            /\ Loop(resp, hooks, event, tool, payload, f)
            /\ Execute(hooks, event, tool, payload, f) = resp[Len(hooks)]
      BY <1>2, <2>1, ExecuteLoops
    <2> QED BY <2>2, <2>3
  <1>4. \A i \in 0..n : resp[i] = IF i = 0 THEN Begin(payload)
                                  ELSE Turn(hooks[i], "PreToolUse", tool, payload, f[i], resp[i - 1])
    BY <1>1, <1>3 DEF Loop
  <1> DEFINE Safe(r) == r.allowed => ~(tool = "bash" /\ "danger" \in payload)
             Good == {i \in 0..n : i = 0 \/ Safe(resp[i])}
  <1>5. 0 \in Good BY <1>1
  <1>6. ASSUME NEW i \in 1..n, i - 1 \in Good PROVE i \in Good
    <2>1. /\ i \in 0..n /\ i # 0 /\ i - 1 \in 0..n /\ resp[i - 1] \in Resp
          /\ hooks[i].type = "wasm" => f[i] \in WasmAnswer
          /\ Replaces(hooks[i])
      BY <1>1, <1>2 DEF Fit
    <2>2. resp[i] = Turn(hooks[i], "PreToolUse", tool, payload, f[i], resp[i - 1]) BY <1>4, <2>1
    <2>3. CASE i = 1
      <3>1. resp[0] = Begin(payload) /\ resp[i - 1] = resp[0] BY <1>1, <1>4, <2>3
      <3>2. /\ hooks[1].type = "deny_dangerous_bash" /\ hooks[1].enabled
            /\ hooks[1].event = "PreToolUse"
        BY BuiltinIs DEF Loaded
      <3>3. resp[1] = [Begin(payload) EXCEPT !.allowed = ~denyDangerousBash(tool, payload)]
        <4>1. resp[1] = runHook(hooks[1], Begin(payload), tool, payload, f[1])
          BY <2>2, <2>3, <3>1, <3>2 DEF Turn, Begin
        <4> QED BY <3>2, <4>1 DEF runHook
      <3>4. resp[1].allowed = ~denyDangerousBash(tool, payload) BY <3>3 DEF Begin
      <3> QED BY <2>1, <2>3, <3>4 DEF denyDangerousBash
    <2>4. CASE i # 1
      <3>1. Safe(resp[i - 1]) BY <1>6, <2>4
      <3>2. LET t == Turn(hooks[i], "PreToolUse", tool, payload, f[i], resp[i - 1])
            IN  ~resp[i - 1].allowed => ~t.allowed
        BY <2>1, TurnDoes
      <3> QED BY <2>1, <2>2, <3>1, <3>2
    <2> QED BY <2>3, <2>4
  <1> HIDE DEF Good
  <1>7. \A i \in 0..n : i \in Good BY <1>1, <1>5, <1>6, Induction
  <1>8. n \in Good /\ n # 0 /\ n \in 0..n BY <1>1, <1>7
  <1> QED BY <1>1, <1>3, <1>8 DEF Good

\* The redacting hook is the first of PostToolUse: a secret in the response was put
\* there by a module.
LEMMA Redacts ==
  ASSUME NEW hooks, Loaded(hooks), NEW payload \in Payloads, NEW f \in Answers(hooks), NEW tool
  PROVE  LET r == Execute(hooks, "PostToolUse", tool, payload, f)
         IN  r \in Resp /\ ("secret" \in r.payload => r.by = "wasm")
  <1>1. PICK n \in Nat : n = Len(hooks) /\ n >= 3 BY DEF Loaded
  <1>2. Fit(hooks, f) BY AnswersFit
  <1>3. PICK resp \in [0..Len(hooks) -> Resp] :
          /\ Loop(resp, hooks, "PostToolUse", tool, payload, f)
          /\ Execute(hooks, "PostToolUse", tool, payload, f) = resp[Len(hooks)]
    <2>1. Len(hooks) \in Nat BY <1>1
    <2>2. PICK event : event = "PostToolUse" OBVIOUS
    <2>3. \E resp \in [0..Len(hooks) -> Resp] :
            /\ Loop(resp, hooks, event, tool, payload, f)
            /\ Execute(hooks, event, tool, payload, f) = resp[Len(hooks)]
      BY <1>2, <2>1, ExecuteLoops
    <2> QED BY <2>2, <2>3
  <1>4. \A i \in 0..n : resp[i] = IF i = 0 THEN Begin(payload)
                                  ELSE Turn(hooks[i], "PostToolUse", tool, payload, f[i], resp[i - 1])
    BY <1>1, <1>3 DEF Loop
  <1> DEFINE Clear(r) == "secret" \in r.payload => r.by = "wasm"
             Good == {i \in 0..n : (i < 3 => resp[i] = Begin(payload)) /\ (i >= 3 => Clear(resp[i]))}
  <1>5. 0 \in Good BY <1>1, <1>4
  <1>6. ASSUME NEW i \in 1..n, i - 1 \in Good PROVE i \in Good
    <2>1. /\ i \in 0..n /\ i # 0 /\ i - 1 \in 0..n /\ resp[i - 1] \in Resp
          /\ hooks[i].type = "wasm" => f[i] \in WasmAnswer
          /\ Replaces(hooks[i])
      BY <1>1, <1>2 DEF Fit
    <2>2. resp[i] = Turn(hooks[i], "PostToolUse", tool, payload, f[i], resp[i - 1]) BY <1>4, <2>1
    <2>3. CASE i < 3
      <3>1. resp[i - 1] = Begin(payload) BY <1>6, <2>3
      <3>2. hooks[i].event # "PostToolUse"
        <4>1. i \in {1, 2} /\ hooks[i] = builtinHooks[i] BY <2>3 DEF Loaded
        <4> QED BY <4>1, BuiltinIs
      <3>3. resp[i] = Begin(payload) BY <2>2, <3>1, <3>2 DEF Turn
      <3> QED BY <2>1, <2>3, <3>3
    <2>4. CASE i = 3
      <3>1. resp[i - 1] = Begin(payload) BY <1>6, <2>4
      <3>2. /\ hooks[3].type = "redact" /\ hooks[3].enabled /\ hooks[3].event = "PostToolUse"
            /\ hooks[3].pattern = "secret" /\ hooks[3].replacement = "plain"
        BY BuiltinIs DEF Loaded
      <3>3. resp[i] = [Begin(payload) EXCEPT !.payload = redactPayload(payload, "secret", "plain")]
        <4>1. resp[i] = runHook(hooks[3], Begin(payload), tool, payload, f[3])
          BY <2>2, <2>4, <3>1, <3>2 DEF Turn, Begin
        <4>2. Begin(payload).payload = payload BY DEF Begin
        <4> QED BY <3>2, <4>1, <4>2 DEF runHook
      <3>4. "secret" \notin resp[i].payload BY <3>3 DEF Begin, redactPayload
      <3> QED BY <2>1, <2>4, <3>4
    <2>5. CASE i > 3
      <3>1. Clear(resp[i - 1]) BY <1>6, <2>5
      <3>2. LET t == Turn(hooks[i], "PostToolUse", tool, payload, f[i], resp[i - 1])
            IN  t.by = "wasm" \/ (t.by = resp[i - 1].by /\ t.payload \ {"broken"} \subseteq resp[i - 1].payload)
        BY <2>1, TurnDoes
      <3> QED BY <2>1, <2>2, <2>5, <3>1, <3>2
    <2> QED BY <2>3, <2>4, <2>5
  <1> HIDE DEF Good
  <1>7. \A i \in 0..n : i \in Good BY <1>1, <1>5, <1>6, Induction
  <1>8. n \in Good /\ n >= 3 /\ n \in 0..n BY <1>1, <1>7
  <1> QED BY <1>1, <1>3, <1>8 DEF Good

-----------------------------------------------------------------------------
(* How often a tool runs, and what the caller is told of it.               *)

\* The entries the gateway appends; with one attempt there are no others.
Token(c, i) == [call |-> c, attempt |-> 0, copy |-> i]
Tokens == [call : Calls, attempt : {0}, copy : {1, 2}]

InStream(e) == \E n \in 1..Len(stream) : stream[n] = e

\* Consumer k has an entry, and may still run its tool.
BusyPcs == {"acquire", "pre", "invoke"}
WorkingPcs == BusyPcs \cup {"post", "send", "failed", "ack"}
Busy(k) == handler[k].pc \in BusyPcs

Live(e) == InStream(e) \/ \E k \in Consumers : Busy(k) /\ handler[k].entry = e

\* The runs of c there were and there may still be.
Weight(c) == (IF Live(Token(c, 1)) THEN 1 ELSE 0) + (IF Live(Token(c, 2)) THEN 1 ELSE 0)
Runnable(c) == Len(ran[c]) + Weight(c)

\* An entry is in one place: once in the stream or with one consumer.
Unique ==
  /\ \A m, n \in 1..Len(stream) : stream[m] = stream[n] => m = n
  /\ \A k \in Consumers : Busy(k) =>
       /\ ~InStream(handler[k].entry)
       /\ \A j \in Consumers : Busy(j) /\ handler[j].entry = handler[k].entry => j = k

Budget ==
  \A c \in Calls :
    /\ Runnable(c) <= added[c]
    /\ gateway[c].pc \in {"none", "publish"} => added[c] = 0

\* What is, or will be, told to the caller of c.
Told(c) ==
  {results[c][n] : n \in 1..Len(results[c])} \cup {gateway[c].answer}
    \cup {handler[k].out : k \in {j \in Consumers : handler[j].pc = "send" /\ handler[j].entry.call = c}}

\* The invocations there were.
Ran(c) == {ran[c][i] : i \in DOMAIN ran[c]}

Honest(c, out) ==
  /\ out.kind \in {"ok", "fail"} => \E x \in Ran(c) : Tells(x, out)
  /\ out.kind = "denied" => Runnable(c) < added[c]
  /\ config.client /\ "secret" \in out.marks
       => \/ out.by = "wasm"
          \/ out.by = "failed" /\ ~config.failClosed
          \/ out.by = "broken" /\ Breaks

\* With a client, dangerous arguments come from a module or past a failed call.
VettedBy(tool, marks, verdict, by) ==
  config.client /\ tool = "bash" /\ "danger" \in marks
    => by = "wasm" \/ (verdict = "skipped" /\ ~config.failClosed)

\* What is true of an invocation.
RanOk(x) ==
  /\ VettedBy(x.request.tool, x.request.marks, x.verdict, x.by)
  /\ x.request.tool = "fs_list" \/ x.request.path.literal
       => \A place \in Touched(x.request.tool, x.request) : Under(place, WorkspaceContainer)

\* What a handler may do next with its request.
HandlerOk(h) ==
  /\ h.pc \in WorkingPcs => h.entry \in Tokens
  /\ h.pc \in BusyPcs => h.request.tool \in Builtins
  /\ h.pc \in {"acquire", "pre"} => Decodes(h.request)
  /\ h.pc = "invoke" => VettedBy(h.request.tool, h.request.marks, h.verdict, h.by)
  /\ h.pc = "post" =>
       /\ h.out.kind \in {"ok", "fail"} /\ h.out.marks \subseteq {"secret"}
       /\ \E x \in Ran(h.entry.call) : x.result = h.out.kind /\ x.code = h.out.code

Vetted ==
  /\ \A c \in Calls :
       /\ Decodes(gateway[c].request)
       /\ gateway[c].pc = "publish" \/ added[c] > 0 => gateway[c].request.tool \in Builtins
       /\ \A n \in 1..Len(ran[c]) : RanOk(ran[c][n])
  /\ \A k \in Consumers : HandlerOk(handler[k])

Verdicts == {"none", "unhooked", "skipped", "allowed"}
Codes == {"zero", "nonzero"}
Out == [kind : {"none", "execute", "denied", "ok", "fail"}, marks : Payloads,
        by : {"request", "wasm", "failed", "broken"}, code : Codes]
Invocation == [verdict : Verdicts, by : {"request", "wasm"}, request : Request,
               result : {"error", "fail", "ok"}, code : Codes]
GatewayRow == [pc : {"none", "publish", "wait", "refused", "answered", "timeout"}, request : Request, answer : Out]
HandlerRow == [pc : {"read", "gone"} \cup WorkingPcs, entry : Tokens \cup {Idle.entry}, held : BOOLEAN,
               late : BOOLEAN, request : Request, verdict : Verdicts, by : {"request", "wasm"}, out : Out]

Types ==
  /\ config.client \in BOOLEAN /\ Loaded(config.hooks)
  /\ \A c \in Calls : \A r \in config.requests[c] : r \in Request /\ Decodes(r)
  /\ gateway \in [Calls -> GatewayRow]
  /\ results \in [Calls -> Seq(Out)]
  /\ stream \in Seq(Tokens)
  /\ handler \in [Consumers -> HandlerRow]
  /\ added \in [Calls -> 0..2]
  /\ ran \in [Calls -> Seq(Invocation)]

AllHonest == \A c \in Calls : \A out \in Told(c) : Honest(c, out)

Inv == Types /\ Unique /\ Budget /\ Vetted /\ AllHonest

LEMMA TokenIs ==
  /\ \A c \in Calls, i \in {1, 2} : Token(c, i) \in Tokens /\ Token(c, i).call = c
  /\ \A e \in Tokens : e.call \in Calls /\ (e = Token(e.call, 1) \/ e = Token(e.call, 2))
  /\ \A c \in Calls : Token(c, 1) # Token(c, 2)
  /\ \A c, d \in Calls, i, j \in {1, 2} : Token(c, i) = Token(d, j) => c = d
  BY DEF Token, Tokens

LEMMA WeightIs == \A c : Weight(c) \in 0..2
  BY DEF Weight

\* No entry comes to life: the stream stays and no consumer takes up an entry.
Shrink ==
  /\ stream' = stream
  /\ \A j \in Consumers : Busy(j)' => Busy(j) /\ handler'[j].entry = handler[j].entry

LEMMA Shrinks ==
  ASSUME Unique, Shrink
  PROVE  /\ Unique' /\ \A e : Live(e)' => Live(e)
         /\ \A c : Weight(c)' <= Weight(c)
  <1>1. \A e : InStream(e)' <=> InStream(e) BY DEF Shrink, InStream
  <1>2. ASSUME NEW e, Live(e)' PROVE Live(e)
    <2>1. CASE InStream(e)' BY <1>1, <2>1 DEF Live
    <2>2. ASSUME NEW k \in Consumers, Busy(k)', handler'[k].entry = e PROVE Live(e)
      BY <2>2 DEF Shrink, Live
    <2> QED BY <1>2, <2>1, <2>2 DEF Live
  <1>3. Unique'
    <2>1. \A m, n \in 1..Len(stream') : stream'[m] = stream'[n] => m = n BY DEF Unique, Shrink
    <2>2. ASSUME NEW k \in Consumers, Busy(k)'
          PROVE  /\ ~InStream(handler[k].entry)'
                 /\ \A j \in Consumers : Busy(j)' /\ handler'[j].entry = handler'[k].entry => j = k
      <3>1. Busy(k) /\ handler'[k].entry = handler[k].entry BY <2>2 DEF Shrink
      <3>2. ~InStream(handler[k].entry) BY <3>1 DEF Unique
      <3>3. ~InStream(handler[k].entry)' BY <3>1, <3>2 DEF InStream, Shrink
      <3>4. ASSUME NEW j \in Consumers, Busy(j)', handler'[j].entry = handler'[k].entry PROVE j = k
        BY <3>1, <3>4 DEF Unique, Shrink
      <3> QED BY <3>3, <3>4
    <2> QED BY <2>1, <2>2 DEF Unique
  <1>4. ASSUME NEW c PROVE Weight(c)' <= Weight(c)
    <2>1. Token(c, 1)' = Token(c, 1) /\ Token(c, 2)' = Token(c, 2) BY DEF Token
    <2> QED BY <1>2, <2>1 DEF Weight
  <1> QED BY <1>2, <1>3, <1>4

\* Consumer k lets go of its entry without running it, or runs it: one run less
\* may follow.
LEMMA Dies ==
  ASSUME Unique, Shrink, NEW k \in Consumers, Busy(k), ~Busy(k)',
         NEW e \in Tokens, e = handler[k].entry, NEW c \in Calls, c = e.call
  PROVE  Weight(c)' + 1 <= Weight(c)
  <1>1. Live(e) BY DEF Live
  <1>2. ~Live(e)'
    <2>1. ~InStream(e) BY DEF Unique
    <2>2. ASSUME NEW j \in Consumers, Busy(j)', handler'[j].entry = e PROVE FALSE
      <3>1. Busy(j) /\ handler[j].entry = e BY <2>2 DEF Shrink
      <3>2. j = k BY <3>1 DEF Unique
      <3> QED BY <2>2, <3>2
    <2>3. ~InStream(e)' BY <2>1 DEF InStream, Shrink
    <2> QED BY <2>2, <2>3 DEF Live
  <1>3. \A x : Live(x)' => Live(x) BY Shrinks
  <1>4. Token(c, 1)' = Token(c, 1) /\ Token(c, 2)' = Token(c, 2) BY DEF Token
  <1>5. e = Token(c, 1) \/ e = Token(c, 2) BY TokenIs
  <1>6. Token(c, 1) # Token(c, 2) BY TokenIs
  <1> QED BY <1>1, <1>2, <1>3, <1>4, <1>5 DEF Weight

LEMMA HonestStays ==
  ASSUME NEW c \in Calls, NEW out, Honest(c, out), config' = config,
         Ran(c) \subseteq Ran(c)',
         Runnable(c) \in Nat, Runnable(c)' \in Nat, added[c] \in Nat, added'[c] \in Nat,
         \/ Runnable(c)' <= Runnable(c) /\ added'[c] = added[c]
         \/ added[c] = 0
  PROVE  Honest(c, out)'
  <1>1. \A x : Tells(x, out)' <=> Tells(x, out) BY DEF Tells
  <1>2. Breaks' <=> Breaks BY DEF Breaks
  <1> QED BY <1>1, <1>2 DEF Honest

LEMMA AddedIs == ASSUME Types, NEW c \in Calls PROVE added[c] \in Nat /\ added[c] \in 0..2
  <1>1. added \in [Calls -> 0..2] BY DEF Types
  <1> QED BY <1>1

LEMMA RunnableIs == ASSUME Types, NEW c \in Calls PROVE Runnable(c) \in Nat
  <1>1. ran[c] \in Seq(Invocation) BY DEF Types
  <1>2. Len(ran[c]) \in Nat BY <1>1
  <1> QED BY <1>2, WeightIs DEF Runnable

\* A step of consumer k: it takes up no entry, and if it runs a tool, that is one
\* run less to come.
LEMMA StepKeeps ==
  ASSUME Inv, NEW k \in Consumers, NEW h, handler' \in [Consumers -> HandlerRow],
         handler'[k] = h, \A j \in Consumers : j # k => handler'[j] = handler[j],
         UNCHANGED <<config, gateway, stream, added>>,
         h.pc \in BusyPcs => Busy(k) /\ h.entry = handler[k].entry,
         HandlerOk(h)',
         ran' \in [Calls -> Seq(Invocation)],
         \A c \in Calls : Runnable(c)' <= Runnable(c),
         \A c \in Calls : Ran(c) \subseteq Ran(c)',
         \A c \in Calls : \A n \in 1..Len(ran'[c]) : RanOk(ran[c][n])',
         results' \in [Calls -> Seq(Out)],
         \A c \in Calls : \A n \in 1..Len(results'[c]) : results'[c][n] \in Told(c),
         h.pc = "send" => Honest(h.entry.call, h.out)'
  PROVE  Inv'
  <1>1. Types /\ Unique /\ Budget /\ Vetted /\ AllHonest BY DEF Inv
  <1>2. Types' BY <1>1 DEF Types
  <1>4. Shrink BY DEF Shrink, Busy
  <1>5. Unique' BY <1>1, <1>4, Shrinks
  <1>6. ASSUME NEW c \in Calls PROVE Runnable(c) \in Nat /\ Runnable(c)' \in Nat
    <2>1. Runnable(c) \in Nat BY <1>1, RunnableIs
    <2>2. Weight(c)' \in 0..2 BY DEF Weight
    <2>3. ran'[c] \in Seq(Invocation) OBVIOUS
    <2>4. Len(ran'[c]) \in Nat BY <2>3
    <2>5. Runnable(c)' \in Nat BY <2>2, <2>4 DEF Runnable
    <2> QED BY <2>1, <2>5
  <1>7. Budget'
    <2>1. ASSUME NEW c \in Calls PROVE Runnable(c)' <= added'[c]
      <3>1. Runnable(c) <= added[c] /\ added[c] \in Nat BY <1>1, AddedIs DEF Budget
      <3>2. Runnable(c)' <= Runnable(c) OBVIOUS
      <3> QED BY <1>6, <3>1, <3>2
    <2> QED BY <1>1, <2>1 DEF Budget
  <1>8. Vetted'
    <2>1. ASSUME NEW j \in Consumers PROVE HandlerOk(handler[j])'
      <3>1. HandlerOk(handler[j]) BY <1>1 DEF Vetted
      <3>2. CASE j # k
        <4>1. handler'[j] = handler[j] BY <3>2
        <4>2. handler[j].pc = "post" => handler[j].entry.call \in Calls
          BY <3>1, TokenIs DEF HandlerOk, WorkingPcs
        <4> QED BY <3>1, <4>1, <4>2 DEF HandlerOk, VettedBy, Decodes
      <3>3. CASE j = k
        <4>1. handler'[j] = h BY <3>3
        <4> QED BY <4>1 DEF HandlerOk, VettedBy, Decodes
      <3> QED BY <3>2, <3>3
    <2>2. ASSUME NEW c \in Calls
          PROVE  /\ Decodes(gateway[c].request)'
                 /\ gateway'[c].pc = "publish" \/ added'[c] > 0 => gateway'[c].request.tool \in Builtins
                 /\ \A n \in 1..Len(ran'[c]) : RanOk(ran[c][n])'
      BY <1>1 DEF Vetted, Decodes
    <2> QED BY <2>1, <2>2 DEF Vetted
  <1>9. AllHonest'
    <2> SUFFICES ASSUME NEW c \in Calls, NEW out \in Told(c)' PROVE Honest(c, out)' BY DEF AllHonest
    <2>1. out \in Told(c) \/ (h.pc = "send" /\ h.entry.call = c /\ out = h.out)
      <3>1. \/ \E n \in 1..Len(results'[c]) : out = results'[c][n]
            \/ out = gateway'[c].answer
            \/ \E j \in Consumers : handler'[j].pc = "send" /\ handler'[j].entry.call = c /\ out = handler'[j].out
        BY DEF Told
      <3>2. CASE \E n \in 1..Len(results'[c]) : out = results'[c][n] BY <3>2
      <3>3. CASE out = gateway'[c].answer BY <3>3 DEF Told
      <3>4. ASSUME NEW j \in Consumers, handler'[j].pc = "send", handler'[j].entry.call = c, out = handler'[j].out
            PROVE  out \in Told(c) \/ (h.pc = "send" /\ h.entry.call = c /\ out = h.out)
        BY <3>4 DEF Told
      <3> QED BY <3>1, <3>2, <3>3, <3>4
    <2>2. CASE out \in Told(c)
      <3>1. Honest(c, out) BY <1>1, <2>2 DEF AllHonest
      <3>2. added[c] \in Nat /\ added'[c] = added[c] BY <1>1, AddedIs
      <3>3. Runnable(c)' <= Runnable(c) /\ Runnable(c) \in Nat /\ Runnable(c)' \in Nat BY <1>6
      <3>4. Ran(c) \subseteq Ran(c)' OBVIOUS
      <3> QED BY <3>1, <3>2, <3>3, <3>4, HonestStays
    <2>3. CASE h.pc = "send" /\ h.entry.call = c /\ out = h.out BY <2>3
    <2> QED BY <2>1, <2>2, <2>3
  <1> QED BY <1>2, <1>5, <1>7, <1>8, <1>9 DEF Inv

\* A step of consumer k that runs no tool.
LEMMA QuietKeeps ==
  ASSUME Inv, NEW k \in Consumers, NEW h, handler' \in [Consumers -> HandlerRow],
         handler'[k] = h, \A j \in Consumers : j # k => handler'[j] = handler[j],
         UNCHANGED <<config, gateway, stream, added, ran>>,
         h.pc \in BusyPcs => Busy(k) /\ h.entry = handler[k].entry,
         HandlerOk(h),
         results' \in [Calls -> Seq(Out)],
         \A c \in Calls : \A n \in 1..Len(results'[c]) : results'[c][n] \in Told(c),
         h.pc = "send" => Honest(h.entry.call, h.out)'
  PROVE  Inv'
  <1>1. Types /\ Unique /\ Vetted BY DEF Inv
  <1>2. Shrink BY DEF Shrink, Busy
  <1>3. \A c : Weight(c)' <= Weight(c) BY <1>1, <1>2, Shrinks
  <1>4. ASSUME NEW c \in Calls PROVE Runnable(c)' <= Runnable(c)
    <2>1. Weight(c) \in 0..2 BY WeightIs
    <2>2. Weight(c)' \in 0..2 BY DEF Weight
    <2>3. ran[c] \in Seq(Invocation) BY <1>1 DEF Types
    <2>4. Len(ran[c]) \in Nat /\ ran'[c] = ran[c] BY <2>3
    <2>5. Weight(c)' <= Weight(c) BY <1>3
    <2> QED BY <2>1, <2>2, <2>4, <2>5 DEF Runnable
  <1>5. HandlerOk(h)' BY DEF HandlerOk, VettedBy, Decodes, Ran
  <1>6. ran' \in [Calls -> Seq(Invocation)] BY <1>1 DEF Types
  <1>7. \A c \in Calls : \A n \in 1..Len(ran'[c]) : RanOk(ran[c][n])' BY <1>1 DEF Vetted, RanOk, VettedBy
  <1>8. \A c \in Calls : Ran(c) \subseteq Ran(c)' BY DEF Ran
  <1>9. UNCHANGED <<config, gateway, stream, added>> OBVIOUS
  <1>10. \A c \in Calls : Runnable(c)' <= Runnable(c) BY <1>4
  <1> QED BY <1>5, <1>6, <1>7, <1>8, <1>9, <1>10, StepKeeps

LEMMA IdleRow ==
  /\ Idle \in HandlerRow /\ Gone \in HandlerRow /\ Idle.pc = "read" /\ Gone.pc = "gone"
  /\ Nothing \in Out /\ NoRequest \in Request /\ Decodes(NoRequest)
  /\ Nothing.kind = "none" /\ Nothing.marks = {}
  <1>1. Nothing \in Out /\ Nothing.kind = "none" /\ Nothing.marks = {} BY DEF Nothing, Out, Payloads, Marks, Codes
  <1>2. NoRequest \in Request /\ Decodes(NoRequest)
    <2>1. {} \in JSON BY DEF JSON
    <2>2. << >> \in Seq(STRING) OBVIOUS
    <2>3. "" \in ToolNames BY DEF ToolNames
    <2>4. PICK p : p = NoPath OBVIOUS
    <2>5. p \in [abs : BOOLEAN, segments : Seq(STRING), literal : BOOLEAN] BY <2>2, <2>4 DEF NoPath
    <2>6. PICK t, T, S : t = "" /\ T = ToolNames /\ S = [abs : BOOLEAN, segments : Seq(STRING), literal : BOOLEAN]
      OBVIOUS
    <2>7. t \in T /\ p \in S BY <2>3, <2>5, <2>6
    <2>8. [tool |-> t, shape |-> "missing", path |-> p, marks |-> {}]
            \in [tool : T, shape : {"good", "malformed", "missing", "no_http"}, path : S, marks : JSON]
      BY <2>1, <2>7
    <2>9. NoRequest \in Request BY <2>4, <2>6, <2>8, Zenon DEF NoRequest, Request
    <2>10. NoRequest.marks = {} BY DEF NoRequest
    <2> QED BY <2>9, <2>10 DEF Decodes
  <1>3. Idle \in HandlerRow /\ Idle.pc = "read"
    <2>1. Idle.entry \in Tokens \cup {Idle.entry} OBVIOUS
    <2> QED BY <1>1, <1>2, <2>1 DEF Idle, HandlerRow, Verdicts
  <1>4. Gone \in HandlerRow /\ Gone.pc = "gone" BY <1>3 DEF Gone, HandlerRow
  <1> QED BY <1>1, <1>2, <1>3, <1>4

\* The row Return leaves.
LEMMA ReturnRow ==
  ASSUME Types, NEW k \in Consumers, NEW out \in Out, Return(k, out), handler[k].entry \in Tokens
  PROVE  /\ handler' \in [Consumers -> HandlerRow]
         /\ \A j \in Consumers : j # k => handler'[j] = handler[j]
         /\ handler'[k].pc = "send" /\ handler'[k].entry = handler[k].entry /\ handler'[k].out = out
  <1> DEFINE h == [Idle EXCEPT !.pc = "send", !.entry = handler[k].entry, !.out = out]
  <1>1. h \in HandlerRow /\ h.pc = "send" /\ h.entry = handler[k].entry /\ h.out = out
    <2>1. Idle \in HandlerRow /\ "send" \in WorkingPcs BY IdleRow DEF WorkingPcs
    <2> QED BY <2>1 DEF HandlerRow
  <1>2. handler' = [handler EXCEPT ![k] = h] BY DEF Return
  <1>3. handler \in [Consumers -> HandlerRow] BY DEF Types
  <1> HIDE DEF h
  <1> QED BY <1>1, <1>2, <1>3

\* The consumer's steps that only concern itself.
Quiet == UNCHANGED <<config, gateway, stream, added, ran, results>>

LEMMA ResultsTold ==
  ASSUME Types, results' = results
  PROVE  /\ results' \in [Calls -> Seq(Out)]
         /\ \A c \in Calls : \A n \in 1..Len(results'[c]) : results'[c][n] \in Told(c)
  BY DEF Types, Told

LEMMA ReturnKeeps ==
  ASSUME Inv, NEW k \in Consumers, NEW out \in Out, Return(k, out), Quiet,
         handler[k].entry \in Tokens, NEW c \in Calls, c = handler[k].entry.call, Honest(c, out)'
  PROVE  Inv'
  <1>1. Types BY DEF Inv
  <1>2. PICK h : h = handler'[k] OBVIOUS
  <1>3. /\ handler' \in [Consumers -> HandlerRow]
        /\ \A j \in Consumers : j # k => handler'[j] = handler[j]
        /\ h.pc = "send" /\ h.entry = handler[k].entry /\ h.out = out
    BY <1>1, <1>2, ReturnRow
  <1>4. HandlerOk(h) /\ h.pc \notin BusyPcs BY <1>3 DEF HandlerOk, BusyPcs
  <1>5. UNCHANGED <<config, gateway, stream, added, ran>> BY DEF Quiet
  <1>6. /\ results' \in [Calls -> Seq(Out)]
        /\ \A d \in Calls : \A n \in 1..Len(results'[d]) : results'[d][n] \in Told(d)
    BY <1>1, ResultsTold DEF Quiet
  <1>7. Honest(h.entry.call, h.out)'
    <2>1. h.entry.call = c /\ h.out = out BY <1>3
    <2> QED BY <2>1
  <1> QED BY <1>2, <1>3, <1>4, <1>5, <1>6, <1>7, QuietKeeps

LEMMA InternalErrorIs ==
  /\ InternalError \in Out
  /\ \A c : Honest(c, InternalError)
  BY DEF InternalError, Outcome, Out, Payloads, Honest, Codes

LEMMA AcquireKeeps == ASSUME Inv, NEW k \in Consumers, Acquire(k) PROVE Inv'
  <1>1. Types /\ HandlerOk(handler[k]) /\ handler[k].pc = "acquire" BY DEF Inv, Vetted, Acquire, At
  <1>2. Quiet BY DEF Acquire, Quiet, streamVars
  <1>3. handler[k].entry \in Tokens BY <1>1 DEF HandlerOk, WorkingPcs, BusyPcs
  <1>4. CASE Return(k, InternalError)
    <2>1. PICK c \in Calls : c = handler[k].entry.call BY <1>3, TokenIs
    <2>2. InternalError \in Out /\ Honest(c, InternalError)'
      BY InternalErrorIs DEF InternalError, Outcome, Honest
    <2> QED BY <1>2, <1>3, <1>4, <2>1, <2>2, ReturnKeeps
  <1>5. CASE handler' = [handler EXCEPT ![k].pc = "pre", ![k].held = TRUE]
    <2>1. handler[k] \in HandlerRow /\ handler \in [Consumers -> HandlerRow] BY <1>1 DEF Types
    <2>2. PICK h : h = [[handler[k] EXCEPT !.pc = "pre"] EXCEPT !.held = TRUE] OBVIOUS
    <2>3. h \in HandlerRow /\ h.pc = "pre" /\ h.entry = handler[k].entry /\ h.request = handler[k].request
      BY <2>1, <2>2 DEF HandlerRow, WorkingPcs, BusyPcs
    <2>4. handler' = [handler EXCEPT ![k] = h] BY <1>5, <2>1, <2>2
    <2>5. /\ handler' \in [Consumers -> HandlerRow] /\ handler'[k] = h
          /\ \A j \in Consumers : j # k => handler'[j] = handler[j]
      BY <2>1, <2>3, <2>4
    <2>6. HandlerOk(h) BY <1>1, <2>3 DEF HandlerOk, WorkingPcs, BusyPcs
    <2>7. Busy(k) BY <1>1 DEF Busy, BusyPcs
    <2>8. /\ results' \in [Calls -> Seq(Out)]
          /\ \A d \in Calls : \A n \in 1..Len(results'[d]) : results'[d][n] \in Told(d)
      BY <1>1, <1>2, ResultsTold DEF Quiet
    <2>9. UNCHANGED <<config, gateway, stream, added, ran>> BY <1>2 DEF Quiet
    <2>10. h.pc # "send" BY <2>3
    <2> QED BY <2>3, <2>5, <2>6, <2>7, <2>8, <2>9, <2>10, QuietKeeps
  <1> QED BY <1>4, <1>5 DEF Acquire

\* A consumer moves on with its entry: the row h of k is all that changes.
LEMMA MoveKeeps ==
  ASSUME Inv, NEW k \in Consumers, NEW h \in HandlerRow, handler' = [handler EXCEPT ![k] = h], Quiet,
         h.pc \in BusyPcs => Busy(k) /\ h.entry = handler[k].entry,
         HandlerOk(h), h.pc # "send"
  PROVE  Inv'
  <1>1. Types BY DEF Inv
  <1>2. handler \in [Consumers -> HandlerRow] BY <1>1 DEF Types
  <1>3. /\ handler' \in [Consumers -> HandlerRow] /\ handler'[k] = h
        /\ \A j \in Consumers : j # k => handler'[j] = handler[j]
    BY <1>2
  <1>4. /\ results' \in [Calls -> Seq(Out)]
        /\ \A d \in Calls : \A n \in 1..Len(results'[d]) : results'[d][n] \in Told(d)
    BY <1>1, ResultsTold DEF Quiet
  <1>5. UNCHANGED <<config, gateway, stream, added, ran>> BY DEF Quiet
  <1> QED BY <1>3, <1>4, <1>5, QuietKeeps

LEMMA GotoRow ==
  ASSUME Types, NEW k \in Consumers, NEW pc \in {"read", "gone"} \cup WorkingPcs, Goto(k, pc)
  PROVE  \E h \in HandlerRow :
           /\ handler' = [handler EXCEPT ![k] = h] /\ h.pc = pc
           /\ h.entry = handler[k].entry /\ h.request = handler[k].request /\ h.out = handler[k].out
  <1>1. handler[k] \in HandlerRow BY DEF Types
  <1>2. PICK h : h = [handler[k] EXCEPT !.pc = pc] OBVIOUS
  <1>3. /\ h \in HandlerRow /\ h.pc = pc
        /\ h.entry = handler[k].entry /\ h.request = handler[k].request /\ h.out = handler[k].out
    BY <1>1, <1>2 DEF HandlerRow
  <1>4. handler' = [handler EXCEPT ![k] = h] BY <1>2 DEF Goto
  <1> QED BY <1>3, <1>4

\* What the hook client returns before and after the tool.
LEMMA PreReplies ==
  ASSUME Types, NEW k \in Consumers, NEW done \in BOOLEAN, NEW payload \in JSON,
         NEW resp \in HookReplies(k, done, "PreToolUse", payload)
  PROVE  /\ resp.err \in BOOLEAN
         /\ ~resp.err => /\ resp \in Resp
                         /\ resp.by = "wasm" \/ resp.payload \ {"broken"} \subseteq payload
                         /\ resp.allowed => ~(handler[k].request.tool = "bash" /\ "danger" \in payload)
  <1>1. Loaded(config.hooks) BY DEF Types
  <1>2. CASE resp = Failed BY <1>2 DEF Failed
  <1>3. ASSUME NEW f \in Answers(config.hooks),
               resp = Execute(config.hooks, "PreToolUse", handler[k].request.tool, payload, f)
        PROVE  /\ resp \in Resp /\ (resp.allowed => ~(handler[k].request.tool = "bash" /\ "danger" \in payload))
               /\ resp.by = "wasm" \/ resp.payload \ {"broken"} \subseteq payload
    <2>1. payload \in Payloads BY DEF JSON, Payloads, Marks
    <2> QED BY <1>1, <1>3, <2>1, Denies, Bounded
  <1>4. resp \in Resp => resp.err \in BOOLEAN BY DEF Resp
  <1> QED BY <1>2, <1>3, <1>4 DEF HookReplies

LEMMA PostReplies ==
  ASSUME Types, NEW k \in Consumers, NEW done \in BOOLEAN, NEW payload \in JSON,
         NEW resp \in HookReplies(k, done, "PostToolUse", payload)
  PROVE  /\ resp.err \in BOOLEAN
         /\ ~resp.err => /\ resp \in Resp /\ ("secret" \in resp.payload => resp.by = "wasm")
                         /\ "broken" \in resp.payload => Breaks
  <1>1. Loaded(config.hooks) BY DEF Types
  <1>2. CASE resp = Failed BY <1>2 DEF Failed
  <1>3. ASSUME NEW f \in Answers(config.hooks),
               resp = Execute(config.hooks, "PostToolUse", handler[k].request.tool, payload, f)
        PROVE  /\ resp \in Resp /\ ("secret" \in resp.payload => resp.by = "wasm")
               /\ "broken" \in resp.payload => Breaks
    <2>1. payload \in Payloads BY DEF JSON, Payloads, Marks
    <2> QED BY <1>1, <1>3, <2>1, Redacts, Bounded DEF Breaks
  <1>4. resp \in Resp => resp.err \in BOOLEAN BY DEF Resp
  <1> QED BY <1>2, <1>3, <1>4 DEF HookReplies

\* A call that may go on to its tool.
LEMMA ProceedKeeps ==
  ASSUME Inv, Quiet, NEW k \in Consumers, handler[k].pc = "pre", NEW late \in BOOLEAN,
         NEW verdict \in Verdicts, NEW request \in Request, NEW by \in {"request", "wasm"},
         request.tool = handler[k].request.tool, Proceed(k, late, verdict, request, by),
         VettedBy(request.tool, request.marks, verdict, by)
  PROVE  Inv'
  <1>1. Types /\ HandlerOk(handler[k]) /\ handler[k] \in HandlerRow BY DEF Inv, Vetted, Types
  <1>2. PICK h : h = [[[[[handler[k] EXCEPT !.pc = "invoke"] EXCEPT !.late = late] EXCEPT !.verdict = verdict]
                        EXCEPT !.request = request] EXCEPT !.by = by]
    OBVIOUS
  <1>3. /\ h \in HandlerRow /\ h.pc = "invoke" /\ h.entry = handler[k].entry /\ h.request = request
        /\ h.verdict = verdict /\ h.by = by
    BY <1>1, <1>2 DEF HandlerRow, WorkingPcs, BusyPcs
  <1>4. handler' = [handler EXCEPT ![k] = h]
    BY <1>2 DEF Proceed
  <1>5. HandlerOk(h) BY <1>1, <1>3 DEF HandlerOk, WorkingPcs, BusyPcs
  <1>6. Busy(k) BY DEF Busy, BusyPcs
  <1>7. h.pc # "send" BY <1>3
  <1> QED BY <1>3, <1>4, <1>5, <1>6, <1>7, MoveKeeps

LEMMA PreKeeps == ASSUME Inv, NEW k \in Consumers, executePreToolHook(k) PROVE Inv'
  <1>1. /\ Types /\ HandlerOk(handler[k]) /\ handler[k].pc = "pre" /\ Unique /\ Budget
        /\ handler[k] \in HandlerRow
    BY DEF Inv, Vetted, executePreToolHook, At, Types
  <1>2. Quiet BY DEF executePreToolHook, Quiet, streamVars
  <1>3. handler[k].entry \in Tokens /\ Decodes(handler[k].request) /\ Busy(k)
    BY <1>1 DEF HandlerOk, WorkingPcs, BusyPcs, Busy
  <1>4. PICK request \in Request : request = handler[k].request BY <1>1 DEF HandlerRow
  <1>5. request.marks \in JSON BY DEF Request
  <1>6. Marshalled(request) \in JSON /\ Marshalled(request) = request.marks
    BY <1>3, <1>4, <1>5 DEF Marshalled, JSON, Decodes
  <1>7. PICK late \in Timer(k) :
          \E resp \in HookReplies(k, late, "PreToolUse", Marshalled(request)) : PreHook(k, late, resp)
    BY <1>4 DEF executePreToolHook
  <1>8. late \in BOOLEAN
    <2>1. handler[k].late \in BOOLEAN BY <1>1 DEF HandlerRow
    <2> QED BY <1>7, <2>1 DEF Timer
  <1>9. PICK resp \in HookReplies(k, late, "PreToolUse", Marshalled(request)) : PreHook(k, late, resp) BY <1>7
  <1>10. /\ resp.err \in BOOLEAN
         /\ ~resp.err => /\ resp \in Resp
                         /\ resp.by = "wasm" \/ resp.payload \ {"broken"} \subseteq request.marks
                         /\ resp.allowed => ~(request.tool = "bash" /\ "danger" \in request.marks)
    BY <1>1, <1>4, <1>6, <1>8, PreReplies
  <1>11. PICK c \in Calls : c = handler[k].entry.call BY <1>3, TokenIs
  <1>12. config.client \in BOOLEAN BY <1>1 DEF Types
  <1>13. CASE ~config.client
    <2>1. Proceed(k, late, "unhooked", request, "request") BY <1>4, <1>9, <1>12, <1>13 DEF PreHook
    <2>2. VettedBy(request.tool, request.marks, "unhooked", "request") BY <1>13 DEF VettedBy
    <2>3. "unhooked" \in Verdicts BY DEF Verdicts
    <2> QED BY <1>1, <1>2, <1>4, <1>8, <2>1, <2>2, <2>3, ProceedKeeps
  <1>14. CASE config.client /\ resp.err /\ config.failClosed
    <2>1. Return(k, InternalError) BY <1>9, <1>14 DEF PreHook
    <2>2. InternalError \in Out /\ Honest(c, InternalError)'
      BY InternalErrorIs DEF InternalError, Outcome, Honest
    <2> QED BY <1>2, <1>3, <1>11, <2>1, <2>2, ReturnKeeps
  <1>15. CASE config.client /\ resp.err /\ ~config.failClosed
    <2>1. Proceed(k, late, "skipped", request, "request") BY <1>4, <1>9, <1>15 DEF PreHook
    <2>2. VettedBy(request.tool, request.marks, "skipped", "request") BY <1>15 DEF VettedBy
    <2>3. "skipped" \in Verdicts BY DEF Verdicts
    <2> QED BY <1>1, <1>2, <1>4, <1>8, <2>1, <2>2, <2>3, ProceedKeeps
  <1>16. CASE config.client /\ ~resp.err /\ ~resp.allowed
    <2>1. PICK out : out = Denied OBVIOUS
    <2>2. out \in Out /\ out.kind = "denied" /\ out.marks = {} BY <2>1 DEF Denied, Outcome, Out, Payloads, Codes
    <2>3. Return(k, out) BY <1>9, <1>16, <2>1 DEF PreHook
    <2>4. /\ handler'[k].pc = "send" /\ handler' \in [Consumers -> HandlerRow]
          /\ \A j \in Consumers : j # k => handler'[j] = handler[j]
      BY <1>1, <1>3, <2>2, <2>3, ReturnRow
    <2>5. ~Busy(k)' BY <2>4 DEF Busy, BusyPcs
    <2>6. Shrink BY <1>2, <2>4, <2>5 DEF Shrink, Quiet, Busy
    <2>7. PICK e \in Tokens : e = handler[k].entry BY <1>3
    <2>8. Weight(c)' + 1 <= Weight(c) BY <1>1, <1>3, <1>11, <2>5, <2>6, <2>7, Dies
    <2>9. Runnable(c)' < added'[c]
      <3>1. Weight(c) \in 0..2 BY WeightIs
      <3>2. Weight(c)' \in 0..2 BY DEF Weight
      <3>3. ran[c] \in Seq(Invocation) BY <1>1 DEF Types
      <3>4. Len(ran[c]) \in Nat /\ added[c] \in Nat BY <1>1, <3>3, AddedIs
      <3>5. Len(ran[c]) + Weight(c) <= added[c] BY <1>1 DEF Budget, Runnable
      <3>6. Runnable(c)' = Len(ran[c]) + Weight(c)' /\ added'[c] = added[c] BY <1>2 DEF Runnable, Quiet
      <3> QED BY <2>8, <3>1, <3>2, <3>4, <3>5, <3>6
    <2>10. Honest(c, out)' BY <2>2, <2>9 DEF Honest
    <2> QED BY <1>2, <1>3, <1>11, <2>2, <2>3, <2>10, ReturnKeeps
  <1>17. CASE config.client /\ ~resp.err /\ resp.allowed
    <2>1. PICK patched \in Patched(request, resp) : Proceed(k, late, "allowed", patched, resp.by)
      BY <1>4, <1>9, <1>17 DEF PreHook
    <2>2. resp \in Resp /\ resp.by \in {"request", "wasm"} /\ resp.payload \in Payloads
      BY <1>10, <1>17 DEF Resp
    <2>3. /\ patched \in Request /\ patched.tool = request.tool
          /\ patched.marks \subseteq request.marks \/ resp.by = "wasm"
      <3>1. CASE patched = request BY <3>1
      <3>2. ASSUME "broken" \notin resp.payload, NEW sh \in {request.shape, "malformed"},
                   patched = [request EXCEPT !.marks = resp.payload, !.shape = sh]
            PROVE  /\ patched \in Request /\ patched.tool = request.tool
                   /\ patched.marks \subseteq request.marks \/ resp.by = "wasm"
        <4>1. resp.payload \in JSON BY <2>2, <3>2 DEF JSON, Payloads, Marks
        <4>2. patched \in Request /\ patched.tool = request.tool /\ patched.marks = resp.payload
          BY <3>2, <4>1 DEF Request
        <4> QED BY <1>10, <1>17, <3>2, <4>2
      <3>3. \/ patched = request
            \/ /\ "broken" \notin resp.payload
               /\ \E sh \in {request.shape, "malformed"} :
                    patched = [request EXCEPT !.marks = resp.payload, !.shape = sh]
        BY <2>1, <2>2 DEF Patched
      <3> QED BY <3>1, <3>2, <3>3
    <2>4. VettedBy(patched.tool, patched.marks, "allowed", resp.by)
      BY <1>10, <1>17, <2>3 DEF VettedBy
    <2>5. "allowed" \in Verdicts BY DEF Verdicts
    <2> QED BY <1>1, <1>2, <1>4, <1>8, <2>1, <2>2, <2>3, <2>4, <2>5, ProceedKeeps
  <1> QED BY <1>10, <1>12, <1>13, <1>14, <1>15, <1>16, <1>17

\* What fs_* hand to the sandbox is under the workspace, where no shell expands it.
LEMMA TouchesWorkspace ==
  ASSUME NEW r, r.tool = "fs_list" \/ r.path.literal, NEW place \in Touched(r.tool, r)
  PROVE  Under(place, WorkspaceContainer)
  <1>1. safePath(r.path) # Outside => Under(safePath(r.path), WorkspaceContainer)
    <2> DEFINE p == r.path
               cleaned == Clean(IF p.abs THEN p.segments ELSE WorkspaceContainer \o p.segments)
    <2>1. safePath(p) = IF Under(cleaned, WorkspaceContainer) THEN cleaned ELSE Outside BY DEF safePath
    <2> HIDE DEF cleaned
    <2> QED BY <2>1
  <1>2. Under(WorkspaceContainer, WorkspaceContainer) BY DEF Under, IsPrefix, WorkspaceContainer
  <1>3. place = WorkspaceContainer \/ (place = safePath(r.path) /\ place # Outside)
    <2>1. CASE r.tool = "fs_list" BY <2>1 DEF Touched
    <2>2. CASE r.tool # "fs_list"
      <3>1. r.tool \in {"fs_read", "fs_write"} /\ r.shape = "good" /\ r.path.literal BY <2>2 DEF Touched
      <3> QED BY <2>2, <3>1 DEF Touched
    <2> QED BY <2>1, <2>2
  <1> QED BY <1>1, <1>2, <1>3

LEMMA InvokeGives ==
  ASSUME NEW r, r.tool \in Builtins, NEW exec
  PROVE  Invoke(r.tool, r, exec) \in {"error", "fail", "ok"}
  <1>1. Judge(exec) \in {"fail", "ok"} BY DEF Judge
  <1>2. r.tool \in {"bash", "fs_read", "fs_write", "fs_list", "http_fetch"} BY DEF Builtins
  <1>3. CASE r.tool = "bash" BY <1>1, <1>3 DEF Invoke, BashInvoke
  <1>4. CASE r.tool \in {"fs_read", "fs_write"} BY <1>1, <1>4 DEF Invoke, FsFileInvoke
  <1>5. CASE r.tool = "fs_list" BY <1>1, <1>5 DEF Invoke, FsListInvoke
  <1>6. CASE r.tool = "http_fetch" BY <1>1, <1>6 DEF Invoke, HttpInvoke
  <1> QED BY <1>2, <1>3, <1>4, <1>5, <1>6

\* The invocation joins the others.
LEMMA RanGrows ==
  ASSUME Types, Vetted, NEW c \in Calls, NEW x \in Invocation, RanOk(x), config' = config,
         ran' = [ran EXCEPT ![c] = Append(@, x)]
  PROVE  /\ ran' \in [Calls -> Seq(Invocation)]
         /\ Ran(c) \cup {x} \subseteq Ran(c)' /\ Len(ran'[c]) = Len(ran[c]) + 1 /\ Len(ran[c]) \in Nat
         /\ \A d \in Calls : d # c => ran'[d] = ran[d]
         /\ \A d \in Calls : \A n \in 1..Len(ran'[d]) : RanOk(ran[d][n])'
  <1>1. ran \in [Calls -> Seq(Invocation)] BY DEF Types
  <1>2. PICK s \in Seq(Invocation) : s = ran[c] BY <1>1
  <1>3. PICK t : t = Append(s, x) OBVIOUS
  <1>4. /\ t \in Seq(Invocation) /\ t # << >> /\ Len(t) = Len(s) + 1 /\ Len(s) \in Nat
        /\ \A n \in 1..Len(t) : t[n] = x \/ (n \in 1..Len(s) /\ t[n] = s[n])
    BY <1>3
  <1>5. ran' = [ran EXCEPT ![c] = t] BY <1>2, <1>3
  <1>6. ran' \in [Calls -> Seq(Invocation)] /\ ran'[c] = t /\ \A d \in Calls : d # c => ran'[d] = ran[d]
    BY <1>1, <1>4, <1>5
  <1>7. ASSUME NEW d \in Calls, NEW n \in 1..Len(ran'[d]) PROVE RanOk(ran[d][n])'
    <2>1. PICK y : y = ran'[d][n] OBVIOUS
    <2>2. RanOk(y)
      <3>1. CASE d # c BY <1>6, <1>7, <2>1, <3>1 DEF Vetted
      <3>2. CASE d = c
        <4>1. y = x \/ (n \in 1..Len(ran[c]) /\ y = ran[c][n]) BY <1>2, <1>4, <1>6, <2>1, <3>2, <1>7
        <4> QED BY <4>1 DEF Vetted
      <3> QED BY <3>1, <3>2
    <2> QED BY <2>1, <2>2 DEF RanOk, VettedBy
  <1>8. Ran(c) \cup {x} \subseteq Ran(c)'
    <2>1. DOMAIN s = 1..Len(s) /\ DOMAIN t = 1..Len(t) BY <1>4
    <2>2. \A n \in 1..Len(s) : n \in 1..Len(t) /\ t[n] = s[n] BY <1>3, <1>4
    <2>3. Len(t) \in 1..Len(t) /\ t[Len(t)] = x BY <1>3, <1>4
    <2>4. Ran(c) = {s[n] : n \in 1..Len(s)} BY <1>2, <2>1 DEF Ran
    <2>5. Ran(c)' = {t[n] : n \in 1..Len(t)} BY <1>6, <2>1 DEF Ran
    <2>6. \A n \in 1..Len(s) : s[n] \in Ran(c)' BY <2>2, <2>5
    <2>7. x \in Ran(c)' BY <2>3, <2>5
    <2> QED BY <2>4, <2>6, <2>7
  <1> QED BY <1>2, <1>4, <1>6, <1>7, <1>8

LEMMA InvokeKeeps == ASSUME Inv, NEW k \in Consumers, InvokeTool(k) PROVE Inv'
  <1>1. /\ Types /\ Unique /\ Budget /\ Vetted /\ HandlerOk(handler[k]) /\ handler[k].pc = "invoke"
        /\ handler[k] \in HandlerRow /\ handler \in [Consumers -> HandlerRow]
    BY DEF Inv, Vetted, InvokeTool, At, Types
  <1>2. UNCHANGED <<config, gateway, stream, added, results>> BY DEF InvokeTool, streamVars
  <1>3. handler[k].entry \in Tokens /\ handler[k].request.tool \in Builtins /\ Busy(k)
    BY <1>1 DEF HandlerOk, WorkingPcs, BusyPcs, Busy
  <1>4. PICK request \in Request : request = handler[k].request BY <1>1 DEF HandlerRow
  <1>5. PICK c \in Calls : c = handler[k].entry.call BY <1>3, TokenIs
  <1>27. PICK late \in Timer(k), leak \in SUBSET {"secret"} :
           \E exec \in ExecOutcome(handler[k].late \/ Stopping) : Invoked(k, late, leak, exec)
    BY DEF InvokeTool
  <1>28. PICK exec \in ExecOutcome(handler[k].late \/ Stopping) : Invoked(k, late, leak, exec) BY <1>27
  <1>7. PICK result, code : /\ result = Invoke(request.tool, request, exec)
                            /\ code = ExitCode(request.tool, request, exec)
    OBVIOUS
  <1>6. /\ ran' = [ran EXCEPT ![handler[k].entry.call] = Append(@,
                    [verdict |-> handler[k].verdict, by |-> handler[k].by, request |-> request,
                     result |-> result, code |-> code])]
        /\ \/ result = "error" /\ Return(k, InternalError)
           \/ /\ result # "error"
              /\ handler' = [handler EXCEPT ![k].pc = "post", ![k].late = late,
                                            ![k].out = Outcome(result, leak, "request", code)]
    BY <1>4, <1>7, <1>28 DEF Invoked
  <1>8. result \in {"error", "fail", "ok"} /\ code \in Codes
    BY <1>3, <1>4, <1>7, InvokeGives DEF ExitCode, Codes
  <1>25. PICK x : x = [verdict |-> handler[k].verdict, by |-> handler[k].by, request |-> request,
                      result |-> result, code |-> code]
    OBVIOUS
  <1>26. x \in Invocation /\ RanOk(x) /\ x.result = result /\ x.code = code
    <2>1. handler[k].verdict \in Verdicts /\ handler[k].by \in {"request", "wasm"} BY <1>1 DEF HandlerRow
    <2>2. VettedBy(request.tool, request.marks, handler[k].verdict, handler[k].by)
      BY <1>1, <1>4 DEF HandlerOk
    <2>3. x \in Invocation BY <1>8, <1>25, <2>1 DEF Invocation
    <2>4. /\ x.request = request /\ x.verdict = handler[k].verdict /\ x.by = handler[k].by
          /\ x.result = result /\ x.code = code
      BY <1>25
    <2>5. request.tool = "fs_list" \/ request.path.literal
            => \A place \in Touched(request.tool, request) : Under(place, WorkspaceContainer)
      BY TouchesWorkspace
    <2> QED BY <2>2, <2>3, <2>4, <2>5 DEF RanOk
  <1>9. ran' = [ran EXCEPT ![c] = Append(@, x)] BY <1>5, <1>6, <1>7, <1>25
  <1>10. /\ ran' \in [Calls -> Seq(Invocation)]
         /\ Ran(c) \cup {x} \subseteq Ran(c)' /\ Len(ran'[c]) = Len(ran[c]) + 1 /\ Len(ran[c]) \in Nat
         /\ \A d \in Calls : d # c => ran'[d] = ran[d]
         /\ \A d \in Calls : \A n \in 1..Len(ran'[d]) : RanOk(ran[d][n])'
    BY <1>1, <1>2, <1>9, <1>26, RanGrows
  <1>11. \E h \in HandlerRow :
           /\ handler' = [handler EXCEPT ![k] = h] /\ h.entry = handler[k].entry
           /\ \/ h.pc = "send" /\ h.out = InternalError
              \/ /\ h.pc = "post" /\ h.out.kind \in {"ok", "fail"} /\ h.out.marks \subseteq {"secret"}
                 /\ x.result = h.out.kind /\ x.code = h.out.code
    <2>5. CASE Return(k, InternalError)
      <3>1. PICK h : h = [Idle EXCEPT !.pc = "send", !.entry = handler[k].entry, !.out = InternalError] OBVIOUS
      <3>2. Idle \in HandlerRow /\ "send" \in WorkingPcs /\ InternalError \in Out
        BY IdleRow, InternalErrorIs DEF WorkingPcs
      <3>3. h \in HandlerRow /\ h.pc = "send" /\ h.entry = handler[k].entry /\ h.out = InternalError
        BY <1>3, <3>1, <3>2 DEF HandlerRow
      <3>4. handler' = [handler EXCEPT ![k] = h] BY <2>5, <3>1 DEF Return
      <3> QED BY <3>3, <3>4
    <2>6. CASE /\ result # "error"
               /\ handler' = [handler EXCEPT ![k].pc = "post", ![k].late = late,
                                             ![k].out = Outcome(result, leak, "request", code)]
      <3>1. PICK out : out = Outcome(result, leak, "request", code) OBVIOUS
      <3>2. /\ out \in Out /\ out.kind \in {"ok", "fail"} /\ out.marks \subseteq {"secret"}
            /\ out.kind = result /\ out.code = code
        BY <1>8, <2>6, <3>1 DEF Out, Outcome, Payloads, Marks, Texts
      <3>3. late \in BOOLEAN
        <4>1. handler[k].late \in BOOLEAN BY <1>1 DEF HandlerRow
        <4> QED BY <4>1 DEF Timer
      <3>4. PICK h : h = [[[handler[k] EXCEPT !.pc = "post"] EXCEPT !.late = late] EXCEPT !.out = out] OBVIOUS
      <3>5. h \in HandlerRow /\ h.pc = "post" /\ h.entry = handler[k].entry /\ h.out = out
        BY <1>1, <3>2, <3>3, <3>4 DEF HandlerRow, WorkingPcs
      <3>6. handler' = [handler EXCEPT ![k] = h] BY <2>6, <3>1, <3>4
      <3> QED BY <1>26, <3>2, <3>5, <3>6
    <2> QED BY <1>6, <2>5, <2>6
  <1>12. PICK h \in HandlerRow :
           /\ handler' = [handler EXCEPT ![k] = h] /\ h.entry = handler[k].entry
           /\ \/ h.pc = "send" /\ h.out = InternalError
              \/ /\ h.pc = "post" /\ h.out.kind \in {"ok", "fail"} /\ h.out.marks \subseteq {"secret"}
                 /\ x.result = h.out.kind /\ x.code = h.out.code
    BY <1>11
  <1>13. /\ handler' \in [Consumers -> HandlerRow] /\ handler'[k] = h
         /\ \A j \in Consumers : j # k => handler'[j] = handler[j]
    BY <1>1, <1>12
  <1>14. h.pc \notin BusyPcs /\ ~Busy(k)' BY <1>12, <1>13 DEF Busy, BusyPcs
  <1>15. Shrink BY <1>2, <1>13, <1>14 DEF Shrink, Busy
  <1>16. PICK e \in Tokens : e = handler[k].entry BY <1>3
  <1>17. Weight(c)' + 1 <= Weight(c) BY <1>1, <1>3, <1>5, <1>14, <1>15, <1>16, Dies
  <1>18. ASSUME NEW d \in Calls PROVE Runnable(d)' <= Runnable(d)
    <2>1. Weight(d) \in 0..2 BY WeightIs
    <2>2. Weight(d)' \in 0..2 BY DEF Weight
    <2>3. Weight(d)' <= Weight(d) BY <1>1, <1>15, Shrinks
    <2>4. ran[d] \in Seq(Invocation) BY <1>1 DEF Types
    <2>5. Len(ran[d]) \in Nat BY <2>4
    <2>6. CASE d = c BY <1>10, <1>17, <2>1, <2>2, <2>5, <2>6 DEF Runnable
    <2>7. CASE d # c BY <1>10, <2>1, <2>2, <2>3, <2>5, <2>7 DEF Runnable
    <2> QED BY <2>6, <2>7
  <1>19. HandlerOk(h)'
    <2>1. h.entry.call = c /\ h.entry \in Tokens BY <1>3, <1>5, <1>12
    <2>2. /\ h.pc \in {"send", "post"}
          /\ h.pc = "post" => /\ h.out.kind \in {"ok", "fail"} /\ h.out.marks \subseteq {"secret"}
                              /\ x.result = h.out.kind /\ x.code = h.out.code
      BY <1>12
    <2>3. x \in Ran(c)' BY <1>10
    <2>4. Ran(h.entry.call)' = Ran(c)' BY <2>1 DEF Ran
    <2> QED BY <2>1, <2>2, <2>3, <2>4 DEF HandlerOk, BusyPcs, Tokens
  <1>20. \A d \in Calls : Ran(d) \subseteq Ran(d)' BY <1>10 DEF Ran
  <1>21. h.pc = "send" => Honest(h.entry.call, h.out)'
    <2>1. CASE h.pc = "send" /\ h.out = InternalError
      BY <2>1 DEF Honest, InternalError, Outcome
    <2> QED BY <1>12, <2>1
  <1>22. /\ results' \in [Calls -> Seq(Out)]
         /\ \A d \in Calls : \A n \in 1..Len(results'[d]) : results'[d][n] \in Told(d)
    <2>1. results' = results BY <1>2
    <2> QED BY <1>1, <2>1, ResultsTold
  <1>23. UNCHANGED <<config, gateway, stream, added>> BY <1>2
  <1> QED BY <1>10, <1>13, <1>14, <1>18, <1>19, <1>20, <1>21, <1>22, <1>23, StepKeeps

LEMMA PostKeeps == ASSUME Inv, NEW k \in Consumers, executePostToolHook(k) PROVE Inv'
  <1>1. /\ Types /\ HandlerOk(handler[k]) /\ handler[k].pc = "post" /\ handler[k] \in HandlerRow
    BY DEF Inv, Vetted, executePostToolHook, At, Types
  <1>2. Quiet BY DEF executePostToolHook, Quiet, streamVars
  <1>3. handler[k].entry \in Tokens BY <1>1 DEF HandlerOk, WorkingPcs
  <1>4. PICK c \in Calls : c = handler[k].entry.call BY <1>3, TokenIs
  <1>5. config' = config /\ ran' = ran BY <1>2 DEF Quiet
  <1>6. PICK out \in Out : out = handler[k].out BY <1>1 DEF HandlerRow
  <1>7. /\ out.marks \in Payloads /\ out.kind \in {"none", "execute", "denied", "ok", "fail"}
        /\ out.by \in {"request", "wasm", "failed", "broken"} /\ out.code \in Codes
    BY DEF Out
  <1>19. /\ out.marks \in JSON /\ out.kind \in {"ok", "fail"}
         /\ \E x \in Ran(c) : x.result = out.kind /\ x.code = out.code
    BY <1>1, <1>4, <1>6 DEF HandlerOk, JSON, Texts
  <1>8. PICK late \in Timer(k) :
          \E resp \in HookReplies(k, late, "PostToolUse", out.marks) : PostHook(k, resp)
    BY <1>6 DEF executePostToolHook
  <1>9. late \in BOOLEAN
    <2>1. handler[k].late \in BOOLEAN BY <1>1 DEF HandlerRow
    <2> QED BY <2>1 DEF Timer
  <1>10. PICK resp \in HookReplies(k, late, "PostToolUse", out.marks) : PostHook(k, resp) BY <1>8
  <1>11. /\ resp.err \in BOOLEAN
         /\ ~resp.err => /\ resp \in Resp /\ ("secret" \in resp.payload => resp.by = "wasm")
                         /\ "broken" \in resp.payload => Breaks
    BY <1>1, <1>9, <1>19, PostReplies
  <1>12. config.client \in BOOLEAN BY <1>1 DEF Types
  \* It suffices that what is returned is an error, or the result, and without an unseen secret.
  <1>13. ASSUME NEW o \in Out, Return(k, o), o.kind # "denied",
                \/ o.kind \notin {"ok", "fail"}
                \/ /\ o.kind = out.kind \/ o.by = "wasm"
                   /\ o.code = out.code \/ (config.client /\ o.code = "zero"),
                config.client /\ "secret" \in o.marks
                  => \/ o.by = "wasm"
                     \/ o.by = "failed" /\ ~config.failClosed
                     \/ o.by = "broken" /\ Breaks
         PROVE  Inv'
    <2>1. o.kind \in {"ok", "fail"} => \E x \in Ran(c) : Tells(x, o) BY <1>13, <1>19 DEF Tells
    <2>2. Ran(c)' = Ran(c) BY <1>5 DEF Ran
    <2>3. (\A x : Tells(x, o)' <=> Tells(x, o)) /\ (Breaks' <=> Breaks) BY <1>5 DEF Tells, Breaks
    <2>4. Honest(c, o)' BY <1>5, <1>13, <2>1, <2>2, <2>3 DEF Honest
    <2> QED BY <1>2, <1>3, <1>4, <1>13, <2>4, ReturnKeeps
  <1>14. out.kind # "denied" BY <1>19
  <1>15. CASE ~config.client
    <2>1. Return(k, out) BY <1>6, <1>10, <1>12, <1>15 DEF PostHook
    <2> QED BY <1>13, <1>14, <1>15, <2>1
  <1>16. CASE config.client /\ resp.err /\ config.failClosed
    <2>1. Return(k, InternalError) BY <1>10, <1>16 DEF PostHook
    <2>2. /\ InternalError \in Out /\ InternalError.kind \notin {"denied", "ok", "fail"}
          /\ "secret" \notin InternalError.marks
      BY InternalErrorIs DEF InternalError, Outcome
    <2> QED BY <1>13, <2>1, <2>2
  <1>17. CASE config.client /\ resp.err /\ ~config.failClosed
    <2>1. PICK o : o = [out EXCEPT !.by = "failed"] OBVIOUS
    <2>2. Return(k, o) BY <1>6, <1>10, <1>17, <2>1 DEF PostHook
    <2>3. o \in Out /\ o.kind = out.kind /\ o.by = "failed" /\ o.code = out.code BY <2>1 DEF Out
    <2> QED BY <1>13, <1>14, <1>17, <2>2, <2>3
  <1>18. CASE config.client /\ ~resp.err
    <2>1. /\ resp \in Resp /\ ("secret" \in resp.payload => resp.by = "wasm")
          /\ "broken" \in resp.payload => Breaks
          /\ resp.by \in {"request", "wasm"} /\ resp.payload \in Payloads
      BY <1>11, <1>18 DEF Resp
    <2>2. PICK told \in Rewritten(out, resp) : Return(k, told) BY <1>6, <1>10, <1>18 DEF PostHook
    <2>3. CASE "broken" \in resp.payload
      <3>1. told = [out EXCEPT !.by = "broken"] BY <2>2, <2>3 DEF Rewritten
      <3>2. told \in Out /\ told.kind = out.kind /\ told.by = "broken" /\ told.code = out.code
        BY <3>1 DEF Out
      <3> QED BY <1>13, <1>14, <2>1, <2>2, <2>3, <3>2
    <2>4. CASE told = [out EXCEPT !.by = "wasm"]
      <3>1. told \in Out /\ told.kind = out.kind /\ told.by = "wasm" /\ told.code = out.code
        BY <2>4 DEF Out
      <3> QED BY <1>13, <1>14, <2>2, <3>1
    <2>5. ASSUME NEW kind \in {"ok", "fail"}, NEW code \in {"zero", out.code},
                 told = Outcome(kind, resp.payload, "wasm", code)
          PROVE  Inv'
      <3>1. code \in Codes BY <1>7 DEF Codes
      <3>2. told \in Out /\ told.kind = kind /\ told.by = "wasm" /\ told.code = code
        BY <2>1, <2>5, <3>1 DEF Out, Outcome
      <3>3. told.kind # "denied" BY <3>2
      <3> QED BY <1>13, <1>18, <2>2, <3>2, <3>3
    <2>6. CASE resp.by = "request" /\ told = Outcome(out.kind, resp.payload, "request", "zero")
      <3>1. /\ told \in Out /\ told.kind = out.kind /\ told.by = "request" /\ told.code = "zero"
            /\ told.marks = resp.payload
        BY <1>7, <2>1, <2>6 DEF Out, Outcome, Codes
      <3>2. "secret" \notin told.marks BY <2>1, <2>6, <3>1
      <3> QED BY <1>13, <1>14, <1>18, <2>2, <3>1, <3>2
    <2> QED BY <2>1, <2>2, <2>3, <2>4, <2>5, <2>6 DEF Rewritten
  <1> QED BY <1>11, <1>12, <1>15, <1>16, <1>17, <1>18

\* The consumer goes on with its entry, to a place where nothing is promised of it.
LEMMA GotoKeeps ==
  ASSUME Inv, NEW k \in Consumers, Quiet, NEW pc \in {"gone", "failed", "ack"}, Goto(k, pc),
         pc # "gone" => handler[k].entry \in Tokens
  PROVE  Inv'
  <1>1. Types BY DEF Inv
  <1>2. pc \in {"read", "gone"} \cup WorkingPcs BY DEF WorkingPcs
  <1>3. PICK h \in HandlerRow :
           /\ handler' = [handler EXCEPT ![k] = h] /\ h.pc = pc
           /\ h.entry = handler[k].entry /\ h.request = handler[k].request /\ h.out = handler[k].out
    BY <1>1, <1>2, GotoRow
  <1>4. h.pc \notin BusyPcs /\ h.pc # "send" BY <1>3 DEF BusyPcs
  <1>5. HandlerOk(h) BY <1>3 DEF HandlerOk, BusyPcs, WorkingPcs
  <1> QED BY <1>3, <1>4, <1>5, MoveKeeps

LEMMA ExitKeeps == ASSUME Inv, NEW k \in Consumers, Exit(k) PROVE Inv'
  <1>1. Quiet BY DEF Exit, Quiet, streamVars
  <1> QED BY <1>1, GotoKeeps DEF Exit

LEMMA AckKeeps == ASSUME Inv, NEW k \in Consumers, Ack(k) PROVE Inv'
  <1>1. Quiet BY DEF Ack, Quiet
  <1>2. PICK h \in HandlerRow : h \in {Idle, Gone} /\ handler' = [handler EXCEPT ![k] = h]
    BY IdleRow DEF Ack
  <1>3. h.pc \in {"read", "gone"} BY <1>2, IdleRow
  <1>4. h.pc \notin BusyPcs /\ h.pc # "send" BY <1>3 DEF BusyPcs
  <1>5. HandlerOk(h) BY <1>3 DEF HandlerOk, BusyPcs, WorkingPcs
  <1> QED BY <1>1, <1>2, <1>4, <1>5, MoveKeeps

\* A result is sent to the subscriber, or to nobody.
LEMMA SendKeeps == ASSUME Inv, NEW k \in Consumers, SendResult(k) PROVE Inv'
  <1>1. /\ Types /\ HandlerOk(handler[k]) /\ handler[k].pc = "send" /\ handler[k] \in HandlerRow
        /\ handler \in [Consumers -> HandlerRow]
    BY DEF Inv, Vetted, SendResult, At, Types
  <1>2. UNCHANGED <<config, gateway, stream, added, ran>> BY DEF SendResult, streamVars
  <1>3. handler[k].entry \in Tokens BY <1>1 DEF HandlerOk, WorkingPcs
  <1>4. PICK c \in Calls : c = handler[k].entry.call BY <1>3, TokenIs
  <1>5. PICK pc \in {"ack", "failed"} : Goto(k, pc) BY DEF SendResult
  <1>6. results' = results \/ results' = [results EXCEPT ![c] = Append(@, handler[k].out)]
    BY <1>4 DEF SendResult
  <1>7. pc \in {"read", "gone"} \cup WorkingPcs BY DEF WorkingPcs
  <1>8. PICK h \in HandlerRow :
           /\ handler' = [handler EXCEPT ![k] = h] /\ h.pc = pc
           /\ h.entry = handler[k].entry /\ h.request = handler[k].request /\ h.out = handler[k].out
    BY <1>1, <1>5, <1>7, GotoRow
  <1>9. h.pc \notin BusyPcs /\ h.pc # "send" BY <1>8 DEF BusyPcs
  <1>10. HandlerOk(h) BY <1>3, <1>8 DEF HandlerOk, BusyPcs, WorkingPcs
  <1>11. /\ handler' \in [Consumers -> HandlerRow] /\ handler'[k] = h
         /\ \A j \in Consumers : j # k => handler'[j] = handler[j]
    BY <1>1, <1>8
  <1>12. /\ results' \in [Calls -> Seq(Out)]
         /\ \A d \in Calls : \A n \in 1..Len(results'[d]) : results'[d][n] \in Told(d)
    <2>1. CASE results' = results BY <1>1, <2>1, ResultsTold
    <2>2. CASE results' = [results EXCEPT ![c] = Append(@, handler[k].out)]
      <3>1. results \in [Calls -> Seq(Out)] BY <1>1 DEF Types
      <3>2. PICK s \in Seq(Out) : s = results[c] BY <3>1
      <3>3. PICK o \in Out : o = handler[k].out BY <1>1 DEF HandlerRow
      <3>4. PICK t : t = Append(s, o) OBVIOUS
      <3>5. t \in Seq(Out) /\ \A n \in 1..Len(t) : t[n] = o \/ (n \in 1..Len(s) /\ t[n] = s[n]) BY <3>4
      <3>6. results' = [results EXCEPT ![c] = t] BY <2>2, <3>2, <3>3, <3>4
      <3>7. results' \in [Calls -> Seq(Out)] /\ results'[c] = t /\ \A d \in Calls : d # c => results'[d] = results[d]
        BY <3>1, <3>5, <3>6
      <3>8. o \in Told(c) BY <1>1, <1>4, <3>3 DEF Told
      <3>9. ASSUME NEW d \in Calls, NEW n \in 1..Len(results'[d]) PROVE results'[d][n] \in Told(d)
        <4>1. CASE d # c
          <5>1. results'[d] = results[d] BY <3>7, <4>1
          <5> QED BY <3>9, <5>1 DEF Told
        <4>2. CASE d = c
          <5>1. results'[d][n] = o \/ (n \in 1..Len(results[c]) /\ results'[d][n] = results[c][n])
            BY <3>2, <3>5, <3>7, <3>9, <4>2
          <5> QED BY <3>8, <4>2, <5>1 DEF Told
        <4> QED BY <4>1, <4>2
      <3> QED BY <3>7, <3>9
    <2> QED BY <1>6, <2>1, <2>2
  <1> QED BY <1>2, <1>9, <1>10, <1>11, <1>12, QuietKeeps

\* With one attempt, a failed entry goes to the dead-letter stream.
LEMMA FailedKeeps == ASSUME Inv, MaxRetry = 1, NEW k \in Consumers, HandlerFailed(k) PROVE Inv'
  <1>1. HandlerOk(handler[k]) /\ handler[k].pc = "failed" BY DEF Inv, Vetted, HandlerFailed, At
  <1>2. handler[k].entry \in Tokens BY <1>1 DEF HandlerOk, WorkingPcs
  <1>3. handler[k].entry.attempt = 0 BY <1>2 DEF Tokens
  <1>4. stream' = stream BY <1>3 DEF HandlerFailed, Retry
  <1>5. Quiet BY <1>4 DEF HandlerFailed, Quiet
  <1> QED BY <1>2, <1>5, GotoKeeps DEF HandlerFailed

\* The steps of the gateway and of the whole worker.
LEMMA Keeps ==
  ASSUME Inv, Types', Unique', Vetted', config' = config,
         \A c \in Calls : Ran(c) \subseteq Ran(c)',
         \A c \in Calls : \/ Runnable(c)' <= Runnable(c) /\ added'[c] = added[c]
                          \/ added[c] = 0 /\ Runnable(c)' <= added'[c],
         \A c \in Calls : gateway'[c].pc \in {"none", "publish"} => added'[c] = 0,
         \A c \in Calls : \A out \in Told(c)' : out \in Told(c) \/ Honest(c, out)'
  PROVE  Inv'
  <1>1. Types /\ Budget /\ AllHonest BY DEF Inv
  <1>2. ASSUME NEW c \in Calls
        PROVE  Runnable(c) \in Nat /\ Runnable(c)' \in Nat /\ added[c] \in Nat /\ added'[c] \in Nat
    <2>1. Runnable(c) \in Nat BY <1>1, RunnableIs
    <2>2. Weight(c)' \in 0..2 BY DEF Weight
    <2>3. ran'[c] \in Seq(Invocation) /\ added'[c] \in 0..2 BY DEF Types
    <2>4. Len(ran'[c]) \in Nat /\ added'[c] \in Nat BY <2>3
    <2>5. Runnable(c)' \in Nat BY <2>2, <2>4 DEF Runnable
    <2> QED BY <1>1, <2>1, <2>4, <2>5, AddedIs
  <1>3. Budget'
    <2>1. ASSUME NEW c \in Calls PROVE Runnable(c)' <= added'[c]
      <3>1. Runnable(c) <= added[c] BY <1>1 DEF Budget
      <3> QED BY <1>2, <3>1
    <2> QED BY <2>1 DEF Budget
  <1>4. AllHonest'
    <2> SUFFICES ASSUME NEW c \in Calls, NEW out \in Told(c)' PROVE Honest(c, out)' BY DEF AllHonest
    <2>1. CASE out \in Told(c)
      <3>1. Honest(c, out) BY <1>1, <2>1 DEF AllHonest
      <3>2. \/ Runnable(c)' <= Runnable(c) /\ added'[c] = added[c]
            \/ added[c] = 0
        OBVIOUS
      <3> QED BY <1>2, <3>1, <3>2, HonestStays
    <2> QED BY <2>1
  <1> QED BY <1>3, <1>4 DEF Inv

LEMMA VettedStays ==
  ASSUME Vetted, UNCHANGED <<config, ran>>,
         \A c \in Calls :
           /\ Decodes(gateway'[c].request)
           /\ gateway'[c].pc = "publish" \/ added'[c] > 0 => gateway'[c].request.tool \in Builtins,
         \A k \in Consumers : HandlerOk(handler'[k])
  PROVE  Vetted'
  <1>1. \A k \in Consumers : HandlerOk(handler[k])' BY DEF HandlerOk, VettedBy, Decodes, Ran
  <1>2. \A c \in Calls : \A n \in 1..Len(ran'[c]) : RanOk(ran[c][n])' BY DEF Vetted, RanOk, VettedBy
  <1>3. \A c \in Calls : Decodes(gateway[c].request)' BY DEF Decodes
  <1> QED BY <1>1, <1>2, <1>3 DEF Vetted

LEMMA RunnableFalls ==
  ASSUME Types, UNCHANGED ran, NEW c \in Calls, Weight(c)' <= Weight(c)
  PROVE  Runnable(c)' <= Runnable(c)
  <1>1. Weight(c) \in 0..2 BY WeightIs
  <1>2. Weight(c)' \in 0..2 BY DEF Weight
  <1>3. ran[c] \in Seq(Invocation) BY DEF Types
  <1>4. Len(ran[c]) \in Nat /\ ran'[c] = ran[c] BY <1>3
  <1> QED BY <1>1, <1>2, <1>4 DEF Runnable

\* The steps of the gateway that append nothing.
LEMMA GatewayKeeps ==
  ASSUME Inv, UNCHANGED <<config, stream, handler, added, ran>>, NEW c \in Calls, NEW g \in GatewayRow,
         gateway' = [gateway EXCEPT ![c] = g], results' \in [Calls -> Seq(Out)],
         Decodes(g.request), g.pc = "publish" \/ added[c] > 0 => g.request.tool \in Builtins,
         g.pc \in {"none", "publish"} => added[c] = 0,
         \A d \in Calls : \A n \in 1..Len(results'[d]) : results'[d][n] \in Told(d),
         g.answer \in Told(c) \/ g.answer = Nothing
  PROVE  Inv'
  <1>1. Types /\ Unique /\ Budget /\ Vetted BY DEF Inv
  <1>2. gateway \in [Calls -> GatewayRow] BY <1>1 DEF Types
  <1>3. gateway' \in [Calls -> GatewayRow] /\ gateway'[c] = g /\ \A d \in Calls : d # c => gateway'[d] = gateway[d]
    BY <1>2
  <1>4. Types' BY <1>1, <1>3 DEF Types
  <1>5. Shrink BY DEF Shrink, Busy
  <1>6. Unique' /\ \A d : Weight(d)' <= Weight(d) BY <1>1, <1>5, Shrinks
  <1>7. \A d \in Calls : Runnable(d)' <= Runnable(d) /\ added'[d] = added[d] BY <1>1, <1>6, RunnableFalls
  <1>8. Vetted'
    <2>1. ASSUME NEW d \in Calls
          PROVE  /\ Decodes(gateway'[d].request)
                 /\ gateway'[d].pc = "publish" \/ added'[d] > 0 => gateway'[d].request.tool \in Builtins
      <3>1. CASE d = c BY <1>3, <3>1
      <3>2. CASE d # c BY <1>1, <1>3, <3>2 DEF Vetted
      <3> QED BY <3>1, <3>2
    <2>2. \A k \in Consumers : HandlerOk(handler'[k]) BY <1>1 DEF Vetted
    <2> QED BY <1>1, <2>1, <2>2, VettedStays
  <1>9. \A d \in Calls : gateway'[d].pc \in {"none", "publish"} => added'[d] = 0 BY <1>1, <1>3 DEF Budget
  <1>10. ASSUME NEW d \in Calls, NEW out \in Told(d)' PROVE out \in Told(d) \/ Honest(d, out)'
    <2>1. \/ \E n \in 1..Len(results'[d]) : out = results'[d][n]
          \/ out = gateway'[d].answer
          \/ \E j \in Consumers : handler'[j].pc = "send" /\ handler'[j].entry.call = d /\ out = handler'[j].out
      BY DEF Told
    <2>2. CASE \E n \in 1..Len(results'[d]) : out = results'[d][n] BY <2>2
    <2>3. CASE out = gateway'[d].answer
      <3>1. CASE d # c BY <1>3, <2>3, <3>1 DEF Told
      <3>2. CASE d = c /\ out \in Told(c) BY <3>2
      <3>3. CASE out = Nothing
        <4>1. out.kind = "none" /\ out.marks = {} BY <3>3, IdleRow
        <4> QED BY <4>1 DEF Honest
      <3> QED BY <1>3, <2>3, <3>1, <3>2, <3>3
    <2>4. CASE \E j \in Consumers : handler'[j].pc = "send" /\ handler'[j].entry.call = d /\ out = handler'[j].out
      BY <2>4 DEF Told
    <2> QED BY <2>1, <2>2, <2>3, <2>4
  <1>11. \A d \in Calls : Ran(d) \subseteq Ran(d)' BY DEF Ran
  <1>12. \A d \in Calls : \A out \in Told(d)' : out \in Told(d) \/ Honest(d, out)' BY <1>10
  <1> QED BY <1>4, <1>6, <1>7, <1>8, <1>9, <1>11, <1>12, Keeps

LEMMA execToolKeeps ==
  ASSUME Inv, NEW c \in Calls, NEW r \in config.requests[c], execTool(c, r)
  PROVE  Inv'
  <1>1. Types /\ Budget /\ Vetted BY DEF Inv
  <1>2. UNCHANGED <<config, stream, handler, added, ran, results>> BY DEF execTool, streamVars, workerVars
  <1>3. r \in Request /\ Decodes(r) BY <1>1 DEF Types
  <1>4. gateway[c].pc = "none" /\ added[c] = 0 /\ gateway[c] \in GatewayRow BY <1>1 DEF execTool, Budget, Types
  <1>5. /\ results' \in [Calls -> Seq(Out)]
        /\ \A d \in Calls : \A n \in 1..Len(results'[d]) : results'[d][n] \in Told(d)
    BY <1>1, <1>2, ResultsTold
  <1>6. CASE /\ r.tool \in Builtins
             /\ gateway' = [gateway EXCEPT ![c] = [pc |-> "publish", request |-> r, answer |-> Nothing]]
    <2>1. PICK g : g = [pc |-> "publish", request |-> r, answer |-> Nothing] OBVIOUS
    <2>2. g \in GatewayRow /\ g.pc = "publish" /\ g.request = r /\ g.answer = Nothing
      BY <1>3, <2>1, IdleRow DEF GatewayRow
    <2>3. gateway' = [gateway EXCEPT ![c] = g] BY <1>6, <2>1
    <2> QED BY <1>2, <1>3, <1>4, <1>5, <1>6, <2>2, <2>3, GatewayKeeps
  <1>7. CASE gateway' = [gateway EXCEPT ![c].pc = "refused"]
    <2>1. PICK g : g = [gateway[c] EXCEPT !.pc = "refused"] OBVIOUS
    <2>2. g \in GatewayRow /\ g.pc = "refused" /\ g.request = gateway[c].request /\ g.answer = gateway[c].answer
      BY <1>4, <2>1 DEF GatewayRow
    <2>3. gateway' = [gateway EXCEPT ![c] = g] BY <1>7, <2>1
    <2>4. Decodes(g.request) /\ (added[c] > 0 => g.request.tool \in Builtins) BY <1>1, <2>2 DEF Vetted
    <2>5. g.answer \in Told(c) BY <2>2 DEF Told
    <2> QED BY <1>2, <1>5, <2>2, <2>3, <2>4, <2>5, GatewayKeeps
  <1> QED BY <1>6, <1>7 DEF execTool

\* The results of c are taken, or dropped.
LEMMA ResultsDropped ==
  ASSUME Types, NEW c \in Calls, results' = [results EXCEPT ![c] = << >>]
  PROVE  /\ results' \in [Calls -> Seq(Out)]
         /\ \A d \in Calls : \A n \in 1..Len(results'[d]) : results'[d][n] \in Told(d)
  <1>1. results \in [Calls -> Seq(Out)] BY DEF Types
  <1>2. << >> \in Seq(Out) /\ Len(<< >>) = 0 OBVIOUS
  <1>3. results' \in [Calls -> Seq(Out)] /\ results'[c] = << >> /\ \A d \in Calls : d # c => results'[d] = results[d]
    BY <1>1, <1>2
  <1>4. ASSUME NEW d \in Calls, NEW n \in 1..Len(results'[d]) PROVE results'[d][n] \in Told(d)
    <2>1. d # c BY <1>2, <1>3, <1>4
    <2> QED BY <1>3, <2>1 DEF Told
  <1> QED BY <1>3, <1>4

LEMMA TakeKeeps == ASSUME Inv, NEW c \in Calls, TakeResult(c) PROVE Inv'
  <1>1. Types /\ Vetted /\ gateway[c] \in GatewayRow /\ results[c] \in Seq(Out) BY DEF Inv, Types
  <1>2. UNCHANGED <<config, stream, handler, added, ran>> BY DEF TakeResult, streamVars, workerVars
  <1>3. /\ results' \in [Calls -> Seq(Out)]
        /\ \A d \in Calls : \A n \in 1..Len(results'[d]) : results'[d][n] \in Told(d)
    BY <1>1, ResultsDropped DEF TakeResult
  <1>4. PICK o : o = Head(results[c]) OBVIOUS
  <1>5. o \in Out /\ o \in Told(c)
    <2>1. results[c] # << >> BY DEF TakeResult
    <2>2. 1 \in 1..Len(results[c]) /\ o = results[c][1] /\ o \in Out BY <1>1, <1>4, <2>1
    <2> QED BY <2>2 DEF Told
  <1>6. PICK g : g = [[gateway[c] EXCEPT !.pc = "answered"] EXCEPT !.answer = o] OBVIOUS
  <1>7. g \in GatewayRow /\ g.pc = "answered" /\ g.request = gateway[c].request /\ g.answer = o
    BY <1>1, <1>5, <1>6 DEF GatewayRow
  <1>8. gateway' = [gateway EXCEPT ![c] = g] BY <1>4, <1>6 DEF TakeResult
  <1>9. Decodes(g.request) /\ (added[c] > 0 => g.request.tool \in Builtins) BY <1>1, <1>7 DEF Vetted
  <1> QED BY <1>2, <1>3, <1>5, <1>7, <1>8, <1>9, GatewayKeeps

LEMMA GiveUpKeeps == ASSUME Inv, NEW c \in Calls, GiveUp(c) PROVE Inv'
  <1>1. Types /\ Vetted /\ gateway[c] \in GatewayRow BY DEF Inv, Types
  <1>2. UNCHANGED <<config, stream, handler, added, ran>> BY DEF GiveUp, streamVars, workerVars
  <1>3. /\ results' \in [Calls -> Seq(Out)]
        /\ \A d \in Calls : \A n \in 1..Len(results'[d]) : results'[d][n] \in Told(d)
    BY <1>1, ResultsDropped DEF GiveUp
  <1>4. PICK g : g = [gateway[c] EXCEPT !.pc = "timeout"] OBVIOUS
  <1>5. g \in GatewayRow /\ g.pc = "timeout" /\ g.request = gateway[c].request /\ g.answer = gateway[c].answer
    BY <1>1, <1>4 DEF GatewayRow
  <1>6. gateway' = [gateway EXCEPT ![c] = g] BY <1>4 DEF GiveUp
  <1>7. Decodes(g.request) /\ (added[c] > 0 => g.request.tool \in Builtins) BY <1>1, <1>5 DEF Vetted
  <1>8. g.answer \in Told(c) BY <1>5 DEF Told
  <1> QED BY <1>2, <1>3, <1>5, <1>6, <1>7, <1>8, GatewayKeeps

\* Stop and a crash of the worker: no entry comes to life, the handlers lose what they had.
LEMMA StopKeeps == ASSUME Inv, Stop \/ Crash \/ UNCHANGED vars PROVE Inv'
  <1>1. Types /\ Unique /\ Budget /\ Vetted BY DEF Inv
  <1>2. UNCHANGED <<config, gateway, stream, added, ran, results>> BY DEF Stop, Crash, vars, streamVars, workerVars
  <1>3. \A k \in Consumers : handler'[k] = handler[k] \/ handler'[k] = Idle BY DEF Stop, Crash, vars, workerVars
  <1>4. handler' \in [Consumers -> HandlerRow]
    <2>1. handler \in [Consumers -> HandlerRow] BY <1>1 DEF Types
    <2> QED BY <2>1, IdleRow DEF Stop, Crash, vars, workerVars
  <1>5. Types' BY <1>1, <1>2, <1>4 DEF Types
  <1>6. Shrink
    <2>1. Idle.pc \notin BusyPcs BY IdleRow DEF BusyPcs
    <2> QED BY <1>2, <1>3, <2>1 DEF Shrink, Busy
  <1>7. Unique' /\ \A d : Weight(d)' <= Weight(d) BY <1>1, <1>6, Shrinks
  <1>8. \A d \in Calls : Runnable(d)' <= Runnable(d) /\ added'[d] = added[d] BY <1>1, <1>2, <1>7, RunnableFalls
  <1>9. Vetted'
    <2>1. HandlerOk(Idle)
      <3>1. Idle.pc = "read" BY IdleRow
      <3> QED BY <3>1 DEF HandlerOk, BusyPcs, WorkingPcs
    <2>2. \A k \in Consumers : HandlerOk(handler'[k]) BY <1>1, <1>3, <2>1 DEF Vetted
    <2>3. ASSUME NEW d \in Calls
          PROVE  /\ Decodes(gateway'[d].request)
                 /\ gateway'[d].pc = "publish" \/ added'[d] > 0 => gateway'[d].request.tool \in Builtins
      BY <1>1, <1>2 DEF Vetted
    <2> QED BY <1>1, <1>2, <2>2, <2>3, VettedStays
  <1>10. \A d \in Calls : gateway'[d].pc \in {"none", "publish"} => added'[d] = 0 BY <1>1, <1>2 DEF Budget
  <1>11. ASSUME NEW d \in Calls, NEW out \in Told(d)' PROVE out \in Told(d)
    <2>1. \/ \E n \in 1..Len(results[d]) : out = results[d][n]
          \/ out = gateway[d].answer
          \/ \E j \in Consumers : handler'[j].pc = "send" /\ handler'[j].entry.call = d /\ out = handler'[j].out
      BY <1>2, <1>11 DEF Told
    <2>2. Idle.pc # "send" BY IdleRow
    <2> QED BY <1>3, <2>1, <2>2 DEF Told
  <1>12. \A d \in Calls : Ran(d) \subseteq Ran(d)' BY <1>2 DEF Ran
  <1> QED BY <1>2, <1>5, <1>7, <1>8, <1>9, <1>10, <1>11, <1>12, Keeps

\* The stream without its head.
LEMMA TailIs ==
  ASSUME NEW s \in Seq(Tokens), s # << >>, \A m, n \in 1..Len(s) : s[m] = s[n] => m = n
  PROVE  /\ Head(s) \in Tokens /\ Tail(s) \in Seq(Tokens)
         /\ \E n \in 1..Len(s) : s[n] = Head(s)
         /\ \A m, n \in 1..Len(Tail(s)) : Tail(s)[m] = Tail(s)[n] => m = n
         /\ \A m \in 1..Len(Tail(s)) : (\E n \in 1..Len(s) : s[n] = Tail(s)[m]) /\ Tail(s)[m] # Head(s)
  <1>1. PICK t : t = Tail(s) OBVIOUS
  <1>2. /\ Len(s) \in Nat /\ Len(s) >= 1 /\ Len(t) = Len(s) - 1 /\ t \in Seq(Tokens)
        /\ Head(s) = s[1] /\ Head(s) \in Tokens
        /\ \A m \in 1..Len(t) : t[m] = s[m + 1]
    BY <1>1
  <1>3. \A m \in 1..Len(t) : m + 1 \in 1..Len(s) /\ m + 1 # 1 BY <1>2
  <1>4. 1 \in 1..Len(s) BY <1>2
  <1>5. ASSUME NEW m \in 1..Len(t), NEW n \in 1..Len(t), t[m] = t[n] PROVE m = n
    <2>1. m + 1 = n + 1 BY <1>2, <1>3, <1>5
    <2> QED BY <1>2, <2>1
  <1> QED BY <1>1, <1>2, <1>3, <1>4, <1>5

LEMMA ReadKeeps == ASSUME Inv, NEW k \in Consumers, Read(k) PROVE Inv'
  <1>1. Types /\ Unique /\ Budget /\ Vetted BY DEF Inv
  <1>2. UNCHANGED <<config, gateway, added, ran, results>> BY DEF Read
  <1>3. stream \in Seq(Tokens) /\ stream # << >> /\ stream' = Tail(stream) BY <1>1 DEF Read, Types
  <1>4. PICK e \in Tokens : e = Head(stream)
    BY <1>1, <1>3, TailIs DEF Unique
  <1>5. /\ stream' \in Seq(Tokens) /\ InStream(e)
        /\ \A m, n \in 1..Len(stream') : stream'[m] = stream'[n] => m = n
        /\ \A m \in 1..Len(stream') : (\E n \in 1..Len(stream) : stream[n] = stream'[m]) /\ stream'[m] # e
    <2>1. \A m, n \in 1..Len(stream) : stream[m] = stream[n] => m = n BY <1>1 DEF Unique
    <2> QED BY <1>3, <1>4, <2>1, TailIs DEF InStream
  <1>6. \A x : InStream(x)' => InStream(x) /\ x # e BY <1>5 DEF InStream
  <1>7. PICK c \in Calls : c = e.call BY TokenIs
  <1>8. Live(e) BY <1>5 DEF Live
  <1>9. added[c] > 0
    <2>1. Weight(c) >= 1
      <3>1. e = Token(c, 1) \/ e = Token(c, 2) BY <1>7, TokenIs
      <3> QED BY <1>8, <3>1 DEF Weight
    <2>2. ran[c] \in Seq(Invocation) BY <1>1 DEF Types
    <2>3. Len(ran[c]) \in Nat BY <2>2
    <2>4. Weight(c) \in 0..2 /\ added[c] \in Nat BY <1>1, WeightIs, AddedIs
    <2>5. Len(ran[c]) + Weight(c) <= added[c] BY <1>1 DEF Budget, Runnable
    <2> QED BY <2>1, <2>3, <2>4, <2>5
  <1>10. PICK request \in Request : request = gateway[c].request BY <1>1 DEF Types, GatewayRow
  <1>11. Decodes(request) /\ request.tool \in Builtins BY <1>1, <1>9, <1>10 DEF Vetted
  <1>12. handler \in [Consumers -> HandlerRow] /\ handler[k] \in HandlerRow /\ handler[k].pc = "read"
    BY <1>1 DEF Types, Read, At
  <1>13. PICK h \in HandlerRow :
           /\ handler' = [handler EXCEPT ![k] = h]
           /\ \/ h.pc = "acquire" /\ h.entry = e /\ h.request = request
              \/ h.pc \in {"read", "gone"}
    <2>1. CASE handler' = [handler EXCEPT ![k] =
                      [Idle EXCEPT !.pc = "acquire", !.entry = Head(stream),
                                   !.request = gateway[Head(stream).call].request]]
      <3>1. PICK h : h = [Idle EXCEPT !.pc = "acquire", !.entry = e, !.request = request] OBVIOUS
      <3>2. h \in HandlerRow /\ h.pc = "acquire" /\ h.entry = e /\ h.request = request
        BY <3>1, IdleRow DEF HandlerRow, WorkingPcs, BusyPcs
      <3>3. handler' = [handler EXCEPT ![k] = h] BY <1>4, <1>7, <1>10, <2>1, <3>1
      <3> QED BY <3>2, <3>3
    <2>2. CASE handler' = handler
      <3>1. handler' = [handler EXCEPT ![k] = handler[k]] BY <1>12, <2>2
      <3> QED BY <1>12, <3>1
    <2>3. CASE Goto(k, "gone") BY <1>1, <2>3, GotoRow
    <2> QED BY <2>1, <2>2, <2>3 DEF Read
  <1>14. /\ handler' \in [Consumers -> HandlerRow] /\ handler'[k] = h
         /\ \A j \in Consumers : j # k => handler'[j] = handler[j]
    BY <1>12, <1>13
  <1>15. Types' BY <1>1, <1>2, <1>5, <1>14 DEF Types
  <1>16. \A j \in Consumers : Busy(j)' => \/ j # k /\ Busy(j) /\ handler'[j].entry = handler[j].entry
                                          \/ j = k /\ handler'[j].entry = e
    BY <1>13, <1>14 DEF Busy, BusyPcs
  <1>17. \A j \in Consumers : Busy(j) => handler[j].entry # e BY <1>1, <1>5 DEF Unique
  <1>18. Unique'
    <2>1. ASSUME NEW j \in Consumers, Busy(j)' PROVE ~InStream(handler[j].entry)'
      <3>1. PICK x : x = handler'[j].entry OBVIOUS
      <3>2. CASE j # k /\ Busy(j) /\ x = handler[j].entry
        <4>1. ~InStream(x) BY <1>1, <3>2 DEF Unique
        <4>2. ~InStream(x)' BY <1>6, <4>1
        <4> QED BY <3>1, <4>2 DEF InStream
      <3>3. CASE x = e
        <4>1. ~InStream(x)' BY <1>6, <3>3
        <4> QED BY <3>1, <4>1 DEF InStream
      <3> QED BY <1>16, <2>1, <3>1, <3>2, <3>3
    <2>2. ASSUME NEW i \in Consumers, NEW j \in Consumers, Busy(i)', Busy(j)', handler'[j].entry = handler'[i].entry
          PROVE  j = i
      <3>1. CASE i = k \/ j = k BY <1>16, <1>17, <2>2, <3>1
      <3>2. CASE i # k /\ j # k BY <1>1, <1>16, <2>2, <3>2 DEF Unique
      <3> QED BY <3>1, <3>2
    <2> QED BY <1>5, <2>1, <2>2 DEF Unique
  <1>19. \A x : Live(x)' => Live(x)
    <2> SUFFICES ASSUME NEW x, Live(x)' PROVE Live(x) OBVIOUS
    <2>1. CASE InStream(x)' BY <1>6, <2>1 DEF Live
    <2>2. ASSUME NEW j \in Consumers, Busy(j)', handler'[j].entry = x PROVE Live(x)
      BY <1>8, <1>16, <2>2 DEF Live
    <2> QED BY <2>1, <2>2 DEF Live
  <1>20. ASSUME NEW d \in Calls PROVE Runnable(d)' <= Runnable(d) /\ added'[d] = added[d]
    <2>1. Token(d, 1)' = Token(d, 1) /\ Token(d, 2)' = Token(d, 2) BY DEF Token
    <2>2. Weight(d)' <= Weight(d) BY <1>19, <2>1 DEF Weight
    <2> QED BY <1>1, <1>2, <2>2, RunnableFalls
  <1>21. Vetted'
    <2>1. HandlerOk(h) BY <1>11, <1>13 DEF HandlerOk, BusyPcs, WorkingPcs
    <2>2. \A j \in Consumers : HandlerOk(handler'[j]) BY <1>1, <1>14, <2>1 DEF Vetted
    <2>3. ASSUME NEW d \in Calls
          PROVE  /\ Decodes(gateway'[d].request)
                 /\ gateway'[d].pc = "publish" \/ added'[d] > 0 => gateway'[d].request.tool \in Builtins
      BY <1>1, <1>2 DEF Vetted
    <2> QED BY <1>1, <1>2, <2>2, <2>3, VettedStays
  <1>22. \A d \in Calls : gateway'[d].pc \in {"none", "publish"} => added'[d] = 0 BY <1>1, <1>2 DEF Budget
  <1>23. ASSUME NEW d \in Calls, NEW out \in Told(d)' PROVE out \in Told(d)
    <2>1. \/ \E n \in 1..Len(results[d]) : out = results[d][n]
          \/ out = gateway[d].answer
          \/ \E j \in Consumers : handler'[j].pc = "send" /\ handler'[j].entry.call = d /\ out = handler'[j].out
      BY <1>2, <1>23 DEF Told
    <2>2. h.pc # "send" BY <1>13
    <2> QED BY <1>14, <2>1, <2>2 DEF Told
  <1>24. \A d \in Calls : Ran(d) \subseteq Ran(d)' BY <1>2 DEF Ran
  <1> QED BY <1>2, <1>15, <1>18, <1>20, <1>21, <1>22, <1>23, <1>24, Keeps

NewEntries(c, n) == [i \in 1..n |-> [call |-> c, attempt |-> 0, copy |-> i]]

\* t is s with n new entries behind it.
Extended(s, t, c, n) ==
  /\ t \in Seq(Tokens) /\ Len(t) = Len(s) + n /\ Len(s) \in Nat
  /\ \A m \in 1..Len(t) : \/ m \in 1..Len(s) /\ t[m] = s[m]
                          \/ m - Len(s) \in 1..n /\ t[m] = Token(c, m - Len(s))

LEMMA AppendedIs ==
  ASSUME NEW s \in Seq(Tokens), NEW c \in Calls, NEW n \in 0..2
  PROVE  Extended(s, s \o NewEntries(c, n), c, n)
  <1>1. PICK new : new = [i \in 1..n |-> Token(c, i)] OBVIOUS
  <1>2. \A i \in 1..n : Token(c, i) \in Tokens BY DEF Token, Tokens
  <1>3. new \in Seq(Tokens) /\ Len(new) = n /\ \A i \in 1..n : new[i] = Token(c, i)
    <2>1. new \in [1..n -> Tokens] BY <1>1, <1>2
    <2>2. n \in Nat OBVIOUS
    <2>3. new \in Seq(Tokens) BY <2>1, <2>2
    <2> QED BY <1>1, <2>1, <2>2, <2>3
  <1>4. NewEntries(c, n) = new BY <1>1 DEF Token, NewEntries
  <1>5. PICK t : t = s \o new OBVIOUS
  <1>6. Extended(s, t, c, n) BY <1>3, <1>5 DEF Extended
  <1> QED BY <1>4, <1>5, <1>6

LEMMA PublishKeeps == ASSUME Inv, NEW c \in Calls, PublishTask(c) PROVE Inv'
  <1>1. Types /\ Unique /\ Budget /\ Vetted BY DEF Inv
  <1>2. UNCHANGED <<config, handler, ran, results>> BY DEF PublishTask, workerVars
  <1>3. PICK n \in 0..2 :
          /\ stream' = stream \o [i \in 1..n |-> [call |-> c, attempt |-> 0, copy |-> i]]
          /\ added' = [added EXCEPT ![c] = n]
          /\ \/ gateway' = [gateway EXCEPT ![c].pc = "wait"]
             \/ gateway' = [gateway EXCEPT ![c].pc = "refused"]
    BY DEF PublishTask
  <1>4. gateway[c].pc = "publish" /\ added[c] = 0 BY <1>1 DEF PublishTask, Budget
  <1>5. PICK g \in GatewayRow :
          /\ gateway' = [gateway EXCEPT ![c] = g] /\ g.pc \in {"wait", "refused"}
          /\ g.request = gateway[c].request /\ g.answer = gateway[c].answer
    <2>1. gateway[c] \in GatewayRow BY <1>1 DEF Types
    <2>2. PICK pc \in {"wait", "refused"} : gateway' = [gateway EXCEPT ![c].pc = pc] BY <1>3
    <2>3. PICK g : g = [gateway[c] EXCEPT !.pc = pc] OBVIOUS
    <2>4. g \in GatewayRow /\ g.pc = pc /\ g.request = gateway[c].request /\ g.answer = gateway[c].answer
      BY <2>1, <2>3 DEF GatewayRow
    <2>5. gateway' = [gateway EXCEPT ![c] = g] BY <2>2, <2>3
    <2> QED BY <2>4, <2>5
  <1>6. /\ gateway' \in [Calls -> GatewayRow] /\ gateway'[c] = g
        /\ \A d \in Calls : d # c => gateway'[d] = gateway[d]
    <2>1. gateway \in [Calls -> GatewayRow] BY <1>1 DEF Types
    <2> QED BY <1>5, <2>1
  <1>7. added' \in [Calls -> 0..2] /\ added'[c] = n /\ \A d \in Calls : d # c => added'[d] = added[d]
    <2>1. added \in [Calls -> 0..2] BY <1>1 DEF Types
    <2> QED BY <1>3, <2>1
  <1>8. stream \in Seq(Tokens) BY <1>1 DEF Types
  <1>9. /\ stream' \in Seq(Tokens) /\ Len(stream') = Len(stream) + n /\ Len(stream) \in Nat
        /\ \A m \in 1..Len(stream') : \/ m \in 1..Len(stream) /\ stream'[m] = stream[m]
                                      \/ m - Len(stream) \in 1..n /\ stream'[m] = Token(c, m - Len(stream))
    <2>1. stream' = stream \o NewEntries(c, n) BY <1>3 DEF NewEntries
    <2>2. Extended(stream, stream \o NewEntries(c, n), c, n) BY <1>3, <1>8, AppendedIs
    <2>3. Extended(stream, stream', c, n) BY <2>1, <2>2
    <2> QED BY <2>3 DEF Extended
  <1>10. Types' BY <1>1, <1>2, <1>6, <1>7, <1>9 DEF Types
  \* Nothing of c is in the stream, nor with a consumer.
  <1>11. ran[c] = << >> /\ Weight(c) = 0 /\ ~Live(Token(c, 1)) /\ ~Live(Token(c, 2))
    <2>1. ran[c] \in Seq(Invocation) BY <1>1 DEF Types
    <2>2. Len(ran[c]) \in Nat /\ Weight(c) \in 0..2 BY <2>1, WeightIs
    <2>3. Len(ran[c]) + Weight(c) <= 0 BY <1>1, <1>4 DEF Budget, Runnable
    <2>4. Len(ran[c]) = 0 /\ Weight(c) = 0 BY <2>2, <2>3
    <2> QED BY <2>1, <2>4 DEF Weight
  <1>12. \A i \in 1..n : i \in {1, 2} /\ Token(c, i) \in Tokens /\ ~Live(Token(c, i))
    <2>1. \A i \in 1..n : i \in {1, 2} BY <1>3
    <2> QED BY <1>11, <2>1, TokenIs
  <1>13. \A k \in Consumers : Busy(k)' <=> Busy(k) BY <1>2 DEF Busy
  <1>14. \A x : InStream(x)' => InStream(x) \/ \E i \in 1..n : x = Token(c, i)
    BY <1>9 DEF InStream
  <1>15. Unique'
    <2>1. ASSUME NEW m \in 1..Len(stream'), NEW l \in 1..Len(stream'), stream'[m] = stream'[l] PROVE m = l
      <3>1. \A i \in 1..Len(stream), j \in 1..n : stream[i] # Token(c, j) BY <1>12 DEF Live, InStream
      <3>2. \A i, j \in 1..n : Token(c, i) = Token(c, j) => i = j BY DEF Token
      <3>3. CASE m \in 1..Len(stream) /\ l \in 1..Len(stream) /\ stream'[m] = stream[m] /\ stream'[l] = stream[l]
        BY <1>1, <2>1, <3>3 DEF Unique
      <3>4. CASE /\ m - Len(stream) \in 1..n /\ stream'[m] = Token(c, m - Len(stream))
                 /\ l - Len(stream) \in 1..n /\ stream'[l] = Token(c, l - Len(stream))
        <4>1. m - Len(stream) = l - Len(stream) BY <2>1, <3>2, <3>4
        <4> QED BY <1>9, <4>1
      <3> QED BY <1>9, <2>1, <3>1, <3>3, <3>4
    <2>2. ASSUME NEW k \in Consumers, Busy(k)'
          PROVE  /\ ~InStream(handler[k].entry)'
                 /\ \A j \in Consumers : Busy(j)' /\ handler'[j].entry = handler'[k].entry => j = k
      <3>1. Busy(k) /\ ~InStream(handler[k].entry) BY <1>1, <1>13, <2>2 DEF Unique
      <3>2. PICK x : x = handler[k].entry OBVIOUS
      <3>3. \A i \in 1..n : x # Token(c, i) BY <1>12, <3>1, <3>2 DEF Live
      <3>4. ~InStream(x)' BY <1>14, <3>1, <3>2, <3>3
      <3>5. ~InStream(handler[k].entry)' BY <1>2, <3>2, <3>4 DEF InStream
      <3> QED BY <1>1, <1>2, <1>13, <3>1, <3>5 DEF Unique
    <2> QED BY <2>1, <2>2 DEF Unique
  <1>16. \A x : Live(x)' => Live(x) \/ \E i \in 1..n : x = Token(c, i)
    BY <1>2, <1>13, <1>14 DEF Live
  <1>17. ASSUME NEW d \in Calls
         PROVE  \/ Runnable(d)' <= Runnable(d) /\ added'[d] = added[d]
                \/ added[d] = 0 /\ Runnable(d)' <= added'[d]
    <2>1. Token(d, 1)' = Token(d, 1) /\ Token(d, 2)' = Token(d, 2) BY DEF Token
    <2>2. CASE d # c
      <3>1. \A i \in 1..n, j \in {1, 2} : Token(d, j) # Token(c, i) BY <1>12, <2>2, TokenIs
      <3>2. Weight(d)' <= Weight(d) BY <1>16, <2>1, <3>1 DEF Weight
      <3> QED BY <1>1, <1>2, <1>7, <2>2, <3>2, RunnableFalls
    <2>3. CASE d = c
      <3>1. Live(Token(c, 1))' => n >= 1
        BY <1>3, <1>11, <1>16
      <3>2. Live(Token(c, 2))' => n >= 2
        <4>1. Live(Token(c, 2))' => \E i \in 1..n : Token(c, 2) = Token(c, i) BY <1>11, <1>16
        <4>2. \A i \in 1..n : Token(c, 2) = Token(c, i) => i = 2 BY DEF Token
        <4> QED BY <1>3, <4>1, <4>2
      <3>3. Weight(c)' <= n BY <2>1, <2>3, <3>1, <3>2 DEF Weight
      <3>4. Weight(c)' \in 0..2 BY DEF Weight
      <3>5. Runnable(c)' <= n BY <1>2, <1>11, <3>3, <3>4 DEF Runnable
      <3> QED BY <1>4, <1>7, <2>3, <3>5
    <2> QED BY <2>2, <2>3
  <1>18. Vetted'
    <2>1. ASSUME NEW d \in Calls
          PROVE  /\ Decodes(gateway'[d].request)
                 /\ gateway'[d].pc = "publish" \/ added'[d] > 0 => gateway'[d].request.tool \in Builtins
      <3>1. CASE d = c
        <4>1. gateway'[d].request = gateway[c].request BY <1>5, <1>6, <3>1
        <4> QED BY <1>1, <1>4, <4>1 DEF Vetted
      <3>2. CASE d # c BY <1>1, <1>6, <1>7, <3>2 DEF Vetted
      <3> QED BY <3>1, <3>2
    <2>2. \A k \in Consumers : HandlerOk(handler'[k]) BY <1>1, <1>2 DEF Vetted
    <2> QED BY <1>1, <1>2, <2>1, <2>2, VettedStays
  <1>19. \A d \in Calls : gateway'[d].pc \in {"none", "publish"} => added'[d] = 0
    BY <1>1, <1>5, <1>6, <1>7 DEF Budget
  <1>20. ASSUME NEW d \in Calls, NEW out \in Told(d)' PROVE out \in Told(d)
    <2>1. gateway'[d].answer = gateway[d].answer BY <1>5, <1>6
    <2> QED BY <1>2, <1>20, <2>1 DEF Told
  <1>21. \A d \in Calls : Ran(d) \subseteq Ran(d)' BY <1>2 DEF Ran
  <1> QED BY <1>2, <1>10, <1>15, <1>17, <1>18, <1>19, <1>20, <1>21, Keeps

LEMMA InitInv == ASSUME Init PROVE Inv
  <1>1. PICK s \in Scenarios :
          config = [client |-> s.enabled /\ "dial" \notin s.faults, failClosed |-> s.failClosed,
                    hooks |-> LoadWithConfig(s.files), requests |-> s.requests]
    BY DEF Init
  <1>2. config.client \in BOOLEAN BY <1>1
  <1>3. Loaded(config.hooks)
    <2>1. s.files \in Seq(Manifest) BY ToolAssumption
    <2> QED BY <1>1, <2>1, LoadedFirst
  <1>4. \A c \in Calls : \A r \in config.requests[c] : r \in Request /\ Decodes(r)
    <2>1. config.requests = s.requests BY <1>1
    <2> QED BY <2>1, ToolAssumption
  <1>5. PICK g : g = [pc |-> "none", request |-> NoRequest, answer |-> Nothing] OBVIOUS
  <1>6. g \in GatewayRow /\ g.pc = "none" /\ g.request = NoRequest /\ g.answer = Nothing
    BY <1>5, IdleRow DEF GatewayRow
  <1>7. gateway = [c \in Calls |-> g] BY <1>5 DEF Init
  <1>8. Types
    <2>1. gateway \in [Calls -> GatewayRow] BY <1>6, <1>7
    <2>2. results \in [Calls -> Seq(Out)] /\ stream \in Seq(Tokens) /\ ran \in [Calls -> Seq(Invocation)]
      BY DEF Init
    <2>3. handler \in [Consumers -> HandlerRow] BY IdleRow DEF Init
    <2>4. added \in [Calls -> 0..2] BY DEF Init
    <2> QED BY <1>2, <1>3, <1>4, <2>1, <2>2, <2>3, <2>4 DEF Types
  <1>9. \A k \in Consumers : handler[k] = Idle /\ ~Busy(k) BY IdleRow DEF Init, Busy, BusyPcs
  <1>10. stream = << >> /\ \A x : ~InStream(x) BY DEF Init, InStream
  <1>11. Unique BY <1>9, <1>10 DEF Unique
  <1>12. \A x : ~Live(x) BY <1>9, <1>10 DEF Live
  <1>13. Budget
    <2>1. \A c \in Calls : ran[c] = << >> /\ added[c] = 0 BY DEF Init
    <2>2. \A c \in Calls : Weight(c) = 0 BY <1>12 DEF Weight
    <2> QED BY <2>1, <2>2 DEF Budget, Runnable
  <1>14. Vetted
    <2>1. HandlerOk(Idle)
      <3>1. Idle.pc = "read" BY IdleRow
      <3> QED BY <3>1 DEF HandlerOk, BusyPcs, WorkingPcs
    <2>2. \A c \in Calls : ran[c] = << >> /\ added[c] = 0 BY DEF Init
    <2>3. \A c \in Calls : gateway[c] = g BY <1>7
    <2>4. Decodes(g.request) BY <1>6, IdleRow
    <2> QED BY <1>6, <1>9, <2>1, <2>2, <2>3, <2>4 DEF Vetted
  <1>15. AllHonest
    <2> SUFFICES ASSUME NEW c \in Calls, NEW out \in Told(c) PROVE Honest(c, out) BY DEF AllHonest
    <2>1. results[c] = << >> BY DEF Init
    <2>2. \A k \in Consumers : handler[k].pc # "send" BY <1>9, IdleRow
    <2>3. out = Nothing BY <1>6, <1>7, <2>1, <2>2 DEF Told
    <2>4. out.kind = "none" /\ out.marks = {} BY <2>3, IdleRow
    <2> QED BY <2>4 DEF Honest
  <1> QED BY <1>8, <1>11, <1>13, <1>14, <1>15 DEF Inv

LEMMA NextKeeps == ASSUME Inv, MaxRetry = 1, [Next]_vars PROVE Inv'
  <1>1. ASSUME NEW c \in Calls, \/ \E r \in config.requests[c] : execTool(c, r)
                                \/ PublishTask(c) \/ TakeResult(c) \/ GiveUp(c)
        PROVE  Inv'
    BY <1>1, execToolKeeps, PublishKeeps, TakeKeeps, GiveUpKeeps
  <1>2. ASSUME NEW k \in Consumers, Worker(k) PROVE Inv'
    BY <1>2, ReadKeeps, ExitKeeps, AcquireKeeps, PreKeeps, InvokeKeeps, PostKeeps, SendKeeps, FailedKeeps, AckKeeps
    DEF Worker
  <1>3. CASE Stop \/ Crash \/ UNCHANGED vars BY <1>3, StopKeeps
  <1> QED BY <1>1, <1>2, <1>3 DEF Next

LEMMA Invariance == ASSUME MaxRetry = 1 PROVE Spec => []Inv
  <1>1. Init => Inv BY InitInv
  <1>2. Inv /\ [Next]_vars => Inv' BY NextKeeps
  <1> QED BY <1>1, <1>2, PTL DEF Spec

\* A tool runs at most once for each entry the gateway appended, whatever is lost,
\* repeated or restarted: Consume has one attempt (cmd/worker/main.go), and an
\* entry that was read is never read again.
THEOREM ToolsRunAtMostOnce == ASSUME MaxRetry = 1 PROVE Spec => []RunsAtMostOnce
  <1>1. Inv => RunsAtMostOnce
    <2> SUFFICES ASSUME Inv, NEW c \in Calls PROVE Len(ran[c]) <= added[c] BY DEF RunsAtMostOnce
    <2>1. Types /\ Runnable(c) <= added[c] BY DEF Inv, Budget
    <2>2. ran[c] \in Seq(Invocation) BY <2>1 DEF Types
    <2>3. Len(ran[c]) \in Nat /\ added[c] \in Nat /\ Weight(c) \in 0..2 BY <2>1, <2>2, AddedIs, WeightIs
    <2> QED BY <2>1, <2>3 DEF Runnable
  <1> QED BY <1>1, Invariance, PTL

\* With a hook client, a dangerous command under the keys the hook looks up runs
\* only past a failed call that may be ignored, or because a module put it there;
\* fs_list, and fs_read and fs_write with a path the shell does not expand, stay in
\* the workspace: whatever hooks are loaded, whatever they redact and whatever
\* their modules answer (executePreToolHook, Engine.Execute, safePath). Other
\* spellings of the keys and other paths are not covered: InvocationsConfined,
\* which covers them, does not hold.
THEOREM ToolsAreVetted == ASSUME MaxRetry = 1 PROVE Spec => []InvocationsVetted
  <1>1. Inv => InvocationsVetted
    <2> SUFFICES ASSUME Inv, NEW c \in Calls, NEW i \in DOMAIN ran[c] PROVE RanOk(ran[c][i])
      BY DEF InvocationsVetted, RanOk, VettedBy, Excused
    <2>1. ran[c] \in Seq(Invocation) BY DEF Inv, Types
    <2>2. i \in 1..Len(ran[c]) BY <2>1
    <2> QED BY <2>2 DEF Inv, Vetted
  <1> QED BY <1>1, Invariance, PTL

\* What the caller is told happened: a result is that of an invocation for the call,
\* its exit code too unless there is a hook client, a denial that of an entry whose
\* tool never runs, and a secret passes only with a module, a failed hook that may
\* be ignored, or a replacement that breaks the JSON (Runner.Handle,
\* executePostToolHook).
THEOREM AnswersAreTruthful == ASSUME MaxRetry = 1 PROVE Spec => []AnswerTruthful
  <1>1. Inv => AnswerTruthful
    <2> SUFFICES ASSUME Inv, NEW c \in Calls
                 PROVE  LET answer == gateway[c].answer
                        IN  /\ answer.kind \in {"ok", "fail"} => \E i \in DOMAIN ran[c] : Tells(ran[c][i], answer)
                            /\ answer.kind = "denied" => Len(ran[c]) < added[c]
                            /\ config.client /\ "secret" \in answer.marks
                                 => \/ answer.by = "wasm"
                                    \/ answer.by = "failed" /\ ~config.failClosed
                                    \/ answer.by = "broken" /\ Breaks
      BY DEF AnswerTruthful
    <2>1. Types /\ Honest(c, gateway[c].answer) BY DEF Inv, AllHonest, Told
    <2>2. ran[c] \in Seq(Invocation) BY <2>1 DEF Types
    <2>3. Len(ran[c]) \in Nat /\ added[c] \in Nat /\ Weight(c) \in 0..2 BY <2>1, <2>2, AddedIs, WeightIs
    <2> QED BY <2>1, <2>3 DEF Honest, Runnable, Ran
  <1> QED BY <1>1, Invariance, PTL
=============================================================================

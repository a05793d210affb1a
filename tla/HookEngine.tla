----------------------------- MODULE HookEngine ------------------------------
(***************************************************************************)
(* The hook service: Engine.Execute (internal/hook/engine.go), the WASI    *)
(* modules it runs (wasm.go) and the client the worker calls it with       *)
(* (grpc_client.go). A pure function of the loaded hooks, the request and  *)
(* what the WASI modules answer.                                           *)
(*                                                                         *)
(* A payload is the set of marks its text carries:                         *)
(*   danger  a needle of denyDangerousBash, under a key it looks up        *)
(*   unseen  a needle in what bash runs, under a key the hook does not     *)
(*           look up: the hook's map has exact keys, the decoder of        *)
(*           BashTool.Invoke ignores their case                            *)
(*   secret  the pattern of the redacting hook that is built in            *)
(*   broken  a replacement has left text that is no JSON                   *)
(* NoPayload is a response without payload_json. The list of matched       *)
(* hooks, which only reports, is left out.                                 *)
(***************************************************************************)
EXTENDS Integers, Sequences, SequencesExt

Texts == {"danger", "unseen", "secret"}
Marks == Texts \cup {"broken"}
NoPayload == {"absent"}
Payloads == SUBSET Marks
JSON == SUBSET Texts

\* What a WASI module does: it fails (missing path, timeout, trap, too much
\* output, no JSON), prints nothing, or prints a response. JSON without the
\* field "allowed" decodes to a denial.
WasmAnswer ==
  [kind : {"error", "silent"}, allowed : {TRUE}, payload : {NoPayload}]
    \cup [kind : {"reply"}, allowed : BOOLEAN, payload : JSON \cup {NoPayload}]

\* A hook manifest. path tells whether it names a module; pattern is empty, one
\* of the marks, or "text", which every payload holds; the replacement is plain
\* text, free of patterns and needles, or breaks the JSON it is put into.
Manifest ==
  [event : STRING, type : STRING, enabled : BOOLEAN, path : BOOLEAN,
   pattern : Texts \cup {"text", ""}, replacement : {"plain", "broken"}]

Builtin(event, type, pattern) ==
  [event |-> event, type |-> type, enabled |-> TRUE, path |-> FALSE,
   pattern |-> pattern, replacement |-> "plain"]

builtinHooks ==
  << Builtin("PreToolUse", "deny_dangerous_bash", ""), Builtin("PreLLM", "append_system", ""),
     Builtin("PostToolUse", "redact", "secret") >>

\* A manifest without a type appends to the system prompt.
Typed(manifest) ==
  [manifest EXCEPT !.type = IF manifest.type = "" THEN "append_system" ELSE manifest.type]

\* The manifests under the root are appended in walking order; a file that
\* cannot be read or parsed is skipped.
LoadWithConfig(files) ==
  LET hooks[i \in 0..Len(files)] ==
        IF i = 0 THEN builtinHooks
        ELSE IF files[i].type = "unparsable" THEN hooks[i - 1]
             ELSE Append(hooks[i - 1], Typed(files[i]))
  IN  hooks[Len(files)]

\* The needles are looked for under the keys cmd and command of the request,
\* spelled so.
denyDangerousBash(tool, payload) == tool \in {"bash", "shell"} /\ "danger" \in payload

\* ReplaceAll on the text of the payload; nothing looks whether JSON is left.
redactPayload(payload, pattern, replacement) ==
  IF pattern = "text" \/ pattern \in payload
    THEN (payload \ {pattern}) \cup ({replacement} \ {"plain"})
    ELSE payload

\* executeWASM: the module reads the request as the client sent it, not what
\* the hooks before it made of the payload.
executeWASM(h, answer) ==
  IF ~h.path \/ answer.kind = "error"
    THEN [err |-> TRUE, allowed |-> FALSE, payload |-> NoPayload]
    ELSE [err |-> FALSE, allowed |-> answer.allowed, payload |-> answer.payload]

\* by: who the payload is from, the request or a WASI module.
mergeResponse(base, next) ==
  [base EXCEPT !.allowed = @ /\ next.allowed,
               !.payload = IF next.payload = NoPayload THEN @ ELSE next.payload,
               !.by = IF next.payload = NoPayload THEN @ ELSE "wasm"]

\* One enabled hook of the event; answer is what its module does, if it has one.
runHook(h, resp, tool, payload, answer) ==
  CASE h.type = "deny_dangerous_bash" -> [resp EXCEPT !.allowed = ~denyDangerousBash(tool, payload)]
    [] h.type = "redact" -> [resp EXCEPT !.payload = redactPayload(@, h.pattern, h.replacement)]
    [] h.type = "wasm" ->
         LET next == executeWASM(h, answer)
         IN  IF next.err THEN [resp EXCEPT !.err = TRUE] ELSE mergeResponse(resp, next)
    [] OTHER -> resp

\* Engine.Execute runs the enabled hooks of the event in order; an error or a
\* denial ends the loop. answers[i] is what the module of hook i does.
Execute(hooks, event, tool, payload, answers) ==
  LET resp[i \in 0..Len(hooks)] ==
        IF i = 0 THEN [err |-> FALSE, allowed |-> TRUE, payload |-> payload, by |-> "request"]
        ELSE IF resp[i - 1].err \/ ~resp[i - 1].allowed \/ ~hooks[i].enabled \/ hooks[i].event # event
               THEN resp[i - 1]
               ELSE runHook(hooks[i], resp[i - 1], tool, payload, answers[i])
  IN  resp[Len(hooks)]

\* GRPCClient.Execute and hookService.ExecuteHook carry request and response
\* over; a call whose context is done, or that does not reach hookd, fails.
Failed == [err |-> TRUE, allowed |-> FALSE, payload |-> NoPayload, by |-> "request"]

===============================================================================

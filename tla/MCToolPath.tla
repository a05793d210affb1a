----------------------------- MODULE MCToolPath ------------------------------
(* Instances of ToolPath: two calls, two consumers and a single sandbox.     *)
EXTENDS ToolPath

Ask(tool, shape, segments, marks) ==
  [tool |-> tool, shape |-> shape, path |-> [NoPath EXCEPT !.segments = segments], marks |-> marks]

Dangerous == Ask("bash", "good", << >>, {"danger", "secret"})
Unseen == Ask("bash", "good", << >>, {"unseen"})
Spelled == [Ask("fs_write", "good", <<"x">>, {}) EXCEPT !.path.literal = FALSE]
Plain == Ask("bash", "good", << >>, {})
Fetch == Ask("http_fetch", "malformed", <<"api", "x">>, {})
Escaping == [Ask("fs_read", "good", << >>, {}) EXCEPT
               !.path.abs = TRUE, !.path.segments = WorkspaceContainer \o <<"..", "x">>]

\* One call of every kind; two calls that compete for the sandbox; one call.
Every == [c1 |-> {Dangerous, Escaping, Fetch, Ask("fs_list", "malformed", << >>, {}),
                Ask("http_fetch", "good", <<"api", "x">>, {}), Ask("fs_write", "good", <<"x">>, {}),
                Unseen, Spelled, Ask("unknown", "good", << >>, {})}, c2 |-> {}]
Two == [c1 |-> {Dangerous, Plain}, c2 |-> {Fetch}]
One == [c1 |-> {Plain}, c2 |-> {}]

Wasm(event) == [Builtin(event, "wasm", "") EXCEPT !.path = TRUE]
Redact(event, pattern, replacement) ==
  [Builtin(event, "redact", pattern) EXCEPT !.replacement = replacement]
Scene(wrong, asked, enabled, failClosed, files) ==
  [faults |-> wrong, requests |-> asked, enabled |-> enabled, failClosed |-> failClosed, files |-> files]

\* A WASI module before the tool, and one after it among other manifests.
Before == <<Wasm("PreToolUse")>>
After == <<[Wasm("PreLLM") EXCEPT !.type = ""], [Wasm("PreLLM") EXCEPT !.type = "unparsable"],
           Wasm("PostToolUse")>>
\* A pattern in the arguments; replacements that break the JSON, before and after.
Redacting == <<Redact("PreToolUse", "secret", "plain"), Redact("PreToolUse", "unseen", "broken"),
             Redact("PostToolUse", "", "broken"), Redact("PostToolUse", "text", "broken")>>

MCScenarios ==
  {Scene({}, Two, FALSE, FALSE, << >>),
   Scene({}, Every, TRUE, TRUE, Before), Scene({}, Every, TRUE, FALSE, After),
   Scene({}, Every, TRUE, FALSE, Redacting),
   Scene({"redis"}, Two, TRUE, TRUE, << >>), Scene({"reply"}, Two, FALSE, FALSE, << >>),
   Scene({"double", "bus"}, One, FALSE, FALSE, << >>), Scene({"dial"}, Every, TRUE, TRUE, << >>),
   Scene({"hook"}, Two, TRUE, TRUE, << >>), Scene({"hook"}, Every, TRUE, FALSE, << >>),
   Scene({"stop"}, Two, TRUE, TRUE, << >>), Scene({"crash"}, Two, TRUE, TRUE, << >>)}
JustOne == {Scene({}, [c1 |-> {Unseen, Spelled, Plain}, c2 |-> {}], TRUE, TRUE, << >>)}
JustStop == {Scene({"stop"}, One, FALSE, FALSE, << >>)}

MCAllowList == {[dot |-> TRUE, labels |-> <<"x">>]}
===============================================================================

---------------------------- MODULE BuiltinTools -----------------------------
(***************************************************************************)
(* The five built-in tools (internal/tool): what Invoke makes of the       *)
(* arguments and of what the sandbox, or the HTTP server, does. A result   *)
(* is "error" (a Go error), "fail" (IsError) or "ok".                      *)
(*                                                                         *)
(* Arguments: shape is "good", "malformed" (no JSON of the right shape),   *)
(* "missing" (a required field is empty) or, for http_fetch, "no_http" (a  *)
(* URL that does not parse or is not http(s)); path is the path fs_* are   *)
(* asked for, and its segments the labels of the host for http_fetch.      *)
(* A path is literal when a shell takes it, in double quotes, as it        *)
(* stands: Go's %q escapes a quote, not what a shell expands.              *)
(***************************************************************************)
EXTENDS Integers, Sequences, SequencesExt

CONSTANT AllowList  \* hosts http_fetch may reach: labels, leading dot or not

Builtins == {"bash", "fs_read", "fs_write", "fs_list", "http_fetch"}

\* dockerSandbox.WorkspaceContainer: /workspace/runs/<run id>.
WorkspaceContainer == <<"workspace", "runs", "r">>

\* path.Clean of a rooted path: ".." removes the segment before it, and is
\* dropped at the root.
Clean(segments) ==
  FoldLeft(LAMBDA done, s : CASE s = "." -> done
                              [] s = ".." -> IF done = << >> THEN done ELSE Front(done)
                              [] OTHER -> Append(done, s),
           << >>, segments)

Under(path, root) == IsPrefix(root, path)

Outside == <<"/">>

\* safePath: an absolute path has to be under the workspace once cleaned, a
\* relative one is joined to the workspace first.
safePath(p) ==
  LET cleaned == Clean(IF p.abs THEN p.segments ELSE WorkspaceContainer \o p.segments)
  IN  IF Under(cleaned, WorkspaceContainer) THEN cleaned ELSE Outside

\* dockerSandbox.Exec: "err" (create, attach, copy, inspect or the timeout),
\* or the exit code. Exec on a context that is done fails at once.
ExecOutcome(done) == IF done THEN {"err"} ELSE {"err", "nonzero", "zero"}

\* What the exit code, or the HTTP status, makes of the result.
Judge(exec) == IF exec = "zero" THEN "ok" ELSE "fail"

BashInvoke(args, exec) == IF args.shape = "good" THEN Judge(exec) ELSE "error"

\* fs_read and fs_write. What the shell makes of a path that is not literal
\* decides what the command touches (Touched); the result is its exit code.
FsFileInvoke(args, exec) ==
  IF args.shape # "good" THEN "error"
  ELSE IF safePath(args.path) = Outside THEN "fail" ELSE Judge(exec)

\* fs_list ignores what it cannot parse and lists the workspace then.
FsListInvoke(args, exec) ==
  IF args.shape = "good" /\ safePath(args.path) = Outside THEN "fail" ELSE Judge(exec)

allowedHost(host) ==
  \/ AllowList = {}
  \/ \E a \in AllowList : host = a.labels \/ (a.dot /\ IsSuffix(a.labels, host))

\* http_fetch runs in the worker, not in the sandbox.
HttpInvoke(args, exec) ==
  IF args.shape \in {"malformed", "missing"} THEN "error"
  ELSE IF args.shape = "no_http" \/ ~allowedHost(args.path.segments) THEN "fail" ELSE Judge(exec)

Invoke(tool, args, exec) ==
  CASE tool = "bash" -> BashInvoke(args, exec)
    [] tool \in {"fs_read", "fs_write"} -> FsFileInvoke(args, exec)
    [] tool = "fs_list" -> FsListInvoke(args, exec)
    [] tool = "http_fetch" -> HttpInvoke(args, exec)

\* The exit code in the metadata of a result: of a command that ran in the
\* sandbox and failed. A result without one counts as "zero".
ExitCode(tool, args, exec) ==
  IF exec = "nonzero" /\ tool # "http_fetch" /\ Invoke(tool, args, "zero") = "ok"
    THEN "nonzero" ELSE "zero"

Anywhere == <<"*">>

\* The paths a call of fs_* may touch. safePath is about the text of the path.
\* fs_list passes it as an argument; fs_read and fs_write put it into a script
\* for sh -c, which may make any other path of it.
Touched(tool, args) ==
  LET asked == {safePath(args.path)} \ {Outside}
  IN  CASE tool = "fs_list" -> IF args.shape = "good" THEN asked ELSE {WorkspaceContainer}
        [] tool \in {"fs_read", "fs_write"} /\ args.shape = "good" ->
             asked \cup IF asked = {} \/ args.path.literal THEN {} ELSE {Anywhere}
        [] OTHER -> {}

===============================================================================

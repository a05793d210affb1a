--------------------------- MODULE AcpSessionProofs ---------------------------
(***************************************************************************)
(* Proofs about the ACP server. Whatever goes wrong, an event is appended  *)
(* to the cache, or its append has failed, before a client can have it     *)
(* (Base). As long as no append fails before the gateway is stopped, a     *)
(* client receives the events of its run without a gap over any number of  *)
(* connections, and the whole run is cached (Inv); after a failed append,  *)
(* whose error the code drops, a resumed stream has a hole.                *)
(***************************************************************************)
EXTENDS AcpSession, TLAPS, FiniteSetTheorems, WellFoundedInduction

-----------------------------------------------------------------------------
(* The invariant.                                                          *)

Early == {"none", "hello", "loop"}
Closing == {"finish", "await", "ended"}
RunPhase == {"subscribe", "publish", "stream", "emit", "failed", "close"}

\* The frames that are sent: the client goes on after HELLO_ACK and PONG.
Sound == {f \in Frame : f.kind \in {"ack", "pong"} => ~f.last}

Types ==
  /\ phase \in [Session -> Phase]
  /\ runOf \in [Session -> Run] /\ resuming \in [Session -> BOOLEAN]
  /\ inbound \in [Session -> {"none", "ping", "request", "bad"}]
  /\ closed \in [Session -> BOOLEAN] /\ queueOpen \in [Session -> BOOLEAN]
  /\ queue \in [Session -> Seq(Sound)] /\ wire \in [Session -> Seq(Sound)]
  /\ writer \in [Session -> {"loop", "drain", "done"}]
  /\ conn \in [Session -> BOOLEAN]
  /\ seqGen \in [Session -> Nat] /\ cursor \in [Session -> 0..EventCount]
  /\ pending \in [Session -> Seq(Event)]
  /\ cache \in [Run -> SUBSET Event] /\ dropped \in [Run -> SUBSET Event]
  /\ published \subseteq Run
  /\ produced \in [Run -> 0..EventCount]
  /\ client \in [Run -> {"new", "dialled", "live", "lost", "done"}]
  /\ using \in [Run -> Session \cup {NoSession}]
  /\ got \in [Run -> Seq(Event)]
  /\ gateway \in {"first", "stopping", "second"}

NoEvents(w) == \A i \in 1..Len(w) : w[i].kind # "event"

\* What a session is and does in each of its phases.
Role(s) ==
  /\ phase[s] = "none" => /\ inbound[s] = "none" /\ ~closed[s] /\ queueOpen[s]
                          /\ queue[s] = << >> /\ wire[s] = << >> /\ writer[s] = "loop"
  /\ writer[s] = "drain" => ~conn[s]
  /\ phase[s] \in RunPhase => ~resuming[s]
  /\ phase[s] = "replay" => resuming[s]
  /\ cursor[s] > 0 => ~resuming[s]
  /\ phase[s] \notin {"emit", "replay"} => pending[s] = << >>
  /\ phase[s] \in Early => NoEvents(wire[s]) /\ NoEvents(queue[s])
  /\ phase[s] \notin {"await", "ended"} => queueOpen[s]

\* A client that has a connection uses a session that was opened for its run.
ClientRole(r) ==
  /\ using[r] # NoSession => runOf[using[r]] = r /\ phase[using[r]] # "none"
  /\ client[r] \in {"dialled", "live"} <=> using[r] # NoSession

Roles == (\A s \in Session : Role(s)) /\ (\A r \in Run : ClientRole(r))

\* Nothing was asked of the session, or nothing came of it.
Untouched(s) ==
  inbound[s] = "none" /\ phase[s] \in Early \cup Closing /\ seqGen[s] = 0 /\ cursor[s] = 0

RunSession(s, r) == runOf[s] = r /\ ~resuming[s] /\ phase[s] # "none"

\* Does the client of r use s to execute it?
Executing(r, s) == using[r] = s /\ s # NoSession /\ ~resuming[s]

\* One session at most executes a run.
Alone ==
  \A r \in Run : \A s \in Session : RunSession(s, r) =>
    /\ \A t \in Session : RunSession(t, r) /\ s # t => Untouched(s) \/ Untouched(t)
    /\ client[r] = "new" => Untouched(s)
    /\ \A u \in Session : Executing(r, u) /\ (client[r] = "dialled" \/ s # u) => Untouched(s)

\* The session will not subscribe: it has, or it was not asked to.
Begun(s) ==
  phase[s] \notin {"subscribe", "publish"} /\ (phase[s] \in Early => inbound[s] = "none")

BegunFor(r) ==
  /\ client[r] # "new"
  /\ \A u \in Session : Executing(r, u) => client[r] = "live" /\ phase[u] \notin Early
  /\ \A s \in Session : RunSession(s, r) => Begun(s)

\* It subscribes before the run's first event.
Fresh ==
  /\ \A r \in Run : r \notin published => produced[r] = 0
  /\ \A r \in published : BegunFor(r)

\* It numbers the visible events.
Counts(s) ==
  /\ phase[s] \in Early \cup {"subscribe", "publish", "failed"} => seqGen[s] = 0 /\ cursor[s] = 0
  /\ phase[s] = "stream" => seqGen[s] = Len(VisibleUpTo[cursor[s]])
  /\ phase[s] = "emit" =>
       /\ Len(pending[s]) = 1 /\ pending[s][1].seq = seqGen[s] /\ seqGen[s] >= 1
       /\ \/ pending[s][1].ev = Timeout
          \/ /\ cursor[s] >= 1 /\ pending[s][1].ev = cursor[s]
             /\ seqGen[s] = Len(VisibleUpTo[cursor[s]])

Counting == \A s \in Session : Counts(s)

\* Event e of r was emitted; the timeout is the last.
Known(r, e) ==
  /\ \E s \in Session :
       /\ RunSession(s, r) /\ e.seq \in 1..seqGen[s]
       /\ \/ /\ e.ev = Timeout /\ e.seq = seqGen[s]
             /\ phase[s] \in {"emit", "close"} \cup Closing
             /\ phase[s] = "emit" => pending[s] = <<e>>
          \/ e.seq <= Len(Visible) /\ e.ev = Visible[e.seq]
  /\ e \in cache[r] \cup dropped[r]

Emitted(r) == {e \in Event : Known(r, e)}

EventsIn(q, K) == \A i \in 1..Len(q) : q[i] \in K
FramesIn(w, K) == \A i \in 1..Len(w) : w[i].kind = "event" => w[i].event \in K

\* What the session has to send, and what it has sent, was emitted.
HandsOn(s) ==
  /\ EventsIn(pending[s], Emitted(runOf[s]))
  /\ FramesIn(queue[s], Emitted(runOf[s])) /\ FramesIn(wire[s], Emitted(runOf[s]))

EventsKnown ==
  /\ \A r \in Run : cache[r] \subseteq Emitted(r) /\ EventsIn(got[r], Emitted(r))
  /\ \A s \in Session : HandsOn(s)

\* C holds one event for each number up to m.
Contiguous(C, m) ==
  /\ \A e \in C : e.seq \in 1..m
  /\ \A k \in 1..m : \E e \in C : e.seq = k
  /\ \A e, f \in C : e.seq = f.seq => e = f

\* The session cached the whole run, if nothing cut it short.
Whole(s) ==
  \/ Overflowed(s)
  \/ \E e \in cache[runOf[s]] : e.ev = Timeout
  \/ seqGen[s] = Len(Visible) /\ Contiguous(cache[runOf[s]], Len(Visible))

Caches(s) ==
  ~resuming[s] /\ phase[s] # "none" =>
    /\ phase[s] \in {"subscribe", "publish", "stream", "emit"} /\ ~stopping
         => Contiguous(cache[runOf[s]], seqGen[s])
    /\ phase[s] \in {"close"} \cup Closing /\ gateway = "first" /\ cursor[s] > 0 => Whole(s)

Cached ==
  /\ \A r \in Run : \E m \in Nat : Contiguous(cache[r], m)
  /\ \A s \in Session : Caches(s)

\* The event frames of w have the numbers lo + 1 to hi, in order.
Carries(w, lo, hi) ==
  /\ lo <= hi
  /\ \A i \in 1..Len(w) : w[i].kind = "event" => w[i].event.seq \in (lo + 1)..hi
  /\ \A k \in (lo + 1)..hi : \E i \in 1..Len(w) : w[i].kind = "event" /\ w[i].event.seq = k
  /\ \A i, j \in 1..Len(w) : i < j /\ w[i].kind = "event" /\ w[j].kind = "event" =>
       w[i].event.seq < w[j].event.seq

Numbered(q, lo) == \A i \in 1..Len(q) : q[i].seq = lo + i

\* From the client back to the dispatcher: nothing is missing on the way.
InFlight(r, s, m1, m2) ==
  /\ Carries(wire[s], Len(got[r]), m1)
  /\ conn[s] => /\ Carries(queue[s], m1, m2)
                /\ ~closed[s] => /\ Numbered(pending[s], m2)
                                 /\ ~resuming[s] => m2 + Len(pending[s]) = seqGen[s]

Flow ==
  \A r \in Run :
    /\ Numbered(got[r], 0)
    /\ \A s \in Session : using[r] = s => \E m1, m2 \in Nat : InFlight(r, s, m1, m2)

\* The cache holds finitely many events, which Replay can sort.
Finite == \A r \in Run : IsFiniteSet(cache[r])

\* No append has failed before the gateway is told to stop.
Undropped == gateway = "first" => \A r \in Run : dropped[r] = {}

\* What holds whatever goes wrong, and what holds without failing appends.
Base == Types /\ Finite /\ Roles /\ Alone /\ Fresh /\ Counting /\ EventsKnown
Inv == Base /\ Undropped /\ Cached /\ Flow

-----------------------------------------------------------------------------
(* Induction and recursion up to n.                                        *)

LEMMA Induction ==
  ASSUME NEW n \in Nat, NEW Good, 0 \in Good,
         \A i \in 1..n : i - 1 \in Good => i \in Good
  PROVE  \A i \in 0..n : i \in Good
  <1> DEFINE Bad == {i \in 0..n : i \notin Good}
  <1> SUFFICES ASSUME Bad # {} PROVE FALSE OBVIOUS
  <1>1. Bad \subseteq Nat OBVIOUS
  <1>2. PICK m \in Bad : \A j \in Nat : j < m => j \notin Bad
    <2>1. IsWellFoundedOn(OpToRel(<, Nat), Nat) BY NatLessThanWellFounded
    <2>2. PICK m \in Bad : \A j \in Nat : <<j, m>> \in OpToRel(<, Nat) => ~(j \in Bad)
      BY <1>1, <2>1, WFMin
    <2>3. \A j \in Nat : j < m => <<j, m>> \in OpToRel(<, Nat) BY <1>1 DEF OpToRel
    <2> QED BY <2>2, <2>3
  <1>3. m \in 0..n /\ m \notin Good OBVIOUS
  <1>4. m # 0 BY <1>3
  <1>5. m \in 1..n /\ m - 1 \in 0..n /\ m - 1 \in Nat /\ m - 1 < m BY <1>3, <1>4
  <1>6. m - 1 \in Good BY <1>2, <1>5
  <1> QED BY <1>3, <1>5, <1>6

\* f is the function that starts with base and goes on with step, up to n.
Follows(f, n, base, step) ==
  f = [i \in 0..n |-> IF i = 0 THEN base ELSE step[i][f[i - 1]]]

LEMMA Recursion ==
  ASSUME NEW R, NEW base \in R, NEW n \in Nat, NEW step \in [1..n -> [R -> R]]
  PROVE  \E f \in [0..n -> R] : Follows(f, n, base, step)
  <1> DEFINE Good == {m \in 0..n : \E f \in [0..m -> R] :
                        \A i \in 0..m : f[i] = IF i = 0 THEN base ELSE step[i][f[i - 1]]}
  <1>1. 0 \in Good
    <2> DEFINE f == [i \in 0..0 |-> base]
    <2>1. f \in [0..0 -> R] /\ \A i \in 0..0 : f[i] = IF i = 0 THEN base ELSE step[i][f[i - 1]]
      OBVIOUS
    <2> HIDE DEF f
    <2>2. 0 \in 0..n OBVIOUS
    <2> QED BY <2>1, <2>2
  <1>2. ASSUME NEW m \in 1..n, m - 1 \in Good PROVE m \in Good
    <2>1. PICK f \in [0..(m - 1) -> R] :
            \A i \in 0..(m - 1) : f[i] = IF i = 0 THEN base ELSE step[i][f[i - 1]]
      BY <1>2
    <2> DEFINE last == step[m][f[m - 1]]
               g == [i \in 0..m |-> IF i = m THEN last ELSE f[i]]
    <2>2. last \in R BY <2>1
    <2> HIDE DEF last
    <2>3. g \in [0..m -> R] BY <2>1, <2>2
    <2>4. \A i \in 0..(m - 1) : g[i] = f[i] /\ (i # 0 => g[i - 1] = f[i - 1]) OBVIOUS
    <2>5. g[m] = last /\ g[m - 1] = f[m - 1] OBVIOUS
    <2> HIDE DEF g
    <2>6. ASSUME NEW i \in 0..m PROVE g[i] = IF i = 0 THEN base ELSE step[i][g[i - 1]]
      <3>1. CASE i = m BY <2>5, <3>1 DEF last
      <3>2. CASE i # m
        <4>1. i \in 0..(m - 1) BY <3>2
        <4> QED BY <2>1, <2>4, <4>1
      <3> QED BY <3>1, <3>2
    <2> QED BY <2>3, <2>6
  <1> HIDE DEF Good
  <1>3. n \in Good
    <2>1. \A i \in 1..n : i - 1 \in Good => i \in Good BY <1>2
    <2>2. \A i \in 0..n : i \in Good BY <1>1, <2>1, Induction
    <2> QED BY <2>2
  <1>4. PICK f \in [0..n -> R] : \A i \in 0..n : f[i] = IF i = 0 THEN base ELSE step[i][f[i - 1]]
    BY <1>3 DEF Good
  <1> QED BY <1>4 DEF Follows

-----------------------------------------------------------------------------
(* Sequences.                                                              *)

LEMMA AppendIs ==
  ASSUME NEW S, NEW s \in Seq(S), NEW x \in S
  PROVE  /\ Append(s, x) \in Seq(S) /\ Len(Append(s, x)) = Len(s) + 1 /\ Len(s) \in Nat
         /\ Append(s, x)[Len(s) + 1] = x
         /\ \A i \in 1..Len(s) : Append(s, x)[i] = s[i]
  OBVIOUS

LEMMA TailIs ==
  ASSUME NEW S, NEW s \in Seq(S), s # << >>
  PROVE  /\ Len(s) \in Nat /\ Len(s) >= 1 /\ Head(s) = s[1] /\ Head(s) \in S
         /\ Tail(s) \in Seq(S) /\ Len(Tail(s)) = Len(s) - 1
         /\ \A i \in 1..(Len(s) - 1) : Tail(s)[i] = s[i + 1]
  OBVIOUS

LEMMA NotEmpty == ASSUME NEW S, NEW s \in Seq(S), Len(s) >= 1 PROVE s # << >>
  OBVIOUS

LEMMA ElementIs ==
  ASSUME NEW S, NEW s \in Seq(S), NEW i \in 1..Len(s)
  PROVE  s[i] \in S
  OBVIOUS

-----------------------------------------------------------------------------
(* The visible events.                                                     *)

LEMMA VisibleUpToIs ==
  /\ VisibleUpTo \in [0..EventCount -> Seq(Nat)]
  /\ VisibleUpTo[0] = << >>
  /\ \A n \in 1..EventCount :
       VisibleUpTo[n] = IF n \in Hidden THEN VisibleUpTo[n - 1] ELSE Append(VisibleUpTo[n - 1], n)
  <1> DEFINE N == EventCount
             R == Seq(Nat)
             Step(i, q) == IF i \in Hidden THEN q ELSE Append(q, i)
             step == [i \in 1..N |-> [q \in R |-> Step(i, q)]]
             Eq(g) == g = [n \in 0..EventCount |->
                             IF n = 0 THEN << >>
                             ELSE IF n \in Hidden THEN g[n - 1] ELSE Append(g[n - 1], n)]
  <1>1. N \in Nat /\ << >> \in R BY AcpAssumption
  <1>2. \A i \in 1..N, q \in R : Step(i, q) \in R OBVIOUS
  <1>3. \E f : Eq(f)
    <2> HIDE DEF Step, R, N
    <2>1. step \in [1..N -> [R -> R]] BY <1>2
    <2>2. \A i \in 1..N : \A q \in R : step[i][q] = Step(i, q) OBVIOUS
    <2> HIDE DEF step
    <2>3. PICK f \in [0..N -> R] : Follows(f, N, << >>, step) BY <1>1, <2>1, Recursion
    <2>4. \A i \in 0..N : f[i] = IF i = 0 THEN << >> ELSE Step(i, f[i - 1])
      <3>1. \A i \in 1..N : f[i - 1] \in R BY <1>1
      <3>2. \A i \in 0..N : f[i] = IF i = 0 THEN << >> ELSE step[i][f[i - 1]] BY <2>3 DEF Follows
      <3>3. \A i \in 0..N : i # 0 => i \in 1..N BY <1>1
      <3> QED BY <2>2, <3>1, <3>2, <3>3
    <2>5. f = [i \in 0..N |-> IF i = 0 THEN << >> ELSE Step(i, f[i - 1])] BY <2>4
    <2> QED BY <2>5 DEF Step, N
  <1>4. VisibleUpTo = CHOOSE g : Eq(g) BY DEF VisibleUpTo
  <1>5. PICK g : g = VisibleUpTo OBVIOUS
  <1>6. Eq(g)
    <2> HIDE DEF Eq
    <2> QED BY <1>3, <1>4, <1>5
  <1>7. \A i \in 0..N : g[i] = IF i = 0 THEN << >> ELSE Step(i, g[i - 1]) BY <1>6
  <1>8. DOMAIN g = 0..N /\ g = [i \in 0..N |-> g[i]] BY <1>6
  <1> HIDE DEF Step, R, N
  <1>9. g \in [0..N -> R]
    <2> DEFINE Good == {i \in 0..N : g[i] \in R}
    <2>1. 0 \in Good BY <1>1, <1>7
    <2>2. ASSUME NEW i \in 1..N, i - 1 \in Good PROVE i \in Good
      <3>1. i \in 0..N /\ i # 0 /\ g[i - 1] \in R BY <1>1, <2>2
      <3>2. g[i] = Step(i, g[i - 1]) BY <1>7, <3>1
      <3> QED BY <1>2, <3>1, <3>2
    <2> HIDE DEF Good
    <2>3. \A i \in 0..N : i \in Good BY <1>1, <2>1, <2>2, Induction
    <2> QED BY <1>8, <2>3 DEF Good
  <1>10. g[0] = << >> /\ \A n \in 1..N : g[n] = Step(n, g[n - 1])
    <2>1. 0 \in 0..N /\ \A n \in 1..N : n \in 0..N /\ n # 0 BY <1>1
    <2> QED BY <1>7, <2>1
  <1> QED BY <1>5, <1>9, <1>10 DEF N, R, Step

\* What is visible up to some event is how Visible begins.
LEMMA VisibleBegins ==
  ASSUME NEW c \in 0..EventCount
  PROVE  /\ Len(VisibleUpTo[c]) \in Nat /\ Len(Visible) \in Nat /\ Len(VisibleUpTo[c]) <= Len(Visible)
         /\ \A k \in 1..Len(VisibleUpTo[c]) : Visible[k] = VisibleUpTo[c][k]
  <1> DEFINE Begins(s, t) == Len(s) <= Len(t) /\ \A k \in 1..Len(s) : t[k] = s[k]
  <1>1. PICK g \in [0..EventCount -> Seq(Nat)] : g = VisibleUpTo BY VisibleUpToIs
  <1>2. EventCount \in Nat BY AcpAssumption
  <1>3. \A n \in 1..EventCount : g[n] = IF n \in Hidden THEN g[n - 1] ELSE Append(g[n - 1], n)
    BY <1>1, VisibleUpToIs
  <1>4. ASSUME NEW n \in 1..EventCount PROVE Begins(g[n - 1], g[n])
    <2>1. PICK s : s = g[n - 1] OBVIOUS
    <2>2. n - 1 \in 0..EventCount BY <1>2
    <2>3. s \in Seq(Nat) BY <2>1, <2>2
    <2>4. CASE n \in Hidden
      <3>1. g[n] = s BY <1>3, <2>1, <2>4
      <3> QED BY <2>1, <2>3, <3>1
    <2>5. CASE n \notin Hidden
      <3>1. g[n] = Append(s, n) BY <1>3, <2>1, <2>5
      <3>2. Len(g[n]) = Len(s) + 1 /\ Len(s) \in Nat /\ \A i \in 1..Len(s) : g[n][i] = s[i]
        BY <2>3, <3>1, AppendIs
      <3> QED BY <2>1, <3>2
    <2> QED BY <2>4, <2>5
  <1>5. \A n \in 0..EventCount : Len(g[n]) \in Nat OBVIOUS
  <1> DEFINE Good == {d \in 0..EventCount : d >= c => Begins(g[c], g[d])}
  <1>6. 0 \in Good
    <2>1. 0 >= c => c = 0 BY <1>2
    <2>2. 0 \in 0..EventCount BY <1>2
    <2> QED BY <1>5, <2>1, <2>2
  <1>7. ASSUME NEW d \in 1..EventCount, d - 1 \in Good PROVE d \in Good
    <2>1. d \in 0..EventCount /\ d - 1 \in 0..EventCount BY <1>2
    <2>2. CASE d = c BY <1>5, <2>1, <2>2
    <2>3. CASE d < c BY <2>1, <2>3
    <2>4. CASE d > c
      <3>1. Begins(g[c], g[d - 1]) /\ Begins(g[d - 1], g[d])
        <4>1. d - 1 >= c BY <2>1, <2>4
        <4>2. Begins(g[c], g[d - 1]) BY <1>7, <4>1
        <4>3. Begins(g[d - 1], g[d]) BY <1>4
        <4> QED BY <4>2, <4>3
      <3>2. PICK x, y, z : x = g[c] /\ y = g[d - 1] /\ z = g[d] OBVIOUS
      <3>3. Len(x) \in Nat /\ Len(y) \in Nat /\ Len(z) \in Nat BY <1>5, <2>1, <3>2
      <3>4. Begins(x, y) /\ Begins(y, z) BY <3>1, <3>2
      <3>5. Begins(x, z) BY <3>3, <3>4
      <3> QED BY <2>1, <3>2, <3>5
    <2> QED BY <2>1, <2>2, <2>3, <2>4
  <1> HIDE DEF Good
  <1>8. \A d \in 0..EventCount : d \in Good BY <1>2, <1>6, <1>7, Induction
  <1>9. EventCount \in 0..EventCount /\ EventCount >= c BY <1>2
  <1>10. Begins(g[c], g[EventCount]) BY <1>8, <1>9 DEF Good
  <1> QED BY <1>1, <1>5, <1>9, <1>10 DEF Visible

\* The event after c gets the next number.
LEMMA NextVisible ==
  ASSUME NEW c \in 0..EventCount, c < EventCount
  PROVE  LET n == Len(VisibleUpTo[c])
         IN  /\ c + 1 \in Hidden => Len(VisibleUpTo[c + 1]) = n
             /\ c + 1 \notin Hidden => /\ Len(VisibleUpTo[c + 1]) = n + 1
                                       /\ n + 1 <= Len(Visible) /\ Visible[n + 1] = c + 1
  <1>1. PICK s : s = VisibleUpTo[c] OBVIOUS
  <1>2. PICK t : t = VisibleUpTo[c + 1] OBVIOUS
  <1>3. EventCount \in Nat /\ c + 1 \in 1..EventCount /\ c + 1 \in 0..EventCount /\ (c + 1) - 1 = c /\ c + 1 \in Nat
    BY AcpAssumption
  <1>4. s \in Seq(Nat) BY <1>1, VisibleUpToIs
  <1>5. t = IF c + 1 \in Hidden THEN s ELSE Append(s, c + 1) BY <1>1, <1>2, <1>3, VisibleUpToIs
  <1>6. /\ Len(t) <= Len(Visible) /\ \A k \in 1..Len(t) : Visible[k] = t[k] BY <1>2, <1>3, VisibleBegins
  <1>7. CASE c + 1 \notin Hidden
    <2>1. Len(t) = Len(s) + 1 /\ Len(s) \in Nat /\ t[Len(s) + 1] = c + 1 BY <1>3, <1>4, <1>5, <1>7, AppendIs
    <2> QED BY <1>1, <1>2, <1>6, <1>7, <2>1
  <1> QED BY <1>1, <1>2, <1>5, <1>7

-----------------------------------------------------------------------------
(* What the frames of a connection carry.                                  *)

LEMMA CarriesNothing ==
  ASSUME NEW w \in Seq(Sound), NoEvents(w), NEW lo \in Nat
  PROVE  Carries(w, lo, lo) /\ \A hi \in Nat : Carries(w, lo, hi) => hi = lo
  <1>1. Carries(w, lo, lo) BY DEF Carries, NoEvents
  <1>2. ASSUME NEW hi \in Nat, Carries(w, lo, hi), hi # lo PROVE FALSE
    <2>1. lo + 1 \in (lo + 1)..hi BY <1>2 DEF Carries
    <2>2. PICK i \in 1..Len(w) : w[i].kind = "event" BY <1>2, <2>1 DEF Carries
    <2> QED BY <2>2 DEF NoEvents
  <1> QED BY <1>1, <1>2

LEMMA CarriesAppend ==
  ASSUME NEW w \in Seq(Sound), NEW f \in Sound, NEW lo \in Nat, NEW hi \in Nat, Carries(w, lo, hi)
  PROVE  /\ f.kind # "event" => Carries(Append(w, f), lo, hi)
         /\ f.kind = "event" /\ f.event.seq = hi + 1 => Carries(Append(w, f), lo, hi + 1)
  <1>1. PICK t : t = Append(w, f) OBVIOUS
  <1>2. PICK n \in Nat : n = Len(w) OBVIOUS
  <1>3. Len(t) = n + 1 /\ t[n + 1] = f /\ \A i \in 1..n : t[i] = w[i] BY <1>1, <1>2, AppendIs
  <1>4. /\ lo <= hi
        /\ \A i \in 1..n : w[i].kind = "event" => w[i].event.seq \in (lo + 1)..hi
        /\ \A k \in (lo + 1)..hi : \E i \in 1..n : w[i].kind = "event" /\ w[i].event.seq = k
        /\ \A i, j \in 1..n : i < j /\ w[i].kind = "event" /\ w[j].kind = "event" =>
             w[i].event.seq < w[j].event.seq
    BY <1>2 DEF Carries
  <1>5. \A i \in 1..Len(t) : i = n + 1 \/ i \in 1..n BY <1>3
  <1>6. \A i \in 1..n : i \in 1..Len(t) BY <1>3
  <1>7. CASE f.kind # "event"
    <2>1. \A i \in 1..Len(t) : t[i].kind = "event" => t[i].event.seq \in (lo + 1)..hi BY <1>3, <1>4, <1>5, <1>7
    <2>2. \A k \in (lo + 1)..hi : \E i \in 1..Len(t) : t[i].kind = "event" /\ t[i].event.seq = k
      BY <1>3, <1>4, <1>6
    <2>3. ASSUME NEW i \in 1..Len(t), NEW j \in 1..Len(t), i < j, t[i].kind = "event", t[j].kind = "event"
          PROVE  t[i].event.seq < t[j].event.seq
      <3>1. i \in 1..n /\ j \in 1..n BY <1>3, <1>5, <1>7, <2>3
      <3> QED BY <1>3, <1>4, <2>3, <3>1
    <2>4. Carries(t, lo, hi) BY <1>4, <2>1, <2>2, <2>3 DEF Carries
    <2> QED BY <1>1, <1>7, <2>4
  <1>8. CASE f.kind = "event" /\ f.event.seq = hi + 1
    <2>1. ASSUME NEW i \in 1..Len(t), t[i].kind = "event" PROVE t[i].event.seq \in (lo + 1)..(hi + 1)
      <3>1. CASE i = n + 1 BY <1>3, <1>4, <1>8, <3>1
      <3>2. CASE i \in 1..n
        <4>1. t[i].event.seq \in (lo + 1)..hi BY <1>3, <1>4, <2>1, <3>2
        <4> QED BY <4>1
      <3> QED BY <1>5, <3>1, <3>2
    <2>2. ASSUME NEW k \in (lo + 1)..(hi + 1)
          PROVE  \E i \in 1..Len(t) : t[i].kind = "event" /\ t[i].event.seq = k
      <3>1. CASE k = hi + 1
        <4>1. n + 1 \in 1..Len(t) BY <1>3
        <4> QED BY <1>3, <1>8, <3>1, <4>1
      <3>2. CASE k # hi + 1
        <4>1. k \in (lo + 1)..hi BY <3>2
        <4> QED BY <1>3, <1>4, <1>6, <4>1
      <3> QED BY <3>1, <3>2
    <2>3. ASSUME NEW i \in 1..Len(t), NEW j \in 1..Len(t), i < j, t[i].kind = "event", t[j].kind = "event"
          PROVE  t[i].event.seq < t[j].event.seq
      <3>1. i \in 1..n BY <1>3, <2>3
      <3>2. t[i].event.seq \in (lo + 1)..hi BY <1>3, <1>4, <2>3, <3>1
      <3>3. CASE j = n + 1 BY <1>3, <1>8, <3>2, <3>3
      <3>4. CASE j \in 1..n BY <1>3, <1>4, <2>3, <3>1, <3>4
      <3> QED BY <1>5, <3>3, <3>4
    <2>4. lo <= hi + 1 BY <1>4
    <2>5. Carries(t, lo, hi + 1) BY <2>1, <2>2, <2>3, <2>4 DEF Carries
    <2> QED BY <1>1, <1>8, <2>5
  <1> QED BY <1>7, <1>8

\* The first frame carries the first number, if it carries any.
LEMMA CarriesTail ==
  ASSUME NEW w \in Seq(Sound), w # << >>, NEW lo \in Nat, NEW hi \in Nat, Carries(w, lo, hi)
  PROVE  /\ Head(w).kind # "event" => Carries(Tail(w), lo, hi)
         /\ Head(w).kind = "event" => Head(w).event.seq = lo + 1 /\ Carries(Tail(w), lo + 1, hi)
  <1>1. PICK t : t = Tail(w) OBVIOUS
  <1>2. PICK n \in Nat : n = Len(w) /\ n >= 1 BY TailIs
  <1>3. PICK f : f = w[1] OBVIOUS
  <1>4. Head(w) = f /\ Len(t) = n - 1 /\ \A i \in 1..(n - 1) : t[i] = w[i + 1] BY <1>1, <1>2, <1>3, TailIs
  <1>5. /\ lo <= hi
        /\ \A i \in 1..n : w[i].kind = "event" => w[i].event.seq \in (lo + 1)..hi
        /\ \A k \in (lo + 1)..hi : \E i \in 1..n : w[i].kind = "event" /\ w[i].event.seq = k
        /\ \A i, j \in 1..n : i < j /\ w[i].kind = "event" /\ w[j].kind = "event" =>
             w[i].event.seq < w[j].event.seq
    BY <1>2 DEF Carries
  <1>6. 1 \in 1..n /\ (\A i \in 1..Len(t) : i \in 1..(n - 1) /\ i + 1 \in 1..n /\ 1 < i + 1) BY <1>2, <1>4
  <1>7. \A i \in 1..n : i # 1 => i - 1 \in 1..Len(t) /\ (i - 1) + 1 = i BY <1>2, <1>4
  <1>8. \A i, j \in 1..Len(t) : i < j /\ t[i].kind = "event" /\ t[j].kind = "event" =>
           t[i].event.seq < t[j].event.seq
    <2> SUFFICES ASSUME NEW i \in 1..Len(t), NEW j \in 1..Len(t), i < j, t[i].kind = "event", t[j].kind = "event"
                 PROVE  t[i].event.seq < t[j].event.seq
      OBVIOUS
    <2>1. i + 1 < j + 1 /\ i + 1 \in 1..n /\ j + 1 \in 1..n BY <1>2, <1>4
    <2>2. t[i] = w[i + 1] /\ t[j] = w[j + 1] BY <1>4, <1>6
    <2> QED BY <1>5, <2>1, <2>2
  <1>9. CASE f.kind # "event"
    <2>1. ASSUME NEW i \in 1..Len(t), t[i].kind = "event" PROVE t[i].event.seq \in (lo + 1)..hi
      <3>1. t[i] = w[i + 1] /\ i + 1 \in 1..n BY <1>4, <1>6
      <3> QED BY <1>5, <2>1, <3>1
    <2>2. ASSUME NEW k \in (lo + 1)..hi PROVE \E i \in 1..Len(t) : t[i].kind = "event" /\ t[i].event.seq = k
      <3>1. PICK i \in 1..n : w[i].kind = "event" /\ w[i].event.seq = k BY <1>5
      <3>2. i # 1 BY <1>3, <1>9, <3>1
      <3>3. t[i - 1] = w[i] BY <1>4, <1>6, <1>7, <3>2
      <3> QED BY <1>7, <3>1, <3>2, <3>3
    <2>3. Carries(t, lo, hi) BY <1>5, <1>8, <2>1, <2>2 DEF Carries
    <2> QED BY <1>1, <1>4, <1>9, <2>3
  <1>10. CASE f.kind = "event"
    <2>1. f.event.seq \in (lo + 1)..hi BY <1>3, <1>5, <1>6, <1>10
    <2>2. PICK i \in 1..n : w[i].kind = "event" /\ w[i].event.seq = lo + 1
      <3>1. lo + 1 \in (lo + 1)..hi BY <2>1
      <3> QED BY <1>5, <3>1
    <2>3. f.event.seq = lo + 1
      <3>1. CASE i = 1 BY <1>3, <2>2, <3>1
      <3>2. CASE i # 1
        <4>1. 1 < i BY <3>2
        <4>2. f.event.seq < lo + 1 BY <1>3, <1>5, <1>6, <1>10, <2>2, <4>1
        <4> QED BY <2>1, <4>2
      <3> QED BY <3>1, <3>2
    <2>4. ASSUME NEW j \in 1..Len(t), t[j].kind = "event" PROVE t[j].event.seq \in ((lo + 1) + 1)..hi
      <3>1. t[j] = w[j + 1] /\ j + 1 \in 1..n /\ 1 < j + 1 BY <1>4, <1>6
      <3>2. w[j + 1].event.seq \in (lo + 1)..hi BY <1>5, <2>4, <3>1
      <3>3. f.event.seq < w[j + 1].event.seq BY <1>3, <1>5, <1>6, <1>10, <2>4, <3>1
      <3> QED BY <2>3, <3>1, <3>2, <3>3
    <2>5. ASSUME NEW k \in ((lo + 1) + 1)..hi PROVE \E j \in 1..Len(t) : t[j].kind = "event" /\ t[j].event.seq = k
      <3>1. k \in (lo + 1)..hi /\ k # lo + 1 OBVIOUS
      <3>2. PICK j \in 1..n : w[j].kind = "event" /\ w[j].event.seq = k BY <1>5, <3>1
      <3>3. j # 1 BY <1>3, <2>3, <3>1, <3>2
      <3>4. t[j - 1] = w[j] BY <1>4, <1>6, <1>7, <3>3
      <3> QED BY <1>7, <3>2, <3>3, <3>4
    <2>6. lo + 1 <= hi BY <2>1
    <2>7. Carries(t, lo + 1, hi) BY <1>8, <2>4, <2>5, <2>6 DEF Carries
    <2> QED BY <1>1, <1>4, <1>10, <2>3, <2>7
  <1> QED BY <1>9, <1>10

-----------------------------------------------------------------------------
(* The replay.                                                             *)

\* q has the events of S by number, as ZRANGEBYSCORE returns them.
Sorted(q, S) ==
  \A i, j \in 1..Cardinality(S) : i < j => q[i] # q[j] /\ q[i].seq <= q[j].seq

\* S has one event for each of the n numbers after lo.
OneEach(S, lo, n) ==
  /\ \A e \in S : e.seq \in (lo + 1)..(lo + n)
  /\ \A k \in (lo + 1)..(lo + n) : \E e \in S : e.seq = k
  /\ \A e, f \in S : e.seq = f.seq => e = f

\* Sorting S gives the n numbers after lo.
SortsAfter(S, lo, n) ==
  /\ Cardinality(S) = n
  /\ \E q \in [1..n -> S] : Sorted(q, S)
  /\ \A q \in [1..n -> S] : Sorted(q, S) => \A i \in 1..n : q[i].seq = lo + i

LEMMA SortedIs ==
  ASSUME NEW S, NEW lo \in Nat, NEW n \in Nat, OneEach(S, lo, n)
  PROVE  SortsAfter(S, lo, n)
  <1>each. /\ \A e \in S : e.seq \in (lo + 1)..(lo + n)
           /\ \A k \in (lo + 1)..(lo + n) : \E e \in S : e.seq = k
           /\ \A e, f \in S : e.seq = f.seq => e = f
    BY DEF OneEach
  <1> DEFINE g == [i \in 1..n |-> CHOOSE e \in S : e.seq = lo + i]
  <1>1. ASSUME NEW i \in 1..n PROVE g[i] \in S /\ g[i].seq = lo + i
    <2>1. lo + i \in (lo + 1)..(lo + n) OBVIOUS
    <2>2. \E e \in S : e.seq = lo + i BY <1>each, <2>1
    <2>3. g[i] = CHOOSE e \in S : e.seq = lo + i OBVIOUS
    <2> QED BY <2>2, <2>3
  <1>2. g \in [1..n -> S] BY <1>1
  <1> HIDE DEF g
  <1>3. Cardinality(S) = n
    <2>1. \A i, j \in 1..n : i # j => g[i] # g[j]
      <3> SUFFICES ASSUME NEW i \in 1..n, NEW j \in 1..n, g[i] = g[j] PROVE i = j OBVIOUS
      <3>1. lo + i = lo + j BY <1>1
      <3> QED BY <3>1
    <2>2. ASSUME NEW e \in S PROVE \E i \in 1..n : g[i] = e
      <3>1. PICK k \in (lo + 1)..(lo + n) : e.seq = k BY <1>each
      <3>2. k - lo \in 1..n /\ lo + (k - lo) = k OBVIOUS
      <3>3. g[k - lo] \in S /\ g[k - lo].seq = k BY <1>1, <3>2
      <3>4. g[k - lo] = e BY <1>each, <3>1, <3>3
      <3> QED BY <3>2, <3>4
    <2>3. g \in Bijection(1..n, S) BY <1>2, <2>1, <2>2 DEF Bijection, Injection, Surjection, IsInjective
    <2>4. ExistsBijection(1..n, S) BY <2>3 DEF ExistsBijection
    <2>5. IsFiniteSet(1..n) /\ Cardinality(1..n) = n
      <3>1. 1 \in Int /\ n \in Int OBVIOUS
      <3>2. IsFiniteSet(1..n) /\ Cardinality(1..n) = IF 1 > n THEN 0 ELSE n - 1 + 1 BY <3>1, FS_Interval
      <3> QED BY <3>2
    <2> QED BY <2>4, <2>5, FS_Bijection
  <1>4. Sorted(g, S)
    <2> SUFFICES ASSUME NEW i \in 1..n, NEW j \in 1..n, i < j PROVE g[i] # g[j] /\ g[i].seq <= g[j].seq
      BY <1>3 DEF Sorted
    <2>1. g[i].seq = lo + i /\ g[j].seq = lo + j BY <1>1
    <2> QED BY <2>1
  <1>5. ASSUME NEW q \in [1..n -> S], Sorted(q, S) PROVE \A i \in 1..n : q[i].seq = lo + i
    <2>1. \A i \in 1..n : q[i] \in S /\ q[i].seq \in (lo + 1)..(lo + n) BY <1>each
    <2>2. \A i, j \in 1..n : i < j => q[i].seq < q[j].seq
      <3> SUFFICES ASSUME NEW i \in 1..n, NEW j \in 1..n, i < j PROVE q[i].seq < q[j].seq OBVIOUS
      <3>1. q[i] # q[j] /\ q[i].seq <= q[j].seq BY <1>3, <1>5 DEF Sorted
      <3>2. q[i].seq # q[j].seq BY <1>each, <2>1, <3>1
      <3> QED BY <2>1, <3>1, <3>2
    <2>3. \A i \in 1..n : q[i].seq >= lo + i
      <3> DEFINE Good == {i \in 0..n : i = 0 \/ q[i].seq >= lo + i}
      <3>1. 0 \in Good OBVIOUS
      <3>2. ASSUME NEW i \in 1..n, i - 1 \in Good PROVE i \in Good
        <4>1. i \in 0..n OBVIOUS
        <4>2. CASE i = 1 BY <2>1, <4>1, <4>2
        <4>3. CASE i # 1
          <5>1. i - 1 \in 1..n /\ i - 1 < i BY <4>3
          <5>2. q[i - 1].seq >= lo + (i - 1) BY <3>2, <5>1
          <5>3. q[i - 1].seq < q[i].seq BY <2>2, <5>1
          <5>4. q[i].seq \in Nat /\ q[i - 1].seq \in Nat BY <2>1, <5>1
          <5>5. q[i].seq >= lo + i BY <5>2, <5>3, <5>4
          <5> QED BY <4>1, <5>5
        <4> QED BY <4>2, <4>3
      <3> HIDE DEF Good
      <3>3. \A i \in 0..n : i \in Good BY <3>1, <3>2, Induction
      <3>4. \A i \in 1..n : i \in 0..n /\ i # 0 OBVIOUS
      <3> QED BY <3>3, <3>4 DEF Good
    <2>4. \A i \in 1..n : q[i].seq <= lo + i
      <3> DEFINE Good == {d \in 0..n : d < n => q[n - d].seq <= lo + (n - d)}
      <3>1. 0 \in Good
        <4>1. 0 < n => n - 0 \in 1..n OBVIOUS
        <4> QED BY <2>1, <4>1
      <3>2. ASSUME NEW d \in 1..n, d - 1 \in Good PROVE d \in Good
        <4> SUFFICES ASSUME d < n PROVE q[n - d].seq <= lo + (n - d) OBVIOUS
        <4>1. PICK i : i = n - d OBVIOUS
        <4>2. i \in 1..n /\ i + 1 \in 1..n /\ i < i + 1 /\ n - (d - 1) = i + 1 /\ d - 1 < n BY <4>1
        <4>3. q[i + 1].seq <= lo + (i + 1) BY <3>2, <4>2
        <4>4. q[i].seq < q[i + 1].seq BY <2>2, <4>2
        <4>5. q[i].seq \in Nat /\ q[i + 1].seq \in Nat BY <2>1, <4>2
        <4>6. q[i].seq <= lo + i BY <4>2, <4>3, <4>4, <4>5
        <4> QED BY <4>1, <4>6
      <3> HIDE DEF Good
      <3>3. \A d \in 0..n : d \in Good BY <3>1, <3>2, Induction
      <3> SUFFICES ASSUME NEW i \in 1..n PROVE q[i].seq <= lo + i OBVIOUS
      <3>4. n - i \in 0..n /\ n - i < n /\ n - (n - i) = i OBVIOUS
      <3> QED BY <3>3, <3>4 DEF Good
    <2> QED BY <2>1, <2>3, <2>4
  <1> QED BY <1>2, <1>3, <1>4, <1>5 DEF SortsAfter

\* Any finite set of events can be sorted.
LEMMA SortExists ==
  ASSUME NEW N \in Nat, NEW T \in SUBSET Event, IsFiniteSet(T), Cardinality(T) = N
  PROVE  \E q \in [1..N -> T] : Sorted(q, T)
  <1> DEFINE Sortable(S) == \E q \in [1..Cardinality(S) -> S] : Sorted(q, S)
             Good == {n \in 0..N : \A S \in SUBSET Event : IsFiniteSet(S) /\ Cardinality(S) = n => Sortable(S)}
  <1>1. 0 \in Good
    <2> SUFFICES ASSUME NEW S \in SUBSET Event, IsFiniteSet(S), Cardinality(S) = 0 PROVE Sortable(S)
      OBVIOUS
    <2>1. PICK q : q = [i \in 1..0 |-> CHOOSE e \in S : TRUE] OBVIOUS
    <2>2. q \in [1..0 -> S] BY <2>1
    <2>3. Sorted(q, S) BY DEF Sorted
    <2> QED BY <2>2, <2>3
  <1>2. ASSUME NEW n \in 1..N, n - 1 \in Good PROVE n \in Good
    <2> SUFFICES ASSUME NEW S \in SUBSET Event, IsFiniteSet(S), Cardinality(S) = n PROVE Sortable(S)
      OBVIOUS
    <2>1. S # {} BY FS_EmptySet
    <2>2. \A e \in S : e.seq \in Nat BY DEF Event
    <2>3. PICK m \in S : \A e \in S : m.seq <= e.seq
      <3> DEFINE Seqs == {e.seq : e \in S}
      <3>1. Seqs # {} /\ Seqs \subseteq Nat BY <2>1, <2>2
      <3>2. IsWellFoundedOn(OpToRel(<, Nat), Nat) BY NatLessThanWellFounded
      <3>3. PICK k \in Seqs : \A j \in Nat : <<j, k>> \in OpToRel(<, Nat) => ~(j \in Seqs)
        BY <3>1, <3>2, WFMin
      <3>4. \A j \in Nat : j < k => <<j, k>> \in OpToRel(<, Nat) BY <3>1 DEF OpToRel
      <3>5. PICK m \in S : m.seq = k OBVIOUS
      <3>6. ASSUME NEW e \in S PROVE m.seq <= e.seq
        <4>1. e.seq \in Seqs /\ e.seq \in Nat /\ k \in Nat BY <2>2, <3>1
        <4>2. ~(e.seq < k) BY <3>3, <3>4, <4>1
        <4> QED BY <3>5, <4>1, <4>2
      <3> QED BY <3>6
    <2>4. PICK R : R = S \ {m} OBVIOUS
    <2>5. IsFiniteSet(R) /\ Cardinality(R) = n - 1
      <3>1. IsFiniteSet(S \ {m}) /\ Cardinality(S \ {m}) = Cardinality(S) - 1 BY FS_RemoveElement
      <3> QED BY <2>4, <3>1
    <2>6. R \in SUBSET Event BY <2>4
    <2>7. PICK q \in [1..(n - 1) -> R] : Sorted(q, R) BY <1>2, <2>5, <2>6
    <2>8. PICK p : p = [i \in 1..n |-> IF i = 1 THEN m ELSE q[i - 1]] OBVIOUS
    <2>9. ASSUME NEW i \in 1..n, i # 1 PROVE i - 1 \in 1..(n - 1) /\ p[i] = q[i - 1] /\ p[i] \in R
      <3>1. i - 1 \in 1..(n - 1) BY <2>9
      <3>2. p[i] = q[i - 1] BY <2>8, <2>9
      <3> QED BY <2>7, <3>1, <3>2
    <2>10. 1 \in 1..n /\ p[1] = m BY <2>8
    <2>11. \A i \in 1..n : p[i] \in S BY <2>4, <2>9, <2>10
    <2>12. p \in [1..n -> S] BY <2>8, <2>11
    <2>13. ASSUME NEW i \in 1..n, NEW j \in 1..n, i < j PROVE p[i] # p[j] /\ p[i].seq <= p[j].seq
      <3>1. j # 1 BY <2>13
      <3>2. p[j] \in R /\ p[j] \in S BY <2>9, <2>11, <3>1
      <3>3. CASE i = 1 BY <2>3, <2>4, <2>10, <3>2, <3>3
      <3>4. CASE i # 1
        <4>1. i - 1 \in 1..(n - 1) /\ j - 1 \in 1..(n - 1) /\ i - 1 < j - 1 BY <2>9, <2>13, <3>1, <3>4
        <4>2. q[i - 1] # q[j - 1] /\ q[i - 1].seq <= q[j - 1].seq BY <2>5, <2>7, <4>1 DEF Sorted
        <4> QED BY <2>9, <3>1, <3>4, <4>2
      <3> QED BY <3>3, <3>4
    <2>14. Sorted(p, S) BY <2>13 DEF Sorted
    <2> QED BY <2>12, <2>14
  <1> HIDE DEF Good
  <1>3. \A n \in 0..N : n \in Good BY <1>1, <1>2, Induction
  <1>4. N \in Good BY <1>3
  <1> QED BY <1>4 DEF Good

\* The replay is a sequence of cached events.
LEMMA ReplayTypes ==
  ASSUME NEW r \in Run, cache[r] \subseteq Event, IsFiniteSet(cache[r])
  PROVE  Replay(r) \in Seq(Event) /\ \A i \in 1..Len(Replay(r)) : Replay(r)[i] \in cache[r]
  <1>1. PICK S : S = {e \in cache[r] : e.seq > LastSeq(r)} OBVIOUS
  <1>2. S \subseteq cache[r] /\ S \in SUBSET Event BY <1>1
  <1>3. IsFiniteSet(S) BY <1>2, FS_Subset
  <1>4. PICK n \in Nat : n = Cardinality(S) BY <1>3, FS_CardinalityType
  <1>5. \E q \in [1..n -> S] : Sorted(q, S) BY <1>2, <1>3, <1>4, SortExists
  <1>6. PICK q : q = CHOOSE p \in [1..Cardinality(S) -> S] : Sorted(p, S) OBVIOUS
  <1>7. q = Replay(r) BY <1>1, <1>6 DEF Replay, Sorted
  <1>8. q \in [1..n -> S] BY <1>4, <1>5, <1>6
  <1>9. q \in [1..n -> Event] /\ \A i \in 1..n : q[i] \in cache[r] BY <1>2, <1>8
  <1>10. q \in Seq(Event) /\ Len(q) = n BY <1>9
  <1> QED BY <1>7, <1>9, <1>10

\* A resumed client is sent the cached events after its last one.
LEMMA ReplayIs ==
  ASSUME NEW r \in Run, cache[r] \subseteq Event, NEW m \in Nat, Contiguous(cache[r], m), NEW lo \in Nat, LastSeq(r) = lo
  PROVE  /\ Replay(r) \in Seq(Event) /\ Numbered(Replay(r), lo)
         /\ \A i \in 1..Len(Replay(r)) : Replay(r)[i] \in cache[r]
  <1>1. PICK S : S = {e \in cache[r] : e.seq > lo} OBVIOUS
  <1>2. PICK n \in Nat : n = IF lo < m THEN m - lo ELSE 0 OBVIOUS
  <1>3. \A e \in cache[r] : e.seq \in 1..m BY DEF Contiguous
  <1>4. \A e \in S : e.seq \in (lo + 1)..(lo + n)
    <2> SUFFICES ASSUME NEW e \in S PROVE e.seq \in (lo + 1)..(lo + n) OBVIOUS
    <2>1. e.seq \in 1..m /\ e.seq > lo BY <1>1, <1>3
    <2> QED BY <1>2, <2>1
  <1>5. \A k \in (lo + 1)..(lo + n) : \E e \in S : e.seq = k
    <2> SUFFICES ASSUME NEW k \in (lo + 1)..(lo + n) PROVE \E e \in S : e.seq = k OBVIOUS
    <2>1. k \in 1..m /\ k > lo BY <1>2
    <2>2. PICK e \in cache[r] : e.seq = k BY <2>1 DEF Contiguous
    <2> QED BY <1>1, <2>1, <2>2
  <1>6. \A e, f \in S : e.seq = f.seq => e = f BY <1>1 DEF Contiguous
  <1>7. /\ Cardinality(S) = n
        /\ \E q \in [1..n -> S] : Sorted(q, S)
        /\ \A q \in [1..n -> S] : Sorted(q, S) => \A i \in 1..n : q[i].seq = lo + i
    <2>1. OneEach(S, lo, n) BY <1>4, <1>5, <1>6 DEF OneEach
    <2>2. SortsAfter(S, lo, n) BY <2>1, SortedIs
    <2> QED BY <2>2 DEF SortsAfter
  <1>8. PICK q : q = CHOOSE p \in [1..Cardinality(S) -> S] : Sorted(p, S) OBVIOUS
  <1>9. q = Replay(r) BY <1>1, <1>8 DEF Replay, Sorted
  <1>10. q \in [1..n -> S] /\ Sorted(q, S) BY <1>7, <1>8
  <1>11. \A i \in 1..n : q[i].seq = lo + i BY <1>7, <1>10
  <1>12. S \subseteq Event /\ S \subseteq cache[r] BY <1>1
  <1>13. q \in Seq(S) /\ Len(q) = n BY <1>10
  <1>14. q \in Seq(Event)
    <2>1. q \in [1..n -> Event] BY <1>10, <1>12
    <2> QED BY <2>1
  <1>15. \A i \in 1..n : q[i] \in cache[r] BY <1>10, <1>12
  <1> QED BY <1>9, <1>11, <1>13, <1>14, <1>15 DEF Numbered

-----------------------------------------------------------------------------
(* What the steps of a session do to it.                                   *)

\* Nothing happens to session t.
Same(t) ==
  /\ phase'[t] = phase[t] /\ seqGen'[t] = seqGen[t] /\ cursor'[t] = cursor[t] /\ pending'[t] = pending[t]
  /\ closed'[t] = closed[t] /\ queue'[t] = queue[t] /\ conn'[t] = conn[t]
  /\ queueOpen'[t] = queueOpen[t] /\ writer'[t] = writer[t] /\ wire'[t] = wire[t] /\ inbound'[t] = inbound[t]

Quiet(s) == closed'[s] = closed[s] /\ queue'[s] = queue[s] /\ conn'[s] = conn[s]

Sends(s, f) ==
  \/ closed[s] /\ Quiet(s)
  \/ ~closed[s] /\ ~closed'[s] /\ queue'[s] = Append(queue[s], f) /\ conn'[s] = conn[s]
  \/ ~closed[s] /\ closed'[s] /\ queue'[s] = queue[s] /\ ~conn'[s]

Keeps(s) ==
  /\ queueOpen'[s] = queueOpen[s] /\ writer'[s] = writer[s] /\ wire'[s] = wire[s]
  /\ inbound'[s] = inbound[s] \/ (inbound'[s] = "none" /\ phase[s] = "loop")

Counters(s) == seqGen'[s] = seqGen[s] /\ cursor'[s] = cursor[s] /\ pending'[s] = pending[s]

\* Handshake, answers to frames, errors and the CLOSE.
Talks(s) ==
  /\ Counters(s) /\ Keeps(s) /\ UNCHANGED <<cache, dropped, published>>
  /\ Quiet(s) \/ \E kind \in {"ack", "pong", "error", "close"} : Sends(s, Control(kind))
  /\ \/ phase[s] = "hello" /\ phase'[s] \in {"loop", "finish"}
     \/ phase[s] = "loop" /\ phase'[s] \in {"loop", "finish"}
     \/ phase[s] \in {"subscribe", "publish"} /\ phase'[s] = "failed"
     \/ phase[s] = "failed" /\ phase'[s] = "close"
     \/ phase[s] = "stream" /\ phase'[s] = "close" /\ stopping
     \/ phase[s] = "close" /\ phase'[s] = "finish"
     \/ phase[s] = "replay" /\ phase'[s] = "finish" /\ pending[s] = << >>

Accepts(s) ==
  /\ Counters(s) /\ Keeps(s) /\ Quiet(s) /\ UNCHANGED <<cache, dropped, published>>
  /\ phase[s] = "loop" /\ phase'[s] = "subscribe" /\ inbound[s] = "request" /\ ~resuming[s]

Subscribes(s) ==
  /\ seqGen'[s] = seqGen[s] /\ pending'[s] = pending[s] /\ cursor'[s] = produced[runOf[s]]
  /\ Keeps(s) /\ Quiet(s) /\ UNCHANGED <<cache, dropped, published>>
  /\ phase[s] = "subscribe" /\ phase'[s] = "publish"

Publishes(s) ==
  /\ Counters(s) /\ Keeps(s) /\ Quiet(s) /\ UNCHANGED <<cache, dropped>>
  /\ published' = published \cup {runOf[s]}
  /\ phase[s] = "publish" /\ phase'[s] = "stream"

Skips(s) ==
  /\ seqGen'[s] = seqGen[s] /\ pending'[s] = pending[s] /\ cursor'[s] = cursor[s] + 1
  /\ cursor[s] < EventCount /\ cursor[s] + 1 \in Hidden
  /\ Keeps(s) /\ Quiet(s) /\ UNCHANGED <<cache, dropped, published>>
  /\ phase[s] = "stream" /\ phase'[s] = "stream"

Refused(s) ==
  /\ seqGen'[s] = seqGen[s] /\ pending'[s] = pending[s] /\ closed[s]
  /\ cursor'[s] \in {cursor[s], cursor[s] + 1} /\ cursor'[s] <= EventCount
  /\ Keeps(s) /\ Quiet(s) /\ UNCHANGED <<cache, dropped, published>>
  /\ phase[s] = "stream" /\ phase'[s] = "close"

Emits(s, ev) ==
  /\ seqGen'[s] = seqGen[s] + 1
  /\ pending'[s] = <<[seq |-> seqGen[s] + 1, ev |-> ev]>>
  /\ \/ ev = Timeout /\ cursor'[s] = cursor[s]
     \/ /\ cursor[s] < EventCount /\ cursor[s] + 1 \notin Hidden
        /\ ev = cursor[s] + 1 /\ cursor'[s] = cursor[s] + 1
  /\ \A r \in Run : r # runOf[s] => cache'[r] = cache[r] /\ dropped'[r] = dropped[r]
  /\ \/ /\ cache'[runOf[s]] = cache[runOf[s]] \cup {[seq |-> seqGen[s] + 1, ev |-> ev]}
        /\ dropped'[runOf[s]] = dropped[runOf[s]] /\ ~stopping
     \/ /\ dropped'[runOf[s]] = dropped[runOf[s]] \cup {[seq |-> seqGen[s] + 1, ev |-> ev]}
        /\ cache'[runOf[s]] = cache[runOf[s]] /\ (stopping \/ "cache" \in Faults)
  /\ ~closed[s] /\ Keeps(s) /\ Quiet(s) /\ UNCHANGED published
  /\ phase[s] = "stream" /\ phase'[s] = "emit"

Delivers(s) ==
  /\ seqGen'[s] = seqGen[s] /\ cursor'[s] = cursor[s] /\ pending'[s] = << >>
  /\ Keeps(s) /\ UNCHANGED <<cache, dropped, published>>
  /\ Sends(s, EventFrame(Head(pending[s]), Terminal(Head(pending[s]).ev)))
  /\ phase[s] = "emit"
  /\ phase'[s] = IF Terminal(Head(pending[s]).ev) THEN "close" ELSE "stream"

Resumes(s) ==
  /\ seqGen'[s] = seqGen[s] /\ cursor'[s] = cursor[s] /\ pending'[s] = Replay(runOf[s])
  /\ Keeps(s) /\ Quiet(s) /\ UNCHANGED <<cache, dropped, published>>
  /\ phase[s] = "loop" /\ phase'[s] = "replay" /\ resuming[s]

Replays(s) ==
  /\ cursor'[s] = cursor[s] /\ pending[s] # << >> /\ pending'[s] = Tail(pending[s])
  /\ seqGen'[s] = IF Head(pending[s]).seq > seqGen[s] THEN Head(pending[s]).seq ELSE seqGen[s]
  /\ Keeps(s) /\ UNCHANGED <<cache, dropped, published>>
  /\ Sends(s, EventFrame(Head(pending[s]), FALSE))
  /\ phase[s] = "replay" /\ phase'[s] = "replay"

Finishes(s) ==
  /\ Counters(s) /\ UNCHANGED <<cache, dropped, published>>
  /\ closed'[s] = TRUE /\ queueOpen'[s] = (queueOpen[s] /\ closed[s])
  /\ queue'[s] = queue[s] /\ conn'[s] = conn[s] /\ writer'[s] = writer[s] /\ wire'[s] = wire[s] /\ inbound'[s] = inbound[s]
  /\ phase[s] = "finish" /\ phase'[s] = "await"

Ends(s) ==
  /\ Counters(s) /\ Keeps(s) /\ UNCHANGED <<cache, dropped, published>>
  /\ closed'[s] = closed[s] /\ queue'[s] = queue[s] /\ conn'[s] = FALSE
  /\ phase[s] = "await" /\ phase'[s] = "ended"

Serves(s) ==
  \/ Talks(s) \/ Accepts(s) \/ Subscribes(s) \/ Publishes(s) \/ Skips(s) \/ Refused(s)
  \/ Emits(s, Timeout) \/ Emits(s, cursor[s] + 1)
  \/ Delivers(s) \/ Resumes(s) \/ Replays(s) \/ Finishes(s) \/ Ends(s)

\* Everything but the sessions, the cache and the published tasks.
Outside == UNCHANGED <<client, using, got, runOf, resuming, produced, gateway>>

LEMMA SendIs ==
  ASSUME Types, NEW s \in Session, NEW f \in Sound, Send(s, f)
  PROVE  /\ closed' \in [Session -> BOOLEAN] /\ conn' \in [Session -> BOOLEAN]
         /\ queue' \in [Session -> Seq(Sound)]
         /\ Sends(s, f)
         /\ \A t \in Session : t # s => closed'[t] = closed[t] /\ queue'[t] = queue[t] /\ conn'[t] = conn[t]
  <1>1. /\ closed \in [Session -> BOOLEAN] /\ conn \in [Session -> BOOLEAN]
        /\ queue \in [Session -> Seq(Sound)]
    BY DEF Types
  <1>2. CASE closed[s] /\ UNCHANGED sendVars BY <1>1, <1>2 DEF sendVars, Sends, Quiet
  <1>3. CASE /\ ~closed[s]
             /\ queue' = [queue EXCEPT ![s] = Append(@, f)]
             /\ UNCHANGED <<closed, conn>>
    <2>1. Append(queue[s], f) \in Seq(Sound) BY <1>1, AppendIs
    <2> QED BY <1>1, <1>3, <2>1 DEF Sends, Quiet
  <1>4. CASE /\ ~closed[s]
             /\ closed' = [closed EXCEPT ![s] = TRUE]
             /\ conn' = [conn EXCEPT ![s] = FALSE]
             /\ UNCHANGED queue
    BY <1>1, <1>4 DEF Sends, Quiet
  <1> QED BY <1>2, <1>3, <1>4 DEF Send

LEMMA FrameIs ==
  /\ \A kind \in {"ack", "pong", "error", "close"} :
       Control(kind) \in Sound /\ Control(kind).kind = kind /\ Control(kind).last = (kind \in {"error", "close"})
  /\ \A e \in Event, last \in BOOLEAN :
       EventFrame(e, last) \in Sound /\ EventFrame(e, last).kind = "event" /\ EventFrame(e, last).event = e
  <1>1. NoEvent \in Event BY AcpAssumption DEF NoEvent, Event
  <1> HIDE DEF Event, NoEvent
  <1>2. \A kind \in {"ack", "pong", "error", "close"} :
          Control(kind) \in Frame /\ Control(kind).kind = kind /\ Control(kind).last = (kind \in {"error", "close"})
    BY <1>1 DEF Control, Frame
  <1>3. \A e \in Event, last \in BOOLEAN :
          EventFrame(e, last) \in Frame /\ EventFrame(e, last).kind = "event" /\ EventFrame(e, last).event = e
    BY DEF EventFrame, Frame
  <1> HIDE DEF Frame
  <1>4. \A kind \in {"ack", "pong", "error", "close"} : Control(kind) \in Sound BY <1>2 DEF Sound
  <1>5. \A e \in Event, last \in BOOLEAN : EventFrame(e, last) \in Sound BY <1>3 DEF Sound
  <1> QED BY <1>2, <1>3, <1>4, <1>5

LEMMA ServeDoes ==
  ASSUME Types, Counting, NEW s \in Session, ServeStep(s)
  PROVE  Serves(s) /\ Outside /\ \A t \in Session : t # s => Same(t)
  <1> DEFINE Done(C) == C /\ Outside /\ \A t \in Session : t # s => Same(t)
  <1>1. /\ phase \in [Session -> Phase] /\ inbound \in [Session -> {"none", "ping", "request", "bad"}]
        /\ closed \in [Session -> BOOLEAN] /\ queueOpen \in [Session -> BOOLEAN] /\ conn \in [Session -> BOOLEAN]
        /\ queue \in [Session -> Seq(Sound)] /\ wire \in [Session -> Seq(Sound)]
        /\ writer \in [Session -> {"loop", "drain", "done"}]
        /\ seqGen \in [Session -> Nat] /\ cursor \in [Session -> 0..EventCount]
        /\ pending \in [Session -> Seq(Event)]
        /\ cache \in [Run -> SUBSET Event] /\ dropped \in [Run -> SUBSET Event]
        /\ produced \in [Run -> 0..EventCount] /\ runOf \in [Session -> Run]
    BY DEF Types
  <1>2. EventCount \in Nat /\ cursor[s] \in 0..EventCount /\ produced[runOf[s]] \in 0..EventCount
    BY <1>1, AcpAssumption
  <1> USE DEF Goto, sendVars, outVars, clientVars, envVars, serveVars, Same, Outside, Keeps, Counters, Quiet
  <1>3. CASE Hello(s)
    <2>1. Control("ack") \in Sound BY FrameIs
    <2>2. /\ Sends(s, Control("ack"))
          /\ \A t \in Session : t # s => closed'[t] = closed[t] /\ queue'[t] = queue[t] /\ conn'[t] = conn[t]
      BY <1>3, <2>1, SendIs DEF Hello
    <2>3. Done(Talks(s)) BY <1>1, <1>3, <2>2 DEF Hello, Talks
    <2> QED BY <2>3 DEF Serves
  <1>4. CASE HelloFails(s)
    <2>1. Done(Talks(s)) BY <1>1, <1>2, <1>4 DEF HelloFails, Talks
    <2> QED BY <2>1 DEF Serves
  <1>5. CASE ReadPing(s)
    <2>1. Control("pong") \in Sound BY FrameIs
    <2>2. /\ Sends(s, Control("pong"))
          /\ \A t \in Session : t # s => closed'[t] = closed[t] /\ queue'[t] = queue[t] /\ conn'[t] = conn[t]
      BY <1>5, <2>1, SendIs DEF ReadPing
    <2>3. Done(Talks(s)) BY <1>1, <1>5, <2>2 DEF ReadPing, Talks
    <2> QED BY <2>3 DEF Serves
  <1>6. CASE ReadBad(s)
    <2>1. Control("error") \in Sound BY FrameIs
    <2>2. /\ Sends(s, Control("error"))
          /\ \A t \in Session : t # s => closed'[t] = closed[t] /\ queue'[t] = queue[t] /\ conn'[t] = conn[t]
      BY <1>6, <2>1, SendIs DEF ReadBad
    <2>3. Done(Talks(s)) BY <1>1, <1>6, <2>2 DEF ReadBad, Talks
    <2> QED BY <2>3 DEF Serves
  <1>7. CASE ReadEnd(s)
    <2>1. Done(Talks(s)) BY <1>1, <1>2, <1>7 DEF ReadEnd, Talks
    <2> QED BY <2>1 DEF Serves
  <1>8. CASE ReadRun(s)
    <2>1. Done(Accepts(s)) BY <1>1, <1>2, <1>8 DEF ReadRun, Accepts
    <2> QED BY <2>1 DEF Serves
  <1>9. CASE Subscribe(s)
    <2>1. Done(Subscribes(s)) BY <1>1, <1>2, <1>9 DEF Subscribe, Subscribes
    <2> QED BY <2>1 DEF Serves
  <1>10. CASE PublishTask(s)
    <2>1. Done(Publishes(s)) BY <1>1, <1>2, <1>10 DEF PublishTask, Publishes
    <2> QED BY <2>1 DEF Serves
  <1>11. CASE DispatchFails(s)
    <2>1. Done(Talks(s)) BY <1>1, <1>2, <1>11 DEF DispatchFails, Talks
    <2> QED BY <2>1 DEF Serves
  <1>12. CASE SendInternalError(s)
    <2>1. Control("error") \in Sound BY FrameIs
    <2>2. /\ Sends(s, Control("error"))
          /\ \A t \in Session : t # s => closed'[t] = closed[t] /\ queue'[t] = queue[t] /\ conn'[t] = conn[t]
      BY <1>12, <2>1, SendIs DEF SendInternalError
    <2>3. Done(Talks(s)) BY <1>1, <1>12, <2>2 DEF SendInternalError, Talks
    <2> QED BY <2>3 DEF Serves
  <1>13. CASE SkipHidden(s)
    <2>1. Done(Skips(s)) BY <1>1, <1>2, <1>13 DEF SkipHidden, Skips, HasEvent
    <2> QED BY <2>1 DEF Serves
  <1>14. CASE EmitRefused(s)
    <2>1. Done(Refused(s)) BY <1>1, <1>2, <1>14 DEF EmitRefused, Refused, HasEvent
    <2> QED BY <2>1 DEF Serves
  <1>15. CASE BusClosed(s)
    <2>1. Done(Talks(s)) BY <1>1, <1>2, <1>15 DEF BusClosed, Talks
    <2> QED BY <2>1 DEF Serves
  <1>16. CASE ReadResume(s)
    <2>1. Done(Resumes(s)) BY <1>1, <1>2, <1>16 DEF ReadResume, Resumes
    <2> QED BY <2>1 DEF Serves
  <1>17. CASE ResumeFails(s)
    <2>1. Control("error") \in Sound BY FrameIs
    <2>2. /\ Sends(s, Control("error"))
          /\ \A t \in Session : t # s => closed'[t] = closed[t] /\ queue'[t] = queue[t] /\ conn'[t] = conn[t]
      BY <1>17, <2>1, SendIs DEF ResumeFails
    <2>3. Done(Talks(s)) BY <1>1, <1>17, <2>2 DEF ResumeFails, Talks
    <2> QED BY <2>3 DEF Serves
  <1>18. CASE SendClose(s)
    <2>1. Control("close") \in Sound BY FrameIs
    <2>2. /\ Sends(s, Control("close"))
          /\ \A t \in Session : t # s => closed'[t] = closed[t] /\ queue'[t] = queue[t] /\ conn'[t] = conn[t]
      BY <1>18, <2>1, SendIs DEF SendClose
    <2>3. Done(Talks(s)) BY <1>1, <1>18, <2>2 DEF SendClose, Talks
    <2> QED BY <2>3 DEF Serves
  <1>19. CASE Finish(s)
    <2>1. Done(Finishes(s)) BY <1>1, <1>2, <1>19 DEF Finish, Finishes
    <2> QED BY <2>1 DEF Serves
  <1>20. CASE End(s)
    <2>1. Done(Ends(s)) BY <1>1, <1>2, <1>20 DEF End, Ends
    <2> QED BY <2>1 DEF Serves
  <1>21. CASE EmitNext(s)
    <2>1. Done(Emits(s, cursor[s] + 1)) BY <1>1, <1>2, <1>21 DEF EmitNext, EmitCache, Emits, HasEvent
    <2> QED BY <2>1 DEF Serves
  <1>22. CASE EmitTimeout(s)
    <2>1. CASE closed[s]
      <3>1. Done(Refused(s)) BY <1>1, <1>2, <1>22, <2>1 DEF EmitTimeout, Refused
      <3> QED BY <3>1 DEF Serves
    <2>2. CASE ~closed[s]
      <3>1. Done(Emits(s, Timeout)) BY <1>1, <1>2, <1>22, <2>2 DEF EmitTimeout, EmitCache, Emits
      <3> QED BY <3>1 DEF Serves
    <2> QED BY <2>1, <2>2
  <1>23. CASE EmitSend(s)
    <2> DEFINE f == EventFrame(Head(pending[s]), Terminal(Head(pending[s]).ev))
    <2>1. Send(s, f) BY <1>23 DEF EmitSend
    <2>2. f \in Sound
      <3>1. Len(pending[s]) = 1 BY <1>23 DEF Counting, Counts, EmitSend
      <3>2. pending[s] \in Seq(Event) /\ pending[s] # << >>
        <4>1. pending[s] \in Seq(Event) BY <1>1
        <4> QED BY <3>1, <4>1, NotEmpty
      <3>3. Head(pending[s]) \in Event BY <3>2, TailIs
      <3>4. Terminal(Head(pending[s]).ev) \in BOOLEAN BY DEF Terminal
      <3> QED BY <3>3, <3>4, FrameIs
    <2>3. /\ Sends(s, f)
          /\ \A t \in Session : t # s => closed'[t] = closed[t] /\ queue'[t] = queue[t] /\ conn'[t] = conn[t]
      BY <2>1, <2>2, SendIs
    <2> HIDE DEF f
    <2>4. Done(Delivers(s)) BY <1>1, <1>23, <2>3 DEF EmitSend, Delivers, f
    <2> QED BY <2>4 DEF Serves
  <1>24. CASE ReplaySend(s)
    <2> DEFINE f == EventFrame(Head(pending[s]), FALSE)
    <2>1. Send(s, f) /\ pending[s] # << >> BY <1>24 DEF ReplaySend
    <2>2. f \in Sound
      <3>1. Head(pending[s]) \in Event BY <1>1, <2>1, TailIs
      <3> QED BY <3>1, FrameIs
    <2>3. /\ Sends(s, f)
          /\ \A t \in Session : t # s => closed'[t] = closed[t] /\ queue'[t] = queue[t] /\ conn'[t] = conn[t]
      BY <2>1, <2>2, SendIs
    <2> HIDE DEF f
    <2>4. Done(Replays(s)) BY <1>1, <1>24, <2>1, <2>3 DEF ReplaySend, Replays, f
    <2> QED BY <2>4 DEF Serves
  <1> QED BY <1>3, <1>4, <1>5, <1>6, <1>7, <1>8, <1>9, <1>10, <1>11, <1>12, <1>13, <1>14, <1>15, <1>16, <1>17, <1>18, <1>19, <1>20, <1>21, <1>22, <1>23, <1>24 DEF ServeStep

-----------------------------------------------------------------------------
(* The same for the writer, the client and the gateway.                    *)

\* Of session s only what comes in and goes out over the connection changes.
ServesOn(s) ==
  /\ phase'[s] = phase[s] /\ seqGen'[s] = seqGen[s] /\ cursor'[s] = cursor[s] /\ pending'[s] = pending[s]
  /\ closed'[s] = closed[s] /\ queueOpen'[s] = queueOpen[s]

Writes(s) ==
  /\ ServesOn(s) /\ inbound'[s] = inbound[s] /\ conn'[s] = conn[s] /\ writer'[s] = writer[s]
  /\ conn[s] /\ queue[s] # << >> /\ queue'[s] = Tail(queue[s])
  /\ wire'[s] = IF Attached(s) THEN Append(wire[s], Head(queue[s])) ELSE wire[s]

Drops(s) ==
  /\ ServesOn(s) /\ inbound'[s] = inbound[s] /\ ~conn'[s] /\ writer'[s] = "drain" /\ wire'[s] = wire[s]
  /\ queue[s] # << >> /\ queue'[s] = Tail(queue[s])

Exits(s) ==
  /\ ServesOn(s) /\ inbound'[s] = inbound[s] /\ conn'[s] = conn[s] /\ wire'[s] = wire[s]
  /\ writer'[s] = "done" /\ ~queueOpen[s] /\ queue'[s] = queue[s]

LEMMA WriterDoes ==
  ASSUME Types, Roles, NEW s \in Session, WriterStep(s)
  PROVE  /\ Writes(s) \/ Drops(s) \/ Exits(s)
         /\ Outside /\ UNCHANGED <<cache, dropped, published>> /\ \A t \in Session : t # s => Same(t)
  <1> DEFINE Done(C) == C /\ Outside /\ UNCHANGED <<cache, dropped, published>> /\ \A t \in Session : t # s => Same(t)
  <1>1. /\ closed \in [Session -> BOOLEAN] /\ queueOpen \in [Session -> BOOLEAN] /\ conn \in [Session -> BOOLEAN]
        /\ queue \in [Session -> Seq(Sound)] /\ wire \in [Session -> Seq(Sound)]
        /\ writer \in [Session -> {"loop", "drain", "done"}]
    BY DEF Types
  <1> USE DEF sendVars, outVars, clientVars, envVars, serveVars, Same, Outside, ServesOn
  <1>2. CASE Write(s)
    <2>1. Done(Writes(s)) BY <1>1, <1>2 DEF Write, Writes
    <2> QED BY <2>1
  <1>3. CASE WriteFails(s)
    <2>1. Done(Drops(s)) BY <1>1, <1>3 DEF WriteFails, Drops
    <2> QED BY <2>1
  <1>4. CASE Drain(s)
    <2>1. writer[s] = "drain" => ~conn[s] BY DEF Roles, Role
    <2>2. Done(Drops(s)) BY <1>1, <1>4, <2>1 DEF Drain, Drops
    <2> QED BY <2>2
  <1>5. CASE WriterExit(s)
    <2>1. Done(Exits(s)) BY <1>1, <1>5 DEF WriterExit, Exits
    <2> QED BY <2>1
  <1> QED BY <1>2, <1>3, <1>4, <1>5 DEF WriterStep

OtherRuns(r) ==
  \A q \in Run : q # r => client'[q] = client[q] /\ using'[q] = using[q] /\ got'[q] = got[q]

\* What the client of r does leaves the server alone.
ClientOnly(r, s) ==
  /\ UNCHANGED <<runOf, resuming, produced, gateway, cache, dropped, published>> /\ OtherRuns(r)
  /\ s = using[r] /\ s \in Session
  /\ \A t \in Session : t # s => Same(t)
  /\ ServesOn(s) /\ queue'[s] = queue[s] /\ conn'[s] = conn[s] /\ writer'[s] = writer[s]

Left(r) == using'[r] = NoSession

ReadsControl(r, s) ==
  /\ wire[s] # << >> /\ wire'[s] = Tail(wire[s]) /\ Head(wire[s]).kind # "event"
  /\ got'[r] = got[r] /\ using'[r] = using[r] /\ client'[r] = "live"
  /\ inbound'[s] \in {"ping", "request", "bad"}

ReadsEvent(r, s) ==
  /\ wire[s] # << >> /\ Head(wire[s]).kind = "event"
  /\ got'[r] = Append(got[r], Head(wire[s]).event) /\ inbound'[s] = inbound[s]
  /\ \/ wire'[s] = Tail(wire[s]) /\ using'[r] = using[r] /\ client'[r] = client[r]
     \/ wire'[s] = << >> /\ Left(r) /\ client'[r] = "done"

Leaves(r, s) ==
  /\ Left(r) /\ got'[r] = got[r]
  /\ wire'[s] \in {<< >>, wire[s]} \/ (wire[s] # << >> /\ wire'[s] = Tail(wire[s]))
  /\ inbound'[s] \in {"none", inbound[s]}
  /\ client'[r] \in {"lost", "done"} \/ (client'[r] = "new" /\ client[r] = "dialled" /\ ~resuming[s])

LEMMA ClientDoes ==
  ASSUME Types, EventsKnown, NEW r \in Run, ClientRead(r) \/ ClientLost(r) \/ Break(r)
  PROVE  \E s \in Session : ClientOnly(r, s) /\ (ReadsControl(r, s) \/ ReadsEvent(r, s) \/ Leaves(r, s))
  <1>1. /\ wire \in [Session -> Seq(Sound)] /\ inbound \in [Session -> {"none", "ping", "request", "bad"}]
        /\ client \in [Run -> {"new", "dialled", "live", "lost", "done"}]
        /\ using \in [Run -> Session \cup {NoSession}] /\ got \in [Run -> Seq(Event)]
    BY DEF Types
  <1>2. PICK s \in Session : s = using[r] BY <1>1 DEF ClientRead, ClientLost, Break
  <1> USE DEF sendVars, outVars, clientVars, envVars, serveVars, Same, ServesOn, OtherRuns, Detach, Left
  <1>3. ClientOnly(r, s)
    <2>1. CASE ClientRead(r)
      <3>1. /\ OtherRuns(r) /\ \A t \in Session : t # s => inbound'[t] = inbound[t]
        BY <1>1, <1>2, <2>1 DEF ClientRead
      <3>2. \A t \in Session : t # s => wire'[t] = wire[t] BY <1>1, <1>2, <2>1 DEF ClientRead
      <3> QED BY <1>2, <2>1, <3>1, <3>2 DEF ClientRead, ClientOnly
    <2>2. CASE ClientLost(r) BY <1>1, <1>2, <2>2 DEF ClientLost, ClientOnly
    <2>3. CASE Break(r) BY <1>1, <1>2, <2>3 DEF Break, ClientOnly
    <2> QED BY <2>1, <2>2, <2>3
  <1>4. CASE ClientRead(r)
    <2>1. PICK f : f = Head(wire[s]) OBVIOUS
    <2>2. /\ wire[s] # << >>
          /\ wire'[s] = IF f.last THEN << >> ELSE Tail(wire[s])
      BY <1>1, <1>2, <1>4, <2>1 DEF ClientRead
    <2>3. f \in Sound BY <1>1, <2>1, <2>2, TailIs
    <2>4. f.last \in BOOLEAN /\ (f.kind \in {"ack", "pong"} => ~f.last)
      <3>1. f \in Frame /\ (f.kind \in {"ack", "pong"} => ~f.last) BY <2>3 DEF Sound
      <3> QED BY <3>1 DEF Frame
    <2>5. CASE f.kind \in {"ack", "pong"}
      <3>1. got'[r] = got[r] /\ using'[r] = using[r] /\ client'[r] = "live" /\ inbound'[s] \in {"ping", "request", "bad"}
        BY <1>1, <1>2, <1>4, <2>1, <2>5 DEF ClientRead
      <3> QED BY <1>3, <2>1, <2>2, <2>4, <2>5, <3>1 DEF ReadsControl
    <2>6. CASE f.kind = "event"
      <3>1. /\ got'[r] = Append(got[r], f.event) /\ inbound'[s] = inbound[s]
            /\ IF f.last THEN Left(r) /\ client'[r] = "done" ELSE using'[r] = using[r] /\ client'[r] = client[r]
        BY <1>1, <1>2, <1>4, <2>1, <2>6 DEF ClientRead
      <3> QED BY <1>3, <2>1, <2>2, <2>6, <3>1 DEF ReadsEvent
    <2>7. CASE f.kind \in {"error", "close"}
      <3>1. Left(r) /\ got'[r] = got[r] /\ inbound'[s] = inbound[s] /\ client'[r] \in {"lost", "done"}
        BY <1>1, <1>2, <1>4, <2>1, <2>7 DEF ClientRead
      <3> QED BY <1>3, <2>1, <2>2, <2>7, <3>1 DEF Leaves
    <2> QED BY <1>2, <1>4, <2>1, <2>5, <2>6, <2>7 DEF ClientRead
  <1>5. CASE ClientLost(r)
    <2>1. Leaves(r, s) BY <1>1, <1>2, <1>5 DEF ClientLost, Leaves, LostState
    <2> QED BY <1>3, <2>1
  <1>6. CASE Break(r)
    <2>1. Leaves(r, s) BY <1>1, <1>2, <1>6 DEF Break, Leaves, LostState
    <2> QED BY <1>3, <2>1
  <1> QED BY <1>4, <1>5, <1>6

\* A new connection.
Dials(r, s) ==
  /\ UNCHANGED <<produced, gateway, cache, dropped, published, got>>
  /\ \A t \in Session : t # s => Same(t) /\ runOf'[t] = runOf[t] /\ resuming'[t] = resuming[t]
  /\ \A q \in Run : q # r => client'[q] = client[q] /\ using'[q] = using[q]
  /\ client[r] \in {"new", "lost"} /\ client'[r] = "dialled" /\ using'[r] = s
  /\ phase[s] = "none" /\ phase'[s] = "hello" /\ conn'[s]
  /\ runOf'[s] = r /\ resuming'[s] = (client[r] = "lost")
  /\ Counters(s) /\ closed'[s] = closed[s] /\ queue'[s] = queue[s] /\ queueOpen'[s] = queueOpen[s]
  /\ writer'[s] = writer[s] /\ wire'[s] = wire[s] /\ inbound'[s] = inbound[s]

LEMMA DialDoes ==
  ASSUME Types, NEW r \in Run, NEW s \in Session, Dial(r, s)
  PROVE  Dials(r, s)
  <1>1. /\ phase \in [Session -> Phase] /\ conn \in [Session -> BOOLEAN]
        /\ runOf \in [Session -> Run] /\ resuming \in [Session -> BOOLEAN]
        /\ client \in [Run -> {"new", "dialled", "live", "lost", "done"}]
        /\ using \in [Run -> Session \cup {NoSession}]
    BY DEF Types
  <1> QED BY <1>1 DEF Dial, Dials, Goto, Same, Counters, outVars, envVars

\* All that can happen.
LEMMA Happens ==
  ASSUME Base, [Next]_vars
  PROVE  \/ \E s \in Session : Serves(s) /\ Outside /\ \A t \in Session : t # s => Same(t)
         \/ \E s \in Session : /\ Writes(s) \/ Drops(s) \/ Exits(s)
                               /\ Outside /\ UNCHANGED <<cache, dropped, published>> /\ \A t \in Session : t # s => Same(t)
         \/ \E r \in Run : Produce(r)
         \/ \E r \in Run : \E s \in Session :
              ClientOnly(r, s) /\ (ReadsControl(r, s) \/ ReadsEvent(r, s) \/ Leaves(r, s))
         \/ \E r \in Run : \E s \in Session : Dials(r, s)
         \/ Stop
         \/ Restart
         \/ UNCHANGED vars
  <1>1. Types /\ Roles /\ Counting /\ EventsKnown BY DEF Base
  <1>2. ASSUME NEW s \in Session, ServeStep(s) PROVE Serves(s) /\ Outside /\ \A t \in Session : t # s => Same(t)
    BY <1>1, <1>2, ServeDoes
  <1>3. ASSUME NEW s \in Session, WriterStep(s)
        PROVE  /\ Writes(s) \/ Drops(s) \/ Exits(s)
               /\ Outside /\ UNCHANGED <<cache, dropped, published>> /\ \A t \in Session : t # s => Same(t)
    BY <1>1, <1>3, WriterDoes
  <1>4. ASSUME NEW r \in Run, ClientRead(r) \/ ClientLost(r) \/ Break(r)
        PROVE  \E s \in Session : ClientOnly(r, s) /\ (ReadsControl(r, s) \/ ReadsEvent(r, s) \/ Leaves(r, s))
    BY <1>1, <1>4, ClientDoes
  <1>5. ASSUME NEW r \in Run, NEW s \in Session, Dial(r, s) PROVE Dials(r, s) BY <1>1, <1>5, DialDoes
  <1> QED BY <1>2, <1>3, <1>4, <1>5 DEF Next

-----------------------------------------------------------------------------
(* Types.                                                                  *)

LEMMA EventIs ==
  ASSUME NEW n \in Nat, NEW ev \in 0..EventCount
  PROVE  LET e == [seq |-> n, ev |-> ev] IN e \in Event /\ e.seq = n /\ e.ev = ev
  BY DEF Event

LEMMA LastSeqIs ==
  ASSUME Types, Flow, NEW r \in Run
  PROVE  LastSeq(r) = Len(got[r]) /\ Len(got[r]) \in Nat
  <1>1. PICK g : g = got[r] OBVIOUS
  <1>2. g \in Seq(Event) BY <1>1 DEF Types
  <1>3. CASE g = << >> BY <1>1, <1>3 DEF LastSeq
  <1>4. CASE g # << >>
    <2>1. Len(g) \in 1..Len(g) /\ Len(g) \in Nat BY <1>2, <1>4
    <2>2. g[Len(g)].seq = 0 + Len(g) BY <1>1, <2>1 DEF Flow, Numbered
    <2> QED BY <1>1, <1>4, <2>1, <2>2 DEF LastSeq
  <1> QED BY <1>3, <1>4

\* What a resumed session has to send.
LEMMA Resent ==
  ASSUME Types, Cached, Flow, NEW r \in Run
  PROVE  /\ Replay(r) \in Seq(Event) /\ Numbered(Replay(r), Len(got[r]))
         /\ \A i \in 1..Len(Replay(r)) : Replay(r)[i] \in cache[r]
  <1>1. PICK m \in Nat : Contiguous(cache[r], m) BY DEF Cached
  <1>2. cache[r] \subseteq Event BY DEF Types
  <1>3. PICK lo \in Nat : lo = Len(got[r]) /\ LastSeq(r) = lo BY LastSeqIs
  <1> QED BY <1>1, <1>2, <1>3, ReplayIs

LEMMA TypesKept ==
  ASSUME Base, [Next]_vars
  PROVE  Types'
  <1>1. Types /\ Counting /\ Finite BY DEF Base
  <1>2. /\ phase \in [Session -> Phase] /\ inbound \in [Session -> {"none", "ping", "request", "bad"}]
        /\ closed \in [Session -> BOOLEAN] /\ queueOpen \in [Session -> BOOLEAN] /\ conn \in [Session -> BOOLEAN]
        /\ queue \in [Session -> Seq(Sound)] /\ wire \in [Session -> Seq(Sound)]
        /\ writer \in [Session -> {"loop", "drain", "done"}]
        /\ seqGen \in [Session -> Nat] /\ cursor \in [Session -> 0..EventCount]
        /\ pending \in [Session -> Seq(Event)]
        /\ cache \in [Run -> SUBSET Event] /\ dropped \in [Run -> SUBSET Event]
        /\ produced \in [Run -> 0..EventCount] /\ runOf \in [Session -> Run]
        /\ client \in [Run -> {"new", "dialled", "live", "lost", "done"}]
        /\ using \in [Run -> Session \cup {NoSession}] /\ got \in [Run -> Seq(Event)]
        /\ resuming \in [Session -> BOOLEAN] /\ published \subseteq Run
    BY <1>1 DEF Types
  <1>3. EventCount \in Nat BY AcpAssumption
  <1> USE DEF Goto, outVars, clientVars, envVars, serveVars
  <1>4. ASSUME NEW s \in Session, NEW p \in Phase PROVE [phase EXCEPT ![s] = p] \in [Session -> Phase] BY <1>2
  <1>5. ASSUME NEW s \in Session, ServeStep(s) PROVE Types'
    <2>1. ASSUME NEW kind \in {"ack", "pong", "error", "close"}, Send(s, Control(kind))
          PROVE  /\ closed' \in [Session -> BOOLEAN] /\ conn' \in [Session -> BOOLEAN]
                 /\ queue' \in [Session -> Seq(Sound)]
      <3>1. Control(kind) \in Sound BY FrameIs
      <3> QED BY <1>1, <2>1, <3>1, SendIs
    <2>2. CASE Hello(s) \/ ReadPing(s) \/ ReadBad(s) \/ SendInternalError(s) \/ ResumeFails(s) \/ SendClose(s)
      <3>1. /\ closed' \in [Session -> BOOLEAN] /\ conn' \in [Session -> BOOLEAN]
            /\ queue' \in [Session -> Seq(Sound)]
        BY <2>1, <2>2 DEF Hello, ReadPing, ReadBad, SendInternalError, ResumeFails, SendClose
      <3>2. phase' \in [Session -> Phase]
        <4>1. phase' = phase \/ \E p \in {"loop", "finish", "close"} : phase' = [phase EXCEPT ![s] = p]
          BY <2>2 DEF Hello, ReadPing, ReadBad, SendInternalError, ResumeFails, SendClose
        <4>2. ASSUME NEW p \in {"loop", "finish", "close"}, phase' = [phase EXCEPT ![s] = p] PROVE phase' \in [Session -> Phase]
          <5>1. p \in Phase BY DEF Phase
          <5> QED BY <1>4, <4>2, <5>1
        <4>3. CASE phase' = phase BY <1>2, <4>3
        <4> QED BY <4>1, <4>2, <4>3
      <3>3. inbound' \in [Session -> {"none", "ping", "request", "bad"}]
        BY <1>2, <2>2 DEF Hello, ReadPing, ReadBad, SendInternalError, ResumeFails, SendClose
      <3>4. UNCHANGED <<seqGen, cursor, pending, outVars, clientVars, envVars>>
        BY <2>2 DEF Hello, ReadPing, ReadBad, SendInternalError, ResumeFails, SendClose
      <3> QED BY <1>1, <3>1, <3>2, <3>3, <3>4 DEF Types
    <2>3. CASE HelloFails(s) \/ ReadEnd(s) \/ ReadRun(s) \/ DispatchFails(s) \/ BusClosed(s)
      <3>1. phase' \in [Session -> Phase]
        <4>1. \E p \in {"finish", "subscribe", "failed", "close"} : phase' = [phase EXCEPT ![s] = p]
          BY <2>3 DEF HelloFails, ReadEnd, ReadRun, DispatchFails, BusClosed
        <4>2. {"finish", "subscribe", "failed", "close"} \subseteq Phase BY DEF Phase
        <4> QED BY <1>4, <4>1, <4>2
      <3>2. inbound' \in [Session -> {"none", "ping", "request", "bad"}]
        BY <1>2, <2>3 DEF HelloFails, ReadEnd, ReadRun, DispatchFails, BusClosed
      <3>3. UNCHANGED <<seqGen, cursor, pending, sendVars, outVars, clientVars, envVars>>
        BY <2>3 DEF HelloFails, ReadEnd, ReadRun, DispatchFails, BusClosed
      <3> QED BY <1>1, <3>1, <3>2, <3>3 DEF Types, sendVars
    <2>4. CASE Subscribe(s) \/ SkipHidden(s) \/ EmitRefused(s)
      <3>1. phase' \in [Session -> Phase]
        <4>1. phase' = phase \/ \E p \in {"publish", "close"} : phase' = [phase EXCEPT ![s] = p]
          BY <2>4 DEF Subscribe, SkipHidden, EmitRefused
        <4>2. ASSUME NEW p \in {"publish", "close"}, phase' = [phase EXCEPT ![s] = p] PROVE phase' \in [Session -> Phase]
          <5>1. p \in Phase BY DEF Phase
          <5> QED BY <1>4, <4>2, <5>1
        <4>3. CASE phase' = phase BY <1>2, <4>3
        <4> QED BY <4>1, <4>2, <4>3
      <3>2. cursor' \in [Session -> 0..EventCount]
        <4>1. PICK c : c \in {produced[runOf[s]], cursor[s] + 1} /\ cursor' = [cursor EXCEPT ![s] = c]
                       /\ (c = produced[runOf[s]] \/ cursor[s] < produced[runOf[s]])
          BY <2>4 DEF Subscribe, SkipHidden, EmitRefused, HasEvent
        <4>2. runOf[s] \in Run /\ produced[runOf[s]] \in 0..EventCount /\ cursor[s] \in 0..EventCount BY <1>2
        <4>3. c \in 0..EventCount BY <1>3, <4>1, <4>2
        <4> QED BY <1>2, <4>1, <4>3
      <3>3. UNCHANGED <<seqGen, pending, sendVars, outVars, inbound, clientVars, envVars>>
        BY <2>4 DEF Subscribe, SkipHidden, EmitRefused
      <3> QED BY <1>1, <3>1, <3>2, <3>3 DEF Types, sendVars
    <2>5. CASE PublishTask(s)
      <3>1. phase' \in [Session -> Phase] BY <1>2, <2>5 DEF PublishTask, Phase
      <3>2. published' \subseteq Run BY <1>2, <2>5 DEF PublishTask
      <3> QED BY <1>1, <2>5, <3>1, <3>2 DEF Types, PublishTask, sendVars
    <2>6. ASSUME NEW ev \in 0..EventCount, EmitCache(s, ev)
          PROVE  /\ phase' \in [Session -> Phase] /\ seqGen' \in [Session -> Nat]
                 /\ pending' \in [Session -> Seq(Event)]
                 /\ cache' \in [Run -> SUBSET Event] /\ dropped' \in [Run -> SUBSET Event]
      <3>1. PICK e : e = [seq |-> seqGen[s] + 1, ev |-> ev] OBVIOUS
      <3>2. seqGen[s] + 1 \in Nat BY <1>2
      <3>3. e \in Event BY <3>1, <3>2, EventIs
      <3>4. <<e>> \in Seq(Event) BY <3>3
      <3>5. /\ seqGen' = [seqGen EXCEPT ![s] = @ + 1]
            /\ pending' = [pending EXCEPT ![s] = <<e>>]
            /\ cache' = [cache EXCEPT ![runOf[s]] = @ \cup {e}] \/ cache' = cache
            /\ dropped' = [dropped EXCEPT ![runOf[s]] = @ \cup {e}] \/ dropped' = dropped
            /\ phase' = [phase EXCEPT ![s] = "emit"]
        BY <2>6, <3>1 DEF EmitCache
      <3>6. "emit" \in Phase BY DEF Phase
      <3>7. phase' \in [Session -> Phase] BY <1>4, <3>5, <3>6
      <3>8. seqGen' \in [Session -> Nat] BY <1>2, <3>2, <3>5
      <3>9. pending' \in [Session -> Seq(Event)] BY <1>2, <3>4, <3>5
      <3>10. cache' \in [Run -> SUBSET Event]
        <4>1. PICK r \in Run : r = runOf[s] BY <1>2
        <4>2. PICK C \in SUBSET Event : C = cache[r] \cup {e}
          <5>1. cache[r] \in SUBSET Event BY <1>2
          <5> QED BY <3>3, <5>1
        <4>3. CASE cache' = [cache EXCEPT ![runOf[s]] = @ \cup {e}]
          <5>1. cache' = [cache EXCEPT ![r] = C] BY <4>1, <4>2, <4>3
          <5> QED BY <1>2, <5>1
        <4>4. CASE cache' = cache BY <1>2, <4>4
        <4> QED BY <3>5, <4>3, <4>4
      <3>11. dropped' \in [Run -> SUBSET Event]
        <4>1. PICK r \in Run : r = runOf[s] BY <1>2
        <4>2. PICK C \in SUBSET Event : C = dropped[r] \cup {e}
          <5>1. dropped[r] \in SUBSET Event BY <1>2
          <5> QED BY <3>3, <5>1
        <4>3. CASE dropped' = [dropped EXCEPT ![runOf[s]] = @ \cup {e}]
          <5>1. dropped' = [dropped EXCEPT ![r] = C] BY <4>1, <4>2, <4>3
          <5> QED BY <1>2, <5>1
        <4>4. CASE dropped' = dropped BY <1>2, <4>4
        <4> QED BY <3>5, <4>3, <4>4
      <3> QED BY <3>7, <3>8, <3>9, <3>10, <3>11
    <2>7. CASE EmitNext(s)
      <3>1. cursor[s] + 1 \in 0..EventCount BY <1>2, <1>3, <2>7 DEF EmitNext, HasEvent
      <3>2. EmitCache(s, cursor[s] + 1) /\ cursor' = [cursor EXCEPT ![s] = cursor[s] + 1] BY <2>7 DEF EmitNext
      <3>3. /\ phase' \in [Session -> Phase] /\ seqGen' \in [Session -> Nat]
            /\ pending' \in [Session -> Seq(Event)]
            /\ cache' \in [Run -> SUBSET Event] /\ dropped' \in [Run -> SUBSET Event]
        BY <2>6, <3>1, <3>2
      <3>4. cursor' \in [Session -> 0..EventCount] BY <1>2, <3>1, <3>2
      <3> QED BY <1>1, <2>7, <3>3, <3>4 DEF Types, EmitNext, sendVars
    <2>8. CASE EmitTimeout(s)
      <3>1. Timeout \in 0..EventCount BY <1>3 DEF Timeout
      <3>2. "close" \in Phase BY DEF Phase
      <3>3. /\ phase' \in [Session -> Phase] /\ seqGen' \in [Session -> Nat]
            /\ pending' \in [Session -> Seq(Event)]
            /\ cache' \in [Run -> SUBSET Event] /\ dropped' \in [Run -> SUBSET Event]
        <4>1. CASE closed[s] BY <1>2, <2>8, <3>2, <4>1 DEF EmitTimeout
        <4>2. CASE ~closed[s] BY <2>6, <2>8, <3>1, <4>2 DEF EmitTimeout
        <4> QED BY <4>1, <4>2
      <3> QED BY <1>1, <2>8, <3>3 DEF Types, EmitTimeout, sendVars
    <2>9. CASE EmitSend(s)
      <3>1. Len(pending[s]) = 1 BY <1>1, <2>9 DEF Counting, Counts, EmitSend
      <3>2. pending[s] \in Seq(Event) /\ pending[s] # << >>
        <4>1. pending[s] \in Seq(Event) BY <1>2
        <4> QED BY <3>1, <4>1, NotEmpty
      <3>3. PICK f : f = EventFrame(Head(pending[s]), Terminal(Head(pending[s]).ev)) OBVIOUS
      <3>4. f \in Sound
        <4>1. Head(pending[s]) \in Event BY <3>2, TailIs
        <4>2. Terminal(Head(pending[s]).ev) \in BOOLEAN BY DEF Terminal
        <4> QED BY <3>3, <4>1, <4>2, FrameIs
      <3>5. Send(s, f) BY <2>9, <3>3 DEF EmitSend
      <3>6. /\ closed' \in [Session -> BOOLEAN] /\ conn' \in [Session -> BOOLEAN]
            /\ queue' \in [Session -> Seq(Sound)]
        BY <1>1, <3>4, <3>5, SendIs
      <3>7. pending' \in [Session -> Seq(Event)]
        <4>1. << >> \in Seq(Event) OBVIOUS
        <4> QED BY <1>2, <2>9, <4>1 DEF EmitSend
      <3>8. phase' \in [Session -> Phase]
        <4>1. phase' = [phase EXCEPT ![s] = "close"] \/ phase' = [phase EXCEPT ![s] = "stream"]
          BY <2>9 DEF EmitSend
        <4> QED BY <1>2, <4>1 DEF Phase
      <3> QED BY <1>1, <2>9, <3>6, <3>7, <3>8 DEF Types, EmitSend
    <2>10. CASE ReadResume(s)
      <3>1. Replay(runOf[s]) \in Seq(Event)
        <4>1. runOf[s] \in Run BY <1>2
        <4>2. cache[runOf[s]] \subseteq Event /\ IsFiniteSet(cache[runOf[s]]) BY <1>1, <1>2, <4>1 DEF Finite
        <4> QED BY <4>1, <4>2, ReplayTypes
      <3>2. pending' \in [Session -> Seq(Event)] BY <1>2, <2>10, <3>1 DEF ReadResume
      <3>3. phase' \in [Session -> Phase] BY <1>2, <2>10 DEF ReadResume, Phase
      <3>4. inbound' \in [Session -> {"none", "ping", "request", "bad"}] BY <1>2, <2>10 DEF ReadResume
      <3> QED BY <1>1, <2>10, <3>2, <3>3, <3>4 DEF Types, ReadResume, sendVars
    <2>11. CASE ReplaySend(s)
      <3>1. pending[s] \in Seq(Event) /\ pending[s] # << >> BY <1>2, <2>11 DEF ReplaySend
      <3>2. PICK e \in Event : e = Head(pending[s]) BY <3>1, TailIs
      <3>3. EventFrame(e, FALSE) \in Sound BY FrameIs
      <3>4. Send(s, EventFrame(e, FALSE)) BY <2>11, <3>2 DEF ReplaySend
      <3>5. /\ closed' \in [Session -> BOOLEAN] /\ conn' \in [Session -> BOOLEAN]
            /\ queue' \in [Session -> Seq(Sound)]
        BY <1>1, <3>3, <3>4, SendIs
      <3>6. pending' \in [Session -> Seq(Event)]
        <4>1. Tail(pending[s]) \in Seq(Event) BY <3>1, TailIs
        <4> QED BY <1>2, <2>11, <4>1 DEF ReplaySend
      <3>7. e.seq \in Nat BY DEF Event
      <3>8. seqGen' \in [Session -> Nat] BY <1>2, <2>11, <3>2, <3>7 DEF ReplaySend
      <3> QED BY <1>1, <2>11, <3>5, <3>6, <3>8 DEF Types, ReplaySend
    <2>12. CASE Finish(s)
      <3>1. phase' \in [Session -> Phase] BY <1>2, <2>12 DEF Finish, Phase
      <3>2. closed' \in [Session -> BOOLEAN] /\ queueOpen' \in [Session -> BOOLEAN] BY <1>2, <2>12 DEF Finish
      <3> QED BY <1>1, <2>12, <3>1, <3>2 DEF Types, Finish
    <2>13. CASE End(s)
      <3>1. phase' \in [Session -> Phase] BY <1>2, <2>13 DEF End, Phase
      <3>2. conn' \in [Session -> BOOLEAN] BY <1>2, <2>13 DEF End
      <3> QED BY <1>1, <2>13, <3>1, <3>2 DEF Types, End
    <2> QED BY <1>5, <2>2, <2>3, <2>4, <2>5, <2>7, <2>8, <2>9, <2>10, <2>11, <2>12, <2>13 DEF ServeStep
  <1>6. ASSUME NEW s \in Session, WriterStep(s) PROVE Types'
    <2>1. CASE Write(s) \/ WriteFails(s) \/ Drain(s)
      <3>1. queue[s] \in Seq(Sound) /\ queue[s] # << >> BY <1>2, <2>1 DEF Write, WriteFails, Drain
      <3>2. Tail(queue[s]) \in Seq(Sound) /\ Head(queue[s]) \in Sound BY <3>1, TailIs
      <3>3. Append(wire[s], Head(queue[s])) \in Seq(Sound)
        <4>1. wire[s] \in Seq(Sound) BY <1>2
        <4> QED BY <3>2, <4>1, AppendIs
      <3>4. queue' \in [Session -> Seq(Sound)]
        BY <1>2, <2>1, <3>2 DEF Write, WriteFails, Drain
      <3>5. wire' \in [Session -> Seq(Sound)]
        BY <1>2, <2>1, <3>3 DEF Write, WriteFails, Drain
      <3>6. conn' \in [Session -> BOOLEAN] /\ writer' \in [Session -> {"loop", "drain", "done"}]
        BY <1>2, <2>1 DEF Write, WriteFails, Drain
      <3>7. UNCHANGED <<serveVars, closed, queueOpen, inbound, clientVars, envVars>>
        BY <2>1 DEF Write, WriteFails, Drain
      <3> QED BY <1>1, <3>4, <3>5, <3>6, <3>7 DEF Types
    <2>2. CASE WriterExit(s)
      <3>1. writer' \in [Session -> {"loop", "drain", "done"}] BY <1>2, <2>2 DEF WriterExit
      <3> QED BY <1>1, <2>2, <3>1 DEF Types, WriterExit, sendVars
    <2> QED BY <1>6, <2>1, <2>2 DEF WriterStep
  <1>7. ASSUME NEW r \in Run, Produce(r) PROVE Types'
    <2>1. produced' \in [Run -> 0..EventCount] BY <1>2, <1>3, <1>7 DEF Produce
    <2> QED BY <1>1, <1>7, <2>1 DEF Types, Produce, sendVars
  <1>8. ASSUME NEW r \in Run, ClientRead(r) \/ ClientLost(r) \/ Break(r) PROVE Types'
    <2>1. PICK s \in Session : s = using[r] BY <1>2, <1>8 DEF ClientRead, ClientLost, Break
    <2>2. << >> \in Seq(Sound) OBVIOUS
    <2>3. CASE ClientRead(r)
      <3>1. wire[s] \in Seq(Sound) /\ wire[s] # << >> BY <1>2, <2>1, <2>3 DEF ClientRead
      <3>2. PICK f \in Sound : f = Head(wire[s]) BY <3>1, TailIs
      <3>3. f.event \in Event
        <4>1. f \in Frame BY DEF Sound
        <4> QED BY <4>1 DEF Frame
      <3>4. Tail(wire[s]) \in Seq(Sound) BY <3>1, TailIs
      <3>5. wire' \in [Session -> Seq(Sound)]
        <4>1. wire' = [wire EXCEPT ![s] = IF f.last THEN << >> ELSE Tail(wire[s])]
          BY <2>1, <2>3, <3>2 DEF ClientRead
        <4> QED BY <1>2, <2>2, <3>4, <4>1
      <3>6. Append(got[r], f.event) \in Seq(Event)
        <4>1. got[r] \in Seq(Event) BY <1>2
        <4> QED BY <3>3, <4>1, AppendIs
      <3>7. got' \in [Run -> Seq(Event)]
        <4>1. got' = got \/ got' = [got EXCEPT ![r] = Append(got[r], f.event)]
          BY <2>1, <2>3, <3>2 DEF ClientRead
        <4> QED BY <1>2, <3>6, <4>1
      <3>8. client' \in [Run -> {"new", "dialled", "live", "lost", "done"}]
        BY <1>2, <2>3 DEF ClientRead, Detach
      <3>9. using' \in [Run -> Session \cup {NoSession}] BY <1>2, <2>3 DEF ClientRead, Detach
      <3>10. inbound' \in [Session -> {"none", "ping", "request", "bad"}] BY <1>2, <2>3 DEF ClientRead
      <3>11. UNCHANGED <<serveVars, sendVars, queueOpen, writer, runOf, resuming, envVars>> BY <2>3 DEF ClientRead
      <3> QED BY <1>1, <3>5, <3>7, <3>8, <3>9, <3>10, <3>11 DEF Types, sendVars
    <2>4. CASE ClientLost(r) \/ Break(r)
      <3>1. client' \in [Run -> {"new", "dialled", "live", "lost", "done"}]
        <4>1. PICK next : next = LostState(r) OBVIOUS
        <4>2. next \in {"new", "lost"} BY <4>1 DEF LostState
        <4>3. client' = [client EXCEPT ![r] = next] BY <2>4, <4>1 DEF ClientLost, Break, Detach
        <4> QED BY <1>2, <4>2, <4>3
      <3>2. using' \in [Run -> Session \cup {NoSession}] BY <1>2, <2>4 DEF ClientLost, Break, Detach
      <3>3. inbound' \in [Session -> {"none", "ping", "request", "bad"}] BY <1>2, <2>4 DEF ClientLost, Break
      <3>4. wire' \in [Session -> Seq(Sound)] BY <1>2, <2>2, <2>4 DEF ClientLost, Break
      <3>5. UNCHANGED <<serveVars, sendVars, queueOpen, writer, got, runOf, resuming, envVars>>
        BY <2>4 DEF ClientLost, Break
      <3> QED BY <1>1, <3>1, <3>2, <3>3, <3>4, <3>5 DEF Types, sendVars
    <2> QED BY <1>8, <2>3, <2>4
  <1>9. ASSUME NEW r \in Run, NEW s \in Session, Dial(r, s) PROVE Types'
    <2>1. phase' \in [Session -> Phase] BY <1>2, <1>9 DEF Dial, Phase
    <2>2. conn' \in [Session -> BOOLEAN] /\ runOf' \in [Session -> Run] /\ resuming' \in [Session -> BOOLEAN]
      BY <1>2, <1>9 DEF Dial
    <2>3. client' \in [Run -> {"new", "dialled", "live", "lost", "done"}] BY <1>2, <1>9 DEF Dial
    <2>4. using' \in [Run -> Session \cup {NoSession}] BY <1>2, <1>9 DEF Dial
    <2> QED BY <1>1, <1>9, <2>1, <2>2, <2>3, <2>4 DEF Types, Dial
  <1>10. CASE Stop BY <1>1, <1>10 DEF Types, Stop, sendVars
  <1>11. CASE Restart
    <2>1. << >> \in Seq(Sound) /\ << >> \in Seq(Event) OBVIOUS
    <2>2. phase' \in [Session -> Phase]
      <3>1. "none" \in Phase /\ "ended" \in Phase BY DEF Phase
      <3> QED BY <1>11, <3>1 DEF Restart
    <2>3. conn' \in [Session -> BOOLEAN] /\ writer' \in [Session -> {"loop", "drain", "done"}] BY <1>11 DEF Restart
    <2>4. queue' \in [Session -> Seq(Sound)] /\ pending' \in [Session -> Seq(Event)] BY <1>11, <2>1 DEF Restart
    <2> QED BY <1>1, <1>11, <2>2, <2>3, <2>4 DEF Types, Restart
  <1>12. CASE UNCHANGED vars BY <1>1, <1>12 DEF Types, vars, sendVars
  <1> QED BY <1>5, <1>6, <1>7, <1>8, <1>9, <1>10, <1>11, <1>12 DEF Next

-----------------------------------------------------------------------------
(* Roles.                                                                  *)

LEMMA NoEventsAppend ==
  ASSUME NEW w \in Seq(Sound), NEW f \in Sound, NoEvents(w), f.kind # "event"
  PROVE  NoEvents(Append(w, f))
  <1>1. PICK t : t = Append(w, f) OBVIOUS
  <1>2. Len(t) = Len(w) + 1 /\ Len(w) \in Nat /\ t[Len(w) + 1] = f /\ \A i \in 1..Len(w) : t[i] = w[i]
    BY <1>1, AppendIs
  <1>3. \A i \in 1..Len(t) : i \in 1..Len(w) \/ i = Len(w) + 1 BY <1>2
  <1>4. NoEvents(t) BY <1>2, <1>3 DEF NoEvents
  <1> QED BY <1>1, <1>4

LEMMA NoEventsTail ==
  ASSUME NEW w \in Seq(Sound), w # << >>, NoEvents(w)
  PROVE  NoEvents(Tail(w)) /\ Head(w).kind # "event"
  <1>1. PICK t : t = Tail(w) OBVIOUS
  <1>2. PICK n \in Nat : n = Len(w) /\ n >= 1 BY TailIs
  <1>3. Len(t) = n - 1 /\ \A i \in 1..(n - 1) : t[i] = w[i + 1] BY <1>1, <1>2, TailIs
  <1>4. \A i \in 1..Len(t) : i + 1 \in 1..n /\ i \in 1..(n - 1) BY <1>2, <1>3
  <1>5. NoEvents(t) BY <1>2, <1>3, <1>4 DEF NoEvents
  <1>6. Head(w).kind # "event"
    <2>1. 1 \in 1..Len(w) BY <1>2
    <2> QED BY <2>1, TailIs DEF NoEvents
  <1> QED BY <1>1, <1>5, <1>6

\* A session that does something was and stays open.
LEMMA ServesOpen ==
  ASSUME NEW s \in Session, Serves(s)
  PROVE  phase[s] # "none" /\ phase'[s] # "none"
  <1> USE DEF Serves
  <1>1. CASE Talks(s) BY <1>1 DEF Talks
  <1>2. CASE Accepts(s) \/ Subscribes(s) \/ Publishes(s) BY <1>2 DEF Accepts, Subscribes, Publishes
  <1>3. CASE Skips(s) \/ Refused(s) BY <1>3 DEF Skips, Refused
  <1>4. CASE Emits(s, Timeout) \/ Emits(s, cursor[s] + 1) BY <1>4 DEF Emits
  <1>5. CASE Delivers(s) BY <1>5 DEF Delivers
  <1>6. CASE Resumes(s) \/ Replays(s) \/ Finishes(s) \/ Ends(s) BY <1>6 DEF Resumes, Replays, Finishes, Ends
  <1> QED BY <1>1, <1>2, <1>3, <1>4, <1>5, <1>6

\* A step that changes neither the run nor the state of a session keeps its role.
LEMMA RoleSame ==
  ASSUME NEW t \in Session, Role(t), Same(t), resuming'[t] = resuming[t]
  PROVE  Role(t)'
  BY DEF Role, Same, Early, RunPhase, NoEvents

LEMMA RoleServes ==
  ASSUME Types, NEW s \in Session, Role(s), Serves(s), resuming'[s] = resuming[s]
  PROVE  Role(s)'
  <1>1. queue[s] \in Seq(Sound) /\ wire[s] \in Seq(Sound) /\ cursor[s] \in 0..EventCount BY DEF Types
  <1>2. ASSUME Keeps(s), Quiet(s), phase[s] \notin Early, phase'[s] \notin Early \cup {"replay"},
               phase[s] \notin {"await", "ended"} \/ phase'[s] \in {"await", "ended"},
               phase'[s] \in RunPhase => phase[s] \in RunPhase,
               phase'[s] \notin {"emit", "replay"} => pending'[s] = << >>,
               cursor'[s] = cursor[s] \/ phase[s] \in RunPhase
        PROVE  Role(s)'
    BY <1>2 DEF Role, Keeps, Quiet, Early, RunPhase, NoEvents
  <1>3. CASE Talks(s)
    <2>1. /\ Keeps(s) /\ pending'[s] = pending[s] /\ cursor'[s] = cursor[s] BY <1>3 DEF Talks, Counters
    <2>2. phase'[s] \in Early => phase[s] \in {"hello", "loop"} /\ phase'[s] = "loop" BY <1>3 DEF Talks, Early
    <2>3. phase[s] \in {"hello", "loop"} => NoEvents(queue'[s])
      <3>1. ASSUME NEW kind \in {"ack", "pong", "error", "close"}, Sends(s, Control(kind)), phase[s] \in {"hello", "loop"}
            PROVE  NoEvents(queue'[s])
        <4>1. NoEvents(queue[s]) BY <3>1 DEF Role, Early
        <4>2. Control(kind) \in Sound /\ Control(kind).kind # "event" BY FrameIs
        <4>3. NoEvents(Append(queue[s], Control(kind))) BY <1>1, <4>1, <4>2, NoEventsAppend
        <4> QED BY <3>1, <4>1, <4>3 DEF Sends, Quiet
      <3>2. CASE Quiet(s) BY <3>2 DEF Quiet, Role, Early
      <3> QED BY <1>3, <3>1, <3>2 DEF Talks
    <2>4. phase[s] \in {"hello", "loop"} => NoEvents(wire'[s]) BY <2>1 DEF Keeps, Role, Early
    <2>5. writer'[s] = "drain" => ~conn'[s]
      <3>1. conn'[s] = conn[s] \/ ~conn'[s] BY <1>3 DEF Talks, Quiet, Sends
      <3> QED BY <2>1, <3>1 DEF Keeps, Role
    <2>6. pending'[s] = << >>
      BY <1>3, <2>1 DEF Talks, Role
    <2>7. phase'[s] \in RunPhase => phase[s] \in RunPhase BY <1>3 DEF Talks, RunPhase
    <2>8. phase'[s] # "none" /\ phase'[s] # "replay" /\ phase'[s] \notin {"await", "ended"} /\ phase[s] \notin {"await", "ended"}
      BY <1>3 DEF Talks
    <2> QED BY <2>1, <2>2, <2>3, <2>4, <2>5, <2>6, <2>7, <2>8 DEF Role, Keeps
  <1>4. CASE Accepts(s)
    BY <1>4 DEF Accepts, Counters, Role, Keeps, Quiet, Early, RunPhase
  <1>5. CASE Subscribes(s) BY <1>2, <1>5 DEF Subscribes, Role, Early, RunPhase
  <1>6. CASE Publishes(s) BY <1>2, <1>6 DEF Publishes, Counters, Role, Early, RunPhase
  <1>7. CASE Skips(s) BY <1>2, <1>7 DEF Skips, Role, Early, RunPhase
  <1>8. CASE Refused(s) BY <1>2, <1>8 DEF Refused, Role, Early, RunPhase
  <1>9. CASE Emits(s, Timeout) \/ Emits(s, cursor[s] + 1)
    BY <1>2, <1>9 DEF Emits, Early, RunPhase
  <1>10. CASE Delivers(s)
    <2>1. phase'[s] \in {"close", "stream"} /\ phase[s] = "emit" /\ pending'[s] = << >> /\ cursor'[s] = cursor[s] /\ Keeps(s)
      BY <1>10 DEF Delivers
    <2>2. conn'[s] = conn[s] \/ ~conn'[s] BY <1>10 DEF Delivers, Quiet, Sends
    <2> QED BY <2>1, <2>2 DEF Role, Keeps, Early, RunPhase
  <1>11. CASE Resumes(s) BY <1>11 DEF Resumes, Role, Keeps, Quiet, Early, RunPhase
  <1>12. CASE Replays(s)
    <2>1. phase'[s] = "replay" /\ phase[s] = "replay" /\ cursor'[s] = cursor[s] /\ Keeps(s) BY <1>12 DEF Replays
    <2>2. conn'[s] = conn[s] \/ ~conn'[s] BY <1>12 DEF Replays, Quiet, Sends
    <2> QED BY <2>1, <2>2 DEF Role, Keeps, Early, RunPhase
  <1>13. CASE Finishes(s) BY <1>13 DEF Finishes, Counters, Role, Early, RunPhase
  <1>14. CASE Ends(s) BY <1>14 DEF Ends, Counters, Keeps, Role, Early, RunPhase
  <1> QED BY <1>3, <1>4, <1>5, <1>6, <1>7, <1>8, <1>9, <1>10, <1>11, <1>12, <1>13, <1>14 DEF Serves

LEMMA RolesKept ==
  ASSUME Base, [Next]_vars
  PROVE  Roles'
  <1>1. Types /\ Roles BY DEF Base
  <1>2. /\ \A t \in Session : Role(t)
        /\ \A r \in Run : ClientRole(r)
    BY <1>1 DEF Roles
  <1>3. using \in [Run -> Session \cup {NoSession}] /\ NoSession \notin Session BY <1>1, AcpAssumption DEF Types
  \* The clients keep their roles as long as no session is forgotten.
  <1>4. ASSUME \A t \in Session : phase[t] # "none" => phase'[t] # "none" /\ runOf'[t] = runOf[t],
               NEW r \in Run, using'[r] = using[r], client'[r] = client[r]
        PROVE  ClientRole(r)'
    <2>1. CASE using[r] = NoSession BY <1>2, <1>4, <2>1 DEF ClientRole
    <2>2. CASE using[r] # NoSession
      <3>1. using[r] \in Session BY <1>3, <2>2
      <3> QED BY <1>2, <1>4, <2>2, <3>1 DEF ClientRole
    <2> QED BY <2>1, <2>2
  <1>5. ASSUME NEW s \in Session, Serves(s), Outside, \A t \in Session : t # s => Same(t) PROVE Roles'
    <2>1. resuming' = resuming /\ runOf' = runOf /\ using' = using /\ client' = client BY <1>5 DEF Outside
    <2>2. Role(s)' BY <1>1, <1>2, <1>5, <2>1, RoleServes
    <2>3. \A t \in Session : t # s => Role(t)' BY <1>2, <1>5, <2>1, RoleSame
    <2>4. \A t \in Session : phase[t] # "none" => phase'[t] # "none" BY <1>5, ServesOpen DEF Same
    <2>5. \A r \in Run : ClientRole(r)' BY <1>4, <2>1, <2>4
    <2> QED BY <2>2, <2>3, <2>5 DEF Roles
  <1>6. ASSUME NEW s \in Session, Writes(s) \/ Drops(s) \/ Exits(s), Outside, \A t \in Session : t # s => Same(t)
        PROVE  Roles'
    <2>1. resuming' = resuming /\ runOf' = runOf /\ using' = using /\ client' = client BY <1>6 DEF Outside
    <2>2. queue[s] \in Seq(Sound) /\ wire[s] \in Seq(Sound) BY <1>1 DEF Types
    <2>3. Role(s) BY <1>2
    <2>4. Role(s)'
      <3>1. CASE Writes(s)
        <4>1. queue[s] # << >> /\ queue'[s] = Tail(queue[s]) /\ ServesOn(s) BY <3>1 DEF Writes
        <4>2. phase[s] # "none" BY <2>3, <4>1 DEF Role
        <4>3. phase[s] \in Early => NoEvents(queue'[s]) /\ NoEvents(wire'[s])
          <5> HAVE phase[s] \in Early
          <5>1. NoEvents(queue[s]) /\ NoEvents(wire[s]) BY <2>3 DEF Role
          <5>2. NoEvents(Tail(queue[s])) /\ Head(queue[s]).kind # "event" BY <2>2, <4>1, <5>1, NoEventsTail
          <5>3. Head(queue[s]) \in Sound BY <2>2, <4>1, TailIs
          <5>4. NoEvents(Append(wire[s], Head(queue[s]))) BY <2>2, <5>1, <5>2, <5>3, NoEventsAppend
          <5> QED BY <3>1, <4>1, <5>1, <5>2, <5>4 DEF Writes
        <4> QED BY <2>1, <2>3, <3>1, <4>1, <4>2, <4>3 DEF Role, Writes, ServesOn
      <3>2. CASE Drops(s)
        <4>1. queue[s] # << >> /\ queue'[s] = Tail(queue[s]) /\ ServesOn(s) BY <3>2 DEF Drops
        <4>2. phase[s] # "none" BY <2>3, <4>1 DEF Role
        <4>3. phase[s] \in Early => NoEvents(queue'[s]) BY <2>2, <2>3, <4>1, NoEventsTail DEF Role
        <4> QED BY <2>1, <2>3, <3>2, <4>1, <4>2, <4>3 DEF Role, Drops, ServesOn
      <3>3. CASE Exits(s) BY <2>1, <2>3, <3>3 DEF Role, Exits, ServesOn
      <3> QED BY <1>6, <3>1, <3>2, <3>3
    <2>5. \A t \in Session : t # s => Role(t)' BY <1>2, <1>6, <2>1, RoleSame
    <2>6. \A t \in Session : phase[t] # "none" => phase'[t] # "none"
      BY <1>6 DEF Same, Writes, Drops, Exits, ServesOn
    <2>7. \A r \in Run : ClientRole(r)' BY <1>4, <2>1, <2>6
    <2> QED BY <2>4, <2>5, <2>7 DEF Roles
  <1>7. ASSUME NEW r \in Run, NEW s \in Session, ClientOnly(r, s),
               ReadsControl(r, s) \/ ReadsEvent(r, s) \/ Leaves(r, s)
        PROVE  Roles'
    <2>1. /\ s = using[r] /\ resuming' = resuming /\ runOf' = runOf /\ ServesOn(s)
          /\ queue'[s] = queue[s] /\ conn'[s] = conn[s] /\ writer'[s] = writer[s]
          /\ \A t \in Session : t # s => Same(t)
      BY <1>7 DEF ClientOnly
    <2>2. runOf[s] = r /\ phase[s] # "none" /\ client[r] \in {"dialled", "live"} /\ s # NoSession
      BY <1>2, <1>3, <2>1 DEF ClientRole
    <2>3. wire[s] \in Seq(Sound) /\ Role(s) BY <1>1, <1>2 DEF Types
    <2>4. phase[s] \in Early => NoEvents(wire'[s])
      <3> HAVE phase[s] \in Early
      <3>1. NoEvents(wire[s]) BY <2>3 DEF Role
      <3>2. wire'[s] = << >> \/ wire'[s] = wire[s] \/ (wire[s] # << >> /\ wire'[s] = Tail(wire[s]))
        BY <1>7 DEF ReadsControl, ReadsEvent, Leaves
      <3>3. NoEvents(<< >>) BY DEF NoEvents
      <3> QED BY <2>3, <3>1, <3>2, <3>3, NoEventsTail
    <2>5. Role(s)' BY <2>1, <2>2, <2>3, <2>4 DEF Role, ServesOn
    <2>6. \A t \in Session : t # s => Role(t)' BY <1>2, <2>1, RoleSame
    <2>7. \A t \in Session : phase[t] # "none" => phase'[t] # "none" BY <2>1 DEF Same, ServesOn
    <2>8. ASSUME NEW q \in Run, q # r PROVE ClientRole(q)'
      <3>1. using'[q] = using[q] /\ client'[q] = client[q] BY <1>7, <2>8 DEF ClientOnly, OtherRuns
      <3> QED BY <1>4, <2>1, <2>7, <3>1
    <2>9. ClientRole(r)'
      <3>1. \/ using'[r] = s /\ client'[r] \in {"dialled", "live"}
            \/ using'[r] = NoSession /\ client'[r] \notin {"dialled", "live"}
        BY <1>7, <2>1, <2>2 DEF ReadsControl, ReadsEvent, Leaves, Left
      <3> QED BY <2>1, <2>2, <2>7, <3>1 DEF ClientRole
    <2> QED BY <2>5, <2>6, <2>8, <2>9 DEF Roles
  <1>8. ASSUME NEW r \in Run, NEW s \in Session, Dials(r, s) PROVE Roles'
    <2>1. Role(s) /\ cursor[s] = 0
      <3>1. phase[s] = "none" BY <1>8 DEF Dials
      <3>2. Counting BY DEF Base
      <3> QED BY <1>2, <3>1, <3>2 DEF Counting, Counts, Early
    <2>2. Role(s)' BY <1>8, <2>1 DEF Role, Dials, Counters, Early, RunPhase
    <2>3. ASSUME NEW t \in Session, t # s PROVE Role(t)'
      <3>1. Same(t) /\ resuming'[t] = resuming[t] BY <1>8, <2>3 DEF Dials
      <3> QED BY <1>2, <3>1, RoleSame
    <2>4. \A t \in Session : phase[t] # "none" => phase'[t] # "none" /\ runOf'[t] = runOf[t] BY <1>8 DEF Dials, Same
    <2>5. ASSUME NEW q \in Run, q # r PROVE ClientRole(q)'
      <3>1. using'[q] = using[q] /\ client'[q] = client[q] BY <1>8, <2>5 DEF Dials
      <3> QED BY <1>4, <2>4, <3>1
    <2>6. ClientRole(r)' BY <1>3, <1>8 DEF Dials, ClientRole
    <2> QED BY <2>2, <2>3, <2>5, <2>6 DEF Roles
  <1>9. CASE Restart
    <2>1. \A t \in Session : /\ phase'[t] = IF phase[t] = "none" THEN "none" ELSE "ended"
                             /\ writer'[t] = IF phase[t] = "none" THEN "loop" ELSE "done"
                             /\ conn'[t] = FALSE /\ queue'[t] = << >> /\ pending'[t] = << >>
      BY <1>9 DEF Restart
    <2>2. UNCHANGED <<cursor, closed, queueOpen, wire, inbound, clientVars>> BY <1>9 DEF Restart
    <2>3. ASSUME NEW t \in Session PROVE Role(t)'
      <3>1. Role(t) BY <1>2
      <3>2. NoEvents(<< >>) BY DEF NoEvents
      <3> QED BY <2>1, <2>2, <3>1, <3>2 DEF Role, Early, RunPhase, clientVars
    <2>4. ASSUME NEW r \in Run PROVE ClientRole(r)'
      <3>1. \A t \in Session : phase[t] # "none" => phase'[t] # "none" /\ runOf'[t] = runOf[t]
        BY <2>1, <2>2 DEF clientVars
      <3> QED BY <1>4, <2>2, <3>1 DEF clientVars
    <2> QED BY <2>3, <2>4 DEF Roles
  <1>10. CASE (\E r \in Run : Produce(r)) \/ Stop \/ UNCHANGED vars
    <2>1. UNCHANGED <<serveVars, sendVars, outVars, inbound, clientVars>> BY <1>10 DEF Produce, Stop, vars
    <2>2. \A t \in Session : Same(t) BY <2>1 DEF Same, serveVars, sendVars, outVars
    <2>3. resuming' = resuming /\ runOf' = runOf /\ using' = using /\ client' = client BY <2>1 DEF clientVars
    <2>4. \A t \in Session : Role(t)' BY <1>2, <2>2, <2>3, RoleSame
    <2>5. \A r \in Run : ClientRole(r)' BY <1>4, <2>2, <2>3 DEF Same
    <2> QED BY <2>4, <2>5 DEF Roles
  <1> QED BY <1>5, <1>6, <1>7, <1>8, <1>9, <1>10, Happens

-----------------------------------------------------------------------------
(* One session at most executes a run.                                     *)

\* A session that was not asked to run anything just ends.
LEMMA UntouchedServes ==
  ASSUME NEW s \in Session, Serves(s), ~resuming[s], Untouched(s)
  PROVE  Untouched(s)'
  <1>1. inbound[s] = "none" /\ phase[s] \in Early \cup Closing BY DEF Untouched
  <1>2. CASE Talks(s) BY <1>2 DEF Talks, Untouched, Keeps, Counters, Early, Closing
  <1>3. CASE Finishes(s) BY <1>3 DEF Finishes, Untouched, Counters, Early, Closing
  <1>4. CASE Ends(s) BY <1>4 DEF Ends, Untouched, Keeps, Counters, Early, Closing
  <1>5. ~Accepts(s) /\ ~Subscribes(s) /\ ~Publishes(s)
    BY <1>1 DEF Accepts, Subscribes, Publishes, Early, Closing
  <1>6. ~Skips(s) /\ ~Refused(s) /\ ~Emits(s, Timeout) /\ ~Emits(s, cursor[s] + 1)
    BY <1>1 DEF Skips, Refused, Emits, Early, Closing
  <1>7. ~Delivers(s) /\ ~Replays(s) /\ ~Resumes(s) BY <1>1 DEF Delivers, Replays, Resumes, Early, Closing
  <1> QED BY <1>2, <1>3, <1>4, <1>5, <1>6, <1>7 DEF Serves

LEMMA AloneKept ==
  ASSUME Base, [Next]_vars
  PROVE  Alone'
  <1>1. Types /\ Roles /\ Alone /\ Counting BY DEF Base
  <1>2. using \in [Run -> Session \cup {NoSession}] /\ NoSession \notin Session BY <1>1, AcpAssumption DEF Types
  <1>3. ASSUME \A t \in Session : \A r \in Run : RunSession(t, r)' <=> RunSession(t, r),
               \A t \in Session : ~resuming[t] /\ Untouched(t) => Untouched(t)',
               UNCHANGED <<client, using, resuming>>
        PROVE  Alone'
    <2> SUFFICES ASSUME NEW r \in Run, NEW s \in Session, RunSession(s, r)'
                 PROVE  /\ \A t \in Session : RunSession(t, r)' /\ s # t => Untouched(s)' \/ Untouched(t)'
                        /\ client[r] = "new" => Untouched(s)'
                        /\ \A u \in Session : Executing(r, u) /\ (client[r] = "dialled" \/ s # u) => Untouched(s)'
      BY <1>3 DEF Alone, Executing
    <2>1. RunSession(s, r) BY <1>3
    <2>2. \A t \in Session : RunSession(t, r) /\ Untouched(t) => Untouched(t)' BY <1>3 DEF RunSession
    <2> QED BY <1>1, <1>3, <2>1, <2>2 DEF Alone
  <1>4. ASSUME NEW s \in Session, Serves(s), Outside, \A t \in Session : t # s => Same(t) PROVE Alone'
    <2>1. UNCHANGED <<client, using, runOf, resuming>> BY <1>4 DEF Outside
    <2>2. \A t \in Session : (phase[t] = "none") <=> (phase'[t] = "none") BY <1>4, ServesOpen DEF Same
    <2>3. \A t \in Session : \A r \in Run : RunSession(t, r)' <=> RunSession(t, r) BY <2>1, <2>2 DEF RunSession
    <2>4. \A t \in Session : ~resuming[t] /\ Untouched(t) => Untouched(t)'
      <3>1. \A t \in Session : t # s /\ Untouched(t) => Untouched(t)' BY <1>4 DEF Same, Untouched
      <3> QED BY <1>4, <3>1, UntouchedServes
    <2> QED BY <1>3, <2>1, <2>3, <2>4
  <1>5. ASSUME NEW s \in Session, Writes(s) \/ Drops(s) \/ Exits(s), Outside, \A t \in Session : t # s => Same(t)
        PROVE  Alone'
    <2>1. UNCHANGED <<client, using, runOf, resuming>> BY <1>5 DEF Outside
    <2>2. ServesOn(s) /\ inbound'[s] = inbound[s] BY <1>5 DEF Writes, Drops, Exits
    <2>3. \A t \in Session : phase'[t] = phase[t] /\ inbound'[t] = inbound[t] /\ seqGen'[t] = seqGen[t] /\ cursor'[t] = cursor[t]
      BY <1>5, <2>2 DEF Same, ServesOn
    <2> QED BY <1>3, <2>1, <2>3 DEF RunSession, Untouched
  <1>6. ASSUME NEW r \in Run, NEW s \in Session, ClientOnly(r, s),
               ReadsControl(r, s) \/ ReadsEvent(r, s) \/ Leaves(r, s)
        PROVE  Alone'
    <2>1. /\ s = using[r] /\ UNCHANGED <<runOf, resuming>> /\ ServesOn(s)
          /\ \A t \in Session : t # s => Same(t)
          /\ \A q \in Run : q # r => using'[q] = using[q] /\ client'[q] = client[q]
      BY <1>6 DEF ClientOnly, OtherRuns
    <2>2. runOf[s] = r /\ phase[s] # "none" /\ client[r] \in {"dialled", "live"} /\ s # NoSession
      BY <1>1, <1>2, <2>1 DEF Roles, ClientRole
    <2>3. \A t \in Session : phase'[t] = phase[t] /\ seqGen'[t] = seqGen[t] /\ cursor'[t] = cursor[t]
      BY <2>1 DEF Same, ServesOn
    <2>4. \A t \in Session : t # s => inbound'[t] = inbound[t] BY <2>1 DEF Same
    <2>5. \A t \in Session : \A q \in Run : RunSession(t, q)' <=> RunSession(t, q) BY <2>1, <2>3 DEF RunSession
    <2>6. \A t \in Session : t # s \/ inbound'[t] \in {"none", inbound[t]} => (Untouched(t) => Untouched(t)')
      BY <2>3, <2>4 DEF Untouched
    <2>7. ASSUME NEW q \in Run, NEW t \in Session, RunSession(t, q)', q # r
          PROVE  /\ \A u \in Session : RunSession(u, q)' /\ t # u => Untouched(t)' \/ Untouched(u)'
                 /\ client'[q] = "new" => Untouched(t)'
                 /\ \A u \in Session : Executing(q, u)' /\ (client'[q] = "dialled" \/ t # u) => Untouched(t)'
      <3>1. RunSession(t, q) BY <2>5, <2>7
      <3>2. \A u \in Session : RunSession(u, q) => u # s BY <2>2, <2>7 DEF RunSession
      <3>3. using'[q] = using[q] /\ client'[q] = client[q] BY <2>1, <2>7
      <3>4. \A u \in Session : Executing(q, u)' => Executing(q, u) BY <2>1, <3>3 DEF Executing
      <3> QED BY <1>1, <2>5, <2>6, <3>1, <3>2, <3>3, <3>4 DEF Alone
    <2>8. ASSUME NEW t \in Session, RunSession(t, r)'
          PROVE  /\ \A u \in Session : RunSession(u, r)' /\ t # u => Untouched(t)' \/ Untouched(u)'
                 /\ client'[r] = "new" => Untouched(t)'
                 /\ \A u \in Session : Executing(r, u)' /\ (client'[r] = "dialled" \/ t # u) => Untouched(t)'
      <3>1. RunSession(t, r) BY <2>5, <2>8
      <3>2. ~resuming[s] => Executing(r, s) BY <2>1, <2>2 DEF Executing
      <3>3. CASE ReadsControl(r, s)
        <4>1. client'[r] = "live" /\ using'[r] = s BY <2>1, <3>3 DEF ReadsControl
        <4>2. ASSUME NEW u \in Session, RunSession(u, r), ~resuming[s], u # s PROVE Untouched(u)'
          <5>1. Untouched(u) BY <1>1, <3>2, <4>2 DEF Alone
          <5> QED BY <2>6, <4>2, <5>1
        <4>3. CASE resuming[s]
          <5>1. \A u \in Session : RunSession(u, r) => u # s BY <4>3 DEF RunSession
          <5>2. \A u \in Session : ~Executing(r, u)' BY <2>1, <4>1, <4>3 DEF Executing
          <5> QED BY <1>1, <2>5, <2>6, <3>1, <4>1, <5>1, <5>2 DEF Alone
        <4>4. CASE ~resuming[s]
          <5>1. \A u \in Session : Executing(r, u)' => u = s BY <4>1 DEF Executing
          <5> QED BY <2>5, <3>1, <4>1, <4>2, <4>4, <5>1
        <4> QED BY <4>3, <4>4
      <3>4. CASE ReadsEvent(r, s) \/ Leaves(r, s)
        <4>1. inbound'[s] \in {"none", inbound[s]} BY <3>4 DEF ReadsEvent, Leaves
        <4>2. \A u \in Session : Untouched(u) => Untouched(u)' BY <2>6, <4>1
        <4>3. \/ using'[r] = using[r] /\ client'[r] = client[r]
              \/ using'[r] = NoSession /\ client'[r] # "new"
              \/ using'[r] = NoSession /\ client[r] = "dialled" /\ ~resuming[s]
          BY <3>4 DEF ReadsEvent, Leaves, Left
        <4>4. CASE using'[r] = using[r] /\ client'[r] = client[r]
          <5>1. \A u \in Session : Executing(r, u)' => Executing(r, u) BY <2>1, <4>4 DEF Executing
          <5> QED BY <1>1, <2>5, <3>1, <4>2, <4>4, <5>1 DEF Alone
        <4>5. CASE using'[r] = NoSession /\ client'[r] # "new"
          <5>1. \A u \in Session : ~Executing(r, u)' BY <4>5 DEF Executing
          <5> QED BY <1>1, <2>5, <3>1, <4>2, <4>5, <5>1 DEF Alone
        <4>6. CASE using'[r] = NoSession /\ client[r] = "dialled" /\ ~resuming[s]
          <5>1. Untouched(t) BY <1>1, <3>1, <3>2, <4>6 DEF Alone
          <5> QED BY <4>2, <5>1
        <4> QED BY <4>3, <4>4, <4>5, <4>6
      <3> QED BY <1>6, <3>3, <3>4
    <2> QED BY <2>7, <2>8 DEF Alone
  <1>7. ASSUME NEW r \in Run, NEW s \in Session, Dials(r, s) PROVE Alone'
    <2>1. /\ phase[s] = "none" /\ phase'[s] = "hello" /\ runOf'[s] = r /\ resuming'[s] = (client[r] = "lost")
          /\ client[r] \in {"new", "lost"} /\ client'[r] = "dialled" /\ using'[r] = s
          /\ seqGen'[s] = seqGen[s] /\ cursor'[s] = cursor[s] /\ inbound'[s] = inbound[s]
          /\ \A t \in Session : t # s => Same(t) /\ runOf'[t] = runOf[t] /\ resuming'[t] = resuming[t]
          /\ \A q \in Run : q # r => client'[q] = client[q] /\ using'[q] = using[q]
      BY <1>7 DEF Dials, Counters
    <2>2. Untouched(s)'
      <3>1. inbound[s] = "none" BY <1>1, <2>1 DEF Roles, Role
      <3>2. seqGen[s] = 0 /\ cursor[s] = 0 BY <1>1, <2>1 DEF Counting, Counts, Early
      <3> QED BY <2>1, <3>1, <3>2 DEF Untouched, Early
    <2>3. \A t \in Session : t # s => (Untouched(t) => Untouched(t)') BY <2>1 DEF Same, Untouched
    <2>4. \A t \in Session : \A q \in Run : t # s => (RunSession(t, q)' <=> RunSession(t, q)) BY <2>1 DEF Same, RunSession
    <2>5. ASSUME NEW q \in Run, NEW t \in Session, RunSession(t, q)'
          PROVE  /\ \A u \in Session : RunSession(u, q)' /\ t # u => Untouched(t)' \/ Untouched(u)'
                 /\ client'[q] = "new" => Untouched(t)'
                 /\ \A u \in Session : Executing(q, u)' /\ (client'[q] = "dialled" \/ t # u) => Untouched(t)'
      <3>1. CASE t = s BY <2>2, <3>1
      <3>2. CASE t # s /\ q # r
        <4>1. RunSession(t, q) BY <2>4, <2>5, <3>2
        <4>2. using'[q] = using[q] /\ client'[q] = client[q] BY <2>1, <3>2
        <4>3. using[q] # s BY <1>1, <1>2, <2>1 DEF Roles, ClientRole
        <4>4. \A u \in Session : Executing(q, u)' => Executing(q, u) BY <2>1, <4>2, <4>3 DEF Executing
        <4> QED BY <1>1, <2>2, <2>3, <2>4, <3>2, <4>1, <4>2, <4>4 DEF Alone
      <3>3. CASE t # s /\ q = r
        <4>1. RunSession(t, r) BY <2>4, <2>5, <3>3
        <4>2. \A u \in Session : RunSession(u, r)' /\ t # u => Untouched(t)' \/ Untouched(u)'
          BY <1>1, <2>2, <2>3, <2>4, <3>3, <4>1 DEF Alone
        <4>3. ASSUME NEW u \in Session, Executing(r, u)' PROVE Untouched(t)'
          <5>1. client[r] = "new" BY <2>1, <4>3 DEF Executing
          <5>2. Untouched(t) BY <1>1, <4>1, <5>1 DEF Alone
          <5> QED BY <2>3, <3>3, <5>2
        <4> QED BY <2>1, <3>3, <4>2, <4>3
      <3> QED BY <3>1, <3>2, <3>3
    <2> QED BY <2>5 DEF Alone
  <1>8. CASE Restart
    <2>1. UNCHANGED <<client, using, runOf, resuming, inbound, seqGen, cursor>> BY <1>8 DEF Restart, clientVars
    <2>2. \A t \in Session : phase'[t] = IF phase[t] = "none" THEN "none" ELSE "ended" BY <1>8 DEF Restart
    <2>3. \A t \in Session : \A r \in Run : RunSession(t, r)' <=> RunSession(t, r) BY <2>1, <2>2 DEF RunSession
    <2>4. \A t \in Session : Untouched(t) => Untouched(t)' BY <2>1, <2>2 DEF Untouched, Early, Closing
    <2> QED BY <1>3, <2>1, <2>3, <2>4
  <1>9. CASE (\E r \in Run : Produce(r)) \/ Stop \/ UNCHANGED vars
    <2>1. UNCHANGED <<client, using, runOf, resuming, inbound, seqGen, cursor, phase>>
      BY <1>9 DEF Produce, Stop, vars, clientVars, serveVars
    <2> QED BY <1>3, <2>1 DEF RunSession, Untouched
  <1> QED BY <1>4, <1>5, <1>6, <1>7, <1>8, <1>9, Happens

-----------------------------------------------------------------------------
(* A run is subscribed to before its first event.                          *)

LEMMA BegunServes ==
  ASSUME NEW s \in Session, Serves(s), Begun(s), ~resuming[s]
  PROVE  /\ Begun(s)' /\ published' = published
         /\ phase[s] \notin Early => phase'[s] \notin Early
  <1>1. CASE Talks(s) BY <1>1 DEF Talks, Begun, Keeps, Early
  <1>2. ~Accepts(s) /\ ~Subscribes(s) /\ ~Publishes(s) BY DEF Accepts, Subscribes, Publishes, Begun, Early
  <1>3. CASE Skips(s) \/ Refused(s) BY <1>3 DEF Skips, Refused, Begun, Early
  <1>4. CASE Emits(s, Timeout) \/ Emits(s, cursor[s] + 1) BY <1>4 DEF Emits, Begun, Early
  <1>5. CASE Delivers(s) BY <1>5 DEF Delivers, Begun, Early
  <1>6. CASE Replays(s) \/ Finishes(s) \/ Ends(s) BY <1>6 DEF Replays, Finishes, Ends, Begun, Early
  <1>7. ~Resumes(s) BY DEF Resumes
  <1> QED BY <1>1, <1>2, <1>3, <1>4, <1>5, <1>6, <1>7 DEF Serves

\* Only the session that publishes a run's task makes it published.
LEMMA PublishedBy ==
  ASSUME NEW s \in Session, Serves(s)
  PROVE  published' = published \/ Publishes(s)
  <1>1. CASE Talks(s) \/ Accepts(s) \/ Subscribes(s) BY <1>1 DEF Talks, Accepts, Subscribes
  <1>2. CASE Skips(s) \/ Refused(s) BY <1>2 DEF Skips, Refused
  <1>3. CASE Emits(s, Timeout) \/ Emits(s, cursor[s] + 1) BY <1>3 DEF Emits
  <1>4. CASE Delivers(s) \/ Resumes(s) \/ Replays(s) BY <1>4 DEF Delivers, Resumes, Replays
  <1>5. CASE Finishes(s) \/ Ends(s) BY <1>5 DEF Finishes, Ends
  <1> QED BY <1>1, <1>2, <1>3, <1>4, <1>5 DEF Serves

LEMMA FreshKept ==
  ASSUME Base, [Next]_vars
  PROVE  Fresh'
  <1>1. Types /\ Roles /\ Alone /\ Fresh BY DEF Base
  <1>2. /\ using \in [Run -> Session \cup {NoSession}] /\ NoSession \notin Session
        /\ runOf \in [Session -> Run] /\ produced \in [Run -> 0..EventCount] /\ published \subseteq Run
    BY <1>1, AcpAssumption DEF Types
  <1>3. /\ \A r \in Run : r \notin published => produced[r] = 0
        /\ \A r \in published : BegunFor(r)
    BY <1>1 DEF Fresh
  <1>4. ASSUME NEW s \in Session, Serves(s), Outside, \A t \in Session : t # s => Same(t) PROVE Fresh'
    <2>1. UNCHANGED <<client, using, runOf, resuming, produced>> BY <1>4 DEF Outside
    <2>2. \A t \in Session : (phase[t] = "none") <=> (phase'[t] = "none") BY <1>4, ServesOpen DEF Same
    <2>3. \A t \in Session : \A r \in Run : RunSession(t, r)' <=> RunSession(t, r) BY <2>1, <2>2 DEF RunSession
    <2>4. ASSUME NEW t \in Session, Begun(t), ~resuming[t]
          PROVE  Begun(t)' /\ (phase[t] \notin Early => phase'[t] \notin Early)
      <3>1. CASE t = s BY <1>4, <2>4, <3>1, BegunServes
      <3>2. CASE t # s BY <1>4, <2>4, <3>2 DEF Same, Begun
      <3> QED BY <3>1, <3>2
    <2>5. ASSUME NEW r \in published PROVE BegunFor(r)'
      <3>1. BegunFor(r) /\ r \in Run BY <1>2, <1>3
      <3>2. \A t \in Session : RunSession(t, r)' => Begun(t)' BY <2>3, <2>4, <3>1 DEF BegunFor, RunSession
      <3>3. ASSUME NEW u \in Session, Executing(r, u)' PROVE client'[r] = "live" /\ phase'[u] \notin Early
        <4>1. Executing(r, u) BY <2>1, <3>3 DEF Executing
        <4>2. RunSession(u, r) BY <1>1, <3>1, <4>1 DEF Roles, ClientRole, Executing, RunSession
        <4>3. client[r] = "live" /\ phase[u] \notin Early /\ Begun(u) BY <3>1, <4>1, <4>2 DEF BegunFor
        <4> QED BY <2>1, <2>4, <4>2, <4>3 DEF RunSession
      <3> QED BY <2>1, <3>1, <3>2, <3>3 DEF BegunFor
    <2>6. CASE published' = published BY <1>3, <2>1, <2>5, <2>6 DEF Fresh
    <2>7. CASE Publishes(s)
      <3>1. PICK r \in Run : r = runOf[s] BY <1>2
      <3>2. /\ published' = published \cup {r} /\ phase[s] = "publish" /\ phase'[s] = "stream"
        BY <2>7, <3>1 DEF Publishes
      <3>3. RunSession(s, r) BY <1>1, <3>1, <3>2 DEF RunSession, Roles, Role, RunPhase
      <3>4. ~Untouched(s) BY <3>2 DEF Untouched, Early, Closing
      <3>5. client[r] # "new" /\ \A u \in Session : Executing(r, u) => client[r] # "dialled" /\ u = s
        BY <1>1, <3>3, <3>4 DEF Alone
      <3>6. ASSUME NEW t \in Session, RunSession(t, r)' PROVE Begun(t)'
        <4>1. CASE t = s BY <3>2, <4>1 DEF Begun, Early
        <4>2. CASE t # s
          <5>1. Untouched(t) BY <1>1, <2>3, <3>3, <3>4, <3>6, <4>2 DEF Alone
          <5> QED BY <1>4, <4>2, <5>1 DEF Untouched, Begun, Same, Early, Closing
        <4> QED BY <4>1, <4>2
      <3>7. ASSUME NEW u \in Session, Executing(r, u)' PROVE client'[r] = "live" /\ phase'[u] \notin Early
        <4>1. Executing(r, u) BY <2>1, <3>7 DEF Executing
        <4>2. u = s /\ client[r] # "dialled" BY <3>5, <4>1
        <4>3. client[r] = "live" BY <1>1, <4>1, <4>2 DEF Roles, ClientRole, Executing
        <4> QED BY <2>1, <3>2, <4>2, <4>3 DEF Early
      <3>8. BegunFor(r)' BY <2>1, <3>5, <3>6, <3>7 DEF BegunFor
      <3> QED BY <1>3, <2>1, <2>5, <3>2, <3>8 DEF Fresh
    <2> QED BY <1>4, <2>6, <2>7, PublishedBy
  <1>5. ASSUME UNCHANGED <<client, using, runOf, resuming, inbound, published>>,
               \A t \in Session : phase'[t] = IF phase[t] = "none" THEN "none" ELSE "ended",
               UNCHANGED produced
        PROVE  Fresh'
    <2>1. ASSUME NEW r \in published PROVE BegunFor(r)'
      <3>1. BegunFor(r) /\ r \in Run BY <1>2, <1>3
      <3>2. ASSUME NEW u \in Session, Executing(r, u)' PROVE client'[r] = "live" /\ phase'[u] \notin Early
        <4>1. Executing(r, u) BY <1>5, <3>2 DEF Executing
        <4>2. phase[u] # "none" BY <1>1, <3>1, <4>1 DEF Roles, ClientRole, Executing
        <4> QED BY <1>5, <3>1, <4>1, <4>2 DEF BegunFor, Early
      <3>3. \A t \in Session : RunSession(t, r)' => Begun(t)' BY <1>5 DEF RunSession, Begun, Early
      <3> QED BY <1>5, <3>1, <3>2, <3>3 DEF BegunFor
    <2> QED BY <1>3, <1>5, <2>1 DEF Fresh
  <1>6. ASSUME UNCHANGED <<client, using, runOf, resuming, published>>,
               \A t \in Session : phase'[t] = phase[t] /\ inbound'[t] = inbound[t],
               \A r \in Run : r \notin published => produced'[r] = produced[r]
        PROVE  Fresh'
    <2>1. ASSUME NEW r \in published PROVE BegunFor(r)'
      <3>1. BegunFor(r) /\ r \in Run BY <1>2, <1>3
      <3> QED BY <1>6, <3>1 DEF BegunFor, Executing, RunSession, Begun
    <2> QED BY <1>3, <1>6, <2>1 DEF Fresh
  <1>7. ASSUME NEW s \in Session, Writes(s) \/ Drops(s) \/ Exits(s), Outside, UNCHANGED <<cache, dropped, published>>,
               \A t \in Session : t # s => Same(t)
        PROVE  Fresh'
    <2>1. UNCHANGED <<client, using, runOf, resuming, produced, published>> BY <1>7 DEF Outside
    <2>2. ServesOn(s) /\ inbound'[s] = inbound[s] BY <1>7 DEF Writes, Drops, Exits
    <2>3. \A t \in Session : phase'[t] = phase[t] /\ inbound'[t] = inbound[t] BY <1>7, <2>2 DEF Same, ServesOn
    <2> QED BY <1>6, <2>1, <2>3
  <1>8. ASSUME NEW r \in Run, NEW s \in Session, ClientOnly(r, s),
               ReadsControl(r, s) \/ ReadsEvent(r, s) \/ Leaves(r, s)
        PROVE  Fresh'
    <2>1. /\ s = using[r] /\ UNCHANGED <<runOf, resuming, produced, published>> /\ ServesOn(s)
          /\ \A t \in Session : t # s => Same(t)
          /\ \A q \in Run : q # r => using'[q] = using[q] /\ client'[q] = client[q]
      BY <1>8 DEF ClientOnly, OtherRuns
    <2>2. runOf[s] = r /\ phase[s] # "none" /\ s # NoSession BY <1>1, <1>2, <2>1 DEF Roles, ClientRole
    <2>3. \A t \in Session : phase'[t] = phase[t] BY <2>1 DEF Same, ServesOn
    <2>4. \A t \in Session : t # s => inbound'[t] = inbound[t] BY <2>1 DEF Same
    <2>5. ASSUME NEW q \in published PROVE BegunFor(q)'
      <3>1. BegunFor(q) /\ q \in Run BY <1>2, <1>3
      <3>2. CASE q # r
        <4>1. using'[q] = using[q] /\ client'[q] = client[q] BY <2>1, <3>1, <3>2
        <4>2. \A t \in Session : RunSession(t, q)' => RunSession(t, q) /\ t # s
          BY <2>1, <2>2, <2>3, <3>2 DEF RunSession
        <4>3. \A t \in Session : RunSession(t, q)' => Begun(t)' BY <2>3, <2>4, <3>1, <4>2 DEF BegunFor, Begun
        <4>4. \A u \in Session : Executing(q, u)' => Executing(q, u) BY <2>1, <4>1 DEF Executing
        <4> QED BY <2>3, <3>1, <4>1, <4>3, <4>4 DEF BegunFor
      <3>3. CASE q = r
        <4>1. ~resuming[s] => Executing(r, s) BY <2>1, <2>2 DEF Executing
        <4>2. ~resuming[s] => client[r] = "live" /\ phase[s] \notin Early BY <3>1, <3>3, <4>1 DEF BegunFor
        <4>3. ASSUME NEW t \in Session, RunSession(t, r)' PROVE Begun(t)'
          <5>1. RunSession(t, r) BY <2>1, <2>3, <4>3 DEF RunSession
          <5>2. Begun(t) BY <3>1, <3>3, <5>1 DEF BegunFor
          <5>3. t = s => phase[t] \notin Early BY <4>2, <5>1 DEF RunSession
          <5> QED BY <2>3, <2>4, <5>2, <5>3 DEF Begun
        <4>4. client'[r] # "new"
          <5>1. client[r] # "new" BY <3>1, <3>3 DEF BegunFor
          <5> QED BY <1>8, <4>2, <5>1 DEF ReadsControl, ReadsEvent, Leaves
        <4>5. ASSUME NEW u \in Session, Executing(r, u)' PROVE client'[r] = "live" /\ phase'[u] \notin Early
          <5>1. using'[r] = u /\ u # NoSession /\ ~resuming[u] BY <2>1, <4>5 DEF Executing
          <5>2. using'[r] = using[r] /\ client'[r] \in {"live", client[r]}
            BY <1>8, <5>1 DEF ReadsControl, ReadsEvent, Leaves, Left
          <5>3. u = s BY <2>1, <5>1, <5>2
          <5> QED BY <2>3, <4>2, <5>1, <5>2, <5>3
        <4> QED BY <3>3, <4>3, <4>4, <4>5 DEF BegunFor
      <3> QED BY <3>2, <3>3
    <2> QED BY <1>3, <2>1, <2>5 DEF Fresh
  <1>9. ASSUME NEW r \in Run, NEW s \in Session, Dials(r, s) PROVE Fresh'
    <2>1. /\ phase[s] = "none" /\ runOf'[s] = r /\ resuming'[s] = (client[r] = "lost")
          /\ client[r] \in {"new", "lost"} /\ client'[r] = "dialled" /\ using'[r] = s
          /\ UNCHANGED <<produced, published>>
          /\ \A t \in Session : t # s => Same(t) /\ runOf'[t] = runOf[t] /\ resuming'[t] = resuming[t]
          /\ \A q \in Run : q # r => client'[q] = client[q] /\ using'[q] = using[q]
      BY <1>9 DEF Dials
    <2>2. \A t \in Session : \A q \in Run : t # s => (RunSession(t, q)' <=> RunSession(t, q)) BY <2>1 DEF Same, RunSession
    <2>3. \A t \in Session : t # s => (Begun(t) => Begun(t)') BY <2>1 DEF Same, Begun
    <2>4. ASSUME NEW q \in published PROVE BegunFor(q)'
      <3>1. BegunFor(q) /\ q \in Run BY <1>2, <1>3
      <3>2. ~RunSession(s, q)' BY <2>1, <3>1 DEF RunSession, BegunFor
      <3>3. \A t \in Session : RunSession(t, q)' => Begun(t)' BY <2>2, <2>3, <3>1, <3>2 DEF BegunFor
      <3>4. CASE q = r
        <4>1. client[r] = "lost" BY <2>1, <3>1, <3>4 DEF BegunFor
        <4>2. \A u \in Session : ~Executing(q, u)' BY <2>1, <3>4, <4>1 DEF Executing
        <4> QED BY <2>1, <3>3, <3>4, <4>2 DEF BegunFor
      <3>5. CASE q # r
        <4>1. using'[q] = using[q] /\ client'[q] = client[q] BY <2>1, <3>1, <3>5
        <4>2. using[q] # s BY <1>1, <1>2, <2>1, <3>1 DEF Roles, ClientRole
        <4>3. \A u \in Session : Executing(q, u)' => Executing(q, u) /\ u # s BY <2>1, <4>1, <4>2 DEF Executing
        <4>4. \A u \in Session : u # s => phase'[u] = phase[u] BY <2>1 DEF Same
        <4> QED BY <3>1, <3>3, <4>1, <4>3, <4>4 DEF BegunFor
      <3> QED BY <3>4, <3>5
    <2> QED BY <1>3, <2>1, <2>4 DEF Fresh
  <1>10. CASE Restart
    <2>1. UNCHANGED <<client, using, runOf, resuming, inbound, published, produced>> BY <1>10 DEF Restart, clientVars
    <2>2. \A t \in Session : phase'[t] = IF phase[t] = "none" THEN "none" ELSE "ended" BY <1>10 DEF Restart
    <2> QED BY <1>5, <2>1, <2>2
  <1>11. ASSUME NEW r \in Run, Produce(r) PROVE Fresh'
    <2>1. UNCHANGED <<client, using, runOf, resuming, published, phase, inbound>>
      BY <1>11 DEF Produce, clientVars, serveVars
    <2>2. \A q \in Run : q \notin published => produced'[q] = produced[q] BY <1>2, <1>11 DEF Produce
    <2> QED BY <1>6, <2>1, <2>2
  <1>12. CASE Stop \/ UNCHANGED vars
    <2>1. UNCHANGED <<client, using, runOf, resuming, published, produced, phase, inbound>>
      BY <1>12 DEF Stop, vars, clientVars, serveVars, envVars
    <2> QED BY <1>6, <2>1
  <1> QED BY <1>4, <1>7, <1>8, <1>9, <1>10, <1>11, <1>12, Happens

-----------------------------------------------------------------------------
(* The numbers of the events.                                              *)

LEMMA CountsServes ==
  ASSUME Base, NEW s \in Session, Serves(s)
  PROVE  Counts(s)'
  <1>1. Types /\ Roles /\ Fresh /\ Counts(s) BY DEF Base, Counting
  <1>2. /\ seqGen[s] \in Nat /\ cursor[s] \in 0..EventCount /\ EventCount \in Nat /\ pending[s] \in Seq(Event)
        /\ runOf[s] \in Run
    BY <1>1, AcpAssumption DEF Types
  <1>3. CASE Talks(s) \/ Accepts(s) BY <1>1, <1>3 DEF Talks, Accepts, Counters, Counts, Early
  <1>4. CASE Subscribes(s)
    <2>1. phase[s] = "subscribe" /\ cursor'[s] = produced[runOf[s]] /\ seqGen'[s] = seqGen[s] /\ phase'[s] = "publish"
      BY <1>4 DEF Subscribes
    <2>2. RunSession(s, runOf[s]) BY <1>1, <2>1 DEF RunSession, Roles, Role, RunPhase
    <2>3. runOf[s] \notin published BY <1>1, <2>1, <2>2 DEF Fresh, BegunFor, Begun
    <2>4. produced[runOf[s]] = 0 BY <1>1, <1>2, <2>3 DEF Fresh
    <2> QED BY <1>1, <2>1, <2>4 DEF Counts, Early
  <1>5. CASE Publishes(s)
    <2>1. seqGen'[s] = 0 /\ cursor'[s] = 0 /\ phase'[s] = "stream" BY <1>1, <1>5 DEF Publishes, Counters, Counts
    <2>2. Len(VisibleUpTo[0]) = 0 BY VisibleUpToIs
    <2> QED BY <2>1, <2>2 DEF Counts, Early
  <1>6. CASE Skips(s)
    <2>1. /\ phase'[s] = "stream" /\ phase[s] = "stream" /\ cursor'[s] = cursor[s] + 1 /\ seqGen'[s] = seqGen[s]
          /\ cursor[s] < EventCount /\ cursor[s] + 1 \in Hidden
      BY <1>6 DEF Skips
    <2>2. Len(VisibleUpTo[cursor[s] + 1]) = Len(VisibleUpTo[cursor[s]]) BY <1>2, <2>1, NextVisible
    <2>3. seqGen'[s] = Len(VisibleUpTo[cursor'[s]]) BY <1>1, <2>1, <2>2 DEF Counts
    <2> QED BY <2>1, <2>3 DEF Counts, Early
  <1>7. CASE Refused(s) BY <1>7 DEF Refused, Counts, Early
  <1>8. ASSUME NEW ev, Emits(s, ev) PROVE Counts(s)'
    <2>1. PICK e : e = [seq |-> seqGen[s] + 1, ev |-> ev] OBVIOUS
    <2>2. /\ phase[s] = "stream" /\ phase'[s] = "emit" /\ seqGen'[s] = seqGen[s] + 1 /\ pending'[s] = <<e>>
          /\ \/ ev = Timeout /\ cursor'[s] = cursor[s]
             \/ /\ cursor[s] < EventCount /\ cursor[s] + 1 \notin Hidden
                /\ ev = cursor[s] + 1 /\ cursor'[s] = cursor[s] + 1
      BY <1>8, <2>1 DEF Emits
    <2>3. e.seq = seqGen[s] + 1 /\ e.ev = ev BY <2>1
    <2>4. Len(pending'[s]) = 1 /\ pending'[s][1] = e BY <2>2
    <2>5. CASE ev = Timeout BY <1>2, <2>2, <2>3, <2>4, <2>5 DEF Counts, Early
    <2>6. CASE /\ cursor[s] < EventCount /\ cursor[s] + 1 \notin Hidden
               /\ ev = cursor[s] + 1 /\ cursor'[s] = cursor[s] + 1
      <3>1. Len(VisibleUpTo[cursor[s] + 1]) = Len(VisibleUpTo[cursor[s]]) + 1 BY <1>2, <2>6, NextVisible
      <3>2. seqGen'[s] = Len(VisibleUpTo[cursor'[s]]) BY <1>1, <2>2, <2>6, <3>1 DEF Counts
      <3> QED BY <1>2, <2>2, <2>3, <2>4, <2>6, <3>2 DEF Counts, Early
    <2> QED BY <2>2, <2>5, <2>6
  <1>9. CASE Delivers(s)
    <2>1. /\ phase[s] = "emit" /\ seqGen'[s] = seqGen[s] /\ cursor'[s] = cursor[s]
          /\ phase'[s] = IF Terminal(Head(pending[s]).ev) THEN "close" ELSE "stream"
      BY <1>9 DEF Delivers
    <2>2. Len(pending[s]) = 1 BY <1>1, <2>1 DEF Counts
    <2>3. Head(pending[s]) = pending[s][1] BY <1>2, <2>2, NotEmpty, TailIs
    <2>4. CASE Terminal(pending[s][1].ev) BY <2>1, <2>3, <2>4 DEF Counts, Early
    <2>5. CASE ~Terminal(pending[s][1].ev)
      <3>1. pending[s][1].ev # Timeout BY <2>5 DEF Terminal
      <3>2. seqGen[s] = Len(VisibleUpTo[cursor[s]]) BY <1>1, <2>1, <3>1 DEF Counts
      <3> QED BY <2>1, <2>3, <2>5, <3>2 DEF Counts, Early
    <2> QED BY <2>4, <2>5
  <1>10. CASE Resumes(s) \/ Replays(s) BY <1>10 DEF Resumes, Replays, Counts, Early
  <1>11. CASE Finishes(s) \/ Ends(s) BY <1>11 DEF Finishes, Ends, Counts, Early
  <1> QED BY <1>3, <1>4, <1>5, <1>6, <1>7, <1>8, <1>9, <1>10, <1>11 DEF Serves

LEMMA CountingKept ==
  ASSUME Base, [Next]_vars
  PROVE  Counting'
  <1>1. \A t \in Session : Counts(t) BY DEF Base, Counting
  <1>2. ASSUME NEW t \in Session, phase'[t] = phase[t], seqGen'[t] = seqGen[t], cursor'[t] = cursor[t], pending'[t] = pending[t]
        PROVE  Counts(t)'
    BY <1>1, <1>2 DEF Counts
  <1>3. \A t \in Session : Same(t) \/ ServesOn(t) => Counts(t)' BY <1>2 DEF Same, ServesOn
  <1>4. ASSUME NEW s \in Session, Serves(s), \A t \in Session : t # s => Same(t) PROVE Counting'
    BY <1>3, <1>4, CountsServes DEF Counting
  <1>5. ASSUME NEW s \in Session, Writes(s) \/ Drops(s) \/ Exits(s), \A t \in Session : t # s => Same(t)
        PROVE  Counting'
    BY <1>3, <1>5 DEF Counting, Writes, Drops, Exits
  <1>6. ASSUME NEW r \in Run, NEW s \in Session, ClientOnly(r, s) PROVE Counting'
    BY <1>3, <1>6 DEF Counting, ClientOnly
  <1>7. ASSUME NEW r \in Run, NEW s \in Session, Dials(r, s) PROVE Counting'
    <2>1. phase[s] = "none" /\ phase'[s] = "hello" /\ Counters(s) BY <1>7 DEF Dials
    <2>2. Counts(s)' BY <1>1, <2>1 DEF Counts, Counters, Early
    <2> QED BY <1>3, <1>7, <2>2 DEF Counting, Dials
  <1>8. CASE Restart
    <2>1. \A t \in Session : phase'[t] = IF phase[t] = "none" THEN "none" ELSE "ended" BY <1>8 DEF Restart
    <2>2. seqGen' = seqGen /\ cursor' = cursor BY <1>8 DEF Restart
    <2>3. \A t \in Session : Counts(t)' BY <1>1, <2>1, <2>2 DEF Counts, Early
    <2> QED BY <2>3 DEF Counting
  <1>9. CASE (\E r \in Run : Produce(r)) \/ Stop \/ UNCHANGED vars
    <2>1. UNCHANGED serveVars BY <1>9 DEF Produce, Stop, vars
    <2> QED BY <1>2, <2>1 DEF Counting, serveVars
  <1> QED BY <1>4, <1>5, <1>6, <1>7, <1>8, <1>9, Happens

-----------------------------------------------------------------------------
(* An event that was emitted is not forgotten.                             *)

\* The session of a run goes on: it numbers upwards, and after a timeout it ends.
Onward(t) ==
  /\ resuming'[t] = resuming[t] /\ runOf'[t] = runOf[t] /\ phase'[t] # "none"
  /\ seqGen'[t] \in Nat /\ seqGen'[t] >= seqGen[t]
  /\ phase[t] \in {"emit", "close"} \cup Closing =>
       /\ seqGen'[t] = seqGen[t]
       /\ \/ phase'[t] \in {"close"} \cup Closing
          \/ phase[t] = "emit" /\ phase'[t] = "emit" /\ pending'[t] = pending[t]
          \/ phase[t] = "emit" /\ ~Terminal(Head(pending[t]).ev)

LEMMA OnwardServes ==
  ASSUME Types, Roles, NEW s \in Session, Serves(s), Outside, ~resuming[s]
  PROVE  Onward(s)
  <1>1. resuming'[s] = resuming[s] /\ runOf'[s] = runOf[s] BY DEF Outside
  <1>2. phase'[s] # "none" BY ServesOpen
  <1>3. seqGen[s] \in Nat BY DEF Types
  <1>4. CASE Talks(s) BY <1>1, <1>2, <1>3, <1>4 DEF Talks, Counters, Onward, Closing
  <1>5. CASE Accepts(s) \/ Subscribes(s) \/ Publishes(s)
    BY <1>1, <1>2, <1>3, <1>5 DEF Accepts, Subscribes, Publishes, Counters, Onward, Closing
  <1>6. CASE Skips(s) \/ Refused(s) BY <1>1, <1>2, <1>3, <1>6 DEF Skips, Refused, Onward, Closing
  <1>7. CASE Emits(s, Timeout) \/ Emits(s, cursor[s] + 1)
    BY <1>1, <1>2, <1>3, <1>7 DEF Emits, Onward, Closing
  <1>8. CASE Delivers(s) BY <1>1, <1>2, <1>3, <1>8 DEF Delivers, Onward, Closing
  <1>9. ~Resumes(s) /\ ~Replays(s) BY DEF Resumes, Replays, Roles, Role
  <1>10. CASE Finishes(s) \/ Ends(s) BY <1>1, <1>2, <1>3, <1>10 DEF Finishes, Ends, Counters, Onward, Closing
  <1> QED BY <1>4, <1>5, <1>6, <1>7, <1>8, <1>9, <1>10 DEF Serves

LEMMA CachedBy ==
  ASSUME NEW s \in Session, Serves(s)
  PROVE  (cache' = cache /\ dropped' = dropped) \/ Emits(s, Timeout) \/ Emits(s, cursor[s] + 1)
  <1>1. CASE Talks(s) \/ Accepts(s) \/ Subscribes(s) BY <1>1 DEF Talks, Accepts, Subscribes
  <1>2. CASE Publishes(s) \/ Skips(s) \/ Refused(s) BY <1>2 DEF Publishes, Skips, Refused
  <1>3. CASE Delivers(s) \/ Resumes(s) \/ Replays(s) BY <1>3 DEF Delivers, Resumes, Replays
  <1>4. CASE Finishes(s) \/ Ends(s) BY <1>4 DEF Finishes, Ends
  <1> QED BY <1>1, <1>2, <1>3, <1>4 DEF Serves

LEMMA Onwards ==
  ASSUME Base, [Next]_vars
  PROVE  /\ \A t \in Session : ~resuming[t] /\ phase[t] # "none" => Onward(t)
         /\ \A r \in Run : cache[r] \subseteq cache'[r] /\ dropped[r] \subseteq dropped'[r]
         /\ gateway' = "first" => gateway = "first"
  <1>1. Types /\ Roles BY DEF Base
  <1>2. \A t \in Session : seqGen[t] \in Nat /\ phase[t] \in Phase BY <1>1 DEF Types
  <1>3. ASSUME NEW t \in Session, phase[t] # "none", phase'[t] = phase[t], seqGen'[t] = seqGen[t], pending'[t] = pending[t],
               resuming'[t] = resuming[t], runOf'[t] = runOf[t]
        PROVE  Onward(t)
    BY <1>2, <1>3 DEF Onward
  <1>4. ASSUME NEW t \in Session, phase[t] # "none", Same(t) \/ ServesOn(t), resuming'[t] = resuming[t], runOf'[t] = runOf[t]
        PROVE  Onward(t)
    BY <1>3, <1>4 DEF Same, ServesOn
  <1>5. ASSUME NEW s \in Session, Serves(s), Outside, \A t \in Session : t # s => Same(t)
        PROVE  /\ \A t \in Session : ~resuming[t] /\ phase[t] # "none" => Onward(t)
               /\ \A r \in Run : cache[r] \subseteq cache'[r] /\ dropped[r] \subseteq dropped'[r]
               /\ gateway' = "first" => gateway = "first"
    <2>1. resuming' = resuming /\ runOf' = runOf /\ gateway' = gateway BY <1>5 DEF Outside
    <2>2. \A t \in Session : t # s /\ phase[t] # "none" => Onward(t) BY <1>4, <1>5, <2>1
    <2>3. ~resuming[s] => Onward(s) BY <1>1, <1>5, OnwardServes
    <2>4. \A r \in Run : cache[r] \subseteq cache'[r] /\ dropped[r] \subseteq dropped'[r]
      <3>1. CASE cache' = cache /\ dropped' = dropped BY <3>1
      <3>2. ASSUME NEW ev, Emits(s, ev) PROVE \A r \in Run : cache[r] \subseteq cache'[r] /\ dropped[r] \subseteq dropped'[r]
        BY <3>2 DEF Emits
      <3> QED BY <1>5, <3>1, <3>2, CachedBy
    <2> QED BY <2>1, <2>2, <2>3, <2>4
  <1>6. ASSUME NEW s \in Session, Writes(s) \/ Drops(s) \/ Exits(s), Outside, \A t \in Session : t # s => Same(t)
        PROVE  \A t \in Session : phase[t] # "none" => Onward(t)
    <2>1. resuming' = resuming /\ runOf' = runOf BY <1>6 DEF Outside
    <2>2. ServesOn(s) BY <1>6 DEF Writes, Drops, Exits
    <2> QED BY <1>4, <1>6, <2>1, <2>2
  <1>7. ASSUME NEW r \in Run, NEW s \in Session, ClientOnly(r, s)
        PROVE  \A t \in Session : phase[t] # "none" => Onward(t)
    <2>1. resuming' = resuming /\ runOf' = runOf /\ ServesOn(s) /\ \A t \in Session : t # s => Same(t)
      BY <1>7 DEF ClientOnly
    <2> QED BY <1>4, <2>1
  <1>8. ASSUME NEW r \in Run, NEW s \in Session, Dials(r, s)
        PROVE  \A t \in Session : phase[t] # "none" => Onward(t)
    <2>1. /\ phase[s] = "none"
          /\ \A t \in Session : t # s => Same(t) /\ runOf'[t] = runOf[t] /\ resuming'[t] = resuming[t]
      BY <1>8 DEF Dials
    <2> QED BY <1>4, <2>1
  <1>9. CASE Restart
    <2>1. \A t \in Session : phase'[t] = IF phase[t] = "none" THEN "none" ELSE "ended" BY <1>9 DEF Restart
    <2>2. UNCHANGED <<seqGen, runOf, resuming, cache, dropped>> /\ gateway' = "second" BY <1>9 DEF Restart, clientVars
    <2>3. \A t \in Session : phase[t] # "none" => Onward(t) BY <1>2, <2>1, <2>2 DEF Onward, Closing
    <2> QED BY <2>2, <2>3
  <1>10. CASE (\E r \in Run : Produce(r)) \/ Stop \/ UNCHANGED vars
    <2>1. UNCHANGED <<serveVars, clientVars, cache, dropped>> BY <1>10 DEF Produce, Stop, vars, envVars
    <2>2. \A t \in Session : phase[t] # "none" => Onward(t) BY <1>3, <2>1 DEF serveVars, clientVars
    <2>3. gateway' = "first" => gateway = "first" BY <1>10 DEF Produce, Stop, vars, envVars
    <2> QED BY <2>1, <2>2, <2>3
  <1>11. ASSUME NEW s \in Session, Outside, UNCHANGED <<cache, dropped, published>>
         PROVE  cache' = cache /\ dropped' = dropped /\ gateway' = gateway
    BY <1>11 DEF Outside
  <1>12. ASSUME NEW r \in Run, NEW s \in Session, ClientOnly(r, s) \/ Dials(r, s)
         PROVE  cache' = cache /\ dropped' = dropped /\ gateway' = gateway
    BY <1>12 DEF ClientOnly, Dials
  <1> QED BY <1>5, <1>6, <1>7, <1>8, <1>9, <1>10, <1>11, <1>12, Happens

LEMMA KnownStays ==
  ASSUME Base, [Next]_vars, NEW r \in Run, NEW e \in Event, Known(r, e)
  PROVE  Known(r, e)'
  <1>1. PICK s \in Session :
          /\ RunSession(s, r) /\ e.seq \in 1..seqGen[s]
          /\ \/ /\ e.ev = Timeout /\ e.seq = seqGen[s]
                /\ phase[s] \in {"emit", "close"} \cup Closing
                /\ phase[s] = "emit" => pending[s] = <<e>>
             \/ e.seq <= Len(Visible) /\ e.ev = Visible[e.seq]
    BY DEF Known
  <1>2. Onward(s) BY <1>1, Onwards DEF RunSession
  <1>3. RunSession(s, r)' BY <1>1, <1>2 DEF RunSession, Onward
  <1>4. e.seq \in 1..seqGen'[s]
    <2>1. seqGen[s] \in Nat BY DEF Base, Types
    <2> QED BY <1>1, <1>2, <2>1 DEF Onward
  <1>5. e \in cache'[r] \cup dropped'[r] BY Onwards DEF Known
  <1>6. CASE e.seq <= Len(Visible) /\ e.ev = Visible[e.seq]
    BY <1>3, <1>4, <1>5, <1>6 DEF Known
  <1>7. CASE /\ e.ev = Timeout /\ e.seq = seqGen[s]
             /\ phase[s] \in {"emit", "close"} \cup Closing
             /\ phase[s] = "emit" => pending[s] = <<e>>
    <2>1. phase[s] = "emit" => Terminal(Head(pending[s]).ev)
      <3> HAVE phase[s] = "emit"
      <3>1. Head(<<e>>) = e OBVIOUS
      <3> QED BY <1>7, <3>1 DEF Terminal
    <2>2. /\ e.seq = seqGen'[s] /\ phase'[s] \in {"emit", "close"} \cup Closing
          /\ phase'[s] = "emit" => pending'[s] = <<e>>
      BY <1>2, <1>7, <2>1 DEF Onward, Closing
    <2> QED BY <1>3, <1>4, <1>5, <1>7, <2>2 DEF Known
  <1> QED BY <1>1, <1>6, <1>7

LEMMA FramesAppend ==
  ASSUME NEW K, NEW w \in Seq(Sound), NEW f \in Sound, FramesIn(w, K), f.kind = "event" => f.event \in K
  PROVE  FramesIn(Append(w, f), K)
  <1>1. PICK t : t = Append(w, f) OBVIOUS
  <1>2. Len(t) = Len(w) + 1 /\ Len(w) \in Nat /\ t[Len(w) + 1] = f /\ \A i \in 1..Len(w) : t[i] = w[i]
    BY <1>1, AppendIs
  <1>3. \A i \in 1..Len(t) : i \in 1..Len(w) \/ i = Len(w) + 1 BY <1>2
  <1>4. FramesIn(t, K) BY <1>2, <1>3 DEF FramesIn
  <1> QED BY <1>1, <1>4

LEMMA FramesTail ==
  ASSUME NEW K, NEW w \in Seq(Sound), w # << >>, FramesIn(w, K)
  PROVE  FramesIn(Tail(w), K) /\ (Head(w).kind = "event" => Head(w).event \in K)
  <1>1. PICK t : t = Tail(w) OBVIOUS
  <1>2. PICK n \in Nat : n = Len(w) /\ n >= 1 BY TailIs
  <1>3. Len(t) = n - 1 /\ \A i \in 1..(n - 1) : t[i] = w[i + 1] BY <1>1, <1>2, TailIs
  <1>4. \A i \in 1..Len(t) : i + 1 \in 1..n /\ i \in 1..(n - 1) BY <1>2, <1>3
  <1>5. FramesIn(t, K) BY <1>2, <1>3, <1>4 DEF FramesIn
  <1>6. Head(w).kind = "event" => Head(w).event \in K
    <2>1. 1 \in 1..Len(w) BY <1>2
    <2> QED BY <2>1, TailIs DEF FramesIn
  <1> QED BY <1>1, <1>5, <1>6

LEMMA EventsAppend ==
  ASSUME NEW K, NEW q \in Seq(Event), NEW e \in Event, EventsIn(q, K), e \in K
  PROVE  EventsIn(Append(q, e), K)
  <1>1. PICK t : t = Append(q, e) OBVIOUS
  <1>2. Len(t) = Len(q) + 1 /\ Len(q) \in Nat /\ t[Len(q) + 1] = e /\ \A i \in 1..Len(q) : t[i] = q[i]
    BY <1>1, AppendIs
  <1>3. \A i \in 1..Len(t) : i \in 1..Len(q) \/ i = Len(q) + 1 BY <1>2
  <1>4. EventsIn(t, K) BY <1>2, <1>3 DEF EventsIn
  <1> QED BY <1>1, <1>4

LEMMA EventsTail ==
  ASSUME NEW K, NEW q \in Seq(Event), q # << >>, EventsIn(q, K)
  PROVE  EventsIn(Tail(q), K) /\ Head(q) \in K
  <1>1. PICK t : t = Tail(q) OBVIOUS
  <1>2. PICK n \in Nat : n = Len(q) /\ n >= 1 BY TailIs
  <1>3. Len(t) = n - 1 /\ \A i \in 1..(n - 1) : t[i] = q[i + 1] BY <1>1, <1>2, TailIs
  <1>4. \A i \in 1..Len(t) : i + 1 \in 1..n /\ i \in 1..(n - 1) BY <1>2, <1>3
  <1>5. EventsIn(t, K) BY <1>2, <1>3, <1>4 DEF EventsIn
  <1>6. Head(q) \in K
    <2>1. 1 \in 1..Len(q) BY <1>2
    <2> QED BY <2>1, TailIs DEF EventsIn
  <1> QED BY <1>1, <1>5, <1>6

\* What emit hands on is the next visible event or the timeout.
LEMMA EmitsKnown ==
  ASSUME Base, NEW s \in Session, NEW ev \in 0..EventCount, Emits(s, ev), Outside
  PROVE  \E e \in Event : e = [seq |-> seqGen[s] + 1, ev |-> ev] /\ pending'[s] = <<e>> /\ Known(runOf[s], e)'
  <1>1. Types /\ Roles /\ Counting BY DEF Base
  <1>2. seqGen[s] \in Nat /\ cursor[s] \in 0..EventCount /\ runOf[s] \in Run BY <1>1 DEF Types
  <1>3. seqGen[s] + 1 \in Nat BY <1>2
  <1>4. PICK e \in Event : e = [seq |-> seqGen[s] + 1, ev |-> ev] /\ e.seq = seqGen[s] + 1 /\ e.ev = ev
    BY <1>3, EventIs
  <1>5. /\ phase[s] = "stream" /\ phase'[s] = "emit" /\ seqGen'[s] = seqGen[s] + 1 /\ pending'[s] = <<e>>
        /\ \/ ev = Timeout
           \/ cursor[s] < EventCount /\ cursor[s] + 1 \notin Hidden /\ ev = cursor[s] + 1
        /\ e \in cache'[runOf[s]] \cup dropped'[runOf[s]]
    BY <1>4 DEF Emits
  <1>6. RunSession(s, runOf[s])'
    <2>1. ~resuming[s] BY <1>1, <1>5 DEF Roles, Role, RunPhase
    <2> QED BY <1>5, <2>1 DEF RunSession, Outside
  <1>7. e.seq \in 1..seqGen'[s] BY <1>2, <1>4, <1>5
  <1>8. runOf'[s] = runOf[s] /\ gateway' = gateway BY DEF Outside
  <1>9. CASE ev = Timeout
    <2>1. Known(runOf[s], e)' BY <1>4, <1>5, <1>6, <1>7, <1>8, <1>9 DEF Known
    <2> QED BY <1>4, <1>5, <2>1
  <1>10. CASE cursor[s] < EventCount /\ cursor[s] + 1 \notin Hidden /\ ev = cursor[s] + 1
    <2>1. seqGen[s] = Len(VisibleUpTo[cursor[s]]) BY <1>1, <1>5 DEF Counting, Counts
    <2>2. e.seq <= Len(Visible) /\ Visible[e.seq] = ev BY <1>2, <1>4, <1>10, <2>1, NextVisible
    <2>3. Known(runOf[s], e)' BY <1>4, <1>5, <1>6, <1>7, <1>8, <2>2 DEF Known
    <2> QED BY <1>4, <1>5, <2>3
  <1> QED BY <1>5, <1>9, <1>10

LEMMA EmittingOne ==
  ASSUME Types, Counting, NEW s \in Session, phase[s] = "emit"
  PROVE  pending[s] # << >> /\ Len(pending[s]) = 1 /\ Head(pending[s]) = pending[s][1]
  <1>1. Len(pending[s]) = 1 BY DEF Counting, Counts
  <1>2. pending[s] \in Seq(Event) BY DEF Types
  <1>3. pending[s] \in Seq(Event) /\ pending[s] # << >> BY <1>1, <1>2, NotEmpty
  <1> QED BY <1>1, <1>2, <1>3, TailIs

LEMMA HandsOnServes ==
  ASSUME Base, NEW s \in Session, Serves(s), Outside, HandsOn(s), Emitted(runOf[s]) \subseteq Emitted(runOf[s])'
  PROVE  HandsOn(s)'
  <1>1. Types /\ Finite /\ Roles /\ Counting /\ EventsKnown BY DEF Base
  <1>2. PICK r \in Run : r = runOf[s] /\ r = runOf'[s] BY <1>1 DEF Types, Outside
  <1>3. PICK K, L : K = Emitted(r) /\ L = Emitted(r)' OBVIOUS
  <1>4. K \subseteq L BY <1>2, <1>3
  <1>5. /\ queue[s] \in Seq(Sound) /\ wire[s] \in Seq(Sound) /\ pending[s] \in Seq(Event)
        /\ cursor[s] \in 0..EventCount /\ EventCount \in Nat
    BY <1>1, AcpAssumption DEF Types
  <1>6. EventsIn(pending[s], L) /\ FramesIn(queue[s], L) /\ FramesIn(wire[s], L)
    BY <1>2, <1>3, <1>4 DEF HandsOn, EventsIn, FramesIn
  <1>7. SUFFICES EventsIn(pending'[s], L) /\ FramesIn(queue'[s], L) /\ FramesIn(wire'[s], L)
    BY <1>2, <1>3 DEF HandsOn
  <1>8. ASSUME NEW f \in Sound, Sends(s, f), f.kind = "event" => f.event \in L PROVE FramesIn(queue'[s], L)
    <2>1. FramesIn(Append(queue[s], f), L) BY <1>5, <1>6, <1>8, FramesAppend
    <2> QED BY <1>6, <1>8, <2>1 DEF Sends, Quiet
  <1>9. EventsIn(<< >>, L) BY DEF EventsIn
  <1>10. CASE Talks(s)
    <2>1. pending'[s] = pending[s] /\ wire'[s] = wire[s] BY <1>10 DEF Talks, Counters, Keeps
    <2>2. FramesIn(queue'[s], L)
      <3>1. ASSUME NEW kind \in {"ack", "pong", "error", "close"}, Sends(s, Control(kind)) PROVE FramesIn(queue'[s], L)
        <4>1. Control(kind) \in Sound /\ Control(kind).kind # "event" BY FrameIs
        <4> QED BY <1>8, <3>1, <4>1
      <3>2. CASE Quiet(s) BY <1>6, <3>2 DEF Quiet
      <3> QED BY <1>10, <3>1, <3>2 DEF Talks
    <2> QED BY <1>6, <2>1, <2>2
  <1>11. CASE Accepts(s) \/ Subscribes(s) \/ Publishes(s) \/ Skips(s) \/ Refused(s)
    <2>1. pending'[s] = pending[s] /\ wire'[s] = wire[s] /\ queue'[s] = queue[s]
      BY <1>11 DEF Accepts, Subscribes, Publishes, Skips, Refused, Counters, Keeps, Quiet
    <2> QED BY <1>6, <2>1
  <1>12. ASSUME NEW ev \in 0..EventCount, Emits(s, ev)
         PROVE  EventsIn(pending'[s], L) /\ FramesIn(queue'[s], L) /\ FramesIn(wire'[s], L)
    <2>1. wire'[s] = wire[s] /\ queue'[s] = queue[s] BY <1>12 DEF Emits, Keeps, Quiet
    <2>2. PICK e \in Event : pending'[s] = <<e>> /\ Known(runOf[s], e)' BY <1>12, EmitsKnown
    <2>3. e \in L
      <3>1. Known(r, e)' BY <1>2, <2>2 DEF Known, RunSession
      <3> QED BY <1>3, <3>1 DEF Emitted
    <2>4. EventsIn(pending'[s], L)
      <3>1. Len(<<e>>) = 1 /\ <<e>>[1] = e OBVIOUS
      <3> QED BY <2>2, <2>3, <3>1 DEF EventsIn
    <2> QED BY <1>6, <2>1, <2>4
  <1>13. Emits(s, cursor[s] + 1) => cursor[s] + 1 \in 0..EventCount BY <1>5 DEF Emits, Timeout
  <1>14. Timeout \in 0..EventCount BY <1>5 DEF Timeout
  <1>15. CASE Delivers(s)
    <2>1. wire'[s] = wire[s] /\ pending'[s] = << >> /\ phase[s] = "emit" BY <1>15 DEF Delivers, Keeps
    <2>2. pending[s] # << >> BY <1>1, <2>1, EmittingOne
    <2>3. PICK e \in Event : e = Head(pending[s]) /\ e \in L BY <1>5, <1>6, <2>2, EventsTail, TailIs
    <2>4. PICK f \in Sound : f = EventFrame(e, Terminal(e.ev)) /\ f.event = e
      <3>1. Terminal(e.ev) \in BOOLEAN BY DEF Terminal
      <3> QED BY <3>1, FrameIs
    <2>5. Sends(s, f) BY <1>15, <2>3, <2>4 DEF Delivers
    <2>6. FramesIn(queue'[s], L) BY <1>8, <2>3, <2>4, <2>5
    <2> QED BY <1>6, <1>9, <2>1, <2>6
  <1>16. CASE Resumes(s)
    <2>1. wire'[s] = wire[s] /\ queue'[s] = queue[s] /\ pending'[s] = Replay(r)
      BY <1>2, <1>16 DEF Resumes, Keeps, Quiet
    <2>2. \A i \in 1..Len(Replay(r)) : Replay(r)[i] \in cache[r]
      <3>1. cache[r] \subseteq Event /\ IsFiniteSet(cache[r]) BY <1>1 DEF Types, Finite
      <3> QED BY <3>1, ReplayTypes
    <2>3. cache[r] \subseteq K BY <1>1, <1>3 DEF EventsKnown
    <2> QED BY <1>4, <1>6, <2>1, <2>2, <2>3 DEF EventsIn
  <1>17. CASE Replays(s)
    <2>1. wire'[s] = wire[s] /\ pending'[s] = Tail(pending[s]) /\ pending[s] # << >> BY <1>17 DEF Replays, Keeps
    <2>2. PICK e \in Event : e = Head(pending[s]) /\ e \in L BY <1>5, <1>6, <2>1, EventsTail, TailIs
    <2>3. PICK f \in Sound : f = EventFrame(e, FALSE) /\ f.event = e BY FrameIs
    <2>4. Sends(s, f) BY <1>17, <2>2, <2>3 DEF Replays
    <2>5. FramesIn(queue'[s], L) BY <1>8, <2>2, <2>3, <2>4
    <2>6. EventsIn(Tail(pending[s]), L) BY <1>5, <1>6, <2>1, EventsTail
    <2> QED BY <1>6, <2>1, <2>5, <2>6
  <1>18. CASE Finishes(s) \/ Ends(s)
    <2>1. pending'[s] = pending[s] /\ wire'[s] = wire[s] /\ queue'[s] = queue[s]
      BY <1>18 DEF Finishes, Ends, Counters, Keeps
    <2> QED BY <1>6, <2>1
  <1> QED BY <1>10, <1>11, <1>12, <1>13, <1>14, <1>15, <1>16, <1>17, <1>18 DEF Serves

LEMMA EventsKnownKept ==
  ASSUME Base, [Next]_vars
  PROVE  EventsKnown'
  <1>1. Types /\ Roles /\ EventsKnown BY DEF Base
  <1>2. \A r \in Run : Emitted(r) \subseteq Emitted(r)' BY KnownStays DEF Emitted
  <1>3. /\ runOf \in [Session -> Run] /\ got \in [Run -> Seq(Event)] /\ cursor \in [Session -> 0..EventCount]
        /\ queue \in [Session -> Seq(Sound)] /\ wire \in [Session -> Seq(Sound)] /\ EventCount \in Nat
    BY <1>1, AcpAssumption DEF Types
  <1>4. /\ \A r \in Run : cache[r] \subseteq Emitted(r) /\ EventsIn(got[r], Emitted(r))
        /\ \A t \in Session : HandsOn(t)
    BY <1>1 DEF EventsKnown
  <1>5. ASSUME NEW r \in Run, got'[r] = got[r] PROVE EventsIn(got'[r], Emitted(r)')
    BY <1>2, <1>4, <1>5 DEF EventsIn
  <1>6. ASSUME NEW r \in Run, cache'[r] = cache[r] PROVE cache'[r] \subseteq Emitted(r)'
    BY <1>2, <1>4, <1>6
  \* A session may forget frames, never change them.
  <1>7. ASSUME NEW t \in Session, pending'[t] \in {<< >>, pending[t]},
               \/ queue'[t] \in {<< >>, queue[t]}
               \/ queue[t] # << >> /\ queue'[t] = Tail(queue[t]),
               \/ wire'[t] \in {<< >>, wire[t]}
               \/ wire[t] # << >> /\ wire'[t] = Tail(wire[t])
               \/ queue[t] # << >> /\ wire'[t] = Append(wire[t], Head(queue[t])),
               runOf'[t] = runOf[t]
        PROVE  HandsOn(t)'
    <2>1. PICK r \in Run : r = runOf[t] /\ r = runOf'[t] BY <1>3, <1>7
    <2>2. PICK K, L : K = Emitted(r) /\ L = Emitted(r)' OBVIOUS
    <2>3. K \subseteq L BY <1>2, <2>2
    <2>4. EventsIn(pending[t], L) /\ FramesIn(queue[t], L) /\ FramesIn(wire[t], L)
      BY <1>4, <2>1, <2>2, <2>3 DEF HandsOn, EventsIn, FramesIn
    <2>5. EventsIn(<< >>, L) /\ FramesIn(<< >>, L) BY DEF EventsIn, FramesIn
    <2>6. queue[t] \in Seq(Sound) /\ wire[t] \in Seq(Sound) BY <1>3
    <2>7. EventsIn(pending'[t], L) BY <1>7, <2>4, <2>5
    <2>8. FramesIn(queue'[t], L)
      <3>1. queue[t] # << >> => FramesIn(Tail(queue[t]), L) BY <2>4, <2>6, FramesTail
      <3> QED BY <1>7, <2>4, <2>5, <3>1
    <2>9. FramesIn(wire'[t], L)
      <3>1. wire[t] # << >> => FramesIn(Tail(wire[t]), L) BY <2>4, <2>6, FramesTail
      <3>2. queue[t] # << >> => FramesIn(Append(wire[t], Head(queue[t])), L)
        <4> HAVE queue[t] # << >>
        <4>1. PICK f \in Sound : f = Head(queue[t]) /\ (f.kind = "event" => f.event \in L)
          BY <2>4, <2>6, FramesTail, TailIs
        <4>2. FramesIn(Append(wire[t], f), L) BY <2>4, <2>6, <4>1, FramesAppend
        <4> QED BY <4>1, <4>2
      <3> QED BY <1>7, <2>4, <2>5, <3>1, <3>2
    <2> QED BY <2>1, <2>2, <2>7, <2>8, <2>9 DEF HandsOn
  <1>8. ASSUME NEW t \in Session, Same(t), runOf'[t] = runOf[t] PROVE HandsOn(t)' BY <1>7, <1>8 DEF Same
  <1>9. ASSUME NEW s \in Session, Serves(s), Outside, \A t \in Session : t # s => Same(t) PROVE EventsKnown'
    <2>1. runOf' = runOf /\ got' = got BY <1>9 DEF Outside
    <2>2. \A t \in Session : HandsOn(t)'
      <3>1. HandsOn(s)'
        <4>1. runOf[s] \in Run BY <1>3
        <4>2. PICK r \in Run : r = runOf[s] /\ runOf'[s] = r BY <2>1, <4>1
        <4>3. Emitted(r) \subseteq Emitted(r)' BY <1>2
        <4>4. Emitted(runOf[s]) \subseteq Emitted(runOf[s])' BY <4>2, <4>3 DEF Emitted, Known, RunSession
        <4> QED BY <1>4, <1>9, <4>4, HandsOnServes
      <3> QED BY <1>8, <1>9, <2>1, <3>1
    <2>3. \A r \in Run : cache'[r] \subseteq Emitted(r)'
      <3>1. CASE cache' = cache BY <1>6, <3>1
      <3>2. ASSUME NEW ev \in 0..EventCount, Emits(s, ev), NEW r \in Run PROVE cache'[r] \subseteq Emitted(r)'
        <4>1. CASE r # runOf[s] BY <1>6, <3>2, <4>1 DEF Emits
        <4>2. CASE r = runOf[s]
          <5>1. PICK e \in Event : e = [seq |-> seqGen[s] + 1, ev |-> ev] /\ Known(runOf[s], e)'
            BY <1>9, <3>2, EmitsKnown
          <5>2. cache'[r] \subseteq cache[r] \cup {e} BY <3>2, <4>2, <5>1 DEF Emits
          <5>3. Known(r, e)' BY <2>1, <4>2, <5>1 DEF Known, RunSession
          <5>4. e \in Emitted(r)' BY <5>3 DEF Emitted
          <5>5. cache[r] \subseteq Emitted(r)' BY <1>2, <1>4
          <5> QED BY <5>2, <5>4, <5>5
        <4> QED BY <4>1, <4>2
      <3>3. Emits(s, cursor[s] + 1) => cursor[s] + 1 \in 0..EventCount
        <4>1. cursor[s] \in 0..EventCount BY <1>3
        <4> QED BY <1>3, <4>1 DEF Emits, Timeout
      <3>4. Timeout \in 0..EventCount BY <1>3 DEF Timeout
      <3> QED BY <1>9, <3>1, <3>2, <3>3, <3>4, CachedBy
    <2> QED BY <1>5, <2>1, <2>2, <2>3 DEF EventsKnown
  <1>10. ASSUME NEW s \in Session, Writes(s) \/ Drops(s) \/ Exits(s), Outside, UNCHANGED <<cache, dropped, published>>,
                \A t \in Session : t # s => Same(t)
         PROVE  EventsKnown'
    <2>1. runOf' = runOf /\ got' = got BY <1>10 DEF Outside
    <2>2. HandsOn(s)' BY <1>7, <1>10, <2>1 DEF Writes, Drops, Exits, ServesOn
    <2> QED BY <1>5, <1>6, <1>8, <1>10, <2>1, <2>2 DEF EventsKnown
  <1>11. ASSUME NEW r \in Run, NEW s \in Session, ClientOnly(r, s),
                ReadsControl(r, s) \/ ReadsEvent(r, s) \/ Leaves(r, s)
         PROVE  EventsKnown'
    <2>1. /\ s = using[r] /\ UNCHANGED <<runOf, cache>> /\ ServesOn(s) /\ queue'[s] = queue[s]
          /\ \A t \in Session : t # s => Same(t)
          /\ \A q \in Run : q # r => got'[q] = got[q]
      BY <1>11 DEF ClientOnly, OtherRuns
    <2>2. runOf[s] = r
      <3>1. s # NoSession BY AcpAssumption
      <3> QED BY <1>1, <2>1, <3>1 DEF Roles, ClientRole
    <2>3. HandsOn(s)'
      <3>1. wire'[s] \in {<< >>, wire[s]} \/ (wire[s] # << >> /\ wire'[s] = Tail(wire[s]))
        BY <1>11 DEF ReadsControl, ReadsEvent, Leaves
      <3> QED BY <1>7, <2>1, <3>1 DEF ServesOn
    <2>4. EventsIn(got'[r], Emitted(r)')
      <3>1. CASE got'[r] = got[r] BY <1>5, <3>1
      <3>2. CASE ReadsEvent(r, s)
        <4>1. PICK K, L : K = Emitted(r) /\ L = Emitted(r)' OBVIOUS
        <4>2. K \subseteq L BY <1>2, <4>1
        <4>3. EventsIn(got[r], L) BY <1>4, <4>1, <4>2 DEF EventsIn
        <4>4. wire[s] # << >> /\ Head(wire[s]).kind = "event" /\ got'[r] = Append(got[r], Head(wire[s]).event)
          BY <3>2 DEF ReadsEvent
        <4>5. wire[s] \in Seq(Sound) /\ FramesIn(wire[s], K) BY <1>3, <1>4, <2>2, <4>1 DEF HandsOn
        <4>6. Head(wire[s]).event \in K BY <4>4, <4>5, FramesTail
        <4>7. PICK e \in Event : e = Head(wire[s]).event /\ e \in L BY <4>1, <4>2, <4>6 DEF Emitted
        <4>8. got[r] \in Seq(Event) BY <1>3
        <4>9. EventsIn(Append(got[r], e), L) BY <4>3, <4>7, <4>8, EventsAppend
        <4> QED BY <4>1, <4>4, <4>7, <4>9
      <3> QED BY <1>11, <3>1, <3>2 DEF ReadsControl, Leaves
    <2> QED BY <1>5, <1>6, <1>8, <2>1, <2>3, <2>4 DEF EventsKnown
  <1>12. ASSUME NEW r \in Run, NEW s \in Session, Dials(r, s) PROVE EventsKnown'
    <2>1. /\ phase[s] = "none" /\ UNCHANGED <<cache, got>> /\ Counters(s) /\ queue'[s] = queue[s] /\ wire'[s] = wire[s]
          /\ \A t \in Session : t # s => Same(t) /\ runOf'[t] = runOf[t]
      BY <1>12 DEF Dials
    <2>2. HandsOn(s)'
      <3>1. pending'[s] = << >> /\ queue'[s] = << >> /\ wire'[s] = << >> BY <1>1, <2>1 DEF Roles, Role, Counters
      <3> QED BY <3>1 DEF HandsOn, EventsIn, FramesIn
    <2> QED BY <1>5, <1>6, <1>8, <2>1, <2>2 DEF EventsKnown
  <1>13. CASE Restart
    <2>1. UNCHANGED <<cache, got, runOf, wire>> BY <1>13 DEF Restart, clientVars
    <2>2. \A t \in Session : queue'[t] = << >> /\ pending'[t] = << >> BY <1>13 DEF Restart
    <2>3. \A t \in Session : HandsOn(t)' BY <1>7, <2>1, <2>2
    <2> QED BY <1>5, <1>6, <2>1, <2>3 DEF EventsKnown
  <1>14. CASE (\E r \in Run : Produce(r)) \/ Stop \/ UNCHANGED vars
    <2>1. UNCHANGED <<serveVars, sendVars, outVars, inbound, clientVars, cache>> BY <1>14 DEF Produce, Stop, vars, envVars
    <2>2. UNCHANGED <<pending, queue, wire, runOf, got, cache>> BY <2>1 DEF serveVars, sendVars, outVars, clientVars
    <2>3. \A t \in Session : HandsOn(t)' BY <1>7, <2>2
    <2> QED BY <1>5, <1>6, <2>2, <2>3 DEF EventsKnown
  <1> QED BY <1>9, <1>10, <1>11, <1>12, <1>13, <1>14, Happens

-----------------------------------------------------------------------------
(* The cache.                                                              *)

LEMMA ContiguousAdd ==
  ASSUME NEW C, NEW m \in Nat, Contiguous(C, m), NEW e, e.seq = m + 1
  PROVE  Contiguous(C \cup {e}, m + 1)
  <1>1. \A f \in C : f.seq \in 1..m BY DEF Contiguous
  <1>2. \A f \in C \cup {e} : f.seq \in 1..(m + 1)
    <2>1. ASSUME NEW f \in C PROVE f.seq \in 1..(m + 1)
      <3>1. f.seq \in 1..m BY <1>1
      <3> QED BY <3>1
    <2> QED BY <2>1
  <1>3. ASSUME NEW k \in 1..(m + 1) PROVE \E f \in C \cup {e} : f.seq = k
    <2>1. CASE k = m + 1 BY <2>1
    <2>2. CASE k # m + 1
      <3>1. k \in 1..m BY <2>2
      <3> QED BY <3>1 DEF Contiguous
    <2> QED BY <2>1, <2>2
  <1>4. ASSUME NEW f \in C \cup {e}, NEW g \in C \cup {e}, f.seq = g.seq PROVE f = g
    <2>1. ASSUME NEW h \in C PROVE h.seq # e.seq
      <3>1. h.seq \in 1..m BY <1>1
      <3> QED BY <3>1
    <2>2. \A h, i \in C : h.seq = i.seq => h = i BY DEF Contiguous
    <2> QED BY <1>4, <2>1, <2>2
  <1> QED BY <1>2, <1>3, <1>4 DEF Contiguous

\* Nothing is cached for a run before its session is asked to run it.
LEMMA NothingCached ==
  ASSUME Inv, NEW s \in Session, Accepts(s)
  PROVE  cache[runOf[s]] = {} /\ seqGen[s] = 0
  <1>1. Types /\ Alone /\ Counting /\ EventsKnown BY DEF Inv, Base
  <1>2. PICK r \in Run : r = runOf[s] BY <1>1 DEF Types
  <1>3. phase[s] = "loop" /\ inbound[s] = "request" /\ ~resuming[s] BY DEF Accepts
  <1>4. seqGen[s] = 0 BY <1>1, <1>3 DEF Counting, Counts, Early
  <1>5. ASSUME NEW e \in cache[r] PROVE FALSE
    <2>1. Known(r, e) BY <1>1 DEF EventsKnown, Emitted
    <2>2. PICK t \in Session : RunSession(t, r) /\ e.seq \in 1..seqGen[t] BY <2>1 DEF Known
    <2>3. seqGen[t] \in Nat BY <1>1 DEF Types
    <2>4. seqGen[t] # 0 BY <2>2, <2>3
    <2>5. ~Untouched(t) /\ ~Untouched(s) BY <1>3, <2>4 DEF Untouched
    <2>6. RunSession(s, r) BY <1>2, <1>3 DEF RunSession
    <2>7. s = t BY <1>1, <2>2, <2>5, <2>6 DEF Alone
    <2> QED BY <1>4, <2>4, <2>7
  <1> QED BY <1>2, <1>4, <1>5

LEMMA CachesServes ==
  ASSUME Inv, "cache" \notin Faults, NEW s \in Session, Serves(s), Outside
  PROVE  Caches(s)'
  <1>1. Types /\ Roles /\ Counting /\ EventsKnown /\ Caches(s) BY DEF Inv, Base, Cached
  <1>2. PICK r \in Run : r = runOf[s] BY <1>1 DEF Types
  <1>3. UNCHANGED <<runOf, resuming, gateway>> BY DEF Outside
  <1>4. /\ seqGen[s] \in Nat /\ cursor[s] \in 0..EventCount /\ pending[s] \in Seq(Event) /\ EventCount \in Nat
    BY <1>1, AcpAssumption DEF Types
  <1>5. CASE resuming[s] BY <1>3, <1>5 DEF Caches
  <1>6. CASE ~resuming[s]
    <2>1. phase[s] # "none" /\ phase'[s] # "none" BY ServesOpen
    <2>2. /\ phase[s] \in {"subscribe", "publish", "stream", "emit"} /\ ~stopping => Contiguous(cache[r], seqGen[s])
          /\ phase[s] \in {"close"} \cup Closing /\ gateway = "first" /\ cursor[s] > 0 => Whole(s)
      BY <1>1, <1>2, <1>6, <2>1 DEF Caches
    <2>3. stopping' <=> stopping BY <1>3 DEF stopping
    <2>4. SUFFICES /\ phase'[s] \in {"subscribe", "publish", "stream", "emit"} /\ ~stopping => Contiguous(cache'[r], seqGen'[s])
                   /\ phase'[s] \in {"close"} \cup Closing /\ gateway = "first" /\ cursor'[s] > 0 => Whole(s)'
      BY <1>2, <1>3, <2>3 DEF Caches
    <2>5. ASSUME cache' = cache, seqGen'[s] = seqGen[s], closed[s] => closed'[s], Overflowed(s) => queueOpen'[s], Whole(s)
          PROVE  Whole(s)'
      BY <1>3, <2>5 DEF Whole, Overflowed
    <2>6. CASE Talks(s)
      <3>1. /\ cache' = cache /\ seqGen'[s] = seqGen[s] /\ cursor'[s] = cursor[s] /\ queueOpen'[s] = queueOpen[s]
            /\ closed[s] => closed'[s]
        BY <2>6 DEF Talks, Counters, Keeps, Quiet, Sends
      <3>2. phase'[s] \notin {"subscribe", "publish", "stream", "emit"} BY <2>6 DEF Talks
      <3>3. CASE phase[s] = "close" BY <2>2, <2>5, <3>1, <3>2, <3>3 DEF Overflowed
      <3>4. CASE phase[s] # "close"
        <4>1. phase'[s] \in {"close"} \cup Closing /\ gateway = "first" => phase[s] \in Early \cup {"failed", "replay"}
          BY <2>6, <3>4 DEF Talks, Closing, stopping, Early
        <4>2. phase[s] # "replay" BY <1>1, <1>6 DEF Roles, Role
        <4>3. phase[s] \in Early \cup {"failed"} => cursor[s] = 0 BY <1>1 DEF Counting, Counts
        <4> QED BY <3>1, <3>2, <4>1, <4>2, <4>3
      <3> QED BY <3>3, <3>4
    <2>7. CASE Accepts(s)
      <3>1. cache'[r] = {} /\ seqGen'[s] = 0 BY <1>2, <2>7, NothingCached DEF Accepts, Counters
      <3>2. Contiguous({}, 0) BY DEF Contiguous
      <3> QED BY <2>7, <3>1, <3>2 DEF Accepts, Closing
    <2>8. CASE Subscribes(s) \/ Publishes(s) \/ Skips(s)
      <3>1. /\ cache' = cache /\ seqGen'[s] = seqGen[s] /\ phase[s] \in {"subscribe", "publish", "stream"}
            /\ phase'[s] \in {"publish", "stream"}
        BY <2>8 DEF Subscribes, Publishes, Skips, Counters
      <3> QED BY <2>2, <3>1 DEF Closing
    <2>9. CASE Refused(s)
      <3>1. phase[s] = "stream" /\ phase'[s] = "close" /\ closed[s] /\ closed'[s] = closed[s] /\ queueOpen'[s] = queueOpen[s]
        BY <2>9 DEF Refused, Quiet, Keeps
      <3>2. queueOpen[s] BY <1>1, <3>1 DEF Roles, Role
      <3>3. Whole(s)' BY <3>1, <3>2 DEF Whole, Overflowed
      <3> QED BY <3>1, <3>3
    <2>10. ASSUME NEW ev, Emits(s, ev)
           PROVE  /\ phase'[s] \in {"subscribe", "publish", "stream", "emit"} /\ ~stopping => Contiguous(cache'[r], seqGen'[s])
                  /\ phase'[s] \in {"close"} \cup Closing /\ gateway = "first" /\ cursor'[s] > 0 => Whole(s)'
      <3>1. PICK e : e = [seq |-> seqGen[s] + 1, ev |-> ev] OBVIOUS
      <3>2. e.seq = seqGen[s] + 1 BY <3>1
      <3>3. /\ phase[s] = "stream" /\ phase'[s] = "emit" /\ seqGen'[s] = seqGen[s] + 1
            /\ ~stopping => cache'[r] = cache[r] \cup {e}
        BY <1>2, <2>10, <3>1 DEF Emits
      <3>4. ~stopping => Contiguous(cache[r] \cup {e}, seqGen[s] + 1)
        BY <1>4, <2>2, <3>2, <3>3, ContiguousAdd
      <3> QED BY <3>3, <3>4 DEF Closing
    <2>11. CASE Delivers(s)
      <3>1. /\ phase[s] = "emit" /\ seqGen'[s] = seqGen[s] /\ cursor'[s] = cursor[s] /\ cache' = cache
            /\ phase'[s] = IF Terminal(Head(pending[s]).ev) THEN "close" ELSE "stream"
        BY <2>11 DEF Delivers
      <3>2. Len(pending[s]) = 1 BY <1>1, <3>1 DEF Counting, Counts
      <3>3. PICK e : e = pending[s][1] /\ e = Head(pending[s]) BY <1>4, <3>2, NotEmpty, TailIs
      <3>4. CASE ~Terminal(e.ev) BY <2>2, <3>1, <3>3, <3>4 DEF Closing
      <3>5. CASE Terminal(e.ev)
        <4>1. phase'[s] = "close" BY <3>1, <3>3, <3>5
        <4>2. SUFFICES ASSUME gateway = "first" PROVE Whole(s)' BY <4>1
        <4>3. CASE e.ev = Timeout
          <5>1. Known(r, e)
            <6>1. 1 \in 1..Len(pending[s]) BY <3>2
            <6> QED BY <1>1, <1>2, <3>3, <6>1 DEF EventsKnown, HandsOn, EventsIn, Emitted
          <5>2. e \in cache[r] BY <4>2, <5>1 DEF Known, Inv, Undropped
          <5>3. e \in cache'[r] BY <3>1, <5>2
          <5> QED BY <1>2, <1>3, <4>3, <5>3 DEF Whole
        <4>4. CASE e.ev # Timeout
          <5>1. e.ev = cursor[s] /\ seqGen[s] = Len(VisibleUpTo[cursor[s]])
            BY <1>1, <3>1, <3>3, <4>4 DEF Counting, Counts
          <5>2. e.ev = EventCount BY <3>5, <4>4 DEF Terminal
          <5>3. seqGen[s] = Len(Visible) BY <5>1, <5>2 DEF Visible
          <5>4. ~stopping BY <4>2 DEF stopping
          <5>5. Contiguous(cache[r], seqGen[s]) BY <2>2, <3>1, <5>4
          <5> QED BY <1>2, <1>3, <3>1, <5>3, <5>5 DEF Whole
        <4> QED BY <4>3, <4>4
      <3> QED BY <3>4, <3>5
    <2>12. ~Resumes(s) /\ ~Replays(s) BY <1>1, <1>6 DEF Resumes, Replays, Roles, Role
    <2>13. CASE Finishes(s) \/ Ends(s)
      <3>1. /\ cache' = cache /\ seqGen'[s] = seqGen[s] /\ cursor'[s] = cursor[s]
            /\ phase[s] \in Closing /\ phase'[s] \in Closing
            /\ closed[s] => closed'[s] /\ (queueOpen[s] => queueOpen'[s])
        BY <2>13 DEF Finishes, Ends, Counters, Keeps, Closing
      <3> QED BY <2>2, <2>5, <3>1 DEF Closing, Overflowed
    <2> QED BY <2>6, <2>7, <2>8, <2>9, <2>10, <2>11, <2>12, <2>13 DEF Serves
  <1> QED BY <1>1, <1>5, <1>6 DEF Types

LEMMA CachedKept ==
  ASSUME Inv, [Next]_vars, "cache" \notin Faults
  PROVE  Cached'
  <1>1. Types /\ Roles /\ Alone /\ Cached BY DEF Inv, Base
  <1>2. /\ \A r \in Run : \E m \in Nat : Contiguous(cache[r], m)
        /\ \A t \in Session : Caches(t)
    BY <1>1 DEF Cached
  <1>3. runOf \in [Session -> Run] /\ seqGen \in [Session -> Nat] BY <1>1 DEF Types
  <1>4. ASSUME NEW t \in Session, phase'[t] = phase[t], seqGen'[t] = seqGen[t], cursor'[t] = cursor[t],
               closed'[t] = closed[t], queueOpen'[t] = queueOpen[t], runOf'[t] = runOf[t], resuming'[t] = resuming[t],
               cache'[runOf[t]] = cache[runOf[t]], gateway' = gateway
        PROVE  Caches(t)'
    BY <1>2, <1>4 DEF Caches, Whole, Overflowed, stopping
  <1>5. ASSUME NEW s \in Session, Serves(s), Outside, \A t \in Session : t # s => Same(t) PROVE Cached'
    <2>1. UNCHANGED <<runOf, resuming, gateway>> BY <1>5 DEF Outside
    <2>2. Caches(s)' BY <1>5, CachesServes
    <2>3. CASE cache' = cache
      <3>1. \A t \in Session : t # s => Caches(t)' BY <1>4, <1>5, <2>1, <2>3 DEF Same
      <3> QED BY <1>2, <2>2, <2>3, <3>1 DEF Cached
    <2>4. ASSUME NEW ev, Emits(s, ev) PROVE Cached'
      <3>1. PICK r \in Run : r = runOf[s] BY <1>3
      <3>2. PICK n \in Nat : n = seqGen[s] BY <1>3
      <3>3. PICK e : e = [seq |-> n + 1, ev |-> ev] OBVIOUS
      <3>4. /\ phase[s] = "stream" /\ \A q \in Run : q # r => cache'[q] = cache[q]
            /\ IF stopping THEN cache'[r] = cache[r] ELSE cache'[r] = cache[r] \cup {e}
        BY <2>4, <3>1, <3>2, <3>3 DEF Emits
      <3>5. RunSession(s, r) /\ ~resuming[s] BY <1>1, <3>1, <3>4 DEF RunSession, Roles, Role, RunPhase
      <3>6. \E m \in Nat : Contiguous(cache'[r], m)
        <4>1. CASE stopping BY <1>2, <3>4, <4>1
        <4>2. CASE ~stopping
          <5>1. Contiguous(cache[r], n) BY <1>2, <3>1, <3>2, <3>4, <3>5, <4>2 DEF Caches
          <5>2. e.seq = n + 1 BY <3>3
          <5>3. Contiguous(cache[r] \cup {e}, n + 1) BY <5>1, <5>2, ContiguousAdd
          <5>4. n + 1 \in Nat OBVIOUS
          <5> QED BY <3>4, <4>2, <5>3, <5>4
        <4> QED BY <4>1, <4>2
      <3>7. ASSUME NEW t \in Session, t # s PROVE Caches(t)'
        <4>1. Same(t) BY <1>5, <3>7
        <4>2. CASE runOf[t] # r
          <5>1. cache'[runOf[t]] = cache[runOf[t]] BY <1>3, <3>4, <4>2
          <5> QED BY <1>4, <2>1, <4>1, <5>1 DEF Same
        <4>3. CASE runOf[t] = r /\ RunSession(t, r)
          <5>1. ~Untouched(s) BY <3>4 DEF Untouched, Early, Closing
          <5>2. Untouched(t) BY <1>1, <3>5, <3>7, <4>3, <5>1 DEF Alone
          <5>3. phase'[t] \in Early \cup Closing /\ cursor'[t] = 0 BY <4>1, <5>2 DEF Untouched, Same
          <5> QED BY <5>3 DEF Caches, Early, Closing
        <4>4. CASE runOf[t] = r /\ ~RunSession(t, r) BY <2>1, <4>1, <4>4 DEF Caches, RunSession, Same
        <4> QED BY <4>2, <4>3, <4>4
      <3>8. \A q \in Run : \E m \in Nat : Contiguous(cache'[q], m) BY <1>2, <3>4, <3>6
      <3> QED BY <2>2, <3>7, <3>8 DEF Cached
    <2> QED BY <1>5, <2>3, <2>4, CachedBy
  <1>6. ASSUME NEW s \in Session, Writes(s) \/ Drops(s) \/ Exits(s), Outside, UNCHANGED <<cache, dropped, published>>,
               \A t \in Session : t # s => Same(t)
        PROVE  Cached'
    <2>1. UNCHANGED <<runOf, resuming, gateway, cache>> BY <1>6 DEF Outside
    <2>2. ServesOn(s) BY <1>6 DEF Writes, Drops, Exits
    <2>3. \A t \in Session : Caches(t)' BY <1>4, <1>6, <2>1, <2>2 DEF Same, ServesOn
    <2> QED BY <1>2, <2>1, <2>3 DEF Cached
  <1>7. ASSUME NEW r \in Run, NEW s \in Session, ClientOnly(r, s) PROVE Cached'
    <2>1. UNCHANGED <<runOf, resuming, gateway, cache>> /\ ServesOn(s) /\ \A t \in Session : t # s => Same(t)
      BY <1>7 DEF ClientOnly
    <2>2. \A t \in Session : Caches(t)' BY <1>4, <2>1 DEF Same, ServesOn
    <2> QED BY <1>2, <2>1, <2>2 DEF Cached
  <1>8. ASSUME NEW r \in Run, NEW s \in Session, Dials(r, s) PROVE Cached'
    <2>1. /\ UNCHANGED <<gateway, cache>> /\ phase'[s] = "hello"
          /\ \A t \in Session : t # s => Same(t) /\ runOf'[t] = runOf[t] /\ resuming'[t] = resuming[t]
      BY <1>8 DEF Dials
    <2>2. Caches(s)' BY <2>1 DEF Caches, Closing
    <2>3. ASSUME NEW t \in Session, t # s PROVE Caches(t)' BY <1>4, <2>1, <2>3 DEF Same
    <2> QED BY <1>2, <2>1, <2>2, <2>3 DEF Cached
  <1>9. CASE Restart
    <2>1. \A t \in Session : phase'[t] = IF phase[t] = "none" THEN "none" ELSE "ended" BY <1>9 DEF Restart
    <2>2. gateway' = "second" /\ cache' = cache BY <1>9 DEF Restart
    <2>3. \A t \in Session : Caches(t)' BY <2>1, <2>2 DEF Caches
    <2> QED BY <1>2, <2>2, <2>3 DEF Cached
  <1>10. CASE Stop
    <2>1. gateway' = "stopping" /\ UNCHANGED <<cache, serveVars, sendVars, outVars, clientVars>> BY <1>10 DEF Stop
    <2>2. \A t \in Session : Caches(t)' BY <2>1 DEF Caches, stopping
    <2> QED BY <1>2, <2>1, <2>2 DEF Cached
  <1>11. CASE (\E r \in Run : Produce(r)) \/ UNCHANGED vars
    <2>1. UNCHANGED <<phase, seqGen, cursor, closed, queueOpen, runOf, resuming, cache, gateway>>
      BY <1>11 DEF Produce, vars, serveVars, sendVars, outVars, clientVars, envVars
    <2>2. \A t \in Session : Caches(t)' BY <1>4, <2>1
    <2> QED BY <1>2, <2>1, <2>2 DEF Cached
  <1> QED BY <1>5, <1>6, <1>7, <1>8, <1>9, <1>10, <1>11, Happens DEF Inv

-----------------------------------------------------------------------------
(* Nothing is missing on the way to the client.                            *)

LEMMA NumberedTail ==
  ASSUME NEW q \in Seq(Event), q # << >>, NEW lo \in Nat, Numbered(q, lo)
  PROVE  Head(q).seq = lo + 1 /\ Numbered(Tail(q), lo + 1)
  <1>1. PICK t : t = Tail(q) OBVIOUS
  <1>2. PICK n \in Nat : n = Len(q) /\ n >= 1 BY TailIs
  <1>3. Len(t) = n - 1 /\ \A i \in 1..(n - 1) : t[i] = q[i + 1] BY <1>1, <1>2, TailIs
  <1>4. ASSUME NEW i \in 1..Len(t) PROVE t[i].seq = (lo + 1) + i
    <2>1. i \in 1..(n - 1) /\ i + 1 \in 1..n BY <1>2, <1>3
    <2>2. t[i].seq = lo + (i + 1) BY <1>2, <1>3, <2>1 DEF Numbered
    <2> QED BY <2>2
  <1>5. Head(q).seq = lo + 1
    <2>1. 1 \in 1..Len(q) BY <1>2
    <2> QED BY <2>1, TailIs DEF Numbered
  <1> QED BY <1>1, <1>4, <1>5 DEF Numbered

LEMMA NumberedAppend ==
  ASSUME NEW q \in Seq(Event), NEW e \in Event, Numbered(q, 0), e.seq = Len(q) + 1
  PROVE  Numbered(Append(q, e), 0) /\ Len(Append(q, e)) = Len(q) + 1
  <1>1. PICK t : t = Append(q, e) OBVIOUS
  <1>2. PICK n \in Nat : n = Len(q) OBVIOUS
  <1>3. Len(t) = n + 1 /\ t[n + 1] = e /\ \A i \in 1..n : t[i] = q[i] BY <1>1, <1>2, AppendIs
  <1>4. ASSUME NEW i \in 1..Len(t) PROVE t[i].seq = 0 + i
    <2>1. CASE i \in 1..n BY <1>2, <1>3, <2>1 DEF Numbered
    <2>2. CASE i = n + 1 BY <1>2, <1>3, <2>2
    <2> QED BY <1>3, <2>1, <2>2
  <1> QED BY <1>1, <1>2, <1>3, <1>4 DEF Numbered

LEMMA NumberedOne ==
  ASSUME NEW e, NEW lo \in Nat, e.seq = lo + 1
  PROVE  Numbered(<<e>>, lo) /\ Len(<<e>>) = 1
  <1>1. PICK q : q = <<e>> OBVIOUS
  <1>2. Len(q) = 1 /\ q[1] = e BY <1>1
  <1>3. Numbered(q, lo) BY <1>2 DEF Numbered
  <1> QED BY <1>1, <1>2, <1>3

LEMMA NumberedNone ==
  ASSUME NEW lo \in Nat
  PROVE  Numbered(<< >>, lo) /\ Len(<< >>) = 0
  BY DEF Numbered

LEMMA FlightServes ==
  ASSUME Inv, NEW r \in Run, NEW s \in Session, using[r] = s, Serves(s), Outside,
         NEW m1 \in Nat, NEW m2 \in Nat, InFlight(r, s, m1, m2)
  PROVE  \E n1, n2 \in Nat : InFlight(r, s, n1, n2)'
  <1>1. Types /\ Roles /\ Counting /\ Cached /\ Flow BY DEF Inv, Base
  <1>2. /\ queue[s] \in Seq(Sound) /\ wire[s] \in Seq(Sound) /\ pending[s] \in Seq(Event) /\ seqGen[s] \in Nat
        /\ Len(got[r]) \in Nat
    BY <1>1 DEF Types
  <1>3. got' = got /\ resuming' = resuming BY DEF Outside
  <1>4. runOf[s] = r /\ s # NoSession BY <1>1, AcpAssumption DEF Roles, ClientRole
  <1>5. /\ Carries(wire[s], Len(got[r]), m1)
        /\ conn[s] => /\ Carries(queue[s], m1, m2)
                      /\ ~closed[s] => /\ Numbered(pending[s], m2)
                                       /\ ~resuming[s] => m2 + Len(pending[s]) = seqGen[s]
    BY DEF InFlight
  <1>6. wire'[s] = wire[s] /\ (closed[s] => closed'[s]) /\ (conn'[s] => conn[s])
    <2>1. CASE Talks(s) BY <2>1 DEF Talks, Keeps, Quiet, Sends
    <2>2. CASE Accepts(s) \/ Subscribes(s) \/ Publishes(s) \/ Skips(s) \/ Refused(s)
      BY <2>2 DEF Accepts, Subscribes, Publishes, Skips, Refused, Keeps, Quiet
    <2>3. ASSUME NEW ev, Emits(s, ev) PROVE wire'[s] = wire[s] /\ (closed[s] => closed'[s]) /\ (conn'[s] => conn[s])
      BY <2>3 DEF Emits, Keeps, Quiet
    <2>4. CASE Delivers(s) \/ Replays(s) BY <2>4 DEF Delivers, Replays, Keeps, Quiet, Sends
    <2>5. CASE Resumes(s) BY <2>5 DEF Resumes, Keeps, Quiet
    <2>6. CASE Finishes(s) \/ Ends(s) BY <2>6 DEF Finishes, Ends, Keeps
    <2> QED BY <2>1, <2>2, <2>3, <2>4, <2>5, <2>6 DEF Serves
  <1>7. CASE ~conn'[s]
    <2>1. InFlight(r, s, m1, m2)' BY <1>3, <1>5, <1>6, <1>7 DEF InFlight
    <2> QED BY <2>1
  <1>8. CASE conn'[s]
    <2>1. conn[s] /\ Carries(queue[s], m1, m2) BY <1>5, <1>6, <1>8
    \* It is enough to say what becomes of the queue and of what is pending.
    <2>2. ASSUME NEW n \in Nat, Carries(queue'[s], m1, n),
                 ~closed'[s] => /\ Numbered(pending'[s], n)
                                /\ ~resuming[s] => n + Len(pending'[s]) = seqGen'[s]
          PROVE  \E n1, n2 \in Nat : InFlight(r, s, n1, n2)'
      <3>1. InFlight(r, s, m1, n)' BY <1>3, <1>5, <1>6, <2>2 DEF InFlight
      <3> QED BY <3>1
    <2>3. CASE Talks(s)
      <3>1. pending'[s] = pending[s] /\ seqGen'[s] = seqGen[s] BY <2>3 DEF Talks, Counters
      <3>2. Carries(queue'[s], m1, m2)
        <4>1. ASSUME NEW kind \in {"ack", "pong", "error", "close"}, Sends(s, Control(kind))
              PROVE  Carries(queue'[s], m1, m2)
          <5>1. Control(kind) \in Sound /\ Control(kind).kind # "event" BY FrameIs
          <5>2. Carries(Append(queue[s], Control(kind)), m1, m2) BY <1>2, <2>1, <5>1, CarriesAppend
          <5> QED BY <2>1, <4>1, <5>2 DEF Sends, Quiet
        <4>2. CASE Quiet(s) BY <2>1, <4>2 DEF Quiet
        <4> QED BY <2>3, <4>1, <4>2 DEF Talks
      <3> QED BY <1>5, <1>6, <2>1, <2>2, <3>1, <3>2
    <2>4. CASE Accepts(s) \/ Subscribes(s) \/ Publishes(s) \/ Skips(s) \/ Refused(s)
      <3>1. pending'[s] = pending[s] /\ seqGen'[s] = seqGen[s] /\ queue'[s] = queue[s]
        BY <2>4 DEF Accepts, Subscribes, Publishes, Skips, Refused, Counters, Quiet
      <3> QED BY <1>5, <1>6, <2>1, <2>2, <3>1
    <2>5. ASSUME NEW ev, Emits(s, ev) PROVE \E n1, n2 \in Nat : InFlight(r, s, n1, n2)'
      <3>1. PICK e : e = [seq |-> seqGen[s] + 1, ev |-> ev] OBVIOUS
      <3>2. /\ ~closed[s] /\ phase[s] = "stream" /\ seqGen'[s] = seqGen[s] + 1 /\ pending'[s] = <<e>> /\ queue'[s] = queue[s]
        BY <2>5, <3>1 DEF Emits, Quiet
      <3>3. pending[s] = << >> /\ ~resuming[s] BY <1>1, <3>2 DEF Roles, Role, RunPhase
      <3>4. m2 = seqGen[s]
        <4>1. m2 + Len(pending[s]) = seqGen[s] BY <1>5, <2>1, <3>2, <3>3
        <4>2. Len(pending[s]) = 0 BY <3>3
        <4> QED BY <4>1, <4>2
      <3>5. e.seq = m2 + 1 BY <3>1, <3>4
      <3>6. Numbered(<<e>>, m2) /\ Len(<<e>>) = 1 BY <3>5, NumberedOne
      <3> QED BY <2>1, <2>2, <3>2, <3>4, <3>6
    <2>6. CASE Delivers(s)
      <3>1. phase[s] = "emit" /\ pending'[s] = << >> /\ seqGen'[s] = seqGen[s] BY <2>6 DEF Delivers
      <3>2. pending[s] # << >> /\ Len(pending[s]) = 1 BY <1>1, <3>1, EmittingOne
      <3>3. PICK e \in Event : e = Head(pending[s]) BY <1>2, <3>2, TailIs
      <3>4. PICK f \in Sound : f = EventFrame(e, Terminal(e.ev)) /\ f.event = e /\ f.kind = "event"
        <4>1. Terminal(e.ev) \in BOOLEAN BY DEF Terminal
        <4> QED BY <4>1, FrameIs
      <3>5. Sends(s, f) BY <2>6, <3>3, <3>4 DEF Delivers
      <3>6. CASE closed[s]
        <4>1. closed'[s] /\ queue'[s] = queue[s] BY <1>6, <3>5, <3>6 DEF Sends, Quiet
        <4> QED BY <2>1, <2>2, <4>1
      <3>7. CASE ~closed[s]
        <4>1. queue'[s] = Append(queue[s], f) BY <1>8, <3>5, <3>7 DEF Sends
        <4>2. Numbered(pending[s], m2) /\ (~resuming[s] => m2 + 1 = seqGen[s]) BY <1>5, <2>1, <3>2, <3>7
        <4>3. e.seq = m2 + 1 BY <1>2, <3>2, <3>3, <4>2, NumberedTail
        <4>4. Carries(Append(queue[s], f), m1, m2 + 1) BY <1>2, <2>1, <3>4, <4>3, CarriesAppend
        <4>5. m2 + 1 \in Nat OBVIOUS
        <4>6. Numbered(<< >>, m2 + 1) /\ Len(<< >>) = 0 BY <4>5, NumberedNone
        <4>7. ~resuming[s] => (m2 + 1) + Len(pending'[s]) = seqGen'[s] BY <3>1, <4>2, <4>5, <4>6
        <4> QED BY <2>2, <3>1, <4>1, <4>4, <4>5, <4>6, <4>7
      <3> QED BY <3>6, <3>7
    <2>7. CASE Resumes(s)
      <3>1. phase[s] = "loop" /\ resuming[s] /\ pending'[s] = Replay(r) /\ queue'[s] = queue[s]
        BY <1>4, <2>7 DEF Resumes, Quiet
      <3>2. NoEvents(wire[s]) /\ NoEvents(queue[s]) BY <1>1, <3>1 DEF Roles, Role, Early
      <3>3. m1 = Len(got[r]) BY <1>2, <1>5, <3>2, CarriesNothing
      <3>4. m2 = m1 BY <1>2, <2>1, <3>2, CarriesNothing
      <3>5. Numbered(Replay(r), m2) BY <1>1, <3>3, <3>4, Resent
      <3> QED BY <2>1, <2>2, <3>1, <3>5
    <2>8. CASE Replays(s)
      <3>1. phase[s] = "replay" /\ pending[s] # << >> /\ pending'[s] = Tail(pending[s]) BY <2>8 DEF Replays
      <3>2. resuming[s] BY <1>1, <3>1 DEF Roles, Role
      <3>3. PICK e \in Event : e = Head(pending[s]) BY <1>2, <3>1, TailIs
      <3>4. PICK f \in Sound : f = EventFrame(e, FALSE) /\ f.event = e /\ f.kind = "event" BY FrameIs
      <3>5. Sends(s, f) BY <2>8, <3>3, <3>4 DEF Replays
      <3>6. CASE closed[s]
        <4>1. closed'[s] /\ queue'[s] = queue[s] BY <1>6, <3>5, <3>6 DEF Sends, Quiet
        <4> QED BY <2>1, <2>2, <4>1
      <3>7. CASE ~closed[s]
        <4>1. queue'[s] = Append(queue[s], f) BY <1>8, <3>5, <3>7 DEF Sends
        <4>2. Numbered(pending[s], m2) BY <1>5, <2>1, <3>7
        <4>3. e.seq = m2 + 1 /\ Numbered(Tail(pending[s]), m2 + 1) BY <1>2, <3>1, <3>3, <4>2, NumberedTail
        <4>4. Carries(Append(queue[s], f), m1, m2 + 1) BY <1>2, <2>1, <3>4, <4>3, CarriesAppend
        <4>5. m2 + 1 \in Nat OBVIOUS
        <4> QED BY <2>2, <3>1, <3>2, <4>1, <4>3, <4>4, <4>5
      <3> QED BY <3>6, <3>7
    <2>9. CASE Finishes(s) \/ Ends(s)
      <3>1. /\ pending'[s] = pending[s] /\ seqGen'[s] = seqGen[s] /\ queue'[s] = queue[s]
        BY <2>9 DEF Finishes, Ends, Counters
      <3> QED BY <1>5, <1>6, <2>1, <2>2, <3>1
    <2> QED BY <2>3, <2>4, <2>5, <2>6, <2>7, <2>8, <2>9 DEF Serves
  <1> QED BY <1>7, <1>8

LEMMA FlightWrites ==
  ASSUME Inv, NEW r \in Run, NEW s \in Session, using[r] = s, Writes(s) \/ Drops(s) \/ Exits(s), Outside,
         NEW m1 \in Nat, NEW m2 \in Nat, InFlight(r, s, m1, m2)
  PROVE  \E n1, n2 \in Nat : InFlight(r, s, n1, n2)'
  <1>1. Types /\ Roles BY DEF Inv, Base
  <1>2. queue[s] \in Seq(Sound) /\ wire[s] \in Seq(Sound) /\ Len(got[r]) \in Nat BY <1>1 DEF Types
  <1>3. got' = got /\ resuming' = resuming BY DEF Outside
  <1>4. runOf[s] = r BY <1>1, AcpAssumption DEF Roles, ClientRole
  <1>5. /\ Carries(wire[s], Len(got[r]), m1)
        /\ conn[s] => /\ Carries(queue[s], m1, m2)
                      /\ ~closed[s] => /\ Numbered(pending[s], m2)
                                       /\ ~resuming[s] => m2 + Len(pending[s]) = seqGen[s]
    BY DEF InFlight
  <1>6. pending'[s] = pending[s] /\ seqGen'[s] = seqGen[s] /\ closed'[s] = closed[s]
    BY DEF Writes, Drops, Exits, ServesOn
  <1>7. CASE Drops(s)
    <2>1. InFlight(r, s, m1, m2)' BY <1>3, <1>5, <1>7 DEF InFlight, Drops
    <2> QED BY <2>1
  <1>8. CASE Exits(s)
    <2>1. InFlight(r, s, m1, m2)' BY <1>3, <1>5, <1>6, <1>8 DEF InFlight, Exits
    <2> QED BY <2>1
  <1>9. CASE Writes(s)
    <2>1. /\ conn[s] /\ conn'[s] = conn[s] /\ queue[s] # << >> /\ queue'[s] = Tail(queue[s])
          /\ wire'[s] = Append(wire[s], Head(queue[s]))
      BY <1>4, <1>9 DEF Writes, Attached
    <2>2. PICK f \in Sound : f = Head(queue[s]) BY <1>2, <2>1, TailIs
    <2>3. Carries(queue[s], m1, m2) BY <1>5, <2>1
    <2>4. /\ f.kind # "event" => Carries(Tail(queue[s]), m1, m2)
          /\ f.kind = "event" => f.event.seq = m1 + 1 /\ Carries(Tail(queue[s]), m1 + 1, m2)
      BY <1>2, <2>1, <2>2, <2>3, CarriesTail
    <2>5. /\ f.kind # "event" => Carries(Append(wire[s], f), Len(got[r]), m1)
          /\ f.kind = "event" /\ f.event.seq = m1 + 1 => Carries(Append(wire[s], f), Len(got[r]), m1 + 1)
      BY <1>2, <1>5, CarriesAppend
    <2>6. CASE f.kind # "event"
      <3>1. InFlight(r, s, m1, m2)' BY <1>3, <1>5, <1>6, <2>1, <2>2, <2>4, <2>5, <2>6 DEF InFlight
      <3> QED BY <3>1
    <2>7. CASE f.kind = "event"
      <3>1. m1 + 1 \in Nat OBVIOUS
      <3>2. InFlight(r, s, m1 + 1, m2)' BY <1>3, <1>5, <1>6, <2>1, <2>2, <2>4, <2>5, <2>7 DEF InFlight
      <3> QED BY <3>1, <3>2
    <2> QED BY <2>6, <2>7
  <1> QED BY <1>7, <1>8, <1>9

LEMMA FlowKept ==
  ASSUME Inv, [Next]_vars, "cache" \notin Faults
  PROVE  Flow'
  <1>1. Types /\ Roles /\ Alone /\ Counting /\ EventsKnown /\ Flow BY DEF Inv, Base
  <1>2. /\ using \in [Run -> Session \cup {NoSession}] /\ NoSession \notin Session /\ got \in [Run -> Seq(Event)]
        /\ wire \in [Session -> Seq(Sound)]
    BY <1>1, AcpAssumption DEF Types
  <1>3. /\ \A r \in Run : Numbered(got[r], 0)
        /\ \A r \in Run : \A s \in Session : using[r] = s => \E m1, m2 \in Nat : InFlight(r, s, m1, m2)
    BY <1>1 DEF Flow
  <1>4. \A r, q \in Run : \A s \in Session : using[r] = s /\ using[q] = s => r = q
    <2>1. ASSUME NEW r \in Run, NEW s \in Session, using[r] = s PROVE runOf[s] = r
      <3>1. ClientRole(r) /\ s # NoSession BY <1>1, <1>2 DEF Roles
      <3> QED BY <2>1, <3>1 DEF ClientRole
    <2> QED BY <2>1
  <1>5. ASSUME NEW r \in Run, NEW s \in Session, Same(s), got'[r] = got[r], resuming'[s] = resuming[s], using[r] = s
        PROVE  \E n1, n2 \in Nat : InFlight(r, s, n1, n2)'
    <2>1. PICK m1, m2 \in Nat : InFlight(r, s, m1, m2) BY <1>3, <1>5
    <2>2. InFlight(r, s, m1, m2)' BY <1>5, <2>1 DEF InFlight, Same
    <2> QED BY <2>2
  <1>6. ASSUME NEW s \in Session, Outside, \A t \in Session : t # s => Same(t),
               Serves(s) \/ Writes(s) \/ Drops(s) \/ Exits(s)
        PROVE  Flow'
    <2>1. got' = got /\ using' = using /\ resuming' = resuming BY <1>6 DEF Outside
    <2>2. ASSUME NEW r \in Run, NEW t \in Session, using'[r] = t PROVE \E n1, n2 \in Nat : InFlight(r, t, n1, n2)'
      <3>1. using[r] = t BY <2>1, <2>2
      <3>2. CASE t # s BY <1>5, <1>6, <2>1, <3>1, <3>2
      <3>3. CASE t = s
        <4>1. PICK m1, m2 \in Nat : InFlight(r, s, m1, m2) BY <1>3, <3>1, <3>3
        <4>2. CASE Serves(s) BY <1>6, <3>1, <3>3, <4>1, <4>2, FlightServes
        <4>3. CASE Writes(s) \/ Drops(s) \/ Exits(s) BY <1>6, <3>1, <3>3, <4>1, <4>3, FlightWrites
        <4> QED BY <1>6, <4>2, <4>3
      <3> QED BY <3>2, <3>3
    <2>3. \A r \in Run : Numbered(got'[r], 0) BY <1>3, <2>1
    <2> QED BY <2>2, <2>3 DEF Flow
  <1>7. ASSUME NEW r \in Run, NEW s \in Session, ClientOnly(r, s),
               ReadsControl(r, s) \/ ReadsEvent(r, s) \/ Leaves(r, s)
        PROVE  Flow'
    <2>1. /\ s = using[r] /\ resuming' = resuming /\ ServesOn(s) /\ queue'[s] = queue[s] /\ conn'[s] = conn[s]
          /\ \A t \in Session : t # s => Same(t)
          /\ \A q \in Run : q # r => using'[q] = using[q] /\ got'[q] = got[q]
      BY <1>7 DEF ClientOnly, OtherRuns
    <2>2. PICK m1, m2 \in Nat : InFlight(r, s, m1, m2) BY <1>3, <2>1
    <2>3. /\ Carries(wire[s], Len(got[r]), m1)
          /\ conn[s] => /\ Carries(queue[s], m1, m2)
                        /\ ~closed[s] => /\ Numbered(pending[s], m2)
                                         /\ ~resuming[s] => m2 + Len(pending[s]) = seqGen[s]
      BY <2>2 DEF InFlight
    <2>4. wire[s] \in Seq(Sound) /\ got[r] \in Seq(Event) /\ Len(got[r]) \in Nat BY <1>2
    <2>5. \/ got'[r] = got[r]
          \/ /\ Len(got'[r]) = Len(got[r]) + 1 /\ Numbered(got'[r], 0) /\ Carries(Tail(wire[s]), Len(got[r]) + 1, m1)
             /\ ReadsEvent(r, s)
      <3>1. CASE ReadsEvent(r, s)
        <4>1. wire[s] # << >> /\ Head(wire[s]).kind = "event" /\ got'[r] = Append(got[r], Head(wire[s]).event)
          BY <3>1 DEF ReadsEvent
        <4>2. Head(wire[s]).event.seq = Len(got[r]) + 1 /\ Carries(Tail(wire[s]), Len(got[r]) + 1, m1)
          BY <2>3, <2>4, <4>1, CarriesTail
        <4>3. PICK e \in Event : e = Head(wire[s]).event
          <5>1. PICK f \in Sound : f = Head(wire[s]) BY <2>4, <4>1, TailIs
          <5>2. f \in Frame BY DEF Sound
          <5>3. f.event \in Event BY <5>2 DEF Frame
          <5> QED BY <5>1, <5>3
        <4>4. Numbered(got[r], 0) BY <1>3
        <4>5. Numbered(Append(got[r], e), 0) /\ Len(Append(got[r], e)) = Len(got[r]) + 1
          BY <2>4, <4>2, <4>3, <4>4, NumberedAppend
        <4> QED BY <3>1, <4>1, <4>2, <4>3, <4>5
      <3>2. CASE ReadsControl(r, s) \/ Leaves(r, s) BY <3>2 DEF ReadsControl, Leaves
      <3> QED BY <1>7, <3>1, <3>2
    <2>6. \A q \in Run : Numbered(got'[q], 0) BY <1>3, <2>1, <2>5
    <2>7. ASSUME NEW q \in Run, NEW t \in Session, using'[q] = t PROVE \E n1, n2 \in Nat : InFlight(q, t, n1, n2)'
      <3>1. CASE q # r
        <4>1. using[q] = t /\ got'[q] = got[q] BY <2>1, <2>7, <3>1
        <4>2. t # s BY <1>4, <2>1, <3>1, <4>1
        <4>3. Same(t) BY <2>1, <4>2
        <4> QED BY <1>5, <2>1, <4>1, <4>3
      <3>2. CASE q = r
        <4>1. using'[r] # NoSession BY <1>2, <2>7, <3>2
        <4>2. ~Leaves(r, s) BY <4>1 DEF Leaves, Left
        <4>3. CASE ReadsControl(r, s)
          <5>1. /\ wire[s] # << >> /\ wire'[s] = Tail(wire[s]) /\ Head(wire[s]).kind # "event"
                /\ got'[r] = got[r] /\ using'[r] = using[r]
            BY <4>3 DEF ReadsControl
          <5>2. Carries(Tail(wire[s]), Len(got[r]), m1) BY <2>3, <2>4, <5>1, CarriesTail
          <5>3. InFlight(r, s, m1, m2)' BY <2>1, <2>3, <5>1, <5>2 DEF InFlight, ServesOn
          <5> QED BY <2>1, <2>7, <3>2, <5>1, <5>3
        <4>4. CASE ReadsEvent(r, s)
          <5>1. wire'[s] = Tail(wire[s]) /\ using'[r] = using[r] BY <4>1, <4>4 DEF ReadsEvent, Left
          <5>2. Len(got'[r]) = Len(got[r]) + 1 /\ Carries(Tail(wire[s]), Len(got[r]) + 1, m1)
            <6>1. CASE got'[r] = got[r]
              <7>1. wire[s] # << >> /\ Head(wire[s]).kind = "event" /\ got'[r] = Append(got[r], Head(wire[s]).event)
                BY <4>4 DEF ReadsEvent
              <7>2. PICK e \in Event : e = Head(wire[s]).event
                <8>1. PICK f \in Sound : f = Head(wire[s]) BY <2>4, <7>1, TailIs
                <8>2. f \in Frame BY DEF Sound
                <8>3. f.event \in Event BY <8>2 DEF Frame
                <8> QED BY <8>1, <8>3
              <7>3. Len(Append(got[r], e)) = Len(got[r]) + 1 BY <2>4, AppendIs
              <7> QED BY <2>4, <6>1, <7>1, <7>2, <7>3
            <6> QED BY <2>5, <6>1
          <5>3. InFlight(r, s, m1, m2)' BY <2>1, <2>3, <5>1, <5>2 DEF InFlight, ServesOn
          <5> QED BY <2>1, <2>7, <3>2, <5>1, <5>3
        <4> QED BY <1>7, <4>2, <4>3, <4>4
      <3> QED BY <3>1, <3>2
    <2> QED BY <2>6, <2>7 DEF Flow
  <1>8. ASSUME NEW r \in Run, NEW s \in Session, Dials(r, s) PROVE Flow'
    <2>1. /\ phase[s] = "none" /\ resuming'[s] = (client[r] = "lost") /\ got' = got
          /\ client[r] \in {"new", "lost"} /\ using'[r] = s
          /\ wire'[s] = wire[s] /\ queue'[s] = queue[s] /\ pending'[s] = pending[s] /\ seqGen'[s] = seqGen[s]
          /\ \A t \in Session : t # s => Same(t) /\ resuming'[t] = resuming[t]
          /\ \A q \in Run : q # r => using'[q] = using[q]
      BY <1>8 DEF Dials, Counters
    <2>2. wire'[s] = << >> /\ queue'[s] = << >> /\ pending'[s] = << >> /\ seqGen'[s] = 0
      <3>1. wire[s] = << >> /\ queue[s] = << >> /\ pending[s] = << >> BY <1>1, <2>1 DEF Roles, Role
      <3>2. seqGen[s] = 0 BY <1>1, <2>1 DEF Counting, Counts, Early
      <3> QED BY <2>1, <3>1, <3>2
    <2>3. got[r] \in Seq(Event) /\ Len(got[r]) \in Nat BY <1>2
    \* A client that has not been told its run id has received no event.
    <2>4. client[r] = "new" => Len(got[r]) = 0
      <3> SUFFICES ASSUME client[r] = "new", Len(got[r]) # 0 PROVE FALSE OBVIOUS
      <3>1. 1 \in 1..Len(got[r]) BY <2>3
      <3>2. Known(r, got[r][1]) BY <1>1, <3>1 DEF EventsKnown, EventsIn, Emitted
      <3>3. PICK t \in Session : RunSession(t, r) /\ got[r][1].seq \in 1..seqGen[t] BY <3>2 DEF Known
      <3>4. seqGen[t] = 0 BY <1>1, <3>3 DEF Alone, Untouched
      <3> QED BY <3>3, <3>4
    <2>5. InFlight(r, s, Len(got[r]), Len(got[r]))'
      <3>1. NoEvents(<< >>) /\ << >> \in Seq(Sound) BY DEF NoEvents
      <3>2. Carries(<< >>, Len(got[r]), Len(got[r])) BY <2>3, <3>1, CarriesNothing
      <3>3. Numbered(<< >>, Len(got[r])) /\ Len(<< >>) = 0 BY <2>3, NumberedNone
      <3>4. ~resuming'[s] => Len(got[r]) = 0 BY <2>1, <2>4
      <3>5. ~resuming'[s] => Len(got[r]) + Len(pending'[s]) = seqGen'[s] BY <2>2, <3>3, <3>4
      <3> QED BY <2>1, <2>2, <3>2, <3>3, <3>5 DEF InFlight
    <2>6. ASSUME NEW q \in Run, NEW t \in Session, using'[q] = t PROVE \E n1, n2 \in Nat : InFlight(q, t, n1, n2)'
      <3>1. CASE q # r
        <4>1. using[q] = t BY <2>1, <2>6, <3>1
        <4>2. t # s BY <1>1, <1>2, <2>1, <4>1 DEF Roles, ClientRole
        <4> QED BY <1>5, <2>1, <4>1, <4>2
      <3>2. CASE q = r
        <4>1. PICK n \in Nat : n = Len(got[r]) /\ InFlight(r, s, n, n)'
          <5>1. PICK n \in Nat : n = Len(got[r]) BY <2>3
          <5>2. InFlight(r, s, n, n)' BY <2>1, <2>5, <5>1 DEF InFlight
          <5> QED BY <5>1, <5>2
        <4> QED BY <2>1, <2>6, <3>2, <4>1
      <3> QED BY <3>1, <3>2
    <2>7. \A q \in Run : Numbered(got'[q], 0) BY <1>3, <2>1
    <2> QED BY <2>6, <2>7 DEF Flow
  <1>9. CASE Restart
    <2>1. UNCHANGED <<wire, got, using>> /\ \A t \in Session : conn'[t] = FALSE BY <1>9 DEF Restart, clientVars
    <2>2. ASSUME NEW q \in Run, NEW t \in Session, using'[q] = t PROVE \E n1, n2 \in Nat : InFlight(q, t, n1, n2)'
      <3>1. PICK m1, m2 \in Nat : InFlight(q, t, m1, m2) BY <1>3, <2>1, <2>2
      <3>2. InFlight(q, t, m1, m2)' BY <2>1, <3>1 DEF InFlight
      <3> QED BY <3>2
    <2> QED BY <1>3, <2>1, <2>2 DEF Flow
  <1>10. CASE (\E r \in Run : Produce(r)) \/ Stop \/ UNCHANGED vars
    <2>1. UNCHANGED <<serveVars, sendVars, outVars, inbound, clientVars>> BY <1>10 DEF Produce, Stop, vars
    <2>2. \A t \in Session : Same(t) BY <2>1 DEF Same, serveVars, sendVars, outVars
    <2>3. UNCHANGED <<using, got, resuming>> BY <2>1 DEF clientVars
    <2> QED BY <1>3, <1>5, <2>2, <2>3 DEF Flow
  <1> QED BY <1>6, <1>7, <1>8, <1>9, <1>10, Happens DEF Inv

-----------------------------------------------------------------------------
(* The theorems.                                                           *)


LEMMA InitInv ==
  ASSUME Init
  PROVE  Inv
  <1>1. /\ \A s \in Session :
             /\ phase[s] = "none" /\ inbound[s] = "none" /\ resuming[s] = FALSE /\ closed[s] = FALSE
             /\ queueOpen[s] = TRUE /\ queue[s] = << >> /\ wire[s] = << >> /\ writer[s] = "loop" /\ conn[s] = FALSE
             /\ seqGen[s] = 0 /\ cursor[s] = 0 /\ pending[s] = << >>
        /\ \A r \in Run : cache[r] = {} /\ dropped[r] = {} /\ produced[r] = 0
        /\ \A r \in Run : client[r] = "new" /\ using[r] = NoSession /\ got[r] = << >>
        /\ published = {} /\ gateway = "first"
    BY DEF Init
  <1>2. EventCount \in Nat /\ NoSession \notin Session /\ Run # {} BY AcpAssumption
  <1>3. << >> \in Seq(Sound) /\ << >> \in Seq(Event) OBVIOUS
  <1>4. Types
    <2>1. phase \in [Session -> Phase] BY DEF Init, Phase
    <2>2. runOf \in [Session -> Run]
      <3>1. PICK r \in Run : r = CHOOSE q \in Run : TRUE BY <1>2
      <3>2. runOf = [s \in Session |-> CHOOSE q \in Run : TRUE] BY DEF Init
      <3> QED BY <3>1, <3>2
    <2>3. /\ resuming \in [Session -> BOOLEAN] /\ inbound \in [Session -> {"none", "ping", "request", "bad"}]
          /\ closed \in [Session -> BOOLEAN] /\ queueOpen \in [Session -> BOOLEAN]
          /\ writer \in [Session -> {"loop", "drain", "done"}] /\ conn \in [Session -> BOOLEAN]
      BY DEF Init
    <2>4. queue \in [Session -> Seq(Sound)] /\ wire \in [Session -> Seq(Sound)] /\ pending \in [Session -> Seq(Event)]
      BY <1>3 DEF Init
    <2>5. seqGen \in [Session -> Nat] /\ cursor \in [Session -> 0..EventCount] BY <1>2 DEF Init
    <2>6. /\ produced \in [Run -> 0..EventCount]
          /\ cache \in [Run -> SUBSET Event] /\ dropped \in [Run -> SUBSET Event]
      BY <1>2 DEF Init
    <2>7. /\ client \in [Run -> {"new", "dialled", "live", "lost", "done"}]
          /\ using \in [Run -> Session \cup {NoSession}] /\ got \in [Run -> Seq(Event)]
      BY <1>3 DEF Init
    <2> QED BY <1>1, <2>1, <2>2, <2>3, <2>4, <2>5, <2>6, <2>7 DEF Types
  <1>5. Roles
    <2>1. NoEvents(<< >>) BY DEF NoEvents
    <2>2. \A s \in Session : Role(s) BY <1>1, <2>1 DEF Role, RunPhase
    <2>3. \A r \in Run : ClientRole(r) BY <1>1 DEF ClientRole
    <2> QED BY <2>2, <2>3 DEF Roles
  <1>6. Alone BY <1>1 DEF Alone, RunSession
  <1>7. Fresh BY <1>1 DEF Fresh
  <1>8. Counting BY <1>1 DEF Counting, Counts
  <1>9. EventsKnown
    <2>1. \A K : EventsIn(<< >>, K) /\ FramesIn(<< >>, K) BY DEF EventsIn, FramesIn
    <2> QED BY <1>1, <2>1 DEF EventsKnown, HandsOn
  <1>10. Cached
    <2>1. Contiguous({}, 0) BY DEF Contiguous
    <2>2. 0 \in Nat OBVIOUS
    <2> QED BY <1>1, <2>1, <2>2 DEF Cached, Caches
  <1>11. Flow
    <2>1. Numbered(<< >>, 0) BY NumberedNone
    <2> QED BY <1>1, <1>2, <2>1 DEF Flow
  <1>12. Finite
    <2>1. IsFiniteSet({}) BY FS_EmptySet
    <2> QED BY <1>1, <2>1 DEF Finite
  <1>13. Undropped BY <1>1 DEF Undropped
  <1> QED BY <1>4, <1>5, <1>6, <1>7, <1>8, <1>9, <1>10, <1>11, <1>12, <1>13 DEF Inv, Base

LEMMA FiniteKept ==
  ASSUME Base, [Next]_vars
  PROVE  Finite'
  <1>1. Types /\ Finite BY DEF Base
  <1>2. CASE cache' = cache BY <1>1, <1>2 DEF Finite
  <1>3. ASSUME NEW s \in Session, NEW ev, Emits(s, ev) PROVE Finite'
    <2>1. PICK e : e = [seq |-> seqGen[s] + 1, ev |-> ev] OBVIOUS
    <2>2. ASSUME NEW r \in Run PROVE IsFiniteSet(cache'[r])
      <3>1. cache'[r] = cache[r] \/ cache'[r] = cache[r] \cup {e} BY <1>3, <2>1 DEF Emits
      <3>2. IsFiniteSet(cache[r]) BY <1>1 DEF Finite
      <3>3. IsFiniteSet(cache[r] \cup {e}) BY <3>2, FS_AddElement
      <3> QED BY <3>1, <3>2, <3>3
    <2> QED BY <2>2 DEF Finite
  <1>4. ASSUME NEW s \in Session, Serves(s) PROVE Finite' BY <1>2, <1>3, <1>4, CachedBy
  <1>5. CASE (\E r \in Run : Produce(r)) \/ Stop \/ Restart \/ UNCHANGED vars
    <2>1. cache' = cache BY <1>5 DEF Produce, Stop, Restart, vars, envVars
    <2> QED BY <1>2, <2>1
  <1>6. ASSUME NEW r \in Run, NEW s \in Session, ClientOnly(r, s) \/ Dials(r, s) PROVE Finite'
    BY <1>2, <1>6 DEF ClientOnly, Dials
  <1> QED BY <1>2, <1>4, <1>5, <1>6, Happens

LEMMA UndroppedKept ==
  ASSUME Base, Undropped, [Next]_vars, "cache" \notin Faults
  PROVE  Undropped'
  <1>1. ASSUME dropped' = dropped, gateway' = "first" => gateway = "first" PROVE Undropped'
    BY <1>1 DEF Undropped
  <1>2. gateway' = "first" => gateway = "first" BY Onwards
  <1>3. ASSUME NEW s \in Session, Serves(s), Outside PROVE Undropped'
    <2>1. ASSUME NEW ev, Emits(s, ev) PROVE Undropped'
      <3>1. gateway' = gateway BY <1>3 DEF Outside
      <3>2. gateway = "first" => ~stopping BY DEF stopping
      <3>3. ASSUME gateway = "first", NEW r \in Run PROVE dropped'[r] = dropped[r]
        BY <2>1, <3>2, <3>3 DEF Emits
      <3> QED BY <3>1, <3>3 DEF Undropped
    <2> QED BY <1>1, <1>2, <1>3, <2>1, CachedBy
  <1>4. CASE (\E r \in Run : Produce(r)) \/ Stop \/ Restart \/ UNCHANGED vars
    <2>1. dropped' = dropped BY <1>4 DEF Produce, Stop, Restart, vars, envVars
    <2> QED BY <1>1, <1>2, <2>1
  <1>5. ASSUME NEW r \in Run, NEW s \in Session, ClientOnly(r, s) \/ Dials(r, s) PROVE Undropped'
    BY <1>1, <1>2, <1>5 DEF ClientOnly, Dials
  <1> QED BY <1>1, <1>2, <1>3, <1>4, <1>5, Happens

\* Whatever goes wrong.
LEMMA Always == Spec => []Base
  <1>1. Init => Base BY InitInv DEF Inv
  <1>2. Base /\ [Next]_vars => Base'
    <2> SUFFICES ASSUME Base, [Next]_vars PROVE Base' OBVIOUS
    <2>1. Types' /\ Finite' /\ Roles' BY TypesKept, FiniteKept, RolesKept
    <2>2. Alone' /\ Fresh' /\ Counting' /\ EventsKnown'
      BY AloneKept, FreshKept, CountingKept, EventsKnownKept
    <2> QED BY <2>1, <2>2 DEF Base
  <1> QED BY <1>1, <1>2, PTL DEF Spec

\* Without failing appends.
LEMMA Invariance ==
  ASSUME "cache" \notin Faults
  PROVE  Spec => []Inv
  <1>1. Init => Inv BY InitInv
  <1>2. Base /\ Base' /\ Inv /\ [Next]_vars => Inv'
    <2> SUFFICES ASSUME Base, Base', Inv, [Next]_vars PROVE Inv' OBVIOUS
    <2>1. Undropped BY DEF Inv
    <2>2. Undropped' /\ Cached' /\ Flow' BY <2>1, UndroppedKept, CachedKept, FlowKept
    <2> QED BY <2>2 DEF Inv
  <1> QED BY <1>1, <1>2, Always, PTL DEF Spec

\* Over any number of connections, broken at any moment and resumed from the
\* cache while the old session may still be served, a client receives a prefix
\* of the run's visible events, numbered 1, 2, 3, ...: NextEvent never skips,
\* repeats or reorders, and only the dispatcher's timeout can end the stream
\* early. The append to the cache must work: after one that failed GapFree still
\* holds in the runs, Unbroken does not.
THEOREM StreamsAreGapFree ==
  ASSUME "cache" \notin Faults
  PROVE  Spec => [](GapFree /\ Unbroken)
  <1>1. ASSUME Inv, NEW r \in Run, NEW i \in DOMAIN got[r]
        PROVE  /\ got[r][i].seq = i
               /\ \/ got[r][i].ev = Timeout /\ i = Len(got[r])
                  \/ i <= Len(Visible) /\ got[r][i].ev = Visible[i]
    <2>1. Types /\ Alone /\ EventsKnown /\ Flow BY <1>1 DEF Inv, Base
    <2>2. PICK g \in Seq(Event) : g = got[r] BY <2>1 DEF Types
    <2>3. i \in 1..Len(g) /\ Len(g) \in 1..Len(g) BY <2>2
    <2>4. \A k \in 1..Len(g) : g[k].seq = 0 + k /\ Known(r, g[k])
      BY <2>1, <2>2 DEF Flow, Numbered, EventsKnown, EventsIn, Emitted
    <2>5. g[i].seq = i /\ g[Len(g)].seq = Len(g) BY <2>3, <2>4
    <2>6. PICK s \in Session :
            /\ RunSession(s, r) /\ g[i].seq \in 1..seqGen[s]
            /\ \/ g[i].ev = Timeout /\ g[i].seq = seqGen[s]
               \/ g[i].seq <= Len(Visible) /\ g[i].ev = Visible[g[i].seq]
      BY <2>3, <2>4 DEF Known
    <2>7. PICK t \in Session : RunSession(t, r) /\ g[Len(g)].seq \in 1..seqGen[t] BY <2>3, <2>4 DEF Known
    <2>8. s = t
      <3>1. seqGen[s] # 0 /\ seqGen[t] # 0
        <4>1. seqGen[s] \in Nat /\ seqGen[t] \in Nat BY <2>1 DEF Types
        <4> QED BY <2>6, <2>7, <4>1
      <3> QED BY <2>1, <2>6, <2>7, <3>1 DEF Alone, Untouched
    <2>9. CASE g[i].ev = Timeout /\ g[i].seq = seqGen[s]
      <3>1. seqGen[s] \in Nat BY <2>1 DEF Types
      <3>2. i = Len(g) BY <2>3, <2>5, <2>7, <2>8, <2>9, <3>1
      <3> QED BY <2>2, <2>5, <2>9, <3>2
    <2>10. CASE g[i].seq <= Len(Visible) /\ g[i].ev = Visible[g[i].seq] BY <2>2, <2>5, <2>10
    <2> QED BY <2>6, <2>9, <2>10
  <1>2. Inv => Unbroken BY <1>1 DEF Unbroken
  <1>3. Inv => GapFree
    <2> SUFFICES ASSUME Inv, NEW r \in Run
                 PROVE  /\ \A i, j \in DOMAIN got[r] : i < j => got[r][i].seq < got[r][j].seq
                        /\ \A i \in DOMAIN got[r] :
                             \/ got[r][i].ev = Timeout /\ i = Len(got[r])
                             \/ got[r][i].seq <= Len(Visible) /\ got[r][i].ev = Visible[got[r][i].seq]
                        /\ \A k \in 1..LastSeq(r) : \E i \in DOMAIN got[r] : got[r][i].seq = k
      BY DEF GapFree
    <2>1. \A i \in DOMAIN got[r] :
            /\ got[r][i].seq = i
            /\ \/ got[r][i].ev = Timeout /\ i = Len(got[r])
               \/ i <= Len(Visible) /\ got[r][i].ev = Visible[i]
      BY <1>1
    <2>2. LastSeq(r) = Len(got[r])
      <3>1. Types /\ Flow BY DEF Inv, Base
      <3> QED BY <3>1, LastSeqIs
    <2>3. DOMAIN got[r] = 1..Len(got[r])
      <3>1. got[r] \in Seq(Event) BY DEF Inv, Base, Types
      <3> QED BY <3>1
    <2> QED BY <2>1, <2>2, <2>3
  <1> QED BY <1>2, <1>3, Invariance, PTL

\* session.emit appends to the cache before it sends: whatever fails, be it the
\* append, the connection or the gateway, every event a client has is in the cache
\* or is one whose append was tried and failed.
THEOREM EventsAreDurable == Spec => []DurableBeforeDelivery
  <1>1. Base => DurableBeforeDelivery
    <2> SUFFICES ASSUME Base, NEW r \in Run, NEW i \in DOMAIN got[r]
                 PROVE  got[r][i] \in cache[r] \cup dropped[r]
      BY DEF DurableBeforeDelivery
    <2>1. Types /\ EventsKnown BY DEF Base
    <2>2. i \in 1..Len(got[r])
      <3>1. got[r] \in Seq(Event) BY <2>1 DEF Types
      <3> QED BY <3>1
    <2>3. Known(r, got[r][i]) BY <2>1, <2>2 DEF EventsKnown, EventsIn, Emitted
    <2> QED BY <2>3 DEF Known
  <1> QED BY <1>1, Always, PTL

\* The dispatcher outlives its client: a run session that has come to its end
\* has cached every visible event of the run, unless its queue overflowed, the
\* run took too long or the gateway was stopped.
THEOREM RunsAreCached ==
  ASSUME "cache" \notin Faults
  PROVE  Spec => []WholeRunCached
  <1>1. Inv => WholeRunCached
    <2> DEFINE kept(s) == cache[runOf[s]] \cup dropped[runOf[s]]
    <2> SUFFICES ASSUME Inv, NEW s \in Session, phase[s] \in {"finish", "await", "ended"}, cursor[s] > 0,
                        ~Overflowed(s), Timeout \notin {e.ev : e \in kept(s)}, gateway = "first"
                 PROVE  {e.ev : e \in kept(s)} = {Visible[i] : i \in DOMAIN Visible}
      BY DEF WholeRunCached
    <2>1. Types /\ Roles /\ EventsKnown /\ Cached /\ Undropped BY DEF Inv, Base
    <2>2. PICK r \in Run : r = runOf[s] BY <2>1 DEF Types
    <2>3. ~resuming[s] /\ phase[s] # "none" BY <2>1 DEF Roles, Role
    <2>4. Whole(s)
      <3>1. Caches(s) BY <2>1 DEF Cached
      <3> QED BY <2>3, <3>1 DEF Caches, Closing
    <2>5. kept(s) = cache[r] BY <2>1, <2>2 DEF Undropped
    <2>6. ASSUME NEW e \in cache[r] PROVE e.ev # Timeout BY <2>5
    <2>7. Contiguous(cache[r], Len(Visible)) BY <2>2, <2>4, <2>6 DEF Whole
    <2>8. DOMAIN Visible = 1..Len(Visible)
      <3>1. EventCount \in 0..EventCount BY AcpAssumption
      <3>2. VisibleUpTo[EventCount] \in Seq(Nat) BY <3>1, VisibleUpToIs
      <3> QED BY <3>2 DEF Visible
    <2>9. ASSUME NEW e \in cache[r] PROVE e.seq \in 1..Len(Visible) /\ e.ev = Visible[e.seq]
      <3>1. Known(r, e) BY <2>1 DEF EventsKnown, Emitted
      <3>2. e.ev = Visible[e.seq] BY <2>6, <3>1 DEF Known
      <3> QED BY <2>7, <3>2 DEF Contiguous
    <2>10. ASSUME NEW k \in 1..Len(Visible) PROVE \E e \in cache[r] : e.ev = Visible[k]
      <3>1. PICK e \in cache[r] : e.seq = k BY <2>7 DEF Contiguous
      <3> QED BY <2>9, <3>1
    <2> QED BY <2>5, <2>8, <2>9, <2>10
  <1> QED BY <1>1, Invariance, PTL
=============================================================================

--------------------------- MODULE PipelineProofs ----------------------------
(***************************************************************************)
(* Proofs about pipelines: that ValidatePipeline and TopologicalOrder      *)
(* decide and order as their reference definition says, for every          *)
(* document, and that RunPipeline feeds each step what its dependencies    *)
(* have answered.                                                          *)
(***************************************************************************)
EXTENDS Pipeline, TLAPS, FiniteSetTheorems, WellFoundedInduction

-----------------------------------------------------------------------------
(* Induction and recursion up to n.                                        *)

LEMMA Induction ==
  ASSUME NEW n \in Nat, NEW Good, 0 \in Good,
         \A i \in 1..n : i - 1 \in Good => i \in Good
  PROVE  \A i \in 0..n : i \in Good
  <1> DEFINE Bad == {i \in 0..n : i \notin Good}
  <1> SUFFICES ASSUME Bad # {} PROVE FALSE OBVIOUS
  <1>1. Bad \subseteq Nat OBVIOUS
  <1>2. PICK m \in Bad : \A j \in Nat : j < m => j \notin Bad
    <2>1. IsWellFoundedOn(OpToRel(<, Nat), Nat) BY NatLessThanWellFounded
    <2>2. PICK m \in Bad : \A j \in Nat : <<j, m>> \in OpToRel(<, Nat) => ~(j \in Bad)
      BY <1>1, <2>1, WFMin
    <2>3. \A j \in Nat : j < m => <<j, m>> \in OpToRel(<, Nat) BY <1>1 DEF OpToRel
    <2> QED BY <2>2, <2>3
  <1>3. m \in 0..n /\ m \notin Good OBVIOUS
  <1>4. m # 0 BY <1>3
  <1>5. m \in 1..n /\ m - 1 \in 0..n /\ m - 1 \in Nat /\ m - 1 < m BY <1>3, <1>4
  <1>6. m - 1 \in Good BY <1>2, <1>5
  <1> QED BY <1>3, <1>5, <1>6

\* f is the function that starts with base and goes on with step, up to n.
Follows(f, n, base, step) ==
  f = [i \in 0..n |-> IF i = 0 THEN base ELSE step[i][f[i - 1]]]

LEMMA Recursion ==
  ASSUME NEW R, NEW base \in R, NEW n \in Nat, NEW step \in [1..n -> [R -> R]]
  PROVE  \E f \in [0..n -> R] : Follows(f, n, base, step)
  <1> DEFINE Good == {m \in 0..n : \E f \in [0..m -> R] :
                        \A i \in 0..m : f[i] = IF i = 0 THEN base ELSE step[i][f[i - 1]]}
  <1>1. 0 \in Good
    <2> DEFINE f == [i \in 0..0 |-> base]
    <2>1. f \in [0..0 -> R] /\ \A i \in 0..0 : f[i] = IF i = 0 THEN base ELSE step[i][f[i - 1]]
      OBVIOUS
    <2> HIDE DEF f
    <2>2. 0 \in 0..n OBVIOUS
    <2> QED BY <2>1, <2>2
  <1>2. ASSUME NEW m \in 1..n, m - 1 \in Good PROVE m \in Good
    <2>1. PICK f \in [0..(m - 1) -> R] :
            \A i \in 0..(m - 1) : f[i] = IF i = 0 THEN base ELSE step[i][f[i - 1]]
      BY <1>2
    <2> DEFINE last == step[m][f[m - 1]]
               g == [i \in 0..m |-> IF i = m THEN last ELSE f[i]]
    <2>2. last \in R BY <2>1
    <2> HIDE DEF last
    <2>3. g \in [0..m -> R] BY <2>1, <2>2
    <2>4. \A i \in 0..(m - 1) : g[i] = f[i] /\ (i # 0 => g[i - 1] = f[i - 1]) OBVIOUS
    <2>5. g[m] = last /\ g[m - 1] = f[m - 1] OBVIOUS
    <2> HIDE DEF g
    <2>6. ASSUME NEW i \in 0..m PROVE g[i] = IF i = 0 THEN base ELSE step[i][g[i - 1]]
      <3>1. CASE i = m BY <2>5, <3>1 DEF last
      <3>2. CASE i # m
        <4>1. i \in 0..(m - 1) BY <3>2
        <4> QED BY <2>1, <2>4, <4>1
      <3> QED BY <3>1, <3>2
    <2> QED BY <2>3, <2>6
  <1> HIDE DEF Good
  <1>3. n \in Good
    <2>1. \A i \in 1..n : i - 1 \in Good => i \in Good BY <1>2
    <2>2. \A i \in 0..n : i \in Good BY <1>1, <2>1, Induction
    <2> QED BY <2>2
  <1>4. PICK f \in [0..n -> R] : \A i \in 0..n : f[i] = IF i = 0 THEN base ELSE step[i][f[i - 1]]
    BY <1>3 DEF Good
  <1> QED BY <1>4 DEF Follows

LEMMA MinIsLeast ==
  ASSUME NEW S, S \subseteq Nat, S # {}
  PROVE  Min(S) \in S /\ \A y \in S : Min(S) <= y
  <1>1. PICK m \in S : \A j \in Nat : j < m => j \notin S
    <2>1. IsWellFoundedOn(OpToRel(<, Nat), Nat) BY NatLessThanWellFounded
    <2>2. PICK m \in S : \A j \in Nat : <<j, m>> \in OpToRel(<, Nat) => ~(j \in S)
      BY <2>1, WFMin
    <2>3. \A j \in Nat : j < m => <<j, m>> \in OpToRel(<, Nat) BY DEF OpToRel
    <2> QED BY <2>2, <2>3
  <1>2. \A y \in S : m <= y BY <1>1
  <1> QED BY <1>2 DEF Min

-----------------------------------------------------------------------------
(* Types: what the parser makes of a document.                             *)

StepRow == [id : Nat, task : BOOLEAN, deps : Seq(Nat)]

LEMMA parseListTypes == ASSUME NEW list \in Seq(Nat) PROVE parseList(list) \in Seq(Nat)
  <1> DEFINE n == Len(list)
             R == Seq(Nat)
             Turn(i, q) == IF list[i] # 0 THEN Append(q, list[i]) ELSE q
             step == [i \in 1..n |-> [q \in R |-> Turn(i, q)]]
             Eq(f) == f = [i \in 0..n |-> IF i = 0 THEN << >>
                             ELSE IF list[i] # 0 THEN Append(f[i - 1], list[i]) ELSE f[i - 1]]
             g == CHOOSE f : Eq(f)
  <1>1. n \in Nat /\ << >> \in R OBVIOUS
  <1>2. \A i \in 1..n, q \in R : Turn(i, q) \in R OBVIOUS
  <1>3. \E f : Eq(f)
    <2> HIDE DEF Turn, R, n
    <2>1. step \in [1..n -> [R -> R]] BY <1>2
    <2>2. \A i \in 1..n : \A q \in R : step[i][q] = Turn(i, q) OBVIOUS
    <2> HIDE DEF step
    <2>3. PICK f \in [0..n -> R] : Follows(f, n, << >>, step) BY <1>1, <2>1, Recursion
    <2>4. \A i \in 0..n : f[i] = IF i = 0 THEN << >> ELSE Turn(i, f[i - 1])
      <3>1. \A i \in 1..n : f[i - 1] \in R BY <1>1
      <3>2. \A i \in 0..n : f[i] = IF i = 0 THEN << >> ELSE step[i][f[i - 1]] BY <2>3 DEF Follows
      <3>3. \A i \in 0..n : i # 0 => i \in 1..n BY <1>1
      <3> QED BY <2>2, <3>1, <3>2, <3>3
    <2>5. f = [i \in 0..n |-> IF i = 0 THEN << >> ELSE Turn(i, f[i - 1])] BY <2>4
    <2> QED BY <2>5 DEF Turn
  <1>4. Eq(g) BY <1>3, Zenon
  <1>5. parseList(list) = g[n] BY DEF parseList
  <1>6. \A i \in 0..n : g[i] = IF i = 0 THEN << >> ELSE Turn(i, g[i - 1]) BY <1>4
  <1> HIDE DEF g, Turn, R, n
  <1> DEFINE Good == {i \in 0..n : g[i] \in R}
  <1>7. 0 \in Good
    <2>1. 0 \in 0..n BY <1>1
    <2>2. g[0] = << >> BY <1>6, <2>1
    <2> QED BY <1>1, <2>1, <2>2
  <1>8. ASSUME NEW i \in 1..n, i - 1 \in Good PROVE i \in Good
    <2>1. i \in 0..n /\ i # 0 /\ g[i - 1] \in R BY <1>1, <1>8
    <2>2. g[i] = Turn(i, g[i - 1]) BY <1>6, <2>1
    <2> QED BY <1>2, <2>1, <2>2
  <1> HIDE DEF Good
  <1>9. \A i \in 0..n : i \in Good BY <1>1, <1>7, <1>8, Induction
  <1>10. n \in Good BY <1>1, <1>9
  <1> QED BY <1>5, <1>10 DEF Good, R

LEMMA ParseLineTypes ==
  ASSUME NEW steps \in Seq(StepRow), NEW line, line.val \in Value(line.key)
  PROVE  ParseLine(steps, line) \in Seq(StepRow)
  <1> DEFINE cur == Len(steps)
  <1>1. CASE line.key = "item"
    <2>1. line.val \in Nat BY <1>1 DEF Value
    <2>2. NewStep(line.val) \in StepRow
      <3>1. << >> \in Seq(Nat) OBVIOUS
      <3> QED BY <2>1, <3>1 DEF NewStep, StepRow
    <2>3. ParseLine(steps, line) = Append(steps, NewStep(line.val)) BY <1>1 DEF ParseLine
    <2> QED BY <2>2, <2>3
  <1>2. ASSUME cur > 0, NEW st \in StepRow PROVE [steps EXCEPT ![cur] = st] \in Seq(StepRow)
    <2>1. cur \in 1..Len(steps) BY <1>2
    <2> QED BY <2>1
  <1>3. cur > 0 => steps[cur] \in StepRow
    <2>1. cur > 0 => cur \in 1..Len(steps) OBVIOUS
    <2> QED BY <2>1
  <1> HIDE DEF cur
  <1>4. CASE line.key = "id" /\ cur > 0
    <2>1. line.val \in Nat BY <1>4 DEF Value
    <2>2. [steps[cur] EXCEPT !.id = line.val] \in StepRow BY <1>3, <1>4, <2>1 DEF StepRow
    <2>3. ParseLine(steps, line) = [steps EXCEPT ![cur] = [steps[cur] EXCEPT !.id = line.val]]
      BY <1>4 DEF ParseLine, cur
    <2> QED BY <1>2, <1>4, <2>2, <2>3
  <1>5. CASE line.key = "task" /\ cur > 0
    <2>1. line.val \in BOOLEAN BY <1>5 DEF Value
    <2>2. [steps[cur] EXCEPT !.task = line.val] \in StepRow BY <1>3, <1>5, <2>1 DEF StepRow
    <2>3. ParseLine(steps, line) = [steps EXCEPT ![cur] = [steps[cur] EXCEPT !.task = line.val]]
      BY <1>5 DEF ParseLine, cur
    <2> QED BY <1>2, <1>5, <2>2, <2>3
  <1>6. CASE line.key = "depends_on" /\ cur > 0
    <2>1. parseList(line.val) \in Seq(Nat) BY <1>6, parseListTypes DEF Value
    <2>2. [steps[cur] EXCEPT !.deps = parseList(line.val)] \in StepRow BY <1>3, <1>6, <2>1 DEF StepRow
    <2>3. ParseLine(steps, line) = [steps EXCEPT ![cur] = [steps[cur] EXCEPT !.deps = parseList(line.val)]]
      BY <1>6 DEF ParseLine, cur
    <2> QED BY <1>2, <1>6, <2>2, <2>3
  <1>7. CASE /\ line.key # "item"
             /\ ~(line.key = "id" /\ cur > 0) /\ ~(line.key = "task" /\ cur > 0)
             /\ ~(line.key = "depends_on" /\ cur > 0)
    <2>1. ParseLine(steps, line) = steps BY <1>7 DEF ParseLine, cur
    <2> QED BY <2>1
  <1> QED BY <1>1, <1>4, <1>5, <1>6, <1>7

LEMMA ParsedTypes == ASSUME NEW d \in Documents PROVE Parsed(d) \in Seq(StepRow)
  <1> DEFINE n == Len(d)
             R == Seq(StepRow)
             step == [i \in 1..n |-> [q \in R |-> ParseLine(q, d[i])]]
             Eq(f) == f = [i \in 0..n |-> IF i = 0 THEN << >> ELSE ParseLine(f[i - 1], d[i])]
             g == CHOOSE f : Eq(f)
  <1>1. n \in Nat /\ << >> \in R BY PipelineAssumption
  <1>2. \A i \in 1..n, q \in R : ParseLine(q, d[i]) \in R BY PipelineAssumption, ParseLineTypes
  <1>3. \E f : Eq(f)
    <2> HIDE DEF R, n
    <2>1. step \in [1..n -> [R -> R]] BY <1>2
    <2>2. \A i \in 1..n : \A q \in R : step[i][q] = ParseLine(q, d[i]) OBVIOUS
    <2> HIDE DEF step
    <2>3. PICK f \in [0..n -> R] : Follows(f, n, << >>, step) BY <1>1, <2>1, Recursion
    <2>4. \A i \in 0..n : f[i] = IF i = 0 THEN << >> ELSE ParseLine(f[i - 1], d[i])
      <3>1. \A i \in 1..n : f[i - 1] \in R BY <1>1
      <3>2. \A i \in 0..n : f[i] = IF i = 0 THEN << >> ELSE step[i][f[i - 1]] BY <2>3 DEF Follows
      <3>3. \A i \in 0..n : i # 0 => i \in 1..n BY <1>1
      <3> QED BY <2>2, <3>1, <3>2, <3>3
    <2>5. f = [i \in 0..n |-> IF i = 0 THEN << >> ELSE ParseLine(f[i - 1], d[i])] BY <2>4
    <2> QED BY <2>5
  <1>4. Eq(g) BY <1>3, Zenon
  <1>5. Parsed(d) = g[n] BY DEF Parsed
  <1>6. \A i \in 0..n : g[i] = IF i = 0 THEN << >> ELSE ParseLine(g[i - 1], d[i]) BY <1>4
  <1> HIDE DEF g, R, n
  <1> DEFINE Good == {i \in 0..n : g[i] \in R}
  <1>7. 0 \in Good BY <1>1, <1>6
  <1>8. ASSUME NEW i \in 1..n, i - 1 \in Good PROVE i \in Good
    <2>1. i \in 0..n /\ i # 0 /\ g[i - 1] \in R BY <1>1, <1>8
    <2>2. g[i] = ParseLine(g[i - 1], d[i]) BY <1>6, <2>1
    <2> QED BY <1>2, <2>1, <2>2
  <1> HIDE DEF Good
  <1>9. \A i \in 0..n : i \in Good BY <1>1, <1>7, <1>8, Induction
  <1>10. n \in Good BY <1>1, <1>9
  <1> QED BY <1>5, <1>10 DEF Good, R

-----------------------------------------------------------------------------
(* Counting dependencies.                                                  *)

\* The places of a list whose id is not among the ids O.
Owed(list, O) == {k \in DOMAIN list : list[k] \notin O}

LEMMA DomainCount ==
  ASSUME NEW T, NEW list \in Seq(T)
  PROVE  /\ DOMAIN list = 1..Len(list) /\ Len(list) \in Nat
         /\ IsFiniteSet(DOMAIN list) /\ Cardinality(DOMAIN list) = Len(list)
  <1>1. DOMAIN list = 1..Len(list) /\ Len(list) \in Nat OBVIOUS
  <1>2. PICK n \in Nat : n = Len(list) BY <1>1
  <1>3. 1 \in Int /\ n \in Int OBVIOUS
  <1>4. IsFiniteSet(1..n) /\ Cardinality(1..n) = IF 1 > n THEN 0 ELSE n - 1 + 1 BY <1>3, FS_Interval
  <1>5. Cardinality(1..n) = n BY <1>4
  <1> QED BY <1>1, <1>2, <1>4, <1>5

LEMMA OwedCount ==
  ASSUME NEW list \in Seq(Nat), NEW O
  PROVE  /\ IsFiniteSet(Owed(list, O)) /\ Cardinality(Owed(list, O)) \in Nat
         /\ Cardinality(Owed(list, O)) = 0 <=> ToSet(list) \subseteq O
  <1>1. Owed(list, O) \in SUBSET DOMAIN list BY DEF Owed
  <1>2. IsFiniteSet(Owed(list, O)) BY <1>1, DomainCount, FS_Subset
  <1>3. Cardinality(Owed(list, O)) = 0 <=> Owed(list, O) = {} BY <1>2, FS_EmptySet
  <1>4. Owed(list, O) = {} <=> ToSet(list) \subseteq O BY DEF Owed, ToSet
  <1> QED BY <1>2, <1>3, <1>4, FS_CardinalityType

LEMMA OccurrencesCount ==
  ASSUME NEW list \in Seq(Nat), NEW id
  PROVE  /\ Occurrences(list, id) \in Nat
         /\ Occurrences(list, id) > 0 <=> id \in ToSet(list)
  <1> DEFINE S == {k \in DOMAIN list : list[k] = id}
  <1>1. S \in SUBSET DOMAIN list OBVIOUS
  <1>2. IsFiniteSet(S) BY <1>1, DomainCount, FS_Subset
  <1>3. Cardinality(S) = 0 <=> S = {} BY <1>2, FS_EmptySet
  <1>4. Cardinality(S) \in Nat BY <1>2, FS_CardinalityType
  <1>5. S # {} <=> id \in ToSet(list) BY DEF ToSet
  <1>6. Occurrences(list, id) = Cardinality(S) BY DEF Occurrences
  <1> HIDE DEF S
  <1> QED BY <1>3, <1>4, <1>5, <1>6

\* Putting out a step pays for every time that it is named.
LEMMA OwedLess ==
  ASSUME NEW list \in Seq(Nat), NEW O, NEW id, id \notin O
  PROVE  Cardinality(Owed(list, O \cup {id})) = Cardinality(Owed(list, O)) - Occurrences(list, id)
  <1> DEFINE S == Owed(list, O)
             T == {k \in DOMAIN list : list[k] = id}
  <1>1. IsFiniteSet(S) BY OwedCount
  <1>2. Owed(list, O \cup {id}) = S \ T /\ S \cap T = T BY DEF Owed
  <1>3. Occurrences(list, id) = Cardinality(T) BY DEF Occurrences
  <1> HIDE DEF S, T
  <1>4. Cardinality(S \ T) = Cardinality(S) - Cardinality(S \cap T) BY <1>1, FS_Difference
  <1>5. Cardinality(Owed(list, O \cup {id})) = Cardinality(S) - Cardinality(T) BY <1>2, <1>4
  <1> QED BY <1>3, <1>5 DEF S

-----------------------------------------------------------------------------
(* Kahn's algorithm: where the loop of TopologicalOrder is after n turns.   *)

UniqueIds(p) == \A i, j \in DOMAIN p : p[i].id = p[j].id => i = j

WellFormed(p) ==
  /\ p \in Seq(StepRow)
  /\ UniqueIds(p)
  /\ \A i \in DOMAIN p : ToSet(p[i].deps) \subseteq IdsOf(p)

\* Each step of s is the smallest of those that may be next.
Ordered(p, s) ==
  \A k \in DOMAIN s :
    /\ \E i \in DOMAIN p : s[k] = p[i]
    /\ s[k].id \in Free(p, Before(s, k))
    /\ \A x \in Free(p, Before(s, k)) : s[k].id <= x

LoopState(p) == [ready : SUBSET IdsOf(p), indeg : [DOMAIN p -> Int], out : Seq(StepRow)]

AtTurn(p, n, s) ==
  /\ s \in LoopState(p)
  /\ Ordered(p, s.out)
  /\ s.ready = Free(p, IdsOf(s.out))
  /\ \A i \in DOMAIN p : s.indeg[i] = Cardinality(Owed(p[i].deps, IdsOf(s.out)))
  /\ IsFiniteSet(IdsOf(s.out)) /\ Cardinality(IdsOf(s.out)) = Len(s.out)
  /\ s.ready = {} \/ Len(s.out) = n

LEMMA StepTypes ==
  ASSUME NEW p \in Seq(StepRow)
  PROVE  /\ \A i \in DOMAIN p : p[i] \in StepRow /\ p[i].id \in Nat /\ p[i].deps \in Seq(Nat)
         /\ DOMAIN p = 1..Len(p) /\ Len(p) \in Nat /\ IdsOf(p) \subseteq Nat
  <1>1. \A i \in DOMAIN p : p[i] \in StepRow OBVIOUS
  <1>2. \A i \in DOMAIN p : p[i].id \in Nat /\ p[i].deps \in Seq(Nat) BY <1>1 DEF StepRow
  <1>3. IdsOf(p) \subseteq Nat BY <1>2 DEF IdsOf
  <1>4. DOMAIN p = 1..Len(p) /\ Len(p) \in Nat OBVIOUS
  <1> QED BY <1>1, <1>2, <1>3, <1>4

\* t is s and x behind it.
OneMore(s, x, t) ==
  /\ Len(t) = Len(s) + 1
  /\ IdsOf(t) = IdsOf(s) \cup {x.id}
  /\ \A k \in 1..Len(s) : t[k] = s[k] /\ Before(t, k) = Before(s, k)
  /\ t[Len(s) + 1] = x /\ Before(t, Len(s) + 1) = IdsOf(s)

LEMMA AppendIds ==
  ASSUME NEW s \in Seq(StepRow), NEW x \in StepRow
  PROVE  OneMore(s, x, Append(s, x))
  <1> DEFINE t == Append(s, x)
  <1>1. PICK n \in Nat : n = Len(s) OBVIOUS
  <1>2. t \in Seq(StepRow) /\ Len(t) = n + 1 /\ t[n + 1] = x /\ \A k \in 1..n : t[k] = s[k] BY <1>1
  <1>3. DOMAIN s = 1..n /\ DOMAIN t = 1..(n + 1) BY <1>1, <1>2
  <1>4. IdsOf(t) = IdsOf(s) \cup {x.id}
    <2>1. \A k \in 1..(n + 1) : k \in 1..n \/ k = n + 1 OBVIOUS
    <2>2. \A k \in 1..n : k \in 1..(n + 1) OBVIOUS
    <2>3. n + 1 \in 1..(n + 1) OBVIOUS
    <2> QED BY <1>2, <1>3, <2>1, <2>2, <2>3 DEF IdsOf
  <1>5. ASSUME NEW k \in 1..n PROVE Before(t, k) = Before(s, k)
    <2>1. \A j \in 1..(k - 1) : j \in 1..n OBVIOUS
    <2>2. \A j \in 1..(k - 1) : t[j].id = s[j].id BY <1>2, <2>1
    <2> QED BY <2>2 DEF Before
  <1>6. Before(t, n + 1) = IdsOf(s)
    <2>1. (n + 1) - 1 = n OBVIOUS
    <2>2. Before(t, n + 1) = {t[j].id : j \in 1..n} BY <2>1 DEF Before
    <2> QED BY <1>2, <1>3, <2>2 DEF IdsOf
  <1> HIDE DEF t
  <1>7. OneMore(s, x, t) BY <1>1, <1>2, <1>4, <1>5, <1>6 DEF OneMore
  <1> QED BY <1>7 DEF t

\* The step that is put out next: the smallest that is ready.
LEMMA NextOut ==
  ASSUME NEW p \in Seq(StepRow), NEW s \in LoopState(p), s.ready # {}
  PROVE  \E i \in DOMAIN p : /\ i = (CHOOSE j \in DOMAIN p : p[j].id = Min(s.ready))
                             /\ p[i].id = Min(s.ready) /\ Min(s.ready) \in s.ready
                             /\ \A x \in s.ready : Min(s.ready) <= x
  <1>1. s.ready \subseteq IdsOf(p) BY DEF LoopState
  <1>2. s.ready \subseteq Nat BY <1>1, StepTypes
  <1>3. Min(s.ready) \in s.ready /\ \A x \in s.ready : Min(s.ready) <= x BY <1>2, MinIsLeast
  <1>4. \E j \in DOMAIN p : p[j].id = Min(s.ready) BY <1>1, <1>3 DEF IdsOf
  <1>5. PICK i : i = CHOOSE j \in DOMAIN p : p[j].id = Min(s.ready) OBVIOUS
  <1>6. i \in DOMAIN p /\ p[i].id = Min(s.ready) BY <1>4, <1>5
  <1> QED BY <1>3, <1>5, <1>6

LEMMA KahnTypes ==
  ASSUME NEW p \in Seq(StepRow), NEW s \in LoopState(p)
  PROVE  Kahn(p, s) \in LoopState(p)
  <1>1. CASE s.ready = {} BY <1>1 DEF Kahn
  <1>2. CASE s.ready # {}
    <2> DEFINE id == Min(s.ready)
               kids == {i \in DOMAIN p : Occurrences(p[i].deps, id) > 0}
               indeg == [i \in DOMAIN p |-> s.indeg[i] - Occurrences(p[i].deps, id)]
               ready == (s.ready \ {id}) \cup {p[i].id : i \in {j \in kids : indeg[j] = 0}}
               out == Append(s.out, p[CHOOSE i \in DOMAIN p : p[i].id = id])
    <2>1. Kahn(p, s) = [ready |-> ready, indeg |-> indeg, out |-> out] BY <1>2 DEF Kahn
    <2>2. ready \in SUBSET IdsOf(p) BY DEF LoopState, IdsOf
    <2>3. indeg \in [DOMAIN p -> Int]
      <3>1. ASSUME NEW i \in DOMAIN p PROVE s.indeg[i] - Occurrences(p[i].deps, id) \in Int
        <4>1. Occurrences(p[i].deps, id) \in Nat BY StepTypes, OccurrencesCount
        <4>2. s.indeg[i] \in Int BY DEF LoopState
        <4> QED BY <4>1, <4>2
      <3> QED BY <3>1
    <2>4. out \in Seq(StepRow)
      <3>1. PICK i \in DOMAIN p : i = CHOOSE j \in DOMAIN p : p[j].id = Min(s.ready) BY <1>2, NextOut
      <3>2. out = Append(s.out, p[i]) BY <3>1
      <3>3. p[i] \in StepRow /\ s.out \in Seq(StepRow) BY StepTypes DEF LoopState
      <3> QED BY <3>2, <3>3
    <2> HIDE DEF ready, indeg, out
    <2> QED BY <2>1, <2>2, <2>3, <2>4 DEF LoopState
  <1> QED BY <1>1, <1>2

\* What a step that is out waited for is out before it.
LEMMA OutIsFed ==
  ASSUME NEW p, WellFormed(p), NEW s \in Seq(StepRow), Ordered(p, s), NEW i \in DOMAIN p, p[i].id \in IdsOf(s)
  PROVE  ToSet(p[i].deps) \subseteq IdsOf(s)
  <1>1. PICK k \in DOMAIN s : s[k].id = p[i].id BY DEF IdsOf
  <1>2. s[k].id \in Free(p, Before(s, k)) BY DEF Ordered
  <1>3. PICK j \in DOMAIN p : p[j].id = s[k].id /\ ToSet(p[j].deps) \subseteq Before(s, k) BY <1>2 DEF Free
  <1>4. j = i BY <1>1, <1>3 DEF WellFormed, UniqueIds
  <1>5. Before(s, k) \subseteq IdsOf(s)
    <2>1. DOMAIN s = 1..Len(s) /\ Len(s) \in Nat OBVIOUS
    <2>2. \A m \in 1..(k - 1) : m \in DOMAIN s BY <2>1
    <2> QED BY <2>2 DEF Before, IdsOf
  <1> QED BY <1>3, <1>4, <1>5

LEMMA KahnTurns ==
  ASSUME NEW p, WellFormed(p), NEW n \in Nat, NEW s, AtTurn(p, n, s)
  PROVE  AtTurn(p, n + 1, Kahn(p, s))
  <1>1. p \in Seq(StepRow) /\ s \in LoopState(p) BY DEF WellFormed, AtTurn
  <1>2. CASE s.ready = {}
    <2>1. Kahn(p, s) = s BY <1>2 DEF Kahn
    <2> QED BY <1>2, <2>1 DEF AtTurn
  <1>3. CASE s.ready # {}
    <2>1. PICK c \in DOMAIN p : /\ c = (CHOOSE j \in DOMAIN p : p[j].id = Min(s.ready))
                                /\ p[c].id = Min(s.ready) /\ Min(s.ready) \in s.ready
                                /\ \A x \in s.ready : Min(s.ready) <= x
      BY <1>1, <1>3, NextOut
    <2>2. PICK id : id = Min(s.ready) OBVIOUS
    <2>3. PICK O : O = IdsOf(s.out) OBVIOUS
    <2>4. PICK t : t = Kahn(p, s) OBVIOUS
    <2>5. t \in LoopState(p) BY <1>1, <2>4, KahnTypes
    <2>6. PICK indeg : indeg = [i \in DOMAIN p |-> s.indeg[i] - Occurrences(p[i].deps, id)] OBVIOUS
    <2>7. /\ t.ready = (s.ready \ {id})
                       \cup {p[i].id : i \in {j \in {l \in DOMAIN p : Occurrences(p[l].deps, id) > 0} : indeg[j] = 0}}
          /\ t.indeg = indeg
          /\ t.out = Append(s.out, p[c])
      BY <1>3, <2>1, <2>2, <2>4, <2>6 DEF Kahn
    <2>8. s.out \in Seq(StepRow) /\ p[c] \in StepRow BY <1>1, StepTypes DEF LoopState
    <2>9. /\ Len(t.out) = Len(s.out) + 1
          /\ IdsOf(t.out) = O \cup {id}
          /\ \A k \in 1..Len(s.out) : t.out[k] = s.out[k] /\ Before(t.out, k) = Before(s.out, k)
          /\ t.out[Len(s.out) + 1] = p[c] /\ Before(t.out, Len(s.out) + 1) = O
      <3>1. OneMore(s.out, p[c], t.out) BY <2>7, <2>8, AppendIds
      <3> QED BY <2>1, <2>2, <2>3, <3>1 DEF OneMore
    <2>10. s.ready = Free(p, O) /\ id \in Free(p, O) /\ Ordered(p, s.out) BY <2>1, <2>2, <2>3 DEF AtTurn
    <2>11. id \notin O /\ ToSet(p[c].deps) \subseteq O
      <3>1. PICK i \in DOMAIN p : p[i].id = id /\ id \notin O /\ ToSet(p[i].deps) \subseteq O BY <2>10 DEF Free
      <3>2. i = c BY <2>1, <2>2, <3>1 DEF WellFormed, UniqueIds
      <3> QED BY <3>1, <3>2
    <2>12. \A i \in DOMAIN p : t.indeg[i] = Cardinality(Owed(p[i].deps, IdsOf(t.out)))
      <3> SUFFICES ASSUME NEW i \in DOMAIN p PROVE t.indeg[i] = Cardinality(Owed(p[i].deps, IdsOf(t.out))) OBVIOUS
      <3>1. t.indeg[i] = s.indeg[i] - Occurrences(p[i].deps, id) BY <2>6, <2>7
      <3>2. s.indeg[i] = Cardinality(Owed(p[i].deps, O)) BY <2>3 DEF AtTurn
      <3>3. p[i].deps \in Seq(Nat) BY <1>1, StepTypes
      <3>4. Cardinality(Owed(p[i].deps, O \cup {id})) = Cardinality(Owed(p[i].deps, O)) - Occurrences(p[i].deps, id)
        BY <2>11, <3>3, OwedLess
      <3> QED BY <2>9, <3>1, <3>2, <3>4
    <2>13. ASSUME NEW i \in DOMAIN p
           PROVE  /\ t.indeg[i] = 0 <=> ToSet(p[i].deps) \subseteq O \cup {id}
                  /\ Occurrences(p[i].deps, id) > 0 <=> id \in ToSet(p[i].deps)
      <3>1. p[i].deps \in Seq(Nat) BY <1>1, StepTypes
      <3>2. t.indeg[i] = Cardinality(Owed(p[i].deps, O \cup {id})) BY <2>9, <2>12
      <3> QED BY <3>1, <3>2, OwedCount, OccurrencesCount
    <2>14. t.ready = Free(p, O \cup {id})
      <3>1. ASSUME NEW x \in t.ready PROVE x \in Free(p, O \cup {id})
        <4>1. CASE x \in s.ready /\ x # id
          <5>1. PICK i \in DOMAIN p : p[i].id = x /\ x \notin O /\ ToSet(p[i].deps) \subseteq O
            BY <2>10, <4>1 DEF Free
          <5> QED BY <4>1, <5>1 DEF Free
        <4>2. ASSUME NEW i \in DOMAIN p, Occurrences(p[i].deps, id) > 0, indeg[i] = 0, x = p[i].id
              PROVE  x \in Free(p, O \cup {id})
          <5>1. ToSet(p[i].deps) \subseteq O \cup {id} /\ id \in ToSet(p[i].deps) BY <2>7, <2>13, <4>2
          <5>2. p[i].id \notin O BY <2>3, <2>8, <2>10, <2>11, <5>1, OutIsFed
          <5>3. p[i].id # id
            <6> SUFFICES ASSUME p[i].id = id PROVE FALSE OBVIOUS
            <6>1. i = c BY <2>1, <2>2 DEF WellFormed, UniqueIds
            <6> QED BY <2>11, <5>1, <6>1
          <5> QED BY <4>2, <5>1, <5>2, <5>3 DEF Free
        <4> QED BY <2>7, <3>1, <4>1, <4>2
      <3>2. ASSUME NEW x \in Free(p, O \cup {id}) PROVE x \in t.ready
        <4>1. PICK i \in DOMAIN p : p[i].id = x /\ x \notin O \cup {id} /\ ToSet(p[i].deps) \subseteq O \cup {id}
          BY <3>2 DEF Free
        <4>2. CASE id \in ToSet(p[i].deps)
          <5>1. indeg[i] = 0 /\ Occurrences(p[i].deps, id) > 0 BY <2>7, <2>13, <4>1, <4>2
          <5> QED BY <2>7, <4>1, <5>1
        <4>3. CASE id \notin ToSet(p[i].deps)
          <5>1. ToSet(p[i].deps) \subseteq O /\ x \notin O /\ x # id BY <4>1, <4>3
          <5>2. x \in Free(p, O) BY <4>1, <5>1 DEF Free
          <5> QED BY <2>7, <2>10, <5>1, <5>2
        <4> QED BY <4>2, <4>3
      <3> QED BY <3>1, <3>2
    <2>15. Ordered(p, t.out)
      <3>1. PICK m \in Nat : m = Len(s.out) BY <2>8
      <3>2. DOMAIN t.out = 1..(m + 1) /\ DOMAIN s.out = 1..m
        <4>1. t.out \in Seq(StepRow) BY <2>5 DEF LoopState
        <4> QED BY <2>8, <2>9, <3>1, <4>1
      <3> SUFFICES ASSUME NEW k \in 1..(m + 1)
                   PROVE  /\ \E i \in DOMAIN p : t.out[k] = p[i]
                          /\ t.out[k].id \in Free(p, Before(t.out, k))
                          /\ \A x \in Free(p, Before(t.out, k)) : t.out[k].id <= x
        BY <3>2 DEF Ordered
      <3>3. CASE k = m + 1
        <4>1. t.out[k] = p[c] /\ Before(t.out, k) = O BY <2>9, <3>1, <3>3
        <4> QED BY <2>1, <2>2, <2>10, <4>1
      <3>4. CASE k # m + 1
        <4>1. k \in 1..m BY <3>4
        <4>2. t.out[k] = s.out[k] /\ Before(t.out, k) = Before(s.out, k) BY <2>9, <3>1, <4>1
        <4> QED BY <2>10, <3>2, <4>1, <4>2 DEF Ordered
      <3> QED BY <3>3, <3>4
    <2>16. IsFiniteSet(IdsOf(t.out)) /\ Cardinality(IdsOf(t.out)) = Len(t.out)
      <3>1. IsFiniteSet(O) /\ Cardinality(O) = Len(s.out) BY <2>3 DEF AtTurn
      <3>2. IsFiniteSet(O \cup {id}) /\ Cardinality(O \cup {id}) = Cardinality(O) + 1
        BY <2>11, <3>1, FS_AddElement
      <3> QED BY <2>9, <3>1, <3>2
    <2>17. Len(t.out) = n + 1 BY <1>3, <2>9 DEF AtTurn
    <2> QED BY <2>4, <2>5, <2>9, <2>12, <2>14, <2>15, <2>16, <2>17 DEF AtTurn
  <1> QED BY <1>2, <1>3

LEMMA FirstTurn ==
  ASSUME NEW p, WellFormed(p), NEW indeg, indeg = [i \in DOMAIN p |-> Len(p[i].deps)],
         NEW ready, ready = {p[i].id : i \in {j \in DOMAIN p : indeg[j] = 0}}
  PROVE  AtTurn(p, 0, [ready |-> ready, indeg |-> indeg, out |-> << >>])
  <1> DEFINE s == [ready |-> ready, indeg |-> indeg, out |-> << >>]
  <1>1. p \in Seq(StepRow) BY DEF WellFormed
  <1>2. IdsOf(s.out) = {} BY DEF IdsOf
  <1>3. ASSUME NEW i \in DOMAIN p
        PROVE  /\ indeg[i] \in Int /\ indeg[i] = Cardinality(Owed(p[i].deps, {}))
               /\ indeg[i] = 0 <=> ToSet(p[i].deps) \subseteq {}
    <2>1. p[i].deps \in Seq(Nat) BY <1>1, StepTypes
    <2>2. Owed(p[i].deps, {}) = DOMAIN p[i].deps BY DEF Owed
    <2>3. indeg[i] = Len(p[i].deps) OBVIOUS
    <2>4. Len(p[i].deps) \in Nat /\ Cardinality(DOMAIN p[i].deps) = Len(p[i].deps) BY <2>1, DomainCount
    <2>5. Cardinality(Owed(p[i].deps, {})) = 0 <=> ToSet(p[i].deps) \subseteq {} BY <2>1, OwedCount
    <2> QED BY <2>2, <2>3, <2>4, <2>5
  <1>4. ready = Free(p, {}) BY <1>3 DEF Free
  <1>5. s \in LoopState(p)
    <2>1. ready \in SUBSET IdsOf(p) BY DEF IdsOf
    <2>2. indeg \in [DOMAIN p -> Int] BY <1>3
    <2>3. << >> \in Seq(StepRow) OBVIOUS
    <2> QED BY <2>1, <2>2, <2>3 DEF LoopState
  <1>6. Ordered(p, << >>) BY DEF Ordered
  <1>7. IsFiniteSet({}) /\ Cardinality({}) = 0 BY FS_EmptySet
  <1>8. Len(<< >>) = 0 OBVIOUS
  <1>9. s.ready = ready /\ s.indeg = indeg /\ s.out = << >> OBVIOUS
  <1> HIDE DEF s
  <1>10. AtTurn(p, 0, s) BY <1>2, <1>3, <1>4, <1>5, <1>6, <1>7, <1>8, <1>9 DEF AtTurn
  <1> QED BY <1>10 DEF s

\* TopologicalOrder is what is out after as many turns as there are steps.
LEMMA SortedTurns ==
  ASSUME NEW p, WellFormed(p)
  PROVE  \E s : AtTurn(p, Len(p), s) /\ TopologicalOrder(p) = s.out
  <1>1. PICK indeg : indeg = [i \in DOMAIN p |-> Len(p[i].deps)] OBVIOUS
  <1>2. PICK ready : ready = {p[i].id : i \in {j \in DOMAIN p : indeg[j] = 0}} OBVIOUS
  <1>3. PICK base : base = [ready |-> ready, indeg |-> indeg, out |-> << >>] OBVIOUS
  <1>4. AtTurn(p, 0, base) BY <1>1, <1>2, <1>3, FirstTurn
  <1>5. p \in Seq(StepRow) /\ base \in LoopState(p) BY <1>4 DEF WellFormed, AtTurn
  <1> DEFINE n == Len(p)
             R == LoopState(p)
             step == [i \in 1..n |-> [q \in R |-> Kahn(p, q)]]
             Eq(f) == f = [i \in 0..n |-> IF i = 0 THEN base ELSE Kahn(p, f[i - 1])]
             g == CHOOSE f : Eq(f)
  <1>6. n \in Nat BY <1>5
  <1>7. \A q \in R : Kahn(p, q) \in R BY <1>5, KahnTypes
  <1>8. \E f : Eq(f)
    <2> HIDE DEF R, n
    <2>1. step \in [1..n -> [R -> R]] BY <1>7
    <2>2. \A i \in 1..n : \A q \in R : step[i][q] = Kahn(p, q) OBVIOUS
    <2> HIDE DEF step
    <2>3. base \in R BY <1>5 DEF R
    <2>4. PICK f \in [0..n -> R] : Follows(f, n, base, step) BY <1>6, <2>1, <2>3, Recursion
    <2>5. \A i \in 0..n : f[i] = IF i = 0 THEN base ELSE Kahn(p, f[i - 1])
      <3>1. \A i \in 1..n : f[i - 1] \in R BY <1>6
      <3>2. \A i \in 0..n : f[i] = IF i = 0 THEN base ELSE step[i][f[i - 1]] BY <2>4 DEF Follows
      <3>3. \A i \in 0..n : i # 0 => i \in 1..n BY <1>6
      <3> QED BY <2>2, <3>1, <3>2, <3>3
    <2>6. f = [i \in 0..n |-> IF i = 0 THEN base ELSE Kahn(p, f[i - 1])] BY <2>5
    <2> QED BY <2>6
  <1>9. Eq(g) BY <1>8, Zenon
  <1>10. TopologicalOrder(p) = g[n].out BY <1>1, <1>2, <1>3 DEF TopologicalOrder, Sorted
  <1>11. \A i \in 0..n : g[i] = IF i = 0 THEN base ELSE Kahn(p, g[i - 1]) BY <1>9
  <1> HIDE DEF g, R, n
  <1> DEFINE Good == {i \in 0..n : AtTurn(p, i, g[i])}
  <1>12. 0 \in Good
    <2>1. 0 \in 0..n BY <1>6
    <2>2. g[0] = base BY <1>11, <2>1
    <2> QED BY <1>4, <2>1, <2>2
  <1>13. ASSUME NEW i \in 1..n, i - 1 \in Good PROVE i \in Good
    <2>1. i \in 0..n /\ i # 0 /\ i - 1 \in Nat /\ (i - 1) + 1 = i BY <1>6
    <2>2. PICK q : q = g[i - 1] OBVIOUS
    <2>3. PICK h : h = i - 1 OBVIOUS
    <2>4. AtTurn(p, h, q) /\ h \in Nat BY <1>13, <2>1, <2>2, <2>3
    <2>5. AtTurn(p, h + 1, Kahn(p, q)) BY <2>4, KahnTurns
    <2>6. g[i] = Kahn(p, q) /\ h + 1 = i BY <1>11, <2>1, <2>2, <2>3
    <2> QED BY <2>1, <2>5, <2>6
  <1> HIDE DEF Good
  <1>14. \A i \in 0..n : i \in Good BY <1>6, <1>12, <1>13, Induction
  <1>15. n \in Good BY <1>6, <1>14
  <1>16. AtTurn(p, n, g[n]) BY <1>15 DEF Good
  <1> QED BY <1>10, <1>16 DEF n

-----------------------------------------------------------------------------
(* What the order is good for.                                             *)

LEMMA CountIds ==
  ASSUME NEW p \in Seq(StepRow), UniqueIds(p)
  PROVE  IsFiniteSet(IdsOf(p)) /\ Cardinality(IdsOf(p)) = Len(p)
  <1> DEFINE f == [i \in DOMAIN p |-> p[i].id]
  <1>1. f \in [DOMAIN p -> IdsOf(p)] BY DEF IdsOf
  <1>2. f \in Surjection(DOMAIN p, IdsOf(p)) BY <1>1 DEF Surjection, IdsOf
  <1>3. f \in Injection(DOMAIN p, IdsOf(p)) BY <1>1 DEF Injection, IsInjective, UniqueIds
  <1>4. IsFiniteSet(DOMAIN p) /\ Cardinality(DOMAIN p) = Len(p) BY DomainCount
  <1> HIDE DEF f
  <1> QED BY <1>2, <1>3, <1>4, FS_Surjection

Acyclic(p) ==
  \A w \in (SUBSET DOMAIN p) \ {{}} :
    \E i \in w : ToSet(p[i].deps) \cap {p[j].id : j \in w} = {}

\* All steps are out: the one of a set that is out first waits for none of it.
LEMMA OutIsAcyclic ==
  ASSUME NEW p, WellFormed(p), NEW s \in Seq(StepRow), Ordered(p, s), IdsOf(s) = IdsOf(p)
  PROVE  Acyclic(p)
  <1> SUFFICES ASSUME NEW w \in SUBSET DOMAIN p, w # {}
               PROVE  \E i \in w : ToSet(p[i].deps) \cap {p[j].id : j \in w} = {}
    BY DEF Acyclic
  <1> DEFINE W == {p[j].id : j \in w}
             K == {k \in DOMAIN s : s[k].id \in W}
  <1>1. K \subseteq Nat /\ K # {}
    <2>1. DOMAIN s \subseteq Nat OBVIOUS
    <2>2. PICK j \in w : TRUE OBVIOUS
    <2>3. p[j].id \in IdsOf(s) BY DEF IdsOf
    <2>4. PICK k \in DOMAIN s : s[k].id = p[j].id BY <2>3 DEF IdsOf
    <2> QED BY <2>1, <2>2, <2>4
  <1>2. PICK k \in K : \A l \in K : k <= l BY <1>1, MinIsLeast
  <1>3. PICK i \in w : s[k].id = p[i].id BY <1>2
  <1>4. s[k].id \in Free(p, Before(s, k)) BY <1>2 DEF Ordered
  <1>5. PICK j \in DOMAIN p : p[j].id = s[k].id /\ ToSet(p[j].deps) \subseteq Before(s, k) BY <1>4 DEF Free
  <1>6. j = i BY <1>3, <1>5 DEF WellFormed, UniqueIds
  <1>7. Before(s, k) \cap W = {}
    <2> SUFFICES ASSUME NEW l \in 1..(k - 1), s[l].id \in W PROVE FALSE BY DEF Before
    <2>1. DOMAIN s = 1..Len(s) /\ Len(s) \in Nat OBVIOUS
    <2>2. k \in 1..Len(s) BY <1>2, <2>1
    <2>3. l \in DOMAIN s /\ l < k BY <2>1, <2>2
    <2>4. l \in K BY <2>3
    <2> QED BY <1>1, <1>2, <2>3, <2>4
  <1> QED BY <1>5, <1>6, <1>7

\* Nothing is ready but some steps are not out: those wait for each other.
LEMMA StuckIsCyclic ==
  ASSUME NEW p, WellFormed(p), NEW O, Free(p, O) = {}, ~(IdsOf(p) \subseteq O)
  PROVE  ~Acyclic(p)
  <1> DEFINE w == {i \in DOMAIN p : p[i].id \notin O}
             W == {p[j].id : j \in w}
  <1>1. w \in (SUBSET DOMAIN p) \ {{}} BY DEF IdsOf
  <1> SUFFICES ASSUME NEW i \in w, ToSet(p[i].deps) \cap W = {} PROVE FALSE BY <1>1 DEF Acyclic
  <1>2. ToSet(p[i].deps) \subseteq IdsOf(p) BY DEF WellFormed
  <1>3. IdsOf(p) \subseteq O \cup W BY DEF IdsOf
  <1>4. ToSet(p[i].deps) \subseteq O BY <1>2, <1>3
  <1>5. p[i].id \in Free(p, O) BY <1>4 DEF Free
  <1> QED BY <1>5

\* What TopologicalOrder gives for a list of steps.
IsPlan(p, o) ==
  /\ o \in Seq(StepRow) /\ Len(o) = Len(p)
  /\ Ordered(p, o)
  /\ \A k \in DOMAIN o : o[k].id \notin Before(o, k) /\ ToSet(o[k].deps) \subseteq Before(o, k)

LEMMA OrderDecides ==
  ASSUME NEW p, WellFormed(p), NEW o, o = TopologicalOrder(p)
  PROVE  /\ Len(o) = Len(p) <=> Acyclic(p)
         /\ Len(o) = Len(p) => IsPlan(p, o)
  <1>1. PICK s : AtTurn(p, Len(p), s) /\ o = s.out BY SortedTurns
  <1>2. p \in Seq(StepRow) /\ UniqueIds(p) BY DEF WellFormed
  <1>3. s \in LoopState(p) /\ o \in Seq(StepRow) /\ Ordered(p, o) BY <1>1 DEF AtTurn, LoopState
  <1>4. IsFiniteSet(IdsOf(o)) /\ Cardinality(IdsOf(o)) = Len(o) BY <1>1 DEF AtTurn
  <1>5. IsFiniteSet(IdsOf(p)) /\ Cardinality(IdsOf(p)) = Len(p) BY <1>2, CountIds
  <1>6. \A k \in DOMAIN o : \E i \in DOMAIN p : o[k] = p[i] BY <1>3 DEF Ordered
  <1>7. IdsOf(o) \subseteq IdsOf(p) BY <1>6 DEF IdsOf
  <1>8. Len(o) = Len(p) => IdsOf(o) = IdsOf(p)
    <2>1. IdsOf(o) \in SUBSET IdsOf(p) BY <1>7
    <2>2. Cardinality(IdsOf(p)) = Cardinality(IdsOf(o)) => IdsOf(p) = IdsOf(o) BY <1>5, <2>1, FS_Subset
    <2> QED BY <1>4, <1>5, <2>2
  <1>9. Len(o) = Len(p) => Acyclic(p) BY <1>3, <1>8, OutIsAcyclic
  <1>10. ASSUME Len(o) # Len(p) PROVE ~Acyclic(p)
    <2>1. Free(p, IdsOf(o)) = {} BY <1>1, <1>10 DEF AtTurn
    <2>2. IdsOf(p) # IdsOf(o) BY <1>4, <1>5, <1>10
    <2>3. ~(IdsOf(p) \subseteq IdsOf(o)) BY <1>7, <2>2
    <2> QED BY <2>1, <2>3, StuckIsCyclic
  <1>11. ASSUME NEW k \in DOMAIN o PROVE o[k].id \notin Before(o, k) /\ ToSet(o[k].deps) \subseteq Before(o, k)
    <2>1. PICK i \in DOMAIN p : o[k] = p[i] BY <1>6
    <2>2. o[k].id \in Free(p, Before(o, k)) BY <1>3 DEF Ordered
    <2>3. PICK j \in DOMAIN p : /\ p[j].id = o[k].id /\ p[j].id \notin Before(o, k)
                                /\ ToSet(p[j].deps) \subseteq Before(o, k)
      BY <2>2 DEF Free
    <2>4. j = i BY <1>2, <2>1, <2>3 DEF UniqueIds
    <2> QED BY <2>1, <2>3, <2>4
  <1> QED BY <1>3, <1>9, <1>10, <1>11 DEF IsPlan

\* ValidatePipeline decides whether a pipeline is sound.
LEMMA Validates ==
  ASSUME NEW p \in Seq(StepRow)
  PROVE  /\ ValidatePipeline(p) = "ok" <=> Sound(p)
         /\ Sound(p) => IsPlan(p, TopologicalOrder(p))
  <1> DEFINE seen(i) == \E j \in 1..(i - 1) : p[j].id = p[i].id
             bad == {i \in DOMAIN p : p[i].id = 0 \/ seen(i) \/ ~p[i].task}
             Known == \A i \in DOMAIN p : ToSet(p[i].deps) \subseteq IdsOf(p)
             Named == \A i \in DOMAIN p : p[i].id # 0 /\ p[i].task
  <1>1. (\A i \in DOMAIN p : ~seen(i)) <=> UniqueIds(p)
    <2>1. DOMAIN p = 1..Len(p) /\ Len(p) \in Nat OBVIOUS
    <2>2. ASSUME UniqueIds(p), NEW i \in DOMAIN p PROVE ~seen(i)
      <3>1. \A j \in 1..(i - 1) : j \in DOMAIN p /\ j # i BY <2>1
      <3> QED BY <2>2, <3>1 DEF UniqueIds
    <2>3. ASSUME \A i \in DOMAIN p : ~seen(i), NEW i \in DOMAIN p, NEW j \in DOMAIN p, p[i].id = p[j].id
          PROVE  i = j
      <3>1. i < j => i \in 1..(j - 1) BY <2>1
      <3>2. j < i => j \in 1..(i - 1) BY <2>1
      <3>3. ~(i < j) BY <2>3, <3>1
      <3>4. ~(j < i) BY <2>3, <3>2
      <3> QED BY <2>1, <3>3, <3>4
    <2> HIDE DEF seen
    <2> QED BY <2>2, <2>3 DEF UniqueIds
  <1>2. bad = {} <=> Named /\ UniqueIds(p)
    <2> HIDE DEF seen
    <2> QED BY <1>1
  <1>3. WellFormed(p) <=> UniqueIds(p) /\ Known BY DEF WellFormed
  <1>4. Sound(p) <=> Named /\ UniqueIds(p) /\ Known /\ Acyclic(p) BY DEF Sound, UniqueIds, Acyclic
  <1>5. ValidatePipeline(p) = "ok" <=> bad = {} /\ Known /\ Len(TopologicalOrder(p)) = Len(p)
    BY DEF ValidatePipeline
  <1>6. WellFormed(p) => (Len(TopologicalOrder(p)) = Len(p) <=> Acyclic(p)) BY OrderDecides
  <1>7. WellFormed(p) => (Len(TopologicalOrder(p)) = Len(p) => IsPlan(p, TopologicalOrder(p))) BY OrderDecides
  <1> HIDE DEF bad, Known, Named
  <1> QED BY <1>2, <1>3, <1>4, <1>5, <1>6, <1>7

-----------------------------------------------------------------------------
(* RunPipeline: m steps of the order o have been run, the rest is to come.  *)

AllKinds == {"token", "done", "error"}
ResultRow == [id : Nat, status : {"ok", "error"}, summary : Seq({"token"})]

Rest(o, m) ==
  /\ order \in Seq(StepRow) /\ Len(order) = Len(o) - m
  /\ \A k \in 1..Len(order) : order[k] = o[m + k]

\* Each step that has been run is told with the summary that others are fed.
Reported(o, m) ==
  /\ text \in Seq({"token"})
  /\ results \in Seq(ResultRow) /\ Len(results) = m
  /\ \A j \in 1..m : /\ results[j].id = o[j].id /\ results[j].status = "ok"
                     /\ o[j].id \in DOMAIN summaries /\ summaries[o[j].id] = results[j].summary

\* A step whose run has not ended is taken for done only when the client has
\* gone, and then no other step is begun.
Ran(o, m) ==
  pc \in {"publish", "wait"} \/ ~cancelled => \A j \in 1..m : o[j].id \in finished

\* The step that is being run.
Current(o, m) ==
  /\ events \in Seq(AllKinds)
  /\ pc \in {"publish", "wait"} =>
       /\ m < Len(o)
       /\ \A k \in DOMAIN o[m + 1].deps : prompt[k] = summaries[o[m + 1].deps[k]]
       /\ \A k \in DOMAIN events : events[k] = "done" => o[m + 1].id \in finished

Underway(o, m) == Rest(o, m) /\ Reported(o, m) /\ Ran(o, m) /\ Current(o, m)

Planned == TopologicalOrder(Parsed(doc))

Inv ==
  /\ doc \in Documents
  /\ pc = "request" => results = << >> /\ summaries = << >> /\ text = << >> /\ events = << >>
  /\ pc = "refused" => doc = << >> \/ ~Sound(Parsed(doc))
  /\ pc \in {"next", "publish", "wait"} =>
       /\ Sound(Parsed(doc)) /\ IsPlan(Parsed(doc), Planned)
       /\ \E m \in 0..Len(Planned) : Underway(Planned, m)

LEMMA InitInv == Init => Inv
  <1> SUFFICES ASSUME Init PROVE Inv OBVIOUS
  <1> QED BY DEF Init, Inv

\* RunPipeline refuses or plans.
LEMMA Begins == Inv /\ RunPipeline => Inv'
  <1> SUFFICES ASSUME Inv, RunPipeline PROVE Inv' OBVIOUS
  <1>1. PICK p : p = Parsed(doc) OBVIOUS
  <1>2. PICK o : o = TopologicalOrder(p) OBVIOUS
  <1>3. /\ doc' = doc /\ doc \in Documents /\ pc = "request"
        /\ results' = << >> /\ summaries' = << >> /\ text' = << >> /\ events' = << >>
    BY DEF Inv, RunPipeline, worker
  <1>4. p \in Seq(StepRow) BY <1>1, <1>3, ParsedTypes
  <1>5. /\ ValidatePipeline(p) = "ok" <=> Sound(p)
        /\ Sound(p) => IsPlan(p, o)
    BY <1>2, <1>4, Validates
  <1>6. Parsed(doc)' = p /\ Planned' = o BY <1>1, <1>2, <1>3 DEF Planned
  <1>7. CASE doc = << >> \/ ValidatePipeline(p) # "ok"
    <2>1. pc' = "refused" BY <1>1, <1>7 DEF RunPipeline
    <2>2. doc = << >> \/ ~Sound(p) BY <1>5, <1>7
    <2> QED BY <1>3, <1>6, <2>1, <2>2 DEF Inv
  <1>8. CASE ~(doc = << >> \/ ValidatePipeline(p) # "ok")
    <2>1. pc' = "next" /\ order' = o BY <1>1, <1>2, <1>8 DEF RunPipeline
    <2>2. Sound(p) /\ IsPlan(p, o) BY <1>5, <1>8
    <2>3. o \in Seq(StepRow) BY <2>2 DEF IsPlan
    <2>4. 0 \in 0..Len(o) BY <2>3
    <2>5. Rest(o, 0)' BY <2>1, <2>3 DEF Rest
    <2>6. Reported(o, 0)' BY <1>3 DEF Reported
    <2>7. Ran(o, 0)' BY DEF Ran
    <2>8. Current(o, 0)' BY <1>3, <2>1 DEF Current
    <2>9. Underway(o, 0)' BY <2>5, <2>6, <2>7, <2>8 DEF Underway
    <2> QED BY <1>3, <1>6, <2>1, <2>2, <2>4, <2>9 DEF Inv
  <1> QED BY <1>7, <1>8

\* What a step of the rest of the request starts from, and what it must keep.
LEMMA InvStep ==
  ASSUME Inv, pc \in {"next", "publish", "wait"}
  PROVE  \E p, o, m : /\ p = Parsed(doc) /\ o = Planned /\ Sound(p) /\ IsPlan(p, o)
                      /\ m \in 0..Len(o) /\ Underway(o, m)
  BY DEF Inv

LEMMA InvKept ==
  ASSUME Inv, NEW p, NEW o, NEW m, p = Parsed(doc), o = Planned, Sound(p), IsPlan(p, o), m \in 0..Len(o),
         doc' = doc, pc' \in {"next", "publish", "wait"}, Underway(o, m)'
  PROVE  Inv'
  <1>1. Parsed(doc)' = p /\ Planned' = o BY DEF Planned
  <1> QED BY <1>1 DEF Inv

\* The request is over.
LEMMA InvOver == ASSUME Inv, doc' = doc, pc' = "answered" PROVE Inv'
  BY DEF Inv

\* The ids of the first m steps.
Put(o, m) == {o[j].id : j \in 1..m}

LEMMA PlanStep ==
  ASSUME NEW p, NEW o, IsPlan(p, o), NEW m \in 0..Len(o), Rest(o, m), order # << >>
  PROVE  /\ m < Len(o) /\ m + 1 \in DOMAIN o /\ o[m + 1] \in StepRow /\ Head(order) = o[m + 1]
         /\ o[m + 1].id \in Nat /\ o[m + 1].deps \in Seq(Nat)
         /\ o[m + 1].id \notin Put(o, m)
         /\ ToSet(o[m + 1].deps) \subseteq Put(o, m)
  <1>1. o \in Seq(StepRow) /\ Len(o) \in Nat BY DEF IsPlan
  <1>2. order \in Seq(StepRow) /\ Len(order) > 0 BY DEF Rest
  <1>3. m < Len(o) /\ m + 1 \in 1..Len(o) BY <1>1, <1>2 DEF Rest
  <1>4. Head(order) = o[m + 1] BY <1>2 DEF Rest
  <1>5. Before(o, m + 1) = Put(o, m)
    <2>1. (m + 1) - 1 = m OBVIOUS
    <2> QED BY <2>1 DEF Before, Put
  <1>6. m + 1 \in DOMAIN o /\ o[m + 1] \in StepRow BY <1>1, <1>3
  <1> QED BY <1>3, <1>4, <1>5, <1>6 DEF IsPlan, StepRow

LEMMA StepIsThere ==
  ASSUME NEW p, NEW o, IsPlan(p, o), NEW m \in 0..Len(o), Rest(o, m), Current(o, m), pc \in {"publish", "wait"}
  PROVE  order # << >> /\ Head(order) = o[m + 1]
  <1>1. Len(o) \in Nat /\ m < Len(o) BY DEF IsPlan, Current
  <1>2. Len(order) > 0 BY <1>1 DEF Rest
  <1>3. order # << >> BY <1>2
  <1> QED BY <1>3, PlanStep

LEMMA Subscribes == Inv /\ Subscribe => Inv'
  <1> SUFFICES ASSUME Inv, Subscribe PROVE Inv' OBVIOUS
  <1>1. /\ pc = "next" /\ order # << >> /\ ~cancelled
        /\ prompt' = [k \in DOMAIN Head(order).deps |->
                        IF Head(order).deps[k] \in DOMAIN summaries
                        THEN summaries[Head(order).deps[k]] ELSE << >>]
        /\ events' = << >> /\ pc' = "publish"
        /\ UNCHANGED <<doc, order, results, summaries, text, cancelled, finished>>
    BY DEF Subscribe
  <1>2. PICK p, o, m : /\ p = Parsed(doc) /\ o = Planned /\ Sound(p) /\ IsPlan(p, o)
                       /\ m \in 0..Len(o) /\ Underway(o, m)
    BY <1>1, InvStep
  <1>3. Rest(o, m) /\ Reported(o, m) /\ Ran(o, m) BY <1>2 DEF Underway
  <1>4. /\ m < Len(o) /\ Head(order) = o[m + 1] /\ o[m + 1].deps \in Seq(Nat)
        /\ ToSet(o[m + 1].deps) \subseteq Put(o, m)
    BY <1>1, <1>2, <1>3, PlanStep
  <1>5. \A k \in DOMAIN o[m + 1].deps : o[m + 1].deps[k] \in DOMAIN summaries
    <2> SUFFICES ASSUME NEW k \in DOMAIN o[m + 1].deps PROVE o[m + 1].deps[k] \in DOMAIN summaries OBVIOUS
    <2>1. o[m + 1].deps[k] \in Put(o, m) BY <1>4 DEF ToSet
    <2>2. PICK j \in 1..m : o[m + 1].deps[k] = o[j].id BY <2>1 DEF Put
    <2> QED BY <1>3, <2>2 DEF Reported
  <1>6. \A k \in DOMAIN o[m + 1].deps : prompt'[k] = summaries[o[m + 1].deps[k]] BY <1>1, <1>4, <1>5
  <1>7. Rest(o, m)' /\ Reported(o, m)' BY <1>1, <1>3 DEF Rest, Reported
  <1>8. Ran(o, m)' BY <1>1, <1>3 DEF Ran
  <1>9. Current(o, m)'
    <2>1. << >> \in Seq(AllKinds) /\ DOMAIN << >> = {} OBVIOUS
    <2> QED BY <1>1, <1>4, <1>6, <2>1 DEF Current
  <1>10. Underway(o, m)' BY <1>7, <1>8, <1>9 DEF Underway
  <1> QED BY <1>1, <1>2, <1>10, InvKept

\* A step is reported as done: its run has ended, or the client has gone.
LEMMA StepsOk ==
  ASSUME Inv, pc = "wait", StepOk, cancelled \/ Head(order).id \in finished
  PROVE  Inv'
  <1>1. /\ results' = Append(results, Result("ok"))
        /\ summaries' = [id \in DOMAIN summaries \cup {Head(order).id} |->
                           IF id = Head(order).id THEN text ELSE summaries[id]]
        /\ order' = Tail(order) /\ text' = << >> /\ pc' = "next"
        /\ UNCHANGED <<doc, cancelled, events, finished>>
    BY DEF StepOk, worker
  <1>2. PICK p, o, m : /\ p = Parsed(doc) /\ o = Planned /\ Sound(p) /\ IsPlan(p, o)
                       /\ m \in 0..Len(o) /\ Underway(o, m)
    BY InvStep
  <1>3. Rest(o, m) /\ Reported(o, m) /\ Ran(o, m) /\ Current(o, m) BY <1>2 DEF Underway
  <1>4. /\ m < Len(o) /\ Head(order) = o[m + 1] /\ o[m + 1].id \in Nat
        /\ o[m + 1].id \notin Put(o, m)
    <2>1. order # << >> BY <1>2, <1>3, StepIsThere
    <2> QED BY <1>2, <1>3, <2>1, PlanStep
  <1>5. m + 1 \in 0..Len(o) /\ m \in Nat /\ \A j \in 1..(m + 1) : j \in 1..m \/ j = m + 1
    <2>1. Len(o) \in Nat BY <1>2 DEF IsPlan
    <2> QED BY <1>2, <1>4, <2>1
  <1>6. Rest(o, m + 1)'
    <2>1. order \in Seq(StepRow) /\ Len(order) = Len(o) - m /\ \A k \in 1..Len(order) : order[k] = o[m + k]
      BY <1>3 DEF Rest
    <2>2. /\ order' \in Seq(StepRow) /\ Len(order') = Len(order) - 1
          /\ \A k \in 1..Len(order') : order'[k] = order[k + 1]
      <3>1. Len(order) > 0
        <4>1. Len(o) \in Nat BY <1>2 DEF IsPlan
        <4> QED BY <1>4, <1>5, <2>1, <4>1
      <3> QED BY <1>1, <2>1, <3>1
    <2>3. Len(order') = Len(o) - (m + 1)
      <3>1. Len(o) \in Nat BY <1>2 DEF IsPlan
      <3> QED BY <1>5, <2>1, <2>2, <3>1
    <2>4. ASSUME NEW k \in 1..Len(order') PROVE order'[k] = o[(m + 1) + k]
      <3>1. k + 1 \in 1..Len(order) /\ m + (k + 1) = (m + 1) + k BY <1>5, <2>1, <2>2
      <3>2. order'[k] = order[k + 1] BY <2>2
      <3>3. order[k + 1] = o[m + (k + 1)] BY <2>1, <3>1
      <3> QED BY <3>1, <3>2, <3>3
    <2> QED BY <2>2, <2>3, <2>4 DEF Rest
  <1>7. Reported(o, m + 1)'
    <2>1. /\ text \in Seq({"token"}) /\ results \in Seq(ResultRow) /\ Len(results) = m
          /\ \A j \in 1..m : /\ results[j].id = o[j].id /\ results[j].status = "ok"
                             /\ o[j].id \in DOMAIN summaries /\ summaries[o[j].id] = results[j].summary
      BY <1>3 DEF Reported
    <2>2. PICK row : row = [id |-> o[m + 1].id, status |-> "ok", summary |-> text] OBVIOUS
    <2>3. row \in ResultRow BY <1>4, <2>1, <2>2 DEF ResultRow
    <2>4. results' = Append(results, row) BY <1>1, <1>4, <2>2 DEF Result
    <2>5. /\ results' \in Seq(ResultRow) /\ Len(results') = m + 1 /\ results'[m + 1] = row
          /\ \A j \in 1..m : results'[j] = results[j]
      BY <1>5, <2>1, <2>3, <2>4
    <2>6. /\ o[m + 1].id \in DOMAIN summaries' /\ summaries'[o[m + 1].id] = text
          /\ \A j \in 1..m : o[j].id \in DOMAIN summaries' /\ summaries'[o[j].id] = summaries[o[j].id]
      BY <1>1, <1>4, <2>1 DEF Put
    <2>7. << >> \in Seq({"token"}) OBVIOUS
    <2>8. ASSUME NEW j \in 1..(m + 1)
          PROVE  /\ results'[j].id = o[j].id /\ results'[j].status = "ok"
                 /\ o[j].id \in DOMAIN summaries' /\ summaries'[o[j].id] = results'[j].summary
      <3>1. CASE j \in 1..m BY <2>1, <2>5, <2>6, <3>1
      <3>2. CASE j = m + 1
        <4>1. row.id = o[m + 1].id /\ row.status = "ok" /\ row.summary = text BY <2>2
        <4> QED BY <2>5, <2>6, <3>2, <4>1
      <3> QED BY <1>5, <3>1, <3>2
    <2> QED BY <1>1, <2>5, <2>7, <2>8 DEF Reported
  <1>8. Ran(o, m + 1)'
    <2>1. \A j \in 1..m : o[j].id \in finished BY <1>3 DEF Ran
    <2> QED BY <1>1, <1>4, <1>5, <2>1 DEF Ran
  <1>9. Current(o, m + 1)' BY <1>1, <1>3 DEF Current
  <1>10. Underway(o, m + 1)' BY <1>6, <1>7, <1>8, <1>9 DEF Underway
  <1> QED BY <1>1, <1>2, <1>5, <1>10, InvKept

\* What changes neither the results nor the order.
LEMMA Quiet ==
  ASSUME Inv, pc \in {"next", "publish", "wait"}, pc' \in {"next", "publish", "wait"},
         pc' = pc \/ (pc = "publish" /\ pc' = "wait"),
         UNCHANGED <<doc, order, results, summaries, prompt>>,
         finished \subseteq finished', cancelled => cancelled',
         text \in Seq({"token"}) => text' \in Seq({"token"}),
         events \in Seq(AllKinds) => events' \in Seq(AllKinds),
         pc' \in {"publish", "wait"} => \A k \in DOMAIN events' : events'[k] = "done" =>
           (\E l \in DOMAIN events : events[l] = "done") \/ Head(order).id \in finished'
  PROVE  Inv'
  <1>1. PICK p, o, m : /\ p = Parsed(doc) /\ o = Planned /\ Sound(p) /\ IsPlan(p, o)
                       /\ m \in 0..Len(o) /\ Underway(o, m)
    BY InvStep
  <1>2. Rest(o, m) /\ Reported(o, m) /\ Ran(o, m) /\ Current(o, m) BY <1>1 DEF Underway
  <1>3. Rest(o, m)' /\ Reported(o, m)' BY <1>2 DEF Rest, Reported
  <1>4. Ran(o, m)' BY <1>2 DEF Ran
  <1>5. Current(o, m)'
    <2>1. events' \in Seq(AllKinds) BY <1>2 DEF Current
    <2>2. ASSUME pc' \in {"publish", "wait"}
          PROVE  /\ m < Len(o)
                 /\ \A k \in DOMAIN o[m + 1].deps : prompt'[k] = summaries'[o[m + 1].deps[k]]
                 /\ \A k \in DOMAIN events' : events'[k] = "done" => o[m + 1].id \in finished'
      <3>1. pc \in {"publish", "wait"} BY <2>2
      <3>2. Head(order) = o[m + 1] BY <1>1, <1>2, <3>1, StepIsThere
      <3>3. \A k \in DOMAIN events : events[k] = "done" => o[m + 1].id \in finished BY <1>2, <3>1 DEF Current
      <3>4. \A k \in DOMAIN events' : events'[k] = "done" => o[m + 1].id \in finished' BY <2>2, <3>2, <3>3
      <3> QED BY <1>2, <3>1, <3>4 DEF Current
    <2> QED BY <2>1, <2>2 DEF Current
  <1>6. Underway(o, m)' BY <1>3, <1>4, <1>5 DEF Underway
  <1> QED BY <1>1, <1>6, InvKept

LEMMA EventTypes == Inv /\ pc = "wait" => events \in Seq(AllKinds) /\ text \in Seq({"token"})
  <1> SUFFICES ASSUME Inv, pc = "wait" PROVE events \in Seq(AllKinds) /\ text \in Seq({"token"}) OBVIOUS
  <1>1. PICK p, o, m : Underway(o, m) BY InvStep
  <1> QED BY <1>1 DEF Underway, Reported, Current

LEMMA Receives == Inv /\ Receive => Inv'
  <1> SUFFICES ASSUME Inv, Receive PROVE Inv' OBVIOUS
  <1>1. /\ pc = "wait" /\ events # << >> /\ Head(events) = "token"
        /\ text' = Append(text, "token") /\ events' = Tail(events)
        /\ UNCHANGED <<doc, order, results, summaries, prompt, cancelled, pc, run, finished>>
    BY DEF Receive, request
  <1>2. events \in Seq(AllKinds) /\ text \in Seq({"token"}) BY <1>1, EventTypes
  <1>3. text' \in Seq({"token"}) BY <1>1, <1>2
  <1>4. events' \in Seq(AllKinds) BY <1>1, <1>2
  <1>5. \A k \in DOMAIN events' : k + 1 \in DOMAIN events /\ events'[k] = events[k + 1] BY <1>1, <1>2
  <1> QED BY <1>1, <1>3, <1>4, <1>5, Quiet

LEMMA ReceivesDone == Inv /\ ReceiveDone => Inv'
  <1> SUFFICES ASSUME Inv, ReceiveDone PROVE Inv' OBVIOUS
  <1>1. pc = "wait" /\ events # << >> /\ Head(events) = "done" /\ StepOk BY DEF ReceiveDone
  <1>2. PICK p, o, m : /\ p = Parsed(doc) /\ o = Planned /\ Sound(p) /\ IsPlan(p, o)
                       /\ m \in 0..Len(o) /\ Underway(o, m)
    BY <1>1, InvStep
  <1>3. Rest(o, m) /\ Current(o, m) BY <1>2 DEF Underway
  <1>4. Head(order) = o[m + 1] BY <1>1, <1>2, <1>3, StepIsThere
  <1>5. 1 \in DOMAIN events /\ events[1] = "done"
    <2>1. events \in Seq(AllKinds) BY <1>3 DEF Current
    <2> QED BY <1>1, <2>1
  <1>6. o[m + 1].id \in finished BY <1>1, <1>3, <1>5 DEF Current
  <1> QED BY <1>1, <1>4, <1>6, StepsOk

\* An event of the run that is sent or lost.
LEMMA Sends ==
  ASSUME Inv, pc = "wait", NEW kind \in AllKinds, NEW lost \in BOOLEAN,
         events' = (IF lost THEN events ELSE Append(events, kind)),
         UNCHANGED <<request, pc, text>>, finished \subseteq finished',
         kind = "done" => Head(order).id \in finished'
  PROVE  Inv'
  <1>1. events \in Seq(AllKinds) BY EventTypes
  <1>2. events' \in Seq(AllKinds) BY <1>1
  <1>3. \A k \in DOMAIN events' : events'[k] = "done" =>
          (\E l \in DOMAIN events : events[l] = "done") \/ Head(order).id \in finished'
    <2>1. CASE lost BY <2>1
    <2>2. CASE ~lost
      <3>1. events' = Append(events, kind) BY <2>2
      <3>2. ASSUME NEW k \in DOMAIN events', events'[k] = "done"
            PROVE  (\E l \in DOMAIN events : events[l] = "done") \/ kind = "done"
        <4>1. k \in DOMAIN events => events'[k] = events[k] BY <1>1, <3>1
        <4>2. k \notin DOMAIN events => events'[k] = kind BY <1>1, <3>1
        <4> QED BY <3>2, <4>1, <4>2
      <3> QED BY <3>2
    <2> QED BY <2>1, <2>2
  <1>4. UNCHANGED <<doc, order, results, summaries, prompt, cancelled, pc, text>> BY DEF request
  <1> QED BY <1>2, <1>3, <1>4, Quiet

LEMMA NextInv == Inv /\ [Next]_vars => Inv'
  <1> SUFFICES ASSUME Inv, [Next]_vars PROVE Inv' OBVIOUS
  <1>1. ASSUME pc \in {"next", "publish", "wait"}, pc' = pc \/ (pc = "publish" /\ pc' = "wait"),
               UNCHANGED <<doc, order, results, summaries, prompt, text, events, finished>>,
               cancelled => cancelled'
        PROVE  Inv'
    BY <1>1, Quiet
  <1>2. CASE RunPipeline BY <1>2, Begins
  <1>3. CASE Subscribe BY <1>3, Subscribes
  <1>4. CASE SubscribeFails \/ PublishFails \/ ReceiveError \/ HardTimeout
    <2>1. StepFails BY <1>4 DEF SubscribeFails, PublishFails, ReceiveError, HardTimeout
    <2>2. doc' = doc /\ pc' = "answered" BY <2>1 DEF StepFails
    <2> QED BY <2>2, InvOver
  <1>5. CASE Answer
    <2>1. doc' = doc /\ pc' = "answered" BY <1>5 DEF Answer, request
    <2> QED BY <2>1, InvOver
  <1>6. CASE PublishTask
    <2>1. /\ pc = "publish" /\ pc' = "wait"
          /\ UNCHANGED <<doc, order, results, summaries, prompt, cancelled, text, events, finished>>
      BY <1>6 DEF PublishTask, request
    <2> QED BY <1>1, <2>1
  <1>7. CASE Receive BY <1>7, Receives
  <1>8. CASE ReceiveDone BY <1>8, ReceivesDone
  <1>9. CASE ChannelClosed BY <1>9, StepsOk DEF ChannelClosed
  <1>10. CASE ClientGoes
    <2>1. /\ pc \in {"next", "publish", "wait"} /\ cancelled'
          /\ UNCHANGED <<doc, pc, order, results, summaries, prompt, text, events, finished>>
      BY <1>10 DEF ClientGoes, worker
    <2> QED BY <1>1, <2>1
  <1>11. CASE Token
    <2>1. PICK lost \in BOOLEAN : events' = IF lost THEN events ELSE Append(events, "token")
      BY <1>11 DEF Token
    <2>2. pc = "wait" /\ UNCHANGED <<request, pc, text>> /\ finished' = finished BY <1>11 DEF Token, Running
    <2>3. "token" \in AllKinds BY DEF AllKinds
    <2> QED BY <2>1, <2>2, <2>3, Sends
  <1>12. ASSUME NEW kind \in {"done", "error"}, RunEnds(kind) PROVE Inv'
    <2>1. PICK lost \in BOOLEAN : events' = IF lost THEN events ELSE Append(events, kind)
      BY <1>12 DEF RunEnds
    <2>2. /\ pc = "wait" /\ UNCHANGED <<request, pc, text>>
          /\ finished' = IF kind = "done" THEN finished \cup {Head(order).id} ELSE finished
      BY <1>12 DEF RunEnds, Running
    <2>3. kind \in AllKinds BY <1>12 DEF AllKinds
    <2>4. finished \subseteq finished' /\ (kind = "done" => Head(order).id \in finished') BY <2>2
    <2> QED BY <2>1, <2>2, <2>3, <2>4, Sends
  <1>13. CASE Retry \/ WorkerDies
    <2>1. /\ pc = "wait" /\ pc' = pc
          /\ UNCHANGED <<doc, order, results, summaries, prompt, cancelled, text, events, finished>>
      BY <1>13 DEF Retry, WorkerDies, Running, request
    <2> QED BY <1>1, <2>1
  <1>14. CASE UNCHANGED vars
    <2>1. PICK p : p = Parsed(doc) OBVIOUS
    <2>2. PICK o : o = Planned OBVIOUS
    <2>3. UNCHANGED <<doc, pc, order, results, summaries, prompt, text, run, events, cancelled, finished>>
      BY <1>14 DEF vars
    <2>4. Parsed(doc)' = p /\ Planned' = o BY <2>1, <2>2, <2>3 DEF Planned
    <2>5. CASE pc \in {"next", "publish", "wait"} BY <1>1, <2>3, <2>5
    <2>6. CASE pc \notin {"next", "publish", "wait"} BY <2>1, <2>3, <2>4, <2>6 DEF Inv
    <2> QED BY <2>5, <2>6
  <1>15. "done" \in {"done", "error"} /\ "error" \in {"done", "error"} OBVIOUS
  <1> QED BY <1>2, <1>3, <1>4, <1>5, <1>6, <1>7, <1>8, <1>9, <1>10, <1>11, <1>12, <1>13, <1>14, <1>15
      DEF Next

LEMMA Invariant == Spec => []Inv
  <1> QED BY InitInv, NextInv, PTL DEF Spec

-----------------------------------------------------------------------------
(* OrderIsRight and DependenciesFed, for all documents.                     *)

\* ValidatePipeline accepts a pipeline exactly when it is sound, and
\* TopologicalOrder puts out, each time, the smallest of the steps whose
\* dependencies are all out.
THEOREM PlansAreRight == Spec => []OrderIsRight
  <1>1. Inv => OrderIsRight
    <2> SUFFICES ASSUME Inv PROVE OrderIsRight OBVIOUS
    <2>1. PICK q : q = Parsed(doc) OBVIOUS
    <2>2. pc = "refused" => doc = << >> \/ ~Sound(q) BY <2>1 DEF Inv
    <2>3. ASSUME pc = "next", results = << >>
          PROVE  /\ Sound(q) /\ Len(order) = Len(q)
                 /\ \A k \in DOMAIN order : /\ Free(q, Before(order, k)) # {}
                                            /\ order[k].id = Min(Free(q, Before(order, k)))
      <3>1. PICK p, o, m : /\ p = Parsed(doc) /\ o = Planned /\ Sound(p) /\ IsPlan(p, o)
                           /\ m \in 0..Len(o) /\ Underway(o, m)
        BY <2>3, InvStep
      <3>2. Rest(o, m) /\ Reported(o, m) BY <3>1 DEF Underway
      <3>3. m = 0
        <4>1. Len(results) = 0 BY <2>3
        <4> QED BY <3>2, <4>1 DEF Reported
      <3>4. o \in Seq(StepRow) /\ Len(o) = Len(p) /\ Ordered(p, o) BY <3>1 DEF IsPlan
      <3>5. order = o BY <3>2, <3>3, <3>4 DEF Rest
      <3>6. ASSUME NEW k \in DOMAIN o
            PROVE  Free(p, Before(o, k)) # {} /\ o[k].id = Min(Free(p, Before(o, k)))
        <4>1. PICK F : F = Free(p, Before(o, k)) OBVIOUS
        <4>2. o[k].id \in F /\ \A x \in F : o[k].id <= x BY <3>4, <4>1 DEF Ordered
        <4>3. p \in Seq(StepRow)
          <5>1. doc \in Documents BY DEF Inv
          <5> QED BY <3>1, <5>1, ParsedTypes
        <4>4. F \subseteq Nat BY <4>1, <4>3, StepTypes DEF Free
        <4>5. Min(F) \in F /\ \A y \in F : Min(F) <= y BY <4>2, <4>4, MinIsLeast
        <4>6. o[k].id <= Min(F) /\ Min(F) <= o[k].id BY <4>2, <4>5
        <4> QED BY <4>1, <4>2, <4>4, <4>5, <4>6
      <3> QED BY <2>1, <3>1, <3>4, <3>5, <3>6
    <2> QED BY <2>1, <2>2, <2>3 DEF OrderIsRight
  <1> QED BY <1>1, Invariant, PTL

\* RunPipeline queues a step's task only when the runs of all its dependencies
\* came to their end, and with the summaries that it reports for them.
THEOREM StepsAreFed == Spec => []DependenciesFed
  <1>1. Inv => DependenciesFed
    <2> SUFFICES ASSUME Inv, pc = "wait"
                 PROVE  \A k \in DOMAIN Head(order).deps :
                          /\ Head(order).deps[k] \in finished
                          /\ \E r \in ToSet(results) :
                               r.id = Head(order).deps[k] /\ r.status = "ok" /\ r.summary = prompt[k]
      BY DEF DependenciesFed
    <2>1. PICK p, o, m : /\ p = Parsed(doc) /\ o = Planned /\ Sound(p) /\ IsPlan(p, o)
                         /\ m \in 0..Len(o) /\ Underway(o, m)
      BY InvStep
    <2>2. Rest(o, m) /\ Reported(o, m) /\ Ran(o, m) /\ Current(o, m) BY <2>1 DEF Underway
    <2>3. order # << >> /\ Head(order) = o[m + 1] BY <2>1, <2>2, StepIsThere
    <2>4. ToSet(o[m + 1].deps) \subseteq Put(o, m) BY <2>1, <2>2, <2>3, PlanStep
    <2> SUFFICES ASSUME NEW k \in DOMAIN o[m + 1].deps
                 PROVE  /\ o[m + 1].deps[k] \in finished
                        /\ \E r \in ToSet(results) :
                             r.id = o[m + 1].deps[k] /\ r.status = "ok" /\ r.summary = prompt[k]
      BY <2>3
    <2>5. PICK j \in 1..m : o[m + 1].deps[k] = o[j].id BY <2>4 DEF ToSet, Put
    <2>6. o[j].id \in finished BY <2>2 DEF Ran
    <2>7. /\ results[j].id = o[j].id /\ results[j].status = "ok" /\ results[j].summary = summaries[o[j].id]
          /\ j \in DOMAIN results
      BY <2>2 DEF Reported
    <2>8. prompt[k] = summaries[o[m + 1].deps[k]] BY <2>2 DEF Current
    <2>9. results[j] \in ToSet(results) BY <2>7 DEF ToSet
    <2> QED BY <2>5, <2>6, <2>7, <2>8, <2>9
  <1> QED BY <1>1, Invariant, PTL

===============================================================================

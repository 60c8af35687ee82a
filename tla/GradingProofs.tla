---------------------------- MODULE GradingProofs ----------------------------
(* The two ways in which a verdict is reached.                               *)
(*                                                                          *)
(* Of a group: the loop of defaultGrader computes what the group's modes    *)
(* mean (AVG left out) for every list of results, however long, and         *)
(* whatever their scores.                                                   *)
(*                                                                          *)
(* Of an interactive run: the safety properties of Interactive, for FIFOs   *)
(* of any size.  Who has a FIFO open is a function of how far the two runs  *)
(* are: that is the invariant from which the properties follow.             *)
EXTENDS DefaultGrader, Interactive, FiniteSetTheorems, SequenceTheorems, WellFoundedInduction, TLAPS

-----------------------------------------------------------------------------
(* The grading of a group (DefaultGrader).                                   *)

(* The state of the loop is well typed. *)
LoopType ==
    /\ tg \in Group
    /\ results \in Seq(Result)
    /\ acc \in [verdict : Verdicts, score : Int, anyAccepted : BOOLEAN]

(* After any number of turns: whether a result was accepted... *)
AnyKnown == acc.anyAccepted <=> Accepts # {}

(* ...the verdict that the loop holds is the one of the errors so far... *)
VerdictKnown ==
    /\ Errors = {} \/ tg.verdicts \notin {"WORST_ERROR", "FIRST_ERROR"} => acc.verdict = "AC"
    /\ tg.verdicts = "WORST_ERROR" /\ Errors # {} =>
        \E i \in Errors :
            /\ results[i].verdict = acc.verdict
            /\ \A j \in Errors : worseness[results[j].verdict] <= worseness[acc.verdict]
    /\ tg.verdicts = "FIRST_ERROR" /\ Errors # {} =>
        \E i \in Errors :
            /\ results[i].verdict = acc.verdict
            /\ \A j \in Errors : i <= j

(* ...and the score is the extreme one so far. *)
ScoreKnown ==
    /\ tg.scoring \in {"MIN", "MAX"} /\ results = <<>> => acc.score = InitialScore(tg.scoring)
    /\ tg.scoring = "MIN" /\ results # <<>> => acc.score \in Occurring /\ \A s \in Occurring : acc.score <= s
    /\ tg.scoring = "MAX" /\ results # <<>> => acc.score \in Occurring /\ \A s \in Occurring : s <= acc.score

LoopInv == LoopType /\ AnyKnown /\ VerdictKnown /\ ScoreKnown

(* Before the first turn. *)
LEMMA LoopStart == LoopInit => LoopInv
<1> SUFFICES ASSUME LoopInit PROVE LoopInv
  OBVIOUS
<1> USE GradingAssumption DEF LoopInit, GradeInit, InitialScore
<1>1. results = <<>> /\ Len(results) = 0 /\ Errors = {} /\ Accepts = {}
  BY DEF Errors, Accepts
<1>2. LoopType
  BY <1>1 DEF LoopType, Group, ScoringModes, VerdictModes, Verdicts
<1>3. AnyKnown /\ VerdictKnown /\ ScoreKnown
  BY <1>1 DEF AnyKnown, VerdictKnown, ScoreKnown
<1> QED BY <1>2, <1>3 DEF LoopInv

(* A turn looks at one more result. *)
LEMMA OneMore ==
    ASSUME LoopInv, NEW res \in Result, Consume(res)
    PROVE  /\ results' \in Seq(Result) /\ Len(results') = Len(results) + 1
           /\ results'[Len(results) + 1] = res
           /\ \A i \in 1 .. Len(results) : results'[i] = results[i]
           /\ Errors \subseteq 1 .. Len(results)
           /\ Errors' = IF res.verdict = "AC" THEN Errors ELSE Errors \cup {Len(results) + 1}
           /\ Accepts' = IF res.verdict = "AC" THEN Accepts \cup {Len(results) + 1} ELSE Accepts
           /\ Occurring' = Occurring \cup {res.score}
           /\ results' # <<>>
<1>1. results \in Seq(Result) /\ results' = Append(results, res)
  BY DEF LoopInv, LoopType, Consume
<1>2. /\ results' \in Seq(Result) /\ Len(results') = Len(results) + 1 /\ Len(results) \in Nat
      /\ results'[Len(results) + 1] = res
      /\ \A i \in 1 .. Len(results) : results'[i] = results[i]
  BY <1>1
<1>3. Errors' = IF res.verdict = "AC" THEN Errors ELSE Errors \cup {Len(results) + 1}
  BY <1>2 DEF Errors
<1>4. Accepts' = IF res.verdict = "AC" THEN Accepts \cup {Len(results) + 1} ELSE Accepts
  BY <1>2, <1>3 DEF Accepts, Errors
<1>5. Occurring' = Occurring \cup {res.score}
  BY <1>2 DEF Occurring
<1>6. results' # <<>>
  BY <1>2
<1> QED BY <1>2, <1>3, <1>4, <1>5, <1>6 DEF Errors
(* The types of what a turn works on. *)
LEMMA Operands ==
    ASSUME LoopInv, NEW res \in Result
    PROVE  /\ acc.verdict \in Verdicts /\ acc.score \in Int
           /\ res.verdict \in Verdicts /\ res.score \in (1 - MaxScore) .. (MaxScore - 1) /\ res.score \in Int
           /\ \A i \in 1 .. Len(results) : results[i].verdict \in Verdicts /\ results[i].score \in Int
<1>1. /\ \A r \in Result : r.verdict \in Verdicts /\ r.score \in Int
      /\ res.score \in (1 - MaxScore) .. (MaxScore - 1)
  <2>1. \A r \in Result : r.verdict \in Verdicts /\ r.score \in Scores
    BY DEF Result
  <2>2. MaxScore \in Int
    BY GradingAssumption
  <2>3. \A s \in Scores : s \in (1 - MaxScore) .. (MaxScore - 1) /\ s \in Int
    BY <2>2, DefaultGraderAssumption
  <2> QED BY <2>1, <2>3
<1>2. \A i \in 1 .. Len(results) : results[i] \in Result
  BY DEF LoopInv, LoopType
<1>3. acc.verdict \in Verdicts /\ acc.score \in Int
  BY DEF LoopInv, LoopType
<1> QED BY <1>1, <1>2, <1>3

(* The types are kept. *)
LEMMA TurnType == ASSUME LoopInv, NEW res \in Result, Consume(res) PROVE LoopType'
<1>1. tg' = tg /\ tg \in Group /\ results' \in Seq(Result) /\ acc' = GradeStep(tg, acc, res)
  BY OneMore DEF LoopInv, LoopType, Consume
<1>2. /\ acc.verdict \in Verdicts /\ acc.score \in Int
      /\ res.verdict \in Verdicts /\ res.score \in Int
  BY Operands
<1>3. GradeVerdict(tg, acc.verdict, res.verdict) \in Verdicts
  BY <1>2 DEF GradeVerdict
<1>4. GradeScore(tg, acc.score, res.score) \in Int
  BY <1>2 DEF GradeScore, Smaller, Larger
<1>5. (acc.anyAccepted \/ res.verdict = "AC") \in BOOLEAN
  BY Zenon
<1> QED BY <1>1, <1>3, <1>4, <1>5 DEF LoopType, GradeStep

(* A turn notes an accepted result. *)
LEMMA TurnAny == ASSUME LoopInv, NEW res \in Result, Consume(res) PROVE AnyKnown'
<1>1. acc'.anyAccepted <=> acc.anyAccepted \/ res.verdict = "AC"
  BY DEF Consume, GradeStep
<1>2. Accepts' # {} <=> Accepts # {} \/ res.verdict = "AC"
  BY OneMore
<1> QED BY <1>1, <1>2 DEF LoopInv, AnyKnown

(* A turn keeps the verdict up to date. *)
LEMMA TurnVerdict == ASSUME LoopInv, NEW res \in Result, Consume(res) PROVE VerdictKnown'
<1> DEFINE n == Len(results) + 1
<1>1. /\ tg' = tg /\ acc'.verdict = GradeVerdict(tg, acc.verdict, res.verdict)
      /\ Len(results) \in Nat /\ VerdictKnown
      /\ acc.verdict \in Verdicts /\ res.verdict \in Verdicts
  BY Operands DEF LoopInv, LoopType, Consume, GradeStep
<1>2. /\ \A v \in Verdicts : worseness[v] \in 0 .. 3
      /\ \A v \in Verdicts \ {"AC"} : worseness[v] > worseness["AC"]
  BY DEF worseness, Verdicts
<1>3. \A i \in Errors : results[i].verdict \in Verdicts \ {"AC"} /\ results'[i] = results[i] /\ i \in 1 .. Len(results)
  BY OneMore, Operands DEF Errors
<1>4. CASE res.verdict = "AC"
  <2>1. Errors' = Errors /\ acc'.verdict = acc.verdict
    BY <1>1, <1>4, OneMore DEF GradeVerdict
  <2> QED BY <1>1, <1>3, <2>1 DEF VerdictKnown
<1>5. CASE res.verdict # "AC"
  <2>1. Errors' = Errors \cup {n} /\ results'[n] = res
    BY <1>5, OneMore
  <2>2. CASE tg.verdicts = "WORST_ERROR"
    <3>1. CASE Errors = {}
      BY <1>1, <1>2, <1>5, <2>1, <2>2, <3>1 DEF VerdictKnown, GradeVerdict
    <3>2. CASE Errors # {} /\ worseness[res.verdict] <= worseness[acc.verdict]
      BY <1>1, <1>2, <1>3, <1>5, <2>1, <2>2, <3>2 DEF VerdictKnown, GradeVerdict
    <3>3. CASE Errors # {} /\ ~(worseness[res.verdict] <= worseness[acc.verdict])
      <4>1. acc'.verdict = res.verdict
        BY <1>1, <1>5, <2>2, <3>3 DEF GradeVerdict
      <4>2. \A j \in Errors : worseness[results[j].verdict] <= worseness[acc.verdict]
        BY <1>1, <2>2, <3>3 DEF VerdictKnown
      <4>3. \A j \in Errors : worseness[results'[j].verdict] <= worseness[res.verdict]
        BY <1>1, <1>2, <1>3, <3>3, <4>2
      <4> QED BY <1>1, <1>2, <2>1, <2>2, <4>1, <4>3 DEF VerdictKnown
    <3> QED BY <3>1, <3>2, <3>3
  <2>3. CASE tg.verdicts = "FIRST_ERROR"
    <3>1. CASE Errors = {}
      BY <1>1, <1>5, <2>1, <2>3, <3>1 DEF VerdictKnown, GradeVerdict
    <3>2. CASE Errors # {}
      BY <1>1, <1>3, <1>5, <2>1, <2>3, <3>2 DEF VerdictKnown, GradeVerdict
    <3> QED BY <3>1, <3>2
  <2>4. CASE tg.verdicts \notin {"WORST_ERROR", "FIRST_ERROR"}
    BY <1>1, <2>4 DEF VerdictKnown, GradeVerdict
  <2> QED BY <2>2, <2>3, <2>4
<1> QED BY <1>4, <1>5

(* A turn keeps the extreme score. *)
LEMMA TurnScore == ASSUME LoopInv, NEW res \in Result, Consume(res) PROVE ScoreKnown'
<1>1. /\ tg' = tg /\ acc'.score = GradeScore(tg, acc.score, res.score)
      /\ ScoreKnown /\ acc.score \in Int /\ res.score \in (1 - MaxScore) .. (MaxScore - 1)
      /\ Occurring \subseteq Int
  BY Operands DEF LoopInv, Consume, GradeStep, Occurring
<1>2. results' # <<>> /\ Occurring' = Occurring \cup {res.score}
  BY OneMore
<1>3. results = <<>> => Occurring = {}
  BY DEF Occurring
<1>4. CASE tg.scoring = "MIN"
  BY <1>1, <1>2, <1>3, <1>4, GradingAssumption DEF ScoreKnown, GradeScore, Smaller, InitialScore
<1>5. CASE tg.scoring = "MAX"
  BY <1>1, <1>2, <1>3, <1>5, GradingAssumption DEF ScoreKnown, GradeScore, Larger, InitialScore
<1>6. CASE tg.scoring \notin {"MIN", "MAX"}
  BY <1>1, <1>6 DEF ScoreKnown
<1> QED BY <1>4, <1>5, <1>6

(* The loop invariant holds after any number of turns. *)
LEMMA LoopInvariance == LoopSpec => []LoopInv
<1>1. LoopInv /\ [LoopNext]_loopVars => LoopInv'
  <2>1. CASE LoopNext
    BY <2>1, TurnType, TurnAny, TurnVerdict, TurnScore DEF LoopNext, LoopInv
  <2>2. CASE UNCHANGED loopVars
    BY <2>2 DEF loopVars, LoopInv, LoopType, AnyKnown, VerdictKnown, ScoreKnown, Errors, Accepts, Occurring
  <2> QED BY <2>1, <2>2
<1> QED BY LoopStart, <1>1, PTL DEF LoopSpec

(* The verdict of a group is what its modes say of its results, for every list of them. *)
THEOREM VerdictIsMeant == LoopSpec => []VerdictMeaning
<1>1. LoopInv => VerdictMeaning
  <2> SUFFICES ASSUME LoopInv PROVE VerdictMeaning
    OBVIOUS
  <2>1. Graded.verdict = IF tg.verdicts = "ALWAYS_ACCEPT" \/ (Accepts # {} /\ tg.anyAccepts) THEN "AC" ELSE acc.verdict
    BY DEF LoopInv, AnyKnown, Graded, GradeEnd
  <2>2. VerdictKnown
    BY DEF LoopInv
  <2> QED BY <2>1, <2>2 DEF VerdictKnown, VerdictMeaning
<1> QED BY <1>1, LoopInvariance, PTL

-----------------------------------------------------------------------------
(* The least number of a set of numbers: induction on the scores. *)
LEMMA LeastNumber ==
    ASSUME NEW T, T \subseteq Nat, T # {}
    PROVE  \E m \in T : \A k \in T : m <= k
<1> DEFINE R == {ss \in Nat \X Nat : ss[1] < ss[2]}
<1>1. IsWellFoundedOn(R, Nat)
  BY NatLessThanWellFounded DEF OpToRel
<1>2. \A i, j \in Nat : i < j => <<i, j>> \in R
  OBVIOUS
<1> HIDE DEF R
<1>3. PICK m \in T : \A k \in T : ~ (<<k, m>> \in R)
  BY <1>1, WFMin
<1>4. ASSUME NEW k \in T PROVE m <= k
  <2>1. ~ (k < m)
    BY <1>2, <1>3
  <2>2. k \in Nat /\ m \in Nat
    OBVIOUS
  <2> QED BY <2>1, <2>2
<1> QED BY <1>4

LEMMA FromZeroOn ==
    ASSUME NEW n \in Nat, NEW Good, 0 \in Good,
           \A k \in 1 .. n : k - 1 \in Good => k \in Good
    PROVE  \A k \in 0 .. n : k \in Good
<1> DEFINE Bad == {k \in 0 .. n : k \notin Good}
<1>1. SUFFICES ASSUME Bad # {} PROVE FALSE
  OBVIOUS
<1>2. PICK m \in Bad : \A k \in Bad : m <= k
  <2>1. Bad \subseteq Nat
    OBVIOUS
  <2> HIDE DEF Bad
  <2> QED BY <1>1, <2>1, LeastNumber
<1>3. m \in 1 .. n /\ m - 1 \in 0 .. n /\ m - 1 \notin Bad
  BY <1>2
<1> QED BY <1>2, <1>3


-----------------------------------------------------------------------------
(* The total of the scores of a list, from the least there can be. *)
Times(r, s) == Cardinality({i \in 1 .. Len(r) : r[i].score = s})
Sums(t, r) == t = [k \in 0 .. 2 * MaxScore |->
                    IF k = 0 THEN 0 ELSE t[k - 1] + (k - MaxScore) * Times(r, k - MaxScore)]

LEMMA SumsExist == ASSUME NEW r PROVE \E t : Sums(t, r)
<1> DEFINE e(h, k) == IF k = 0 THEN 0 ELSE h[k - 1] + (k - MaxScore) * Times(r, k - MaxScore)
           n == 2 * MaxScore
           IsLoop(f, m) == f = [k \in 0 .. m |-> e(f, k)]
           Good == {m \in Nat : \E f : IsLoop(f, m)}
<1>0. n \in Nat
  BY GradingAssumption
<1> HIDE DEF n
<1>1. 0 \in Good
  <2>1. IsLoop([k \in 0 .. 0 |-> 0], 0)
    BY SMT
  <2>2. 0 \in Nat
    OBVIOUS
  <2> QED BY <2>1, <2>2, Zenon
<1>2. ASSUME NEW m \in 1 .. n, m - 1 \in Good PROVE m \in Good
  <2>1. PICK f : IsLoop(f, m - 1)
    BY <1>2
  <2> DEFINE g == [k \in 0 .. m |-> IF k = m THEN e(f, m) ELSE f[k]]
  <2>2. m \in Nat /\ m - 1 \in Nat /\ m >= 1
    BY <1>0
  <2>3. \A k \in 0 .. m - 1 : f[k] = e(f, k)
    <3> HIDE DEF e
    <3> QED BY <2>1
  <2>4. \A k \in 0 .. m : (k = m \/ (k \in 0 .. m - 1 /\ k # m)) /\ (k # 0 => k - 1 \in 0 .. m /\ k - 1 # m)
    BY <2>2
  <2>5. \A k \in 0 .. m : k # 0 => g[k - 1] = f[k - 1]
    BY <2>4
  <2>6. \A k \in 0 .. m : e(g, k) = e(f, k)
    <3> TAKE k \in 0 .. m
    <3> HIDE DEF g
    <3>1. CASE k = 0
      BY <3>1
    <3>2. CASE k # 0
      BY <2>5, <3>2, Zenon
    <3> QED BY <3>1, <3>2
  <2>7. \A k \in 0 .. m : g[k] = e(f, k)
    <3> HIDE DEF e
    <3> QED BY <2>3, <2>4, Zenon
  <2>8. g = [k \in 0 .. m |-> g[k]]
    OBVIOUS
  <2> HIDE DEF g, e
  <2>9. g = [k \in 0 .. m |-> e(g, k)]
    BY <2>6, <2>7, <2>8, Zenon
  <2>10. IsLoop(g, m)
    BY <2>9, Zenon
  <2> QED BY <2>2, <2>10
<1>3. n \in Good
  <2> HIDE DEF Good
  <2>1. n \in 0 .. n /\ \A k \in 1 .. n : k - 1 \in Good => k \in Good
    BY <1>0, <1>2
  <2> QED BY <1>0, <1>1, <2>1, FromZeroOn
<1>4. PICK f : IsLoop(f, n)
  BY <1>3
<1> QED BY <1>4 DEF Sums, n

LEMMA TotalIs == Sums(Total, results) /\ Sums(Total', results')
<1>1. \E t : Sums(t, results)
  BY SumsExist
<1>2. \E t : Sums(t, results')
  BY SumsExist
<1>3. Sums(Total, results)
  BY <1>1 DEF Total, Sums, Count, Times
<1>4. Sums(Total', results')
  BY <1>2 DEF Total, Sums, Count, Times
<1> QED BY <1>3, <1>4

LEMMA SumsSteps ==
    ASSUME NEW r, NEW t, Sums(t, r)
    PROVE  t[0] = 0 /\ \A k \in 1 .. 2 * MaxScore : t[k] = t[k - 1] + (k - MaxScore) * Times(r, k - MaxScore)
<1> DEFINE e(h, k) == h[k - 1] + (k - MaxScore) * Times(r, k - MaxScore)
<1>1. t = [k \in 0 .. 2 * MaxScore |-> IF k = 0 THEN 0 ELSE e(t, k)]
  BY DEF Sums
<1>2. 2 * MaxScore \in Nat
  BY GradingAssumption
<1> HIDE DEF e
<1>3. 0 \in 0 .. 2 * MaxScore /\ \A k \in 1 .. 2 * MaxScore : k \in 0 .. 2 * MaxScore /\ k # 0
  BY <1>2
<1>4. t[0] = 0 /\ \A k \in 1 .. 2 * MaxScore : t[k] = e(t, k)
  BY <1>1, <1>3, Zenon
<1> QED BY <1>4 DEF e

(* How often a score occurs, when one more result is appended. *)
LEMMA TimesNext ==
    ASSUME NEW r \in Seq(Result), NEW res \in Result, NEW s
    PROVE  /\ Times(r, s) \in Nat
           /\ Times(Append(r, res), s) = IF res.score = s THEN Times(r, s) + 1 ELSE Times(r, s)
<1> DEFINE P == {i \in 1 .. Len(r) : r[i].score = s}
           q == Append(r, res)
           Q == {i \in 1 .. Len(q) : q[i].score = s}
           n == Len(r) + 1
<1>1. /\ Len(r) \in Nat /\ Len(q) = n /\ q[n] = res /\ \A i \in 1 .. Len(r) : q[i] = r[i]
      /\ \A i : i \in 1 .. n <=> (i \in 1 .. Len(r) \/ i = n)
      /\ n \notin 1 .. Len(r)
  OBVIOUS
<1> HIDE DEF q, n
<1>2. IsFiniteSet(P) /\ Cardinality(P) \in Nat /\ n \notin P
  <2>1. IsFiniteSet(1 .. Len(r)) /\ P \subseteq 1 .. Len(r)
    BY <1>1, FS_Interval
  <2>2. IsFiniteSet(P)
    BY <2>1, FS_Subset
  <2> QED BY <1>1, <2>1, <2>2, FS_CardinalityType
<1>3. CASE res.score = s
  <2>1. Q = P \cup {n}
    BY <1>1, <1>3
  <2>2. Cardinality(P \cup {n}) = Cardinality(P) + 1
    BY <1>2, FS_AddElement
  <2> QED BY <1>2, <1>3, <2>1, <2>2 DEF Times, q
<1>4. CASE res.score # s
  <2>1. Q = P
    BY <1>1, <1>4
  <2> QED BY <1>2, <1>4, <2>1 DEF Times, q
<1> QED BY <1>3, <1>4

(* One more result adds its score to the total. *)
LEMMA TotalNext ==
    ASSUME NEW r \in Seq(Result), NEW res \in Result, NEW t, Sums(t, r), NEW u, Sums(u, Append(r, res))
    PROVE  t[2 * MaxScore] \in Int /\ u[2 * MaxScore] = t[2 * MaxScore] + res.score
<1> DEFINE n == 2 * MaxScore
           s == res.score
           more(k) == IF k < s + MaxScore THEN 0 ELSE s
           Good == {k \in 0 .. n : t[k] \in Int /\ u[k] = t[k] + more(k)}
<1>1. MaxScore \in Nat /\ MaxScore > 0 /\ n \in Nat
  BY GradingAssumption
<1>2. s \in Int /\ 0 < s + MaxScore /\ s + MaxScore < n
  <2>1. s \in Scores
    BY DEF Result
  <2>2. s \in (1 - MaxScore) .. (MaxScore - 1)
    BY <2>1, DefaultGraderAssumption
  <2> QED BY <1>1, <2>2
<1>3. t[0] = 0 /\ u[0] = 0
  BY SumsSteps
<1>4. 0 \in Good
  BY <1>1, <1>2, <1>3
<1>5. ASSUME NEW k \in 1 .. n, k - 1 \in Good PROVE k \in Good
  <2> DEFINE a == Times(r, k - MaxScore)
             b == Times(Append(r, res), k - MaxScore)
             p == k - MaxScore
  <2>1. t[k] = t[k - 1] + p * a /\ u[k] = u[k - 1] + p * b
    BY SumsSteps
  <2>2. a \in Nat /\ b = IF s = p THEN a + 1 ELSE a
    BY TimesNext
  <2>3. k \in Int /\ k \in 0 .. n /\ p \in Int /\ t[k - 1] \in Int /\ u[k - 1] = t[k - 1] + more(k - 1)
    BY <1>1, <1>5
  <2>4. (s = p <=> k = s + MaxScore) /\ (k - 1 < s + MaxScore <=> k < s + MaxScore \/ k = s + MaxScore)
    BY <1>1, <1>2, <2>3
  <2> HIDE DEF a, b, n, s
  <2>5. p * a \in Int /\ p * (a + 1) = p * a + p
    BY <2>2, <2>3
  <2> HIDE DEF p
  <2>6. t[k] \in Int
    BY <2>1, <2>3, <2>5
  <2>7. CASE s = p
    <3>1. u[k] = t[k - 1] + 0 + (p * a + p)
      BY <1>1, <1>2, <2>1, <2>2, <2>3, <2>4, <2>5, <2>7
    <3>2. more(k) = s
      BY <1>1, <1>2, <2>3, <2>4, <2>7
    <3>3. u[k] = t[k] + more(k)
      BY <1>2, <2>1, <2>3, <2>5, <2>7, <3>1, <3>2
    <3> QED BY <2>3, <2>6, <3>3
  <2>8. CASE s # p
    <3>1. more(k) = more(k - 1) /\ more(k) \in Int
      BY <1>1, <1>2, <2>3, <2>4, <2>8
    <3>2. u[k] = t[k] + more(k)
      <4> HIDE DEF more
      <4> QED BY <2>1, <2>2, <2>3, <2>5, <2>8, <3>1
    <3> QED BY <2>3, <2>6, <3>2
  <2> QED BY <2>7, <2>8
<1>6. n \in Good
  <2> HIDE DEF Good
  <2>1. n \in 0 .. n /\ \A k \in 1 .. n : k - 1 \in Good => k \in Good
    BY <1>1, <1>5
  <2> QED BY <1>1, <1>4, <2>1, FromZeroOn
<1> QED BY <1>1, <1>2, <1>6

(* Before the first result. *)
LEMMA TotalStart ==
    ASSUME NEW t, Sums(t, <<>>) PROVE t[2 * MaxScore] = 0
<1> DEFINE n == 2 * MaxScore
           Good == {k \in 0 .. n : t[k] = 0}
<1>1. MaxScore \in Nat /\ n \in Nat
  BY GradingAssumption
<1>2. \A s : Times(<<>>, s) = 0
  <2>1. ASSUME NEW s PROVE {i \in 1 .. Len(<<>>) : <<>>[i].score = s} = {}
    OBVIOUS
  <2> QED BY <2>1, FS_EmptySet, Zenon DEF Times
<1>3. t[0] = 0 /\ \A k \in 1 .. n : t[k] = t[k - 1] + (k - MaxScore) * Times(<<>>, k - MaxScore)
  BY SumsSteps
<1>4. 0 \in Good
  BY <1>1, <1>3
<1>5. ASSUME NEW k \in 1 .. n, k - 1 \in Good PROVE k \in Good
  <2>1. Times(<<>>, k - MaxScore) = 0
    BY <1>2
  <2>2. t[k] = 0 + (k - MaxScore) * 0
    BY <1>3, <1>5, <2>1
  <2> QED BY <1>1, <2>2
<1>6. n \in Good
  <2> HIDE DEF Good
  <2>1. n \in 0 .. n /\ \A k \in 1 .. n : k - 1 \in Good => k \in Good
    BY <1>1, <1>5
  <2> QED BY <1>1, <1>4, <2>1, FromZeroOn
<1> QED BY <1>6

(* The score that the loop holds is the total of the results so far. *)
TotalKnown ==
    /\ tg.scoring = "SUM" => acc.score = Total[2 * MaxScore]
    /\ tg.scoring = "UNSPECIFIED" => acc.score = 0

LEMMA TotalBegins == LoopInit => TotalKnown
<1> SUFFICES ASSUME LoopInit PROVE TotalKnown
  OBVIOUS
<1>1. results = <<>> /\ (tg.scoring \notin {"MIN", "MAX"} => acc.score = 0)
  BY DEF LoopInit, GradeInit, InitialScore
<1>2. Total[2 * MaxScore] = 0
  BY <1>1, TotalIs, TotalStart
<1> QED BY <1>1, <1>2 DEF TotalKnown

LEMMA TotalTurn == ASSUME LoopInv, TotalKnown, NEW res \in Result, Consume(res) PROVE TotalKnown'
<1>1. tg' = tg /\ results' = Append(results, res) /\ results \in Seq(Result) /\ acc'.score = GradeScore(tg, acc.score, res.score)
  BY DEF Consume, GradeStep, LoopInv, LoopType
<1>2. Sums(Total, results)
  BY TotalIs
<1>3. Sums(Total', results')
  BY TotalIs
<1>4. Total'[2 * MaxScore] = Total[2 * MaxScore] + res.score
  BY <1>1, <1>2, <1>3, TotalNext
<1> QED BY <1>1, <1>4 DEF TotalKnown, GradeScore

(* The score of a group is what its mode says of the results, for every list *)
(* of them: of MIN and MAX the extreme one, of SUM the total, in which each  *)
(* result counts once wherever it stands in the list (eval.go 342-348), and  *)
(* without a mode zero.  The theorem says nothing of AVG, where the code     *)
(* keeps the total and not the average of the mode's name (eval.proto 37).   *)
THEOREM ScoreIsMeant == LoopSpec => []ScoreMeaning
<1>1. LoopInv /\ TotalKnown /\ [LoopNext]_loopVars => TotalKnown'
  <2>1. CASE LoopNext
    BY <2>1, TotalTurn DEF LoopNext
  <2>2. CASE UNCHANGED loopVars
    BY <2>2 DEF loopVars, TotalKnown, Total, Count
  <2> QED BY <2>1, <2>2
<1>2. LoopInv => ExtremeMeaning
  BY DEF LoopInv, ScoreKnown, ExtremeMeaning, Graded, GradeEnd
<1>3. ExtremeMeaning /\ TotalKnown => ScoreMeaning
  BY DEF TotalKnown, ScoreMeaning, Graded, GradeEnd
<1> QED BY <1>1, <1>2, <1>3, TotalBegins, LoopInvariance, PTL DEF LoopSpec

-----------------------------------------------------------------------------
(* An interactive run (Interactive).                                         *)

Opened == {"openIn", "openOut", "run"}
Over == {"ended", "returned", "done"}

(* The types, with that of run as a function. *)
Types ==
    /\ TypeOK
    /\ run \in [Sides -> {NotRun, SetupError} \cup UNION {Ends(p) : p \in Sides}]

(* Who can have a FIFO open at all. *)
Holders ==
    /\ writers["input"] \subseteq {"inWrite", "validator"}
    /\ writers["output"] \subseteq {"outWrite", "program"}
    /\ readers["input"] \subseteq {"inWrite", "inRead", "program"}
    /\ readers["output"] \subseteq {"outWrite", "outRead", "validator"}

(* While the judge waits for the runs, who has. *)
Held ==
    /\ "inRead" \in readers["input"]
    /\ "inWrite" \in readers["input"] <=> st["validator"] \notin {"returned", "done"}
    /\ "inWrite" \in writers["input"] <=> st["validator"] \notin {"returned", "done"}
    /\ "outWrite" \in readers["output"] <=> st["program"] # "done"
    /\ "outWrite" \in writers["output"] <=> st["program"] # "done"
    /\ \A p \in Sides : p \in writers[Out(p)] => st[p] = "run"
    /\ \A p \in Sides : p \in readers[In(p)] => st[p] \in Opened

(* Before and after, nobody has, and nothing runs. *)
Still == readers = Nobody /\ writers = Nobody /\ \A p \in Sides : st[p] \in {"idle", "done"}

Phases ==
    /\ jpc = "wait" => Held /\ \A p \in Sides : st[p] # "idle"
    /\ jpc # "wait" => Still
    /\ jpc = "setup" => \A p \in Sides : st[p] = "idle"
    /\ jpc # "over" => verdict = "none"

(* A run is known when it is over. *)
RunKnown == \A p \in Sides : run[p] # NotRun <=> st[p] \in Over

IInv == Types /\ Holders /\ Phases /\ RunKnown /\ VerdictFits

USE DEF Sides, Fifos, In, Out, Peer

(* The ends of runs are told apart by their types. *)
LEMMA Kinds ==
    /\ NotRun.type = "none" /\ SetupError.type = "error"
    /\ \A n : Exited(n).type = "exited" /\ Exited(n).code = n
    /\ \A p \in Sides : \A r \in Ends(p) : r.type \in {"exited", "cut", "timedOut", "signaled", "sigpipe"}
    /\ \A p \in Sides : NotRun \notin Ends(p) /\ SetupError \notin Ends(p)
    /\ NotRun # SetupError /\ Exited(AC) # Exited(WA)
<1>1. /\ NotRun.type = "none" /\ SetupError.type = "error"
      /\ \A n : Exited(n).type = "exited" /\ Exited(n).code = n
  BY DEF NotRun, SetupError, Exited
<1>2. \A p \in Sides : \A r \in Ends(p) : r.type \in {"exited", "cut", "timedOut", "signaled", "sigpipe"}
  BY DEF Ends, Exited
<1>3. Exited(AC) # Exited(WA)
  BY <1>1 DEF AC, WA
<1> QED BY <1>1, <1>2, <1>3

(* At the start. *)
LEMMA Start == Init => IInv
<1> SUFFICES ASSUME Init PROVE IInv
  OBVIOUS
<1> USE InteractiveAssumption DEF Init
<1>1. Types
  <2>1. /\ readers \in [Fifos -> SUBSET (Sides \cup JudgeEnds)] /\ writers \in [Fifos -> SUBSET (Sides \cup JudgeEnds)]
        /\ buf \in [Fifos -> 0 .. Capacity]
    BY DEF Nobody
  <2>2. validatorFirst \in BOOLEAN /\ NotRun \in {NotRun, SetupError}
    OBVIOUS
  <2> QED BY <2>1, <2>2 DEF Types, TypeOK
<1>2. Holders /\ Phases
  BY DEF Holders, Phases, Still, Nobody
<1>3. RunKnown
  BY DEF RunKnown, Over
<1>4. VerdictFits
  BY DEF VerdictFits
<1> QED BY <1>1, <1>2, <1>3, <1>4 DEF IInv

(* Closing ends keeps the types of the FIFOs and leaves the other ends. *)
LEMMA Closing ==
    ASSUME TypeOK, Holders, NEW ends, Close(ends)
    PROVE  /\ Holders'
           /\ readers' \in [Fifos -> SUBSET (Sides \cup JudgeEnds)]
           /\ writers' \in [Fifos -> SUBSET (Sides \cup JudgeEnds)]
           /\ \A f \in Fifos : \A h : h \in readers'[f] <=> h \in readers[f] /\ h \notin ends
           /\ \A f \in Fifos : \A h : h \in writers'[f] <=> h \in writers[f] /\ h \notin ends
<1>1. /\ readers \in [Fifos -> SUBSET (Sides \cup JudgeEnds)]
      /\ writers \in [Fifos -> SUBSET (Sides \cup JudgeEnds)]
  BY DEF TypeOK
<1>2. /\ readers' \in [Fifos -> SUBSET (Sides \cup JudgeEnds)]
      /\ writers' \in [Fifos -> SUBSET (Sides \cup JudgeEnds)]
      /\ \A f \in Fifos : \A h : h \in readers'[f] <=> h \in readers[f] /\ h \notin ends
      /\ \A f \in Fifos : \A h : h \in writers'[f] <=> h \in writers[f] /\ h \notin ends
  BY <1>1 DEF Close
<1>3. Holders'
  BY <1>2 DEF Holders
<1> QED BY <1>2, <1>3

(* The verdict fits for as long as there is none, or nothing it depends on changes. *)
LEMMA FitsBefore == verdict' = "none" /\ jpc' # "over" => VerdictFits'
BY DEF VerdictFits

(* Setup opens the judge's ends, or gives up. *)
LEMMA SetupStep == IInv /\ Setup => IInv'
<1> SUFFICES ASSUME IInv, Setup PROVE IInv'
  OBVIOUS
<1> USE DEF IInv, Setup
<1>0. jpc = "setup" /\ verdict = "none" /\ \A p \in Sides : st[p] = "idle" /\ run[p] = NotRun
  BY DEF Phases, RunKnown, Over
<1>1. CASE jpc' = "wait"
  <2>1. /\ readers' = JudgeReaders /\ writers' = JudgeWriters /\ st' = [p \in Sides |-> "boot"]
        /\ UNCHANGED <<buf, run, validatorFirst, verdict>>
    BY <1>1
  <2>2. Types'
    BY <1>1, <2>1 DEF Types, TypeOK, JudgeReaders, JudgeWriters, JudgeEnds
  <2>3. Holders' /\ Phases'
    BY <1>0, <1>1, <2>1 DEF Holders, Phases, Held, JudgeReaders, JudgeWriters
  <2>4. RunKnown'
    BY <1>0, <2>1 DEF RunKnown, Over
  <2> QED BY <1>0, <1>1, <2>1, <2>2, <2>3, <2>4, FitsBefore
<1>2. CASE jpc' = "over"
  <2>1. verdict' = "error" /\ UNCHANGED <<readers, writers, st, buf, run, validatorFirst>>
    BY <1>2
  <2>2. Types' /\ Holders' /\ Phases' /\ RunKnown'
    BY <1>0, <1>2, <2>1 DEF Types, TypeOK, Holders, Phases, Still, RunKnown
  <2>3. VerdictFits'
    BY <1>0, <1>2, <2>1, Kinds DEF VerdictFits
  <2> QED BY <2>2, <2>3
<1> QED BY <1>1, <1>2

(* A side at work: the judge waits, and there is no verdict. *)
LEMMA AtWork ==
    ASSUME IInv, NEW p \in Sides, st[p] \notin {"idle", "done"}
    PROVE  jpc = "wait" /\ verdict = "none" /\ Held /\ \A q \in Sides : st[q] # "idle"
BY DEF IInv, Types, TypeOK, Phases, Still
(* The steps of a run. *)
LEMMA RunSteps ==
    ASSUME IInv, NEW p \in Sides, RunStep(p) \/ Write(p) \/ Read(p)
    PROVE  IInv'
<1>0. jpc = "wait" /\ verdict = "none" /\ Held /\ \A q \in Sides : st[q] # "idle"
  BY AtWork DEF RunStep, OpenIn, OpenOut, SetupFails, End, Write, Read
<1>1. jpc' = jpc /\ UNCHANGED <<validatorFirst, verdict>>
  BY DEF RunStep, OpenIn, OpenOut, SetupFails, End, Write, Read
<1>2. VerdictFits'
  BY <1>0, <1>1, FitsBefore
<1> SUFFICES Types' /\ Holders' /\ Held' /\ RunKnown' /\ \A q \in Sides : st'[q] # "idle"
  BY <1>0, <1>1, <1>2 DEF IInv, Phases
<1> USE <1>0, <1>1 DEF IInv
<1>3. CASE OpenIn(p)
  <2>1. Types'
    BY <1>3 DEF OpenIn, Types, TypeOK
  <2>2. Holders' /\ Held'
    BY <1>3 DEF OpenIn, Types, TypeOK, Holders, Held, Opened
  <2> QED BY <1>3, <2>1, <2>2 DEF OpenIn, Types, TypeOK, RunKnown, Over
<1>4. CASE OpenOut(p)
  <2>1. Types'
    BY <1>4 DEF OpenOut, Types, TypeOK
  <2>2. Holders' /\ Held'
    BY <1>4 DEF OpenOut, Types, TypeOK, Holders, Held, Opened
  <2> QED BY <1>4, <2>1, <2>2 DEF OpenOut, Types, TypeOK, RunKnown, Over
<1>5. ASSUME st' = [st EXCEPT ![p] = "ended"], st[p] \in {"boot", "openOut", "run"}, Close({p}), UNCHANGED buf,
             NEW r \in Ends(p) \cup {SetupError}, run' = [run EXCEPT ![p] = r]
      PROVE  Types' /\ Holders' /\ Held' /\ RunKnown' /\ \A q \in Sides : st'[q] # "idle"
  <2>1. Types'
    BY <1>5, Closing DEF Types, TypeOK
  <2>2. Holders' /\ Held'
    BY <1>5, Closing DEF Types, TypeOK, Held, Opened
  <2>3. RunKnown' /\ \A q \in Sides : st'[q] # "idle"
    BY <1>5, Kinds DEF Types, TypeOK, RunKnown, Over
  <2> QED BY <2>1, <2>2, <2>3
<1>6. CASE SetupFails(p)
  BY <1>5, <1>6 DEF SetupFails
<1>7. CASE End(p)
  BY <1>5, <1>7 DEF End
<1>8. CASE Write(p) \/ Read(p)
  <2>1. UNCHANGED <<st, readers, writers, run>> /\ buf' \in [Fifos -> 0 .. Capacity]
    BY <1>8, InteractiveAssumption DEF Write, Read, Types, TypeOK
  <2> QED BY <2>1 DEF Types, TypeOK, Holders, Held, RunKnown
<1> QED BY <1>3, <1>4, <1>6, <1>7, <1>8 DEF RunStep

(* The steps of the goroutines. *)
LEMMA GoroutineSteps ==
    IInv /\ (ProgramReturns \/ ProgramDone \/ ValidatorReturns \/ ValidatorDone) => IInv'
<1> SUFFICES ASSUME IInv, ProgramReturns \/ ProgramDone \/ ValidatorReturns \/ ValidatorDone PROVE IInv'
  OBVIOUS
<1>0. jpc = "wait" /\ verdict = "none" /\ Held /\ \A q \in Sides : st[q] # "idle"
  BY AtWork DEF ProgramReturns, ProgramDone, ValidatorReturns, ValidatorDone
<1>1. UNCHANGED <<jpc, run, buf, verdict>>
  BY DEF ProgramReturns, ProgramDone, ValidatorReturns, ValidatorDone, fifoVars
<1>2. VerdictFits'
  BY <1>0, <1>1, FitsBefore
<1> SUFFICES Types' /\ Holders' /\ Held' /\ RunKnown' /\ \A q \in Sides : st'[q] # "idle"
  BY <1>0, <1>1, <1>2 DEF IInv, Phases
<1> USE <1>0, <1>1 DEF IInv
<1>3. CASE ProgramReturns
  BY <1>3 DEF ProgramReturns, fifoVars, Types, TypeOK, Holders, Held, Opened, RunKnown, Over
<1>4. CASE ProgramDone
  <2>1. Types' /\ Holders'
    BY <1>4, Closing DEF ProgramDone, Types, TypeOK
  <2>2. Held'
    BY <1>4, Closing DEF ProgramDone, Types, TypeOK, Held, Opened
  <2> QED BY <1>4, <2>1, <2>2 DEF ProgramDone, Types, TypeOK, RunKnown, Over
<1>5. CASE ValidatorReturns
  <2>1. Types' /\ Holders'
    BY <1>5, Closing DEF ValidatorReturns, Types, TypeOK
  <2>2. Held'
    BY <1>5, Closing DEF ValidatorReturns, Types, TypeOK, Held, Opened
  <2> QED BY <1>5, <2>1, <2>2 DEF ValidatorReturns, Types, TypeOK, RunKnown, Over
<1>6. CASE ValidatorDone
  <2>0. validatorFirst' \in BOOLEAN
    BY <1>6 DEF ValidatorDone, ProgramRunSeenNil
  <2>1. CASE Close({"outRead"})
    <3>1. Types' /\ Holders'
      BY <1>6, <2>0, <2>1, Closing DEF ValidatorDone, Types, TypeOK
    <3>2. Held'
      BY <1>6, <2>1, Closing DEF ValidatorDone, Types, TypeOK, Held, Opened
    <3> QED BY <1>6, <3>1, <3>2 DEF ValidatorDone, Types, TypeOK, RunKnown, Over
  <2>2. CASE UNCHANGED <<readers, writers>>
    BY <1>6, <2>0, <2>2 DEF ValidatorDone, Types, TypeOK, Holders, Held, Opened, RunKnown, Over
  <2> QED BY <1>6, <2>1, <2>2 DEF ValidatorDone
<1> QED BY <1>3, <1>4, <1>5, <1>6

(* The judge closes what it still has, and gives a verdict that fits. *)
LEMMA JudgeStep == IInv /\ Judge => IInv'
<1> SUFFICES ASSUME IInv, Judge PROVE IInv'
  OBVIOUS
<1> USE DEF IInv, Judge
<1>1. /\ jpc' = "over" /\ UNCHANGED <<st, buf, run, validatorFirst>> /\ Held
      /\ \A p \in Sides : st[p] = "done" /\ run[p] \in Ends(p) \cup {SetupError}
  BY DEF Phases, RunKnown, Over, Types, TypeOK
<1>2. Types' /\ Holders'
  <2>1. verdict' \in {"error", "AC", "WA", "TLE", "RTE"}
    BY DEF Verdict
  <2> QED BY <1>1, <2>1, Closing DEF Types, TypeOK
<1>3. Still'
  <2>1. \A f \in Fifos : \A h : h \notin readers'[f] /\ h \notin writers'[f]
    BY <1>1, Closing DEF Types, Held, Holders, Opened
  <2>2. readers' = Nobody /\ writers' = Nobody
    BY <1>2, <2>1 DEF Types, TypeOK, Nobody
  <2> QED BY <1>1, <2>2 DEF Still
<1>4. Phases' /\ RunKnown'
  BY <1>1, <1>3 DEF Phases, RunKnown
<1>5. VerdictFits'
  BY <1>1, Kinds DEF VerdictFits, Verdict, Blamed
<1> QED BY <1>2, <1>4, <1>5

(* IInv holds throughout. *)
LEMMA IInvariance == Spec => []IInv
<1>1. IInv /\ [Next]_vars => IInv'
  <2>1. CASE Next
    BY <2>1, SetupStep, RunSteps, GoroutineSteps, JudgeStep DEF Next
  <2>2. CASE UNCHANGED vars
    BY <2>2 DEF vars, IInv, Types, TypeOK, Holders, Phases, Held, Still, RunKnown, VerdictFits
  <2> QED BY <2>1, <2>2
<1> QED BY Start, <1>1, PTL DEF Spec

(* Types are kept, a process that writes has a reader, and in the end the judge keeps nothing open. *)
THEOREM FifosKept == Spec => []Inv
<1>1. IInv => TypeOK
  BY DEF IInv, Types
<1>2. IInv => NoSigpipe
  BY AtWork DEF NoSigpipe, IInv, Held
<1>3. IInv => NothingKeptOpen
  BY DEF NothingKeptOpen, IInv, Phases, Still
<1> QED BY <1>1, <1>2, <1>3, IInvariance, PTL DEF Inv

(* An end of file means that the other run is over, and the end of a run is noticed. *)
THEOREM EofIsTheEnd == Spec => []EofMeansEnd
<1>1. IInv => EofMeansEnd
  <2> SUFFICES ASSUME IInv, NEW p \in Sides
               PROVE  /\ st[p] = "run" /\ writers[In(p)] = {} => st[Peer(p)] \in {"returned", "done"}
                      /\ st[p] = "done" => writers[Out(p)] = {}
    BY DEF EofMeansEnd
  <2>1. CASE jpc = "wait"
    BY <2>1 DEF IInv, Phases, Held, Holders
  <2>2. CASE jpc # "wait"
    BY <2>2 DEF IInv, Phases, Still, Nobody
  <2> QED BY <2>1, <2>2
<1> QED BY <1>1, IInvariance, PTL

(* The verdict fits both runs, whichever ended first and whatever the race on programRun. *)
THEOREM VerdictIsFit == Spec => []VerdictFits
<1>1. IInv => VerdictFits
  BY DEF IInv
<1> QED BY <1>1, IInvariance, PTL
=============================================================================

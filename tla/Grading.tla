------------------------------ MODULE Grading ------------------------------
(* Verdicts, scores and the default grader of eval/eval.go: how the results  *)
(* of a test group's cases and subgroups are merged into the group's.       *)
(* A score is an integer; the infinities that math.Inf returns are the      *)
(* bounds of the scores considered.                                         *)
EXTENDS Integers, Sequences, SequencesExt

CONSTANT MaxScore   \* bound: every score lies strictly between -MaxScore and MaxScore

ASSUME GradingAssumption == MaxScore \in Nat \ {0}

Verdicts == {"AC", "RTE", "TLE", "WA"}
ScoringModes == {"UNSPECIFIED", "MIN", "MAX", "AVG", "SUM"}
VerdictModes == {"UNSPECIFIED", "WORST_ERROR", "FIRST_ERROR", "ALWAYS_ACCEPT"}

(* worseness: how bad a verdict is for WORST_ERROR. *)
worseness == [v \in Verdicts |->
    CASE v = "AC" -> 0 [] v = "RTE" -> 1 [] v = "TLE" -> 2 [] v = "WA" -> 3]

Smaller(a, b) == IF a <= b THEN a ELSE b
Larger(a, b) == IF a >= b THEN a ELSE b


(* Every mode starts from zero. *)
InitialScoreZero(mode) == 0

(* The result the loop of defaultGrader starts from. *)
InitialScore(mode) == CASE mode = "MIN" -> MaxScore [] mode = "MAX" -> -MaxScore [] OTHER -> 0

GradeInit(tg) == [verdict |-> "AC", score |-> InitialScore(tg.scoring), anyAccepted |-> FALSE]


(* FIRST_ERROR takes the last one. *)
GradeVerdictLast(tg, verdict, v) ==
    IF \/ v = "AC"
       \/ tg.verdicts = "WORST_ERROR" /\ worseness[v] <= worseness[verdict]
       \/ tg.verdicts \notin {"WORST_ERROR", "FIRST_ERROR"}
    THEN verdict
    ELSE v

(* One turn of the loop. *)
GradeVerdict(tg, verdict, v) ==
    IF \/ v = "AC"
       \/ tg.verdicts = "WORST_ERROR" /\ worseness[v] <= worseness[verdict]
       \/ tg.verdicts = "FIRST_ERROR" /\ verdict # "AC"
       \/ tg.verdicts \notin {"WORST_ERROR", "FIRST_ERROR"}
    THEN verdict
    ELSE v

GradeScore(tg, score, s) ==
    CASE tg.scoring \in {"SUM", "AVG"} -> score + s
      [] tg.scoring = "MIN" -> Smaller(score, s)
      [] tg.scoring = "MAX" -> Larger(score, s)
      [] OTHER -> score

GradeStep(tg, acc, res) ==
    [verdict |-> GradeVerdict(tg, acc.verdict, res.verdict),
     score |-> GradeScore(tg, acc.score, res.score),
     anyAccepted |-> acc.anyAccepted \/ res.verdict = "AC"]

(* After the loop. *)
GradeEnd(tg, acc) ==
    [verdict |-> IF tg.verdicts = "ALWAYS_ACCEPT" \/ (acc.anyAccepted /\ tg.anyAccepts)
                 THEN "AC" ELSE acc.verdict,
     score |-> acc.score]

(* The loop after each number of results. *)
GradeLoop(results, tg) ==
    LET acc[k \in 0 .. Len(results)] ==
            IF k = 0 THEN GradeInit(tg) ELSE GradeStep(tg, acc[k - 1], results[k])
    IN  acc

defaultGrader(results, tg) == GradeEnd(tg, GradeLoop(results, tg)[Len(results)])
=============================================================================

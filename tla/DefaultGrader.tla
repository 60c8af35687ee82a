---------------------------- MODULE DefaultGrader ----------------------------
(* The loop of defaultGrader (eval/eval.go 320-358) as a state machine: it   *)
(* consumes the results of a group one by one.  Its state after any number  *)
(* of them is compared with a definition of what the group's modes mean.    *)
EXTENDS Grading

CONSTANTS
    Scores,     \* the scores that results have
    MaxResults  \* bound: cases and subgroups of the group

ASSUME DefaultGraderAssumption ==
    /\ MaxResults \in Nat
    /\ Scores \subseteq (1 - MaxScore) .. (MaxScore - 1)

VARIABLES
    tg,         \* the group's modes
    results,    \* the results consumed so far
    acc         \* the state of the loop

loopVars == <<tg, results, acc>>

Group == [scoring : ScoringModes, verdicts : VerdictModes, anyAccepts : BOOLEAN]
Result == [verdict : Verdicts, score : Scores]

LoopInit ==
    /\ tg \in Group
    /\ results = <<>>
    /\ acc = GradeInit(tg)

Consume(res) ==
    /\ results' = Append(results, res)
    /\ acc' = GradeStep(tg, acc, res)
    /\ UNCHANGED tg

LoopNext == \E res \in Result : Len(results) < MaxResults /\ Consume(res)

LoopSpec == LoopInit /\ [][LoopNext]_loopVars

-----------------------------------------------------------------------------
(* What the modes mean, of a whole list of results. *)

Errors == {i \in 1 .. Len(results) : results[i].verdict # "AC"}
Accepts == 1 .. Len(results) \ Errors

Graded == GradeEnd(tg, acc)

(* WORST_ERROR and FIRST_ERROR report an error that some result has, no     *)
(* other error being worse, or earlier; a group is accepted only if nothing *)
(* in it failed or its flags say so (eval.go 333-356).                      *)
VerdictMeaning ==
    LET anyway == tg.verdicts = "ALWAYS_ACCEPT" \/ (tg.anyAccepts /\ Accepts # {})
    IN  /\ anyway \/ Errors = {} \/ tg.verdicts = "UNSPECIFIED" => Graded.verdict = "AC"
        /\ ~anyway /\ Errors # {} /\ tg.verdicts \in {"WORST_ERROR", "FIRST_ERROR"} =>
            \E i \in Errors :
                /\ results[i].verdict = Graded.verdict
                /\ tg.verdicts = "FIRST_ERROR" => \A j \in Errors : i <= j
                /\ tg.verdicts = "WORST_ERROR" =>
                    \A j \in Errors : worseness[results[j].verdict] <= worseness[Graded.verdict]

Occurring == {results[i].score : i \in 1 .. Len(results)}

(* MIN and MAX return the extreme score that occurs (eval.go 344-348).      *)
ExtremeMeaning ==
    /\ tg.scoring = "MIN" /\ results # <<>> =>
        Graded.score \in Occurring /\ \A s \in Occurring : Graded.score <= s
    /\ tg.scoring = "MAX" /\ results # <<>> =>
        Graded.score \in Occurring /\ \A s \in Occurring : s <= Graded.score
    /\ tg.scoring \in {"MIN", "MAX"} /\ results = <<>> => Graded.score = InitialScore(tg.scoring)

(* MIN and MAX as above, and SUM counts each result once, so that permuting  *)
(* the list changes nothing (eval.go 342-348): the total is that of the      *)
(* scores from the least to the largest there can be, each as often as it    *)
(* occurs.  Nothing is said of AVG: its name (eval.proto 37) promises an     *)
(* average, and the code computes the total (eval.go 342).                   *)
Count(s) == Cardinality({i \in 1 .. Len(results) : results[i].score = s})

Total[k \in 0 .. 2 * MaxScore] ==
    IF k = 0 THEN 0 ELSE Total[k - 1] + (k - MaxScore) * Count(k - MaxScore)

ScoreMeaning ==
    /\ ExtremeMeaning
    /\ tg.scoring = "SUM" => Graded.score = Total[2 * MaxScore]
    /\ tg.scoring = "UNSPECIFIED" => Graded.score = 0
=============================================================================

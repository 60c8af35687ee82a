---------------------------- MODULE MCEvaluator ----------------------------
(* Evaluation plans for TLC.  The tree is that of a real problem in small:   *)
(*                                                                          *)
(*     root --- sample --- c1                                               *)
(*          \-- secret --- c2, c3                                           *)
(*                                                                          *)
(* c2 is the case of the sample group again, and c3 has the name of c2.     *)
EXTENDS Evaluator

Plain ==
    [scoring |-> "SUM", verdicts |-> "WORST_ERROR", anyAccepts |-> FALSE,
     breakOnFail |-> FALSE, ignoreSample |-> FALSE, custom |-> FALSE,
     accept |-> 1, reject |-> 0, flags |-> <<>>]

Tree ==
    [root |-> "root",
     name |-> [root |-> 0, sample |-> 1, secret |-> 2, c1 |-> 1, c2 |-> 2, c3 |-> 2],
     under |-> [root |-> {"sample", "secret"}, sample |-> {"c1"}, secret |-> {"c2", "c3"}],
     attr |-> [g \in {"root", "sample", "secret"} |-> Plain],
     input |-> [c1 |-> <<"in1">>, c2 |-> <<"in1">>, c3 |-> <<"in3">>],
     answer |-> [c1 |-> <<"ans1">>, c2 |-> <<"ans1">>, c3 |-> <<"ans3">>],
     interactive |-> FALSE, validator |-> FALSE, scoringValidator |-> FALSE, grader |-> FALSE]

(* What the interesting features of a plan are, one or two at a time. *)
MCPlans ==
    LET breaking == [Tree EXCEPT !.attr["secret"].breakOnFail = TRUE, !.attr["root"].breakOnFail = TRUE]
        flagged == [Tree EXCEPT !.attr["secret"].flags = << <<"float">>, <<"1">> >>, !.validator = TRUE]
    IN  { Tree,
          breaking,
          flagged,
          [breaking EXCEPT !.attr["root"].ignoreSample = TRUE, !.validator = TRUE],
          [flagged EXCEPT !.scoringValidator = TRUE, !.attr["secret"].scoring = "MIN"],
          [Tree EXCEPT !.attr["root"].custom = TRUE, !.grader = TRUE],
          [Tree EXCEPT !.attr["root"].custom = TRUE],
          [Tree EXCEPT !.under["sample"] = {}, !.attr["sample"].ignoreSample = TRUE],
          [Tree EXCEPT !.interactive = TRUE, !.validator = TRUE, !.scoringValidator = TRUE],
          [Tree EXCEPT !.interactive = TRUE] }

MCScores == {0, 1}

ASSUME MCKeysTell == KeysTell
=============================================================================

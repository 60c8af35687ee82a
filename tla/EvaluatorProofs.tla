--------------------------- MODULE EvaluatorProofs ---------------------------
(* Proofs about Evaluator, for every tree of test groups, every answer of    *)
(* validators and graders and any number of attempts: what is left running, *)
(* on which sandboxes and files Run is called, what success means, in which *)
(* order the results are sent, what a group's acceptance says of its        *)
(* children, and whose run and files each counted result is of.             *)
(*                                                                          *)
(* The invariants build on each other, each with the one before it as its   *)
(* first conjunct: DeferSync, BoxSync, ScoreSync, RootSync, TreeSync,       *)
(* ResultSync, FileSync, then OwnSync and KindSync.                         *)
EXTENDS Evaluator, FiniteSetTheorems, SequenceTheorems, WellFoundedInduction, TLAPS

(* The walk over the groups, with everything it calls. *)
Walking == {"next", "link", "run", "diff", "vlink", "validate", "ilink", "interact", "clear", "emit", "grade"}

Boxes == {"program", "validator", "grader"}

LEMMA BoxNames == ToSet(Sandboxes) = Boxes /\ Sandboxes \in Seq(Boxes) /\ \A s \in Boxes : \E i \in 1 .. 3 : Sandboxes[i] = s
BY DEF ToSet, Sandboxes, Boxes

(* The steps of the walk before its end neither start a sandbox nor touch   *)
(* the deferred calls; a Run that fails has finished its sandbox. *)
WalkStep ==
    \/ EnterGroup \/ ReuseCase \/ StartCase \/ StartInteractive \/ LinkFile \/ RunProgram \/ DiffOutput
    \/ RunValidator \/ RunInteractive \/ RemoveEntry \/ ClearDir \/ EmitCase \/ MergeGroup \/ RunGrader

(* Some sandboxes are finished, the others stay what they are. *)
Finished(F) == sb' = [s \in DOMAIN sb |-> IF s \in F THEN "finished" ELSE sb[s]]

LEMMA WalkKeeps ==
    ASSUME WalkStep
    PROVE  /\ UNCHANGED <<plan, defers, closed, attempt>>
           /\ pc \in Walking /\ pc' \in Walking \cup {"unwind"}
           /\ \/ sb' = sb
              \/ pc' = "unwind" /\ \E s \in Boxes : sb' = [sb EXCEPT ![s] = "finished"]
              \/ pc' = "unwind" /\ \E F : Finished(F)
<1> USE DEF callVars, caseVars, Walking, Abort, Boxes
<1>1. CASE EnterGroup \/ ReuseCase \/ StartCase \/ StartInteractive \/ EmitCase
  BY <1>1 DEF EnterGroup, ReuseCase, StartCase, StartInteractive, EmitCase
<1>1l. CASE LinkFile
  BY <1>1l DEF LinkFile, AfterLinks
<1>1i. CASE RunInteractive
  <2>1. /\ UNCHANGED <<plan, defers, closed, attempt>> /\ pc = "interact"
        /\ \/ sb' = sb /\ pc' \in {"clear", "unwind"}
           \/ pc' = "unwind" /\ \E F : Finished(F)
    BY <1>1i DEF RunInteractive, Judged, Finished
  <2> QED BY <2>1
<1>1r. CASE RemoveEntry
  BY <1>1r DEF RemoveEntry
<1>2. CASE RunProgram
  BY <1>2 DEF RunProgram, Judged, SandboxFails
<1>3. CASE RunValidator
  BY <1>3 DEF RunValidator, Judged, SandboxFails
<1>4. CASE DiffOutput \/ ClearDir
  BY <1>4 DEF DiffOutput, ClearDir, Judged
<1>5. CASE MergeGroup
  BY <1>5 DEF MergeGroup, EmitGroup, AllDone
<1>6. CASE RunGrader
  BY <1>6 DEF RunGrader, EmitGroup, SandboxFails
<1> QED BY <1>1, <1>1l, <1>1i, <1>1r, <1>2, <1>3, <1>4, <1>5, <1>6, Zenon DEF WalkStep

-----------------------------------------------------------------------------
(* A sandbox that runs is one whose Finish is deferred, and the close of the *)
(* channel, deferred first, comes when nothing else is. *)
DeferSync ==
    /\ sb \in [Boxes -> {"new", "started", "finished"}]
    /\ defers \in Seq({"close", "perm"} \cup Boxes)
    /\ \A i \in 1 .. Len(defers) : defers[i] = "close" => i = 1
    /\ closed => defers = <<>> /\ pc \in {"unwind", "over", "crashed"}
    /\ \A s \in Boxes : sb[s] = "started" => pc # "crashed" /\ \E i \in 1 .. Len(defers) : defers[i] = s
    /\ pc = "begin" => \A s \in Boxes : sb[s] # "started"
    /\ pc = "start" => Len(defers) >= 1

LEMMA DeferStart == Init => DeferSync
<1> SUFFICES ASSUME Init PROVE DeferSync
  OBVIOUS
<1> QED BY BoxNames DEF Init, DeferSync, AllNew, Boxes

LEMMA DeferStep == DeferSync /\ [Next]_vars => DeferSync'
<1> SUFFICES ASSUME DeferSync, [Next]_vars PROVE DeferSync'
  OBVIOUS
<1> USE DEF DeferSync, callVars, caseVars, Boxes
<1>1. CASE ResetPermissions
  <2>1. /\ UNCHANGED <<sb, closed>> /\ pc = "begin" /\ pc' \in {"start", "unwind"}
        /\ ~closed
        /\ \A s \in Boxes : sb[s] # "started"
    BY <1>1 DEF ResetPermissions, Abort
  <2> QED BY <1>1, <2>1 DEF ResetPermissions, Abort
<1>2. CASE StartSandbox
  <2>1. PICK s \in Boxes :
            \/ /\ sb' = [sb EXCEPT ![s] = "started"]
               /\ defers' = Append(defers, s) /\ pc' = pc
            \/ UNCHANGED <<sb, defers>> /\ pc' = "unwind"
    BY <1>2, BoxNames DEF StartSandbox, Abort
  <2>2. pc = "start" /\ closed' = closed /\ ~closed /\ Len(defers) >= 1
    BY <1>2 DEF StartSandbox
  <2>3. CASE UNCHANGED <<sb, defers>> /\ pc' = "unwind"
    BY <2>2, <2>3
  <2>4. CASE sb' = [sb EXCEPT ![s] = "started"] /\ defers' = Append(defers, s) /\ pc' = pc
    <3>1. /\ defers' \in Seq({"close", "perm"} \cup Boxes) /\ Len(defers') = Len(defers) + 1
          /\ \A i \in 1 .. Len(defers) : defers'[i] = defers[i]
          /\ defers'[Len(defers) + 1] = s
      BY <2>4
    <3> HIDE DEF Boxes
    <3>2. sb' \in [Boxes -> {"new", "started", "finished"}] /\ sb'[s] = "started"
          /\ \A t \in Boxes \ {s} : sb'[t] = sb[t]
      BY <2>4
    <3>3. s # "close"
      BY DEF Boxes
    <3> QED BY <2>2, <2>4, <3>1, <3>2, <3>3
  <2> QED BY <2>1, <2>3, <2>4
<1>3. CASE EnterRoot
  BY <1>3 DEF EnterRoot
<1>4. CASE WalkStep
  <2>1. ASSUME NEW F, Finished(F)
        PROVE  sb' \in [Boxes -> {"new", "started", "finished"}] /\ \A s \in Boxes : sb'[s] = "started" => sb[s] = "started"
    BY <2>1 DEF Finished
  <2>2. /\ UNCHANGED <<plan, defers, closed, attempt>> /\ pc \in Walking /\ pc' \in Walking \cup {"unwind"}
        /\ sb' \in [Boxes -> {"new", "started", "finished"}]
        /\ \A s \in Boxes : sb'[s] = "started" => sb[s] = "started"
    BY <1>4, <2>1, WalkKeeps
  <2> QED BY <2>2 DEF Walking
<1>5. CASE RunDeferred
  <2> DEFINE d == defers[Len(defers)]
  <2>1. pc = "unwind" /\ pc' = pc /\ Len(defers) \in Nat /\ Len(defers) >= 1 /\ ~closed
    BY <1>5 DEF RunDeferred
  <2>2. /\ defers' = SubSeq(defers, 1, Len(defers) - 1)
        /\ sb' = [s \in Boxes |-> IF s = d THEN "finished" ELSE sb[s]]
    BY <1>5 DEF RunDeferred, Last, Front
  <2>3. /\ defers' \in Seq({"close", "perm"} \cup Boxes) /\ Len(defers') = Len(defers) - 1
        /\ \A i \in 1 .. Len(defers) - 1 : defers'[i] = defers[i]
    <3> DEFINE D == {"close", "perm"} \cup Boxes
               n == Len(defers) - 1
               t == SubSeq(defers, 1, n)
    <3>1. n \in Nat /\ \A i \in 1 .. n : defers[i] \in D
      BY <2>1
    <3>2. defers' = t
      BY <2>2
    <3> HIDE DEF D, n
    <3>3. t \in Seq(D) /\ Len(t) = (IF 1 <= n THEN n - 1 + 1 ELSE 0)
          /\ \A i \in 1 .. n - 1 + 1 : t[i] = defers[1 + i - 1]
      BY <3>1, SubSeqProperties
    <3> HIDE DEF t
    <3>4. Len(t) = n
      BY <3>1, <3>3
    <3>5. ASSUME NEW i \in 1 .. n
          PROVE  t[i] = defers[i]
      <4>1. i \in 1 .. n - 1 + 1 /\ 1 + i - 1 = i
        BY <3>1
      <4> QED BY <3>3, <4>1
    <3>6. defers' \in Seq(D) /\ Len(defers') = n /\ \A i \in 1 .. n : defers'[i] = defers[i]
      BY <3>2, <3>3, <3>4, <3>5
    <3> QED BY <3>6, Zenon DEF D, n
  <2>4. closed' => Len(defers) = 1
    <3>1. closed' = (closed \/ d = "close")
      BY <1>5 DEF RunDeferred, Last
    <3>2. closed' => closed \/ d = "close"
      BY <3>1, Zenon
    <3>3. closed' => d = "close"
      BY <2>1, <3>2, Zenon
    <3>4. Len(defers) \in 1 .. Len(defers)
      BY <2>1
    <3>5. d = "close" => Len(defers) = 1
      BY <3>4
    <3> QED BY <3>3, <3>5, Zenon
  <2>5. closed' => defers' = <<>>
    BY <2>3, <2>4
  <2> HIDE DEF Boxes
  <2> QED BY <2>1, <2>2, <2>3, <2>5
<1>6. CASE Return \/ Over \/ UNCHANGED vars
  BY <1>6 DEF Return, Over, vars
<1>7. CASE JudgeCrash
  BY <1>7 DEF JudgeCrash
<1>8. CASE Retry
  BY <1>8, BoxNames DEF Retry, AllNew
<1> QED BY <1>1, <1>2, <1>3, <1>4, <1>5, <1>6, <1>7, <1>8 DEF Next, EvaluatorNext, WalkStep

(* When the channel is closed no sandbox is left running, however Evaluate   *)
(* ends (eval.go 174-194). *)
THEOREM NothingRunsAfterClose == Spec => []ClosedMeansFinished
<1>1. DeferSync => ClosedMeansFinished
  BY DEF DeferSync, ClosedMeansFinished
<1> QED BY <1>1, DeferStart, DeferStep, PTL DEF Spec
-----------------------------------------------------------------------------
(* The sandboxes the plan uses are started before the walk and run until it *)
(* ends: a step that finishes one ends the walk. *)
BoxSync ==
    /\ DeferSync
    /\ plan \in Plans
    /\ pc = "begin" => \A s \in Boxes : sb[s] = "new"
    /\ pc = "start" => \A s \in Boxes : sb[s] # "finished"
    /\ pc \in Walking => \A s \in Boxes : Used(s) => sb[s] = "started"
    /\ pc \in {"vlink", "validate", "ilink", "interact"} => Used("validator")
    /\ pc = "grade" => Used("grader")

LEMMA BoxStart == Init => BoxSync
BY DeferStart, BoxNames DEF Init, BoxSync, AllNew, Boxes, Walking

LEMMA WalkCalls ==
    ASSUME WalkStep, plan \in Plans,
           pc \in {"vlink", "validate", "ilink", "interact"} => Used("validator"), pc = "grade" => Used("grader")
    PROVE  /\ pc' \in {"vlink", "validate", "ilink", "interact"} => Used("validator")
           /\ pc' = "grade" => Used("grader")
<1> USE DEF callVars, caseVars, Abort
<1>0. plan.validator \in BOOLEAN /\ plan.grader \in BOOLEAN
  BY EvaluatorAssumption
<1>1. CASE EnterGroup \/ ReuseCase \/ StartCase \/ EmitCase \/ RemoveEntry
  BY <1>1 DEF EnterGroup, ReuseCase, StartCase, EmitCase, RemoveEntry
<1>1s. CASE StartInteractive
  BY <1>0, <1>1s DEF StartInteractive, Used
<1>1l. CASE LinkFile
  BY <1>1l DEF LinkFile, AfterLinks
<1>1i. CASE RunInteractive
  BY <1>1i DEF RunInteractive, Judged
<1>2. CASE RunProgram
  BY <1>0, <1>2 DEF RunProgram, Judged, SandboxFails, Used
<1>3. CASE RunValidator
  BY <1>3 DEF RunValidator, Judged, SandboxFails
<1>4. CASE DiffOutput \/ ClearDir
  BY <1>4 DEF DiffOutput, ClearDir, Judged
<1>5. CASE MergeGroup
  BY <1>0, <1>5 DEF MergeGroup, EmitGroup, AllDone, Used
<1>6. CASE RunGrader
  BY <1>6 DEF RunGrader, EmitGroup, SandboxFails
<1> QED BY <1>1, <1>1s, <1>1l, <1>1i, <1>2, <1>3, <1>4, <1>5, <1>6, Zenon DEF WalkStep

LEMMA BoxStep == BoxSync /\ [Next]_vars => BoxSync'
<1> SUFFICES ASSUME BoxSync, [Next]_vars PROVE BoxSync'
  OBVIOUS
<1>0. DeferSync /\ DeferSync'
  BY DeferStep DEF BoxSync
<1> USE <1>0 DEF BoxSync, callVars, caseVars
<1>1. CASE ResetPermissions
  BY <1>1 DEF ResetPermissions, Abort, Walking
<1>2. CASE StartSandbox
  <2>1. /\ pc = "start" /\ pc' \in {"start", "unwind"} /\ plan' = plan
        /\ UNCHANGED sb \/ \E s \in Boxes : sb' = [sb EXCEPT ![s] = "started"]
    BY <1>2, BoxNames DEF StartSandbox, Abort
  <2> QED BY <2>1 DEF Walking, DeferSync
<1>3. CASE EnterRoot
  <2>1. /\ pc = "start" /\ pc' = "next" /\ UNCHANGED <<plan, sb>>
        /\ \A s \in Boxes : Used(s) => sb[s] # "new"
    BY <1>3, BoxNames DEF EnterRoot, ToStart
  <2>2. \A s \in Boxes : sb[s] \in {"new", "started", "finished"}
    BY DEF DeferSync
  <2> QED BY <2>1, <2>2 DEF Used
<1>4. CASE WalkStep
  <2>1. /\ plan' = plan /\ pc \in Walking /\ pc' \in Walking \cup {"unwind"}
        /\ pc' \in Walking => sb' = sb
    BY <1>4, WalkKeeps DEF Walking
  <2>2. /\ pc' \in {"vlink", "validate", "ilink", "interact"} => Used("validator")
        /\ pc' = "grade" => Used("grader")
    BY <1>4, WalkCalls
  <2> QED BY <2>1, <2>2 DEF Walking, Used
<1>5. CASE RunDeferred \/ Return \/ JudgeCrash
  BY <1>5 DEF RunDeferred, Return, JudgeCrash, Walking
<1>6. CASE Over \/ UNCHANGED vars
  BY <1>6 DEF Over, vars, Used
<1>7. CASE Retry
  BY <1>7, BoxNames DEF Retry, AllNew, Walking, Boxes
<1> QED BY <1>1, <1>2, <1>3, <1>4, <1>5, <1>6, <1>7 DEF Next, EvaluatorNext, WalkStep

(* Run is only called on a sandbox that runs (eval.go 285, 613, 639): every *)
(* failure of Run ends the walk, and with it the calls.                     *)
THEOREM CallersKeepContract == Spec => []RunsOnStarted
<1>1. BoxSync => RunsOnStarted
  BY DEF BoxSync, RunsOnStarted, Walking, Boxes, Used
<1> QED BY <1>1, BoxStart, BoxStep, PTL DEF Spec
-----------------------------------------------------------------------------
(* In a first evaluation the validator's score file is there only between    *)
(* the validator and the last directory cleared for the case, which is its. *)
NotScore == FileNames \ {"v.score"}

Linking == pc \in {"link", "vlink", "ilink"} => work \in Seq(NotScore) /\ work # <<>>
Clearing ==
    pc = "clear" =>
        /\ work \in Seq(SUBSET FileNames) /\ work # <<>>
        /\ Used("validator") => work[Len(work)] = ValWrite

NoScore == files["v.score"] = {}

ScoreSync ==
    /\ BoxSync
    /\ attempt \in Nat \ {0}
    /\ DOMAIN files = FileNames
    /\ Linking
    /\ Clearing
    /\ attempt = 1 /\ pc \notin {"clear", "unwind", "over", "crashed"} => NoScore
    /\ attempt = 1 /\ pc = "clear" => NoScore \/ Used("validator")

LEMMA ScoreStart == Init => ScoreSync
BY BoxStart DEF Init, ScoreSync, Linking, Clearing, NoScore, FileNames, ProgramRead, ProgramWrite, ValRead, ValWrite

LEMMA ClearList ==
    ASSUME plan \in Plans
    PROVE  /\ ToClear \in Seq(SUBSET FileNames) /\ ToClear # <<>>
           /\ Used("validator") => ToClear[Len(ToClear)] = ValWrite
<1>1. plan.validator \in BOOLEAN
  BY EvaluatorAssumption
<1> DEFINE S == SUBSET FileNames
<1>2. ProgramRead \in S /\ ProgramWrite \in S /\ ValRead \in S /\ ValWrite \in S
  BY DEF FileNames
<1> HIDE DEF S
<1> DEFINE twice == IF plan.interactive THEN <<ProgramRead, ProgramWrite>> ELSE <<>>
           p == twice \o <<ProgramRead, ProgramWrite>>
           v == IF plan.validator THEN <<ValRead, ValWrite>> ELSE <<>>
<1>3. ToClear = p \o v
  BY DEF ToClear
<1>4. <<ProgramRead, ProgramWrite>> \in Seq(S) /\ Len(<<ProgramRead, ProgramWrite>>) = 2
  BY <1>2
<1>5. twice \in Seq(S) /\ Len(twice) \in Nat
  BY <1>2
<1>6. v \in Seq(S) /\ Len(v) \in Nat /\ (plan.validator => Len(v) = 2 /\ v[2] = ValWrite)
  BY <1>1, <1>2
<1> HIDE DEF twice, v
<1>7. p \in Seq(S) /\ Len(p) = Len(twice) + 2
  BY <1>4, <1>5, ConcatProperties
<1> HIDE DEF p
<1>8. /\ p \o v \in Seq(S) /\ Len(p \o v) = Len(p) + Len(v)
      /\ \A i \in 1 .. Len(p) + Len(v) :
            (p \o v)[i] = IF i <= Len(p) THEN p[i] ELSE v[i - Len(p)]
  BY <1>6, <1>7, ConcatProperties
<1>9. p \o v # <<>>
  <2> DEFINE s == p \o v
  <2>1. s \in Seq(S) /\ Len(s) = Len(p) + Len(v)
    BY <1>8
  <2> HIDE DEF s
  <2>2. Len(s) # 0
    BY <1>5, <1>6, <1>7, <2>1
  <2>3. s # <<>>
    BY <2>1, <2>2, EmptySeq
  <2> QED BY <2>3 DEF s
<1>10. plan.validator => (p \o v)[Len(p \o v)] = ValWrite
  <2> SUFFICES ASSUME plan.validator PROVE (p \o v)[Len(p \o v)] = ValWrite
    OBVIOUS
  <2> DEFINE n == Len(p)
  <2>1. n \in Nat /\ Len(p \o v) = n + 2 /\ Len(v) = 2
    <3>1. Len(v) = 2 /\ n \in Nat
      BY <1>5, <1>6, <1>7
    <3>2. Len(p \o v) = n + Len(v)
      BY <1>8
    <3> HIDE DEF n
    <3> QED BY <3>1, <3>2
  <2> HIDE DEF n
  <2>2. n + 2 \in 1 .. n + 2 /\ ~(n + 2 <= n) /\ (n + 2) - n = 2
    BY <2>1
  <2>3. (p \o v)[n + 2] = v[2]
    BY <1>8, <2>1, <2>2 DEF n
  <2> QED BY <1>6, <2>1, <2>3
<1> QED BY <1>3, <1>8, <1>9, <1>10 DEF S, Used

LEMMA LastOfTail ==
    ASSUME NEW S, NEW s \in Seq(S), s # <<>>
    PROVE  /\ Len(s) \in Nat \ {0} /\ Head(s) = s[1] /\ Tail(s) \in Seq(S)
           /\ Tail(s) = <<>> => Len(s) = 1
           /\ Tail(s) # <<>> => Tail(s)[Len(Tail(s))] = s[Len(s)]
<1>1. /\ Len(s) \in Nat \ {0} /\ Head(s) = s[1] /\ Tail(s) \in Seq(S)
      /\ Len(Tail(s)) = Len(s) - 1
      /\ \A i \in 1 .. Len(s) - 1 : Tail(s)[i] = s[i + 1]
  BY HeadTailProperties
<1>2. Tail(s) = <<>> => Len(Tail(s)) = 0
  BY EmptySeq
<1>3. Tail(s) # <<>> => Len(Tail(s)) # 0
  BY <1>1
<1>4. Tail(s) # <<>> => Len(s) - 1 \in 1 .. Len(s) - 1
  BY <1>1, <1>3
<1> QED BY <1>1, <1>2, <1>4

LEMMA ScoreStep == ScoreSync /\ [Next]_vars => ScoreSync'
<1> SUFFICES ASSUME ScoreSync, [Next]_vars PROVE ScoreSync'
  OBVIOUS
<1>0. BoxSync /\ BoxSync' /\ plan \in Plans
  BY BoxStep DEF ScoreSync, BoxSync
<1> USE <1>0 DEF ScoreSync, callVars, caseVars, Linking, Clearing, NoScore
<1>1. CASE ResetPermissions \/ StartSandbox \/ EnterRoot
  BY <1>1 DEF ResetPermissions, StartSandbox, EnterRoot, Abort
<1>2. CASE EnterGroup \/ ReuseCase \/ EmitCase
  BY <1>2 DEF EnterGroup, ReuseCase, EmitCase
<1>2i. CASE StartInteractive
  <2>1. <<"v.input", "v.judge_answer", "input", "output">> \in Seq(NotScore)
    BY DEF NotScore, FileNames, ProgramRead, ProgramWrite, ValRead
  <2>2. /\ pc = "next" /\ UNCHANGED <<plan, files, attempt>> /\ pc' \in {"ilink", "unwind"}
        /\ pc' = "ilink" => work' = <<"v.input", "v.judge_answer", "input", "output">>
    BY <1>2i DEF StartInteractive, Abort
  <2>3. <<"v.input", "v.judge_answer", "input", "output">> # <<>>
    OBVIOUS
  <2> QED BY <2>1, <2>2, <2>3
<1>3. CASE StartCase
  <2>1. "input" \in NotScore /\ "output" \in NotScore /\ "error" \in NotScore
    BY DEF NotScore, FileNames, ProgramRead, ProgramWrite
  <2>2. <<"input", "output", "error">> \in Seq(NotScore)
    BY <2>1
  <2> QED BY <1>3, <2>2 DEF StartCase
<1>4. CASE LinkFile
  <2>0. pc \in {"link", "vlink", "ilink"}
    BY <1>4 DEF LinkFile, AfterLinks
  <2>1. Head(work) \in NotScore /\ Tail(work) \in Seq(NotScore)
    BY <2>0
  <2>2. files'["v.score"] = files["v.score"] /\ DOMAIN files' = FileNames
    BY <1>4, <2>1 DEF LinkFile, NotScore, FileNames, ValWrite
  <2>3. /\ UNCHANGED <<plan, attempt>>
        /\ \/ pc' = "unwind"
           \/ work' = Tail(work) /\ work' # <<>> /\ pc' = pc
           \/ pc' \in {"run", "validate", "interact"}
    BY <1>4 DEF LinkFile, Abort, AfterLinks
  <2> QED BY <2>0, <2>1, <2>2, <2>3
<1>5. CASE RunProgram
  <2>1. <<"v.input", "v.team_output", "v.judge_answer">> \in Seq(NotScore)
    BY DEF NotScore, FileNames, ValRead
  <2>2. /\ pc = "run" /\ UNCHANGED <<plan, files, attempt>> /\ pc' \in {"clear", "vlink", "diff", "unwind"}
        /\ pc' = "clear" => work' = ToClear
        /\ pc' = "vlink" => work' = <<"v.input", "v.team_output", "v.judge_answer">>
    BY <1>5 DEF RunProgram, Judged, SandboxFails, Abort
  <2>3. Clearing'
    BY <2>2, ClearList DEF Used
  <2>4. Linking'
    <3>1. <<"v.input", "v.team_output", "v.judge_answer">> # <<>>
      OBVIOUS
    <3>2. pc' \notin {"link", "ilink"}
      BY <2>2
    <3> QED BY <2>1, <2>2, <3>1, <3>2
  <2> HIDE DEF Linking, Clearing, NoScore
  <2>5. NoScore' <=> NoScore
    BY <2>2 DEF NoScore
  <2> QED BY <2>2, <2>3, <2>4, <2>5
<1>6. CASE DiffOutput
  BY <1>6, ClearList DEF DiffOutput, Judged, Abort, Used
<1>7. CASE RunValidator \/ RunInteractive
  <2>1. /\ pc \in {"validate", "interact"} /\ UNCHANGED <<plan, attempt>>
        /\ \E scores : files' = [files EXCEPT !["v.score"] = scores]
        /\ pc' \in {"clear", "unwind"}
        /\ pc' = "clear" => work' = ToClear
    BY <1>7 DEF RunValidator, RunInteractive, Judged, SandboxFails, Abort
  <2>2. PICK scores : files' = [files EXCEPT !["v.score"] = scores]
    BY <2>1
  <2>3. DOMAIN files' = FileNames /\ Linking' /\ Clearing'
    BY <2>1, <2>2, ClearList DEF Used
  <2>4. Used("validator")'
    BY <2>1 DEF Used, BoxSync
  <2> HIDE DEF Linking, Clearing, NoScore
  <2> QED BY <2>1, <2>3, <2>4
<1>7r. CASE RemoveEntry
  <2>1. PICK f \in Head(work) : files' = [files EXCEPT ![f] = {}]
    BY <1>7r DEF RemoveEntry
  <2>2. pc = "clear" /\ pc' = pc /\ UNCHANGED <<plan, attempt, work>>
    BY <1>7r DEF RemoveEntry
  <2>3. DOMAIN files' = FileNames /\ (NoScore => NoScore')
    BY <2>1 DEF FileNames, ValWrite
  <2>4. Used("validator")' <=> Used("validator")
    BY <2>2 DEF Used
  <2> QED BY <2>2, <2>3, <2>4
<1>8. CASE ClearDir
  <2>1. /\ pc = "clear" /\ work' = Tail(work) /\ UNCHANGED <<plan, attempt, files>>
        /\ pc' \in {"clear", "emit", "unwind"}
        /\ pc' # "unwind" => (pc' = "emit" <=> work' = <<>>)
        /\ pc' = "emit" /\ Len(work) = 1 => \A f \in Head(work) : files[f] = {}
    BY <1>8 DEF ClearDir
  <2>2. /\ Len(work) \in Nat \ {0} /\ Head(work) = work[1] /\ Tail(work) \in Seq(SUBSET FileNames)
        /\ Tail(work) = <<>> => Len(work) = 1
        /\ Tail(work) # <<>> => Tail(work)[Len(Tail(work))] = work[Len(work)]
    BY <2>1, LastOfTail
  <2>5. DOMAIN files' = FileNames /\ (NoScore => NoScore')
    BY <2>1
  <2>6. Used("validator") /\ Len(work) = 1 /\ pc' = "emit" => NoScore'
    <3>1. Used("validator") /\ Len(work) = 1 => Head(work) = ValWrite
      BY <2>1, <2>2
    <3> QED BY <2>1, <3>1 DEF FileNames, ValWrite
  <2>7. Linking' /\ Clearing'
    <3>1. Used("validator")' => Used("validator")
      BY <2>1 DEF Used
    <3>2. Used("validator") => work[Len(work)] = ValWrite
      BY <2>1
    <3>3. pc' = "clear" => work' = Tail(work) /\ Tail(work) # <<>>
      BY <2>1
    <3>4. Clearing'
      BY <2>2, <3>1, <3>2, <3>3
    <3>5. pc' \notin {"link", "vlink", "ilink"}
      BY <2>1
    <3> QED BY <3>4, <3>5
  <2>8. attempt' = 1 /\ pc' \notin {"clear", "unwind", "over", "crashed"} => NoScore'
    <3>1. attempt = 1 => NoScore \/ Used("validator")
      BY <2>1
    <3> HIDE DEF NoScore, Linking, Clearing, ScoreSync
    <3>2. attempt' = attempt /\ pc' \in {"clear", "emit", "unwind"}
      BY <2>1
    <3>3. pc' = "emit" => Len(work) = 1
      BY <2>1, <2>2
    <3> QED BY <2>5, <2>6, <3>1, <3>2, <3>3
  <2>9. attempt' = 1 /\ pc' = "clear" => NoScore' \/ Used("validator")'
    BY <2>1, <2>5 DEF Used
  <2> QED BY <2>1, <2>5, <2>7, <2>8, <2>9
<1>9. CASE MergeGroup \/ RunGrader
  BY <1>9 DEF MergeGroup, RunGrader, EmitGroup, AllDone, SandboxFails, Abort
<1>10. CASE RunDeferred \/ Return \/ JudgeCrash
  BY <1>10 DEF RunDeferred, Return, JudgeCrash
<1>11. CASE Over \/ UNCHANGED vars
  BY <1>11 DEF Over, vars, Used
<1>12. CASE Retry
  BY <1>12 DEF Retry
<1> QED BY <1>1, <1>2, <1>2i, <1>3, <1>4, <1>5, <1>6, <1>7, <1>7r, <1>8, <1>9, <1>10, <1>11, <1>12
        DEF Next, EvaluatorNext

(* The score file a validator leaves is not read for a later case           *)
(* (filelinker.go 71-82, eval.go 578-585), whether it was read for its own. *)
THEOREM ScoreIsOfThisCase == Spec => []ScoreIsFresh
<1>1. ScoreSync => ScoreIsFresh
  BY DEF ScoreSync, ScoreIsFresh, NoScore
<1> QED BY <1>1, ScoreStart, ScoreStep, PTL DEF Spec
-----------------------------------------------------------------------------
(* The root's frame is the last of the stack and nobody's child, so that its *)
(* result is sent once, as the last one, by the step that ends the walk.    *)
IsFrame(f) == f = [group |-> f.group, todo |-> f.todo, res |-> f.res]
IsFresh(f) == IsFrame(f) /\ f.group \in Groups /\ plan.root \notin f.todo

Frames(s) ==
    \A i \in 1 .. Len(s) : IsFresh(s[i]) /\ (s[i].group = plan.root <=> i = Len(s))
IsStack(s) == Frames(s) /\ \E S : s \in Seq(S)

LEMMA StackTop ==
    ASSUME NEW s, IsStack(s), s # <<>>
    PROVE  /\ IsFresh(Head(s)) /\ IsStack(Tail(s)) /\ Head(s) = s[1]
           /\ Head(s).group = plan.root <=> Tail(s) = <<>>
           /\ Len(s) = 1 <=> Tail(s) = <<>>
           /\ Tail(s) # <<>> => s[2] = Head(Tail(s))
<1> PICK S : s \in Seq(S)
  BY DEF IsStack
<1>1. /\ Len(s) \in Nat \ {0} /\ Head(s) = s[1] /\ Tail(s) \in Seq(S)
      /\ Len(Tail(s)) = Len(s) - 1
      /\ \A i \in 1 .. Len(s) - 1 : Tail(s)[i] = s[i + 1]
  BY HeadTailProperties
<1>2. Tail(s) = <<>> <=> Len(s) = 1
  BY <1>1, EmptySeq
<1>3. Tail(s) # <<>> => Head(Tail(s)) = Tail(s)[1] /\ 1 \in 1 .. Len(s) - 1
  BY <1>1, <1>2
<1>0. Frames(s)
  BY DEF IsStack
<1>4. IsFresh(s[1]) /\ (s[1].group = plan.root <=> 1 = Len(s))
  <2>1. 1 \in 1 .. Len(s)
    BY <1>1
  <2> QED BY <1>0, <2>1 DEF Frames
<1>5. ASSUME NEW i \in 1 .. Len(Tail(s))
      PROVE  IsFresh(Tail(s)[i]) /\ (Tail(s)[i].group = plan.root <=> i = Len(Tail(s)))
  <2>1. i + 1 \in 1 .. Len(s) /\ Tail(s)[i] = s[i + 1]
    BY <1>1
  <2>2. IsFresh(s[i + 1]) /\ (s[i + 1].group = plan.root <=> i + 1 = Len(s))
    BY <1>0, <2>1 DEF Frames
  <2>3. i + 1 = Len(s) <=> i = Len(Tail(s))
    BY <1>1
  <2> QED BY <2>1, <2>2, <2>3
<1>6. IsStack(Tail(s))
  BY <1>1, <1>5 DEF IsStack, Frames
<1> QED BY <1>1, <1>2, <1>3, <1>4, <1>6

LEMMA StackPush ==
    ASSUME NEW t, IsStack(t), NEW f, IsFresh(f), f.group = plan.root <=> t = <<>>
    PROVE  IsStack(<<f>> \o t) /\ <<f>> \o t # <<>>
<1> PICK T : t \in Seq(T)
  BY DEF IsStack
<1> DEFINE S == T \cup {f}
           s == <<f>> \o t
<1>1. <<f>> \in Seq(S) /\ t \in Seq(S) /\ Len(<<f>>) = 1 /\ <<f>>[1] = f
  OBVIOUS
<1> HIDE DEF S
<1>2. /\ s \in Seq(S) /\ Len(s) = 1 + Len(t) /\ Len(t) \in Nat
      /\ \A i \in 1 .. 1 + Len(t) : s[i] = IF i <= 1 THEN f ELSE t[i - 1]
  BY <1>1, ConcatProperties
<1> HIDE DEF s
<1>3. t = <<>> <=> Len(t) = 0
  BY <1>1, EmptySeq
<1>4. ASSUME NEW i \in 1 .. Len(s)
      PROVE  IsFresh(s[i]) /\ (s[i].group = plan.root <=> i = Len(s))
  <2>1. CASE i = 1
    BY <1>2, <1>3, <2>1
  <2>2. CASE i # 1
    <3>1. i - 1 \in 1 .. Len(t) /\ s[i] = t[i - 1]
      BY <1>2, <2>2
    <3> QED BY <1>2, <3>1 DEF IsStack, Frames
  <2> QED BY <2>1, <2>2
<1>5. s # <<>>
  BY <1>2, EmptySeq
<1> QED BY <1>2, <1>4, <1>5 DEF IsStack, Frames, s

LEMMA FrameOps ==
    ASSUME NEW f, IsFresh(f), NEW r, NEW x
    PROVE  /\ IsFresh(Without(f, x)) /\ Without(f, x).group = f.group
           /\ IsFresh(WithResult(f, r)) /\ WithResult(f, r).group = f.group
<1> USE DEF IsFresh, IsFrame
<1>1. IsFresh(Without(f, x)) /\ Without(f, x).group = f.group
  BY DEF Without
<1>2. \E T \in {{}, f.todo} : WithResult(f, r) = [f EXCEPT !.res = Append(f.res, r), !.todo = T]
  BY DEF WithResult
<1>3. IsFresh(WithResult(f, r)) /\ WithResult(f, r).group = f.group
  BY <1>2
<1> QED BY <1>1, <1>3

LEMMA SentGrows ==
    ASSUME NEW R, received \in Seq(R), NEW r, received' = Append(received, r)
    PROVE  Sent' = Sent \cup {r.item} /\ received' \in Seq(R \cup {r})
<1> DEFINE n == Len(received)
<1>1. /\ received' \in Seq(R \cup {r}) /\ n \in Nat /\ Len(received') = n + 1
      /\ \A i \in 1 .. n : received'[i] = received[i]
      /\ received'[n + 1] = r
  OBVIOUS
<1> HIDE DEF n
<1>2. Sent' = {received'[i].item : i \in 1 .. n + 1} /\ Sent = {received[i].item : i \in 1 .. n}
  BY <1>1 DEF Sent, n
<1> QED BY <1>1, <1>2

InCase == {"link", "run", "diff", "vlink", "validate", "ilink", "interact", "clear", "emit"}

RootSync ==
    /\ ScoreSync
    /\ \E R : received \in Seq(R)
    /\ pc \in {"begin", "start"} => err = "none" /\ plan.root \notin Sent
    /\ pc \in Walking => IsStack(stack) /\ stack # <<>> /\ plan.root \notin Sent
    /\ pc \in Walking \ {"clear"} => err = "none"
    /\ pc \in InCase => "item" \in DOMAIN cur /\ cur.item \in Cases
    /\ pc \in {"unwind", "over"} => (err = "none" <=> plan.root \in Sent)

LEMMA RootStart == Init => RootSync
<1> SUFFICES ASSUME Init PROVE RootSync
  OBVIOUS
<1>1. received = <<>> /\ Sent = {} /\ <<>> \in Seq({})
  BY DEF Init, Sent
<1> QED BY <1>1, ScoreStart DEF Init, RootSync, Walking, InCase

(* An interactive case ends with an error, or is judged on the files linked *)
(* for it; the validator may have left a score.                             *)
InteractiveFrom ==
    [input |-> files["v.input"], output |-> files["output"],
     answer |-> files["v.judge_answer"], flags |-> Attr(Top.group).flags]

LEMMA InteractiveEnds ==
    ASSUME RunInteractive
    PROVE  /\ pc = "interact" /\ UNCHANGED <<callVars, cache, received>>
           /\ \E scores : files' = [files EXCEPT !["v.score"] = scores]
           /\ \/ Abort("error") /\ UNCHANGED <<cur, work>>
              \/ UNCHANGED sb /\ \E v \in Verdicts : \E score : Judged(v, score, InteractiveFrom)
<1>1. PICK scores :
        /\ files' = [files EXCEPT !["v.score"] = scores]
        /\ \/ /\ \E said \in {"AC", "WA"} : \E v \in {said, "RTE", "TLE"} :
                    IF ValidatorScore(said, scores) = Unparsable
                    THEN Abort("error") /\ UNCHANGED <<cur, work>>
                    ELSE Judged(v, IF v = said THEN ValidatorScore(v, scores) ELSE Attr(Top.group).reject,
                                InteractiveFrom)
              /\ UNCHANGED sb
           \/ Abort("error") /\ UNCHANGED <<cur, work>>
  BY Zenon DEF RunInteractive, InteractiveFrom
<1>2. ASSUME NEW said \in {"AC", "WA"}, NEW v \in {said, "RTE", "TLE"},
             ~(Abort("error") /\ UNCHANGED <<cur, work>>),
             IF ValidatorScore(said, scores) = Unparsable
             THEN Abort("error") /\ UNCHANGED <<cur, work>>
             ELSE Judged(v, IF v = said THEN ValidatorScore(v, scores) ELSE Attr(Top.group).reject,
                         InteractiveFrom)
      PROVE  \E w \in Verdicts : \E score : Judged(w, score, InteractiveFrom)
  <2>1. v \in Verdicts
    BY DEF Verdicts
  <2>2. Judged(v, IF v = said THEN ValidatorScore(v, scores) ELSE Attr(Top.group).reject, InteractiveFrom)
    BY <1>2, Zenon
  <2> QED BY <2>1, <2>2, Zenon
<1>3. pc = "interact" /\ UNCHANGED <<callVars, cache, received>>
  BY Zenon DEF RunInteractive
<1> QED BY <1>1, <1>2, <1>3, Zenon

(* The steps within a case change neither the stack nor what was sent, *)
(* unless they end the walk with an error. *)
LEMMA CaseKeeps ==
    ASSUME StartCase \/ StartInteractive \/ LinkFile \/ RunProgram \/ DiffOutput \/ RunValidator \/ RunInteractive,
           pc \in InCase => "item" \in DOMAIN cur /\ cur.item \in Cases
    PROVE  /\ UNCHANGED <<plan, received>>
           /\ pc \in Walking \ {"clear"} /\ pc' \in Walking \cup {"unwind"}
           /\ \/ pc' \in Walking /\ UNCHANGED <<stack, err>>
              \/ pc' = "unwind" /\ err' # "none"
           /\ pc' \in InCase => "item" \in DOMAIN cur' /\ cur'.item \in Cases'
<1> USE DEF callVars, caseVars, Walking, InCase, Abort
<1>0. plan' = plan => Cases' = Cases
  BY DEF Cases, Items, Groups
<1>1. ASSUME NEW v, NEW score, NEW from, "item" \in DOMAIN cur,
             cur' = [cur EXCEPT !.verdict = v, !.score = score, !.from = from]
      PROVE  "item" \in DOMAIN cur' /\ cur'.item = cur.item
  BY <1>1
<1>2. CASE StartCase
  BY <1>0, <1>2 DEF StartCase, NoCase
<1>2i. CASE StartInteractive
  BY <1>0, <1>2i DEF StartInteractive, NoCase
<1>3. CASE LinkFile
  BY <1>0, <1>3 DEF LinkFile, AfterLinks
<1>4. CASE RunProgram
  BY <1>0, <1>1, <1>4 DEF RunProgram, Judged, SandboxFails
<1>5. CASE DiffOutput
  BY <1>0, <1>1, <1>5 DEF DiffOutput, Judged
<1>6. CASE RunValidator
  BY <1>0, <1>1, <1>6 DEF RunValidator, Judged, SandboxFails
<1>7. CASE RunInteractive
  <2>1. pc = "interact" /\ UNCHANGED <<plan, received>>
    BY <1>7, InteractiveEnds
  <2>2. CASE Abort("error")
    BY <2>1, <2>2
  <2>3. CASE \E v \in Verdicts : \E score : Judged(v, score, InteractiveFrom)
    <3>1. PICK v, score : Judged(v, score, InteractiveFrom)
      BY <2>3
    <3>2. pc' = "clear" /\ UNCHANGED <<stack, err>>
      BY <3>1 DEF Judged
    <3>3. cur' = [cur EXCEPT !.verdict = v, !.score = score, !.from = InteractiveFrom]
      BY <3>1, Zenon DEF Judged
    <3> HIDE DEF InteractiveFrom
    <3>4. "item" \in DOMAIN cur /\ cur.item \in Cases
      BY <2>1
    <3> QED BY <1>0, <1>1, <2>1, <3>2, <3>3, <3>4
  <2> QED BY <1>7, <2>2, <2>3, InteractiveEnds, Zenon
<1> QED BY <1>2, <1>2i, <1>3, <1>4, <1>5, <1>6, <1>7

(* A result counted in the top frame. *)
LEMMA StackCounted ==
    ASSUME IsStack(stack), stack # <<>>, plan' = plan, NEW x, NEW r,
           stack' = <<WithResult(Without(Top, x), r)>> \o Tail(stack)
    PROVE  IsStack(stack)' /\ stack' # <<>>
<1> DEFINE f == WithResult(Without(Top, x), r)
           t == Tail(stack)
<1>1. IsFresh(Top) /\ IsStack(t) /\ (Top.group = plan.root <=> t = <<>>)
  BY StackTop DEF Top
<1>2. IsFresh(Without(Top, x)) /\ Without(Top, x).group = Top.group
  BY <1>1, FrameOps
<1>3. IsFresh(f) /\ f.group = Top.group
  BY <1>2, FrameOps
<1> HIDE DEF f, t
<1>4. IsStack(<<f>> \o t) /\ <<f>> \o t # <<>>
  BY <1>1, <1>3, StackPush
<1> QED BY <1>4 DEF IsStack, Frames, IsFresh, IsFrame, Groups, f, t

(* What MergeGroup and RunGrader send. *)
LEMMA GroupSent ==
    ASSUME RootSync, pc \in Walking, plan' = plan, NEW v, NEW score, EmitGroup(v, score)
    PROVE  /\ err' = err /\ \E R : received' \in Seq(R)
           /\ \/ pc' = "unwind" /\ plan.root \in Sent'
              \/ pc' = "next" /\ IsStack(stack)' /\ stack' # <<>> /\ plan.root \notin Sent'
<1> DEFINE r == [NoCase EXCEPT !.item = Top.group, !.verdict = v, !.score = score]
<1>1. IsStack(stack) /\ stack # <<>> /\ plan.root \notin Sent
  BY DEF RootSync
<1>2. r.item = Top.group /\ received' = Append(received, r) /\ err' = err
  BY DEF EmitGroup, NoCase
<1>3. PICK R : received \in Seq(R)
  BY DEF RootSync
<1> HIDE DEF r
<1>4. Sent' = Sent \cup {Top.group} /\ received' \in Seq(R \cup {r})
  BY <1>2, <1>3, SentGrows
<1>5. /\ IsFresh(Top) /\ IsStack(Tail(stack))
      /\ Top.group = plan.root <=> Tail(stack) = <<>>
      /\ Len(stack) = 1 <=> Tail(stack) = <<>>
      /\ Tail(stack) # <<>> => stack[2] = Head(Tail(stack))
  BY <1>1, StackTop DEF Top
<1>6. CASE Tail(stack) = <<>>
  <2>1. pc' = "unwind"
    BY <1>5, <1>6 DEF EmitGroup
  <2> QED BY <1>2, <1>4, <1>5, <1>6, <2>1
<1>7. CASE Tail(stack) # <<>>
  <2> DEFINE f == WithResult(stack[2], r)
             t == Tail(Tail(stack))
  <2>1. stack' = <<f>> \o t /\ pc' = "next"
    BY <1>5, <1>7 DEF EmitGroup, r
  <2>2. /\ IsFresh(stack[2]) /\ IsStack(t)
        /\ stack[2].group = plan.root <=> t = <<>>
    BY <1>5, <1>7, StackTop
  <2>3. IsFresh(f) /\ f.group = stack[2].group
    BY <2>2, FrameOps
  <2> HIDE DEF f, t
  <2>4. IsStack(<<f>> \o t) /\ <<f>> \o t # <<>>
    BY <2>2, <2>3, StackPush
  <2>5. IsStack(stack)' /\ stack' # <<>>
    BY <2>1, <2>4 DEF IsStack, Frames, IsFresh, IsFrame, Groups
  <2> QED BY <1>1, <1>2, <1>4, <1>5, <1>7, <2>1, <2>5
<1> QED BY <1>6, <1>7

LEMMA RootStep == RootSync /\ [Next]_vars => RootSync'
<1> SUFFICES ASSUME RootSync, [Next]_vars PROVE RootSync'
  OBVIOUS
<1>0. ScoreSync /\ ScoreSync' /\ BoxSync /\ DeferSync /\ plan \in Plans
  BY ScoreStep DEF RootSync, ScoreSync, BoxSync
<1>a. UNCHANGED <<plan, received>> =>
        /\ (\E R : received \in Seq(R))'
        /\ (plan.root \in Sent)' <=> plan.root \in Sent
        /\ Cases' = Cases
  BY DEF RootSync, Sent, Cases, Items, Groups
<1>b. UNCHANGED <<plan, stack>> => (IsStack(stack)' <=> IsStack(stack))
  BY DEF IsStack, Frames, IsFresh, IsFrame, Groups
<1> USE <1>0 DEF callVars, caseVars
<1>1. CASE ResetPermissions \/ StartSandbox
  <2>1. /\ pc \in {"begin", "start"} /\ UNCHANGED <<plan, received>>
        /\ \/ pc' = "start" /\ err' = err
           \/ pc' = "unwind" /\ err' = "error"
    BY <1>1 DEF ResetPermissions, StartSandbox, Abort
  <2> QED BY <1>a, <2>1 DEF RootSync, Walking, InCase
<1>2. CASE EnterRoot
  <2>1. /\ pc = "start" /\ pc' = "next" /\ UNCHANGED <<plan, received, err>>
        /\ stack' = <<Frame(plan.root)>>
    BY <1>2 DEF EnterRoot
  <2>2. IsFresh(Frame(plan.root)) /\ Frame(plan.root).group = plan.root
    BY EvaluatorAssumption DEF Frame, IsFresh, IsFrame, Groups
  <2> DEFINE f == Frame(plan.root)
  <2> HIDE DEF f
  <2>3. IsStack(<<f>>) /\ <<f>> # <<>>
    <3>1. <<f>> \in Seq({f}) /\ Len(<<f>>) = 1 /\ <<f>>[1] = f
      OBVIOUS
    <3>2. IsFresh(f) /\ f.group = plan.root
      BY <2>2 DEF f
    <3>3. Frames(<<f>>)
      BY <3>1, <3>2 DEF Frames
    <3>4. \E S : <<f>> \in Seq(S)
      BY <3>1
    <3> QED BY <3>3, <3>4 DEF IsStack
  <2>4. IsStack(stack)' /\ stack' # <<>>
    BY <2>1, <2>3 DEF IsStack, Frames, IsFresh, IsFrame, Groups, f
  <2> QED BY <1>a, <2>1, <2>4 DEF RootSync, Walking, InCase
<1>3. CASE EnterGroup
  <2>1. PICK x \in Groups :
            /\ x \in Top.todo /\ stack' = <<Frame(x), Without(Top, x)>> \o Tail(stack)
            /\ pc = "next" /\ pc' = pc /\ UNCHANGED <<plan, received, err>>
    BY <1>3 DEF EnterGroup, IsNext
  <2>2. IsStack(stack) /\ stack # <<>>
    BY <2>1 DEF RootSync, Walking
  <2> DEFINE t == Tail(stack)
             w == Without(Top, x)
             f == Frame(x)
  <2>3. IsFresh(Top) /\ IsStack(t) /\ (Top.group = plan.root <=> t = <<>>)
    BY <2>2, StackTop DEF Top
  <2>4. IsFresh(w) /\ w.group = Top.group
    BY <2>3, FrameOps
  <2>5. x # plan.root
    BY <2>1, <2>3 DEF IsFresh
  <2>6. IsFresh(f) /\ f.group = x
    BY EvaluatorAssumption DEF Frame, IsFresh, IsFrame, Groups
  <2>7. stack' = <<f, w>> \o t
    BY <2>1
  <2> HIDE DEF t, w, f
  <2>8. IsStack(<<w>> \o t) /\ <<w>> \o t # <<>>
    BY <2>3, <2>4, StackPush
  <2>9. IsStack(<<f>> \o (<<w>> \o t)) /\ <<f>> \o (<<w>> \o t) # <<>>
    BY <2>5, <2>6, <2>8, StackPush
  <2>10. <<f, w>> \o t = <<f>> \o (<<w>> \o t)
    <3>1. PICK T : t \in Seq(T)
      BY <2>3 DEF IsStack
    <3> DEFINE S == T \cup {f, w}
    <3>2. <<f>> \in Seq(S) /\ <<w>> \in Seq(S) /\ t \in Seq(S) /\ <<f, w>> = <<f>> \o <<w>>
      BY <3>1
    <3> HIDE DEF S
    <3>3. (<<f>> \o <<w>>) \o t = <<f>> \o (<<w>> \o t)
      BY <3>2, ConcatAssociative
    <3> QED BY <3>2, <3>3, Zenon
  <2>11. IsStack(stack)' /\ stack' # <<>>
    BY <2>1, <2>7, <2>9, <2>10 DEF IsStack, Frames, IsFresh, IsFrame, Groups
  <2> QED BY <1>a, <2>1, <2>11 DEF RootSync, Walking, InCase
<1>4. CASE ReuseCase
  <2>1. PICK x, r :
            /\ stack' = <<WithResult(Without(Top, x), r)>> \o Tail(stack)
            /\ pc = "next" /\ pc' = pc /\ UNCHANGED <<plan, received, err>>
    BY <1>4 DEF ReuseCase
  <2>2. IsStack(stack)' /\ stack' # <<>>
    BY <2>1, StackCounted DEF RootSync, Walking
  <2> QED BY <1>a, <2>1, <2>2 DEF RootSync, Walking, InCase
<1>5. CASE EmitCase
  <2>1. /\ stack' = <<WithResult(Without(Top, cur.item), cur)>> \o Tail(stack)
        /\ pc = "emit" /\ pc' = "next" /\ UNCHANGED <<plan, err>>
        /\ received' \in {received, Append(received, cur)}
    BY <1>5 DEF EmitCase
  <2>2. IsStack(stack)' /\ stack' # <<>>
    BY <2>1, StackCounted DEF RootSync, Walking
  <2>3. plan.root # cur.item
    BY <2>1, EvaluatorAssumption DEF RootSync, InCase, Cases, Groups
  <2>4. PICK R : received \in Seq(R)
    BY DEF RootSync
  <2>5. CASE received' = Append(received, cur)
    <3>1. Sent' = Sent \cup {cur.item} /\ received' \in Seq(R \cup {cur})
      BY <2>4, <2>5, SentGrows
    <3> QED BY <2>1, <2>2, <2>3, <3>1 DEF RootSync, Walking, InCase
  <2>6. CASE received' = received
    BY <1>a, <2>1, <2>2, <2>6 DEF RootSync, Walking, InCase
  <2> QED BY <2>1, <2>5, <2>6
<1>6. CASE StartCase \/ StartInteractive \/ LinkFile \/ RunProgram \/ DiffOutput \/ RunValidator \/ RunInteractive
  <2>1. /\ UNCHANGED <<plan, received>>
        /\ pc \in Walking \ {"clear"} /\ pc' \in Walking \cup {"unwind"}
        /\ \/ pc' \in Walking /\ UNCHANGED <<stack, err>>
           \/ pc' = "unwind" /\ err' # "none"
        /\ pc' \in InCase => "item" \in DOMAIN cur' /\ cur'.item \in Cases'
    BY <1>6, CaseKeeps DEF RootSync
  <2> QED BY <1>a, <1>b, <2>1 DEF RootSync, Walking
<1>7. CASE ClearDir
  <2>1. /\ UNCHANGED <<plan, received, cur>> /\ pc = "clear"
        /\ \/ pc' = "clear" /\ stack' = stack
           \/ pc' = "unwind" /\ err' # "none"
           \/ pc' = "emit" /\ stack' = stack /\ Tail(work) = <<>>
    BY <1>7 DEF ClearDir
  <2>3. pc' = "emit" /\ Len(work) = 1 => err' = "none"
    BY <1>7 DEF ClearDir
  <2>2. Tail(work) = <<>> => Len(work) = 1
    BY <2>1, LastOfTail DEF ScoreSync, Clearing
  <2> QED BY <1>a, <1>b, <2>1, <2>2, <2>3 DEF RootSync, Walking, InCase
<1>8. CASE MergeGroup
  <2>1. /\ pc = "next" /\ UNCHANGED plan
        /\ \/ UNCHANGED received /\ pc' = "unwind" /\ err' = "panic"
           \/ UNCHANGED <<received, stack, err>> /\ pc' = "grade"
           \/ \E v, score : EmitGroup(v, score)
    BY <1>8 DEF MergeGroup, AllDone, Abort
  <2>2. CASE \E v, score : EmitGroup(v, score)
    BY <2>1, <2>2, GroupSent DEF RootSync, Walking, InCase
  <2>3. CASE ~\E v, score : EmitGroup(v, score)
    BY <1>a, <1>b, <2>1, <2>3 DEF RootSync, Walking, InCase
  <2> QED BY <2>2, <2>3
<1>9. CASE RunGrader
  <2>1. /\ pc = "grade" /\ UNCHANGED plan
        /\ \/ UNCHANGED received /\ pc' = "unwind" /\ err' = "error"
           \/ \E v, score : EmitGroup(v, score)
    BY <1>9 DEF RunGrader, SandboxFails, Abort
  <2>2. CASE \E v, score : EmitGroup(v, score)
    BY <2>1, <2>2, GroupSent DEF RootSync, Walking, InCase
  <2>3. CASE ~\E v, score : EmitGroup(v, score)
    BY <1>a, <2>1, <2>3 DEF RootSync, Walking, InCase
  <2> QED BY <2>2, <2>3
<1>10. CASE RunDeferred \/ Return \/ JudgeCrash
  <2>1. /\ UNCHANGED <<plan, received, err>> /\ pc' \in {"unwind", "over", "crashed"}
        /\ pc' # "crashed" => pc = "unwind"
    BY <1>10 DEF RunDeferred, Return, JudgeCrash
  <2> QED BY <1>a, <2>1 DEF RootSync, Walking, InCase
<1>11. CASE RemoveEntry \/ Over \/ UNCHANGED vars
  <2>1. UNCHANGED <<plan, received, stack, err, pc, cur>>
    BY <1>11 DEF RemoveEntry, Over, vars
  <2> QED BY <1>a, <1>b, <2>1 DEF RootSync
<1>12. CASE Retry
  <2>1. pc' = "begin" /\ err' = "none" /\ received' = <<>> /\ plan' = plan
    BY <1>12 DEF Retry
  <2>2. Sent' = {} /\ <<>> \in Seq({})
    BY <2>1 DEF Sent
  <2> QED BY <2>1, <2>2 DEF RootSync, Walking, InCase
<1> QED BY <1>1, <1>2, <1>3, <1>4, <1>5, <1>6, <1>7, <1>8, <1>9, <1>10, <1>11, <1>12
        DEF Next, EvaluatorNext

(* Evaluate returns no error exactly if the root's result was sent (eval.go  *)
(* 196-198, 408): no way out of the walk loses an error or the result.      *)
THEOREM NoErrorMeansRootSent == Spec => []SuccessMeansRootSent
<1>1. RootSync => SuccessMeansRootSent
  BY DEF RootSync, SuccessMeansRootSent
<1> QED BY <1>1, RootStart, RootStep, PTL DEF Spec

-----------------------------------------------------------------------------
(* The stack and what was sent make a walk over the tree, in post-order.     *)
(*                                                                          *)
(* What the three changes of the stack do to its frames: one is replaced, a  *)
(* child's is put on top, a parent's is left on top. *)
Put(s, f) == <<f>> \o Tail(s)
Push(s, f, w) == <<f, w>> \o Tail(s)
Drop(s, f) == <<f>> \o Tail(Tail(s))

LEMMA StackShapes ==
    ASSUME NEW S, NEW s \in Seq(S), s # <<>>, NEW f
    PROVE  /\ Len(s) \in Nat \ {0} /\ Head(s) = s[1]
           /\ \E T : Put(s, f) \in Seq(T)
           /\ Len(Put(s, f)) = Len(s) /\ Put(s, f)[1] = f
           /\ \A i \in 2 .. Len(s) : Put(s, f)[i] = s[i]
           /\ Len(s) > 1 => \E T : Drop(s, f) \in Seq(T)
           /\ Len(s) > 1 => Len(Drop(s, f)) = Len(s) - 1 /\ Drop(s, f)[1] = f
           /\ Len(s) > 1 => \A i \in 2 .. Len(s) - 1 : Drop(s, f)[i] = s[i + 1]
<1> DEFINE T == S \cup {f}
           n == Len(s)
           a == <<f>>
           u == Tail(s)
           v == Tail(u)
<1>1. /\ n \in Nat \ {0} /\ Head(s) = s[1] /\ u \in Seq(S)
      /\ Len(u) = n - 1
      /\ \A i \in 1 .. n - 1 : u[i] = s[i + 1]
  BY HeadTailProperties
<1>2. a \in Seq(T) /\ Len(a) = 1 /\ a[1] = f
  OBVIOUS
<1> HIDE DEF u, n
<1>3. u \in Seq(T)
  <2>1. S \subseteq T
    OBVIOUS
  <2> HIDE DEF T
  <2> QED BY <1>1, <2>1, SeqMonotonic
<1>4. n > 1 => /\ v \in Seq(T) /\ Len(v) = n - 2
               /\ \A i \in 1 .. n - 2 : v[i] = u[i + 1]
  <2>1. n > 1 => u # <<>>
    BY <1>1
  <2>2. u # <<>> => /\ v \in Seq(T) /\ Len(v) = Len(u) - 1
                    /\ \A i \in 1 .. Len(u) - 1 : v[i] = u[i + 1]
    BY <1>3, HeadTailProperties
  <2> QED BY <1>1, <2>1, <2>2
<1> HIDE DEF T, a, v
<1>5. /\ a \o u \in Seq(T) /\ Len(a \o u) = n
      /\ \A i \in 1 .. n : (a \o u)[i] = IF i <= 1 THEN a[i] ELSE u[i - 1]
  <2>1. /\ a \o u \in Seq(T) /\ Len(a \o u) = Len(a) + Len(u)
        /\ \A i \in 1 .. Len(a) + Len(u) : (a \o u)[i] = IF i <= Len(a) THEN a[i] ELSE u[i - Len(a)]
    BY <1>2, <1>3, ConcatProperties
  <2> QED BY <1>1, <1>2, <2>1
<1>7. n > 1 => /\ a \o v \in Seq(T) /\ Len(a \o v) = n - 1
               /\ \A i \in 1 .. n - 1 : (a \o v)[i] = IF i <= 1 THEN a[i] ELSE v[i - 1]
  <2> SUFFICES ASSUME n > 1
               PROVE  /\ a \o v \in Seq(T) /\ Len(a \o v) = n - 1
                      /\ \A i \in 1 .. n - 1 : (a \o v)[i] = IF i <= 1 THEN a[i] ELSE v[i - 1]
    OBVIOUS
  <2>0. v \in Seq(T)
    BY <1>4
  <2>1. /\ a \o v \in Seq(T) /\ Len(a \o v) = Len(a) + Len(v)
        /\ \A i \in 1 .. Len(a) + Len(v) : (a \o v)[i] = IF i <= Len(a) THEN a[i] ELSE v[i - Len(a)]
    BY <1>2, <2>0, ConcatProperties
  <2>2. Len(a) + Len(v) = n - 1
    BY <1>1, <1>2, <1>4
  <2> QED BY <1>2, <2>1, <2>2
<1>8. (a \o u)[1] = f /\ \A i \in 2 .. n : (a \o u)[i] = s[i]
  <2>1. \A i \in 2 .. n : i - 1 \in 1 .. n - 1 /\ (i - 1) + 1 = i
    BY <1>1
  <2> QED BY <1>1, <1>2, <1>5, <2>1
<1>10. n > 1 => (a \o v)[1] = f /\ \A i \in 2 .. n - 1 : (a \o v)[i] = s[i + 1]
  <2>1. \A i \in 2 .. n - 1 : i - 1 \in 1 .. n - 2 /\ (i - 1) + 1 = i /\ i \in 1 .. n - 1
    BY <1>1
  <2> QED BY <1>1, <1>2, <1>4, <1>7, <2>1
<1>11. a \o u = Put(s, f) /\ a \o v = Drop(s, f)
  BY DEF a, u, v, Put, Drop
<1>12. /\ Len(s) = n
       /\ \E X : Put(s, f) \in Seq(X)
       /\ Len(s) > 1 => \E X : Drop(s, f) \in Seq(X)
  BY <1>5, <1>7, <1>11 DEF n
<1> HIDE DEF n
<1> QED BY <1>1, <1>5, <1>7, <1>8, <1>10, <1>11, <1>12

LEMMA PushShape ==
    ASSUME NEW S, NEW s \in Seq(S), s # <<>>, NEW f, NEW w
    PROVE  /\ Len(s) \in Nat \ {0}
           /\ \E T : Push(s, f, w) \in Seq(T)
           /\ Len(Push(s, f, w)) = Len(s) + 1
           /\ Push(s, f, w)[1] = f /\ Push(s, f, w)[2] = w
           /\ \A i \in 3 .. Len(s) + 1 : Push(s, f, w)[i] = s[i - 1]
<1> DEFINE T == S \cup {f, w}
           n == Len(s)
           b == <<f, w>>
           u == Tail(s)
<1>1. /\ n \in Nat \ {0} /\ Head(s) = s[1] /\ u \in Seq(S)
      /\ Len(u) = n - 1
      /\ \A i \in 1 .. n - 1 : u[i] = s[i + 1]
  BY HeadTailProperties
<1>2. b \in Seq(T) /\ Len(b) = 2 /\ b[1] = f /\ b[2] = w
  OBVIOUS
<1> HIDE DEF u, n
<1>3. u \in Seq(T)
  <2>1. S \subseteq T
    OBVIOUS
  <2> HIDE DEF T
  <2> QED BY <1>1, <2>1, SeqMonotonic
<1> HIDE DEF T, b
<1>6. /\ b \o u \in Seq(T) /\ Len(b \o u) = n + 1
      /\ \A i \in 1 .. n + 1 : (b \o u)[i] = IF i <= 2 THEN b[i] ELSE u[i - 2]
  <2>1. /\ b \o u \in Seq(T) /\ Len(b \o u) = Len(b) + Len(u)
        /\ \A i \in 1 .. Len(b) + Len(u) : (b \o u)[i] = IF i <= Len(b) THEN b[i] ELSE u[i - Len(b)]
    BY <1>2, <1>3, ConcatProperties
  <2> QED BY <1>1, <1>2, <2>1
<1>9. (b \o u)[1] = f /\ (b \o u)[2] = w /\ \A i \in 3 .. n + 1 : (b \o u)[i] = s[i - 1]
  <2>1. \A i \in 3 .. n + 1 : i - 2 \in 1 .. n - 1 /\ (i - 2) + 1 = i - 1
    BY <1>1
  <2> QED BY <1>1, <1>2, <1>6, <2>1
<1>11. b \o u = Push(s, f, w)
  BY DEF b, u, Push
<1>12. Len(s) = n
  BY DEF n
<1> QED BY <1>1, <1>6, <1>9, <1>11, <1>12

(* The tree of a plan: no group is in two others, and the root in none. *)
IsPlanTree(G, U, root) ==
    /\ \A g \in G : root \notin U[g]
    /\ \A g, h \in G : \A x : x \in U[g] /\ x \in U[h] => g = h

LEMMA PlanTreeFacts ==
    ASSUME NEW G, NEW U, NEW root, IsPlanTree(G, U, root)
    PROVE  /\ \A g \in G : root \notin U[g]
           /\ \A g, h \in G : \A x : x \in U[g] /\ x \in U[h] => g = h
BY DEF IsPlanTree

(* A walk over that tree: s is the stack, sent what was sent. *)
IsWalk(s) == (\E S : s \in Seq(S)) /\ \A i \in 1 .. Len(s) : IsFrame(s[i])
Open(G, U, root, s, sent) ==
    \A i \in 1 .. Len(s) :
        /\ s[i].group \in G /\ s[i].group \notin sent
        /\ \A x \in s[i].todo : x \in U[s[i].group] /\ x \notin sent
        /\ s[i].group = root <=> i = Len(s)
Apart(s) ==
    \A i, j \in 1 .. Len(s) : s[j].group \notin s[i].todo /\ (s[i].group = s[j].group => i = j)
Nested(U, s) == \A i \in 1 .. Len(s) - 1 : s[i].group \in U[s[i + 1].group]

Tree(G, U, root, s, sent) == IsWalk(s) /\ Open(G, U, root, s, sent) /\ Apart(s) /\ Nested(U, s)

(* While it goes on, what was sent is below what is not over. *)
Upward(G, U, root, s, sent) ==
    \A g \in G : \A x \in sent : x \in U[g] => g \in sent \/ \E i \in 1 .. Len(s) : s[i].group = g

LEMMA TreeCounted ==
    ASSUME NEW G, NEW U, NEW root, IsPlanTree(G, U, root),
           NEW s, NEW sent, Tree(G, U, root, s, sent), Upward(G, U, root, s, sent), s # <<>>,
           NEW x, x \in s[1].todo, x \notin G,
           NEW f, IsFrame(f), f.group = s[1].group, \A y \in f.todo : y \in s[1].todo /\ y # x,
           NEW more, more \in {sent, sent \cup {x}}
    PROVE  Tree(G, U, root, Put(s, f), more) /\ Upward(G, U, root, Put(s, f), more)
<1> PICK S : s \in Seq(S)
  BY DEF Tree, IsWalk
<1> DEFINE t == Put(s, f)
           n == Len(s)
<1>1. /\ n \in Nat \ {0}
      /\ \E T : t \in Seq(T)
      /\ Len(t) = n /\ t[1] = f
      /\ \A i \in 2 .. n : t[i] = s[i]
  BY StackShapes
<1> HIDE DEF t, n
<1>w. \A i \in 1 .. n : IsFrame(s[i])
  BY DEF Tree, IsWalk, n
<1>o. \A i \in 1 .. n :
        /\ s[i].group \in G /\ s[i].group \notin sent
        /\ \A y \in s[i].todo : y \in U[s[i].group] /\ y \notin sent
        /\ s[i].group = root <=> i = n
  BY DEF Tree, Open, n
<1>a. \A i, j \in 1 .. n : s[j].group \notin s[i].todo /\ (s[i].group = s[j].group => i = j)
  BY DEF Tree, Apart, n
<1>n. \A i \in 1 .. n - 1 : s[i].group \in U[s[i + 1].group]
  BY DEF Tree, Nested, n
<1>p. \A g, h \in G : \A y : y \in U[g] /\ y \in U[h] => g = h
  BY PlanTreeFacts
<1>2. \A i \in 1 .. n :
        t[i].group = s[i].group /\ \A y \in t[i].todo : y \in s[i].todo /\ (i = 1 => y # x)
  BY <1>1
<1>3. 1 \in 1 .. n /\ x \in U[s[1].group]
  BY <1>1, <1>o
<1>4. \A i \in 1 .. n : x \notin t[i].todo
  BY <1>2, <1>3, <1>o, <1>a, <1>p
<1>5. IsWalk(t)
  BY <1>1, <1>w DEF IsWalk
<1>6. Open(G, U, root, t, more)
  BY <1>1, <1>2, <1>4, <1>o DEF Open
<1>7. Apart(t)
  BY <1>1, <1>2, <1>a DEF Apart
<1>8. Nested(U, t)
  BY <1>1, <1>2, <1>n DEF Nested
<1>9. ASSUME NEW g \in G, NEW y \in more, y \in U[g]
      PROVE  g \in more \/ \E i \in 1 .. n : s[i].group = g
  <2>1. CASE y \in sent
    BY <1>9, <2>1 DEF Upward, n
  <2>2. CASE y = x
    BY <1>3, <1>9, <2>2, <1>o, <1>p
  <2> QED BY <2>1, <2>2
<1>10. Upward(G, U, root, t, more)
  BY <1>1, <1>2, <1>9 DEF Upward
<1> QED BY <1>5, <1>6, <1>7, <1>8, <1>10 DEF Tree, t

LEMMA TreePushed ==
    ASSUME NEW G, NEW U, NEW root, IsPlanTree(G, U, root),
           NEW s, NEW sent, Tree(G, U, root, s, sent), Upward(G, U, root, s, sent), s # <<>>,
           NEW x, x \in s[1].todo, x \in G,
           NEW w, IsFrame(w), w.group = s[1].group, \A y \in w.todo : y \in s[1].todo /\ y # x,
           NEW f, IsFrame(f), f.group = x, f.todo = U[x]
    PROVE  Tree(G, U, root, Push(s, f, w), sent) /\ Upward(G, U, root, Push(s, f, w), sent)
<1> PICK S : s \in Seq(S)
  BY DEF Tree, IsWalk
<1> DEFINE t == Push(s, f, w)
           n == Len(s)
<1>1. /\ n \in Nat \ {0}
      /\ \E T : t \in Seq(T)
      /\ Len(t) = n + 1 /\ t[1] = f /\ t[2] = w
      /\ \A i \in 3 .. n + 1 : t[i] = s[i - 1]
  BY PushShape
<1> HIDE DEF t, n
<1>w. \A i \in 1 .. n : IsFrame(s[i])
  BY DEF Tree, IsWalk, n
<1>o. \A i \in 1 .. n :
        /\ s[i].group \in G /\ s[i].group \notin sent
        /\ \A y \in s[i].todo : y \in U[s[i].group] /\ y \notin sent
        /\ s[i].group = root <=> i = n
  BY DEF Tree, Open, n
<1>a. \A i, j \in 1 .. n : s[j].group \notin s[i].todo /\ (s[i].group = s[j].group => i = j)
  BY DEF Tree, Apart, n
<1>n. \A i \in 1 .. n - 1 : s[i].group \in U[s[i + 1].group]
  BY DEF Tree, Nested, n
<1>p. (\A g \in G : root \notin U[g]) /\ \A g, h \in G : \A y : y \in U[g] /\ y \in U[h] => g = h
  BY PlanTreeFacts
<1>2. \A j \in 2 .. n + 1 :
        /\ j - 1 \in 1 .. n /\ (j - 1 = n <=> j = n + 1)
        /\ IsFrame(t[j]) /\ t[j].group = s[j - 1].group
        /\ \A y \in t[j].todo : y \in s[j - 1].todo /\ (j = 2 => y # x)
  BY <1>1, <1>w
<1>3. 1 \in 1 .. n /\ x \in U[s[1].group] /\ x \notin sent /\ x # root
  BY <1>1, <1>o, <1>p
<1>4. \A j \in 2 .. n + 1 : x \notin t[j].todo
  <2>1. \A i \in 1 .. n : i # 1 => x \notin s[i].todo
    BY <1>3, <1>o, <1>a, <1>p
  <2> QED BY <1>1, <1>2, <2>1
<1>5. \A i \in 1 .. n : s[i].group # x /\ s[i].group \notin U[x]
  <2>1. \A i \in 1 .. n : s[i].group # x
    BY <1>3, <1>a
  <2>2. ASSUME NEW i \in 1 .. n, s[i].group \in U[x] PROVE FALSE
    <3>1. i # n
      BY <2>2, <1>o, <1>p
    <3>2. i \in 1 .. n - 1 /\ i + 1 \in 1 .. n
      BY <1>1, <3>1
    <3>3. s[i].group \in U[s[i + 1].group] /\ s[i + 1].group \in G
      BY <3>2, <1>n, <1>o
    <3>4. s[i + 1].group = x
      BY <2>2, <3>3, <1>p
    <3> QED BY <2>1, <3>2, <3>4
  <2> QED BY <2>1, <2>2
<1>6. \A y \in U[x] : y \notin sent
  BY <1>1, <1>3, <1>5 DEF Upward, n
<1>7. x \notin U[x]
  BY <1>3, <1>5, <1>o, <1>p
<1>8. IsWalk(t)
  BY <1>1, <1>2 DEF IsWalk
<1>9. Open(G, U, root, t, sent)
  <2>1. ASSUME NEW j \in 2 .. n + 1
        PROVE  /\ t[j].group \in G /\ t[j].group \notin sent
               /\ \A y \in t[j].todo : y \in U[t[j].group] /\ y \notin sent
               /\ t[j].group = root <=> j = n + 1
    BY <1>2, <1>o
  <2>2. \A j \in 1 .. n + 1 : j = 1 \/ j \in 2 .. n + 1
    BY <1>1
  <2> QED BY <1>1, <1>3, <1>6, <2>1, <2>2 DEF Open
<1>10. Apart(t)
  <2>1. ASSUME NEW i \in 2 .. n + 1, NEW j \in 2 .. n + 1
        PROVE  t[j].group \notin t[i].todo /\ (t[i].group = t[j].group => i = j)
    <3>1. t[i].group = t[j].group => i - 1 = j - 1
      BY <1>2, <1>a
    <3> QED BY <1>2, <3>1, <1>a
  <2>2. ASSUME NEW i \in 2 .. n + 1
        PROVE  t[i].group \notin t[1].todo /\ t[1].group \notin t[i].todo /\ t[i].group # t[1].group
    <3>1. i - 1 \in 1 .. n /\ t[i].group = s[i - 1].group
      BY <1>2
    <3>2. t[i].group # x /\ t[i].group \notin U[x] /\ x \notin t[i].todo
      BY <1>4, <1>5, <3>1
    <3> QED BY <1>1, <3>2
  <2>3. \A j \in 1 .. n + 1 : j = 1 \/ j \in 2 .. n + 1
    BY <1>1
  <2> QED BY <1>1, <1>7, <2>1, <2>2, <2>3 DEF Apart
<1>11. Nested(U, t)
  <2>1. ASSUME NEW i \in 1 .. n PROVE t[i].group \in U[t[i + 1].group]
    <3>0. i + 1 \in 2 .. n + 1 /\ (i + 1) - 1 = i
      BY <1>1
    <3>1. t[i + 1].group = s[i].group
      BY <1>2, <3>0
    <3>2. CASE i = 1
      BY <1>1, <1>3, <3>1, <3>2
    <3>3. CASE i # 1
      <4>1. i \in 2 .. n + 1 /\ i - 1 \in 1 .. n - 1 /\ (i - 1) + 1 = i
        BY <1>1, <3>3
      <4>2. t[i].group = s[i - 1].group /\ s[i - 1].group \in U[s[i].group]
        BY <1>2, <4>1, <1>n
      <4> QED BY <3>1, <4>2
    <3> QED BY <3>2, <3>3
  <2> QED BY <1>1, <2>1 DEF Nested
<1>12. Upward(G, U, root, t, sent)
  <2>1. ASSUME NEW i \in 1 .. n PROVE i + 1 \in 1 .. n + 1 /\ t[i + 1].group = s[i].group
    <3>1. i + 1 \in 2 .. n + 1 /\ (i + 1) - 1 = i /\ i + 1 \in 1 .. n + 1
      BY <1>1
    <3> QED BY <1>2, <3>1
  <2>2. ASSUME NEW g \in G, NEW y \in sent, y \in U[g]
        PROVE  g \in sent \/ \E i \in 1 .. n + 1 : t[i].group = g
    <3>1. g \in sent \/ \E i \in 1 .. n : s[i].group = g
      BY <2>2 DEF Upward, n
    <3> QED BY <2>1, <3>1
  <2> QED BY <1>1, <2>2 DEF Upward
<1> QED BY <1>8, <1>9, <1>10, <1>11, <1>12 DEF Tree, t

LEMMA TreePopped ==
    ASSUME NEW G, NEW U, NEW root, IsPlanTree(G, U, root),
           NEW s, NEW sent, Tree(G, U, root, s, sent), Upward(G, U, root, s, sent), s # <<>>, Len(s) > 1,
           NEW f, IsFrame(f), f.group = s[2].group, \A y \in f.todo : y \in s[2].todo,
           NEW more, more = sent \cup {s[1].group}
    PROVE  /\ Tree(G, U, root, Drop(s, f), more)
           /\ Upward(G, U, root, Drop(s, f), more)
<1> PICK S : s \in Seq(S)
  BY DEF Tree, IsWalk
<1> DEFINE t == Drop(s, f)
           n == Len(s)
           x == s[1].group
<1>1. /\ n \in Nat \ {0} /\ n > 1
      /\ \E T : t \in Seq(T)
      /\ Len(t) = n - 1 /\ t[1] = f
      /\ \A i \in 2 .. n - 1 : t[i] = s[i + 1]
  BY StackShapes
<1> HIDE DEF t, n
<1>w. \A i \in 1 .. n : IsFrame(s[i])
  BY DEF Tree, IsWalk, n
<1>o. \A i \in 1 .. n :
        /\ s[i].group \in G /\ s[i].group \notin sent
        /\ \A y \in s[i].todo : y \in U[s[i].group] /\ y \notin sent
        /\ s[i].group = root <=> i = n
  BY DEF Tree, Open, n
<1>a. \A i, j \in 1 .. n : s[j].group \notin s[i].todo /\ (s[i].group = s[j].group => i = j)
  BY DEF Tree, Apart, n
<1>n. \A i \in 1 .. n - 1 : s[i].group \in U[s[i + 1].group]
  BY DEF Tree, Nested, n
<1>p. \A g, h \in G : \A y : y \in U[g] /\ y \in U[h] => g = h
  BY PlanTreeFacts
<1>2. \A i \in 1 .. n - 1 :
        /\ i + 1 \in 1 .. n /\ i + 1 # 1 /\ (i = n - 1 <=> i + 1 = n)
        /\ IsFrame(t[i]) /\ t[i].group = s[i + 1].group
        /\ \A y \in t[i].todo : y \in s[i + 1].todo
  BY <1>1, <1>w
<1>3. 1 \in 1 .. n /\ 2 \in 1 .. n /\ 1 \in 1 .. n - 1 /\ x \in U[s[2].group] /\ x \in G /\ s[2].group \in G
  BY <1>1, <1>n, <1>o
<1> HIDE DEF x
<1>4. \A i \in 1 .. n : i # 1 => s[i].group # x
  BY <1>3, <1>a DEF x
<1>5. \A i \in 1 .. n : x \notin s[i].todo
  BY <1>3, <1>a DEF x
<1>6. more = sent \cup {x}
  BY DEF x
<1>7. IsWalk(t)
  BY <1>1, <1>2 DEF IsWalk
<1>8. Open(G, U, root, t, more)
  <2>1. ASSUME NEW i \in 1 .. n - 1
        PROVE  /\ t[i].group \in G /\ t[i].group \notin more
               /\ \A y \in t[i].todo : y \in U[t[i].group] /\ y \notin more
               /\ t[i].group = root <=> i = n - 1
    BY <1>2, <1>4, <1>5, <1>6, <1>o
  <2> QED BY <1>1, <2>1 DEF Open
<1>9. Apart(t)
  <2>1. ASSUME NEW i \in 1 .. n - 1, NEW j \in 1 .. n - 1
        PROVE  t[j].group \notin t[i].todo /\ (t[i].group = t[j].group => i = j)
    <3>1. t[i].group = t[j].group => i + 1 = j + 1
      BY <1>2, <1>a
    <3> QED BY <1>2, <3>1, <1>a
  <2> QED BY <1>1, <2>1 DEF Apart
<1>10. Nested(U, t)
  <2>1. ASSUME NEW i \in 1 .. (n - 1) - 1 PROVE t[i].group \in U[t[i + 1].group]
    <3>1. i \in 1 .. n - 1 /\ i + 1 \in 1 .. n - 1
      BY <1>1
    <3> QED BY <1>2, <3>1, <1>n
  <2> QED BY <1>1, <2>1 DEF Nested
<1>11. ASSUME NEW g \in G, NEW y \in more, y \in U[g]
       PROVE  g \in more \/ \E i \in 1 .. n - 1 : t[i].group = g
  <2>1. g \in more \/ \E i \in 1 .. n : s[i].group = g
    <3>1. CASE y \in sent
      BY <1>6, <1>11, <3>1 DEF Upward, n
    <3>2. CASE y = x
      BY <1>3, <1>11, <3>2, <1>p
    <3> QED BY <1>6, <3>1, <3>2
  <2>2. ASSUME NEW k \in 1 .. n, s[k].group = g, k # 1 PROVE \E i \in 1 .. n - 1 : t[i].group = g
    <3>1. k - 1 \in 1 .. n - 1 /\ (k - 1) + 1 = k
      BY <1>1, <2>2
    <3> QED BY <1>2, <2>2, <3>1
  <2> QED BY <1>6, <2>1, <2>2 DEF x
<1>12. Upward(G, U, root, t, more)
  BY <1>1, <1>11 DEF Upward
<1> QED BY <1>7, <1>8, <1>9, <1>10, <1>12 DEF Tree, t

LEMMA TreeEmpty == ASSUME NEW G, NEW U, NEW root, NEW sent PROVE Tree(G, U, root, <<>>, sent)
<1>1. <<>> \in Seq({}) /\ Len(<<>>) = 0
  OBVIOUS
<1> QED BY <1>1 DEF Tree, IsWalk, Open, Apart, Nested

LEMMA TreeRoot ==
    ASSUME NEW G, NEW U, NEW root, IsPlanTree(G, U, root), root \in G,
           NEW f, IsFrame(f), f.group = root, f.todo = U[root]
    PROVE  Tree(G, U, root, <<f>>, {}) /\ Upward(G, U, root, <<f>>, {})
<1> DEFINE t == <<f>>
<1>1. t \in Seq({f}) /\ Len(t) = 1 /\ t[1] = f
  OBVIOUS
<1> HIDE DEF t
<1>2. IsWalk(t) /\ Nested(U, t)
  BY <1>1 DEF IsWalk, Nested
<1>3. root \notin U[root]
  BY PlanTreeFacts
<1>4. Open(G, U, root, t, {}) /\ Apart(t)
  BY <1>1, <1>3 DEF Open, Apart
<1> QED BY <1>2, <1>4 DEF Tree, Upward, t

(* What the walk sends was not sent before, and nor was what it is below. *)
LEMMA TreeSends ==
    ASSUME NEW G, NEW U, NEW root, IsPlanTree(G, U, root),
           NEW s, NEW sent, Tree(G, U, root, s, sent), s # <<>>,
           NEW x, x = s[1].group \/ x \in s[1].todo
    PROVE  x \notin sent /\ \A g \in sent : g \in G => x \notin U[g]
<1> PICK S : s \in Seq(S)
  BY DEF Tree, IsWalk
<1> DEFINE n == Len(s)
<1>1. n \in Nat \ {0}
  BY StackShapes
<1> HIDE DEF n
<1>2. x \notin sent
  BY <1>1 DEF Tree, Open, n
<1>3. ASSUME NEW g \in sent, g \in G, x \in U[g] PROVE FALSE
  <2>p. (\A h \in G : root \notin U[h]) /\ \A h, k \in G : \A y : y \in U[h] /\ y \in U[k] => h = k
    BY PlanTreeFacts
  <2>1. CASE x \in s[1].todo
    BY <1>1, <1>3, <2>1, <2>p DEF Tree, Open, n
  <2>2. CASE x = s[1].group /\ n = 1
    BY <1>1, <1>3, <2>2, <2>p DEF Tree, Open, n
  <2>3. CASE x = s[1].group /\ n # 1
    <3>1. 1 \in 1 .. n - 1 /\ 1 + 1 = 2 /\ 2 \in 1 .. n
      BY <1>1, <2>3
    <3>2. x \in U[s[2].group] /\ s[2].group \in G /\ s[2].group \notin sent
      BY <2>3, <3>1 DEF Tree, Open, Nested, n
    <3> QED BY <1>3, <3>2, <2>p
  <2> QED BY <2>1, <2>2, <2>3
<1> QED BY <1>2, <1>3

(* A stream in post-order, as the consumer reads it. *)
PostOrder(G, U, root, q) ==
    \A i, j \in 1 .. Len(q) : i < j =>
        /\ q[i].item # q[j].item /\ q[i].item # root
        /\ q[i].item \in G => q[j].item \notin U[q[i].item]

LEMMA PostOrderKept ==
    ASSUME NEW G, NEW U, NEW root, NEW R, NEW q \in Seq(R), PostOrder(G, U, root, q), NEW r,
           \A i \in 1 .. Len(q) : /\ q[i].item # r.item /\ q[i].item # root
                                  /\ q[i].item \in G => r.item \notin U[q[i].item]
    PROVE  PostOrder(G, U, root, Append(q, r))
<1> DEFINE n == Len(q)
           t == Append(q, r)
<1>1. /\ n \in Nat /\ Len(t) = n + 1 /\ t[n + 1] = r
      /\ \A i \in 1 .. n : t[i] = q[i]
  OBVIOUS
<1> HIDE DEF n, t
<1>2. ASSUME NEW i \in 1 .. n + 1, NEW j \in 1 .. n + 1, i < j
      PROVE  /\ t[i].item # t[j].item /\ t[i].item # root
             /\ t[i].item \in G => t[j].item \notin U[t[i].item]
  <2>1. i \in 1 .. n /\ t[i] = q[i]
    BY <1>1, <1>2
  <2>2. CASE j = n + 1
    BY <1>1, <2>1, <2>2 DEF n
  <2>3. CASE j # n + 1
    <3>1. j \in 1 .. n /\ t[j] = q[j]
      BY <1>1, <2>3
    <3> QED BY <1>2, <2>1, <3>1 DEF PostOrder, n
  <2> QED BY <2>2, <2>3
<1>3. PostOrder(G, U, root, t)
  BY <1>1, <1>2 DEF PostOrder
<1> QED BY <1>3 DEF t

LEMMA FrameParts ==
    ASSUME NEW f, IsFrame(f), NEW r, NEW x
    PROVE  /\ IsFrame(Without(f, x)) /\ Without(f, x).group = f.group
           /\ Without(f, x).todo = f.todo \ {x} /\ Without(f, x).res = f.res
           /\ IsFrame(WithResult(f, r)) /\ WithResult(f, r).group = f.group
           /\ WithResult(f, r).todo \subseteq f.todo /\ WithResult(f, r).res = Append(f.res, r)
           /\ r.verdict = "AC" => WithResult(f, r).todo = f.todo
<1> USE DEF IsFrame
<1>1. /\ IsFrame(Without(f, x)) /\ Without(f, x).group = f.group
      /\ Without(f, x).todo = f.todo \ {x} /\ Without(f, x).res = f.res
  BY DEF Without
<1>2. \E T \in {{}, f.todo} :
        /\ WithResult(f, r) = [f EXCEPT !.res = Append(f.res, r), !.todo = T]
        /\ r.verdict = "AC" => T = f.todo
  BY DEF WithResult
<1>3. /\ IsFrame(WithResult(f, r)) /\ WithResult(f, r).group = f.group
      /\ WithResult(f, r).todo \subseteq f.todo /\ WithResult(f, r).res = Append(f.res, r)
      /\ r.verdict = "AC" => WithResult(f, r).todo = f.todo
  BY <1>2
<1> QED BY <1>1, <1>3

LEMMA ResultParts ==
    ASSUME NEW f, IsFrame(f), NEW r
    PROVE  WithResult(f, r).group = f.group /\ WithResult(f, r).res = Append(f.res, r)
<1>1. \E T : WithResult(f, r) = [f EXCEPT !.res = Append(f.res, r), !.todo = T]
  BY DEF WithResult
<1> QED BY <1>1 DEF IsFrame

OnTree == Tree(Groups, plan.under, plan.root, stack, Sent)
Above == Upward(Groups, plan.under, plan.root, stack, Sent)
InOrder == PostOrder(Groups, plan.under, plan.root, received)

TreeSync ==
    /\ RootSync
    /\ OnTree
    /\ pc \in Walking => Above
    /\ pc \in {"begin", "start"} => received = <<>>
    /\ pc \in InCase => cur.item \in stack[1].todo
    /\ InOrder
    /\ \A i \in 1 .. Len(received) : received[i].item \in Items

LEMMA PlanIsTree ==
    ASSUME plan \in Plans
    PROVE  /\ IsPlanTree(Groups, plan.under, plan.root) /\ plan.root \in Groups /\ Groups \subseteq Items
           /\ \A g \in Groups : plan.under[g] \subseteq Items
<1>1. /\ plan.root \in DOMAIN plan.attr /\ DOMAIN plan.attr \subseteq DOMAIN plan.name
      /\ \A g \in DOMAIN plan.attr :
            /\ plan.under[g] \subseteq DOMAIN plan.name \ {plan.root}
            /\ \A h \in DOMAIN plan.attr \ {g} : plan.under[g] \cap plan.under[h] = {}
  BY EvaluatorAssumption
<1> QED BY <1>1 DEF IsPlanTree, Groups, Items

(* A result sent next. *)
LEMMA SentInOrder ==
    ASSUME TreeSync, pc \in Walking, plan' = plan, NEW r, received' = Append(received, r),
           r.item = stack[1].group \/ r.item \in stack[1].todo
    PROVE  /\ InOrder' /\ Sent' = Sent \cup {r.item} /\ (\E R : received' \in Seq(R))
           /\ r.item \in Items => \A i \in 1 .. Len(received') : received'[i].item \in Items'
<1>0. /\ IsPlanTree(Groups, plan.under, plan.root)
      /\ stack # <<>> /\ plan.root \notin Sent /\ OnTree
  BY PlanIsTree DEF TreeSync, RootSync, ScoreSync, BoxSync
<1> PICK R : received \in Seq(R)
  BY DEF TreeSync, RootSync
<1>1. r.item \notin Sent /\ \A g \in Sent : g \in Groups => r.item \notin plan.under[g]
  BY <1>0, TreeSends DEF OnTree
<1>2. \A i \in 1 .. Len(received) : received[i].item \in Sent
  BY DEF Sent
<1>3. PostOrder(Groups, plan.under, plan.root, Append(received, r))
  BY <1>0, <1>1, <1>2, PostOrderKept DEF TreeSync, InOrder
<1>4. Sent' = Sent \cup {r.item} /\ received' \in Seq(R \cup {r})
  BY SentGrows
<1>5. InOrder'
  BY <1>3 DEF InOrder, Groups
<1>6. r.item \in Items => \A i \in 1 .. Len(received') : received'[i].item \in Items'
  <2>1. /\ Len(received) \in Nat /\ Len(received') = Len(received) + 1 /\ received'[Len(received) + 1] = r
        /\ \A i \in 1 .. Len(received) : received'[i] = received[i]
    OBVIOUS
  <2>2. \A i \in 1 .. Len(received') : i \in 1 .. Len(received) \/ i = Len(received) + 1
    BY <2>1
  <2>3. Items' = Items
    BY DEF Items
  <2>4. \A i \in 1 .. Len(received) : received[i].item \in Items
    BY DEF TreeSync
  <2> QED BY <2>1, <2>2, <2>3, <2>4
<1> QED BY <1>4, <1>5, <1>6

(* A case counted in the top frame, sent or not. *)
LEMMA CaseOnTree ==
    ASSUME TreeSync, pc \in Walking, plan' = plan, NEW x, x \in Cases, x \in stack[1].todo, NEW r,
           stack' = <<WithResult(Without(Top, x), r)>> \o Tail(stack), Sent' \in {Sent, Sent \cup {x}}
    PROVE  OnTree' /\ Above' /\ stack' # <<>>
<1> DEFINE f == WithResult(Without(Top, x), r)
<1>0. /\ IsPlanTree(Groups, plan.under, plan.root)
      /\ stack # <<>> /\ OnTree /\ Above
  BY PlanIsTree DEF TreeSync, RootSync, ScoreSync, BoxSync
<1>1. PICK S : stack \in Seq(S)
  BY <1>0 DEF OnTree, Tree, IsWalk
<1>2. Len(stack) \in Nat \ {0} /\ Top = stack[1]
  BY <1>0, <1>1, StackShapes DEF Top
<1>3. IsFrame(stack[1])
  BY <1>0, <1>2 DEF OnTree, Tree, IsWalk
<1>4. IsFrame(Without(Top, x)) /\ Without(Top, x).group = stack[1].group /\ Without(Top, x).todo = stack[1].todo \ {x}
  BY <1>2, <1>3, FrameParts
<1>5. IsFrame(f) /\ f.group = stack[1].group /\ \A y \in f.todo : y \in stack[1].todo /\ y # x
  <2>1. IsFrame(f) /\ f.group = Without(Top, x).group /\ f.todo \subseteq Without(Top, x).todo
    BY <1>4, FrameParts
  <2> HIDE DEF f
  <2> QED BY <1>4, <2>1
<1>6. stack' = Put(stack, f)
  BY DEF Put
<1> HIDE DEF f
<1>7. Len(Put(stack, f)) = Len(stack)
  BY <1>0, <1>1, StackShapes
<1>8. x \notin Groups
  BY DEF Cases
<1>9. /\ Tree(Groups, plan.under, plan.root, Put(stack, f), Sent')
      /\ Upward(Groups, plan.under, plan.root, Put(stack, f), Sent')
  BY <1>0, <1>5, <1>8, TreeCounted DEF OnTree, Above
<1>10. stack' # <<>>
  BY <1>2, <1>6, <1>7
<1> QED BY <1>6, <1>9, <1>10 DEF OnTree, Above, Groups

(* A group's result sent and counted in its parent's frame. *)
LEMMA GroupOnTree ==
    ASSUME TreeSync, pc \in Walking, plan' = plan, NEW v, NEW score, EmitGroup(v, score)
    PROVE  /\ OnTree' /\ (pc' \in Walking => Above')
           /\ InOrder' /\ \A i \in 1 .. Len(received') : received'[i].item \in Items'
<1> DEFINE r == [NoCase EXCEPT !.item = Top.group, !.verdict = v, !.score = score]
<1>0. /\ IsPlanTree(Groups, plan.under, plan.root) /\ Groups \subseteq Items
      /\ stack # <<>> /\ OnTree /\ Above
  BY PlanIsTree DEF TreeSync, RootSync, ScoreSync, BoxSync
<1>1. PICK S : stack \in Seq(S)
  BY <1>0 DEF OnTree, Tree, IsWalk
<1> DEFINE n == Len(stack)
<1>2. n \in Nat \ {0} /\ Top = stack[1]
  BY <1>0, <1>1, StackShapes DEF Top
<1>3. r.item = stack[1].group /\ received' = Append(received, r)
  BY <1>2 DEF EmitGroup, NoCase
<1>4. /\ n = 1 => stack' = <<>> /\ pc' = "unwind"
      /\ n # 1 => stack' = Drop(stack, WithResult(stack[2], r))
  BY DEF EmitGroup, Drop
<1> HIDE DEF r, n
<1>5. stack[1].group \in Items
  BY <1>0, <1>2 DEF OnTree, Tree, Open, n
<1>6. InOrder' /\ Sent' = Sent \cup {r.item} /\ \A i \in 1 .. Len(received') : received'[i].item \in Items'
  BY <1>3, <1>5, SentInOrder
<1>7. CASE n = 1
  <2>1. Tree(Groups, plan.under, plan.root, <<>>, Sent')
    BY TreeEmpty
  <2>2. OnTree'
    BY <1>4, <1>7, <2>1 DEF OnTree, Groups
  <2> QED BY <1>4, <1>6, <1>7, <2>2 DEF Walking
<1>8. CASE n # 1
  <2> DEFINE f == WithResult(stack[2], r)
  <2>0. \A i \in 1 .. n : IsFrame(stack[i])
    BY <1>0 DEF OnTree, Tree, IsWalk, n
  <2>1. IsFrame(stack[2])
    BY <1>2, <1>8, <2>0
  <2>2. IsFrame(f) /\ f.group = stack[2].group /\ f.todo \subseteq stack[2].todo
    BY <2>1, FrameParts
  <2> HIDE DEF f
  <2>3. n > 1 /\ Sent' = Sent \cup {stack[1].group}
    BY <1>2, <1>3, <1>6, <1>8
  <2>4. /\ Tree(Groups, plan.under, plan.root, Drop(stack, f), Sent')
        /\ Upward(Groups, plan.under, plan.root, Drop(stack, f), Sent')
    BY <1>0, <2>2, <2>3, TreePopped DEF OnTree, Above, n
  <2>5. stack' = Drop(stack, f)
    BY <1>4, <1>8 DEF f
  <2> QED BY <1>6, <2>4, <2>5 DEF OnTree, Above, Groups
<1> QED BY <1>7, <1>8

LEMMA TreeStays ==
    ASSUME TreeSync, UNCHANGED <<plan, received>>, stack' = stack \/ stack' = <<>>
    PROVE  /\ OnTree' /\ InOrder' /\ \A i \in 1 .. Len(received') : received'[i].item \in Items'
           /\ stack' = stack => (Above' <=> Above)
<1>1. Sent' = Sent /\ Groups' = Groups /\ Items' = Items
  BY DEF Sent, Groups, Items
<1>2. InOrder' /\ \A i \in 1 .. Len(received') : received'[i].item \in Items'
  BY <1>1 DEF TreeSync, InOrder
<1>3. OnTree'
  BY <1>1, TreeEmpty DEF TreeSync, OnTree
<1>4. stack' = stack => (Above' <=> Above)
  BY <1>1 DEF Above
<1> QED BY <1>2, <1>3, <1>4

LEMMA TreeStart == Init => TreeSync
<1> SUFFICES ASSUME Init PROVE TreeSync
  OBVIOUS
<1>1. received = <<>> /\ stack = <<>> /\ pc = "begin"
  BY DEF Init
<1>2. Len(<<>>) = 0
  OBVIOUS
<1>3. OnTree
  BY <1>1, TreeEmpty DEF OnTree
<1> QED BY <1>1, <1>2, <1>3, RootStart DEF TreeSync, Walking, InCase, InOrder, PostOrder

LEMMA TreeStep == TreeSync /\ [Next]_vars => TreeSync'
<1> SUFFICES ASSUME TreeSync, [Next]_vars PROVE TreeSync'
  OBVIOUS
<1>0. /\ RootSync /\ RootSync' /\ plan \in Plans
      /\ IsPlanTree(Groups, plan.under, plan.root) /\ plan.root \in Groups
  BY RootStep, PlanIsTree DEF TreeSync, RootSync, ScoreSync, BoxSync
<1>k. pc \in Walking => stack # <<>> /\ OnTree /\ Above
  BY DEF TreeSync, RootSync
<1> USE DEF callVars, caseVars
<1>1. CASE ResetPermissions \/ StartSandbox
  <2>1. /\ UNCHANGED <<plan, received>> /\ pc' \in {"start", "unwind"} /\ pc \in {"begin", "start"}
        /\ stack' = stack \/ stack' = <<>>
    BY <1>1 DEF ResetPermissions, StartSandbox, Abort
  <2> QED BY <1>0, <2>1, TreeStays DEF TreeSync, Walking, InCase
<1>2. CASE EnterRoot
  <2> DEFINE f == Frame(plan.root)
  <2>1. /\ pc = "start" /\ pc' = "next" /\ UNCHANGED <<plan, received>> /\ stack' = <<f>>
    BY <1>2 DEF EnterRoot
  <2>2. IsFrame(f) /\ f.group = plan.root /\ f.todo = plan.under[plan.root]
    BY DEF Frame, IsFrame
  <2> HIDE DEF f
  <2>3. Tree(Groups, plan.under, plan.root, <<f>>, {}) /\ Upward(Groups, plan.under, plan.root, <<f>>, {})
    BY <1>0, <2>2, TreeRoot
  <2>4. received = <<>> /\ Sent = {} /\ Len(<<>>) = 0
    BY <2>1 DEF TreeSync, Sent
  <2>5. OnTree' /\ Above'
    BY <2>1, <2>3, <2>4 DEF OnTree, Above, Groups, Sent
  <2> QED BY <1>0, <2>1, <2>4, <2>5 DEF TreeSync, Walking, InCase, InOrder, PostOrder
<1>3. CASE EnterGroup
  <2>1. PICK x \in Groups :
            /\ x \in Top.todo /\ stack' = <<Frame(x), Without(Top, x)>> \o Tail(stack)
            /\ pc = "next" /\ pc' = pc /\ UNCHANGED <<plan, received>>
    BY <1>3 DEF EnterGroup, IsNext
  <2> DEFINE f == Frame(x)
             w == Without(Top, x)
  <2>2. stack # <<>> /\ OnTree /\ Above
    BY <1>k, <2>1 DEF Walking
  <2>3. PICK S : stack \in Seq(S)
    BY <2>2 DEF OnTree, Tree, IsWalk
  <2>4. Len(stack) \in Nat \ {0} /\ Top = stack[1]
    BY <2>2, <2>3, StackShapes DEF Top
  <2>5. IsFrame(stack[1])
    BY <2>2, <2>4 DEF OnTree, Tree, IsWalk
  <2>6. IsFrame(w) /\ w.group = stack[1].group /\ \A y \in w.todo : y \in stack[1].todo /\ y # x
    BY <2>4, <2>5, FrameParts
  <2>7. IsFrame(f) /\ f.group = x /\ f.todo = plan.under[x]
    BY DEF Frame, IsFrame
  <2>8. stack' = Push(stack, f, w)
    BY <2>1 DEF Push
  <2> HIDE DEF f, w
  <2>9. x \in stack[1].todo
    BY <2>1, <2>4
  <2>10. /\ Tree(Groups, plan.under, plan.root, Push(stack, f, w), Sent)
         /\ Upward(Groups, plan.under, plan.root, Push(stack, f, w), Sent)
    BY <1>0, <2>2, <2>6, <2>7, <2>9, TreePushed DEF OnTree, Above
  <2>11. Sent' = Sent /\ Groups' = Groups /\ Items' = Items
    BY <2>1 DEF Sent, Groups, Items
  <2>12. OnTree' /\ Above' /\ InOrder'
    BY <2>1, <2>8, <2>10, <2>11 DEF OnTree, Above, InOrder, TreeSync
  <2> QED BY <1>0, <2>1, <2>11, <2>12 DEF TreeSync, InCase
<1>4. CASE ReuseCase
  <2>1. PICK x, r :
            /\ x \in Cases /\ x \in Top.todo /\ stack' = <<WithResult(Without(Top, x), r)>> \o Tail(stack)
            /\ pc = "next" /\ pc' = pc /\ UNCHANGED <<plan, received>>
    BY <1>4 DEF ReuseCase, IsNext
  <2>2. pc \in Walking /\ Sent' = Sent
    BY <2>1 DEF Walking, Sent
  <2>3. stack # <<>> /\ OnTree
    BY <1>k, <2>2
  <2>4. x \in stack[1].todo
    BY <2>1, <2>3, StackShapes DEF Top, OnTree, Tree, IsWalk
  <2>5. OnTree' /\ Above'
    BY <2>1, <2>2, <2>4, CaseOnTree
  <2>6. InOrder' /\ \A i \in 1 .. Len(received') : received'[i].item \in Items'
    BY <2>1 DEF TreeSync, InOrder, Groups, Items
  <2> QED BY <1>0, <2>1, <2>5, <2>6 DEF TreeSync, InCase
<1>5. CASE EmitCase
  <2>1. /\ stack' = <<WithResult(Without(Top, cur.item), cur)>> \o Tail(stack)
        /\ pc = "emit" /\ pc' = "next" /\ UNCHANGED plan
        /\ received' \in {received, Append(received, cur)}
    BY <1>5 DEF EmitCase
  <2>2. pc \in Walking /\ cur.item \in stack[1].todo /\ cur.item \in Cases
    BY <1>0, <2>1 DEF Walking, TreeSync, RootSync, InCase
  <2>3. cur.item \in Items
    BY <2>2 DEF Cases
  <2>4. /\ InOrder' /\ \A i \in 1 .. Len(received') : received'[i].item \in Items'
        /\ Sent' = Sent \cup {cur.item} \/ Sent' = Sent
    <3>1. CASE received' = Append(received, cur)
      BY <2>1, <2>2, <2>3, <3>1, SentInOrder
    <3>2. CASE received' = received
      BY <2>1, <3>2 DEF TreeSync, InOrder, Groups, Items, Sent
    <3> QED BY <2>1, <3>1, <3>2
  <2>5. OnTree' /\ Above'
    BY <2>1, <2>2, <2>4, CaseOnTree
  <2> QED BY <1>0, <2>1, <2>4, <2>5 DEF TreeSync, InCase
<1>6. CASE StartCase \/ StartInteractive \/ LinkFile \/ RunProgram \/ DiffOutput \/ RunValidator \/ RunInteractive
  <2>1. /\ UNCHANGED <<plan, received>>
        /\ pc \in Walking /\ pc' \in Walking \cup {"unwind"}
        /\ pc' \in Walking => UNCHANGED stack
    BY <1>0, <1>6, CaseKeeps DEF RootSync, Walking
  <2>2. stack' = stack \/ stack' = <<>>
    <3>1. CASE StartCase \/ StartInteractive \/ LinkFile
      BY <3>1 DEF StartCase, StartInteractive, LinkFile, Abort
    <3>2. CASE RunProgram \/ DiffOutput \/ RunValidator \/ RunInteractive
      BY <3>2 DEF RunProgram, DiffOutput, RunValidator, RunInteractive, Judged, SandboxFails, Abort
    <3> QED BY <1>6, <3>1, <3>2
  <2>3. pc' \in InCase => cur'.item \in stack[1].todo
    <3>1. CASE StartCase \/ StartInteractive
      <4>1. PICK x : x \in Top.todo /\ cur' = [NoCase EXCEPT !.item = x]
        BY <3>1 DEF StartCase, StartInteractive, IsNext
      <4>2. cur'.item = x
        BY <4>1 DEF NoCase
      <4>3. Top = stack[1]
        BY <1>k, <2>1, StackShapes DEF Top, OnTree, Tree, IsWalk
      <4> QED BY <4>1, <4>2, <4>3
    <3>2. CASE ~StartCase /\ ~StartInteractive /\ pc \in InCase
      <4>1. cur.item \in stack[1].todo /\ "item" \in DOMAIN cur
        BY <1>0, <3>2 DEF TreeSync, RootSync
      <4>2. cur' = cur \/ \E v, score, from : cur' = [cur EXCEPT !.verdict = v, !.score = score, !.from = from]
        <5>1. CASE LinkFile
          BY <5>1 DEF LinkFile
        <5>2. CASE RunProgram
          BY <5>2 DEF RunProgram, Judged
        <5>3. CASE DiffOutput
          BY <5>3, ZenonT(60) DEF DiffOutput, Judged
        <5>4. CASE RunValidator
          <6>1. cur' = cur \/ \E v, score, from : Judged(v, score, from)
            BY <5>4 DEF RunValidator
          <6> QED BY <6>1 DEF Judged
        <5>5. CASE RunInteractive
          <6>1. cur' = cur \/ \E v, score, from : Judged(v, score, from)
            BY <5>5 DEF RunInteractive
          <6> QED BY <6>1 DEF Judged
        <5> QED BY <1>6, <3>2, <5>1, <5>2, <5>3, <5>4, <5>5
      <4>3. cur'.item = cur.item
        BY <4>1, <4>2
      <4> QED BY <4>1, <4>3
    <3>3. StartCase \/ StartInteractive \/ pc \in InCase
      BY <1>6 DEF LinkFile, AfterLinks, RunProgram, DiffOutput, RunValidator, RunInteractive, InCase
    <3> QED BY <3>1, <3>2, <3>3
  <2>4. pc' \in InCase => pc' \in Walking
    BY DEF InCase, Walking
  <2> QED BY <1>0, <1>k, <2>1, <2>2, <2>3, <2>4, TreeStays DEF TreeSync, Walking
<1>7. CASE ClearDir
  <2>1. /\ UNCHANGED <<plan, received, cur>> /\ pc = "clear"
        /\ \/ pc' \in {"clear", "emit"} /\ stack' = stack
           \/ pc' = "unwind" /\ stack' = <<>>
    BY <1>7 DEF ClearDir
  <2> QED BY <1>0, <1>k, <2>1, TreeStays DEF TreeSync, Walking, InCase
<1>8. CASE MergeGroup \/ RunGrader
  <2>1. /\ pc \in Walking /\ UNCHANGED plan
        /\ \/ UNCHANGED received /\ pc' = "unwind" /\ stack' = <<>>
           \/ UNCHANGED <<received, stack>> /\ pc' = "grade"
           \/ \E v, score : EmitGroup(v, score)
    BY <1>8 DEF MergeGroup, RunGrader, AllDone, Abort, SandboxFails, Walking
  <2>2. CASE \E v, score : EmitGroup(v, score)
    <3>1. PICK v, score : EmitGroup(v, score)
      BY <2>2
    <3>2. pc' \in {"unwind", "next"}
      BY <3>1 DEF EmitGroup
    <3> QED BY <1>0, <2>1, <3>1, <3>2, GroupOnTree DEF TreeSync, InCase
  <2>3. CASE ~\E v, score : EmitGroup(v, score)
    BY <1>0, <1>k, <2>1, <2>3, TreeStays DEF TreeSync, Walking, InCase
  <2> QED BY <2>2, <2>3
<1>9. CASE RunDeferred \/ Return \/ JudgeCrash
  <2>1. UNCHANGED <<plan, received, stack>> /\ pc' \in {"unwind", "over", "crashed"}
    BY <1>9 DEF RunDeferred, Return, JudgeCrash
  <2> QED BY <1>0, <2>1, TreeStays DEF TreeSync, Walking, InCase
<1>10. CASE RemoveEntry \/ Over \/ UNCHANGED vars
  <2>1. UNCHANGED <<plan, received, stack, pc, cur>>
    BY <1>10 DEF RemoveEntry, Over, vars
  <2> QED BY <1>0, <2>1, TreeStays DEF TreeSync
<1>11. CASE Retry
  <2>1. pc' = "begin" /\ received' = <<>> /\ plan' = plan /\ stack' = <<>> /\ Len(<<>>) = 0
    BY <1>11 DEF Retry
  <2>2. Tree(Groups, plan.under, plan.root, <<>>, Sent')
    BY TreeEmpty
  <2>3. OnTree'
    BY <2>1, <2>2 DEF OnTree, Groups
  <2> QED BY <1>0, <2>1, <2>3 DEF TreeSync, Walking, InCase, InOrder, PostOrder
<1> QED BY <1>1, <1>2, <1>3, <1>4, <1>5, <1>6, <1>7, <1>8, <1>9, <1>10, <1>11
        DEF Next, EvaluatorNext

(* The least number of a set of numbers: induction, where a fact about every *)
(* number of turns of a loop is needed. *)
LEMMA LeastNumber ==
    ASSUME NEW T, T \subseteq Nat, T # {}
    PROVE  \E m \in T : \A k \in T : m <= k
<1> DEFINE R == {ss \in Nat \X Nat : ss[1] < ss[2]}
<1>1. IsWellFoundedOn(R, Nat)
  BY NatLessThanWellFounded DEF OpToRel
<1>2. \A i, j \in Nat : i < j => <<i, j>> \in R
  OBVIOUS
<1> HIDE DEF R
<1>3. PICK m \in T : \A k \in T : ~ (<<k, m>> \in R)
  BY <1>1, WFMin
<1>4. ASSUME NEW k \in T PROVE m <= k
  <2>1. ~ (k < m)
    BY <1>2, <1>3
  <2>2. k \in Nat /\ m \in Nat
    OBVIOUS
  <2> QED BY <2>1, <2>2
<1> QED BY <1>4

LEMMA FromZeroOn ==
    ASSUME NEW n \in Nat, NEW Good, 0 \in Good,
           \A k \in 1 .. n : k - 1 \in Good => k \in Good
    PROVE  \A k \in 0 .. n : k \in Good
<1> DEFINE Bad == {k \in 0 .. n : k \notin Good}
<1>1. SUFFICES ASSUME Bad # {} PROVE FALSE
  OBVIOUS
<1>2. PICK m \in Bad : \A k \in Bad : m <= k
  <2>1. Bad \subseteq Nat
    OBVIOUS
  <2> HIDE DEF Bad
  <2> QED BY <1>1, <2>1, LeastNumber
<1>3. m \in 1 .. n /\ m - 1 \in 0 .. n /\ m - 1 \notin Bad
  BY <1>2
<1> QED BY <1>2, <1>3

(* The loop of defaultGrader is what its equation says. *)
LEMMA GradeLoopTurns ==
    ASSUME NEW R, NEW results \in Seq(R), NEW tg
    PROVE  /\ GradeLoop(results, tg)[0] = GradeInit(tg)
           /\ \A k \in 1 .. Len(results) :
                GradeLoop(results, tg)[k] = GradeStep(tg, GradeLoop(results, tg)[k - 1], results[k])
<1> DEFINE n == Len(results)
           IsLoop(f, m) == f = [k \in 0 .. m |-> IF k = 0 THEN GradeInit(tg) ELSE GradeStep(tg, f[k - 1], results[k])]
           Good == {m \in Nat : \E f : IsLoop(f, m)}
<1>0. n \in Nat
  OBVIOUS
<1>1. 0 \in Good
  <2>1. IsLoop([k \in 0 .. 0 |-> GradeInit(tg)], 0)
    OBVIOUS
  <2> QED BY <2>1
<1>2. ASSUME NEW m \in 1 .. n, m - 1 \in Good PROVE m \in Good
  <2>1. PICK f : IsLoop(f, m - 1)
    BY <1>2
  <2> DEFINE g == [k \in 0 .. m |-> IF k = m THEN GradeStep(tg, f[m - 1], results[m]) ELSE f[k]]
  <2>2. m \in Nat /\ m # 0 /\ m - 1 \in Nat
    BY <1>0
  <2>3. /\ DOMAIN f = 0 .. m - 1
        /\ \A k \in 0 .. m - 1 : f[k] = IF k = 0 THEN GradeInit(tg) ELSE GradeStep(tg, f[k - 1], results[k])
    BY <2>1
  <2>4. \A k \in 0 .. m : (k = m \/ k \in 0 .. m - 1) /\ (k # 0 => k - 1 \in 0 .. m /\ k - 1 # m)
    BY <2>2
  <2>5. \A k \in 0 .. m : g[k] = IF k = 0 THEN GradeInit(tg) ELSE GradeStep(tg, g[k - 1], results[k])
    BY <2>2, <2>3, <2>4
  <2>6. g = [k \in 0 .. m |-> g[k]]
    OBVIOUS
  <2> HIDE DEF g
  <2>7. IsLoop(g, m)
    BY <2>5, <2>6
  <2> QED BY <2>2, <2>7
<1>3. n \in Good
  <2> HIDE DEF Good, n
  <2>1. n \in 0 .. n /\ \A k \in 1 .. n : k - 1 \in Good => k \in Good
    BY <1>0, <1>2
  <2> QED BY <1>0, <1>1, <2>1, FromZeroOn
<1>4. \E f : IsLoop(f, n)
  BY <1>3
<1>5. IsLoop(GradeLoop(results, tg), n)
  BY <1>4 DEF GradeLoop
<1> HIDE DEF n
<1>6. 0 \in 0 .. n /\ \A k \in 1 .. n : k \in 0 .. n /\ k # 0
  BY <1>0
<1> QED BY <1>5, <1>6 DEF n

LEMMA GradeLoopVerdicts ==
    ASSUME NEW R, NEW results \in Seq(R), NEW tg, \A k \in 1 .. Len(results) : results[k].verdict \in Verdicts
    PROVE  /\ defaultGrader(results, tg).verdict \in Verdicts
           /\ tg.verdicts \in {"WORST_ERROR", "FIRST_ERROR"} /\ ~tg.anyAccepts
                /\ defaultGrader(results, tg).verdict = "AC"
              => \A k \in 1 .. Len(results) : results[k].verdict = "AC"
<1> DEFINE n == Len(results)
           loop == GradeLoop(results, tg)
           strict == tg.verdicts \in {"WORST_ERROR", "FIRST_ERROR"}
           Good == {k \in 0 .. n :
                      /\ loop[k].verdict \in Verdicts
                      /\ strict /\ loop[k].verdict = "AC" => \A j \in 1 .. k : results[j].verdict = "AC"}
<1>0. n \in Nat /\ (\A k \in 1 .. n : results[k].verdict \in Verdicts)
  OBVIOUS
<1>1. loop[0] = GradeInit(tg) /\ \A k \in 1 .. n : loop[k] = GradeStep(tg, loop[k - 1], results[k])
  BY GradeLoopTurns
<1> HIDE DEF n, loop
<1>2. 0 \in Good
  <2>1. loop[0].verdict = "AC" /\ 1 .. 0 = {} /\ 0 \in 0 .. n
    BY <1>0, <1>1 DEF GradeInit
  <2> QED BY <2>1 DEF Verdicts
<1>3. ASSUME NEW k \in 1 .. n, k - 1 \in Good PROVE k \in Good
  <2> DEFINE v == results[k].verdict
             was == loop[k - 1].verdict
  <2>1. loop[k].verdict = GradeVerdict(tg, was, v)
    <3>1. loop[k] = GradeStep(tg, loop[k - 1], results[k])
      BY <1>1
    <3>2. GradeStep(tg, loop[k - 1], results[k]).verdict = GradeVerdict(tg, was, v)
      BY DEF GradeStep
    <3> QED BY <3>1, <3>2
  <2>2. v \in Verdicts /\ was \in Verdicts /\ k \in 0 .. n
    BY <1>0, <1>3
  <2>3. GradeVerdict(tg, was, v) \in {was, v}
    BY DEF GradeVerdict
  <2>4. strict /\ GradeVerdict(tg, was, v) = "AC" => was = "AC" /\ v = "AC"
    BY <2>2 DEF GradeVerdict, Verdicts, worseness
  <2>5. strict /\ was = "AC" => \A j \in 1 .. k - 1 : results[j].verdict = "AC"
    BY <1>3
  <2>6. \A j \in 1 .. k : j \in 1 .. k - 1 \/ j = k
    BY <1>0
  <2> HIDE DEF strict
  <2> QED BY <2>1, <2>2, <2>3, <2>4, <2>5, <2>6
<1>4. n \in Good
  <2> HIDE DEF Good
  <2>1. n \in 0 .. n
    BY <1>0
  <2> QED BY <1>0, <1>2, <1>3, <2>1, FromZeroOn
<1>5. defaultGrader(results, tg).verdict = IF tg.verdicts = "ALWAYS_ACCEPT" \/ (loop[n].anyAccepted /\ tg.anyAccepts) THEN "AC" ELSE loop[n].verdict
  BY DEF defaultGrader, GradeEnd, loop, n
<1>6. strict /\ ~tg.anyAccepts => defaultGrader(results, tg).verdict = loop[n].verdict
  BY <1>5
<1> QED BY <1>4, <1>5, <1>6 DEF Verdicts, n

-----------------------------------------------------------------------------
(* A result as it is sent and counted. *)
HasParts(r) == r = [item |-> r.item, verdict |-> r.verdict, score |-> r.score, from |-> r.from]
IsRes(r) ==
    /\ HasParts(r)
    /\ r.verdict \in Verdicts

LEMMA ResRenamed ==
    ASSUME NEW r, HasParts(r), NEW x
    PROVE  [r EXCEPT !.item = x]
              = [item |-> x, verdict |-> r.verdict, score |-> r.score, from |-> r.from]
<1> PICK a, b, c, d : r = [item |-> a, verdict |-> b, score |-> c, from |-> d]
  BY DEF HasParts
<1> DEFINE e == [r EXCEPT !.item = x]
<1>1. DOMAIN e = {"item", "verdict", "score", "from"} /\ e = [k \in DOMAIN e |-> e[k]]
  OBVIOUS
<1>2. e.item = x /\ e.verdict = b /\ e.score = c /\ e.from = d
  OBVIOUS
<1> HIDE DEF e
<1>3. e = [item |-> x, verdict |-> b, score |-> c, from |-> d]
  BY <1>1, <1>2
<1> QED BY <1>3 DEF e

LEMMA ResRescored ==
    ASSUME NEW r, HasParts(r), NEW s
    PROVE  [r EXCEPT !.score = s]
              = [item |-> r.item, verdict |-> r.verdict, score |-> s, from |-> r.from]
<1> PICK a, b, c, d : r = [item |-> a, verdict |-> b, score |-> c, from |-> d]
  BY DEF HasParts
<1> DEFINE e == [r EXCEPT !.score = s]
<1>1. DOMAIN e = {"item", "verdict", "score", "from"} /\ e = [k \in DOMAIN e |-> e[k]]
  OBVIOUS
<1>2. e.item = a /\ e.verdict = b /\ e.score = s /\ e.from = d
  OBVIOUS
<1> HIDE DEF e
<1>3. e = [item |-> a, verdict |-> b, score |-> s, from |-> d]
  BY <1>1, <1>2
<1> QED BY <1>3 DEF e

LEMMA ResOfGroup ==
    ASSUME NEW r, HasParts(r), NEW x, NEW v, NEW s
    PROVE  [r EXCEPT !.item = x, !.verdict = v, !.score = s]
              = [item |-> x, verdict |-> v, score |-> s, from |-> r.from]
<1> PICK a, b, c, d : r = [item |-> a, verdict |-> b, score |-> c, from |-> d]
  BY DEF HasParts
<1> DEFINE e == [r EXCEPT !.item = x, !.verdict = v, !.score = s]
<1>1. DOMAIN e = {"item", "verdict", "score", "from"} /\ e = [k \in DOMAIN e |-> e[k]]
  OBVIOUS
<1>2. e.item = x /\ e.verdict = v /\ e.score = s /\ e.from = d
  OBVIOUS
<1> HIDE DEF e
<1>3. e = [item |-> x, verdict |-> v, score |-> s, from |-> d]
  BY <1>1, <1>2
<1> QED BY <1>3 DEF e

LEMMA ResJudged ==
    ASSUME NEW r, HasParts(r), NEW v, NEW s, NEW o
    PROVE  [r EXCEPT !.verdict = v, !.score = s, !.from = o]
              = [item |-> r.item, verdict |-> v, score |-> s, from |-> o]
<1> PICK a, b, c, d : r = [item |-> a, verdict |-> b, score |-> c, from |-> d]
  BY DEF HasParts
<1> DEFINE e == [r EXCEPT !.verdict = v, !.score = s, !.from = o]
<1>1. DOMAIN e = {"item", "verdict", "score", "from"} /\ e = [k \in DOMAIN e |-> e[k]]
  OBVIOUS
<1>2. e.item = a /\ e.verdict = v /\ e.score = s /\ e.from = o
  OBVIOUS
<1> HIDE DEF e
<1>3. e = [item |-> a, verdict |-> v, score |-> s, from |-> o]
  BY <1>1, <1>2
<1> QED BY <1>3 DEF e

LEMMA NoCaseParts == HasParts(NoCase) /\ NoCase.from = NoOrigin
BY DEF HasParts, NoCase

(* What a frame knows of its group's children u: unless one has failed, each *)
(* is still to do, being evaluated, or counted. *)
Holds(u, f, busy) ==
    /\ \E R : f.res \in Seq(R)
    /\ \A k \in 1 .. Len(f.res) : IsRes(f.res[k]) /\ f.res[k].item \in u
    /\ \/ \E k \in 1 .. Len(f.res) : f.res[k].verdict # "AC"
       \/ \A x \in u : x \in f.todo \/ x \in busy \/ \E k \in 1 .. Len(f.res) : f.res[k].item = x

Counted(U, s) ==
    \A i \in 1 .. Len(s) : Holds(U[s[i].group], s[i], IF i = 1 THEN {} ELSE {s[i - 1].group})

LEMMA HoldsCounted ==
    ASSUME NEW u, NEW f, NEW busy, Holds(u, f, busy), NEW r, IsRes(r), r.item \in u,
           NEW h, h.res = Append(f.res, r),
           r.verdict = "AC" => \A x \in u : x \in f.todo \/ x \in busy => x \in h.todo \/ x = r.item
    PROVE  Holds(u, h, {})
<1> DEFINE n == Len(f.res)
<1>0. PICK R : f.res \in Seq(R)
  BY DEF Holds
<1>1. /\ n \in Nat /\ h.res \in Seq(R \cup {r}) /\ Len(h.res) = n + 1 /\ h.res[n + 1] = r
      /\ \A k \in 1 .. n : h.res[k] = f.res[k]
  BY <1>0
<1> HIDE DEF n
<1>2. \A k \in 1 .. n + 1 : k \in 1 .. n \/ k = n + 1
  BY <1>1
<1>3. \A k \in 1 .. n : k \in 1 .. n + 1
  BY <1>1
<1>4. n + 1 \in 1 .. n + 1
  BY <1>1
<1>5. \A k \in 1 .. n + 1 : IsRes(h.res[k]) /\ h.res[k].item \in u
  BY <1>1, <1>2 DEF Holds, n
<1>6. ASSUME \A k \in 1 .. n + 1 : h.res[k].verdict = "AC", NEW x \in u
      PROVE  x \in h.todo \/ \E k \in 1 .. n + 1 : h.res[k].item = x
  <2>1. r.verdict = "AC" /\ \A k \in 1 .. n : f.res[k].verdict = "AC"
    BY <1>1, <1>3, <1>4, <1>6
  <2>2. x \in f.todo \/ x \in busy \/ \E k \in 1 .. n : f.res[k].item = x
    BY <2>1 DEF Holds, n
  <2> QED BY <1>1, <1>3, <1>4, <2>1, <2>2
<1> QED BY <1>1, <1>5, <1>6 DEF Holds

LEMMA CountedPut ==
    ASSUME NEW U, NEW S, NEW s \in Seq(S), s # <<>>, Counted(U, s),
           NEW f, f.group = s[1].group, Holds(U[f.group], f, {})
    PROVE  Counted(U, Put(s, f))
<1> DEFINE n == Len(s)
           t == Put(s, f)
<1>1. n \in Nat \ {0} /\ Len(t) = n /\ t[1] = f /\ \A i \in 2 .. n : t[i] = s[i]
  BY StackShapes
<1>2. \A i \in 1 .. n : Holds(U[s[i].group], s[i], IF i = 1 THEN {} ELSE {s[i - 1].group})
  BY DEF Counted
<1> HIDE DEF n, t
<1>3. \A i \in 1 .. n : t[i].group = s[i].group
  BY <1>1
<1>4. ASSUME NEW i \in 1 .. n PROVE Holds(U[t[i].group], t[i], IF i = 1 THEN {} ELSE {t[i - 1].group})
  <2>1. CASE i = 1
    BY <1>1, <2>1
  <2>2. CASE i # 1
    <3>1. i - 1 \in 1 .. n /\ t[i] = s[i]
      BY <1>1, <2>2
    <3>2. t[i - 1].group = s[i - 1].group
      BY <1>3, <3>1
    <3> QED BY <1>2, <2>2, <3>1, <3>2
  <2> QED BY <2>1, <2>2
<1> QED BY <1>1, <1>4 DEF Counted, t

LEMMA CountedPush ==
    ASSUME NEW U, NEW S, NEW s \in Seq(S), s # <<>>, Counted(U, s),
           NEW w, w.group = s[1].group, NEW f, Holds(U[w.group], w, {f.group}), Holds(U[f.group], f, {})
    PROVE  Counted(U, Push(s, f, w))
<1> DEFINE n == Len(s)
           t == Push(s, f, w)
<1>1. n \in Nat \ {0} /\ Len(t) = n + 1 /\ t[1] = f /\ t[2] = w /\ \A i \in 3 .. n + 1 : t[i] = s[i - 1]
  BY PushShape
<1>2. \A i \in 1 .. n : Holds(U[s[i].group], s[i], IF i = 1 THEN {} ELSE {s[i - 1].group})
  BY DEF Counted
<1> HIDE DEF n, t
<1>3. \A i \in 2 .. n + 1 : t[i].group = s[i - 1].group
  BY <1>1
<1>4. ASSUME NEW i \in 1 .. n + 1 PROVE Holds(U[t[i].group], t[i], IF i = 1 THEN {} ELSE {t[i - 1].group})
  <2>1. CASE i = 1
    BY <1>1, <2>1
  <2>2. CASE i = 2
    <3>1. i # 1 /\ i - 1 = 1 /\ t[i] = w /\ t[i - 1] = f
      BY <1>1, <2>2
    <3>2. Holds(U[t[i].group], t[i], {t[i - 1].group})
      BY <3>1
    <3> QED BY <3>1, <3>2
  <2>3. CASE i # 1 /\ i # 2
    <3>1. i - 1 \in 2 .. n + 1 /\ i - 1 \in 1 .. n /\ i - 1 # 1 /\ t[i] = s[i - 1]
      BY <1>1, <2>3
    <3>2. t[i - 1].group = s[(i - 1) - 1].group
      BY <1>3, <3>1
    <3> QED BY <1>2, <2>3, <3>1, <3>2
  <2> QED BY <2>1, <2>2, <2>3
<1> QED BY <1>1, <1>4 DEF Counted, t

LEMMA CountedDrop ==
    ASSUME NEW U, NEW S, NEW s \in Seq(S), s # <<>>, Len(s) > 1, Counted(U, s),
           NEW f, f.group = s[2].group, Holds(U[f.group], f, {})
    PROVE  Counted(U, Drop(s, f))
<1> DEFINE n == Len(s)
           t == Drop(s, f)
<1>1. n \in Nat \ {0} /\ n > 1 /\ Len(t) = n - 1 /\ t[1] = f /\ \A i \in 2 .. n - 1 : t[i] = s[i + 1]
  <2>1. Len(s) \in Nat \ {0} /\ Len(s) > 1
    BY StackShapes
  <2>2. Len(Drop(s, f)) = Len(s) - 1 /\ Drop(s, f)[1] = f
    BY <2>1, StackShapes
  <2>3. \A i \in 2 .. Len(s) - 1 : Drop(s, f)[i] = s[i + 1]
    BY <2>1, StackShapes
  <2> QED BY <2>1, <2>2, <2>3
<1>2. \A i \in 1 .. n : Holds(U[s[i].group], s[i], IF i = 1 THEN {} ELSE {s[i - 1].group})
  BY DEF Counted
<1> HIDE DEF n, t
<1>3. \A i \in 1 .. n - 1 : t[i].group = s[i + 1].group
  BY <1>1
<1>4. ASSUME NEW i \in 1 .. n - 1 PROVE Holds(U[t[i].group], t[i], IF i = 1 THEN {} ELSE {t[i - 1].group})
  <2>1. CASE i = 1
    BY <1>1, <2>1
  <2>2. CASE i # 1
    <3>1. i - 1 \in 1 .. n - 1 /\ i + 1 \in 1 .. n /\ i + 1 # 1 /\ (i - 1) + 1 = (i + 1) - 1 /\ t[i] = s[i + 1]
      <4>1. i \in 2 .. n - 1 /\ i - 1 \in 1 .. n - 1 /\ i + 1 \in 1 .. n /\ i + 1 # 1 /\ (i - 1) + 1 = (i + 1) - 1
        BY <1>1, <2>2
      <4> QED BY <1>1, <4>1
    <3>2. t[i - 1].group = s[(i + 1) - 1].group
      BY <1>3, <3>1
    <3> QED BY <1>2, <2>2, <3>1, <3>2
  <2> QED BY <2>1, <2>2
<1> QED BY <1>1, <1>4 DEF Counted, t

LEMMA HoldsFresh == ASSUME NEW f, f.res = <<>> PROVE Holds(f.todo, f, {})
<1>1. <<>> \in Seq({}) /\ Len(<<>>) = 0
  OBVIOUS
<1> QED BY <1>1 DEF Holds
-----------------------------------------------------------------------------
(* Every result that is kept has a verdict and is that of a child. *)
ResultSync ==
    /\ TreeSync
    /\ Counted(plan.under, stack)
    /\ \E E : cache \in Seq(E)
    /\ \A i \in 1 .. Len(cache) : IsRes(cache[i].result)
    /\ \A i \in 1 .. Len(received) : received[i].verdict \in Verdicts
    /\ pc \in InCase => IsRes(cur)
    /\ pc = "grade" => Attr(stack[1].group).custom

(* The stack of a walk, and the frame on top. *)
LEMMA WalkTop ==
    ASSUME TreeSync, pc \in Walking
    PROVE  /\ stack # <<>> /\ (\E S : stack \in Seq(S)) /\ Top = stack[1]
           /\ Len(stack) \in Nat \ {0}
           /\ \A i \in 1 .. Len(stack) : /\ IsFrame(stack[i]) /\ stack[i].group \in Groups
                                         /\ \A x \in stack[i].todo : x \in plan.under[stack[i].group]
           /\ \A i \in 1 .. Len(stack) - 1 : stack[i].group \in plan.under[stack[i + 1].group]
<1>0. stack # <<>> /\ OnTree
  BY DEF TreeSync, RootSync
<1>1. PICK S : stack \in Seq(S)
  BY <1>0 DEF OnTree, Tree, IsWalk
<1>2. Len(stack) \in Nat \ {0} /\ Top = stack[1]
  BY <1>0, <1>1, StackShapes DEF Top
<1>3. \A i \in 1 .. Len(stack) : IsFrame(stack[i])
  BY <1>0 DEF OnTree, Tree, IsWalk
<1>4. \A i \in 1 .. Len(stack) : stack[i].group \in Groups /\ \A x \in stack[i].todo : x \in plan.under[stack[i].group]
  BY <1>0 DEF OnTree, Tree, Open
<1>5. \A i \in 1 .. Len(stack) - 1 : stack[i].group \in plan.under[stack[i + 1].group]
  BY <1>0 DEF OnTree, Tree, Nested
<1> QED BY <1>0, <1>1, <1>2, <1>3, <1>4, <1>5

(* A case's result is counted in the top frame. *)
LEMMA CaseCounted ==
    ASSUME TreeSync, Counted(plan.under, stack), pc \in Walking, plan' = plan,
           NEW x, x \in stack[1].todo, NEW r, IsRes(r), r.item = x,
           stack' = <<WithResult(Without(Top, x), r)>> \o Tail(stack)
    PROVE  Counted(plan.under, stack)'
<1> DEFINE w == Without(Top, x)
           f == WithResult(w, r)
<1>0. /\ stack # <<>> /\ Top = stack[1] /\ 1 \in 1 .. Len(stack)
      /\ IsFrame(stack[1]) /\ x \in plan.under[stack[1].group]
  BY WalkTop
<1>1. PICK S : stack \in Seq(S)
  BY WalkTop
<1>2. IsFrame(w) /\ w.group = stack[1].group /\ w.todo = stack[1].todo \ {x} /\ w.res = stack[1].res
  BY <1>0, FrameParts
<1> HIDE DEF w
<1>3. /\ f.group = w.group /\ f.res = Append(w.res, r)
      /\ r.verdict = "AC" => f.todo = w.todo
  BY <1>2, FrameParts
<1>4. stack' = Put(stack, f)
  BY DEF Put, f, w
<1> HIDE DEF f
<1>5. Holds(plan.under[stack[1].group], stack[1], {})
  BY <1>0 DEF Counted
<1>6. f.res = Append(stack[1].res, r) /\ f.group = stack[1].group /\ (r.verdict = "AC" => f.todo = stack[1].todo \ {x})
  BY <1>2, <1>3
<1>7. Holds(plan.under[f.group], f, {})
  BY <1>0, <1>5, <1>6, HoldsCounted
<1>8. Counted(plan.under, Put(stack, f))
  BY <1>0, <1>1, <1>6, <1>7, CountedPut
<1> QED BY <1>4, <1>8

(* A group's result is counted in the frame of its parent. *)
LEMMA GroupCounted ==
    ASSUME TreeSync, Counted(plan.under, stack), pc \in Walking, plan' = plan,
           NEW v \in Verdicts, NEW score, EmitGroup(v, score)
    PROVE  /\ Counted(plan.under, stack)' /\ pc' \in {"next", "unwind"}
           /\ \E r : received' = Append(received, r) /\ r.item = stack[1].group /\ r.verdict = v
<1> DEFINE r == [NoCase EXCEPT !.item = Top.group, !.verdict = v, !.score = score]
           n == Len(stack)
<1>0. stack # <<>> /\ Top = stack[1] /\ n \in Nat \ {0}
  BY WalkTop
<1>1. PICK S : stack \in Seq(S)
  BY WalkTop
<1>2. IsRes(r) /\ r.item = stack[1].group /\ r.verdict = v
  <2>1. r = [item |-> Top.group, verdict |-> v, score |-> score, from |-> NoOrigin]
    <3>1. r = [item |-> Top.group, verdict |-> v, score |-> score, from |-> NoCase.from]
      BY NoCaseParts, ResOfGroup, Zenon
    <3> QED BY <3>1, NoCaseParts
  <2> HIDE DEF r
  <2> QED BY <1>0, <2>1 DEF IsRes, HasParts
<1>3. /\ received' = Append(received, r) /\ pc' \in {"next", "unwind"}
      /\ n = 1 => stack' = <<>>
      /\ n # 1 => stack' = Drop(stack, WithResult(stack[2], r))
  BY DEF EmitGroup, Drop
<1> HIDE DEF r, n
<1>4. CASE n = 1
  <2>1. Len(<<>>) = 0
    OBVIOUS
  <2>2. Counted(plan.under, <<>>)
    BY <2>1 DEF Counted
  <2>3. Counted(plan.under, stack)'
    BY <1>3, <1>4, <2>2
  <2> QED BY <1>2, <1>3, <2>3
<1>5. CASE n # 1
  <2> DEFINE f == WithResult(stack[2], r)
  <2>1. n > 1 /\ 1 \in 1 .. n - 1 /\ 2 \in 1 .. n /\ 1 + 1 = 2 /\ 2 - 1 = 1
    BY <1>0, <1>5
  <2>2. IsFrame(stack[2]) /\ stack[1].group \in plan.under[stack[2].group]
    BY <2>1, WalkTop DEF n
  <2>3. f.group = stack[2].group /\ f.res = Append(stack[2].res, r) /\ (r.verdict = "AC" => f.todo = stack[2].todo)
    BY <2>2, FrameParts
  <2> HIDE DEF f
  <2>4. Holds(plan.under[stack[2].group], stack[2], {stack[1].group})
    <3>1. Holds(plan.under[stack[2].group], stack[2], IF 2 = 1 THEN {} ELSE {stack[2 - 1].group})
      BY <2>1, Zenon DEF Counted, n
    <3> QED BY <2>1, <3>1
  <2>5. Holds(plan.under[f.group], f, {})
    BY <1>2, <2>2, <2>3, <2>4, HoldsCounted
  <2>6. Counted(plan.under, Drop(stack, f))
    BY <1>0, <1>1, <2>1, <2>3, <2>5, CountedDrop DEF n
  <2>7. Counted(plan.under, stack)'
    BY <1>3, <1>5, <2>6 DEF f
  <2> QED BY <1>2, <1>3, <2>7
<1> QED BY <1>4, <1>5

LEMMA HoldsAside ==
    ASSUME NEW u, NEW f, Holds(u, f, {}), NEW x, NEW h, h.res = f.res, h.todo = f.todo \ {x}
    PROVE  Holds(u, h, {x})
BY DEF Holds

(* A result appended to the stream has a verdict like the others. *)
LEMMA VerdictsGrow ==
    ASSUME NEW R, received \in Seq(R), \A i \in 1 .. Len(received) : received[i].verdict \in Verdicts,
           NEW r, r.verdict \in Verdicts, received' = Append(received, r)
    PROVE  \A i \in 1 .. Len(received') : received'[i].verdict \in Verdicts
<1> DEFINE n == Len(received)
<1>1. /\ n \in Nat /\ Len(received') = n + 1 /\ received'[n + 1] = r
      /\ \A i \in 1 .. n : received'[i] = received[i]
  OBVIOUS
<1>2. \A i \in 1 .. n : received[i].verdict \in Verdicts
  OBVIOUS
<1> HIDE DEF n
<1>3. \A i \in 1 .. n + 1 : i \in 1 .. n \/ i = n + 1
  BY <1>1
<1> QED BY <1>1, <1>2, <1>3

(* Which verdict the end of a group can give without a custom grader. *)
LEMMA MergeGraded ==
    ASSUME TreeSync, Counted(plan.under, stack), MergeGroup
    PROVE  /\ pc = "next" /\ UNCHANGED <<plan, cur, cache>>
           /\ \/ UNCHANGED received /\ pc' = "unwind" /\ stack' = <<>>
              \/ UNCHANGED <<received, stack>> /\ pc' = "grade" /\ Attr(stack[1].group).custom
              \/ \E v \in Verdicts : \E score :
                    /\ EmitGroup(v, score)
                    /\ v = "AC" /\ Strict(stack[1].group) =>
                        \A k \in 1 .. Len(stack[1].res) : stack[1].res[k].verdict = "AC"
<1> DEFINE g == Top.group
           results == IF Attr(g).ignoreSample THEN Tail(Top.res) ELSE Top.res
           graded == defaultGrader(results, Attr(g))
<1>1. /\ pc = "next" /\ UNCHANGED <<plan, cur, cache>>
      /\ \/ UNCHANGED received /\ pc' = "unwind" /\ stack' = <<>>
         \/ UNCHANGED <<received, stack>> /\ pc' = "grade" /\ Attr(g).custom
         \/ EmitGroup(graded.verdict, graded.score) /\ ~(Attr(g).ignoreSample /\ Top.res = <<>>)
  BY DEF MergeGroup, AllDone, Abort, callVars, caseVars
<1>2. Top = stack[1] /\ 1 \in 1 .. Len(stack)
  BY <1>1, WalkTop DEF Walking
<1>3. Holds(plan.under[stack[1].group], stack[1], {})
  BY <1>2 DEF Counted
<1> DEFINE q == stack[1].res
<1>4. PICK R : q \in Seq(R)
  BY <1>3 DEF Holds
<1>5. \A k \in 1 .. Len(q) : q[k].verdict \in Verdicts
  BY <1>3 DEF Holds, IsRes
<1> HIDE DEF q
<1>6. ASSUME ~(Attr(g).ignoreSample /\ q = <<>>)
      PROVE  /\ \E S : results \in Seq(S)
             /\ \A k \in 1 .. Len(results) : results[k].verdict \in Verdicts
  <2>1. CASE Attr(g).ignoreSample
    <3> DEFINE t == Tail(q)
    <3>1. q # <<>> /\ results = t
      BY <1>2, <1>6, <2>1 DEF q
    <3>2. t \in Seq(R) /\ Len(t) = Len(q) - 1 /\ (\A i \in 1 .. Len(q) - 1 : t[i] = q[i + 1])
      BY <1>4, <3>1, HeadTailProperties
    <3>3. Len(q) \in Nat /\ \A i \in 1 .. Len(q) - 1 : i + 1 \in 1 .. Len(q)
      BY <1>4
    <3> HIDE DEF t, results
    <3>4. \A k \in 1 .. Len(t) : t[k].verdict \in Verdicts
      BY <1>5, <3>2, <3>3
    <3> QED BY <3>1, <3>2, <3>4
  <2>2. CASE ~Attr(g).ignoreSample
    <3>1. results = q
      BY <1>2, <2>2 DEF q
    <3> HIDE DEF results
    <3> QED BY <1>4, <1>5, <3>1
  <2> QED BY <2>1, <2>2
<1>7. ASSUME ~(Attr(g).ignoreSample /\ q = <<>>)
      PROVE  /\ graded.verdict \in Verdicts
             /\ graded.verdict = "AC" /\ Strict(g) => \A k \in 1 .. Len(q) : q[k].verdict = "AC"
  <2>1. PICK S : results \in Seq(S)
    BY <1>6, <1>7
  <2>2. \A k \in 1 .. Len(results) : results[k].verdict \in Verdicts
    BY <1>6, <1>7
  <2>3. Strict(g) => results = q
    BY <1>2 DEF Strict, q
  <2> HIDE DEF results
  <2> DEFINE tg == Attr(g)
  <2>4. Strict(g) => tg.verdicts \in {"WORST_ERROR", "FIRST_ERROR"} /\ ~tg.anyAccepts
    BY DEF Strict
  <2> HIDE DEF tg
  <2>5. /\ defaultGrader(results, tg).verdict \in Verdicts
        /\ tg.verdicts \in {"WORST_ERROR", "FIRST_ERROR"} /\ ~tg.anyAccepts
                /\ defaultGrader(results, tg).verdict = "AC"
              => \A k \in 1 .. Len(results) : results[k].verdict = "AC"
    BY <2>1, <2>2, GradeLoopVerdicts
  <2> QED BY <2>3, <2>4, <2>5 DEF tg
<1>8. graded.verdict \in Verdicts /\ EmitGroup(graded.verdict, graded.score)
        => \E v \in Verdicts : \E score : EmitGroup(v, score) /\ v = graded.verdict
  BY Zenon
<1> HIDE DEF graded, results
<1>9. Attr(g).custom <=> Attr(stack[1].group).custom
  BY <1>2
<1>10. g = stack[1].group /\ Top.res = q
  BY <1>2 DEF q
<1> HIDE DEF g
<1> QED BY <1>1, <1>7, <1>8, <1>9, <1>10 DEF q

(* What a step within a case makes of its result. *)
LEMMA CaseJudged ==
    ASSUME LinkFile \/ RunProgram \/ DiffOutput \/ RunValidator \/ RunInteractive \/ RemoveEntry \/ ClearDir
    PROVE  cur' = cur \/ \E v \in Verdicts : \E score, from :
                            cur' = [cur EXCEPT !.verdict = v, !.score = score, !.from = from]
<1>1. CASE LinkFile \/ RemoveEntry \/ ClearDir
  BY <1>1 DEF LinkFile, RemoveEntry, ClearDir, callVars
<1>2. CASE RunProgram
  <2>1. cur' = cur \/ \E v \in {"RTE", "TLE"} : Judged(v, 0, [NoOrigin EXCEPT !.input = files["input"]])
    BY <1>2 DEF RunProgram
  <2> QED BY <2>1 DEF Judged, Verdicts
<1>3. CASE DiffOutput
  <2>1. cur' = cur \/ \E v \in {"AC", "WA"} : \E score, from : Judged(v, score, from)
    BY <1>3 DEF DiffOutput
  <2> QED BY <2>1 DEF Judged, Verdicts
<1>4. CASE RunValidator
  <2>1. cur' = cur \/ \E v \in {"AC", "WA"} : \E score, from : Judged(v, score, from)
    BY <1>4 DEF RunValidator
  <2> QED BY <2>1 DEF Judged, Verdicts
<1>5. CASE RunInteractive
  BY <1>5, InteractiveEnds DEF Judged
<1> QED BY <1>1, <1>2, <1>3, <1>4, <1>5

LEMMA ResJudgedIs ==
    ASSUME NEW r, IsRes(r), NEW v \in Verdicts, NEW s, NEW o
    PROVE  IsRes([r EXCEPT !.verdict = v, !.score = s, !.from = o])
<1> DEFINE e == [r EXCEPT !.verdict = v, !.score = s, !.from = o]
<1>1. e = [item |-> r.item, verdict |-> v, score |-> s, from |-> o]
  BY ResJudged, Zenon DEF IsRes
<1> HIDE DEF e
<1>2. IsRes(e)
  BY <1>1 DEF IsRes, HasParts
<1> QED BY <1>2 DEF e

LEMMA NoCaseIs ==
    ASSUME NEW x
    PROVE  IsRes([NoCase EXCEPT !.item = x]) /\ [NoCase EXCEPT !.item = x].item = x
<1> DEFINE e == [NoCase EXCEPT !.item = x]
<1>1. e = [item |-> x, verdict |-> NoCase.verdict, score |-> NoCase.score, from |-> NoCase.from]
  BY NoCaseParts, ResRenamed, Zenon
<1>2. NoCase.verdict \in Verdicts
  BY DEF NoCase, Verdicts
<1> HIDE DEF e
<1>3. IsRes(e) /\ e.item = x
  BY <1>1, <1>2 DEF IsRes, HasParts
<1> QED BY <1>3 DEF e

LEMMA RescoredIs ==
    ASSUME NEW r, IsRes(r), NEW g, NEW x
    PROVE  /\ IsRes([Rescored(r, g) EXCEPT !.item = x])
           /\ [Rescored(r, g) EXCEPT !.item = x].item = x
           /\ [Rescored(r, g) EXCEPT !.item = x].verdict = r.verdict
           /\ [Rescored(r, g) EXCEPT !.item = x].from = r.from
<1> DEFINE q == Rescored(r, g)
           e == [q EXCEPT !.item = x]
<1>1. IsRes(q) /\ q.verdict = r.verdict /\ q.from = r.from
  <2>1. CASE q = r
    <3> HIDE DEF q
    <3> QED BY <2>1
  <2>2. CASE q # r
    <3>1. \E s : q = [r EXCEPT !.score = s]
      BY <2>2 DEF Rescored
    <3>2. PICK s : q = [r EXCEPT !.score = s]
      BY <3>1
    <3> HIDE DEF q
    <3>3. q = [item |-> r.item, verdict |-> r.verdict, score |-> s, from |-> r.from]
      BY <3>2, ResRescored, Zenon DEF IsRes
    <3> QED BY <3>3 DEF IsRes, HasParts
  <2> QED BY <2>1, <2>2
<1> HIDE DEF q
<1>2. e = [item |-> x, verdict |-> q.verdict, score |-> q.score, from |-> q.from]
  BY <1>1, ResRenamed, Zenon DEF IsRes
<1> HIDE DEF e
<1>3. IsRes(e) /\ e.item = x /\ e.verdict = r.verdict /\ e.from = r.from
  BY <1>1, <1>2 DEF IsRes, HasParts
<1> QED BY <1>3, Zenon DEF e, q

LEMMA ResultStart == Init => ResultSync
<1> SUFFICES ASSUME Init PROVE ResultSync
  OBVIOUS
<1>1. stack = <<>> /\ cache = <<>> /\ received = <<>> /\ pc = "begin"
  BY DEF Init
<1>2. Len(<<>>) = 0 /\ <<>> \in Seq({})
  OBVIOUS
<1> QED BY <1>1, <1>2, TreeStart DEF ResultSync, Counted, InCase

LEMMA ResultStep == ResultSync /\ [Next]_vars => ResultSync'
<1> SUFFICES ASSUME ResultSync, [Next]_vars PROVE ResultSync'
  OBVIOUS
<1>0. TreeSync /\ TreeSync' /\ Counted(plan.under, stack)
  BY TreeStep DEF ResultSync
<1>t. pc \in Walking => Top = stack[1] /\ 1 \in 1 .. Len(stack) /\ IsFrame(stack[1]) /\ stack # <<>> /\ \E S : stack \in Seq(S)
  BY <1>0, WalkTop
<1>k. UNCHANGED <<cache, received>> =>
        /\ (\E E : cache \in Seq(E))'
        /\ (\A i \in 1 .. Len(cache) : IsRes(cache[i].result))'
        /\ (\A i \in 1 .. Len(received) : received[i].verdict \in Verdicts)'
  BY DEF ResultSync
<1>s. plan' = plan /\ (stack' = stack \/ stack' = <<>>) => Counted(plan.under, stack)'
  <2>1. Len(<<>>) = 0
    OBVIOUS
  <2>2. Counted(plan.under, <<>>)
    BY <2>1 DEF Counted
  <2> QED BY <1>0, <2>2
<1> USE DEF callVars, caseVars
<1>1. CASE ResetPermissions \/ StartSandbox
  <2>1. /\ UNCHANGED <<plan, received, cache>> /\ pc' \in {"start", "unwind"}
        /\ stack' = stack \/ stack' = <<>>
    BY <1>1 DEF ResetPermissions, StartSandbox, Abort
  <2> QED BY <1>0, <1>k, <1>s, <2>1 DEF ResultSync, InCase
<1>2. CASE EnterRoot
  <2> DEFINE f == Frame(plan.root)
  <2>1. /\ pc' = "next" /\ UNCHANGED <<plan, received, cache>> /\ stack' = <<f>>
    BY <1>2 DEF EnterRoot
  <2>2. Holds(plan.under[f.group], f, {})
    BY HoldsFresh DEF Frame
  <2> HIDE DEF f
  <2>3. Len(<<f>>) = 1 /\ <<f>>[1] = f
    OBVIOUS
  <2>4. Counted(plan.under, <<f>>)
    BY <2>2, <2>3 DEF Counted
  <2> QED BY <1>0, <1>k, <2>1, <2>4 DEF ResultSync, InCase
<1>3. CASE EnterGroup
  <2>1. PICK x \in Groups :
            /\ stack' = <<Frame(x), Without(Top, x)>> \o Tail(stack)
            /\ pc = "next" /\ pc' = pc /\ UNCHANGED <<plan, received, cache>>
    BY <1>3 DEF EnterGroup, IsNext
  <2> DEFINE f == Frame(x)
             w == Without(Top, x)
  <2>2. Top = stack[1] /\ 1 \in 1 .. Len(stack) /\ IsFrame(stack[1]) /\ stack # <<>>
    BY <1>t, <2>1 DEF Walking
  <2>3. PICK S : stack \in Seq(S)
    BY <1>t, <2>1 DEF Walking
  <2>4. w.group = stack[1].group /\ w.todo = stack[1].todo \ {x} /\ w.res = stack[1].res
    BY <2>2, FrameParts
  <2>5. f.group = x /\ Holds(plan.under[f.group], f, {})
    BY HoldsFresh DEF Frame
  <2>6. stack' = Push(stack, f, w)
    BY <2>1 DEF Push
  <2> HIDE DEF f, w
  <2>7. Holds(plan.under[stack[1].group], stack[1], {})
    BY <1>0, <2>2 DEF Counted
  <2>8. Holds(plan.under[w.group], w, {f.group})
    BY <2>4, <2>5, <2>7, HoldsAside
  <2>9. Counted(plan.under, Push(stack, f, w))
    BY <1>0, <2>2, <2>3, <2>4, <2>5, <2>8, CountedPush
  <2> QED BY <1>0, <1>k, <2>1, <2>6, <2>9 DEF ResultSync, InCase
<1>4. CASE ReuseCase
  <2>1. PICK x \in Cases, e \in ToSet(cache) :
            /\ x \in Top.todo
            /\ stack' = <<WithResult(Without(Top, x), [Rescored(e.result, Top.group) EXCEPT !.item = x])>> \o Tail(stack)
            /\ pc = "next" /\ pc' = pc /\ UNCHANGED <<plan, received, cache>>
    BY <1>4 DEF ReuseCase, IsNext
  <2>2. IsRes(e.result)
    BY DEF ResultSync, ToSet
  <2> DEFINE r == [Rescored(e.result, Top.group) EXCEPT !.item = x]
  <2>3. IsRes(r) /\ r.item = x
    BY <2>2, RescoredIs
  <2> HIDE DEF r
  <2>4. x \in stack[1].todo /\ pc \in Walking
    BY <1>t, <2>1 DEF Walking
  <2>5. stack' = <<WithResult(Without(Top, x), r)>> \o Tail(stack)
    BY <2>1 DEF r
  <2>6. Counted(plan.under, stack)'
    BY <1>0, <2>1, <2>3, <2>4, <2>5, CaseCounted
  <2> QED BY <1>0, <1>k, <2>1, <2>6 DEF ResultSync, InCase
<1>5. CASE StartCase \/ StartInteractive
  <2>1. PICK x : cur' = [NoCase EXCEPT !.item = x]
    BY <1>5 DEF StartCase, StartInteractive
  <2>2. /\ UNCHANGED <<plan, received, cache>> /\ pc' \in {"link", "ilink", "unwind"} /\ stack' \in {stack, <<>>}
    BY <1>5 DEF StartCase, StartInteractive, Abort
  <2>3. IsRes(cur')
    BY <2>1, NoCaseIs
  <2> QED BY <1>0, <1>k, <1>s, <2>2, <2>3 DEF ResultSync
<1>6. CASE LinkFile \/ RunProgram \/ DiffOutput \/ RunValidator \/ RunInteractive \/ RemoveEntry \/ ClearDir
  <2>1. /\ UNCHANGED <<plan, received, cache>>
        /\ pc \in InCase /\ pc' # "grade"
        /\ stack' = stack \/ stack' = <<>>
    <3>1. CASE LinkFile \/ RemoveEntry \/ ClearDir
      BY <3>1 DEF LinkFile, AfterLinks, RemoveEntry, ClearDir, Abort, InCase
    <3>2. CASE RunInteractive
      BY <3>2, InteractiveEnds DEF Judged, Abort, InCase
    <3>3. CASE RunProgram \/ DiffOutput \/ RunValidator
      BY <3>3 DEF RunProgram, DiffOutput, RunValidator, Judged, SandboxFails, Abort, InCase
    <3> QED BY <1>6, <3>1, <3>2, <3>3
  <2>2. stack' = stack \/ stack' = <<>>
    BY <2>1
  <2>3. IsRes(cur)
    BY <2>1 DEF ResultSync
  <2>4. IsRes(cur')
    <3>1. CASE cur' = cur
      BY <2>3, <3>1
    <3>2. CASE cur' # cur
      <4>1. PICK v \in Verdicts : \E score, from : cur' = [cur EXCEPT !.verdict = v, !.score = score, !.from = from]
        BY <1>6, <3>2, CaseJudged, Zenon
      <4>2. PICK score, from : cur' = [cur EXCEPT !.verdict = v, !.score = score, !.from = from]
        BY <4>1
      <4>3. IsRes([cur EXCEPT !.verdict = v, !.score = score, !.from = from])
        BY <2>3, ResJudgedIs
      <4> QED BY <4>2, <4>3, Zenon
    <3> QED BY <3>1, <3>2
  <2> QED BY <1>0, <1>k, <1>s, <2>1, <2>2, <2>4 DEF ResultSync
<1>7. CASE EmitCase
  <2>1. PICK key :
        /\ stack' = <<WithResult(Without(Top, cur.item), cur)>> \o Tail(stack)
        /\ pc = "emit" /\ pc' = "next" /\ UNCHANGED plan
        /\ received' \in {received, Append(received, cur)}
        /\ cache' = Append(cache, [key |-> key, result |-> cur])
    BY <1>7 DEF EmitCase
  <2>2. IsRes(cur) /\ cur.item \in stack[1].todo /\ pc \in Walking
    BY <1>0, <2>1 DEF ResultSync, TreeSync, InCase, Walking
  <2>3. Counted(plan.under, stack)'
    BY <1>0, <2>1, <2>2, CaseCounted
  <2>4. \A i \in 1 .. Len(received') : received'[i].verdict \in Verdicts
    <3>1. PICK R : received \in Seq(R)
      BY <1>0 DEF TreeSync, RootSync
    <3>2. CASE received' = Append(received, cur)
      BY <2>2, <3>1, <3>2, VerdictsGrow DEF ResultSync, IsRes
    <3>3. CASE received' = received
      BY <3>3 DEF ResultSync
    <3> QED BY <2>1, <3>2, <3>3
  <2>5. (\E E : cache' \in Seq(E)) /\ \A i \in 1 .. Len(cache') : IsRes(cache'[i].result)
    <3> DEFINE e == [key |-> key, result |-> cur]
               n == Len(cache)
    <3>0. e.result = cur
      OBVIOUS
    <3>1. PICK E : cache \in Seq(E)
      BY DEF ResultSync
    <3>2. cache' = Append(cache, e)
      BY <2>1
    <3> HIDE DEF e
    <3>3. /\ cache' \in Seq(E \cup {e}) /\ n \in Nat /\ Len(cache') = n + 1 /\ cache'[n + 1] = e
          /\ \A i \in 1 .. n : cache'[i] = cache[i]
      BY <3>1, <3>2
    <3>4. \A i \in 1 .. n : IsRes(cache[i].result)
      BY DEF ResultSync
    <3> HIDE DEF n
    <3>5. \A i \in 1 .. n + 1 : i \in 1 .. n \/ i = n + 1
      BY <3>3
    <3> QED BY <2>2, <3>0, <3>3, <3>4, <3>5
  <2> QED BY <1>0, <2>1, <2>3, <2>4, <2>5 DEF ResultSync, InCase
<1>8. CASE MergeGroup \/ RunGrader
  <2>1. /\ pc \in {"next", "grade"} /\ UNCHANGED <<plan, cache>>
        /\ \/ UNCHANGED received /\ pc' = "unwind" /\ stack' = <<>>
           \/ UNCHANGED <<received, stack>> /\ pc' = "grade" /\ Attr(stack[1].group).custom
           \/ \E v \in Verdicts : \E score : EmitGroup(v, score)
    <3>1. CASE MergeGroup
      BY <1>0, <3>1, MergeGraded
    <3>2. CASE RunGrader
      BY <3>2 DEF RunGrader, SandboxFails, Abort
    <3> QED BY <1>8, <3>1, <3>2
  <2>2. CASE \E v \in Verdicts : \E score : EmitGroup(v, score)
    <3>1. PICK v \in Verdicts : \E score : EmitGroup(v, score)
      BY <2>2
    <3>2. PICK score : EmitGroup(v, score)
      BY <3>1
    <3>3. pc \in Walking /\ plan' = plan
      BY <2>1 DEF Walking
    <3>4. /\ Counted(plan.under, stack)' /\ pc' \in {"next", "unwind"}
          /\ \E r : received' = Append(received, r) /\ r.item = stack[1].group /\ r.verdict = v
      BY <1>0, <3>2, <3>3, GroupCounted
    <3>5. \A i \in 1 .. Len(received') : received'[i].verdict \in Verdicts
      <4>1. PICK R : received \in Seq(R)
        BY <1>0 DEF TreeSync, RootSync
      <4> QED BY <3>4, <4>1, VerdictsGrow DEF ResultSync
    <3> QED BY <1>0, <1>k, <2>1, <3>4, <3>5 DEF ResultSync, InCase
  <2>3. CASE ~\E v \in Verdicts : \E score : EmitGroup(v, score)
    <3>1. pc' = "grade" => Attr(stack[1].group)'.custom
      BY <2>1, <2>3 DEF Attr
    <3> QED BY <1>0, <1>k, <1>s, <2>1, <2>3, <3>1 DEF ResultSync, InCase, Attr
  <2> QED BY <2>2, <2>3
<1>9. CASE RunDeferred \/ Return \/ JudgeCrash
  <2>1. UNCHANGED <<plan, received, stack, cache>> /\ pc' \in {"unwind", "over", "crashed"}
    BY <1>9 DEF RunDeferred, Return, JudgeCrash
  <2> QED BY <1>0, <1>k, <1>s, <2>1 DEF ResultSync, InCase
<1>10. CASE Over \/ UNCHANGED vars
  <2>1. UNCHANGED <<plan, received, stack, pc, cur, cache>>
    BY <1>10 DEF Over, vars
  <2> QED BY <1>0, <1>k, <1>s, <2>1 DEF ResultSync, Attr
<1>11. CASE Retry
  <2>1. pc' = "begin" /\ received' = <<>> /\ plan' = plan /\ stack' = <<>> /\ cache' = <<>>
    BY <1>11 DEF Retry
  <2>2. Len(<<>>) = 0 /\ <<>> \in Seq({})
    OBVIOUS
  <2> QED BY <1>0, <1>s, <2>1, <2>2 DEF ResultSync, InCase
<1> QED BY <1>1, <1>2, <1>3, <1>4, <1>5, <1>6, <1>7, <1>8, <1>9, <1>10, <1>11
        DEF Next, EvaluatorNext

(* A group without flags is accepted only if every child was evaluated and  *)
(* accepted (eval.go 329-350, 396): a frame loses no child but by a failure *)
(* that its results show. *)
THEOREM AcceptedGroupsAreComplete == Spec => AcceptedMeansAll
<1> DEFINE Sound(i) == LET r == received'[i]
                       IN  i > Len(received) /\ r.item \in Groups /\ r.verdict = "AC" /\ Strict(r.item) =>
                             /\ {Top.res[k].item : k \in DOMAIN Top.res} = plan.under[r.item]
                             /\ \A k \in DOMAIN Top.res : Top.res[k].verdict = "AC"
<1>1. ASSUME ResultSync, [Next]_vars, NEW i \in 1 .. Len(received') PROVE Sound(i)
  <2> SUFFICES ASSUME i > Len(received), received'[i].item \in Groups, received'[i].verdict = "AC", Strict(received'[i].item)
               PROVE  /\ {Top.res[k].item : k \in DOMAIN Top.res} = plan.under[received'[i].item]
                      /\ \A k \in DOMAIN Top.res : Top.res[k].verdict = "AC"
    OBVIOUS
  <2>0. TreeSync /\ Counted(plan.under, stack)
    BY <1>1 DEF ResultSync
  <2>1. PICK R : received \in Seq(R)
    BY <2>0 DEF TreeSync, RootSync
  <2>2. \A r : received' = Append(received, r) => received'[i] = r
    BY <1>1, <2>1
  <2>3. received' # received /\ received' # <<>>
    <3>1. Len(<<>>) = 0
      OBVIOUS
    <3> QED BY <1>1, <2>1, <3>1
  <2>4. CASE EmitCase
    <3>1. received'[i] = cur /\ cur.item \in Cases
      BY <2>0, <2>2, <2>3, <2>4 DEF EmitCase, TreeSync, RootSync, InCase
    <3> QED BY <3>1 DEF Cases
  <2>5. CASE RunGrader
    <3>1. pc = "grade" /\ plan' = plan
      BY <2>5 DEF RunGrader, callVars
    <3>2. \E v \in Verdicts : \E s : EmitGroup(v, s)
      BY <2>3, <2>5 DEF RunGrader
    <3>3. pc \in Walking
      BY <3>1 DEF Walking
    <3>4. \E r : received' = Append(received, r) /\ r.item = stack[1].group
      BY <2>0, <3>1, <3>2, <3>3, GroupCounted
    <3>5. Attr(stack[1].group).custom
      BY <1>1, <3>1 DEF ResultSync
    <3> QED BY <2>2, <3>4, <3>5 DEF Strict
  <2>6. CASE MergeGroup
    <3>1. pc = "next" /\ plan' = plan
      BY <2>0, <2>6, MergeGraded
    <3>2. PICK v \in Verdicts : \E score :
            /\ EmitGroup(v, score)
            /\ v = "AC" /\ Strict(stack[1].group) =>
                \A k \in 1 .. Len(stack[1].res) : stack[1].res[k].verdict = "AC"
      BY <2>0, <2>3, <2>6, MergeGraded
    <3>3. pc \in Walking
      BY <3>1 DEF Walking
    <3>4. \E r : received' = Append(received, r) /\ r.item = stack[1].group /\ r.verdict = v
      BY <2>0, <3>1, <3>2, <3>3, GroupCounted
    <3>5. received'[i].item = stack[1].group /\ received'[i].verdict = v
      BY <2>2, <3>4
    <3>6. \A k \in 1 .. Len(stack[1].res) : stack[1].res[k].verdict = "AC"
      BY <3>2, <3>5
    <3>7. Top = stack[1] /\ 1 \in 1 .. Len(stack) /\ Top.todo = {}
      BY <2>0, <2>6, <3>3, WalkTop DEF MergeGroup, AllDone
    <3>8. Holds(plan.under[stack[1].group], stack[1], {})
      BY <2>0, <3>7 DEF Counted
    <3> DEFINE q == stack[1].res
    <3>9. DOMAIN q = 1 .. Len(q)
      BY <3>8 DEF Holds
    <3>10. /\ \A k \in DOMAIN q : q[k].item \in plan.under[stack[1].group]
           /\ \A x \in plan.under[stack[1].group] : \E k \in DOMAIN q : q[k].item = x
      BY <3>6, <3>7, <3>8, <3>9 DEF Holds
    <3>11. \A k \in DOMAIN q : q[k].verdict = "AC"
      BY <3>6, <3>9
    <3> HIDE DEF q
    <3>12. {q[k].item : k \in DOMAIN q} = plan.under[stack[1].group]
      BY <3>10
    <3> QED BY <3>5, <3>7, <3>11, <3>12 DEF q
  <2>7. CASE ~EmitCase /\ ~RunGrader /\ ~MergeGroup
    <3>1. received' = received \/ received' = <<>>
      BY <1>1, <2>7 DEF Next, EvaluatorNext, vars, callVars, caseVars, Over, ResetPermissions, StartSandbox, EnterRoot,
            EnterGroup, ReuseCase, StartCase, StartInteractive, LinkFile, RunProgram, DiffOutput, RunValidator,
            RunInteractive, RemoveEntry, ClearDir, RunDeferred, Return, JudgeCrash, Retry
    <3> QED BY <2>3, <3>1
  <2> QED BY <2>4, <2>5, <2>6, <2>7
<1>2. ResultSync /\ [Next]_vars => [\A i \in 1 .. Len(received') : Sound(i)]_vars
  BY <1>1
<1> QED BY <1>2, ResultStart, ResultStep, PTL DEF Spec, AcceptedMeansAll

-----------------------------------------------------------------------------
(* The files a case is run and judged on are its own, however the names were *)
(* left by the case before. *)
ProgramLinks == <<"input", "output", "error">>
ValidatorLinks == <<"v.input", "v.team_output", "v.judge_answer">>
InteractiveLinks == <<"v.input", "v.judge_answer", "input", "output">>

Single == \A f \in FileNames : files[f] = {} \/ \E c : files[f] = {c}

RunInput == files["input"] = {plan.input[cur.item]}
RunOutput == files["output"] = {cur.item}
JudgedInput == files["v.input"] = {plan.input[cur.item]}
JudgedOutput == files["v.team_output"] = {cur.item}
JudgedAnswer == files["v.judge_answer"] = {plan.answer[cur.item]}

ProgramLinked ==
    /\ pc = "link" => \/ work = ProgramLinks
                      \/ work = Tail(ProgramLinks) /\ RunInput
                      \/ work = Tail(Tail(ProgramLinks)) /\ RunInput /\ RunOutput
    /\ pc \in {"run", "diff", "vlink", "validate"} => RunInput /\ RunOutput
    /\ pc \in {"link", "run", "diff", "vlink", "validate"} => ~plan.interactive

ValidatorLinked ==
    /\ pc = "vlink" => \/ work = ValidatorLinks
                       \/ work = Tail(ValidatorLinks) /\ JudgedInput
                       \/ work = Tail(Tail(ValidatorLinks)) /\ JudgedInput /\ JudgedOutput
    /\ pc = "validate" => JudgedInput /\ JudgedOutput /\ JudgedAnswer

InteractiveLinked ==
    /\ pc = "ilink" => \/ work = InteractiveLinks
                       \/ work = Tail(InteractiveLinks) /\ JudgedInput
                       \/ work = Tail(Tail(InteractiveLinks)) /\ JudgedInput /\ JudgedAnswer
                       \/ work = Tail(Tail(Tail(InteractiveLinks))) /\ JudgedInput /\ JudgedAnswer
    /\ pc = "interact" => JudgedInput /\ JudgedAnswer
    /\ pc \in {"ilink", "interact"} => plan.interactive

FileSync ==
    /\ ResultSync
    /\ Single
    /\ ProgramLinked
    /\ ValidatorLinked
    /\ InteractiveLinked
    /\ pc \in {"clear", "emit"} => IsOwn(cur, stack[1].group)

LEMMA LinkLists ==
    /\ Head(ProgramLinks) = "input" /\ Tail(ProgramLinks) # <<>>
    /\ Head(Tail(ProgramLinks)) = "output" /\ Tail(Tail(ProgramLinks)) # <<>>
    /\ Head(Tail(Tail(ProgramLinks))) = "error" /\ Tail(Tail(Tail(ProgramLinks))) = <<>>
    /\ Head(ValidatorLinks) = "v.input" /\ Tail(ValidatorLinks) # <<>>
    /\ Head(Tail(ValidatorLinks)) = "v.team_output" /\ Tail(Tail(ValidatorLinks)) # <<>>
    /\ Head(Tail(Tail(ValidatorLinks))) = "v.judge_answer" /\ Tail(Tail(Tail(ValidatorLinks))) = <<>>
BY DEF ProgramLinks, ValidatorLinks

LEMMA InteractiveLists ==
    /\ Head(InteractiveLinks) = "v.input" /\ Tail(InteractiveLinks) # <<>>
    /\ Head(Tail(InteractiveLinks)) = "v.judge_answer" /\ Tail(Tail(InteractiveLinks)) # <<>>
    /\ Head(Tail(Tail(InteractiveLinks))) = "input" /\ Tail(Tail(Tail(InteractiveLinks))) # <<>>
    /\ Head(Tail(Tail(Tail(InteractiveLinks)))) = "output" /\ Tail(Tail(Tail(Tail(InteractiveLinks)))) = <<>>
BY DEF InteractiveLinks

LEMMA LinkSources ==
    /\ LinkSource("v.input") = {plan.input[cur.item]}
    /\ ~plan.interactive => /\ LinkSource("input") = {plan.input[cur.item]}
                            /\ LinkSource("output") = {cur.item}
                            /\ LinkSource("error") = {cur.item}
    /\ plan.interactive => LinkSource("input") = {"fifo"} /\ LinkSource("output") = {"fifo"}
    /\ LinkSource("v.team_output") = files["output"]
    /\ LinkSource("v.judge_answer") = {plan.answer[cur.item]}
BY DEF LinkSource, ProgramWrite

LEMMA Names == /\ DOMAIN files = FileNames => \A f \in FileNames : f \in DOMAIN files
               /\ \A f \in {"input", "output", "error", "v.input", "v.team_output", "v.judge_answer", "v.score"} : f \in FileNames
BY DEF FileNames, ProgramRead, ProgramWrite, ValRead, ValWrite

(* What judging a run makes of the case. *)
LEMMA JudgedIsOwn ==
    ASSUME IsRes(cur), NEW v, NEW score, NEW from, Judged(v, score, from), plan' = plan,
           from.input = {plan.input[cur.item]},
           v \in {"AC", "WA"} => /\ from.answer = {plan.answer[cur.item]}
                                 /\ from.flags = Attr(Top.group).flags
                                 /\ ~plan.interactive => from.output = {cur.item},
           Top = stack[1]
    PROVE  pc' = "clear" /\ IsOwn(cur, stack[1].group)'
<1>1. /\ cur' = [cur EXCEPT !.verdict = v, !.score = score, !.from = from]
      /\ pc' = "clear" /\ stack' = stack
  BY DEF Judged
<1>2. cur' = [item |-> cur.item, verdict |-> v, score |-> score, from |-> from]
  BY <1>1, ResJudged, Zenon DEF IsRes
<1>3. cur'.item = cur.item /\ cur'.verdict = v /\ cur'.from = from
  BY <1>2
<1> QED BY <1>1, <1>3 DEF IsOwn, Attr

LEMMA FileLink ==
    ASSUME FileSync, LinkFile
    PROVE  Single' /\ ProgramLinked' /\ ValidatorLinked' /\ InteractiveLinked' /\ pc' \notin {"clear", "emit"}
<1> DEFINE n == Head(work)
<1>0. DOMAIN files = FileNames /\ (pc \in {"link", "vlink", "ilink"}) /\ plan' = plan /\ cur' = cur
  BY DEF LinkFile, AfterLinks, callVars, FileSync, ResultSync, TreeSync, RootSync, ScoreSync
<1>1. CASE pc' = "unwind"
  <2>1. files' = files
    BY <1>0, <1>1 DEF LinkFile, AfterLinks, Abort
  <2> QED BY <1>1, <2>1 DEF FileSync, Single, ProgramLinked, ValidatorLinked, InteractiveLinked
<1>2. CASE pc' # "unwind"
  <2>1. /\ files[n] = {} /\ files' = [files EXCEPT ![n] = LinkSource(n)]
        /\ work' = Tail(work)
        /\ pc' = IF Tail(work) # <<>> THEN pc ELSE AfterLinks[pc]
    BY <1>2 DEF LinkFile, Abort
  <2>a. AfterLinks["link"] = "run" /\ AfterLinks["vlink"] = "validate" /\ AfterLinks["ilink"] = "interact"
    BY DEF AfterLinks
  <2> HIDE DEF n
  <2>2. \A f \in FileNames : files'[f] = IF f = n THEN LinkSource(n) ELSE files[f]
    BY <1>0, <2>1
  <2>s. (\E c : LinkSource(n) = {c}) => Single'
    BY <2>2 DEF FileSync, Single
  <2>3. CASE pc = "link"
    <3>n. ~plan.interactive
      BY <2>3 DEF FileSync, ProgramLinked
    <3>1. \/ work = ProgramLinks
          \/ work = Tail(ProgramLinks) /\ RunInput
          \/ work = Tail(Tail(ProgramLinks)) /\ RunInput /\ RunOutput
      BY <2>3 DEF FileSync, ProgramLinked
    <3>2. CASE work = ProgramLinks
      BY <1>0, <2>1, <2>2, <2>3, <3>2, <2>a, <3>n, LinkLists, LinkSources, Names
         DEF FileSync, Single, ProgramLinked, ValidatorLinked, InteractiveLinked, RunInput, n
    <3>3. CASE work = Tail(ProgramLinks) /\ RunInput
      BY <1>0, <2>1, <2>2, <2>3, <3>3, <2>a, <3>n, LinkLists, LinkSources, Names
         DEF FileSync, Single, ProgramLinked, ValidatorLinked, InteractiveLinked, RunInput, RunOutput, n
    <3>4. CASE work = Tail(Tail(ProgramLinks)) /\ RunInput /\ RunOutput
      BY <1>0, <2>1, <2>2, <2>3, <3>4, <2>a, <3>n, LinkLists, LinkSources, Names
         DEF FileSync, Single, ProgramLinked, ValidatorLinked, InteractiveLinked, RunInput, RunOutput, n
    <3> QED BY <3>1, <3>2, <3>3, <3>4
  <2>4. CASE pc = "vlink"
    <3>n. ~plan.interactive
      BY <2>4 DEF FileSync, ProgramLinked
    <3>0. RunInput /\ RunOutput
      BY <2>4 DEF FileSync, ProgramLinked
    <3>1. \/ work = ValidatorLinks
          \/ work = Tail(ValidatorLinks) /\ JudgedInput
          \/ work = Tail(Tail(ValidatorLinks)) /\ JudgedInput /\ JudgedOutput
      BY <2>4 DEF FileSync, ValidatorLinked
    <3>2. CASE work = ValidatorLinks
      BY <1>0, <2>1, <2>2, <2>4, <3>0, <3>2, <2>a, <3>n, LinkLists, LinkSources, Names
         DEF FileSync, Single, ProgramLinked, ValidatorLinked, InteractiveLinked, RunInput, RunOutput, JudgedInput, n
    <3>3. CASE work = Tail(ValidatorLinks) /\ JudgedInput
      BY <1>0, <2>1, <2>2, <2>4, <3>0, <3>3, <2>a, <3>n, LinkLists, LinkSources, Names
         DEF FileSync, Single, ProgramLinked, ValidatorLinked, InteractiveLinked, RunInput, RunOutput, JudgedInput, JudgedOutput, n
    <3>4. CASE work = Tail(Tail(ValidatorLinks)) /\ JudgedInput /\ JudgedOutput
      <4>1. n = "v.judge_answer" /\ pc' = "validate"
        BY <2>1, <2>4, <2>a, <3>4, LinkLists DEF n
      <4>2. Single' /\ JudgedAnswer'
        BY <1>0, <2>2, <2>s, <4>1, LinkSources, Names DEF JudgedAnswer
      <4>3. RunInput' /\ RunOutput' /\ JudgedInput' /\ JudgedOutput'
        BY <1>0, <2>2, <3>0, <3>4, <4>1, Names DEF RunInput, RunOutput, JudgedInput, JudgedOutput
      <4> QED BY <1>0, <3>n, <4>1, <4>2, <4>3 DEF ProgramLinked, ValidatorLinked, InteractiveLinked
    <3> QED BY <3>1, <3>2, <3>3, <3>4
  <2>5. CASE pc = "ilink"
    <3>n. plan.interactive
      BY <2>5 DEF FileSync, InteractiveLinked
    <3>1. \/ work = InteractiveLinks
          \/ work = Tail(InteractiveLinks) /\ JudgedInput
          \/ work = Tail(Tail(InteractiveLinks)) /\ JudgedInput /\ JudgedAnswer
          \/ work = Tail(Tail(Tail(InteractiveLinks))) /\ JudgedInput /\ JudgedAnswer
      BY <2>5 DEF FileSync, InteractiveLinked
    <3>2. CASE work = InteractiveLinks
      <4>1. n = "v.input" /\ work' = Tail(InteractiveLinks) /\ pc' = "ilink"
        BY <2>1, <2>5, <3>2, InteractiveLists DEF n
      <4>2. Single'
        BY <2>s, <3>n, <4>1, LinkSources
      <4>3. JudgedInput'
        BY <1>0, <2>2, <3>2, <4>1, LinkSources, Names DEF JudgedInput
      <4> QED BY <1>0, <3>n, <4>1, <4>2, <4>3 DEF ProgramLinked, ValidatorLinked, InteractiveLinked
    <3>3. CASE work = Tail(InteractiveLinks) /\ JudgedInput
      <4>1. n = "v.judge_answer" /\ work' = Tail(Tail(InteractiveLinks)) /\ pc' = "ilink"
        BY <2>1, <2>5, <3>3, InteractiveLists DEF n
      <4>2. Single'
        BY <2>s, <3>n, <4>1, LinkSources
      <4>3. JudgedInput' /\ JudgedAnswer'
        BY <1>0, <2>2, <3>3, <4>1, LinkSources, Names DEF JudgedInput, JudgedAnswer
      <4> QED BY <1>0, <3>n, <4>1, <4>2, <4>3 DEF ProgramLinked, ValidatorLinked, InteractiveLinked
    <3>4. CASE work = Tail(Tail(InteractiveLinks)) /\ JudgedInput /\ JudgedAnswer
      <4>1. n = "input" /\ work' = Tail(Tail(Tail(InteractiveLinks))) /\ pc' = "ilink"
        BY <2>1, <2>5, <3>4, InteractiveLists DEF n
      <4>2. Single'
        BY <2>s, <3>n, <4>1, LinkSources
      <4>3. JudgedInput' /\ JudgedAnswer'
        BY <1>0, <2>2, <3>4, <4>1, LinkSources, Names DEF JudgedInput, JudgedAnswer
      <4> QED BY <1>0, <3>n, <4>1, <4>2, <4>3 DEF ProgramLinked, ValidatorLinked, InteractiveLinked
    <3>5. CASE work = Tail(Tail(Tail(InteractiveLinks))) /\ JudgedInput /\ JudgedAnswer
      <4>1. n = "output" /\ pc' = "interact"
        BY <2>1, <2>5, <2>a, <3>5, InteractiveLists DEF n
      <4>2. Single'
        BY <2>s, <3>n, <4>1, LinkSources
      <4>3. JudgedInput' /\ JudgedAnswer'
        BY <1>0, <2>2, <3>5, <4>1, LinkSources, Names DEF JudgedInput, JudgedAnswer
      <4> QED BY <1>0, <3>n, <4>1, <4>2, <4>3 DEF ProgramLinked, ValidatorLinked, InteractiveLinked
    <3> QED BY <3>1, <3>2, <3>3, <3>4, <3>5
  <2> QED BY <1>0, <2>3, <2>4, <2>5
<1> QED BY <1>1, <1>2

LEMMA FileStart == Init => FileSync
<1> SUFFICES ASSUME Init PROVE FileSync
  OBVIOUS
<1>1. pc = "begin" /\ files = [f \in FileNames |-> {}]
  BY DEF Init
<1> QED BY <1>1, ResultStart DEF FileSync, Single, ProgramLinked, ValidatorLinked, InteractiveLinked

LEMMA FileStep == FileSync /\ [Next]_vars => FileSync'
<1> SUFFICES ASSUME FileSync, [Next]_vars PROVE FileSync'
  OBVIOUS
<1>0. /\ ResultSync /\ ResultSync' /\ TreeSync /\ DOMAIN files = FileNames
  BY ResultStep DEF FileSync, ResultSync, TreeSync, RootSync, ScoreSync
<1>t. pc \in Walking => Top = stack[1]
  BY <1>0, WalkTop
<1>c. pc \in InCase => IsRes(cur)
  BY <1>0 DEF ResultSync
<1>s. files' = files => Single'
  BY DEF FileSync, Single
<1>l. pc' \notin {"link", "run", "diff", "vlink", "validate", "ilink", "interact"} =>
            ProgramLinked' /\ ValidatorLinked' /\ InteractiveLinked'
  BY DEF ProgramLinked, ValidatorLinked, InteractiveLinked
<1>v. ASSUME NEW x \in ScoreFiles, files' = [files EXCEPT !["v.score"] = x] PROVE Single'
  <2>1. x = files["v.score"] \/ \E s : x = {s}
    BY DEF ScoreFiles
  <2>2. \A f \in FileNames : files'[f] = IF f = "v.score" THEN x ELSE files[f]
    BY <1>0, <1>v
  <2> QED BY <2>1, <2>2 DEF FileSync, Single
<1> USE DEF callVars, caseVars
<1>1. CASE ResetPermissions \/ StartSandbox \/ EnterRoot
  <2>1. UNCHANGED files /\ pc' \in {"start", "next", "unwind"}
    BY <1>1 DEF ResetPermissions, StartSandbox, EnterRoot, Abort
  <2> QED BY <1>0, <1>s, <1>l, <2>1 DEF FileSync
<1>2. CASE EnterGroup \/ ReuseCase \/ EmitCase
  <2>1. UNCHANGED files /\ pc' = "next"
    BY <1>2 DEF EnterGroup, ReuseCase, EmitCase
  <2> QED BY <1>0, <1>s, <1>l, <2>1 DEF FileSync
<1>3. CASE StartCase
  <2>1. UNCHANGED <<plan, files>> /\ pc' = "link" /\ work' = ProgramLinks /\ ~plan.interactive
    BY <1>3 DEF StartCase, ProgramLinks
  <2>2. ProgramLinked' /\ ValidatorLinked' /\ InteractiveLinked'
    BY <2>1 DEF ProgramLinked, ValidatorLinked, InteractiveLinked
  <2> QED BY <1>0, <1>s, <2>1, <2>2 DEF FileSync
<1>3i. CASE StartInteractive
  <2>1. /\ UNCHANGED <<plan, files>> /\ plan.interactive
        /\ (pc' = "ilink" /\ work' = InteractiveLinks) \/ pc' = "unwind"
    BY <1>3i DEF StartInteractive, InteractiveLinks, Abort
  <2>2. ProgramLinked' /\ ValidatorLinked' /\ InteractiveLinked'
    BY <2>1 DEF ProgramLinked, ValidatorLinked, InteractiveLinked
  <2> QED BY <1>0, <1>s, <2>1, <2>2 DEF FileSync
<1>4. CASE LinkFile
  BY <1>0, <1>4, FileLink DEF FileSync
<1>5. CASE RunProgram
  <2>1. /\ UNCHANGED <<plan, files>> /\ pc = "run" /\ RunInput /\ RunOutput /\ Top = stack[1] /\ IsRes(cur)
    BY <1>5, <1>t, <1>c DEF RunProgram, FileSync, ProgramLinked, Walking, InCase
  <2>2. \/ \E v \in {"RTE", "TLE"} : Judged(v, 0, [NoOrigin EXCEPT !.input = files["input"]])
        \/ pc' = "vlink" /\ work' = ValidatorLinks /\ cur' = cur
        \/ pc' = "diff" /\ cur' = cur
        \/ pc' = "unwind"
    BY <1>5 DEF RunProgram, ValidatorLinks, SandboxFails, Abort
  <2>3. CASE \E v \in {"RTE", "TLE"} : Judged(v, 0, [NoOrigin EXCEPT !.input = files["input"]])
    <3>1. PICK v \in {"RTE", "TLE"} : Judged(v, 0, [NoOrigin EXCEPT !.input = files["input"]])
      BY <2>3
    <3>2. [NoOrigin EXCEPT !.input = files["input"]].input = {plan.input[cur.item]}
      BY <2>1 DEF NoOrigin, RunInput
    <3>3. pc' = "clear" /\ IsOwn(cur, stack[1].group)'
      BY <2>1, <3>1, <3>2, JudgedIsOwn
    <3> QED BY <1>0, <1>s, <1>l, <2>1, <3>3 DEF FileSync
  <2>4. CASE pc' \in {"vlink", "diff"} /\ cur' = cur /\ (pc' = "vlink" => work' = ValidatorLinks)
    <3>1. ProgramLinked' /\ ValidatorLinked' /\ InteractiveLinked'
      BY <2>1, <2>4 DEF FileSync, ProgramLinked, ValidatorLinked, InteractiveLinked, RunInput, RunOutput
    <3> QED BY <1>0, <1>s, <2>1, <2>4, <3>1 DEF FileSync
  <2>5. CASE pc' = "unwind"
    BY <1>0, <1>s, <1>l, <2>1, <2>5 DEF FileSync
  <2> QED BY <2>2, <2>3, <2>4, <2>5
<1>6. CASE DiffOutput
  <2>1. /\ UNCHANGED <<plan, files>> /\ pc = "diff" /\ RunInput /\ RunOutput /\ Top = stack[1] /\ IsRes(cur)
    BY <1>6, <1>t, <1>c DEF DiffOutput, FileSync, ProgramLinked, Walking, InCase
  <2> DEFINE from == [input |-> files["input"], output |-> files["output"],
                      answer |-> {plan.answer[cur.item]}, flags |-> Attr(Top.group).flags]
  <2>2. (\E v, s : Judged(v, s, from)) \/ pc' = "unwind"
    BY <1>6 DEF DiffOutput, Abort
  <2>3. /\ from.input = {plan.input[cur.item]} /\ from.answer = {plan.answer[cur.item]}
        /\ from.flags = Attr(Top.group).flags /\ from.output = {cur.item}
    BY <2>1 DEF RunInput, RunOutput
  <2> HIDE DEF from
  <2>4. CASE \E v, s : Judged(v, s, from)
    <3>1. PICK v, s : Judged(v, s, from)
      BY <2>4
    <3>2. pc' = "clear" /\ IsOwn(cur, stack[1].group)'
      BY <2>1, <2>3, <3>1, JudgedIsOwn
    <3> QED BY <1>0, <1>s, <1>l, <2>1, <3>2 DEF FileSync
  <2>5. CASE pc' = "unwind"
    BY <1>0, <1>s, <1>l, <2>1, <2>5 DEF FileSync
  <2> QED BY <2>2, <2>4, <2>5
<1>7. CASE RunValidator
  <2>1. /\ UNCHANGED plan /\ pc = "validate" /\ JudgedInput /\ JudgedOutput /\ JudgedAnswer /\ Top = stack[1] /\ IsRes(cur)
    BY <1>7, <1>t, <1>c DEF RunValidator, FileSync, ValidatorLinked, Walking, InCase
  <2> DEFINE from == [input |-> files["v.input"], output |-> files["v.team_output"],
                      answer |-> files["v.judge_answer"], flags |-> Attr(Top.group).flags]
  <2>2. (\E v, s : Judged(v, s, from)) \/ pc' = "unwind"
    BY <1>7 DEF RunValidator, SandboxFails, Abort
  <2>3. /\ from.input = {plan.input[cur.item]} /\ from.answer = {plan.answer[cur.item]}
        /\ from.flags = Attr(Top.group).flags /\ from.output = {cur.item}
    BY <2>1 DEF JudgedInput, JudgedOutput, JudgedAnswer
  <2>4. Single'
    <3>1. \E x \in ScoreFiles : files' = [files EXCEPT !["v.score"] = x]
      BY <1>7, Zenon DEF RunValidator
    <3> QED BY <3>1, <1>v
  <2> HIDE DEF from
  <2>5. CASE \E v, s : Judged(v, s, from)
    <3>1. PICK v, s : Judged(v, s, from)
      BY <2>5
    <3>2. pc' = "clear" /\ IsOwn(cur, stack[1].group)'
      BY <2>1, <2>3, <3>1, JudgedIsOwn
    <3> QED BY <1>0, <1>l, <2>4, <3>2 DEF FileSync
  <2>6. CASE pc' = "unwind"
    BY <1>0, <1>l, <2>4, <2>6 DEF FileSync
  <2> QED BY <2>2, <2>5, <2>6
<1>7i. CASE RunInteractive
  <2>1. pc = "interact" /\ UNCHANGED plan
    BY <1>7i, InteractiveEnds
  <2>2. /\ JudgedInput /\ JudgedAnswer /\ plan.interactive /\ Top = stack[1] /\ IsRes(cur)
    BY <1>t, <1>c, <2>1 DEF FileSync, InteractiveLinked, Walking, InCase
  <2>3. Single'
    <3>1. \E x \in ScoreFiles : files' = [files EXCEPT !["v.score"] = x]
      BY <1>7i, Zenon DEF RunInteractive
    <3> QED BY <3>1, <1>v
  <2>4. (\E v, s : Judged(v, s, InteractiveFrom)) \/ pc' = "unwind"
    BY <1>7i, InteractiveEnds DEF Abort
  <2>5. /\ InteractiveFrom.input = {plan.input[cur.item]} /\ InteractiveFrom.answer = {plan.answer[cur.item]}
        /\ InteractiveFrom.flags = Attr(Top.group).flags
    BY <2>2 DEF InteractiveFrom, JudgedInput, JudgedAnswer
  <2>6. CASE \E v, s : Judged(v, s, InteractiveFrom)
    <3>1. PICK v, s : Judged(v, s, InteractiveFrom)
      BY <2>6
    <3>2. pc' = "clear" /\ IsOwn(cur, stack[1].group)'
      BY <2>1, <2>2, <2>5, <3>1, JudgedIsOwn
    <3> QED BY <1>0, <1>l, <2>3, <3>2 DEF FileSync
  <2>7. CASE pc' = "unwind"
    BY <1>0, <1>l, <2>3, <2>7 DEF FileSync
  <2> QED BY <2>4, <2>6, <2>7
<1>8. CASE RemoveEntry \/ ClearDir
  <2>1. /\ pc = "clear" /\ UNCHANGED <<plan, cur>>
        /\ files' = files \/ \E f : files' = [files EXCEPT ![f] = {}]
        /\ (pc' \in {"clear", "emit"} /\ stack' = stack) \/ pc' = "unwind"
    BY <1>8 DEF RemoveEntry, ClearDir
  <2>2. Single'
    BY <1>0, <2>1 DEF FileSync, Single
  <2>3. pc' \in {"clear", "emit"} => IsOwn(cur, stack[1].group)'
    BY <2>1 DEF FileSync, IsOwn, Attr
  <2> QED BY <1>0, <1>l, <2>1, <2>2, <2>3 DEF FileSync
<1>9. CASE MergeGroup \/ RunGrader
  <2>1. UNCHANGED files /\ pc' \in {"next", "grade", "unwind"}
    BY <1>9 DEF MergeGroup, RunGrader, EmitGroup, SandboxFails, Abort, AllDone
  <2> QED BY <1>0, <1>s, <1>l, <2>1 DEF FileSync
<1>10. CASE RunDeferred \/ Return \/ JudgeCrash \/ Retry
  <2>1. UNCHANGED files /\ pc' \in {"unwind", "over", "crashed", "begin"}
    BY <1>10 DEF RunDeferred, Return, JudgeCrash, Retry
  <2> QED BY <1>0, <1>s, <1>l, <2>1 DEF FileSync
<1>11. CASE Over \/ UNCHANGED vars
  <2>1. UNCHANGED vars
    BY <1>11 DEF Over
  <2>2. ProgramLinked' /\ ValidatorLinked' /\ InteractiveLinked'
    BY <2>1 DEF vars, FileSync, ProgramLinked, ValidatorLinked, InteractiveLinked, RunInput, RunOutput, JudgedInput, JudgedOutput, JudgedAnswer
  <2>3. pc' \in {"clear", "emit"} => IsOwn(cur, stack[1].group)'
    BY <2>1 DEF vars, FileSync, IsOwn, Attr
  <2> QED BY <1>0, <1>s, <2>1, <2>2, <2>3 DEF FileSync, vars
<1> QED BY <1>1, <1>2, <1>3, <1>3i, <1>4, <1>5, <1>6, <1>7, <1>7i, <1>8, <1>9, <1>10, <1>11
        DEF Next, EvaluatorNext

-----------------------------------------------------------------------------
(* What is left of the types. *)
KindSync ==
    /\ FileSync
    /\ pc \in Walking \cup {"begin", "start", "unwind", "over", "crashed"}
    /\ closed \in BOOLEAN
    /\ err \in {"none", "error", "panic"}
    /\ attempt \in 1 .. MaxAttempts

LEMMA KindStart == Init => KindSync
<1> SUFFICES ASSUME Init PROVE KindSync
  OBVIOUS
<1>1. MaxAttempts \in Nat \ {0}
  BY EvaluatorAssumption
<1>2. pc = "begin" /\ err = "none" /\ attempt = 1 /\ FileSync
  BY FileStart DEF Init
<1>3. closed \in BOOLEAN
  BY Zenon DEF Init
<1>4. 1 \in 1 .. MaxAttempts
  BY <1>1
<1> QED BY <1>2, <1>3, <1>4 DEF KindSync

LEMMA KindStep == KindSync /\ [Next]_vars => KindSync'
<1> SUFFICES ASSUME KindSync, [Next]_vars PROVE KindSync'
  OBVIOUS
<1>0. FileSync /\ FileSync'
  BY FileStep DEF KindSync
<1> USE DEF KindSync, callVars, caseVars, Walking, Abort
<1>1. CASE ResetPermissions \/ StartSandbox \/ EnterRoot \/ EnterGroup \/ ReuseCase \/ StartCase \/ StartInteractive
           \/ EmitCase
  BY <1>0, <1>1 DEF ResetPermissions, StartSandbox, EnterRoot, EnterGroup, ReuseCase, StartCase, StartInteractive, EmitCase
<1>2. CASE LinkFile
  BY <1>0, <1>2 DEF LinkFile, AfterLinks
<1>3. CASE RunProgram
  BY <1>0, <1>3 DEF RunProgram, Judged, SandboxFails
<1>4. CASE DiffOutput
  BY <1>0, <1>4 DEF DiffOutput, Judged
<1>5. CASE RunValidator
  BY <1>0, <1>5 DEF RunValidator, Judged, SandboxFails
<1>5i. CASE RunInteractive
  <2>1. UNCHANGED <<closed, attempt>> /\ ((\E v, s : Judged(v, s, InteractiveFrom)) \/ Abort("error"))
    BY <1>5i, InteractiveEnds
  <2>2. (pc' = "clear" /\ err' = err) \/ (pc' = "unwind" /\ err' = "error")
    BY <2>1 DEF Judged
  <2> QED BY <1>0, <2>1, <2>2
<1>6. CASE RemoveEntry \/ ClearDir
  <2>1. UNCHANGED <<closed, attempt>> /\ err' \in {err, "error"} /\ pc' \in {"clear", "emit", "unwind"}
    BY <1>6 DEF RemoveEntry, ClearDir
  <2> QED BY <1>0, <2>1
<1>7. CASE MergeGroup
  BY <1>0, <1>7 DEF MergeGroup, EmitGroup, AllDone
<1>8. CASE RunGrader
  BY <1>0, <1>8 DEF RunGrader, EmitGroup, SandboxFails
<1>9. CASE RunDeferred
  <2>1. UNCHANGED <<pc, err, attempt>>
    BY <1>9 DEF RunDeferred
  <2>2. \E d : closed' = (closed \/ d = "close")
    BY <1>9 DEF RunDeferred
  <2>3. closed' \in BOOLEAN
    BY <2>2, Zenon
  <2> QED BY <1>0, <2>1, <2>3
<1>10. CASE Return \/ JudgeCrash \/ Over \/ UNCHANGED vars
  BY <1>0, <1>10 DEF Return, JudgeCrash, Over, vars
<1>11. CASE Retry
  <2>1. MaxAttempts \in Nat \ {0}
    BY EvaluatorAssumption
  <2>2. pc' = "begin" /\ err' = "none" /\ attempt < MaxAttempts /\ attempt' = attempt + 1
    BY <1>11 DEF Retry
  <2>3. closed' \in BOOLEAN
    BY <1>11, Zenon DEF Retry
  <2>4. attempt' \in 1 .. MaxAttempts
    BY <2>1, <2>2
  <2> QED BY <1>0, <2>2, <2>3, <2>4
<1> QED BY <1>1, <1>2, <1>3, <1>4, <1>5, <1>5i, <1>6, <1>7, <1>8, <1>9, <1>10, <1>11
        DEF Next, EvaluatorNext

LEMMA KindTypes == KindSync => TypeOK
<1> SUFFICES ASSUME KindSync PROVE TypeOK
  OBVIOUS
<1>1. ResultSync /\ TreeSync /\ Single /\ DeferSync /\ OnTree /\ DOMAIN files = FileNames
  BY DEF KindSync, FileSync, ResultSync, TreeSync, RootSync, ScoreSync, BoxSync
<1>2. \A f \in FileNames : Cardinality(files[f]) <= 1
  <2>1. ASSUME NEW f \in FileNames PROVE Cardinality(files[f]) <= 1
    <3>1. CASE files[f] = {}
      <4>1. Cardinality({}) = 0
        BY FS_EmptySet
      <4> QED BY <3>1, <4>1
    <3>2. CASE files[f] # {}
      <4>1. PICK c : files[f] = {c}
        BY <1>1, <3>2 DEF Single
      <4>2. Cardinality({c}) = 1
        BY FS_Singleton
      <4> QED BY <4>1, <4>2
    <3> QED BY <3>1, <3>2
  <2> QED BY <2>1
<1>3. sb \in [ToSet(Sandboxes) -> {"new", "started", "finished"}]
  BY <1>1, BoxNames DEF DeferSync
<1>4. \A i \in 1 .. Len(stack) : stack[i].todo \subseteq plan.under[stack[i].group]
  BY <1>1 DEF OnTree, Tree, Open
<1>5. \A i \in 1 .. Len(stack) - 1 : stack[i].group \in plan.under[stack[i + 1].group]
  BY <1>1 DEF OnTree, Tree, Nested
<1>6. \A i \in 1 .. Len(received) : received[i].item \in Items /\ received[i].verdict \in Verdicts
  BY <1>1 DEF TreeSync, ResultSync
<1> QED BY <1>1, <1>2, <1>3, <1>4, <1>5, <1>6 DEF KindSync, Walking, TypeOK

(* What each step of an evaluation relies on: a stack that is a path of the  *)
(* tree, environments of one file per name, results with a verdict of an    *)
(* item of the plan, no stale score file and sandboxes that run. *)
THEOREM StepsFindWhatTheyRelyOn == Spec => []Inv
<1>1. KindSync => Inv
  <2> SUFFICES ASSUME KindSync PROVE Inv
    OBVIOUS
  <2>1. ScoreSync /\ BoxSync
    BY DEF KindSync, FileSync, ResultSync, TreeSync, RootSync, ScoreSync
  <2>2. ScoreIsFresh /\ RunsOnStarted
    BY <2>1 DEF ScoreSync, ScoreIsFresh, NoScore, BoxSync, RunsOnStarted, Walking, Boxes, Used
  <2> QED BY <2>2, KindTypes DEF Inv
<1> QED BY <1>1, KindStart, KindStep, PTL DEF Spec

-----------------------------------------------------------------------------
(* Which frames a changed stack has. *)
LEMMA FramesOfPut ==
    ASSUME NEW S, NEW s \in Seq(S), s # <<>>, NEW f
    PROVE  \A i \in 1 .. Len(Put(s, f)) : Put(s, f)[i] = f \/ \E j \in 1 .. Len(s) : Put(s, f)[i] = s[j]
<1>1. /\ Len(s) \in Nat \ {0} /\ Len(Put(s, f)) = Len(s) /\ Put(s, f)[1] = f
      /\ \A i \in 2 .. Len(s) : Put(s, f)[i] = s[i]
  BY StackShapes
<1>2. \A i \in 1 .. Len(s) : i = 1 \/ i \in 2 .. Len(s)
  BY <1>1
<1> QED BY <1>1, <1>2

LEMMA FramesOfPush ==
    ASSUME NEW S, NEW s \in Seq(S), s # <<>>, NEW f, NEW w
    PROVE  \A i \in 1 .. Len(Push(s, f, w)) :
              Push(s, f, w)[i] \in {f, w} \/ \E j \in 1 .. Len(s) : Push(s, f, w)[i] = s[j]
<1>1. /\ Len(s) \in Nat \ {0} /\ Len(Push(s, f, w)) = Len(s) + 1
      /\ Push(s, f, w)[1] = f /\ Push(s, f, w)[2] = w
      /\ \A i \in 3 .. Len(s) + 1 : Push(s, f, w)[i] = s[i - 1]
  BY PushShape
<1>2. \A i \in 1 .. Len(s) + 1 : i = 1 \/ i = 2 \/ (i \in 3 .. Len(s) + 1 /\ i - 1 \in 1 .. Len(s))
  BY <1>1
<1> QED BY <1>1, <1>2

LEMMA FramesOfDrop ==
    ASSUME NEW S, NEW s \in Seq(S), s # <<>>, Len(s) > 1, NEW f
    PROVE  \A i \in 1 .. Len(Drop(s, f)) : Drop(s, f)[i] = f \/ \E j \in 1 .. Len(s) : Drop(s, f)[i] = s[j]
<1>1. /\ Len(s) \in Nat \ {0} /\ Len(Drop(s, f)) = Len(s) - 1 /\ Drop(s, f)[1] = f
      /\ \A i \in 2 .. Len(s) - 1 : Drop(s, f)[i] = s[i + 1]
  BY StackShapes
<1>2. \A i \in 1 .. Len(s) - 1 : i = 1 \/ (i \in 2 .. Len(s) - 1 /\ i + 1 \in 1 .. Len(s))
  BY <1>1
<1> QED BY <1>1, <1>2

(* A result is backed, in group g of plan p, by a run on its own files, and  *)
(* by what was sent. *)
OwnResult(p, r, g) ==
    /\ r.from.input = {p.input[r.item]}
    /\ r.verdict \in {"AC", "WA"} =>
        /\ r.from.answer = {p.answer[r.item]}
        /\ r.from.flags = p.attr[g].flags
        /\ ~p.interactive => \E c \in r.from.output : p.input[c] = p.input[r.item]

Backed(p, C, sent, g, r) ==
    /\ r.item \in C => OwnResult(p, r, g)
    /\ \/ r.item \in sent
       \/ p.interactive /\ r.item \in C
       \/ \E c \in sent : c \in C /\ p.input[c] = p.input[r.item] /\ p.answer[c] = p.answer[r.item]

FrameBacked(p, C, sent, f) == \A k \in 1 .. Len(f.res) : Backed(p, C, sent, f.group, f.res[k])
StackBacked(p, C, sent, s) == \A i \in 1 .. Len(s) : FrameBacked(p, C, sent, s[i])

(* An entry of the cache is a result sent, unless the plan is interactive,  *)
(* under a key of its own case. *)
EntryBacked(p, C, sent, e) ==
    \E c \in C, g \in DOMAIN p.attr :
        e.key = KeyOf(p, c, g) /\ e.result.item = c /\ OwnResult(p, e.result, g)
            /\ (p.interactive \/ c \in sent)
CacheBacked(p, C, sent, q) == \A i \in 1 .. Len(q) : EntryBacked(p, C, sent, q[i])

LEMMA BackedStays ==
    ASSUME NEW p, NEW C, NEW sent, NEW more, \A x \in sent : x \in more
    PROVE  /\ \A s : StackBacked(p, C, sent, s) => StackBacked(p, C, more, s)
           /\ \A f : FrameBacked(p, C, sent, f) => FrameBacked(p, C, more, f)
           /\ \A q : CacheBacked(p, C, sent, q) => CacheBacked(p, C, more, q)
<1>1. \A g, r : Backed(p, C, sent, g, r) => Backed(p, C, more, g, r)
  BY DEF Backed
<1>2. \A f : FrameBacked(p, C, sent, f) => FrameBacked(p, C, more, f)
  BY <1>1 DEF FrameBacked
<1>3. \A e : EntryBacked(p, C, sent, e) => EntryBacked(p, C, more, e)
  BY DEF EntryBacked
<1> QED BY <1>2, <1>3 DEF StackBacked, CacheBacked

LEMMA FrameBackedCounted ==
    ASSUME NEW p, NEW C, NEW sent, NEW f, FrameBacked(p, C, sent, f), NEW R, f.res \in Seq(R),
           NEW h, h.group = f.group, NEW r, h.res = Append(f.res, r), Backed(p, C, sent, f.group, r)
    PROVE  FrameBacked(p, C, sent, h)
<1> DEFINE n == Len(f.res)
<1>1. /\ n \in Nat /\ Len(h.res) = n + 1 /\ h.res[n + 1] = r
      /\ \A k \in 1 .. n : h.res[k] = f.res[k]
  OBVIOUS
<1>2. \A k \in 1 .. n : Backed(p, C, sent, f.group, f.res[k])
  BY DEF FrameBacked
<1> HIDE DEF n
<1>3. \A k \in 1 .. n + 1 : k \in 1 .. n \/ k = n + 1
  BY <1>1
<1> QED BY <1>1, <1>2, <1>3 DEF FrameBacked

LEMMA CacheBackedGrows ==
    ASSUME NEW p, NEW C, NEW sent, NEW q, NEW E, q \in Seq(E), CacheBacked(p, C, sent, q),
           NEW e, EntryBacked(p, C, sent, e)
    PROVE  CacheBacked(p, C, sent, Append(q, e))
<1> DEFINE n == Len(q)
           t == Append(q, e)
<1>1. /\ n \in Nat /\ Len(t) = n + 1 /\ t[n + 1] = e
      /\ \A k \in 1 .. n : t[k] = q[k]
  OBVIOUS
<1>2. \A k \in 1 .. n : EntryBacked(p, C, sent, q[k])
  BY DEF CacheBacked
<1> HIDE DEF n, t
<1>3. \A k \in 1 .. n + 1 : k \in 1 .. n \/ k = n + 1
  BY <1>1
<1>4. CacheBacked(p, C, sent, t)
  BY <1>1, <1>2, <1>3 DEF CacheBacked
<1> QED BY <1>4 DEF t

LEMMA NothingBacked ==
    ASSUME NEW p, NEW C, NEW sent
    PROVE  /\ StackBacked(p, C, sent, <<>>) /\ CacheBacked(p, C, sent, <<>>)
           /\ \A f : f.res = <<>> => FrameBacked(p, C, sent, f)
<1>1. Len(<<>>) = 0
  OBVIOUS
<1> QED BY <1>1 DEF StackBacked, CacheBacked, FrameBacked
-----------------------------------------------------------------------------
StackSync == StackBacked(plan, Cases, Sent, stack)
CacheSync == CacheBacked(plan, Cases, Sent, cache)

OwnSync ==
    /\ FileSync
    /\ StackSync
    /\ CacheSync
    /\ plan.interactive => Sent \subseteq Groups

(* A result of a case, of the run or of the cache, joins the top frame. *)
LEMMA CaseBacked ==
    ASSUME TreeSync, Counted(plan.under, stack), pc \in Walking, StackSync, plan' = plan,
           NEW x, NEW r, \A y \in Sent : y \in Sent',
           Backed(plan, Cases, Sent', stack[1].group, r),
           stack' = <<WithResult(Without(Top, x), r)>> \o Tail(stack)
    PROVE  StackSync'
<1> DEFINE w == Without(Top, x)
           f == WithResult(w, r)
<1>0. stack # <<>> /\ Top = stack[1] /\ 1 \in 1 .. Len(stack) /\ IsFrame(stack[1])
  BY WalkTop
<1>1. PICK S : stack \in Seq(S)
  BY WalkTop
<1>2. IsFrame(w) /\ w.group = stack[1].group /\ w.res = stack[1].res
  BY <1>0, FrameParts
<1> HIDE DEF w
<1>3. f.group = w.group /\ f.res = Append(w.res, r)
  BY <1>2, ResultParts
<1>4. stack' = Put(stack, f)
  BY DEF Put, f, w
<1> HIDE DEF f
<1>5. Holds(plan.under[stack[1].group], stack[1], {})
  BY <1>0 DEF Counted
<1>6. PICK R : stack[1].res \in Seq(R)
  BY <1>5 DEF Holds
<1>7. StackBacked(plan, Cases, Sent', stack)
  BY BackedStays DEF StackSync
<1>8. FrameBacked(plan, Cases, Sent', stack[1])
  BY <1>0, <1>7 DEF StackBacked
<1>9. f.group = stack[1].group /\ f.res = Append(stack[1].res, r)
  BY <1>2, <1>3
<1>10. FrameBacked(plan, Cases, Sent', f)
  BY <1>6, <1>8, <1>9, FrameBackedCounted
<1>11. StackBacked(plan, Cases, Sent', Put(stack, f))
  BY <1>0, <1>1, <1>7, <1>10, FramesOfPut DEF StackBacked
<1>12. Cases' = Cases
  BY DEF Cases, Items, Groups
<1> QED BY <1>4, <1>11, <1>12 DEF StackSync

LEMMA GroupBacked ==
    ASSUME TreeSync, Counted(plan.under, stack), pc \in Walking, StackSync, plan' = plan,
           NEW v, NEW score, EmitGroup(v, score)
    PROVE  StackSync' /\ \E g \in Groups : Sent' = Sent \cup {g}
<1> DEFINE r == [NoCase EXCEPT !.item = Top.group, !.verdict = v, !.score = score]
           n == Len(stack)
<1>0. stack # <<>> /\ Top = stack[1] /\ n \in Nat \ {0} /\ stack[1].group \in Groups
  BY WalkTop
<1>1. PICK S : stack \in Seq(S)
  BY WalkTop
<1>2. r.item = stack[1].group
  BY <1>0 DEF NoCase
<1>3. /\ received' = Append(received, r)
      /\ n = 1 => stack' = <<>>
      /\ n # 1 => stack' = Drop(stack, WithResult(stack[2], r))
  BY DEF EmitGroup, Drop
<1> HIDE DEF r, n
<1>s. Sent' = Sent \cup {r.item}
  <2>1. PICK R : received \in Seq(R)
    BY DEF TreeSync, RootSync
  <2> QED BY <1>3, <2>1, SentGrows
<1>12. Cases' = Cases
  BY DEF Cases, Items, Groups
<1>4. CASE n = 1
  BY <1>0, <1>2, <1>3, <1>4, <1>s, NothingBacked DEF StackSync
<1>5. CASE n # 1
  <2> DEFINE f == WithResult(stack[2], r)
  <2>1. n > 1 /\ 2 \in 1 .. n
    BY <1>0, <1>5
  <2>2. IsFrame(stack[2])
    BY <2>1, WalkTop DEF n
  <2>3. f.group = stack[2].group /\ f.res = Append(stack[2].res, r)
    BY <2>2, FrameParts
  <2> HIDE DEF f
  <2>4. \E b : Holds(plan.under[stack[2].group], stack[2], b)
    BY <2>1 DEF Counted, n
  <2>5. PICK R : stack[2].res \in Seq(R)
    BY <2>4 DEF Holds
  <2>6. StackBacked(plan, Cases, Sent', stack)
    BY <1>s, BackedStays DEF StackSync
  <2>7. FrameBacked(plan, Cases, Sent', stack[2])
    BY <2>1, <2>6 DEF StackBacked, n
  <2>8. Backed(plan, Cases, Sent', stack[2].group, r)
    BY <1>0, <1>2, <1>s DEF Backed, Cases
  <2>9. FrameBacked(plan, Cases, Sent', f)
    BY <2>3, <2>5, <2>7, <2>8, FrameBackedCounted
  <2>10. StackBacked(plan, Cases, Sent', Drop(stack, f))
    BY <1>0, <1>1, <2>1, <2>6, <2>9, FramesOfDrop DEF StackBacked, n
  <2>11. stack' = Drop(stack, f)
    BY <1>3, <1>5 DEF f
  <2> QED BY <1>0, <1>2, <1>12, <1>s, <2>10, <2>11 DEF StackSync
<1> QED BY <1>4, <1>5

LEMMA OwnStart == Init => OwnSync
<1> SUFFICES ASSUME Init PROVE OwnSync
  OBVIOUS
<1>1. stack = <<>> /\ cache = <<>> /\ received = <<>>
  BY DEF Init
<1>2. Sent = {}
  BY <1>1 DEF Sent
<1> QED BY <1>1, <1>2, FileStart, NothingBacked DEF OwnSync, StackSync, CacheSync

LEMMA OwnStep == ASSUME KeysTell PROVE OwnSync /\ [Next]_vars => OwnSync'
<1> SUFFICES ASSUME OwnSync, [Next]_vars PROVE OwnSync'
  OBVIOUS
<1>0. /\ FileSync /\ FileSync' /\ ResultSync /\ TreeSync /\ Counted(plan.under, stack) /\ plan \in Plans
      /\ StackSync /\ CacheSync /\ (plan.interactive => Sent \subseteq Groups)
  BY FileStep DEF OwnSync, FileSync, ResultSync, TreeSync, RootSync, ScoreSync, BoxSync
<1>t. pc \in Walking => Top = stack[1] /\ 1 \in 1 .. Len(stack) /\ IsFrame(stack[1]) /\ stack # <<>> /\ (\E S : stack \in Seq(S))
                        /\ stack[1].group \in Groups
  BY <1>0, WalkTop
<1>p. plan' = plan => Cases' = Cases /\ Groups' = Groups
  BY DEF Cases, Items, Groups
<1>r. received' = received => Sent' = Sent
  BY DEF Sent
<1>c. UNCHANGED <<plan, cache, received>> => CacheSync' /\ (plan.interactive => Sent \subseteq Groups)'
  BY <1>0, <1>p, <1>r DEF CacheSync
<1>s. UNCHANGED <<plan, received>> /\ (stack' = stack \/ stack' = <<>>) => StackSync'
  BY <1>0, <1>p, <1>r, NothingBacked DEF StackSync
<1> USE DEF callVars, caseVars
<1>1. CASE ResetPermissions \/ StartSandbox \/ StartCase \/ StartInteractive \/ LinkFile \/ RunProgram \/ DiffOutput
           \/ RunValidator \/ RunInteractive \/ RemoveEntry \/ ClearDir
           \/ RunDeferred \/ Return \/ JudgeCrash \/ Over \/ UNCHANGED vars
  <2>1. UNCHANGED <<plan, received, cache>> /\ (stack' = stack \/ stack' = <<>>)
    <3>1. CASE RunInteractive
      BY <3>1, InteractiveEnds DEF Judged, Abort
    <3>2. CASE StartCase \/ StartInteractive \/ LinkFile \/ RunProgram \/ DiffOutput
      BY <3>2 DEF StartCase, StartInteractive, LinkFile, RunProgram, DiffOutput, Judged, SandboxFails, Abort
    <3>3. CASE RunValidator \/ RemoveEntry \/ ClearDir
      BY <3>3 DEF RunValidator, RemoveEntry, ClearDir, Judged, SandboxFails, Abort
    <3>4. CASE ResetPermissions \/ StartSandbox \/ RunDeferred \/ Return \/ JudgeCrash \/ Over \/ UNCHANGED vars
      BY <3>4 DEF ResetPermissions, StartSandbox, RunDeferred, Return, JudgeCrash, Over, vars, Abort
    <3> QED BY <1>1, <3>1, <3>2, <3>3, <3>4
  <2> QED BY <1>0, <1>c, <1>s, <2>1 DEF OwnSync
<1>2. CASE EnterRoot
  <2> DEFINE f == Frame(plan.root)
  <2>1. UNCHANGED <<plan, received, cache>> /\ stack' = <<f>>
    BY <1>2 DEF EnterRoot
  <2>2. FrameBacked(plan, Cases, Sent, f)
    BY NothingBacked DEF Frame
  <2> HIDE DEF f
  <2>3. Len(<<f>>) = 1 /\ <<f>>[1] = f
    OBVIOUS
  <2>4. StackBacked(plan, Cases, Sent, <<f>>)
    BY <2>2, <2>3 DEF StackBacked
  <2> QED BY <1>0, <1>c, <1>p, <1>r, <2>1, <2>4 DEF OwnSync, StackSync
<1>3. CASE EnterGroup
  <2>1. PICK x \in Groups :
            /\ stack' = <<Frame(x), Without(Top, x)>> \o Tail(stack)
            /\ pc = "next" /\ UNCHANGED <<plan, received, cache>>
    BY <1>3 DEF EnterGroup, IsNext
  <2> DEFINE f == Frame(x)
             w == Without(Top, x)
  <2>2. Top = stack[1] /\ 1 \in 1 .. Len(stack) /\ IsFrame(stack[1]) /\ stack # <<>>
    BY <1>t, <2>1 DEF Walking
  <2>3. PICK S : stack \in Seq(S)
    BY <1>t, <2>1 DEF Walking
  <2>4. w.group = stack[1].group /\ w.res = stack[1].res
    BY <2>2, FrameParts
  <2>5. FrameBacked(plan, Cases, Sent, f)
    BY NothingBacked DEF Frame
  <2>6. stack' = Push(stack, f, w)
    BY <2>1 DEF Push
  <2> HIDE DEF f, w
  <2>7. FrameBacked(plan, Cases, Sent, w)
    BY <1>0, <2>2, <2>4 DEF StackSync, StackBacked, FrameBacked
  <2>8. StackBacked(plan, Cases, Sent, Push(stack, f, w))
    BY <1>0, <2>2, <2>3, <2>5, <2>7, FramesOfPush DEF StackSync, StackBacked
  <2> QED BY <1>0, <1>c, <1>p, <1>r, <2>1, <2>6, <2>8 DEF OwnSync, StackSync
<1>4. CASE ReuseCase
  <2>1. PICK x \in Cases, e \in ToSet(cache) :
            /\ x \in Top.todo /\ e \in Cached(x, Top.group)
            /\ stack' = <<WithResult(Without(Top, x), [Rescored(e.result, Top.group) EXCEPT !.item = x])>> \o Tail(stack)
            /\ pc = "next" /\ pc' = pc /\ UNCHANGED <<plan, received, cache>>
    BY <1>4 DEF ReuseCase, IsNext
  <2>2. IsRes(e.result) /\ EntryBacked(plan, Cases, Sent, e)
    BY <1>0 DEF ResultSync, ToSet, CacheSync, CacheBacked
  <2> DEFINE r == [Rescored(e.result, Top.group) EXCEPT !.item = x]
             g == stack[1].group
  <2>3. IsRes(r) /\ r.item = x /\ r.verdict = e.result.verdict /\ r.from = e.result.from
    BY <2>2, RescoredIs
  <2>4. pc \in Walking /\ Top.group = g /\ g \in Groups
    BY <1>t, <2>1 DEF Walking
  <2>5. e.key = KeyOf(plan, x, g)
    BY <2>1, <2>4 DEF Cached, CacheKey
  <2>6. stack' = <<WithResult(Without(Top, x), r)>> \o Tail(stack)
    BY <2>1
  <2> HIDE DEF r, g
  <2>7. PICK c \in Cases, h \in DOMAIN plan.attr :
            e.key = KeyOf(plan, c, h) /\ e.result.item = c /\ OwnResult(plan, e.result, h)
            /\ (plan.interactive \/ c \in Sent)
    BY <2>2 DEF EntryBacked
  <2>8. KeyOf(plan, c, h) = KeyOf(plan, x, g)
    BY <2>5, <2>7
  <2>9. plan.input[c] = plan.input[x] /\ plan.answer[c] = plan.answer[x] /\ plan.attr[h].flags = plan.attr[g].flags
    BY <1>0, <2>1, <2>4, <2>7, <2>8 DEF KeysTell, Cases, Items, Groups
  <2>10. Backed(plan, Cases, Sent, g, r)
    BY <2>1, <2>3, <2>7, <2>9 DEF Backed, OwnResult
  <2>11. StackSync'
    BY <1>0, <1>r, <2>1, <2>4, <2>6, <2>10, CaseBacked DEF g
  <2> QED BY <1>0, <1>c, <2>1, <2>11 DEF OwnSync
<1>5. CASE EmitCase
  <2>1. /\ stack' = <<WithResult(Without(Top, cur.item), cur)>> \o Tail(stack)
        /\ pc = "emit" /\ UNCHANGED plan
        /\ received' = IF plan.interactive THEN received ELSE Append(received, cur)
        /\ cache' = Append(cache, [key |-> CacheKey(cur.item, Top.group), result |-> cur])
    BY <1>5 DEF EmitCase
  <2>2. cur.item \in Cases /\ pc \in Walking /\ IsOwn(cur, stack[1].group)
    BY <1>0, <2>1 DEF FileSync, TreeSync, RootSync, InCase, Walking
  <2>3. Sent' = IF plan.interactive THEN Sent ELSE Sent \cup {cur.item}
    <3>1. PICK R : received \in Seq(R)
      BY <1>0 DEF TreeSync, RootSync
    <3> QED BY <1>r, <2>1, <3>1, SentGrows
  <2>4. OwnResult(plan, cur, stack[1].group)
    BY <2>2 DEF IsOwn, OwnResult, Attr
  <2>5. Backed(plan, Cases, Sent', stack[1].group, cur)
    BY <2>2, <2>3, <2>4 DEF Backed
  <2>6. StackSync'
    BY <1>0, <2>1, <2>2, <2>3, <2>5, CaseBacked
  <2> DEFINE e == [key |-> CacheKey(cur.item, Top.group), result |-> cur]
  <2>7. Top = stack[1] /\ stack[1].group \in Groups
    BY <1>t, <2>2
  <2>8. e.key = KeyOf(plan, cur.item, stack[1].group) /\ e.result = cur
    BY <2>7 DEF CacheKey
  <2>9. cache' = Append(cache, e)
    BY <2>1
  <2> HIDE DEF e
  <2>10. EntryBacked(plan, Cases, Sent', e)
    BY <2>2, <2>3, <2>4, <2>7, <2>8 DEF EntryBacked, Groups
  <2>11. CacheBacked(plan, Cases, Sent', cache)
    BY <1>0, <2>3, BackedStays DEF CacheSync
  <2>12. PICK E : cache \in Seq(E)
    BY <1>0 DEF ResultSync
  <2>13. CacheSync'
    BY <1>p, <2>1, <2>9, <2>10, <2>11, <2>12, CacheBackedGrows DEF CacheSync
  <2>14. (plan.interactive => Sent \subseteq Groups)'
    BY <1>0, <1>p, <2>1, <2>3
  <2> QED BY <1>0, <2>6, <2>13, <2>14 DEF OwnSync
<1>6. CASE MergeGroup \/ RunGrader
  <2>1. /\ pc \in Walking /\ UNCHANGED <<plan, cache>>
        /\ \/ UNCHANGED received /\ (stack' = stack \/ stack' = <<>>)
           \/ \E v, score : EmitGroup(v, score)
    BY <1>6 DEF MergeGroup, RunGrader, AllDone, Abort, SandboxFails, Walking
  <2>2. CASE \E v, score : EmitGroup(v, score)
    <3>1. PICK v, score : EmitGroup(v, score)
      BY <2>2
    <3>2. StackSync' /\ (\E g \in Groups : Sent' = Sent \cup {g})
      BY <1>0, <2>1, <3>1, GroupBacked
    <3>3. CacheBacked(plan, Cases, Sent', cache)
      BY <1>0, <3>2, BackedStays DEF CacheSync
    <3>4. (plan.interactive => Sent \subseteq Groups)'
      BY <1>0, <1>p, <2>1, <3>2
    <3> QED BY <1>0, <1>p, <2>1, <3>2, <3>3, <3>4 DEF OwnSync, CacheSync
  <2>3. CASE ~\E v, score : EmitGroup(v, score)
    BY <1>0, <1>c, <1>s, <2>1, <2>3 DEF OwnSync
  <2> QED BY <2>2, <2>3
<1>7. CASE Retry
  <2>1. stack' = <<>> /\ cache' = <<>> /\ received' = <<>>
    BY <1>7 DEF Retry
  <2>2. Sent' = {}
    BY <2>1 DEF Sent
  <2> QED BY <1>0, <2>1, <2>2, NothingBacked DEF OwnSync, StackSync, CacheSync
<1> QED BY <1>1, <1>2, <1>3, <1>4, <1>5, <1>6, <1>7 DEF Next, EvaluatorNext

(* Whatever a cache key is shared with, was linked before or was left by an  *)
(* evaluation that crashed, the result counted for a case is of its own     *)
(* files, if the keys tell the questions apart (eval.go 384-387). *)
THEOREM ResultsBelongToTheirCases == ASSUME KeysTell PROVE Spec => []ResultsAreOwn
<1>1. OwnSync => ResultsAreOwn
  <2> SUFFICES ASSUME OwnSync, NEW i \in 1 .. Len(stack), NEW k \in 1 .. Len(stack[i].res), stack[i].res[k].item \in Cases
               PROVE  IsOwn(stack[i].res[k], stack[i].group)
    BY DEF ResultsAreOwn
  <2>1. Backed(plan, Cases, Sent, stack[i].group, stack[i].res[k])
    BY DEF OwnSync, StackSync, StackBacked, FrameBacked
  <2> QED BY <2>1 DEF Backed, OwnResult, IsOwn, Attr
<1>2. OwnSync /\ [Next]_vars => OwnSync'
  BY OwnStep
<1> QED BY <1>1, <1>2, OwnStart, PTL DEF Spec

(* A consumer can read the stream as the tree in post-order (eval.go 385,    *)
(* 408, 586), on the same condition; of an interactive plan it reads the    *)
(* groups only (eval.go 521). *)
THEOREM StreamReadsAsTree == ASSUME KeysTell PROVE Spec => []StreamIsPostOrder
<1>1. OwnSync => StreamIsPostOrder
  <2> SUFFICES ASSUME OwnSync PROVE StreamIsPostOrder
    OBVIOUS
  <2>0. InOrder /\ StackSync /\ (plan.interactive => Sent \subseteq Groups)
    BY DEF OwnSync, FileSync, ResultSync, TreeSync
  <2>1. \A i, j \in 1 .. Len(received) : i < j =>
            /\ received[i].item \notin {received[j].item, plan.root}
            /\ received[i].item \in Groups => received[j].item \notin plan.under[received[i].item]
    BY <2>0 DEF InOrder, PostOrder
  <2>2. ASSUME NEW i \in 1 .. Len(stack), NEW k \in 1 .. Len(stack[i].res)
        PROVE  LET item == stack[i].res[k].item
               IN  \/ item \in Sent
                   \/ plan.interactive /\ item \in Cases
                   \/ \E c \in Sent \cap Cases :
                        plan.input[c] = plan.input[item] /\ plan.answer[c] = plan.answer[item]
    BY <2>0 DEF StackSync, StackBacked, FrameBacked, Backed
  <2> QED BY <2>0, <2>1, <2>2 DEF StreamIsPostOrder
<1>2. OwnSync /\ [Next]_vars => OwnSync'
  BY OwnStep
<1> QED BY <1>1, <1>2, OwnStart, PTL DEF Spec
=============================================================================

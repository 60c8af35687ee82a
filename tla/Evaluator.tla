----------------------------- MODULE Evaluator -----------------------------
(* Evaluate of eval/eval.go: one evaluation of a program on a tree of test   *)
(* groups.  The groups are walked depth first; each case is run in the      *)
(* program's sandbox on files hard-linked into its environment, and judged  *)
(* by the validator, in a sandbox and an environment of its own, or by the  *)
(* default diff; in an interactive plan both are run at once on two FIFOs,  *)
(* which the module Interactive has in detail.  Each group's results are    *)
(* merged, by the default or by a custom grader; the results of groups, and *)
(* of cases that are not interactive, are sent on a channel.                *)
(*                                                                          *)
(* A sandbox is what SandboxWrapper makes of it: Run returns a result, or   *)
(* fails and leaves the sandbox finished, or the judge dies.  The files of  *)
(* the environments outlive a crash of the judge, and the next evaluation   *)
(* may be given the same root.                                              *)
EXTENDS Grading

CONSTANTS
    Plans,          \* the evaluation plans considered
    Scores,         \* the scores that validators and graders give
    MaxAttempts     \* bound: evaluations on one root

ASSUME EvaluatorAssumption ==
    /\ MaxAttempts \in Nat \ {0}
    /\ Scores \subseteq (1 - MaxScore) .. (MaxScore - 1)
    /\ \A p \in Plans :
        /\ p.interactive \in BOOLEAN /\ p.validator \in BOOLEAN /\ p.grader \in BOOLEAN
        /\ p.root \in DOMAIN p.attr /\ DOMAIN p.attr \subseteq DOMAIN p.name
        /\ \A g \in DOMAIN p.attr :
            /\ p.under[g] \subseteq DOMAIN p.name \ {p.root}
            /\ \A h \in DOMAIN p.attr \ {g} : p.under[g] \cap p.under[h] = {}

VARIABLES
    plan,       \* the plan being evaluated
    pc,         \* what Evaluate is doing
    stack,      \* a frame for each evaluateGroup in progress, innermost first
    cur,        \* the case being evaluated
    work,       \* the files still to link, or the directories still to clear
    files,      \* the environments: for each file name {} or {its content}
    sb,         \* the three sandboxes
    cache,      \* evalCache
    defers,     \* the deferred calls of Evaluate, in the order of their defer
    received,   \* what the consumer of the channel has received
    closed,     \* whether the channel is closed
    err,        \* how Evaluate ends
    attempt     \* evaluations started on this root

vars == <<plan, pc, stack, cur, work, files, sb, cache, defers, received, closed, err, attempt>>
caseVars == <<cur, work, files>>
callVars == <<plan, defers, closed, attempt>>

Items == DOMAIN plan.name
Groups == DOMAIN plan.attr
Cases == Items \ Groups
Sandboxes == <<"program", "validator", "grader">>

(* The files of an environment, by linker and base directory. *)
ProgramRead == {"input"}
ProgramWrite == {"output", "error"}
ValRead == {"v.input", "v.team_output", "v.judge_answer"}
ValWrite == {"v.score"}
FileNames == ProgramRead \cup ProgramWrite \cup ValRead \cup ValWrite

Unparsable == MaxScore      \* the content of a score file that is not a number

NoOrigin == [input |-> {}, output |-> {}, answer |-> {}, flags |-> <<>>]
NoCase == [item |-> "none", verdict |-> "AC", score |-> 0, from |-> NoOrigin]

Frame(g) == [group |-> g, todo |-> plan.under[g], res |-> <<>>]
Top == Head(stack)
Attr(g) == plan.attr[g]

AllNew == [s \in ToSet(Sandboxes) |-> "new"]

(* A new Evaluator whose Evaluate has been called, on a new root. *)
Init ==
    /\ plan \in Plans
    /\ pc = "begin"
    /\ stack = <<>> /\ cur = NoCase /\ work = <<>>
    /\ files = [f \in FileNames |-> {}]
    /\ sb = AllNew
    /\ cache = <<>> /\ defers = <<>> /\ received = <<>>
    /\ closed = FALSE
    /\ err = "none"
    /\ attempt = 1


(* The error is logged and forgotten. *)
AbortSilently(how) ==
    /\ pc' = "unwind"
    /\ err' = "none"
    /\ stack' = <<>>

(* A return with an error, or a panic: the deferred calls are still run. *)
Abort(how) ==
    /\ pc' = "unwind"
    /\ err' = how
    /\ stack' = <<>>

-----------------------------------------------------------------------------
(* Evaluate, before the root group. *)


(* defer close comes after the first return. *)
ResetPermissionsDeferLate ==
    /\ pc = "begin"
    /\ \/ pc' = "start" /\ defers' = <<"close", "perm">> /\ UNCHANGED <<err, stack>>
       \/ Abort("error") /\ defers' = <<>>
    /\ UNCHANGED <<plan, caseVars, sb, cache, received, closed, attempt>>

ResetPermissions ==
    /\ pc = "begin"
    /\ \/ pc' = "start" /\ defers' = <<"close", "perm">> /\ UNCHANGED <<err, stack>>
       \/ Abort("error") /\ defers' = <<"close">>
    /\ UNCHANGED <<plan, caseVars, sb, cache, received, closed, attempt>>

Used(s) == s = "program" \/ (s = "validator" /\ plan.validator) \/ (s = "grader" /\ plan.grader)
ToStart(s) == Used(s) /\ sb[s] = "new"
First(s) == \E i \in DOMAIN Sandboxes :
    s = Sandboxes[i] /\ ToStart(s) /\ \A j \in 1 .. i - 1 : ~ToStart(Sandboxes[j])


(* The deferred calls run in the order of their defer. *)
StartSandboxDeferFirst ==
    /\ pc = "start"
    /\ \E s \in ToSet(Sandboxes) :
        /\ First(s)
        /\ \/ /\ sb' = [sb EXCEPT ![s] = "started"]
              /\ defers' = <<s>> \o defers
              /\ UNCHANGED <<pc, err, stack>>
           \/ Abort("error") /\ UNCHANGED <<sb, defers>>
    /\ UNCHANGED <<plan, caseVars, cache, received, closed, attempt>>

StartSandbox ==
    /\ pc = "start"
    /\ \E s \in ToSet(Sandboxes) :
        /\ First(s)
        /\ \/ /\ sb' = [sb EXCEPT ![s] = "started"]
              /\ defers' = Append(defers, s)
              /\ UNCHANGED <<pc, err, stack>>
           \/ Abort("error") /\ UNCHANGED <<sb, defers>>
    /\ UNCHANGED <<plan, caseVars, cache, received, closed, attempt>>

EnterRoot ==
    /\ pc = "start"
    /\ \A s \in ToSet(Sandboxes) : ~ToStart(s)
    /\ pc' = "next"
    /\ stack' = <<Frame(plan.root)>>
    /\ UNCHANGED <<callVars, caseVars, sb, cache, received, err>>

-----------------------------------------------------------------------------
(* evaluateGroup. *)

(* The next child by name; sort.Slice leaves the order of equal names open. *)
IsNext(x) == x \in Top.todo /\ \A y \in Top.todo : plan.name[x] <= plan.name[y]


Without(frame, x) == [frame EXCEPT !.todo = @ \ {x}]


(* BreakOnFail breaks before the result is appended. *)
WithResultUnlessBreak(frame, r) ==
    IF r.verdict # "AC" /\ Attr(frame.group).breakOnFail
    THEN [frame EXCEPT !.todo = {}]
    ELSE [frame EXCEPT !.res = Append(@, r)]

(* A child's result: BreakOnFail gives up on the others. *)
WithResult(frame, r) ==
    [frame EXCEPT
        !.res = Append(@, r),
        !.todo = IF r.verdict # "AC" /\ Attr(frame.group).breakOnFail THEN {} ELSE @]


EnterGroup ==
    /\ pc = "next"
    /\ \E x \in Groups :
        /\ IsNext(x)
        /\ stack' = <<Frame(x), Without(Top, x)>> \o Tail(stack)
    /\ UNCHANGED <<callVars, pc, caseVars, sb, cache, received, err>>

(* strings.Join; a path or a flag is a sequence of atoms. *)
Join(flags) ==
    IF flags = <<>> THEN <<>>
    ELSE Tail(FlattenSeq([i \in DOMAIN flags |-> <<" ">> \o flags[i]]))


(* The flags are no part of the key. *)
CacheKeyNoFlags(c, g) == plan.input[c] \o <<" ">> \o plan.answer[c]

KeyOf(p, c, g) == p.input[c] \o <<" ">> \o p.answer[c] \o Join(p.attr[g].flags)

CacheKey(c, g) == KeyOf(plan, c, g)

Cached(c, g) == {e \in ToSet(cache) : e.key = CacheKey(c, g)}

(* GetResultForGroup: the score is that of the group asking. *)
Rescored(r, g) ==
    IF plan.scoringValidator THEN r
    ELSE [r EXCEPT !.score = IF r.verdict = "AC" THEN Attr(g).accept ELSE Attr(g).reject]

(* A cached result is sent as it is. *)
ReuseCaseSent ==
    /\ pc = "next"
    /\ \E x \in Cases, e \in ToSet(cache) :
        /\ IsNext(x)
        /\ e \in Cached(x, Top.group)
        /\ stack' = <<WithResult(Without(Top, x), [Rescored(e.result, Top.group) EXCEPT !.item = x])>>
                        \o Tail(stack)
        /\ received' = Append(received, e.result)
    /\ UNCHANGED <<callVars, pc, caseVars, sb, cache, err>>

ReuseCase ==
    /\ pc = "next"
    /\ \E x \in Cases, e \in ToSet(cache) :
        /\ IsNext(x)
        /\ e \in Cached(x, Top.group)
        /\ LET r == [Rescored(e.result, Top.group) EXCEPT !.item = x]
           IN  stack' = <<WithResult(Without(Top, x), r)>> \o Tail(stack)
    /\ UNCHANGED <<callVars, pc, caseVars, sb, cache, received, err>>

StartCase ==
    /\ pc = "next"
    /\ ~plan.interactive
    /\ \E x \in Cases :
        /\ IsNext(x)
        /\ Cached(x, Top.group) = {}
        /\ cur' = [NoCase EXCEPT !.item = x]
    /\ work' = <<"input", "output", "error">>
    /\ pc' = "link"
    /\ UNCHANGED <<callVars, stack, files, sb, cache, received, err>>

(* evaluateInteractive: without a validator there is no linker to call.     *)
StartInteractive ==
    /\ pc = "next"
    /\ plan.interactive
    /\ \E x \in Cases :
        /\ IsNext(x)
        /\ Cached(x, Top.group) = {}
        /\ cur' = [NoCase EXCEPT !.item = x]
    /\ IF plan.validator
       THEN /\ work' = <<"v.input", "v.judge_answer", "input", "output">>
            /\ pc' = "ilink"
            /\ UNCHANGED <<stack, err>>
       ELSE Abort("panic") /\ UNCHANGED work
    /\ UNCHANGED <<callVars, files, sb, cache, received>>

-----------------------------------------------------------------------------
(* evaluateCase. *)

(* What each name is linked to: the output and error files are the case's   *)
(* own, the validator's team_output is the program's output, and both the   *)
(* program's streams of an interactive case are FIFOs.                      *)
LinkSource(f) ==
    CASE plan.interactive /\ f \in {"input", "output"} -> {"fifo"}
      [] f = "v.input" \/ (f = "input" /\ ~plan.interactive) -> {plan.input[cur.item]}
      [] f \in ProgramWrite /\ ~plan.interactive -> {cur.item}
      [] f = "v.team_output" -> files["output"]
      [] f = "v.judge_answer" -> {plan.answer[cur.item]}

AfterLinks == [p \in {"link", "vlink", "ilink"} |->
    CASE p = "link" -> "run" [] p = "vlink" -> "validate" [] p = "ilink" -> "interact"]

(* LinkFile, or Mkfifo: both fail if the name exists. *)
LinkFile ==
    /\ pc \in DOMAIN AfterLinks
    /\ \/ /\ files[Head(work)] = {}
          /\ files' = [files EXCEPT ![Head(work)] = LinkSource(Head(work))]
          /\ work' = Tail(work)
          /\ pc' = IF Tail(work) # <<>> THEN pc ELSE AfterLinks[pc]
          /\ UNCHANGED <<err, stack>>
       \/ Abort("error") /\ UNCHANGED <<files, work>>
    /\ UNCHANGED <<callVars, cur, sb, cache, received>>


(* Both linkers, the read directory of each before its write directory; an  *)
(* interactive case clears the program's twice.                             *)
ToClear ==
    (IF plan.interactive THEN <<ProgramRead, ProgramWrite>> ELSE <<>>)
        \o <<ProgramRead, ProgramWrite>> \o (IF plan.validator THEN <<ValRead, ValWrite>> ELSE <<>>)

Judged(v, score, from) ==
    /\ cur' = [cur EXCEPT !.verdict = v, !.score = score, !.from = from]
    /\ work' = ToClear
    /\ pc' = "clear"
    /\ UNCHANGED <<err, stack>>

GroupScore(v) == IF v = "AC" THEN Attr(Top.group).accept ELSE Attr(Top.group).reject


(* A failure of Run is counted as a result. *)
SandboxFailsOnce(s) ==
    /\ sb' = [sb EXCEPT ![s] = "finished"]
    /\ pc' = "emit"
    /\ UNCHANGED <<err, stack>>

(* Run fails: it has finished the sandbox. *)
SandboxFails(s) ==
    /\ sb' = [sb EXCEPT ![s] = "finished"]
    /\ Abort("error")

RunProgram ==
    /\ pc = "run"
    /\ \/ /\ \E v \in {"RTE", "TLE"} : Judged(v, 0, [NoOrigin EXCEPT !.input = files["input"]])
          /\ UNCHANGED sb
       \/ /\ work' = IF plan.validator THEN <<"v.input", "v.team_output", "v.judge_answer">> ELSE <<>>
          /\ pc' = IF plan.validator THEN "vlink" ELSE "diff"
          /\ UNCHANGED <<cur, sb, err, stack>>
       \/ SandboxFails("program") /\ UNCHANGED <<cur, work>>
    /\ UNCHANGED <<callVars, files, cache, received>>

(* diffOutput; an answer or a flag that cannot be read is an error. *)
DiffOutput ==
    /\ pc = "diff"
    /\ \/ \E v \in {"AC", "WA"} :
            Judged(v, GroupScore(v),
                   [input |-> files["input"], output |-> files["output"],
                    answer |-> {plan.answer[cur.item]}, flags |-> Attr(Top.group).flags])
       \/ Abort("error") /\ UNCHANGED <<cur, work>>
    /\ UNCHANGED <<callVars, files, sb, cache, received>>

(* runValidator and validatorOutputFromExit: exit code 42 or 43, a time-out *)
(* or any other end; the score file, if there is one, counts for a 42.      *)
ValidatorScore(v, scores) ==
    IF v = "AC" /\ plan.scoringValidator /\ scores # {}
    THEN CHOOSE s \in scores : TRUE
    ELSE GroupScore(v)

(* What the score file may be after a run of the validator, however it ends. *)
ScoreFiles == {files["v.score"]} \cup {{s} : s \in Scores \cup {Unparsable}}

RunValidator ==
    /\ pc = "validate"
    /\ \E scores \in ScoreFiles :
        /\ files' = [files EXCEPT !["v.score"] = scores]
        /\ \/ /\ \E v \in {"AC", "WA"} :
                    IF ValidatorScore(v, scores) = Unparsable
                    THEN Abort("error") /\ UNCHANGED <<cur, work>>
                    ELSE Judged(v, ValidatorScore(v, scores),
                                [input |-> files["v.input"], output |-> files["v.team_output"],
                                 answer |-> files["v.judge_answer"], flags |-> Attr(Top.group).flags])
              /\ UNCHANGED sb
           \/ SandboxFails("validator") /\ UNCHANGED <<cur, work>>
           \/ Abort("error") /\ UNCHANGED <<cur, work, sb>>
    /\ UNCHANGED <<callVars, cache, received>>

(* Both runs at once: one or both fail, the validator says "AC" or "WA" or  *)
(* nothing that can be used, and the program's own end may outweigh it.     *)
RunInteractive ==
    /\ pc = "interact"
    /\ \E scores \in ScoreFiles :
        /\ files' = [files EXCEPT !["v.score"] = scores]
        /\ \/ /\ \E said \in {"AC", "WA"} : \E v \in {said, "RTE", "TLE"} :
                    IF ValidatorScore(said, scores) = Unparsable
                    THEN Abort("error") /\ UNCHANGED <<cur, work>>
                    ELSE Judged(v, IF v = said THEN ValidatorScore(v, scores) ELSE Attr(Top.group).reject,
                                [input |-> files["v.input"], output |-> files["output"],
                                 answer |-> files["v.judge_answer"], flags |-> Attr(Top.group).flags])
              /\ UNCHANGED sb
           \/ /\ \E failed \in SUBSET {"program", "validator"} :
                    sb' = [s \in DOMAIN sb |-> IF s \in failed THEN "finished" ELSE sb[s]]
              /\ Abort("error") /\ UNCHANGED <<cur, work>>
    /\ UNCHANGED <<callVars, cache, received>>

(* RemoveContents takes the entries of a directory away one by one... *)
RemoveEntry ==
    /\ pc = "clear"
    /\ \E f \in Head(work) :
        /\ files[f] # {}
        /\ files' = [files EXCEPT ![f] = {}]
    /\ UNCHANGED <<callVars, pc, stack, cur, work, sb, cache, received, err>>

(* ...until none is left, or it fails before that.  Clear returns a failure *)
(* only after both directories were tried.                                  *)
ClearDir ==
    /\ pc = "clear"
    /\ work' = Tail(work)
    /\ \/ err' = err /\ \A f \in Head(work) : files[f] = {}
       \/ err' = "error"
    /\ LET linkerDone == Len(work) % 2 = 1
       IN  IF linkerDone /\ err' # "none" THEN pc' = "unwind" /\ stack' = <<>>
           ELSE pc' = (IF work' = <<>> THEN "emit" ELSE pc) /\ UNCHANGED stack
    /\ UNCHANGED <<callVars, cur, files, sb, cache, received>>


(* The result is sent, unless the case is interactive, then remembered. *)
EmitCase ==
    /\ pc = "emit"
    /\ received' = IF plan.interactive THEN received ELSE Append(received, cur)
    /\ cache' = Append(cache, [key |-> CacheKey(cur.item, Top.group), result |-> cur])
    /\ stack' = <<WithResult(Without(Top, cur.item), cur)>> \o Tail(stack)
    /\ cur' = NoCase
    /\ pc' = "next"
    /\ UNCHANGED <<callVars, work, files, sb, err>>

-----------------------------------------------------------------------------
(* The end of a group: mergeRes, and the send of its result. *)

AllDone == pc = "next" /\ Top.todo = {}

EmitGroup(verdict, score) ==
    LET r == [NoCase EXCEPT !.item = Top.group, !.verdict = verdict, !.score = score]
    IN  /\ received' = Append(received, r)
        /\ IF Len(stack) = 1
           THEN stack' = <<>> /\ pc' = "unwind"
           ELSE stack' = <<WithResult(stack[2], r)>> \o Tail(Tail(stack)) /\ pc' = "next"
        /\ UNCHANGED err

MergeGroup ==
    /\ AllDone
    /\ LET g == Top.group
           results == IF Attr(g).ignoreSample THEN Tail(Top.res) ELSE Top.res
           graded == defaultGrader(results, Attr(g))
       IN  CASE Attr(g).ignoreSample /\ Top.res = <<>> ->
                    Abort("panic") /\ UNCHANGED received
             [] Attr(g).custom /\ ~plan.grader ->
                    Abort("panic") /\ UNCHANGED received
             [] Attr(g).custom /\ plan.grader ->
                    pc' = "grade" /\ UNCHANGED <<stack, received, err>>
             [] OTHER ->
                    EmitGroup(graded.verdict, graded.score)
    /\ UNCHANGED <<callVars, caseVars, sb, cache>>

(* The custom grader: an answer of its own, or an error. *)
RunGrader ==
    /\ pc = "grade"
    /\ \/ \E v \in Verdicts, s \in Scores : EmitGroup(v, s) /\ UNCHANGED sb
       \/ SandboxFails("grader") /\ UNCHANGED received
       \/ Abort("error") /\ UNCHANGED <<received, sb>>
    /\ UNCHANGED <<callVars, caseVars, cache>>

-----------------------------------------------------------------------------
(* Evaluate returns: the deferred calls, last first. *)

RunDeferred ==
    /\ pc = "unwind"
    /\ defers # <<>>
    /\ LET d == Last(defers)
       IN  /\ closed' = (closed \/ d = "close")
           /\ sb' = [s \in DOMAIN sb |-> IF s = d THEN "finished" ELSE sb[s]]
    /\ defers' = Front(defers)
    /\ UNCHANGED <<plan, pc, stack, caseVars, cache, received, err, attempt>>

Return ==
    /\ pc = "unwind"
    /\ defers = <<>>
    /\ pc' = "over"
    /\ UNCHANGED <<callVars, stack, caseVars, sb, cache, received, err>>

(* The judge dies, its sandboxes with it; the environments stay. *)
JudgeCrash ==
    /\ pc \notin {"over", "crashed"}
    /\ pc' = "crashed"
    /\ sb' = [s \in DOMAIN sb |-> IF sb[s] = "started" THEN "finished" ELSE sb[s]]
    /\ UNCHANGED <<callVars, stack, caseVars, cache, received, err>>

(* The caller evaluates again on the same root. *)
Retry ==
    /\ pc = "crashed" \/ (pc = "over" /\ err # "none")
    /\ attempt < MaxAttempts
    /\ attempt' = attempt + 1
    /\ pc' = "begin"
    /\ stack' = <<>> /\ cur' = NoCase /\ work' = <<>>
    /\ sb' = AllNew
    /\ cache' = <<>> /\ defers' = <<>> /\ received' = <<>>
    /\ closed' = FALSE
    /\ err' = "none"
    /\ UNCHANGED <<plan, files>>

Over == pc \in {"over", "crashed"} /\ UNCHANGED vars

EvaluatorNext ==
    \/ ResetPermissions \/ StartSandbox \/ EnterRoot
    \/ EnterGroup \/ ReuseCase \/ StartCase \/ StartInteractive
    \/ LinkFile \/ RunProgram \/ DiffOutput \/ RunValidator \/ RunInteractive
    \/ RemoveEntry \/ ClearDir \/ EmitCase
    \/ MergeGroup \/ RunGrader
    \/ RunDeferred \/ Return

Next == EvaluatorNext \/ JudgeCrash \/ Retry \/ Over

Spec == Init /\ [][Next]_vars

(* Every call of the evaluator returns: Run by RunReturns of SandboxWrapper, *)
(* both runs of an interactive case by EndsIfOpenInTime of Interactive, and *)
(* the send because the consumer receives until the channel is closed.      *)
LiveSpec == Spec /\ WF_vars(EvaluatorNext)

-----------------------------------------------------------------------------
(* The variables have their types, and the stack is a path of the tree of   *)
(* groups: each frame is that of a child of the next one.                   *)
TypeOK ==
    /\ pc \in {"begin", "start", "next", "link", "run", "diff", "vlink", "validate", "ilink",
               "interact", "clear", "emit", "grade", "unwind", "over", "crashed"}
    /\ DOMAIN files = FileNames /\ \A f \in FileNames : Cardinality(files[f]) <= 1
    /\ sb \in [ToSet(Sandboxes) -> {"new", "started", "finished"}]
    /\ closed \in BOOLEAN
    /\ err \in {"none", "error", "panic"}
    /\ attempt \in 1 .. MaxAttempts
    /\ \A i \in 1 .. Len(stack) : stack[i].todo \subseteq plan.under[stack[i].group]
    /\ \A i \in 1 .. Len(stack) - 1 : stack[i].group \in plan.under[stack[i + 1].group]
    /\ \A i \in 1 .. Len(received) : received[i].item \in Items /\ received[i].verdict \in Verdicts

Sent == {received[i].item : i \in 1 .. Len(received)}

(* A consumer reads the stream as the tree in post-order: no item comes     *)
(* twice, nothing of a group comes after the group's own result (eval.go    *)
(* 408, 586), and nothing at all after the root's.  Every result that goes  *)
(* into a group's was sent before, or is that of a case already sent (the   *)
(* cache, eval.go 385-386, sends nothing).  Of an interactive plan only the *)
(* groups' results are sent (eval.go 521).                                  *)
StreamIsPostOrder ==
    /\ \A i, j \in 1 .. Len(received) : i < j =>
        /\ received[i].item \notin {received[j].item, plan.root}
        /\ received[i].item \in Groups => received[j].item \notin plan.under[received[i].item]
    /\ \A i \in 1 .. Len(stack) : \A k \in 1 .. Len(stack[i].res) :
        LET item == stack[i].res[k].item
        IN  \/ item \in Sent
            \/ plan.interactive /\ item \in Cases
            \/ \E c \in Sent \cap Cases :
                plan.input[c] = plan.input[item] /\ plan.answer[c] = plan.answer[item]
    /\ plan.interactive => Sent \subseteq Groups

(* Nothing separates the answer's path from the flags in a key (eval.go     *)
(* 384), so that two different questions may have one key.  In these plans  *)
(* none do.                                                                 *)
KeysTell ==
    \A p \in Plans : \A c, d \in DOMAIN p.name \ DOMAIN p.attr : \A g, h \in DOMAIN p.attr :
        KeyOf(p, c, g) = KeyOf(p, d, h) =>
            /\ p.input[c] = p.input[d] /\ p.answer[c] = p.answer[d]
            /\ p.attr[g].flags = p.attr[h].flags

(* The result counted for a case was made by running the program on that    *)
(* case's input, and by judging the output of such a run against that       *)
(* case's answer under its group's flags: whatever was linked, left by an   *)
(* earlier case or a crashed evaluation, or cached for another group.  The  *)
(* output of an interactive program is no file.                             *)
IsOwn(r, g) ==
    /\ r.from.input = {plan.input[r.item]}
    /\ r.verdict \in {"AC", "WA"} =>
        /\ r.from.answer = {plan.answer[r.item]}
        /\ r.from.flags = Attr(g).flags
        /\ ~plan.interactive => \E c \in r.from.output : plan.input[c] = plan.input[r.item]

ResultsAreOwn ==
    \A i \in 1 .. Len(stack) : \A k \in 1 .. Len(stack[i].res) :
        stack[i].res[k].item \in Cases => IsOwn(stack[i].res[k], stack[i].group)

(* A validator's score file is of this run: Clear has removed the one of    *)
(* the case before (filelinker.go 72-82), also when that was not read.      *)
ScoreIsFresh ==
    pc \in {"validate", "interact"} /\ attempt = 1 => files["v.score"] = {}

(* The callers' contract of SandboxWrapper: Run is only ever called on a    *)
(* sandbox that was started and has not been finished, also by its own      *)
(* failure of an earlier Run.                                               *)
RunsOnStarted ==
    /\ pc \in {"link", "run", "ilink", "interact"} => sb["program"] = "started"
    /\ pc \in {"vlink", "validate", "ilink", "interact"} => sb["validator"] = "started"
    /\ pc = "grade" => sb["grader"] = "started"

(* What each step of an evaluation relies on: the state is well formed, no  *)
(* score file of an earlier case is there when the validator is run, and    *)
(* the sandbox it is run in was started and not finished.                   *)
Inv == TypeOK /\ ScoreIsFresh /\ RunsOnStarted

(* The end of the stream tells the consumer that everything is over: when   *)
(* the channel is closed no sandbox is left running, however Evaluate ends  *)
(* (the defers of eval.go 174-194 run last first).                          *)
ClosedMeansFinished ==
    closed => \A s \in DOMAIN sb : sb[s] # "started"

(* Evaluate returns no error exactly if the last thing sent was the root's  *)
(* result.                                                                  *)
SuccessMeansRootSent ==
    pc = "over" => (err = "none" <=> plan.root \in Sent)

(* Where no flag says otherwise, a group is accepted only if every one of   *)
(* its children was evaluated and accepted: BreakOnFail (eval.go 396) never *)
(* makes the missing results look like successes.                           *)
Strict(g) ==
    /\ Attr(g).verdicts \in {"WORST_ERROR", "FIRST_ERROR"}
    /\ ~Attr(g).anyAccepts /\ ~Attr(g).ignoreSample /\ ~Attr(g).custom

AcceptedMeansAll ==
    [][\A i \in 1 .. Len(received') :
        LET r == received'[i]
        IN  i > Len(received) /\ r.item \in Groups /\ r.verdict = "AC" /\ Strict(r.item) =>
                /\ {Top.res[k].item : k \in DOMAIN Top.res} = plan.under[r.item]
                /\ \A k \in DOMAIN Top.res : Top.res[k].verdict = "AC"]_vars

(* Evaluate always comes to an end, with the channel closed, unless the     *)
(* judge dies.                                                              *)
EvaluateEnds == pc = "begin" ~> (pc = "crashed" \/ (pc = "over" /\ closed))
=============================================================================

# A verification of omogenexec

omogenexec judges programs: it compiles a submission, runs it on the cases of a
problem, in a sandbox, and grades the outcome. This directory models it in
TLA+, checks the models with TLC and proves the most important of their
properties with TLAPS. Paths below are relative to the repository.

## The system

| part | state | operations | talks to |
|---|---|---|---|
| evaluator (`eval/eval.go`) | result cache, three sandboxes, three environments, recursion over the test groups | `NewEvaluator`, `Evaluate` (and `evaluateGroup`, `evaluateCase`, `mergeRes` below it) | calls the sandbox wrapper and the file linker, sends results on a channel |
| sandbox wrapper (`eval/sandbox.go`) | the sandbox's process, its pipes, `waited` | `Start`, `Run`, `Finish` | writes commands to, and reads tokens from, the sandbox |
| monitor (`sandbox/src/main.rs`) | none | clones the sandbox, waits for it, removes its container directory | death signal from the judge, exit of the sandbox |
| sandbox (`sandbox/src/sandbox.rs`, `chroot.rs`) | mounts, control group, container, the run in progress | `setup_mounts`; then the loop: read a command, fork, attach, await the setup, poll, kill, reap, report | the wrapper, the kernel, the child's setup pipe |
| file base, file linker (`util/files.go`, `eval/filelinker.go`) | directories with an owner and a mode, two of them per environment | `Mkdir`, `WriteFile`, `Copy`, `LinkInto`, `CopyInto`, `Remove`, `RemoveContents`, `LinkFile`, `Clear` | the file system, shared with the sandboxes |
| grading (`eval/eval.go` 222-358) | none | `defaultGrader`, `worseness` | the evaluator |
| interactive evaluation (`eval/eval.go` 412-522) | two FIFOs, two goroutines | `evaluateInteractive` | two sandboxes at once |
| output comparison (`eval/diff.go`, `eval/eval.go` 697-734) | scanner positions | `Diff`, `diffOutput` | the evaluator |
| compilation (`eval/compilers.go`) | the output directory, sandbox 0 | `Compile` and one function per kind of language | the sandbox wrapper |
| languages (`eval/language.go`) | the map of installed languages | `InitLanguages`, which runs each compiler once | the sandbox wrapper |
| users, quotas, permission fixer | read at start-up | lookups | system calls only |

What is hard in it: the judge, the monitor, the sandbox, the child before
`exec`, and whatever processes the program forks all run at once, and only
pipes, wait statuses and a control group tie them together; any of them may die
at any time, and the judge's death must take the others along. A wrapper is
reused for many runs, so a token or a process left by one run would be taken
for the next one's. The evaluator recurses with early exits, a cache, calls that fail,
and deferred calls, over directories that survive it. Mounts hide one another
depending on their order, and the clean-up removes a tree in which the host's
directories were mounted. A file operation is many system calls, of which any may fail.

What makes each part correct, in a sentence: a *run* returns the outcome of its
own command, when nothing of it is left alive; a *sandbox* ends with its judge,
writes only where it was told and leaves the host as it was;
an *evaluation* counts for each case a result made from that case's files, sends
the results (of an interactive plan, of the groups only) once and in post-order, and closes the channel after its
sandboxes are finished; *grading* keeps what the modes of the group mean; a
*comparison* matches exactly what the flags call the same; a *compilation* returns
only a program that is there, and an executable only if it built it; a *file operation* that returns no error is done, owner and mode included.

## The modules

* `Processes` is the kernel's part: the process table of one namespace and the
  control group of the command. It is external to the repository and modelled by
  what `sandbox.rs` relies on: orphans become children of the sandbox, `fork` is
  checked against `pids.max`, a zombie is charged but not listed, the death of
  PID 1 ends the namespace.
* `Sandbox` is the monitor and the sandbox, one action per step that another
  process can see the effect of, from `prctl` to the next `read_command`. `spc` is
  the position in `sandbox_main`. CPU time is the class that the code
  compares: within the limit (0), over it (1), over it by the extra second (2). An
  unwrapped call may fail, and then the sandbox dies (`BootPanic`, `StartPanic`, `CallPanic`,
  `KillPanic`, `PrintPanic`).
* `SandboxWrapper` composes them with `Run`, `Finish` and the death of the
  judge. `wpc` is the position in the wrapper, `res` the `execResult` being
  filled in. Lines printed are tokens of a sequence, the pipe.
* `SandboxService` is what a user of `Run` may rely on, with five actions and no
  pipe, monitor or process table. `SandboxWrapper!ImplementsService` maps the
  composition to it (`Phase`, `End`, `Returned`).
* `Commands` is the piece of that composition below it: how a command travels,
  byte by byte, from `Run`'s write to `read_command`, through a pipe that the
  reader empties in any pieces. Elsewhere a command is one message.
* `Container` is the piece before it: the directories that the judge asks for,
  for every sandbox it makes (program, validator, grader, compiler, probe), the
  mounts that the sandbox makes of them one by one, and the container directory
  that outlives a judge's death. `Seen`, `Covering` and `Below` are the kernel's
  path resolution across mounts.
* `Compile` is a client of `SandboxService`: `InitLanguages`, then calls of
  `Compile` on one output directory. The variables `phase, alive, cpu, end, result`
  are the service's, and each sandbox step is one of its actions.
* `Grading` has the grader as operators; `DefaultGrader` runs its loop and
  compares every intermediate state with a definition of the modes.
* `Evaluator` is `Evaluate` with `evaluateGroup`, `evaluateCase`, `evaluateInteractive` and
  `mergeRes` below it: a stack of frames for the
  recursion, the deferred calls as a stack, the environments as a function
  from file names to contents, and sandboxes reduced to their life cycle. Both runs of an
  interactive case are one step here (`RunInteractive`), which `Interactive` takes apart; the
  links, the judgement, the clears and what is sent are as in the code. An environment is
  emptied entry by entry (`RemoveEntry`), and a failure or a death may come between two. Its
  property `RunsOnStarted` is the assumption that `SandboxWrapper` makes of its
  callers (the guard of `RunCall`), and its steps for `Run` are those the
  wrapper allows: a result, a failure that finishes the sandbox, or the judge's death.
* `Interactive` is `evaluateInteractive`: for each FIFO who has it open for
  reading and for writing, and for each side how far its run and its goroutine
  are. A run is reduced to the opening of its streams, what it reads and
  writes, and its end. The race on `programRun` is `ProgramRunSeenNil`: either value
  between the assignment and the goroutine's next call, which synchronises.
* `Diff` is `diffOutput` with `Diff`: the flags are read one by one, then each
  scanner takes a byte per step. A character stands for a class of bytes; numbers
  are decimals of one or two digits, infinities, or `nan`.
* `Paths` has `filepath.Clean`, `Join` and `Dir`, and `FullPath`; a path is the sequence of
  its components. `FileBase` has the operations of a file base and of a file
  linker on a tree with hard links. One step is one operation with a number of
  system calls after which it fails, so that every half-done operation is a
  state that later operations start from. An `os.RemoveAll` that fails leaves any
  part of the tree that it can (`Stays`).
* `SandboxProofs`, `EvaluatorProofs`, `CompileProofs`, `ContainerProofs`,
  `CommandsProofs`, `DiffProofs` and `FileBaseProofs` hold the theorems of the module they
  are named after (`SandboxProofs` those of `SandboxWrapper`), `GradingProofs` those of
  `DefaultGrader` and of `Interactive`.
* The `MC` modules give TLC the plans, files, commands and directories.

In each module `Inv` names what a run checks as one invariant: `TypeOK` with one or two
named parts (`RunsOnStarted` and `ScoreIsFresh` in `Evaluator`, `NoSigpipe` and
`NothingKeptOpen` in `Interactive`, `RulesMeanFlags` in `Diff`, `OneAtATime` in
`Commands`, `LeftByJava` and `OwnDirectoryEnds` in `Compile`, `PanicsExplained` in
`Container`, `LinkerReady` in `FileBase`). In `SandboxWrapper` it is the inductive
invariant of the proofs; the other proof modules have their own, `IInv` or one named
for what it keeps in step.

A few operators are variants of the definition after them (`...Late`,
`...KeepCut`, `CacheKeyNoFlags` and so on), each with a comment saying what it gets
wrong: slips a change of the code could make. With such a variant in place of
the definition, the property that PROJECT.json names beside it fails.

## The runs

| run | asks | bounds |
|---|---|---|
| `sandbox` | Does a run return its own outcome, with nothing left of it, whatever the programs do? Does the judge's death end everything? Does the composition implement `SandboxService`? | 2 runs, 4 processes per command with a limit of 3, exit codes 0 and 1, signal 9 |
| `container` | What can each sandbox see and write, do its mounts succeed, what may its clean-up touch? | 3 plans (one interactive, one with a relative root), 3 language roots, 2 starts, a kill at every mount, clean-ups that fail at up to 2 directories |
| `commands` | Does every command arrive whole, and is none waited for in vain? | 2 commands of none to four fields, a largest byte of 3, reads of at most 2 |
| `compile` | What is a returned program worth, and what is left running? | one language of each kind and one that was never probed, 4 classes, 2 calls |
| `evaluator` | Whose files are run, judged and counted; what is sent, in which order; what is left running; does it end? | 10 plans, 2 of them interactive, on a tree of three groups and three cases, every failure, a crash at every step, one retry on the same root |
| `default_grader` | Does the loop keep the verdict and, but for AVG, the score that the modes mean? | every combination of modes, lists of up to 3 results with 4 verdicts and the scores -1, 0, 2 |
| `interactive` | What does an end of file mean, which ends stay open, who is blamed, does it end? | FIFOs that hold 2 messages, every end of either run |
| `diff` | Does the comparison match exactly what the flags call the same, at the right positions, and return? | all files of up to 3 characters under the switches, of up to 2 with numbers under the tolerances |
| `file_base` | Does no error mean done, and is nothing outside touched? | 3 operations, each failing after any of its system calls |
| `exited_means_exited`, `ends_in_time`, `unknown_flag` | three statements that the code does not keep (below) | 1 run; FIFOs that hold 1 message; the flags of `UnknownInputs` |

Why these bounds are enough. Four processes are the command's own, a child, a
grandchild and one more that the limit of three refuses while the others live: orphans, a
parent that collects its child during the kill, and a refused fork all occur; two
runs are what stale state needs, one to leave it and one to find it, and so are two
starts of a sandbox, two compilations and two attempts of an evaluation. The tree
of `MCEvaluator` has a case that
occurs twice with the same files in two groups (the cache), two cases with the
same name (the sort), a group below a group and a group that may be empty.
`MCCommands` has a command with more fields than its count can say, and reads shorter
than a field. `MCContainer` has language roots with relative links, with absolute links, and
with `/var` and `/tmp` of their own. Three operations are one that fails half-way, one that meets what
it left, and a linker.

`NProc` (processes a command ever creates), `MaxRuns`, `MaxResults`,
`MaxAttempts`, `MaxStarts`, `MaxKept` (directories that a failing clean-up leaves, with those above), `MaxCompiles`, `MaxCommands`, `MaxOps` and `MaxCalls` only bound the
exploration. `PidLimit` is the code's own; `MaxByte` and `MaxChunk` are 255 and 1024 there. A
finished, fatal or crashed judge may stop, and stutters in `Over`;
`default_grader` stops when its list is full, `container` and `file_base` after their bounds, and an
interactive evaluation when it is over or hangs (finding 2), hence their
`CHECK_DEADLOCK FALSE`.

### Fairness

`SandboxWrapper!Fairness` is weak fairness of the judge's steps, of the monitor, of
the sandbox, of the child's own setup and of the clock: each is a process that
the kernel schedules, and none waits for a condition that comes and goes
except on a pipe or an exit, which stay. Nothing is assumed of the programs: they may never
end, never collect, fork whenever the limit lets them. Nor is the evaluator obliged to
call `Run` or `Finish`. `RunReturns` and `NothingLeftOver` assume `NoEscape`, that no
process gets out of the control group before the attachment; without it
they fail (first of the list below).

`Evaluator!LiveSpec` is weak fairness of the
evaluator's next step: each is a call that returns, `Run` by `RunReturns`, the
send because the consumer receives until the channel is closed (the repository
contains no consumer; this is an assumption). `Interactive!LiveSpec` is weak
fairness of the judge's goroutines and, for each side, of the child's setup and of
the end of its run, which its sandbox enforces; not of what the processes read
and write. `Compile!LiveSpec` is weak fairness of the judge, and of its sandbox starting a
command and ending it, which `RunReturns` gives. `Commands!LiveSpec` is weak fairness of
the two ends of the pipe, `Diff!LiveSpec` of the function itself.

## What the checks found

1. *A run cut by the wall clock is "exited with code 0".* `runnable.go` 7 says
   that exited means the program exited normally. `sandbox.rs` 211-212 prints nothing in
   that case, and the zero `execResult` of `sandbox.go` 119 says "exited, 0".
   A sleeping submission is judged on its output, a hanging compiler has
   succeeded. `ResultReflectsRun` and `SandboxService` therefore promise an exit
   code only of runs that were not cut, and `Compile!ProgramIsBuilt` has the
   exception `cut`.
2. *An interactive evaluation may hang.* If one run is over before the other's
   child has opened its FIFOs, the judge has closed its end (`eval.go` 457, 462), and
   the child blocks in `open`, inside its setup, where no time limit applies
   (`sandbox.rs` 192). `EndsIfOpenInTime` shows that this is the only way.
3. *An unknown flag is looked at for ever.* `eval.go` 730 warns of it and goes on, but does not
   advance. A tolerance without a value takes the same branch. `ReturnsIfKnown`
   shows that this is the only way not to return.

Seen while modelling, in the models where they matter, without a run of their own. Where a text of the
repository is quoted it says something else than the code does; the properties then except the case, or are
silent on it, and say so in their comments:

* The comment at `sandbox.rs` 189-190 relies on writes to a pipe blocking until they are
  read. They do not, so the program may be running, and forking outside the
  control group, before `add_task` (327). Such a child is neither charged nor killed,
  and the reaping loop waits for it: `NoEscape`.
* `sandbox.rs` 248 unwraps a `kill` that fails when a parent in the sandbox has collected its
  child since the listing. The sandbox panics and the judge exits: `KillPanic`.
* The mode AVG computes the sum (`eval.go` 342), although `eval.proto` 37 calls it AVG. `ScoreMeaning` says nothing of it.
* The result of an interactive case is returned without being sent (`eval.go` 521; line 586 sends the
  others), and has no `Type`. `StreamIsPostOrder` says that of an interactive plan no case is sent. Such a
  plan without a validator panics (`eval.go` 415), with the channel closed.
* A cached failure scores `RejectScore` where a fresh one scores 0 (`eval.go` 25-35, 537-541). A
  failed sample with `BreakOnFail` and `IgnoreSample` leaves an empty list, which is
  accepted. A judge that dies between the two removals of `Clear` leaves
  `score.txt` to an evaluation on the same root: `ScoreIsFresh` holds of the first attempt only, and nothing that is
  checked would notice the stale score. Two questions with one cache key would be taken for one: `KeysTell` excludes it.
* `outRead.Close()` at `eval.go` 466 raises no SIGPIPE, because `outWrite` is open for
  reading too: `NoSigpipe`.
* Two equal files differ under a tolerance if they hold a token that scans as a NaN or as an infinity
  (`diff.go` 79). Under a relative tolerance an infinite reference accepts every other number (80): infinity
  is at most infinity. `Same` has both as they are.
* When the clean-up of a container fails the monitor panics with the directory still there (`main.rs` 154-156),
  and `Finish` ignores how the monitor ended (`sandbox.go` 184): `FinishedMeansGone` has the exception.
* Of a directory with classes of an earlier call, `javaCompile` may return one of those when its own
  compiler has written none with a main (`compilers.go` 139): `ProgramIsBuilt` says when.
* `--memory-mb` is given kilobytes (`sandbox.go` 41, `main.rs` 107). A byte above 127 in a
  command arrives as two (`sandbox.rs` 137). Sandbox ids go up to 100, users from 0 to 15.
* A final class with a main is not found (`compilers.go` 162). `javaCompile` leaves its sandbox
  running when it returns no program (126-136, 172): `LeftByJava`. When `MkdirTemp` fails, the judge's own
  working directory changes owner and mode (`language.go` 208-216).
* A base of `/` or of `.` rejects every path in it (`files.go` 62). `Mkdir` leaves the parents it makes with
  the judge's group. Copying onto a hard link of the source
  empties both and returns no error (`files.go` 130-142), against "Copy copies the file" (124): `OkMeansDone` has the exception.
* A language root that holds `/var` or `/tmp` hides the evaluation's directories, and the sandbox
  panics: `Hidden`.

## What is proved

For any number of processes, runs, calls and results, and for any languages, classes, plans,
commands, files, flags, scores and directories, under the named assumptions on the constants:

| module | theorems | states | besides |
|---|---|---|---|
| `SandboxProofs` | `Invariance` and what follows from it, `Implements` | every safety property of `sandbox` | |
| `EvaluatorProofs` | `StepsFindWhatTheyRelyOn`, `NothingRunsAfterClose`, `NoErrorMeansRootSent`, `AcceptedGroupsAreComplete`, `ResultsBelongToTheirCases`, `StreamReadsAsTree` | every safety property of `evaluator` | `KeysTell` for the last two |
| `ContainerProofs` | `HostIsKept`, `SandboxesBoot`, `StreamsAreReachable`, `OnlyWritableIsWritten` | every property of `container` | `AskedExist`, `OptionalApart`, `ProgramsApart`, where needed |
| `CommandsProofs` | `OneCommandAtATime`, `CommandsArriveAsCharacters`, `PlainCommandsArrive` | every safety property of `commands` | `PlainInputs` for the last |
| `CompileProofs` | `ProgramsAreBuilt`, `OnlyJavaLeaves` | every safety property of `compile` | |
| `DiffProofs` | `AcceptsExactlyTheSame`, `ReportedPositionsAreReal`, `RulesAreAsAsked` | every safety property of `diff` | |
| `GradingProofs` | `VerdictIsMeant`, `ScoreIsMeant`, `FifosKept`, `EofIsTheEnd`, `VerdictIsFit` | every property of `default_grader`, every safety property of `interactive` | |
| `FileBaseProofs` | `FileBaseInv`, `FileBaseOkMeansDone`, `FileBaseOutsideKept` | every property of `file_base` | |

The hypotheses in the last column are formulas about the constants that the code leaves to its
surroundings, not to itself; the theorem that needs one has it in its statement, and TLC
evaluates each one on the constants of the run.

* `KeysTell`: no two questions of a plan share a cache key. A key is the concatenation of two
  paths and the flags (`eval.go` 384), so two can: answer `x` with the flag `y`, and answer `xy`
  without one.
* `PlainInputs`: the fields are ASCII. Without it `CommandsArriveAsCharacters` still holds: each
  byte arrives as the character of that number, and from 128 on takes two bytes.
* `AskedExist`: the directories that the judge names by absolute paths, those of a language's
  root and the four default ones exist, and none is `/proc`. `OptionalApart`: the judge's own directories neither hold
  `/usr/lib32`, `/lib64` or `/lib32` nor lie in one. `ProgramsApart`: a program's root is not in
  the directory that the program writes. A set-up that breaks one is one that an
  administrator or a caller chose; `HostIsKept` needs none of them.

*Sandbox.* None of the properties is inductive. That nothing is alive when `Run` has
returned needs the state of the sandbox for each token still in the pipe, and
that the sandbox has no *children* when it reports, while the property speaks of
all processes. `Inv` is therefore the conjunction of

* `Lineage`: the processes form a forest below the sandbox whose inner nodes
  run. If anything existed while the sandbox had no child, the smallest such slot
  would have a parent that exists too (`NoChildrenNoProcesses`);
* `ProcessSync`: who is charged, in setup, or in the kill list exists or is where
  the sandbox's position says;
* `MonitorSync`: the sandbox ends before the monitor, the monitor before the wait;
* `RunSync`: while `Run` reads, the run is in one of five phases, and in each the
  unread tokens and the result so far add up to the run's outcome.

`EveryStepIsProcessStep` reduces all actions to the six ways the process table
can change, so that `Lineage` is proved once; the rest has one step per action.

*The refinement.* It needs three facts that `Inv` leaves open: how far the command's own process is
for each position of the sandbox (`MainSync`), that a sandbox given up by its judge starts no
command any more (`ClosingSync`), and that what `Run` returned fits the command's end
(`ReturnFits`). `WhatChanges` says for each
action which of the abstract variables it may move, and `HostRefines` and
`JudgeRefines` map each such action to one of the service's, or to a stutter.

*Evaluator.* A chain of invariants, each with the one before as its first conjunct. `DeferSync`: a started sandbox is in the list of
deferred calls, and the close is the first of the list, so the last to run. `BoxSync`: during
the walk the plan's sandboxes are all started, because every failure of `Run` ends the walk
(`WalkKeeps`). `ScoreSync`: a score file is there only while the last directory of the case
is still to be cleared, also after a part of it went. `RootSync`: the root's frame is the last of the stack and nobody's child, so
its result is sent by the step that ends the walk, and no other step ends it without an error.
`TreeSync`: the stack is a path of the tree, what is still to do of a frame was not sent, nothing above
was, and what was sent is in post-order so far. `ResultSync`: every result in a frame is of a child that
is no longer to do, and a frame without flags that is still accepted has all of those.
`FileSync`: which files the links made so far put where, and so whose run it is that
the validator judges; every file name has one content. `OwnSync`: every result in a frame, and every
one in the cache, is of its own case's files, and was sent or has a twin that was, or is of an interactive
plan, of which only groups were sent. `KindSync` adds the types.
A crash empties the stack and the cache but not the directories, so `FileSync` may say nothing of
what was there before a link.

*Compile.* A result is known to fit the end of the run it came from, and what that compiler has written is
known unless it was cut (`Ended`); of the classes that Walk has passed, exactly those with a main that
javap can introduce were found (`Found`); a sandbox still there is Java's or the one in use (`Left`).

That a judge which works in its own directory ends (`OwnDirectoryEnds`) is computed from
`FullPath`: no name is accepted in the base `.` (`NothingInHere`).

*Container.* The invariant is `Made`: the host's directories are the original ones, and what is
mounted followed by what is still to be mounted is the plan, in a private namespace. What can be said of
the plan is `Ordered`: after a writable mount come only mounts of directories seen where they are. So a missing
parent of a mount point is never below a writable mount of another directory, and
`create_dir_all` makes nothing on the host (`NothingMadeOnHost`); since nothing can be removed
through mounts that did not propagate, the host is kept. A path outside of a language's directories
is seen where it is (`SeenAsItIs`), hence a mount of it finds its parents (`SameMountable`); a language's mount point lies
directly below the root (`RootMountable`); these are all mounts there are (`HeadMountable`). The last mount that covers a path below a
writable directory is writable itself (`AskedIsWritten`), and a writable mount is one that was asked for (`WrittenIsAsked`).
`Ordered` in turn rests on what each caller asks for (`AllAsked`) and on `mountArgs` keeping each path once (`OnceIs`).

*Commands.* `CommandSync`: of the message under way, what the reader has taken (`HasRead`), what is in the
pipe and what is unwritten make up its encoding (`Left`); judge and sandbox take turns, so there is one
message at a time (`Turns`), and what was executed is what was sent (`History`).

*Diff.* Three invariants. `Scanning`: a scanner stands at a byte whose line and column are counted from the newlines before it,
and its token is the text up to there. `Flagging`: the rules are those of the flags read so far, of
tolerances the last one. `Matching`: the tokens compared are the first of both files, and each scanner is in the next
one or in the space before it; at the end of a file none is left (`FileEnds`).

*DefaultGrader.* The loop's state is related to the list read so far; the verdict kept is the worst, the first
or whether any is accepted *of the prefix*, and the score under MIN and MAX the extreme one,
under SUM the total in which each result counts once, for a list of any length and any scores. AVG is left out.

*Interactive.* Who holds an end of a FIFO is a function of how far the runs and the goroutines are
(`Held` while the judge waits, `Still` before and after). From it follow what an end of file means, and that nobody writes to a FIFO without a reader.

*File base.* The invariant `IInv` says that the entries form a tree and that a directory has one name (`Sound`), and that a
linker's directories are there. A system call either does what it does or changes nothing (`DoIs`); what creating and writing
calls may do is one relation, `Step`: nothing goes, a node that changes is linked below the base and gets the base's owner
and mode or keeps its own, and what is new is below the base or on the way to it. `Step` is transitive (`StepsFollow`), so an
operation of any number of calls is one, and what one call has fixed the next ones leave fixed (`FixedStays`): that
is how `CopyIntoOp` keeps what it promises for the files it has passed. Removal takes names and no nodes (`Trimmed`), whatever
part of a tree stays; a link adds a name (`Named`). All are `Within` the base. A directory outside of the base is then untouched,
because it has no second name through which the base could hold it (`DirsStay`); that is why the linker's directories stay
while the other base works, and why the one made first stays while the second is made: that `read` and `write` are not in one another is
computed from `filepath.Clean` (`CleanApart`), for every directory given to `newFileLinker`. The assumption
`FileBaseAssumption` says that the tree is one, and that neither base is below the other, as `eval.go` 72 and 532 choose them.

*Recursive definitions.* The library's induction rules take an operator as a parameter, which the provers
cannot instantiate. Where a loop over data is a recursive function (`Encode`, `IsFlag`, `Total`, `Once`, `Clean`, `MakeDirs`, `CopyIntoOp`),
what it computes is proved instead from the least number at which it would be wrong (`LeastNumber`, `FromZeroOn`, from the
well-foundedness of `<` on `Nat`): first that a function with these equations exists, then what it is.

Only model-checked: liveness, since fairness and ENABLED are out of the prover's reach, and the three
statements that the code does not keep.

## What is not modelled

Memory limits and the token `mem`, which the sandbox never prints; usage
figures other than the class of CPU time; environment variables and the search of `PATH`;
quotas, users and the wrappers of system calls, which succeed or panic; symbolic links
in `FileBase`; failing reads of the files compared; the judge message and the validator's own
output files; errors of the four `OpenFile` calls of `evaluateInteractive`, which the
code ignores. A call that can fail does so nondeterministically. That the judge dies through `Fatalf` is its
crash in `Evaluator`. The permission fixer walks a directory and calls
`chown` and `chmod` in its own process; the utilities are lookups and logging. Neither keeps state.

## What is left open

Every safety and action property that a passing run checks is proved. Open are the liveness properties, which TLC checks on the
bounds above, and what the section before this one lists: above all symbolic links, in `FileBase` and among the
container's mounts, and the figures of memory and usage.

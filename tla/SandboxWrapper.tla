--------------------------- MODULE SandboxWrapper ---------------------------
(* The judge's side of a sandbox, sandboxWrapper of eval/sandbox.go,         *)
(* composed with the sandbox it has started.  Run writes a command and      *)
(* reads tokens until "done"; Finish closes the sandbox's input and waits   *)
(* for it.  The judge may crash at any time.                                *)
(*                                                                          *)
(* The callers' contract, that Run is never called on a finished wrapper,   *)
(* is the guard of RunCall.                                                 *)
EXTENDS Sandbox

CONSTANT MaxRuns    \* bound: calls of Run

ASSUME WrapperAssumption == MaxRuns \in Nat

VARIABLES
    wpc,    \* what the judge is doing with the sandbox
    res,    \* the execResult being filled in
    ret,    \* what the last Run returned
    runs    \* calls of Run so far

wrapperVars == <<wpc, res, ret, runs>>
vars == <<sandboxVars, procVars, wrapperVars>>

ExitTypes == {"exited", "signaled", "timedOut"}

(* The zero value of execResult says "exited with code 0". *)
ZeroResult == [type |-> "exited", code |-> 0, signal |-> 0]

WrapperTypeOK ==
    /\ wpc \in {"idle", "reading", "finishing", "finished", "dying", "fatal", "crashed"}
    /\ res \in [type : ExitTypes, code : ExitCodes, signal : Signals \cup {0}]
    /\ ret \in {"none", "ok", "setup"}
    /\ runs \in 0 .. MaxRuns

Init ==
    /\ SandboxInit
    /\ wpc = "idle"
    /\ res = ZeroResult
    /\ ret = "none"
    /\ runs = 0

-----------------------------------------------------------------------------

(* The result of the last Run is filled in again. *)
RunCallKeepResult ==
    /\ wpc = "idle"
    /\ runs < MaxRuns
    /\ runs' = runs + 1
    /\ wpc' = "reading"
    /\ cmdIn' = (spc # "dead")
    /\ ret' = "none"
    /\ UNCHANGED <<res, procVars, hostVars, spc, stdinOpen, reader, out, runVars, todo>>

(* Run: write the command; a failed write is only logged. *)
RunCall ==
    /\ wpc = "idle"
    /\ runs < MaxRuns
    /\ runs' = runs + 1
    /\ wpc' = "reading"
    /\ cmdIn' = (spc # "dead")
    /\ res' = ZeroResult
    /\ ret' = "none"
    /\ UNCHANGED <<procVars, hostVars, spc, stdinOpen, reader, out, runVars, todo>>

(* One turn of the token loop: a status sets the type and its own field. *)
Read(r, tok) ==
    CASE tok.t = "code" -> [r EXCEPT !.type = "exited", !.code = tok.v]
      [] tok.t = "signal" -> [r EXCEPT !.type = "signaled", !.signal = tok.v]
      [] tok.t = "tle" -> [r EXCEPT !.type = "timedOut"]
      [] OTHER -> r

ReadToken ==
    /\ wpc = "reading"
    /\ out # <<>>
    /\ Head(out).t \notin {"done", "setup"}
    /\ res' = Read(res, Head(out))
    /\ out' = Tail(out)
    /\ UNCHANGED <<procVars, hostVars, spc, cmdIn, stdinOpen, reader, runVars, todo, wpc, ret, runs>>

(* "done": Run returns the result. *)
RunReturn ==
    /\ wpc = "reading"
    /\ out # <<>>
    /\ Head(out).t = "done"
    /\ out' = Tail(out)
    /\ wpc' = "idle"
    /\ ret' = "ok"
    /\ UNCHANGED <<procVars, hostVars, spc, cmdIn, stdinOpen, reader, runVars, todo, res, runs>>


(* A failed setup returns without a Finish. *)
SetupFailedKeepOpen ==
    /\ wpc = "reading"
    /\ out # <<>>
    /\ Head(out).t = "setup"
    /\ out' = Tail(out)
    /\ wpc' = "idle"
    /\ ret' = "setup"
    /\ UNCHANGED <<procVars, hostVars, spc, cmdIn, stdinOpen, reader, runVars, todo, res, runs>>

(* "killed setup": Run calls Finish and returns an error; "done" stays unread. *)
SetupFailed ==
    /\ wpc = "reading"
    /\ out # <<>>
    /\ Head(out).t = "setup"
    /\ out' = Tail(out)
    /\ wpc' = "finishing"
    /\ stdinOpen' = FALSE
    /\ ret' = "setup"
    /\ UNCHANGED <<procVars, hostVars, spc, cmdIn, reader, runVars, todo, res, runs>>

(* sandboxToken sees the end of the output: Finish, then Fatalf. *)
TokenEof ==
    /\ wpc = "reading"
    /\ out = <<>>
    /\ spc = "dead"
    /\ wpc' = "dying"
    /\ stdinOpen' = FALSE
    /\ UNCHANGED <<procVars, hostVars, spc, cmdIn, reader, out, runVars, todo, res, ret, runs>>

(* Finish, called by the evaluator between runs. *)
FinishCall ==
    /\ wpc = "idle"
    /\ wpc' = "finishing"
    /\ stdinOpen' = FALSE
    /\ UNCHANGED <<procVars, hostVars, spc, cmdIn, reader, out, runVars, todo, res, ret, runs>>

(* cmd.Wait returns when the monitor has ended; how it did is ignored. *)
WaitReturn ==
    /\ wpc \in {"finishing", "dying"}
    /\ mon \in {"exited", "panicked"}
    /\ wpc' = IF wpc = "dying" THEN "fatal" ELSE "finished"
    /\ UNCHANGED <<sandboxVars, procVars, res, ret, runs>>

WrapperNext == ReadToken \/ RunReturn \/ SetupFailed \/ TokenEof \/ WaitReturn

(* The judge dies: its pipes close, and the death signal goes from the      *)
(* monitor to the sandbox, to those of the two that have asked for it.      *)
MonitorDies == mon \in {"armed", "waiting"}
SandboxDies == mon = "waiting" /\ spc # "clone"

JudgeCrash ==
    /\ wpc \notin {"crashed", "fatal"}
    /\ wpc' = "crashed"
    /\ stdinOpen' = FALSE
    /\ reader' = FALSE
    /\ mon' = IF MonitorDies THEN "killed" ELSE mon
    /\ IF SandboxDies
       THEN spc' = "dead" /\ todo' = {} /\ Teardown
       ELSE UNCHANGED <<spc, todo, procVars>>
    /\ UNCHANGED <<container, cmdIn, out, runVars, res, ret, runs>>

-----------------------------------------------------------------------------
(* Nothing is left to happen to a sandbox that is dead and waited for. *)
Over ==
    /\ wpc \in {"finished", "fatal", "crashed"}
    /\ mon \in {"exited", "panicked", "killed"}
    /\ spc \in {"none", "dead"}
    /\ UNCHANGED vars

(* The steps of the sandbox, of its child and of its programs leave the judge alone. *)
HostNext == MonitorNext \/ SandboxNext \/ ChildNext \/ ProgramNext \/ WallTick

Next ==
    \/ HostNext /\ UNCHANGED wrapperVars
    \/ RunCall \/ FinishCall \/ WrapperNext \/ JudgeCrash
    \/ Over

(* The processes of the judge, the clock and the child's setup are          *)
(* scheduled; the programs owe nothing, and nor do the callers.             *)
Fairness ==
    /\ WF_vars(MonitorNext /\ UNCHANGED wrapperVars)
    /\ WF_vars(SandboxNext /\ UNCHANGED wrapperVars)
    /\ WF_vars(ChildNext /\ UNCHANGED wrapperVars)
    /\ WF_vars(WallTick /\ UNCHANGED wrapperVars)
    /\ WF_vars(WrapperNext)

Spec == Init /\ [][Next]_vars

LiveSpec == Spec /\ Fairness

-----------------------------------------------------------------------------
(* Every variable stays in its type: the composition of judge, sandbox and kernel never leaves the states the code has names for. *)
TypeOK == SandboxTypeOK /\ WrapperTypeOK

(* When Run has returned a result, no process of the command exists any     *)
(* more, wherever it was forked: the loops of sandbox.rs 242-264 come       *)
(* before "done", so nothing runs on into the next command of the same      *)
(* sandbox, and nothing is left charged to the cgroup.                      *)
DoneMeansQuiet ==
    wpc = "idle" => Existing = {} /\ cgroup = {} /\ todo = {}

(* Between two calls of Run no token is in the pipe: the loop of            *)
(* eval/sandbox.go 120-165 has consumed exactly one command's tokens, so a  *)
(* result is never made of what an earlier command left.                    *)
NoStaleTokens ==
    wpc = "idle" => out = <<>> /\ ~cmdIn

(* The result Run returns is that of this command: "timed out" exactly if   *)
(* the CPU charged, children included, exceeded the limit, and otherwise,   *)
(* unless the sandbox cut it short, how the command's own process ended.    *)
ResultReflectsRun ==
    wpc = "idle" /\ ret = "ok" =>
        /\ res.type = "timedOut" <=> cpu > 0
        /\ cpu = 0 /\ ~cut /\ res.type = "exited" => status = Code(res.code)
        /\ res.type = "signaled" => status = Signal(res.signal) /\ ~cut

(* A command whose streams could not be opened or whose exec failed is      *)
(* never returned as a run: Run returns it as an error (eval/sandbox.go     *)
(* 128-130) or the judge dies with the sandbox.                             *)
OkMeansExeced ==
    wpc = "idle" /\ ret = "ok" => errPipe = "ok"

(* After Finish, whatever made the sandbox end, no process of it remains,   *)
(* and no container directory unless its removal failed (main.rs 152-157):  *)
(* the monitor then panics, which Finish does not see (eval/sandbox.go 184).*)
FinishedMeansGone ==
    wpc \in {"finished", "fatal"} =>
        Existing = {} /\ spc = "dead" /\ (container => mon = "panicked")

-----------------------------------------------------------------------------
(* The inductive invariant behind the five properties above. *)

(* The processes form a forest below the sandbox: an orphan is its child,   *)
(* and any other process has a parent that was forked earlier and runs.     *)
Lineage ==
    \A p \in Existing :
        parent[p] = InitProc \/ (parent[p] < p /\ pst[parent[p]] = "run")

(* What is charged exists, setup comes before attachment, kill passes end. *)
ProcessSync ==
    /\ cgroup \subseteq Existing
    /\ \A p \in Proc : pst[p] = "setup" => p = Main /\ spc \in {"attach", "await"}
    /\ pst[Main] = "zombie" => status \in Statuses
    /\ todo # {} => spc = "kill"
    /\ spc \in {"none", "clone", "boot", "dead"} => Existing = {}

(* The monitor outlives the sandbox, and the judge's wait the monitor. *)
MonitorSync ==
    /\ mon \in {"start", "armed"} => spc = "none"
    /\ mon = "exited" => ~container
    /\ mon \in {"exited", "panicked"} => spc = "dead"
    /\ wpc \in {"finished", "fatal"} => mon \in {"exited", "panicked"}
    /\ wpc \in {"idle", "reading"} => stdinOpen
    /\ wpc # "crashed" => reader

(* No command is being run: none came, or the last one is over. *)
Ready == Existing = {} /\ spc \in {"none", "clone", "boot", "read", "dead"}

(* The result when the status, and when everything, has been read. *)
StatusResult == IF cut THEN ZeroResult ELSE Read(ZeroResult, status)
FinalResult == IF cpu > 0 THEN [StatusResult EXCEPT !.type = "timedOut"] ELSE StatusResult

StatusKnown == errPipe = "ok" /\ (~cut => status \in Statuses)

(* What is in the pipe and what is in the result, while Run reads. *)
UnreadStatus(rest) == ~cut /\ out = <<status>> \o rest /\ res = ZeroResult
ReadStatus(rest) == out = rest /\ res = StatusResult

BeforeStatus == spc \in {"attach", "await", "poll", "limits"} /\ out = <<>> /\ res = ZeroResult /\ ~cut

CleaningUp ==
    /\ spc \in {"freeze", "tasks", "kill", "reap"}
    /\ StatusKnown
    /\ UnreadStatus(<<>>) \/ ReadStatus(<<>>)
    /\ ~cut => pst[Main] = "gone"

SetupReported == spc = "read" /\ out = <<Bare("setup"), Bare("done")>>

Reported ==
    /\ Ready
    /\ spc = "read"
    /\ StatusKnown
    /\ \/ UnreadStatus(FinalTokens)
       \/ ReadStatus(FinalTokens)
       \/ /\ out \in {<<Bare("cpu"), Bare("done")>>, <<Bare("done")>>}
          /\ res = FinalResult

SandboxLost == spc = "dead" /\ (out = <<>> \/ \E t \in Statuses : out = <<t>>)

RunSync ==
    /\ spc \in {"poll", "limits"} => errPipe = "ok"
    /\ wpc = "idle" => Ready /\ out = <<>> /\ ~cmdIn
    /\ wpc = "idle" /\ ret = "ok" => StatusKnown /\ res = FinalResult
    /\ wpc = "reading" /\ cmdIn => Ready /\ out = <<>> /\ res = ZeroResult
    /\ wpc = "reading" /\ ~cmdIn =>
          BeforeStatus \/ CleaningUp \/ SetupReported \/ Reported \/ SandboxLost

(* The judge, the monitor, the sandbox and the processes agree at every     *)
(* step of a run on how far the run has come: sandbox.go 119-165 relies on  *)
(* the order of the prints of sandbox.rs, and those on the state of the     *)
(* processes.  It is inductive, and proved in SandboxProofs.                *)
Inv == TypeOK /\ Lineage /\ ProcessSync /\ MonitorSync /\ RunSync

-----------------------------------------------------------------------------
(* No process escapes the cgroup: only the command's own process may run    *)
(* outside of it, before the attachment.  An environment assumption of the  *)
(* liveness properties: exec may win the race with the attachment.          *)
NoEscape == \A p \in Proc : pst[p] = "run" /\ p \notin cgroup => p = Main /\ spc = "attach"

(* Run returns whatever the programs do: fork, ignore time, wait forever.   *)
RunReturns == []NoEscape => (wpc = "reading" ~> wpc # "reading")

(* When the judge dies, so do in the end the sandbox and everything in it   *)
(* (main.rs 85-86), also if the death comes between clone and prctl.        *)
NothingLeftOver ==
    []NoEscape => (wpc = "crashed" ~> [](Existing = {} /\ spc \in {"none", "dead"}))

(* The composition implements the service the evaluator relies on: see      *)
(* SandboxService.  What a cut command's process would have ended with is   *)
(* not the program's answer.                                                *)
Phase ==
    CASE wpc = "idle" -> "idle"
      [] wpc = "reading" /\ cmdIn -> "called"
      [] wpc = "reading" /\ ~cmdIn /\ spc # "dead" -> "running"
      [] wpc = "crashed" -> "crashed"
      [] OTHER -> "closed"

End == IF cut THEN NoStatus ELSE status
Returned == IF wpc = "idle" /\ ret = "ok" THEN {res} ELSE {}

Service == INSTANCE SandboxService WITH
    Results <- [type : ExitTypes, code : ExitCodes, signal : Signals \cup {0}],
    phase <- Phase,
    alive <- Existing # {},
    end <- End,
    result <- Returned

ImplementsService == Service!Spec

(* runnable.go 7: "exited means the program exited normally with an exit    *)
(* code."                                                                   *)
ExitedMeansExited ==
    wpc = "idle" /\ ret = "ok" /\ res.type = "exited" => status = Code(res.code)
=============================================================================

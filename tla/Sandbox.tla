------------------------------ MODULE Sandbox ------------------------------
(* The sandbox binary /usr/bin/omogenexec: the monitor of                    *)
(* sandbox/src/main.rs and the sandbox proper of sandbox/src/sandbox.rs,    *)
(* which it clones as PID 1 of a new namespace.  The sandbox reads commands *)
(* on its standard input, runs each as a child in a cgroup, and prints      *)
(* tokens that say how the run ended.                                       *)
(*                                                                          *)
(* CPU time is abstracted to what sandbox.rs compares it with: 0 is within  *)
(* the limit, 1 above it but within the extra second, 2 above that.  Wall   *)
(* time is either within the limit or over it.                              *)
EXTENDS Processes, Sequences

SIGKILL == 9

CONSTANTS
    ExitCodes,  \* the exit codes of programs that a run tells apart
    Signals     \* the signals that end programs

ASSUME SandboxAssumption ==
    /\ 0 \in ExitCodes /\ ExitCodes \subseteq Nat
    /\ SIGKILL \in Signals /\ Signals \subseteq Nat

VARIABLES
    mon,        \* the monitor process
    spc,        \* where the sandbox process is
    container,  \* whether the container directory exists
    cmdIn,      \* a command lies unread in the sandbox's stdin
    stdinOpen,  \* whether the judge still has the other end of stdin open
    reader,     \* whether the judge still has the other end of stdout open
    out,        \* the tokens in the stdout pipe
    errPipe,    \* what the child wrote to the setup pipe
    status,     \* the wait status of the command's process
    cpu,        \* class of CPU time charged since cpu_before
    wallOver,   \* whether the wall clock limit has passed
    cut,        \* the poll loop was left because of a limit
    todo        \* the processes of the current kill pass

pipeVars == <<cmdIn, stdinOpen, reader, out>>
runVars == <<errPipe, status, cpu, wallOver, cut>>
hostVars == <<mon, container>>
sandboxVars == <<mon, spc, container, cmdIn, stdinOpen, reader, out, errPipe, status, cpu, wallOver, cut, todo>>

Code(n) == [t |-> "code", v |-> n]
Signal(n) == [t |-> "signal", v |-> n]
Bare(s) == [t |-> s, v |-> 0]
NoStatus == Bare("none")

Statuses == {Code(n) : n \in ExitCodes} \cup {Signal(n) : n \in Signals}
Tokens == Statuses \cup {Bare(s) : s \in {"tle", "setup", "cpu", "done"}}

MonStates == {"start", "armed", "waiting", "exited", "panicked", "killed"}
RunStates == {"attach", "await", "poll", "limits", "freeze", "tasks", "kill", "reap"}
SandboxStates == {"none", "clone", "boot", "read", "dead"} \cup RunStates

SandboxTypeOK ==
    /\ ProcTypeOK
    /\ mon \in MonStates
    /\ spc \in SandboxStates
    /\ container \in BOOLEAN /\ cmdIn \in BOOLEAN /\ stdinOpen \in BOOLEAN
    /\ reader \in BOOLEAN /\ wallOver \in BOOLEAN /\ cut \in BOOLEAN
    /\ out \in Seq(Tokens)
    /\ errPipe \in {"empty", "ok", "err", "okexec"}
    /\ status \in Statuses \cup {NoStatus}
    /\ cpu \in 0 .. 2
    /\ todo \subseteq Proc

SandboxInit ==
    /\ ProcInit
    /\ mon = "start"
    /\ spc = "none"
    /\ container = FALSE
    /\ cmdIn = FALSE
    /\ stdinOpen = TRUE
    /\ reader = TRUE
    /\ out = <<>>
    /\ errPipe = "empty"
    /\ status = NoStatus
    /\ cpu = 0
    /\ wallOver = FALSE
    /\ cut = FALSE
    /\ todo = {}

-----------------------------------------------------------------------------
(* The monitor. *)

(* main: prctl(PR_SET_PDEATHSIG); before it the death of the judge is not noticed. *)
MonitorArm ==
    /\ mon = "start"
    /\ mon' = "armed"
    /\ UNCHANGED <<procVars, spc, container, pipeVars, runVars, todo>>

(* main: clone() of the sandbox; the monitor goes on to wait for it. *)
MonitorClone ==
    /\ mon = "armed"
    /\ mon' = "waiting"
    /\ spc' = "clone"
    /\ UNCHANGED <<procVars, container, pipeVars, runVars, todo>>


(* The container directory is left. *)
MonitorCleanNothing ==
    /\ mon = "waiting"
    /\ spc = "dead"
    /\ mon' = "exited"
    /\ UNCHANGED <<procVars, container, spc, pipeVars, runVars, todo>>

(* monitor_main: the sandbox is dead, remove its container directory.  If   *)
(* that fails, also because the sandbox never made one, the monitor panics, *)
(* and what could not be removed stays.                                     *)
MonitorClean ==
    /\ mon = "waiting"
    /\ spc = "dead"
    /\ \/ container /\ container' = FALSE /\ mon' = "exited"
       \/ container' = container /\ mon' = "panicked"
    /\ UNCHANGED <<procVars, spc, pipeVars, runVars, todo>>

MonitorNext == MonitorArm \/ MonitorClone \/ MonitorClean

-----------------------------------------------------------------------------
(* The sandbox between commands. *)

(* Every way the sandbox process can end takes its namespace with it. *)
Die ==
    /\ spc' = "dead"
    /\ todo' = {}
    /\ Teardown
    /\ UNCHANGED <<hostVars, pipeVars, runVars>>

(* sandbox_main: prctl(PR_SET_PDEATHSIG) is the first thing the clone does. *)
SandboxArm ==
    /\ spc = "clone"
    /\ spc' = "boot"
    /\ UNCHANGED <<procVars, hostVars, pipeVars, runVars, todo>>

(* setup_cgroups and setup_container_fs. *)
SandboxBoot ==
    /\ spc = "boot"
    /\ spc' = "read"
    /\ container' = TRUE
    /\ UNCHANGED <<procVars, mon, pipeVars, runVars, todo>>

(* One of the unwraps of the boot fails, before or after create_dir_all. *)
BootPanic ==
    /\ spc = "boot"
    /\ spc' = "dead"
    /\ container' \in BOOLEAN
    /\ Teardown
    /\ UNCHANGED <<mon, pipeVars, runVars, todo>>


(* Whether the last command was cut short is not reset. *)
StartCommandKeepCut ==
    /\ spc = "read"
    /\ cmdIn
    /\ Spawn
    /\ spc' = "attach"
    /\ cmdIn' = FALSE
    /\ errPipe' = "empty"
    /\ status' = NoStatus
    /\ cpu' = 0
    /\ wallOver' = FALSE
    /\ UNCHANGED <<cut, cgroup, pidMax, hostVars, stdinOpen, reader, out, todo>>

(* read_command returns a command, and the sandbox forks. *)
StartCommand ==
    /\ spc = "read"
    /\ cmdIn
    /\ Spawn
    /\ spc' = "attach"
    /\ cmdIn' = FALSE
    /\ errPipe' = "empty"
    /\ status' = NoStatus
    /\ cpu' = 0
    /\ wallOver' = FALSE
    /\ cut' = FALSE
    /\ UNCHANGED <<cgroup, pidMax, hostVars, stdinOpen, reader, out, todo>>


(* At the end of its input the loop goes on. *)
EndOfCommandsIgnored ==
    /\ spc = "read"
    /\ ~cmdIn
    /\ ~stdinOpen
    /\ UNCHANGED <<procVars, sandboxVars>>

(* The pipe for the setup or the fork fails, and its unwrap panics. *)
StartPanic ==
    /\ spc = "read"
    /\ cmdIn
    /\ cmdIn' = FALSE
    /\ spc' = "dead"
    /\ Teardown
    /\ UNCHANGED <<hostVars, stdinOpen, reader, out, runVars, todo>>

(* read_command sees the end of its input: leave the loop and exit. *)
EndOfCommands ==
    /\ spc = "read"
    /\ ~cmdIn
    /\ ~stdinOpen
    /\ Die

-----------------------------------------------------------------------------
(* The child between fork and exec: setup_and_run. *)

InSetup == pst[Main] = "setup"

(* set_streams succeeded and "ok" is in the pipe. *)
ChildReady ==
    /\ InSetup
    /\ errPipe = "empty"
    /\ errPipe' = "ok"
    /\ UNCHANGED <<procVars, spc, hostVars, pipeVars, status, cpu, wallOver, cut, todo>>

(* The child gives up: a panic (chroot, setuid), "err", or "exec" after "ok". *)
ChildFails ==
    /\ InSetup
    /\ errPipe' \in IF errPipe = "empty" THEN {"empty", "err"} ELSE {"okexec"}
    /\ status' \in {Code(n) : n \in ExitCodes \ {0}}
    /\ Terminate(Main)
    /\ UNCHANGED <<spc, hostVars, pipeVars, cpu, wallOver, cut, todo>>

(* exec succeeds: the program runs and its end of the setup pipe is closed. *)
ChildExec ==
    /\ InSetup
    /\ errPipe = "ok"
    /\ pst' = [pst EXCEPT ![Main] = "run"]
    /\ UNCHANGED <<parent, cgroup, pidMax, spc, hostVars, pipeVars, runVars, todo>>

ChildNext == ChildReady \/ ChildFails \/ ChildExec

-----------------------------------------------------------------------------
(* The programs: anything a process of the namespace may do. *)

ProgramFork ==
    /\ \E p \in Proc : Fork(p)
    /\ UNCHANGED sandboxVars

ProgramExit ==
    /\ \E p \in Proc :
        /\ pst[p] = "run"
        /\ Terminate(p)
        /\ IF p = Main THEN status' \in Statuses ELSE UNCHANGED status
    /\ UNCHANGED <<spc, hostVars, pipeVars, errPipe, cpu, wallOver, cut, todo>>

ProgramReap ==
    /\ \E q, p \in Proc : pst[q] = "run" /\ Reap(q, p)
    /\ UNCHANGED sandboxVars

(* CPU time is charged to the cgroup while a process of it runs. *)
ProgramBurn ==
    /\ spc \in {"poll", "limits", "freeze", "tasks", "kill"}
    /\ \E p \in cgroup : pst[p] = "run"
    /\ cpu < 2
    /\ cpu' = cpu + 1
    /\ UNCHANGED <<procVars, spc, hostVars, pipeVars, errPipe, status, wallOver, cut, todo>>

ProgramNext == ProgramFork \/ ProgramExit \/ ProgramReap \/ ProgramBurn

(* The wall clock passes the limit; "now" is taken after the attachment. *)
WallTick ==
    /\ spc \in {"await", "poll", "limits"}
    /\ ~wallOver
    /\ wallOver' = TRUE
    /\ UNCHANGED <<procVars, spc, hostVars, pipeVars, errPipe, status, cpu, cut, todo>>

-----------------------------------------------------------------------------
(* The sandbox while a command runs. *)

(* println!: each line goes to the pipe at once. *)
Say(tokens) == out' = out \o tokens

(* set_pid_max and the three add_task, which write one cgroup.procs in cgroup v2. *)
AttachChild ==
    /\ spc = "attach"
    /\ pidMax' = PidLimit
    /\ Attach(Main)
    /\ spc' = "await"
    /\ UNCHANGED <<pst, parent, hostVars, pipeVars, runVars, todo>>

(* An unwrap of one of the calls around the command fails: attaching it,    *)
(* reading the pipe, waiting, reading the clock or the CPU time, freezing.  *)
CallPanic ==
    /\ spc \in RunStates \ {"tasks", "kill"}
    /\ Die

(* read_to_string returns when the child's end of the setup pipe is closed. *)
SetupRead == spc = "await" /\ ~InSetup


(* Only the first bytes of the pipe are looked at. *)
SetupOkPrefix == errPipe \in {"ok", "okexec"}

SetupOk == errPipe = "ok"

AwaitOk ==
    /\ SetupRead
    /\ SetupOk
    /\ spc' = "poll"
    /\ UNCHANGED <<procVars, hostVars, pipeVars, runVars, todo>>

(* "killed setup": the child is left unreaped and the loop continues. *)
AwaitFailed ==
    /\ SetupRead
    /\ ~SetupOk
    /\ reader
    /\ Say(<<Bare("setup"), Bare("done")>>)
    /\ spc' = "read"
    /\ UNCHANGED <<procVars, hostVars, cmdIn, stdinOpen, reader, runVars, todo>>

(* wait_for_nohang(child) collects the command's process and prints its end. *)
PollExited ==
    /\ spc = "poll"
    /\ reader
    /\ Reap(InitProc, Main)
    /\ Say(<<status>>)
    /\ spc' = "freeze"
    /\ UNCHANGED <<hostVars, cmdIn, stdinOpen, reader, runVars, todo>>

(* wait_for_nohang(child) finds it still running: look at the clocks. *)
PollRunning ==
    /\ spc = "poll"
    /\ pst[Main] # "zombie"
    /\ spc' = "limits"
    /\ UNCHANGED <<procVars, hostVars, pipeVars, runVars, todo>>


(* The wall clock is not looked at. *)
OverLimitCpuOnly == cpu = 2

OverLimit == wallOver \/ cpu = 2

(* Over a limit: leave the loop with nothing printed; otherwise sleep. *)
CheckLimits ==
    /\ spc = "limits"
    /\ cut' = OverLimit
    /\ spc' = IF OverLimit THEN "freeze" ELSE "poll"
    /\ UNCHANGED <<procVars, hostVars, pipeVars, errPipe, status, cpu, wallOver, todo>>


(* One process is still allowed. *)
FreezeToOne ==
    /\ spc = "freeze"
    /\ pidMax' = 1
    /\ spc' = "tasks"
    /\ UNCHANGED <<pst, parent, cgroup, hostVars, pipeVars, runVars, todo>>

(* set_pid_max(0): nothing in the cgroup can fork any more. *)
Freeze ==
    /\ spc = "freeze"
    /\ pidMax' = 0
    /\ spc' = "tasks"
    /\ UNCHANGED <<pst, parent, cgroup, hostVars, pipeVars, runVars, todo>>

(* One round of the kill loop begins by listing the cgroup. *)
ListTasks ==
    /\ spc = "tasks"
    /\ todo' = Tasks
    /\ spc' = IF Tasks = {} THEN "reap" ELSE "kill"
    /\ UNCHANGED <<procVars, hostVars, pipeVars, runVars>>

(* kill(pid) on the next process of the list; a zombie takes it silently. *)
KillTask ==
    /\ spc = "kill"
    /\ \E p \in todo :
        /\ pst[p] # "gone"
        /\ IF pst[p] = "run"
           THEN /\ Terminate(p)
                /\ IF p = Main THEN status' = Signal(SIGKILL) ELSE UNCHANGED status
           ELSE UNCHANGED <<procVars, status>>
        /\ todo' = todo \ {p}
    /\ UNCHANGED <<spc, hostVars, pipeVars, errPipe, cpu, wallOver, cut>>

(* kill(pid) of a process that its parent has collected: ESRCH, unwrap panics. *)
KillPanic ==
    /\ spc = "kill"
    /\ \E p \in todo : pst[p] = "gone"
    /\ Die

KillPassDone ==
    /\ spc = "kill"
    /\ todo = {}
    /\ spc' = "tasks"
    /\ UNCHANGED <<procVars, hostVars, pipeVars, runVars, todo>>

(* wait_any_nohang collects whatever child has ended... *)
ReapOne ==
    /\ spc = "reap"
    /\ \E p \in Proc : Reap(InitProc, p)
    /\ UNCHANGED sandboxVars


(* The reaping stops early. *)
NoChildrenUnchecked == spc = "reap"

(* ...until ECHILD says that the sandbox has no child left. *)
NoChildren == spc = "reap" /\ Children(InitProc) = {}


(* "tle" only when the poll loop would have cut the run. *)
FinalTokensLate ==
    IF cpu > 1 THEN <<Bare("tle"), Bare("cpu"), Bare("done")>>
    ELSE <<Bare("cpu"), Bare("done")>>

FinalTokens ==
    IF cpu > 0 THEN <<Bare("tle"), Bare("cpu"), Bare("done")>>
    ELSE <<Bare("cpu"), Bare("done")>>

(* Print what the run used, and read the next command. *)
Report ==
    /\ NoChildren
    /\ reader
    /\ Say(FinalTokens)
    /\ spc' = "read"
    /\ UNCHANGED <<procVars, hostVars, cmdIn, stdinOpen, reader, runVars, todo>>

(* The judge is gone: println! fails with EPIPE, and panics. *)
PrintPanic ==
    /\ ~reader
    /\ \/ SetupRead /\ ~SetupOk
       \/ spc = "poll" /\ pst[Main] = "zombie"
       \/ NoChildren
    /\ Die

SandboxNext ==
    \/ SandboxArm \/ SandboxBoot \/ BootPanic \/ StartCommand \/ StartPanic \/ EndOfCommands
    \/ CallPanic \/ AttachChild \/ AwaitOk \/ AwaitFailed
    \/ PollExited \/ PollRunning \/ CheckLimits
    \/ Freeze \/ ListTasks \/ KillTask \/ KillPanic \/ KillPassDone
    \/ ReapOne \/ Report \/ PrintPanic
=============================================================================

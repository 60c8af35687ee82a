---------------------------- MODULE SandboxProofs ----------------------------
(* Proofs of the safety properties of SandboxWrapper, and that it implements *)
(* SandboxService: every step of judge, sandbox and processes is a step of   *)
(* the service, or invisible to its caller.  They hold for any number of     *)
(* processes, any limit on them and any number of runs.  Inv of that module *)
(* is inductive: Lineage and ProcessSync are kept by every step whatever the*)
(* judge does, MonitorSync by looking at the ends of the processes, RunSync *)
(* from those by following one run from its command to its "done".          *)
EXTENDS SandboxWrapper, FiniteSetTheorems, SequenceTheorems, WellFoundedInduction, TLAPS

(* The end of a process keeps the types of the table. *)
LEMMA TerminateType ==
    ASSUME ProcTypeOK, NEW p \in Proc, Terminate(p)
    PROVE  ProcTypeOK'
BY ProcessesAssumption DEF ProcTypeOK, Terminate, Proc, InitProc

(* So does collecting an ended process. *)
LEMMA ReapType ==
    ASSUME ProcTypeOK, NEW p \in Proc, NEW q, Reap(q, p)
    PROVE  ProcTypeOK'
BY ProcessesAssumption DEF ProcTypeOK, Reap, Proc, InitProc

(* So does the end of the namespace. *)
LEMMA TeardownType ==
    ASSUME ProcTypeOK, Teardown
    PROVE  ProcTypeOK'
<1>1. pst' \in [Proc -> {"free", "setup", "run", "zombie", "gone"}]
  BY DEF ProcTypeOK, Teardown
<1> QED BY <1>1 DEF ProcTypeOK, Teardown

(* So does the fork of a command. *)
LEMMA SpawnType ==
    ASSUME ProcTypeOK, Spawn, cgroup' = cgroup, pidMax' = pidMax
    PROVE  ProcTypeOK'
<1>1. pst' \in [Proc -> {"free", "setup", "run", "zombie", "gone"}]
  BY DEF ProcTypeOK, Spawn
<1>2. parent' \in [Proc -> Proc \cup {InitProc}]
  BY DEF ProcTypeOK, Spawn
<1> QED BY <1>1, <1>2 DEF ProcTypeOK

(* So does a fork in a program. *)
LEMMA ForkType ==
    ASSUME ProcTypeOK, NEW p \in Proc, Fork(p)
    PROVE  ProcTypeOK'
BY ProcessesAssumption DEF ProcTypeOK, Fork

(* The steps of the monitor, the sandbox, the child, the programs and the clock keep every type. *)
LEMMA HostType == Inv /\ HostNext /\ UNCHANGED wrapperVars => TypeOK'
<1> SUFFICES ASSUME Inv, HostNext, UNCHANGED wrapperVars PROVE TypeOK'
  OBVIOUS
<1> USE ProcessesAssumption, SandboxAssumption
<1>0. TypeOK
  BY DEF Inv
<1>w. WrapperTypeOK'
  BY <1>0 DEF TypeOK, WrapperTypeOK, wrapperVars
<1> SUFFICES SandboxTypeOK'
  BY <1>w DEF TypeOK
<1>p. ProcTypeOK /\ SandboxTypeOK /\ Main \in Proc /\ SIGKILL \in Nat
  BY <1>0 DEF TypeOK, SandboxTypeOK, Main, Proc, SIGKILL
<1> USE DEF SandboxTypeOK, MonStates, SandboxStates, RunStates
<1> USE DEF procVars, pipeVars, runVars, hostVars, sandboxVars
<1>same. ASSUME UNCHANGED procVars PROVE ProcTypeOK'
  BY <1>p, <1>same DEF ProcTypeOK
<1>1. CASE MonitorNext
  <2>1. CASE MonitorArm
    BY <1>p, <2>1, <1>same DEF MonitorArm
  <2>2. CASE MonitorClone
    BY <1>p, <2>2, <1>same DEF MonitorClone
  <2>3. CASE MonitorClean
    BY <1>p, <2>3, <1>same DEF MonitorClean
  <2> QED BY <1>1, <2>1, <2>2, <2>3 DEF MonitorNext
<1>2. CASE ChildNext
  <2>1. CASE ChildReady
    BY <1>p, <2>1, <1>same DEF ChildReady
  <2>2. CASE ChildFails
    <3>1. status' \in Statuses
      BY <2>2, Zenon DEF ChildFails, Statuses
    <3> QED BY <1>p, <2>2, <3>1, TerminateType DEF ChildFails
  <2>3. CASE ChildExec
    BY <1>p, <2>3 DEF ChildExec, ProcTypeOK
  <2> QED BY <1>2, <2>1, <2>2, <2>3 DEF ChildNext
<1>3. CASE ProgramNext
  <2>1. CASE ProgramFork
    BY <1>p, <2>1, ForkType DEF ProgramFork
  <2>2. CASE ProgramExit
    BY <1>p, <2>2, TerminateType DEF ProgramExit
  <2>3. CASE ProgramReap
    BY <1>p, <2>3, ReapType DEF ProgramReap
  <2>4. CASE ProgramBurn
    BY <1>p, <2>4, <1>same DEF ProgramBurn
  <2> QED BY <1>3, <2>1, <2>2, <2>3, <2>4 DEF ProgramNext
<1>4. CASE WallTick
  BY <1>p, <1>4, <1>same DEF WallTick
<1>5. CASE SandboxNext
  <2>d. ASSUME Die PROVE SandboxTypeOK'
    BY <1>p, <2>d, TeardownType DEF Die
  <2>1. CASE SandboxArm
    BY <1>p, <2>1, <1>same, ZenonT(60) DEF SandboxArm
  <2>1b. CASE SandboxBoot
    BY <1>p, <2>1b, <1>same, ZenonT(60) DEF SandboxBoot
  <2>2. CASE BootPanic
    <3>1. ProcTypeOK'
      BY <1>p, <2>2, TeardownType DEF BootPanic
    <3> QED BY <1>p, <2>2, <3>1, ZenonT(60) DEF BootPanic
  <2>2p. CASE StartPanic
    <3>1. ProcTypeOK'
      BY <1>p, <2>2p, TeardownType DEF StartPanic
    <3>2. cmdIn' \in BOOLEAN
      BY <2>2p, Zenon DEF StartPanic
    <3> QED BY <1>p, <2>2p, <3>1, <3>2 DEF StartPanic
  <2>3. CASE StartCommand
    <3>1. ProcTypeOK'
      <4>1. Spawn /\ cgroup' = cgroup /\ pidMax' = pidMax
        BY <2>3 DEF StartCommand
      <4> QED BY <1>p, <4>1, SpawnType, Zenon
    <3>2. cmdIn' \in BOOLEAN /\ wallOver' \in BOOLEAN /\ cut' \in BOOLEAN
      BY <2>3, Zenon DEF StartCommand
    <3>3. mon' = mon /\ container' = container /\ stdinOpen' = stdinOpen /\ reader' = reader
      BY <2>3 DEF StartCommand
    <3>4. out' = out /\ todo' = todo /\ cpu' = 0 /\ errPipe' = "empty" /\ status' = NoStatus /\ spc' = "attach"
      BY <2>3 DEF StartCommand
    <3> QED BY <1>p, <3>1, <3>2, <3>3, <3>4
  <2>4. CASE EndOfCommands \/ KillPanic \/ CallPanic \/ PrintPanic
    BY <2>4, <2>d DEF EndOfCommands, KillPanic, CallPanic, PrintPanic
  <2>5. CASE AttachChild
    BY <1>p, <2>5 DEF AttachChild, Attach, ProcTypeOK
  <2>6. CASE AwaitOk \/ PollRunning \/ KillPassDone
    BY <1>p, <2>6, <1>same DEF AwaitOk, PollRunning, KillPassDone
  <2>14. CASE CheckLimits
    BY <1>p, <2>14, <1>same DEF CheckLimits, OverLimit
  <2>7. CASE AwaitFailed
    BY <1>p, <2>7, <1>same DEF AwaitFailed, Say, Tokens, Bare
  <2>8. CASE PollExited
    <3>1. status \in Tokens
      BY <2>8 DEF PollExited, Reap, Inv, ProcessSync, Tokens
    <3> QED BY <1>p, <2>8, <3>1, ReapType DEF PollExited, Say
  <2>9. CASE Freeze
    BY <1>p, <2>9 DEF Freeze, ProcTypeOK
  <2>10. CASE ListTasks
    BY <1>p, <2>10, <1>same DEF ListTasks, Tasks, ProcTypeOK
  <2>11. CASE KillTask
    <3>1. Signal(SIGKILL) \in Statuses
      BY Zenon, SandboxAssumption DEF Statuses
    <3> QED BY <1>p, <2>11, <3>1, <1>same, TerminateType DEF KillTask
  <2>12. CASE ReapOne
    BY <1>p, <2>12, ReapType DEF ReapOne
  <2>13. CASE Report
    <3>1. FinalTokens \in Seq(Tokens)
      <4>1. {Bare("tle"), Bare("cpu"), Bare("done")} \subseteq Tokens
        BY DEF Tokens
      <4> QED BY <4>1 DEF FinalTokens
    <3> QED BY <1>p, <2>13, <3>1, <1>same DEF Report, Say
  <2> QED BY <1>5, <2>1, <2>1b, <2>2, <2>2p, <2>3, <2>4, <2>5, <2>6, <2>7, <2>8, <2>9, <2>10, <2>11,
           <2>12, <2>13, <2>14 DEF SandboxNext
<1> QED BY <1>1, <1>2, <1>3, <1>4, <1>5 DEF HostNext

(* A token that carries a value carries one of its kind. *)
LEMMA TokenValues ==
    ASSUME NEW tok \in Tokens
    PROVE  /\ tok.t = "code" => tok.v \in ExitCodes
           /\ tok.t = "signal" => tok.v \in Signals
BY DEF Tokens, Statuses, Code, Signal, Bare

(* The judge's steps keep every type. *)
LEMMA WrapperType ==
    Inv /\ (RunCall \/ FinishCall \/ WrapperNext \/ JudgeCrash \/ Over) => TypeOK'
<1> SUFFICES ASSUME Inv, RunCall \/ FinishCall \/ WrapperNext \/ JudgeCrash \/ Over
             PROVE  TypeOK'
  OBVIOUS
<1> USE ProcessesAssumption, SandboxAssumption, WrapperAssumption
<1>p. TypeOK /\ ProcTypeOK /\ SandboxTypeOK /\ WrapperTypeOK
  BY DEF Inv, TypeOK, SandboxTypeOK
<1> USE DEF TypeOK, SandboxTypeOK, WrapperTypeOK, MonStates, SandboxStates, RunStates
<1> USE DEF procVars, pipeVars, runVars, hostVars, sandboxVars, wrapperVars
<1>same. ASSUME UNCHANGED procVars PROVE ProcTypeOK'
  BY <1>p, <1>same DEF ProcTypeOK
<1>out. out # <<>> => Head(out) \in Tokens /\ Tail(out) \in Seq(Tokens)
  BY <1>p
<1>1. CASE RunCall
  <2>1. cmdIn' \in BOOLEAN
    BY <1>1, Zenon DEF RunCall
  <2>2. runs' \in 0 .. MaxRuns /\ res' \in [type : ExitTypes, code : ExitCodes, signal : Signals \cup {0}]
    BY <1>p, <1>1 DEF RunCall, ZeroResult, ExitTypes
  <2> QED BY <1>p, <1>1, <1>same, <2>1, <2>2 DEF RunCall
<1>2. CASE FinishCall
  <2>1. stdinOpen' \in BOOLEAN
    BY <1>2, Zenon DEF FinishCall
  <2> QED BY <1>p, <1>2, <2>1, <1>same DEF FinishCall
<1>3. CASE ReadToken
  <2>1. res' \in [type : ExitTypes, code : ExitCodes, signal : Signals \cup {0}]
    BY <1>p, <1>3, <1>out, TokenValues DEF ReadToken, Read, ExitTypes
  <2> QED BY <1>p, <1>3, <1>out, <1>same, <2>1 DEF ReadToken
<1>4. CASE RunReturn
  BY <1>p, <1>4, <1>out, <1>same DEF RunReturn
<1>5. CASE SetupFailed
  <2>1. stdinOpen' \in BOOLEAN
    BY <1>5, Zenon DEF SetupFailed
  <2> QED BY <1>p, <1>5, <2>1, <1>out, <1>same DEF SetupFailed
<1>6. CASE TokenEof
  <2>1. stdinOpen' \in BOOLEAN
    BY <1>6, Zenon DEF TokenEof
  <2> QED BY <1>p, <1>6, <2>1, <1>same DEF TokenEof
<1>7. CASE WaitReturn
  BY <1>p, <1>7, <1>same DEF WaitReturn
<1>8. CASE JudgeCrash
  <2>1. mon' \in MonStates /\ spc' \in SandboxStates /\ todo' \subseteq Proc
    BY <1>p, <1>8 DEF JudgeCrash
  <2>2. ProcTypeOK'
    BY <1>p, <1>8, <1>same, TeardownType DEF JudgeCrash
  <2> QED BY <1>p, <1>8, <2>1, <2>2 DEF JudgeCrash
<1>9. CASE Over
  BY <1>p, <1>9, <1>same DEF Over, vars
<1> QED BY <1>1, <1>2, <1>3, <1>4, <1>5, <1>6, <1>7, <1>8, <1>9 DEF WrapperNext

-----------------------------------------------------------------------------
(* The process table: the forest below the sandbox, and what is charged. *)

(* Everything a step of the composition can do to the processes. *)
ProcessStep ==
    \/ UNCHANGED <<pst, parent, cgroup>>
    \/ \E p \in Proc : pst[p] \in {"setup", "run"} /\ Terminate(p)
    \/ \E p \in Proc, q \in Proc \cup {InitProc} : Reap(q, p)
    \/ \E p \in Proc : Fork(p)
    \/ Teardown
    \/ Spawn /\ cgroup' = cgroup
    \/ UNCHANGED <<pst, parent>> /\ Attach(Main)
    \/ InSetup /\ pst' = [pst EXCEPT ![Main] = "run"] /\ UNCHANGED <<parent, cgroup>>

(* Whatever step is taken, the process table changes in one of six ways, or not at all. *)
LEMMA EveryStepIsProcessStep ==
    ASSUME TypeOK, Next
    PROVE  ProcessStep
<1> USE DEF procVars, sandboxVars, vars
<1>m. Main \in Proc /\ InitProc \in Proc \cup {InitProc} /\ todo \subseteq Proc
  BY ProcessesAssumption DEF Main, Proc, TypeOK, SandboxTypeOK
<1>1. CASE MonitorNext
  BY <1>1 DEF MonitorNext, MonitorArm, MonitorClone, MonitorClean, ProcessStep
<1>2. CASE ChildNext
  BY <1>2, <1>m DEF ChildNext, ChildReady, ChildFails, ChildExec, ProcessStep, InSetup
<1>3. CASE ProgramNext
  BY <1>3, <1>m DEF ProgramNext, ProgramFork, ProgramExit, ProgramReap, ProgramBurn, ProcessStep
<1>4. CASE WallTick
  BY <1>4 DEF WallTick, ProcessStep
<1>5. CASE SandboxNext
  <2>1. CASE SandboxArm \/ SandboxBoot \/ AwaitOk \/ AwaitFailed \/ PollRunning \/ CheckLimits
    BY <2>1 DEF SandboxArm, SandboxBoot, AwaitOk, AwaitFailed, PollRunning, CheckLimits, ProcessStep
  <2>2. CASE BootPanic \/ StartPanic \/ EndOfCommands \/ KillPanic \/ CallPanic \/ PrintPanic
    BY <2>2 DEF BootPanic, StartPanic, EndOfCommands, KillPanic, CallPanic, PrintPanic, Die, ProcessStep
  <2>3. CASE StartCommand
    BY <2>3 DEF StartCommand, ProcessStep
  <2>4. CASE AttachChild
    BY <2>4 DEF AttachChild, ProcessStep
  <2>5. CASE PollExited \/ ReapOne
    BY <2>5, <1>m DEF PollExited, ReapOne, ProcessStep
  <2>6. CASE Freeze \/ ListTasks \/ KillPassDone \/ Report
    BY <2>6 DEF Freeze, ListTasks, KillPassDone, Report, ProcessStep
  <2>7. CASE KillTask
    BY <2>7, <1>m DEF KillTask, ProcessStep
  <2> QED BY <1>5, <2>1, <2>2, <2>3, <2>4, <2>5, <2>6, <2>7 DEF SandboxNext
<1>6. CASE RunCall \/ FinishCall \/ WrapperNext \/ Over
  BY <1>6 DEF RunCall, FinishCall, WrapperNext, Over, ReadToken, RunReturn, SetupFailed, TokenEof, WaitReturn, ProcessStep
<1>7. CASE JudgeCrash
  BY <1>7 DEF JudgeCrash, ProcessStep
<1> QED BY <1>1, <1>2, <1>3, <1>4, <1>5, <1>6, <1>7 DEF Next, HostNext

Forest == Lineage /\ cgroup \subseteq Existing

(* Each of those ways keeps the processes a forest whose inner nodes run. *)
LEMMA ForestStep ==
    ASSUME ProcTypeOK, Forest, ProcessStep
    PROVE  Forest'
<1> USE ProcessesAssumption DEF Forest, Lineage, Existing, Unborn, ProcTypeOK, Proc, InitProc, Main
<1>1. CASE UNCHANGED <<pst, parent, cgroup>>
  BY <1>1
<1>2. ASSUME NEW p \in Proc, pst[p] \in {"setup", "run"}, Terminate(p) PROVE Forest'
  BY <1>2 DEF Terminate
<1>3. ASSUME NEW p \in Proc, NEW q \in Proc \cup {InitProc}, Reap(q, p) PROVE Forest'
  BY <1>3 DEF Reap
<1>4. ASSUME NEW p \in Proc, Fork(p) PROVE Forest'
  BY <1>4 DEF Fork
<1>5. CASE Teardown
  BY <1>5 DEF Teardown
<1>6. CASE Spawn /\ cgroup' = cgroup
  BY <1>6 DEF Spawn
<1>7. CASE UNCHANGED <<pst, parent>> /\ Attach(Main)
  BY <1>7 DEF Attach
<1>8. CASE InSetup /\ pst' = [pst EXCEPT ![Main] = "run"] /\ UNCHANGED <<parent, cgroup>>
  BY <1>8 DEF InSetup
<1> QED BY <1>1, <1>2, <1>3, <1>4, <1>5, <1>6, <1>7, <1>8 DEF ProcessStep

(* A finite set of numbers has a least element: of the intervals that end in *)
(* one of its elements, one has none of the others as a proper subset.       *)
LEMMA LeastElement ==
    ASSUME NEW n \in Nat, NEW T \in SUBSET (1 .. n), T # {}
    PROVE  \E x \in T : \A y \in T : x <= y
<1> DEFINE S == 1 .. n
           D == {1 .. x : x \in T}
<1>1. IsWellFoundedOn(StrictSubsetOrdering(S), FiniteSubsetsOf(S))
  BY FS_StrictSubsetOrderingWellFounded, Zenon
<1>2. FiniteSubsetsOf(S) = SUBSET S
  <2>1. IsFiniteSet(S)
    BY FS_Interval
  <2> QED BY <2>1, FS_FiniteSubsetsOfFinite, Zenon
<1>3. D \subseteq SUBSET S
  <2> SUFFICES ASSUME NEW x \in T, NEW y \in 1 .. x PROVE y \in S
    OBVIOUS
  <2> QED OBVIOUS
<1>4. PICK d \in D : \A e \in D : <<e, d>> \notin StrictSubsetOrdering(S)
  <2>1. D # {}
    BY Zenon
  <2> HIDE DEF S, D
  <2> QED BY <1>1, <1>2, <1>3, <2>1, WFMin, SMTT(30)
<1>5. PICK x \in T : d = 1 .. x
  BY <1>4
<1>6. ASSUME NEW y \in T PROVE x <= y
  <2>1. 1 .. y \in D /\ <<1 .. y, 1 .. x>> \notin StrictSubsetOrdering(S)
    BY <1>4, <1>5
  <2>2. SUFFICES ASSUME y < x PROVE FALSE
    OBVIOUS
  <2>3. 1 .. y \subseteq 1 .. x /\ 1 .. y # 1 .. x
    BY <2>2
  <2> QED BY <2>1, <2>3, <1>3, <1>5, <1>4 DEF StrictSubsetOrdering
<1> QED BY <1>6

(* ECHILD means that nobody is left: the oldest process of a forest below    *)
(* the sandbox could only be a child of the sandbox.                         *)
LEMMA NoChildrenNoProcesses ==
    ASSUME ProcTypeOK, Lineage, Children(InitProc) = {}
    PROVE  Existing = {}
<1> SUFFICES ASSUME Existing # {} PROVE FALSE
  OBVIOUS
<1>1. NProc \in Nat /\ Existing \in SUBSET (1 .. NProc)
  BY ProcessesAssumption DEF Existing, Proc
<1>2. PICK p \in Existing : \A q \in Existing : p <= q
  BY <1>1, LeastElement
<1>3. parent[p] # InitProc
  BY <1>2 DEF Children
<1>4. parent[p] \in Existing /\ parent[p] < p
  BY <1>2, <1>3 DEF Lineage, ProcTypeOK, Existing, Unborn
<1>5. p \in 1 .. NProc /\ parent[p] \in 1 .. NProc /\ p <= parent[p]
  BY <1>1, <1>2, <1>4, Zenon
<1> QED BY <1>1, <1>4, <1>5

-----------------------------------------------------------------------------

(* Every step keeps what ties the processes to the place where the sandbox is. *)
LEMMA ProcessSyncStep ==
    ASSUME Inv, Next
    PROVE  ProcessSync'
<1> USE ProcessesAssumption, SandboxAssumption
<1> USE DEF procVars, sandboxVars, vars, pipeVars, hostVars, runVars, wrapperVars
<1>t. ProcTypeOK /\ Forest /\ ProcessSync /\ MonitorSync /\ Main \in Proc
  BY DEF Inv, TypeOK, SandboxTypeOK, Forest, ProcessSync, Main, Proc
<1>f. (cgroup \subseteq Existing)'
  BY <1>t, EveryStepIsProcessStep, ForestStep DEF Inv, Forest
<1> DEFINE Rest ==
      /\ \A p \in Proc : pst[p] = "setup" => p = Main /\ spc \in {"attach", "await"}
      /\ pst[Main] = "zombie" => status \in Statuses
      /\ todo # {} => spc = "kill"
      /\ spc \in {"none", "clone", "boot", "dead"} => Existing = {}
<1> SUFFICES Rest'
  BY <1>f DEF ProcessSync
<1>r. Rest
  BY <1>t DEF ProcessSync
<1> USE DEF Existing, Unborn, ProcTypeOK
<1>1. CASE MonitorNext
  BY <1>1, <1>t, <1>r DEF MonitorNext, MonitorArm, MonitorClone, MonitorClean, MonitorSync
<1>2. CASE ChildNext
  BY <1>2, <1>t, <1>r DEF ChildNext, ChildReady, ChildFails, ChildExec, InSetup, Terminate, Statuses
<1>3. CASE ProgramNext
  BY <1>3, <1>t, <1>r DEF ProgramNext, ProgramFork, ProgramExit, ProgramReap, ProgramBurn, Fork, Terminate, Reap
<1>4. CASE WallTick
  BY <1>4, <1>t, <1>r DEF WallTick
<1>5. CASE SandboxNext
  <2>1. CASE SandboxArm \/ SandboxBoot
    BY <2>1, <1>t, <1>r DEF SandboxArm, SandboxBoot
  <2>2. CASE BootPanic \/ StartPanic \/ EndOfCommands \/ KillPanic \/ CallPanic \/ PrintPanic
    BY <2>2, <1>t, <1>r DEF BootPanic, StartPanic, EndOfCommands, KillPanic, CallPanic, PrintPanic, Die, Teardown
  <2>3. CASE StartCommand
    BY <2>3, <1>t, <1>r DEF StartCommand, Spawn
  <2>4. CASE AttachChild
    BY <2>4, <1>t, <1>r DEF AttachChild
  <2>5. CASE PollExited \/ ReapOne
    BY <2>5, <1>t, <1>r DEF PollExited, ReapOne, Reap
  <2>6. CASE AwaitOk \/ AwaitFailed \/ PollRunning \/ CheckLimits
    BY <2>6, <1>t, <1>r DEF AwaitOk, AwaitFailed, PollRunning, CheckLimits, SetupRead, InSetup
  <2>7. CASE Freeze \/ ListTasks \/ KillPassDone \/ Report
    BY <2>7, <1>t, <1>r DEF Freeze, ListTasks, KillPassDone, Report, NoChildren
  <2>8. CASE KillTask
    BY <2>8, <1>t, <1>r DEF KillTask, Terminate, Statuses
  <2> QED BY <1>5, <2>1, <2>2, <2>3, <2>4, <2>5, <2>6, <2>7, <2>8 DEF SandboxNext
<1>6. CASE RunCall \/ FinishCall \/ WrapperNext \/ Over
  BY <1>6, <1>t, <1>r DEF RunCall, FinishCall, WrapperNext, Over, ReadToken, RunReturn, SetupFailed, TokenEof, WaitReturn
<1>7. CASE JudgeCrash
  BY <1>7, <1>t, <1>r DEF JudgeCrash, Teardown
<1> QED BY <1>1, <1>2, <1>3, <1>4, <1>5, <1>6, <1>7 DEF Next, HostNext

(* Every step keeps the order of the ends: sandbox, monitor, wait of the judge. *)
LEMMA MonitorSyncStep ==
    ASSUME Inv, Next
    PROVE  MonitorSync'
<1> USE DEF MonitorSync
<1> USE DEF procVars, sandboxVars, vars, pipeVars, hostVars, runVars, wrapperVars
<1>t. MonitorSync
  BY DEF Inv
<1>1. CASE HostNext /\ UNCHANGED wrapperVars
  <2>1. CASE MonitorNext
    BY <1>1, <1>t, <2>1 DEF MonitorNext, MonitorArm, MonitorClone, MonitorClean
  <2>2. CASE ChildNext
    BY <1>1, <1>t, <2>2 DEF ChildNext, ChildReady, ChildFails, ChildExec
  <2>3. CASE ProgramNext
    BY <1>1, <1>t, <2>3 DEF ProgramNext, ProgramFork, ProgramExit, ProgramReap, ProgramBurn
  <2>4. CASE WallTick
    BY <1>1, <1>t, <2>4 DEF WallTick
  <2>5. CASE SandboxNext
    <3>1. spc \notin {"none", "dead"} /\ mon' = mon /\ stdinOpen' = stdinOpen /\ reader' = reader
      BY <2>5 DEF SandboxNext, SandboxArm, SandboxBoot, BootPanic, StartCommand, StartPanic, EndOfCommands,
           AttachChild, AwaitOk, AwaitFailed, PollExited, PollRunning, CheckLimits, Freeze,
           ListTasks, KillTask, KillPanic, CallPanic, KillPassDone, ReapOne, Report, PrintPanic,
           Die, SetupRead, NoChildren, RunStates
    <3> QED BY <1>1, <1>t, <3>1
  <2> QED BY <1>1, <2>1, <2>2, <2>3, <2>4, <2>5 DEF HostNext
<1>2. CASE RunCall \/ FinishCall \/ WrapperNext
  BY <1>2, <1>t DEF RunCall, FinishCall, WrapperNext, ReadToken, RunReturn, SetupFailed, TokenEof, WaitReturn
<1>3. CASE JudgeCrash
  BY <1>3, <1>t DEF JudgeCrash, MonitorDies, SandboxDies
<1>4. CASE Over
  BY <1>4, <1>t DEF Over
<1> QED BY <1>1, <1>2, <1>3, <1>4 DEF Next

-----------------------------------------------------------------------------
(* How far the run has come. *)

(* The state RunSync speaks of, and the steps that leave it alone. *)
LEMMA RunSyncUnchanged ==
    ASSUME RunSync,
           UNCHANGED <<spc, out, res, wpc, ret, cmdIn, errPipe, status, cut, cpu>>,
           pst[Main] = "gone" => pst'[Main] = "gone",
           Existing = {} => Existing' = {}
    PROVE  RunSync'
BY DEF RunSync, BeforeStatus, CleaningUp, SetupReported, Reported, SandboxLost, Ready,
       StatusKnown, StatusResult, FinalResult, FinalTokens, UnreadStatus, ReadStatus

(* A process that can still change the status or the CPU time belongs to a  *)
(* run whose result does not depend on it yet.                              *)
LEMMA RunSyncRunning ==
    ASSUME RunSync, Existing # {},
           UNCHANGED <<spc, out, res, wpc, ret, cmdIn, cut>>,
           spc \notin {"attach", "await"} => errPipe' = errPipe,
           status' # status => pst[Main] # "gone" /\ status' \in Statuses,
           pst[Main] = "gone" => pst'[Main] = "gone"
    PROVE  RunSync'
BY DEF RunSync, BeforeStatus, CleaningUp, SetupReported, Reported, SandboxLost, Ready,
       StatusKnown, StatusResult, UnreadStatus, ReadStatus

(* The sandbox comes up: nothing of a run can have happened yet. *)
LEMMA RunSyncBoot ==
    ASSUME RunSync, spc \in {"none", "clone", "boot"}, spc' \in {"clone", "boot", "read"},
           UNCHANGED <<out, res, wpc, ret, cmdIn, errPipe, status, cut, cpu>>,
           Existing' = Existing
    PROVE  RunSync'
<1>1. ~(wpc = "reading" /\ ~cmdIn)
  BY DEF RunSync, BeforeStatus, CleaningUp, SetupReported, Reported, SandboxLost
<1>2. StatusKnown' = StatusKnown /\ FinalResult' = FinalResult
  BY DEF StatusKnown, FinalResult, StatusResult
<1> QED BY <1>1, <1>2 DEF RunSync, Ready

(* The steps of the other side keep RunSync: each moves a run on to its next phase or changes nothing in it. *)
LEMMA RunSyncHost ==
    ASSUME Inv, HostNext, UNCHANGED wrapperVars
    PROVE  RunSync'
<1> USE ProcessesAssumption, SandboxAssumption
<1> USE DEF procVars, sandboxVars, vars, pipeVars, hostVars, runVars, wrapperVars
<1>t. ProcTypeOK /\ Forest /\ ProcessSync /\ MonitorSync /\ RunSync /\ Main \in Proc
  BY DEF Inv, TypeOK, SandboxTypeOK, Forest, ProcessSync, Main, Proc
<1>1. CASE MonitorNext
  <2>1. CASE MonitorArm \/ MonitorClean
    BY <1>t, <2>1, RunSyncUnchanged DEF MonitorArm, MonitorClean, Existing
  <2>2. CASE MonitorClone
    BY <1>t, <2>2, RunSyncBoot DEF MonitorClone, MonitorSync, Existing
  <2> QED BY <1>1, <2>1, <2>2 DEF MonitorNext
<1>2. CASE ChildNext
  <2>1. Existing # {} /\ spc \in {"attach", "await"} /\ pst[Main] # "gone"
    BY <1>t, <1>2 DEF ChildNext, ChildReady, ChildFails, ChildExec, InSetup, ProcessSync, Existing, Unborn
  <2>2. CASE ChildReady
    BY <1>t, <2>1, <2>2, RunSyncRunning DEF ChildReady
  <2>3. CASE ChildFails
    <3>1. status' \in Statuses
      BY <2>3, Zenon DEF ChildFails, Statuses
    <3> QED BY <1>t, <2>1, <2>3, <3>1, RunSyncRunning DEF ChildFails
  <2>4. CASE ChildExec
    BY <1>t, <2>1, <2>4, RunSyncRunning DEF ChildExec
  <2> QED BY <1>2, <2>2, <2>3, <2>4 DEF ChildNext
<1>3. CASE ProgramNext
  <2>1. Existing # {}
    BY <1>t, <1>3 DEF ProgramNext, ProgramFork, ProgramExit, ProgramReap, ProgramBurn, Fork, Existing, Unborn, ProcTypeOK
  <2>2. CASE ProgramFork
    <3>1. pst[Main] = "gone" => pst'[Main] = "gone"
      <4>1. PICK q \in Proc : pst[q] = "free" /\ pst' = [pst EXCEPT ![q] = "run"]
        <5>1. PICK p \in Proc : Fork(p)
          BY <2>2 DEF ProgramFork
        <5>2. PICK q \in Proc : /\ \A r \in Proc : pst[r] = "free" <=> q <= r
                               /\ pst' = [pst EXCEPT ![q] = "run"]
          BY <5>1, Zenon DEF Fork
        <5>3. pst[q] = "free"
          BY <5>2 DEF Proc
        <5> QED BY <5>2, <5>3, Zenon
      <4> QED BY <4>1, <1>t DEF ProcTypeOK
    <3> QED BY <1>t, <2>1, <2>2, <3>1, RunSyncRunning DEF ProgramFork
  <2>3. CASE ProgramExit
    <3>1. pst[Main] = "gone" => pst'[Main] = "gone"
      BY <1>t, <2>3 DEF ProgramExit, Terminate, ProcTypeOK
    <3> QED BY <1>t, <2>1, <2>3, <3>1, RunSyncRunning DEF ProgramExit
  <2>4. CASE ProgramReap
    <3>1. pst[Main] = "gone" => pst'[Main] = "gone"
      BY <1>t, <2>4 DEF ProgramReap, Reap, ProcTypeOK
    <3> QED BY <1>t, <2>1, <2>4, <3>1, RunSyncRunning DEF ProgramReap
  <2>5. CASE ProgramBurn
    BY <1>t, <2>1, <2>5, RunSyncRunning DEF ProgramBurn
  <2> QED BY <1>3, <2>2, <2>3, <2>4, <2>5 DEF ProgramNext
<1>4. CASE WallTick
  BY <1>t, <1>4, RunSyncUnchanged DEF WallTick, Existing
<1>5. CASE SandboxNext
  <2> USE DEF RunSync
  <2>1. CASE SandboxArm \/ SandboxBoot
    BY <1>t, <2>1, RunSyncBoot DEF SandboxArm, SandboxBoot, Existing
  <2>d. ASSUME spc # "dead", spc' = "dead", Existing' = {}, spc = "read" => FALSE,
               UNCHANGED <<out, res, wpc, ret, cmdIn, errPipe, status, cut, cpu>>
        PROVE  RunSync'
    BY <1>t, <2>d DEF Ready, BeforeStatus, CleaningUp, SetupReported, Reported, SandboxLost, StatusKnown, StatusResult, FinalResult,
         UnreadStatus, ReadStatus
  <2>2. CASE BootPanic
    BY <1>t, <2>2, <2>d DEF BootPanic, Teardown, Existing, Unborn
  <2>p. CASE StartPanic
    BY <1>t, <2>p DEF StartPanic, Teardown, Existing, Unborn, Ready, SandboxLost
  <2>3. CASE EndOfCommands \/ KillPanic \/ CallPanic \/ PrintPanic
    BY <1>t, <2>3, <2>d DEF EndOfCommands, KillPanic, CallPanic, PrintPanic, Die, Teardown, Existing, Unborn, MonitorSync, RunStates
  <2>4. CASE StartCommand
    BY <1>t, <2>4 DEF StartCommand, Ready, BeforeStatus, CleaningUp, SetupReported, Reported, SandboxLost
  <2>5. CASE AttachChild
    BY <1>t, <2>5 DEF AttachChild, Ready, BeforeStatus, CleaningUp, SetupReported, Reported, SandboxLost
  <2>6. CASE AwaitOk
    BY <1>t, <2>6 DEF AwaitOk, SetupRead, SetupOk, Ready, BeforeStatus, CleaningUp, SetupReported, Reported, SandboxLost
  <2>7. CASE AwaitFailed
    <3>1. wpc = "reading" /\ ~cmdIn => out' = <<Bare("setup"), Bare("done")>>
      BY <1>t, <2>7, ConcatEmptySeq DEF AwaitFailed, SetupRead, Say, BeforeStatus, CleaningUp, SetupReported, Reported, SandboxLost
    <3> QED BY <1>t, <2>7, <3>1 DEF AwaitFailed, SetupRead, Ready, BeforeStatus, CleaningUp, SetupReported, Reported, SandboxLost
  <2>8. CASE PollExited
    <3>1. pst'[Main] = "gone" /\ status \in Statuses /\ spc = "poll" /\ spc' = "freeze"
      BY <1>t, <2>8 DEF PollExited, Reap, ProcTypeOK, ProcessSync
    <3>2. wpc = "reading" /\ ~cmdIn => BeforeStatus
      BY <1>t, <3>1 DEF BeforeStatus, CleaningUp, SetupReported, Reported, SandboxLost
    <3>3. wpc = "reading" /\ ~cmdIn => out' = <<status>> \o <<>>
      <4>1. <<status>> \in Seq(Statuses)
        BY <3>1
      <4> QED BY <2>8, <3>2, <4>1, ConcatEmptySeq DEF PollExited, Say, BeforeStatus
    <3>4. wpc = "reading" /\ ~cmdIn => CleaningUp'
      BY <1>t, <2>8, <3>1, <3>2, <3>3 DEF PollExited, CleaningUp, StatusKnown, UnreadStatus, BeforeStatus
    <3> QED BY <1>t, <2>8, <3>1, <3>4 DEF PollExited, Ready
  <2>9. CASE PollRunning
    BY <1>t, <2>9 DEF PollRunning, Ready, BeforeStatus, CleaningUp, SetupReported, Reported, SandboxLost
  <2>10. CASE CheckLimits
    BY <1>t, <2>10 DEF CheckLimits, Ready, BeforeStatus, CleaningUp, SetupReported, Reported, SandboxLost, StatusKnown, ReadStatus, StatusResult
  <2>11. CASE Freeze
    BY <1>t, <2>11 DEF Freeze, Ready, BeforeStatus, CleaningUp, SetupReported, Reported, SandboxLost, StatusKnown, UnreadStatus, ReadStatus, StatusResult
  <2>12. CASE ListTasks
    BY <1>t, <2>12 DEF ListTasks, Ready, BeforeStatus, CleaningUp, SetupReported, Reported, SandboxLost, StatusKnown, UnreadStatus, ReadStatus, StatusResult
  <2>13. CASE KillTask
    BY <1>t, <2>13 DEF KillTask, Terminate, Ready, BeforeStatus, CleaningUp, SetupReported, Reported, SandboxLost, StatusKnown, UnreadStatus, ReadStatus, StatusResult,
         Statuses, ProcTypeOK
  <2>14. CASE KillPassDone
    BY <1>t, <2>14 DEF KillPassDone, Ready, BeforeStatus, CleaningUp, SetupReported, Reported, SandboxLost, StatusKnown, UnreadStatus, ReadStatus, StatusResult
  <2>15. CASE ReapOne
    <3>1. (pst[Main] = "gone" => pst'[Main] = "gone") /\ (Existing = {} => Existing' = {})
      BY <1>t, <2>15 DEF ReapOne, Reap, Existing, Unborn, ProcTypeOK
    <3> QED BY <1>t, <2>15, <3>1, RunSyncUnchanged DEF ReapOne
  <2>16. CASE Report
    <3>1. Existing = {}
      BY <1>t, <2>16, NoChildrenNoProcesses DEF Report, NoChildren, Forest
    <3>2. spc = "reap" /\ spc' = "read" /\ Existing' = {} /\ Ready'
      BY <2>16, <3>1 DEF Report, NoChildren, Existing, Ready
    <3>3. wpc = "reading" /\ ~cmdIn => CleaningUp
      BY <1>t, <3>2 DEF BeforeStatus, CleaningUp, SetupReported, Reported, SandboxLost
    <3>4. FinalTokens' = FinalTokens /\ StatusResult' = StatusResult /\ StatusKnown' = StatusKnown
      BY <2>16 DEF Report, FinalTokens, StatusResult, StatusKnown
    <3>5. FinalTokens \in Seq(Tokens) /\ <<status>> \o <<>> = <<status>>
      <4>1. {Bare("tle"), Bare("cpu"), Bare("done")} \subseteq Tokens /\ <<status>> \in Seq({status})
        BY DEF Tokens
      <4> QED BY <4>1, ConcatEmptySeq DEF FinalTokens
    <3>6. ASSUME wpc = "reading", ~cmdIn, UnreadStatus(<<>>) PROVE UnreadStatus(FinalTokens)'
      BY <2>16, <3>4, <3>5, <3>6 DEF Report, UnreadStatus, Say
    <3>7. ASSUME wpc = "reading", ~cmdIn, ReadStatus(<<>>) PROVE ReadStatus(FinalTokens)'
      BY <2>16, <3>4, <3>5, <3>7, ConcatEmptySeq DEF Report, ReadStatus, Say
    <3>8. wpc = "reading" /\ ~cmdIn => Reported'
      BY <3>2, <3>3, <3>4, <3>6, <3>7 DEF Reported, CleaningUp
    <3> QED BY <1>t, <2>16, <3>2, <3>8 DEF Report, Ready
  <2> QED BY <1>5, <2>1, <2>2, <2>3, <2>4, <2>5, <2>6, <2>7, <2>8, <2>9, <2>10, <2>11, <2>12,
             <2>13, <2>14, <2>15, <2>16, <2>p DEF SandboxNext
<1> QED BY <1>1, <1>2, <1>3, <1>4, <1>5 DEF HostNext

(* What reading the tokens of a report one by one makes of the result. *)
LEMMA ReadReport ==
    ASSUME Inv, ReadToken, Reported
    PROVE  Reported'
<1> USE DEF pipeVars, hostVars, runVars, procVars
<1>1. res' = Read(res, Head(out)) /\ out' = Tail(out) /\ Head(out).t # "done"
  BY DEF ReadToken
<1>2. FinalTokens' = FinalTokens /\ StatusResult' = StatusResult /\ FinalResult' = FinalResult
      /\ StatusKnown' = StatusKnown /\ Ready' = Ready /\ spc' = spc /\ cut' = cut /\ status' = status
  BY DEF ReadToken, FinalTokens, StatusResult, StatusKnown, FinalResult, Ready, Existing
<1>3. FinalTokens \in Seq(Tokens)
  <2>1. {Bare("tle"), Bare("cpu"), Bare("done")} \subseteq Tokens
    BY DEF Tokens
  <2> QED BY <2>1 DEF FinalTokens
<1>4. CASE UnreadStatus(FinalTokens)
  <2>1. Head(out) = status /\ Tail(out) = FinalTokens
    <3>1. status \in Tokens
      BY <1>4 DEF UnreadStatus, Reported, StatusKnown, Tokens
    <3> QED BY <1>3, <1>4, <3>1 DEF UnreadStatus
  <2>2. ReadStatus(FinalTokens)'
    BY <1>1, <1>2, <1>4, <2>1 DEF UnreadStatus, ReadStatus, StatusResult
  <2> QED BY <1>2, <2>2 DEF Reported
<1>5. CASE ReadStatus(FinalTokens)
  <2>1. CASE cpu > 0
    <3>1. FinalTokens = <<Bare("tle"), Bare("cpu"), Bare("done")>>
      BY <2>1 DEF FinalTokens
    <3>2. Head(out) = Bare("tle") /\ Tail(out) = <<Bare("cpu"), Bare("done")>>
      BY <1>5, <3>1 DEF ReadStatus
    <3>3. res' = FinalResult
      BY <1>1, <1>5, <2>1, <3>2 DEF ReadStatus, FinalResult, Read, Bare
    <3> QED BY <1>1, <1>2, <3>2, <3>3 DEF Reported
  <2>2. CASE ~(cpu > 0)
    <3>1. FinalTokens = <<Bare("cpu"), Bare("done")>>
      BY <2>2 DEF FinalTokens
    <3>2. Head(out) = Bare("cpu") /\ Tail(out) = <<Bare("done")>>
      BY <1>5, <3>1 DEF ReadStatus
    <3>3. res' = FinalResult
      BY <1>1, <1>5, <2>2, <3>2 DEF ReadStatus, FinalResult, Read, Bare
    <3> QED BY <1>1, <1>2, <3>2, <3>3 DEF Reported
  <2> QED BY <2>1, <2>2
<1>6. CASE out \in {<<Bare("cpu"), Bare("done")>>, <<Bare("done")>>} /\ res = FinalResult
  <2>1. out = <<Bare("cpu"), Bare("done")>>
    BY <1>1, <1>6 DEF Bare
  <2>2. Head(out) = Bare("cpu") /\ Tail(out) = <<Bare("done")>>
    BY <2>1
  <2> QED BY <1>1, <1>2, <1>6, <2>2 DEF Reported, Read, Bare
<1> QED BY <1>4, <1>5, <1>6 DEF Reported

(* So do the judge's own steps. *)
LEMMA RunSyncWrapper ==
    ASSUME Inv, RunCall \/ FinishCall \/ WrapperNext \/ JudgeCrash \/ Over
    PROVE  RunSync'
<1> USE DEF procVars, sandboxVars, vars, pipeVars, hostVars, runVars, wrapperVars
<1>t. ProcTypeOK /\ ProcessSync /\ MonitorSync /\ RunSync /\ TypeOK
  BY DEF Inv, TypeOK, SandboxTypeOK
<1>1. CASE RunCall
  BY <1>t, <1>1 DEF RunCall, RunSync, Ready, Existing, SandboxLost, TypeOK, SandboxTypeOK
<1>2. CASE FinishCall \/ WaitReturn
  BY <1>t, <1>2 DEF FinishCall, WaitReturn, RunSync
<1>3. CASE SetupFailed \/ TokenEof
  BY <1>t, <1>3 DEF SetupFailed, TokenEof, RunSync
<1>4. CASE ReadToken
  <2>1. wpc = "reading" /\ ~cmdIn
    BY <1>t, <1>4 DEF ReadToken, RunSync
  <2>2. CASE Reported
    BY <1>t, <1>4, <2>1, <2>2, ReadReport DEF ReadToken, RunSync, Reported, Ready
  <2>3. CASE CleaningUp
    <3>1. UnreadStatus(<<>>)
      BY <1>4, <2>3 DEF ReadToken, CleaningUp, ReadStatus
    <3>2. out = <<status>>
      <4>1. <<status>> \in Seq({status})
        OBVIOUS
      <4> QED BY <3>1, <4>1, ConcatEmptySeq DEF UnreadStatus
    <3>3. res' = StatusResult /\ out' = <<>>
      BY <1>4, <3>1, <3>2 DEF ReadToken, UnreadStatus, StatusResult
    <3>4. ReadStatus(<<>>)' /\ StatusKnown' = StatusKnown
      BY <1>4, <3>3 DEF ReadToken, ReadStatus, StatusResult, StatusKnown
    <3>5. CleaningUp'
      BY <1>4, <2>3, <3>4 DEF ReadToken, CleaningUp
    <3> QED BY <1>t, <1>4, <2>1, <3>5 DEF ReadToken, RunSync, CleaningUp
  <2>4. CASE SandboxLost
    <3>1. out' = <<>> /\ SandboxLost'
      BY <1>4, <2>4 DEF ReadToken, SandboxLost
    <3> QED BY <1>t, <1>4, <2>1, <2>4, <3>1 DEF ReadToken, RunSync, SandboxLost
  <2>5. CASE BeforeStatus \/ SetupReported
    BY <1>4, <2>5 DEF ReadToken, BeforeStatus, SetupReported, Bare
  <2> QED BY <1>t, <2>1, <2>2, <2>3, <2>4, <2>5 DEF RunSync
<1>5. CASE RunReturn
  <2>1. wpc = "reading" /\ ~cmdIn /\ out # <<>> /\ Head(out).t = "done"
    BY <1>t, <1>5 DEF RunReturn, RunSync
  <2>2. StatusKnown => \A rest \in Seq(Tokens) : ~UnreadStatus(rest)
    <3> SUFFICES ASSUME StatusKnown, NEW rest \in Seq(Tokens), UnreadStatus(rest) PROVE FALSE
      OBVIOUS
    <3>1. status \in Statuses /\ status \in Tokens
      BY DEF StatusKnown, UnreadStatus, Tokens
    <3>2. Head(out) = status
      BY <3>1 DEF UnreadStatus
    <3> QED BY <2>1, <3>1, <3>2 DEF Statuses, Code, Signal
  <2>3. FinalTokens \in Seq(Tokens) /\ Head(FinalTokens).t # "done"
    <3>1. {Bare("tle"), Bare("cpu"), Bare("done")} \subseteq Tokens
      BY DEF Tokens
    <3> QED BY <3>1 DEF FinalTokens, Bare
  <2>4. Reported
    <3>1. ~BeforeStatus /\ ~SetupReported
      BY <2>1 DEF BeforeStatus, SetupReported, Bare
    <3>2. ~CleaningUp
      <4>1. <<>> \in Seq(Tokens)
        OBVIOUS
      <4> QED BY <2>1, <2>2, <4>1 DEF CleaningUp, ReadStatus
    <3>3. ~SandboxLost
      BY <2>1 DEF SandboxLost, Statuses, Code, Signal
    <3> QED BY <1>t, <2>1, <3>1, <3>2, <3>3 DEF RunSync
  <2>5. out = <<Bare("done")>> /\ res = FinalResult
    BY <2>1, <2>2, <2>3, <2>4 DEF Reported, ReadStatus, Bare
  <2>6. Ready' /\ out' = <<>> /\ ~cmdIn' /\ StatusKnown' /\ res' = FinalResult'
    BY <1>5, <2>1, <2>4, <2>5 DEF RunReturn, Reported, Ready, Existing, StatusKnown, FinalResult, StatusResult
  <2> QED BY <1>t, <1>5, <2>6 DEF RunReturn, RunSync
<1>6. CASE JudgeCrash
  BY <1>t, <1>6 DEF JudgeCrash, RunSync
<1>7. CASE Over
  BY <1>t, <1>7, RunSyncUnchanged DEF Over, Existing
<1> QED BY <1>1, <1>2, <1>3, <1>4, <1>5, <1>6, <1>7 DEF WrapperNext

-----------------------------------------------------------------------------
(* The theorems. *)

(* The invariant holds at the start. *)
LEMMA InitInv == Init => Inv
<1> SUFFICES ASSUME Init PROVE Inv
  OBVIOUS
<1> USE ProcessesAssumption, SandboxAssumption, WrapperAssumption
<1> USE DEF Init, SandboxInit, ProcInit
<1>1. ProcTypeOK
  BY DEF ProcTypeOK
<1>2. SandboxTypeOK
  <2>1. /\ container \in BOOLEAN /\ cmdIn \in BOOLEAN /\ stdinOpen \in BOOLEAN
        /\ reader \in BOOLEAN /\ wallOver \in BOOLEAN /\ cut \in BOOLEAN
    BY Zenon
  <2>2. mon \in MonStates /\ spc \in SandboxStates /\ out \in Seq(Tokens) /\ cpu \in 0 .. 2 /\ todo \subseteq Proc
    BY DEF MonStates, SandboxStates
  <2> QED BY <1>1, <2>1, <2>2 DEF SandboxTypeOK
<1>3. WrapperTypeOK
  BY DEF WrapperTypeOK, ZeroResult, ExitTypes
<1>4. Existing = {} /\ Main \in Proc
  BY DEF Existing, Unborn, Main, Proc
<1>5. Lineage /\ ProcessSync
  BY <1>4 DEF Lineage, ProcessSync, Proc
<1>6. MonitorSync /\ RunSync
  BY <1>4 DEF MonitorSync, RunSync, Ready
<1> QED BY <1>2, <1>3, <1>5, <1>6 DEF Inv, TypeOK

(* Every step keeps it. *)
LEMMA InvStep == Inv /\ [Next]_vars => Inv'
<1> SUFFICES ASSUME Inv, [Next]_vars PROVE Inv'
  OBVIOUS
<1>1. CASE Next
  <2>1. (HostNext /\ UNCHANGED wrapperVars) \/ (RunCall \/ FinishCall \/ WrapperNext \/ JudgeCrash \/ Over)
    BY <1>1 DEF Next
  <2>2. TypeOK' /\ RunSync'
    BY <2>1, HostType, WrapperType, RunSyncHost, RunSyncWrapper
  <2>3. Lineage'
    BY <1>1, EveryStepIsProcessStep, ForestStep DEF Inv, TypeOK, SandboxTypeOK, Forest, ProcessSync
  <2> QED BY <1>1, <2>2, <2>3, ProcessSyncStep, MonitorSyncStep DEF Inv
<1>2. CASE UNCHANGED vars
  <2> USE <1>2 DEF vars, sandboxVars, procVars, wrapperVars
  <2>1. ProcTypeOK' /\ WrapperTypeOK'
    BY DEF Inv, TypeOK, SandboxTypeOK, ProcTypeOK, WrapperTypeOK
  <2>2. SandboxTypeOK'
    BY <2>1 DEF Inv, TypeOK, SandboxTypeOK
  <2>3. Existing' = Existing
    BY DEF Existing
  <2>4. Lineage' /\ ProcessSync' /\ MonitorSync'
    BY <2>3 DEF Inv, Lineage, ProcessSync, MonitorSync
  <2>5. RunSync'
    BY <2>3, RunSyncUnchanged DEF Inv
  <2> QED BY <2>1, <2>2, <2>4, <2>5 DEF Inv, TypeOK
<1> QED BY <1>1, <1>2

(* The judge, the sandbox and its processes stay in step, however many       *)
(* processes, exit codes and runs there are.                                 *)
THEOREM Invariance == Spec => []Inv
BY InitInv, InvStep, PTL DEF Spec

(* Every variable keeps its type. *)
THEOREM TypeCorrect == Spec => []TypeOK
<1>1. Inv => TypeOK
  BY DEF Inv
<1> QED BY <1>1, Invariance, PTL

(* When Run has returned, no process of the command is left anywhere below   *)
(* the sandbox, also none that escaped the cgroup.                           *)
THEOREM QuietAfterDone == Spec => []DoneMeansQuiet
<1>1. Inv => DoneMeansQuiet
  BY DEF Inv, DoneMeansQuiet, RunSync, Ready, ProcessSync
<1> QED BY <1>1, Invariance, PTL

(* Between two runs there is nothing in either pipe. *)
THEOREM PipesDrained == Spec => []NoStaleTokens
<1>1. Inv => NoStaleTokens
  BY DEF Inv, NoStaleTokens, RunSync
<1> QED BY <1>1, Invariance, PTL

(* The invariant says what the result was made of. *)
LEMMA ResultFits == Inv => ResultReflectsRun
<1> SUFFICES ASSUME Inv, wpc = "idle", ret = "ok"
             PROVE  /\ res.type = "timedOut" <=> cpu > 0
                    /\ cpu = 0 /\ ~cut /\ res.type = "exited" => status = Code(res.code)
                    /\ res.type = "signaled" => status = Signal(res.signal) /\ ~cut
  BY DEF ResultReflectsRun
<1>1. res = FinalResult /\ StatusKnown /\ cpu \in 0 .. 2
  BY DEF Inv, RunSync, TypeOK, SandboxTypeOK
<1>2. CASE cut
  BY <1>1, <1>2 DEF FinalResult, StatusResult, ZeroResult
<1>3. CASE ~cut
  <2>1. status \in Statuses
    BY <1>1, <1>3 DEF StatusKnown
  <2>2. ASSUME NEW n \in ExitCodes, status = Code(n)
        PROVE  /\ StatusResult.type = "exited" /\ status = Code(StatusResult.code)
               /\ StatusResult \in [type : {"exited"}, code : ExitCodes, signal : {0}]
    BY <1>3, <2>2 DEF StatusResult, ZeroResult, Read, Code
  <2>3. ASSUME NEW n \in Signals, status = Signal(n)
        PROVE  /\ StatusResult.type = "signaled" /\ status = Signal(StatusResult.signal)
               /\ StatusResult \in [type : {"signaled"}, code : {0}, signal : Signals]
    BY <1>3, <2>3 DEF StatusResult, ZeroResult, Read, Signal
  <2>4. \/ /\ StatusResult.type = "exited" /\ status = Code(StatusResult.code)
           /\ StatusResult \in [type : {"exited"}, code : ExitCodes, signal : {0}]
        \/ /\ StatusResult.type = "signaled" /\ status = Signal(StatusResult.signal)
           /\ StatusResult \in [type : {"signaled"}, code : {0}, signal : Signals]
    BY <2>1, <2>2, <2>3, Zenon DEF Statuses
  <2> HIDE DEF StatusResult
  <2> QED BY <1>1, <1>3, <2>4 DEF FinalResult
<1> QED BY <1>2, <1>3

(* The result that Run returns is the one of its own command. *)
THEOREM ResultIsOfThisRun == Spec => []ResultReflectsRun
BY ResultFits, Invariance, PTL

(* A command that was not executed is not returned as a run. *)
THEOREM ReturnedMeansExeced == Spec => []OkMeansExeced
<1>1. Inv => OkMeansExeced
  BY DEF Inv, OkMeansExeced, RunSync, StatusKnown
<1> QED BY <1>1, Invariance, PTL

(* After Finish no process is left, and a container directory only if the  *)
(* monitor could not remove it.                                             *)
THEOREM NothingAfterFinish == Spec => []FinishedMeansGone
<1>1. Inv => FinishedMeansGone
  BY DEF Inv, FinishedMeansGone, MonitorSync, ProcessSync
<1> QED BY <1>1, Invariance, PTL

-----------------------------------------------------------------------------
(* The refinement. *)

(* Where the sandbox runs no command, *)
Resting == {"none", "clone", "boot", "read", "dead"}

(* ...and where it has one that it has not collected. *)
Holding == {"attach", "await", "poll", "limits"}

(* What the invariant of the composition leaves open about the command's own *)
(* process: it is there until it is collected, it runs only after an exec,   *)
(* and it is over when the sandbox has gone on to the next command. *)
MainSync ==
    /\ spc \in Holding => Main \in Existing
    /\ errPipe # "ok" => pst[Main] # "run"
    /\ spc \in Resting => pst[Main] \notin {"setup", "run"}

(* A sandbox that its judge has given up starts no command any more. *)
ClosingSync ==
    wpc \in {"finishing", "dying", "finished", "fatal"} =>
        spc \in Resting /\ (cmdIn => spc = "dead")

(* What Run returns fits the command's CPU time and its end. *)
ReturnFits ==
    wpc = "idle" /\ ret = "ok" =>
        res \in [type : ExitTypes, code : ExitCodes, signal : Signals \cup {0}] /\ Service!Fits(res, cpu, End)

SyncInv == Inv /\ MainSync /\ ClosingSync /\ ReturnFits

(* A result that is returned fits. *)
LEMMA InvFits == Inv => ReturnFits
<1> SUFFICES ASSUME Inv, wpc = "idle", ret = "ok"
             PROVE  res \in [type : ExitTypes, code : ExitCodes, signal : Signals \cup {0}] /\ Service!Fits(res, cpu, End)
  BY DEF ReturnFits
<1>1. cpu \in 0 .. 2 /\ res \in [type : ExitTypes, code : ExitCodes, signal : Signals \cup {0}]
  BY DEF Inv, TypeOK, SandboxTypeOK, WrapperTypeOK
<1>2. /\ res.type = "timedOut" <=> cpu > 0
      /\ cpu = 0 /\ ~cut /\ res.type = "exited" => status = Code(res.code)
      /\ res.type = "signaled" => status = Signal(res.signal) /\ ~cut
  BY ResultFits DEF ResultReflectsRun
<1>3. /\ res.type = "signaled" => End = Signal(res.signal)
      /\ res.type = "exited" /\ End # NoStatus => End = Code(res.code)
  BY <1>1, <1>2 DEF End
<1> QED BY <1>1, <1>2, <1>3 DEF Service!Fits, Code, Signal

(* The command's own process is a child of the sandbox. *)
LEMMA MainIsChild == Inv /\ Main \in Existing => parent[Main] = InitProc
BY ProcessesAssumption DEF Inv, Lineage, TypeOK, SandboxTypeOK, ProcTypeOK, Main, InitProc, Proc

(* Nothing of the program can start the command's process again. *)
LEMMA ProgramsKeepMain ==
    ASSUME Inv, ProgramNext
    PROVE  /\ pst'[Main] = "run" => pst[Main] = "run"
           /\ pst'[Main] = "setup" => pst[Main] = "setup"
           /\ Main \in Existing => Main \in Existing'
           /\ pst[Main] # "run" => status' = status
           /\ UNCHANGED <<spc, hostVars, pipeVars, errPipe, cut>>
<1> USE DEF procVars, sandboxVars, hostVars, pipeVars, runVars
<1>1. ProcTypeOK /\ Main \in Proc /\ \A p \in Proc : p >= Main
  BY ProcessesAssumption DEF Inv, TypeOK, SandboxTypeOK, Main, Proc
<1>2. CASE ProgramFork
  <2>1. PICK p \in Proc : Fork(p)
    BY <1>2 DEF ProgramFork
  <2>2. PICK q \in Proc : (\A r \in Proc : pst[r] = "free" <=> q <= r) /\ pst' = [pst EXCEPT ![q] = "run"]
    BY <2>1 DEF Fork
  <2>3. q # Main
    BY <1>1, <2>1, <2>2 DEF Fork
  <2>4. pst'[Main] = pst[Main]
    BY <1>1, <2>2, <2>3 DEF ProcTypeOK
  <2> QED BY <1>1, <1>2, <2>4 DEF ProgramFork, Existing
<1>3. CASE ProgramExit
  BY <1>1, <1>3 DEF ProgramExit, Terminate, ProcTypeOK, Existing, Unborn
<1>4. CASE ProgramReap
  <2>1. PICK q \in Proc, p \in Proc : Reap(q, p)
    BY <1>4 DEF ProgramReap
  <2>2. Main \in Existing => p # Main
    BY <1>1, <2>1, MainIsChild, ProcessesAssumption DEF Reap, InitProc, Proc
  <2> QED BY <1>1, <1>4, <2>1, <2>2 DEF ProgramReap, Reap, ProcTypeOK, Existing, Unborn
<1>5. CASE ProgramBurn
  BY <1>1, <1>5 DEF ProgramBurn, Existing
<1> QED BY <1>2, <1>3, <1>4, <1>5 DEF ProgramNext

(* Every step keeps what is known of the command's process. *)
LEMMA MainSyncStep == Inv /\ MainSync /\ [Next]_vars => MainSync'
<1> SUFFICES ASSUME Inv, MainSync, [Next]_vars PROVE MainSync'
  OBVIOUS
<1> USE DEF MainSync, Resting, Holding, vars, procVars, sandboxVars, hostVars, pipeVars, runVars
<1>t. ProcTypeOK /\ Main \in Proc /\ spc \in SandboxStates
  BY ProcessesAssumption DEF Inv, TypeOK, SandboxTypeOK, Main, Proc
<1>0. ASSUME UNCHANGED <<pst, spc, errPipe>> PROVE MainSync'
  BY <1>0 DEF Existing
<1>1. CASE MonitorNext
  BY <1>1 DEF MonitorNext, MonitorArm, MonitorClone, MonitorClean, Existing, Inv, MonitorSync
<1>2. CASE ChildNext
  BY <1>t, <1>2 DEF ChildNext, ChildReady, ChildFails, ChildExec, InSetup, Terminate, Existing, Unborn, ProcTypeOK
<1>3. CASE ProgramNext
  BY <1>3, ProgramsKeepMain
<1>4. CASE WallTick
  BY <1>4, <1>0 DEF WallTick
<1>5. CASE SandboxNext
  <2>1. CASE SandboxArm \/ SandboxBoot \/ AwaitOk \/ PollRunning \/ CheckLimits
    <3>1. UNCHANGED <<pst, errPipe>> /\ Existing' = Existing
      BY <2>1 DEF SandboxArm, SandboxBoot, AwaitOk, PollRunning, CheckLimits, Existing
    <3>2. (spc \in Resting /\ spc' \in Resting) \/ (spc \in Holding /\ spc' \in Holding \cup {"freeze"})
      BY <2>1 DEF SandboxArm, SandboxBoot, AwaitOk, PollRunning, CheckLimits, SetupRead
    <3> QED BY <3>1, <3>2
  <2>2. CASE BootPanic \/ StartPanic \/ EndOfCommands \/ KillPanic \/ CallPanic \/ PrintPanic
    <3>1. Teardown /\ spc' = "dead"
      BY <2>2 DEF BootPanic, StartPanic, EndOfCommands, KillPanic, CallPanic, PrintPanic, Die
    <3> QED BY <1>t, <3>1 DEF Teardown
  <2>3. CASE StartCommand
    BY <1>t, <2>3 DEF StartCommand, Spawn, Existing, Unborn
  <2>4. CASE AttachChild
    BY <2>4 DEF AttachChild, Existing
  <2>5. CASE AwaitFailed
    BY <2>5 DEF AwaitFailed, SetupRead, SetupOk, InSetup
  <2>6. CASE PollExited
    BY <1>t, <2>6 DEF PollExited, Reap, ProcTypeOK
  <2>7. CASE ReapOne
    BY <1>t, <2>7 DEF ReapOne, Reap, ProcTypeOK
  <2>8. CASE Freeze \/ ListTasks \/ KillPassDone
    BY <2>8 DEF Freeze, ListTasks, KillPassDone
  <2>9. CASE KillTask
    BY <1>t, <2>9 DEF KillTask, Terminate, ProcTypeOK
  <2>10. CASE Report
    <3>1. Existing = {} /\ UNCHANGED procVars /\ spc' = "read" /\ UNCHANGED errPipe
      BY <2>10, <1>t, NoChildrenNoProcesses DEF Report, NoChildren, Inv
    <3> QED BY <1>t, <3>1 DEF Existing, Unborn
  <2> QED BY <1>5, <2>1, <2>2, <2>3, <2>4, <2>5, <2>6, <2>7, <2>8, <2>9, <2>10 DEF SandboxNext
<1>6. CASE RunCall \/ FinishCall \/ WrapperNext \/ Over \/ UNCHANGED vars
  BY <1>6, <1>0 DEF RunCall, FinishCall, WrapperNext, Over, ReadToken, RunReturn, SetupFailed, TokenEof, WaitReturn
<1>7. CASE JudgeCrash
  BY <1>t, <1>0, <1>7 DEF JudgeCrash, Teardown
<1> QED BY <1>1, <1>2, <1>3, <1>4, <1>5, <1>6, <1>7 DEF Next, HostNext

(* Every step keeps a sandbox that was given up from starting a command. *)
LEMMA ClosingSyncStep == Inv /\ MainSync /\ ClosingSync /\ [Next]_vars => ClosingSync'
<1> SUFFICES ASSUME Inv, MainSync, ClosingSync, [Next]_vars PROVE ClosingSync'
  OBVIOUS
<1> USE DEF ClosingSync, Resting, vars, procVars, sandboxVars, hostVars, pipeVars, runVars, wrapperVars
<1>1. CASE HostNext /\ UNCHANGED wrapperVars
  <2> SUFFICES ASSUME wpc \in {"finishing", "dying", "finished", "fatal"} PROVE spc' \in Resting /\ (cmdIn' => spc' = "dead")
    BY <1>1
  <2>1. spc \in Resting /\ (cmdIn => spc = "dead") /\ pst[Main] \notin {"setup", "run"}
    BY DEF MainSync
  <2>2. CASE ChildNext \/ ProgramNext \/ WallTick
    BY <2>1, <2>2, ProgramsKeepMain DEF ChildNext, ChildReady, ChildFails, ChildExec, WallTick
  <2>3. CASE MonitorNext
    BY <2>1, <2>3 DEF MonitorNext, MonitorArm, MonitorClone, MonitorClean, Inv, MonitorSync
  <2>4. CASE SandboxNext
    BY <2>1, <2>4 DEF SandboxNext, SandboxArm, SandboxBoot, BootPanic, StartCommand, StartPanic, EndOfCommands, AttachChild, AwaitOk,
        AwaitFailed, PollExited, PollRunning, CheckLimits, Freeze, ListTasks, KillTask, KillPanic, CallPanic, KillPassDone, ReapOne,
        Report, PrintPanic, Die, SetupRead, NoChildren
  <2> QED BY <1>1, <2>2, <2>3, <2>4 DEF HostNext
<1>2. CASE RunCall \/ WaitReturn \/ ReadToken \/ JudgeCrash \/ Over \/ UNCHANGED vars \/ TokenEof
  BY <1>2 DEF RunCall, WaitReturn, ReadToken, JudgeCrash, Over, TokenEof
<1>3. CASE RunReturn
  BY <1>3 DEF RunReturn
<1>4. CASE FinishCall
  BY <1>4 DEF FinishCall, Inv, RunSync, Ready
<1>5. CASE SetupFailed
  <2>1. ~cmdIn
    BY <1>5 DEF SetupFailed, Inv, RunSync
  <2>2. ~BeforeStatus /\ ~CleaningUp
    <3>1. out # <<>> /\ Head(out).t = "setup"
      BY <1>5 DEF SetupFailed
    <3>2. StatusKnown => ~UnreadStatus(<<>>)
      <4> SUFFICES ASSUME StatusKnown, UnreadStatus(<<>>) PROVE FALSE
        OBVIOUS
      <4>1. status \in Statuses
        BY DEF StatusKnown, UnreadStatus
      <4>2. Head(out) = status
        BY <4>1 DEF UnreadStatus
      <4> QED BY <3>1, <4>1, <4>2 DEF Statuses, Code, Signal
    <3> QED BY <3>1, <3>2 DEF BeforeStatus, CleaningUp, ReadStatus
  <2>3. spc \in Resting
    BY <1>5, <2>1, <2>2 DEF SetupFailed, Inv, RunSync, SetupReported, Reported, SandboxLost
  <2> QED BY <1>5, <2>1, <2>3 DEF SetupFailed
<1> QED BY <1>1, <1>2, <1>3, <1>4, <1>5 DEF Next, WrapperNext

-----------------------------------------------------------------------------
(* The steps of the sandbox, as its caller sees them. *)

(* Only a fork of the sandbox makes a process where there is none, and      *)
(* nothing is charged to, or learned of, a command that is not there. *)
LEMMA NothingNew ==
    ASSUME Inv, MainSync, HostNext, ~StartCommand, Existing = {}
    PROVE  Existing' = {} /\ UNCHANGED <<cpu, status, cut>>
<1> USE DEF procVars, sandboxVars, hostVars, pipeVars, runVars
<1>t. ProcTypeOK /\ Main \in Proc /\ cgroup = {} /\ \A p \in Proc : pst[p] \in {"free", "gone"}
  BY ProcessesAssumption DEF Inv, TypeOK, SandboxTypeOK, ProcessSync, Existing, Unborn, Main, Proc
<1>1. CASE MonitorNext \/ WallTick
  BY <1>1 DEF MonitorNext, MonitorArm, MonitorClone, MonitorClean, WallTick, Existing
<1>2. CASE ChildNext \/ ProgramNext
  BY <1>2, <1>t DEF ChildNext, ChildReady, ChildFails, ChildExec, InSetup, ProgramNext, ProgramFork, Fork, ProgramExit,
      ProgramReap, Reap, ProgramBurn
<1>3. CASE SandboxNext
  <2>1. spc \notin {"limits", "poll"}
    BY DEF MainSync, Holding
  <2>2. CASE BootPanic \/ StartPanic \/ EndOfCommands \/ KillPanic \/ CallPanic \/ PrintPanic
    <3>1. Teardown /\ UNCHANGED <<cpu, status, cut>>
      BY <2>2 DEF BootPanic, StartPanic, EndOfCommands, KillPanic, CallPanic, PrintPanic, Die
    <3> QED BY <1>t, <3>1 DEF Teardown, Existing, Unborn
  <2>3. CASE SandboxArm \/ SandboxBoot \/ AttachChild \/ AwaitOk \/ AwaitFailed \/ Freeze \/ ListTasks \/ KillPassDone \/ Report
    BY <2>3 DEF SandboxArm, SandboxBoot, AttachChild, AwaitOk, AwaitFailed, Freeze, ListTasks, KillPassDone, Report, Existing
  <2>4. CASE PollExited \/ PollRunning \/ CheckLimits
    BY <2>1, <2>4 DEF PollExited, PollRunning, CheckLimits
  <2>5. CASE KillTask
    <3>1. todo \subseteq Proc
      BY DEF Inv, TypeOK, SandboxTypeOK
    <3> QED BY <1>t, <2>5, <3>1 DEF KillTask, Existing
  <2>6. CASE ReapOne
    BY <1>t, <2>6 DEF ReapOne, Reap
  <2> QED BY <1>3, <2>2, <2>3, <2>4, <2>5, <2>6 DEF SandboxNext
<1> QED BY <1>1, <1>2, <1>3 DEF HostNext

(* What a step that starts no command does to what the caller is told. *)
LEMMA WhatChanges ==
    ASSUME Inv, MainSync, HostNext, ~StartCommand
    PROVE  /\ UNCHANGED <<stdinOpen, reader>>
           /\ cmdIn' => cmdIn
           /\ ~StartPanic => cmdIn' = cmdIn
           /\ cpu' \in {cpu, cpu + 1}
           /\ spc \in Resting => UNCHANGED <<cpu, status, cut>>
           /\ spc' = "dead" => UNCHANGED <<cpu, status, cut>>
           /\ spc = "dead" => spc' = "dead"
<1> USE DEF procVars, sandboxVars, hostVars, pipeVars, runVars, Resting
<1>m. pst[Main] \in {"setup", "run"} => spc \notin Resting
  BY DEF MainSync
<1>1. CASE MonitorNext \/ WallTick
  BY <1>1 DEF MonitorNext, MonitorArm, MonitorClone, MonitorClean, WallTick, Inv, MonitorSync
<1>2. CASE ChildNext
  BY <1>2, <1>m DEF ChildNext, ChildReady, ChildFails, ChildExec, InSetup
<1>3. CASE ProgramNext
  <2>1. pst[Main] # "run" => status' = status
    BY <1>3, ProgramsKeepMain
  <2>2. UNCHANGED <<spc, cmdIn, stdinOpen, reader, cut>> /\ cpu' \in {cpu, cpu + 1} /\ (spc \in Resting => cpu' = cpu)
    BY <1>3 DEF ProgramNext, ProgramFork, ProgramExit, ProgramReap, ProgramBurn
  <2> QED BY <1>m, <2>1, <2>2
<1>4. CASE SandboxNext
  <2>1. CASE BootPanic \/ StartPanic \/ EndOfCommands \/ KillPanic \/ CallPanic \/ PrintPanic
    BY <2>1 DEF BootPanic, StartPanic, EndOfCommands, KillPanic, CallPanic, PrintPanic, Die
  <2>2. CASE SandboxArm \/ SandboxBoot \/ AttachChild \/ AwaitOk \/ AwaitFailed \/ Freeze \/ ListTasks \/ KillPassDone \/ Report
    BY <2>2 DEF SandboxArm, SandboxBoot, AttachChild, AwaitOk, AwaitFailed, Freeze, ListTasks, KillPassDone, Report, SetupRead,
        NoChildren
  <2>3. CASE PollExited \/ PollRunning \/ CheckLimits \/ KillTask \/ ReapOne
    BY <2>3 DEF PollExited, PollRunning, CheckLimits, KillTask, ReapOne
  <2> QED BY <1>4, <2>1, <2>2, <2>3 DEF SandboxNext
<1> QED BY <1>1, <1>2, <1>3, <1>4 DEF HostNext

(* What the sandbox, its child and its programs do is a step of the service. *)
LEMMA HostRefines ==
    ASSUME SyncInv, SyncInv', HostNext, UNCHANGED wrapperVars
    PROVE  Service!Next \/ UNCHANGED Service!svars
<1> USE DEF SyncInv, wrapperVars, Service!svars
<1>t. cpu' \in Nat /\ End' \in Statuses \cup {NoStatus}
  BY DEF Inv, TypeOK, SandboxTypeOK, End
<1>1. CASE wpc = "crashed"
  <2>1. Phase' = "crashed" /\ Returned' = {}
    BY <1>1 DEF Phase, Returned
  <2>2. Service!Crash
    BY <1>t, <2>1 DEF Service!Crash, Service!NoResult
  <2> QED BY <2>2 DEF Service!Next
<1>2. CASE wpc = "idle"
  <2>1. Existing = {} /\ ~StartCommand
    BY <1>2 DEF Inv, RunSync, Ready, StartCommand
  <2>2. Existing' = {} /\ UNCHANGED <<cpu, status, cut>>
    BY <2>1, NothingNew
  <2> QED BY <1>2, <2>1, <2>2 DEF Phase, Returned, End
<1>3. CASE wpc = "reading" /\ cmdIn
  <2>1. Existing = {}
    BY <1>3 DEF Inv, RunSync, Ready
  <2>2. CASE StartCommand
    <3>1. Phase = "called" /\ Phase' = "running" /\ Returned' = Returned
      <4>1. wpc' = "reading" /\ ~cmdIn' /\ spc' = "attach"
        BY <1>3, <2>2, Zenon DEF StartCommand
      <4> QED BY <1>3, <4>1 DEF Phase, Returned
    <3>2. Existing' # {}
      <4>1. Main \in Proc /\ pst'[Main] = "setup"
        BY <2>2, ProcessesAssumption DEF StartCommand, Spawn, Main, Proc
      <4> QED BY <4>1 DEF Existing, Unborn
    <3>3. cpu' = 0 /\ End' = NoStatus
      BY <2>2 DEF StartCommand, End
    <3>4. Service!Start
      BY <2>1, <3>1, <3>2, <3>3 DEF Service!Start
    <3> QED BY <3>4 DEF Service!Next
  <2>3. CASE ~StartCommand /\ ~StartPanic
    <3>1. Existing' = {} /\ UNCHANGED <<cpu, status, cut, cmdIn>>
      BY <2>1, <2>3, NothingNew, WhatChanges
    <3> QED BY <1>3, <2>1, <3>1 DEF Phase, Returned, End
  <2>4. CASE StartPanic
    <3>1. ~StartCommand /\ ~cmdIn' /\ spc' = "dead"
      BY <2>4 DEF StartPanic, StartCommand
    <3>2. Existing' = {} /\ UNCHANGED <<cpu, status, cut>>
      BY <2>1, <3>1, NothingNew
    <3>3. Phase = "called" /\ Phase' = "closed" /\ Returned' = {} /\ End' = End
      BY <1>3, <3>1, <3>2 DEF Phase, Returned, End
    <3>4. Service!Close
      BY <3>2, <3>3 DEF Service!Close, Service!NoResult
    <3> QED BY <3>4 DEF Service!Next
  <2> QED BY <2>2, <2>3, <2>4
<1>4. CASE wpc = "reading" /\ ~cmdIn /\ spc # "dead"
  <2>1. ~StartCommand
    BY <1>4 DEF StartCommand
  <2>2. ~cmdIn' /\ cpu' \in {cpu, cpu + 1} /\ (spc' = "dead" => UNCHANGED <<cpu, status, cut>>)
    BY <1>4, <2>1, WhatChanges
  <2>3. Phase = "running" /\ Phase' = (IF spc' = "dead" THEN "closed" ELSE "running") /\ Returned = {} /\ Returned' = {}
    BY <1>4, <2>2 DEF Phase, Returned
  <2>4. CASE spc' = "dead"
    <3>1. Existing' = {} /\ cpu' = cpu /\ End' = End
      BY <2>2, <2>4 DEF Inv, ProcessSync, End
    <3>2. Service!Close
      BY <2>3, <2>4, <3>1 DEF Service!Close, Service!NoResult
    <3> QED BY <3>2 DEF Service!Next
  <2>5. CASE spc' # "dead" /\ Existing = {}
    BY <2>1, <2>3, <2>5, NothingNew DEF End
  <2>6. CASE spc' # "dead" /\ Existing # {}
    <3>1. Service!Work
      BY <1>t, <2>2, <2>3, <2>6 DEF Service!Work
    <3> QED BY <3>1 DEF Service!Next
  <2> QED BY <2>4, <2>5, <2>6
<1>5. CASE (wpc = "reading" /\ ~cmdIn /\ spc = "dead") \/ wpc \in {"finishing", "dying", "finished", "fatal"}
  <2>1. spc \in Resting /\ ~StartCommand
    BY <1>5 DEF ClosingSync, StartCommand, Resting
  <2>2. (cmdIn' => cmdIn) /\ UNCHANGED <<cpu, status, cut>> /\ (spc = "dead" => spc' = "dead")
    BY <2>1, WhatChanges
  <2>3. Phase = "closed" /\ Phase' = "closed" /\ Returned' = {} /\ End' = End
    BY <1>5, <2>2 DEF Phase, Returned, End
  <2>4. Existing = {} => Existing' = {}
    BY <2>1, NothingNew
  <2>5. Service!Close
    BY <2>2, <2>3, <2>4 DEF Service!Close, Service!NoResult
  <2> QED BY <2>5 DEF Service!Next
<1>6. wpc \in {"idle", "reading", "finishing", "finished", "dying", "fatal", "crashed"}
  BY DEF Inv, TypeOK, WrapperTypeOK
<1> QED BY <1>1, <1>2, <1>3, <1>4, <1>5, <1>6

(* So is what the judge does. *)
LEMMA JudgeRefines ==
    ASSUME SyncInv, SyncInv', RunCall \/ FinishCall \/ WrapperNext \/ JudgeCrash \/ Over
    PROVE  Service!Next \/ UNCHANGED Service!svars
<1> USE DEF SyncInv, procVars, sandboxVars, hostVars, pipeVars, runVars, Service!svars
<1>1. CASE RunCall
  <2>1. Existing' = Existing /\ End' = End /\ cpu' = cpu /\ Returned' = {} /\ Phase = "idle"
    BY <1>1 DEF RunCall, Existing, End, Returned, Phase
  <2>2. Phase' = IF spc = "dead" THEN "closed" ELSE "called"
    BY <1>1 DEF RunCall, Phase
  <2>3. Service!Call \/ Service!Close
    BY <2>1, <2>2 DEF Service!Call, Service!Close, Service!NoResult
  <2> QED BY <2>3 DEF Service!Next
<1>2. CASE FinishCall \/ SetupFailed \/ TokenEof \/ WaitReturn
  <2>1. Existing' = Existing /\ End' = End /\ cpu' = cpu /\ Returned' = {} /\ Phase' = "closed" /\ Phase # "crashed"
    BY <1>2 DEF FinishCall, SetupFailed, TokenEof, WaitReturn, Existing, End, Returned, Phase
  <2>2. Service!Close
    BY <2>1 DEF Service!Close, Service!NoResult
  <2> QED BY <2>2 DEF Service!Next
<1>3. CASE ReadToken
  BY <1>3 DEF ReadToken, Existing, End, Returned, Phase
<1>4. CASE RunReturn
  <2>1. Existing' = Existing /\ End' = End /\ cpu' = cpu /\ Phase' = "idle" /\ Returned' = {res'}
    BY <1>4 DEF RunReturn, Existing, End, Returned, Phase
  <2>2. Existing = {}
    BY <1>4, <2>1 DEF RunReturn, Inv, RunSync, Ready
  <2>3. Phase = "running"
    <3>1. ~cmdIn /\ wpc = "reading"
      BY <1>4 DEF RunReturn, Inv, RunSync
    <3>2. ~SandboxLost
      BY <1>4 DEF RunReturn, SandboxLost, Statuses, Code, Signal
    <3>3. spc # "dead"
      BY <3>1, <3>2 DEF Inv, RunSync, BeforeStatus, CleaningUp, SetupReported, Reported
    <3> QED BY <3>1, <3>3 DEF Phase
  <2>4. /\ res' \in [type : ExitTypes, code : ExitCodes, signal : Signals \cup {0}]
        /\ Service!Fits(res', cpu, End)
    BY <1>4, <2>1 DEF RunReturn, ReturnFits
  <2>5. Service!Return
    BY <2>1, <2>2, <2>3, <2>4 DEF Service!Return
  <2> QED BY <2>5 DEF Service!Next
<1>5. CASE JudgeCrash
  <2>1. Phase' = "crashed" /\ Returned' = {} /\ cpu' \in Nat /\ End' \in Statuses \cup {NoStatus}
    BY <1>5 DEF JudgeCrash, Phase, Returned, Inv, TypeOK, SandboxTypeOK, End
  <2>2. Service!Crash
    BY <2>1 DEF Service!Crash, Service!NoResult
  <2> QED BY <2>2 DEF Service!Next
<1>6. CASE Over
  BY <1>6 DEF Over, vars, wrapperVars, Existing, End, Returned, Phase
<1> QED BY <1>1, <1>2, <1>3, <1>4, <1>5, <1>6 DEF WrapperNext

(* At the start both have nothing to do. *)
LEMMA StartRefines == Init => Service!Init
<1> SUFFICES ASSUME Init PROVE Service!Init
  OBVIOUS
<1>1. Existing = {}
  BY DEF Init, SandboxInit, ProcInit, Existing, Unborn
<1> QED BY <1>1 DEF Init, SandboxInit, Service!Init, Service!NoResult, Phase, End, Returned

(* What is needed of the states holds in all of them. *)
LEMMA Synchrony == Spec => []SyncInv
<1>1. Init => MainSync /\ ClosingSync
  BY ProcessesAssumption DEF Init, SandboxInit, ProcInit, MainSync, ClosingSync, Holding, Main, Proc
<1>2. Inv /\ MainSync /\ ClosingSync /\ [Next]_vars => MainSync' /\ ClosingSync'
  BY MainSyncStep, ClosingSyncStep
<1> QED BY <1>1, <1>2, Invariance, InvFits, PTL DEF Spec, SyncInv

(* A user of Run may rely on what SandboxService promises: judge, monitor,   *)
(* sandbox and processes, with a judge that may die at every step, do        *)
(* nothing that the service could not (eval/sandbox.go, main.rs, sandbox.rs). *)
THEOREM Implements == Spec => ImplementsService
<1>1. SyncInv /\ SyncInv' /\ [Next]_vars => [Service!Next]_(Service!svars)
  <2> SUFFICES ASSUME SyncInv, SyncInv', [Next]_vars PROVE Service!Next \/ UNCHANGED Service!svars
    OBVIOUS
  <2>1. CASE UNCHANGED vars
    BY <2>1 DEF vars, procVars, sandboxVars, wrapperVars, Service!svars, Existing, End, Returned, Phase
  <2>2. CASE Next
    BY <2>2, HostRefines, JudgeRefines DEF Next
  <2> QED BY <2>1, <2>2
<1> QED BY <1>1, StartRefines, Synchrony, PTL DEF Spec, ImplementsService, Service!Spec
=============================================================================

----------------------------- MODULE Processes -----------------------------
(* The processes of one sandbox's PID namespace and the control group the   *)
(* sandbox puts the program in: the part of the kernel that                 *)
(* sandbox/src/sandbox.rs drives through fork, wait, kill and cgroups_rs.   *)
(* It is external to the repository and is modelled by what the calls in    *)
(* sandbox.rs rely on.  The module is passive: operators over four          *)
(* variables, which the module of the sandbox composes with its own state.  *)
(*                                                                          *)
(* A slot of the table is one process of the command being run.  Slots are  *)
(* handed out in increasing order and are not used again before the next    *)
(* command, as PIDs are.                                                    *)
EXTENDS Naturals, FiniteSets

CONSTANTS
    NProc,      \* bound: processes that one command ever creates
    PidLimit    \* ctx.pid_limit, the maximum of processes in the cgroup

ASSUME ProcessesAssumption == NProc \in Nat \ {0} /\ PidLimit \in Nat

VARIABLES
    pst,        \* state of each slot
    parent,     \* parent of each process; Init is the sandbox itself
    cgroup,     \* the processes charged to the control group
    pidMax      \* pids.max of the control group

procVars == <<pst, parent, cgroup, pidMax>>

Proc == 1 .. NProc
InitProc == 0       \* the sandbox is PID 1 of the namespace
Main == 1           \* the process forked for the command

Unborn == {"free", "gone"}

ProcTypeOK ==
    /\ pst \in [Proc -> {"free", "setup", "run", "zombie", "gone"}]
    /\ parent \in [Proc -> Proc \cup {InitProc}]
    /\ cgroup \subseteq Proc
    /\ pidMax \in {0, PidLimit}

ProcInit ==
    /\ pst = [p \in Proc |-> "free"]
    /\ parent = [p \in Proc |-> InitProc]
    /\ cgroup = {}
    /\ pidMax = PidLimit

(* The processes that exist, zombies included. *)
Existing == {p \in Proc : pst[p] \notin Unborn}

Children(q) == {p \in Existing : parent[p] = q}

(* What reading cgroup.procs returns: a zombie is charged but not listed. *)
Tasks == {p \in cgroup : pst[p] # "zombie"}

(* fork() in the sandbox: the process that will become the command. *)
Spawn ==
    /\ Existing = {}
    /\ pst' = [p \in Proc |-> IF p = Main THEN "setup" ELSE "free"]
    /\ parent' = [p \in Proc |-> InitProc]

(* Writing a PID to cgroup.procs; the kernel skips a process that has ended. *)
Attach(p) ==
    cgroup' = IF pst[p] \in {"setup", "run"} THEN cgroup \cup {p} ELSE cgroup

(* fork() in a program: the child inherits the cgroup, whose limit is       *)
(* checked against the processes charged to it.                             *)
Fork(p) ==
    /\ pst[p] = "run"
    /\ p \in cgroup => Cardinality(cgroup) < pidMax
    /\ \E q \in Proc :
        /\ \A r \in Proc : pst[r] = "free" <=> q <= r
        /\ pst' = [pst EXCEPT ![q] = "run"]
        /\ parent' = [parent EXCEPT ![q] = p]
        /\ cgroup' = IF p \in cgroup THEN cgroup \cup {q} ELSE cgroup
    /\ UNCHANGED pidMax

(* A process ends, by itself or killed: its children go to the sandbox. *)
Terminate(p) ==
    /\ pst' = [pst EXCEPT ![p] = "zombie"]
    /\ parent' = [q \in Proc |-> IF parent[q] = p THEN InitProc ELSE parent[q]]
    /\ UNCHANGED <<cgroup, pidMax>>

(* A process collects an ended child. *)
Reap(q, p) ==
    /\ pst[p] = "zombie"
    /\ parent[p] = q
    /\ pst' = [pst EXCEPT ![p] = "gone"]
    /\ cgroup' = cgroup \ {p}
    /\ UNCHANGED <<parent, pidMax>>

(* The sandbox dies: as it is PID 1, the kernel kills the whole namespace. *)
Teardown ==
    /\ pst' = [p \in Proc |-> IF pst[p] = "free" THEN "free" ELSE "gone"]
    /\ cgroup' = {}
    /\ UNCHANGED <<parent, pidMax>>
=============================================================================

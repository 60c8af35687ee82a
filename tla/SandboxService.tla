--------------------------- MODULE SandboxService ---------------------------
(* What a started sandbox promises the evaluator, without pipes, processes  *)
(* or monitors: each call of Run starts its command at most once; the       *)
(* result it returns fits the CPU time charged to the command and the way   *)
(* its process ended; a result is returned only when nothing of the command *)
(* is alive, and nothing becomes alive before the next call.                *)
EXTENDS Naturals

CONSTANTS
    Results,    \* the values of execResult
    Statuses,   \* the ways a process can end
    NoStatus    \* ...and the absence of one that the program is to answer for

VARIABLES
    phase,      \* of the sandbox, as its caller sees it
    alive,      \* whether any process of the command exists
    cpu,        \* class of CPU time charged: 0 is within the limit
    end,        \* how the command's process ended by itself
    result      \* {r} if the last Run returned r, empty otherwise

svars == <<phase, alive, cpu, end, result>>

NoResult == {}

(* The results that fit a usage and an end. *)
Fits(r, usage, ended) ==
    /\ r.type = "timedOut" <=> usage > 0
    /\ r.type = "signaled" => ended = [t |-> "signal", v |-> r.signal]
    /\ r.type = "exited" /\ ended # NoStatus => ended = [t |-> "code", v |-> r.code]

Init ==
    /\ phase = "idle"
    /\ alive = FALSE
    /\ cpu = 0
    /\ end = NoStatus
    /\ result = NoResult

Call ==
    /\ phase = "idle"
    /\ phase' = "called"
    /\ result' = NoResult
    /\ UNCHANGED <<alive, cpu, end>>

Start ==
    /\ phase = "called"
    /\ ~alive
    /\ phase' = "running"
    /\ alive' = TRUE
    /\ cpu' = 0
    /\ end' = NoStatus
    /\ UNCHANGED result

(* The command runs, burns CPU, ends and is cleaned up. *)
Work ==
    /\ phase = "running"
    /\ alive
    /\ alive' \in BOOLEAN
    /\ cpu' \in {cpu, cpu + 1}
    /\ end' \in Statuses \cup {NoStatus}
    /\ UNCHANGED <<phase, result>>

Return ==
    /\ phase = "running"
    /\ ~alive
    /\ \E r \in Results : Fits(r, cpu, end) /\ result' = {r}
    /\ phase' = "idle"
    /\ UNCHANGED <<alive, cpu, end>>

(* Finish, or a failure of the command's setup or of the sandbox, whose end *)
(* is the end of all its processes.                                         *)
Close ==
    /\ phase # "crashed"
    /\ phase' = "closed"
    /\ alive' \in {alive, FALSE}
    /\ result' = NoResult
    /\ UNCHANGED <<cpu, end>>

(* Nothing is promised to a judge that has crashed, but what is left alive. *)
Crash ==
    /\ phase' = "crashed"
    /\ alive' \in BOOLEAN
    /\ cpu' \in Nat
    /\ end' \in Statuses \cup {NoStatus}
    /\ result' = NoResult

Next == Call \/ Start \/ Work \/ Return \/ Close \/ Crash

Spec == Init /\ [][Next]_svars
=============================================================================

---------------------------- MODULE Interactive ----------------------------
(* evaluateInteractive of eval/eval.go: program and validator run at once,   *)
(* in their sandboxes, and talk through two FIFOs.  Each is run by a        *)
(* goroutine of the judge, which itself keeps ends of both FIFOs open until *)
(* the run it waits for is over.                                            *)
(*                                                                          *)
(* Of a run it is modelled when its child opens its streams, what it does   *)
(* with the FIFOs, and how it ends; SandboxWrapper has the rest.  While a   *)
(* child waits for a FIFO to open, its sandbox waits for the child's setup  *)
(* (sandbox.rs 192), and looks at no clock.                                 *)
EXTENDS Naturals

CONSTANT Capacity   \* bound: how much a FIFO holds

ASSUME InteractiveAssumption == Capacity \in Nat \ {0}

VARIABLES
    jpc,            \* what evaluateInteractive is doing
    st,             \* how far each of the two runs, and its goroutine, is
    readers,        \* who has each FIFO open for reading
    writers,        \* who has each FIFO open for writing
    buf,            \* how much is in each FIFO
    run,            \* programRun and validatorRun, once the runs are over
    validatorFirst, \* the variable of that name
    verdict         \* what the evaluation returns

vars == <<jpc, st, readers, writers, buf, run, validatorFirst, verdict>>
fifoVars == <<readers, writers, buf>>

Sides == {"program", "validator"}
Peer(p) == IF p = "program" THEN "validator" ELSE "program"
Fifos == {"input", "output"}    \* named for the program
In(p) == IF p = "program" THEN "input" ELSE "output"
Out(p) == In(Peer(p))

(* The judge's own ends: the two it opens O_RDWR read as well as write. *)
JudgeEnds == {"inWrite", "inRead", "outWrite", "outRead"}

(* The program's output is opened without O_RDWR, for one use only. *)
JudgeReadersOnce == [f \in Fifos |-> IF f = "input" THEN {"inWrite", "inRead"} ELSE {"outRead"}]
JudgeWritersOnce == [f \in Fifos |-> IF f = "input" THEN {"inWrite"} ELSE {}]

JudgeReaders == [f \in Fifos |-> IF f = "input" THEN {"inWrite", "inRead"} ELSE {"outWrite", "outRead"}]
JudgeWriters == [f \in Fifos |-> IF f = "input" THEN {"inWrite"} ELSE {"outWrite"}]
Nobody == [f \in Fifos |-> {}]

(* How a run ends.  "cut" is the end by the wall clock, which Run returns   *)
(* as exited with code 0.                                                   *)
AC == 42
WA == 43
Exited(n) == [type |-> "exited", code |-> n]
Ends(p) ==
    {Exited(0), Exited(1), [type |-> "cut", code |-> 0], [type |-> "timedOut", code |-> 0],
     [type |-> "signaled", code |-> 0], [type |-> "sigpipe", code |-> 0]}
        \cup IF p = "validator" THEN {Exited(AC), Exited(WA)} ELSE {}
NotRun == [type |-> "none", code |-> 0]
SetupError == [type |-> "error", code |-> 0]

Crashed(r) == (r.type = "exited" /\ r.code # 0) \/ r.type \in {"signaled", "sigpipe"}

Init ==
    /\ jpc = "setup"
    /\ st = [p \in Sides |-> "idle"]
    /\ readers = Nobody
    /\ writers = Nobody
    /\ buf = [f \in Fifos |-> 0]
    /\ run = [p \in Sides |-> NotRun]
    /\ validatorFirst = FALSE
    /\ verdict = "none"

Close(ends) ==
    /\ readers' = [f \in Fifos |-> readers[f] \ ends]
    /\ writers' = [f \in Fifos |-> writers[f] \ ends]

-----------------------------------------------------------------------------
(* The links and the FIFOs; then both goroutines start. *)
Setup ==
    /\ jpc = "setup"
    /\ \/ /\ jpc' = "wait"
          /\ readers' = JudgeReaders
          /\ writers' = JudgeWriters
          /\ st' = [p \in Sides |-> "boot"]
          /\ UNCHANGED verdict
       \/ jpc' = "over" /\ verdict' = "error" /\ UNCHANGED <<readers, writers, st>>
    /\ UNCHANGED <<buf, run, validatorFirst>>

-----------------------------------------------------------------------------
(* A run. *)

(* The child opens its standard input, which waits for a writer... *)
OpenIn(p) ==
    /\ st[p] = "boot"
    /\ readers' = [readers EXCEPT ![In(p)] = @ \cup {p}]
    /\ st' = [st EXCEPT ![p] = IF writers[In(p)] = {} THEN "openIn" ELSE "openOut"]
    /\ UNCHANGED <<jpc, writers, buf, run, validatorFirst, verdict>>

(* ...and then its standard output, which lets a waiting reader go on. *)
OpenOut(p) ==
    /\ st[p] = "openOut"
    /\ readers[Out(p)] # {}
    /\ writers' = [writers EXCEPT ![Out(p)] = @ \cup {p}]
    /\ st' = [q \in Sides |-> IF q = p THEN "run" ELSE IF st[q] = "openIn" THEN "openOut" ELSE st[q]]
    /\ UNCHANGED <<jpc, readers, buf, run, validatorFirst, verdict>>

SetupFails(p) ==
    /\ st[p] \in {"boot", "openOut"}
    /\ st' = [st EXCEPT ![p] = "ended"]
    /\ run' = [run EXCEPT ![p] = SetupError]
    /\ Close({p})
    /\ UNCHANGED <<jpc, buf, validatorFirst, verdict>>

Write(p) ==
    /\ st[p] = "run"
    /\ buf[Out(p)] < Capacity
    /\ buf' = [buf EXCEPT ![Out(p)] = @ + 1]
    /\ UNCHANGED <<jpc, st, readers, writers, run, validatorFirst, verdict>>

Read(p) ==
    /\ st[p] = "run"
    /\ buf[In(p)] > 0
    /\ buf' = [buf EXCEPT ![In(p)] = @ - 1]
    /\ UNCHANGED <<jpc, st, readers, writers, run, validatorFirst, verdict>>

(* The process ends; at the latest its sandbox ends it for a limit. *)
End(p) ==
    /\ st[p] = "run"
    /\ st' = [st EXCEPT ![p] = "ended"]
    /\ \E r \in Ends(p) : run' = [run EXCEPT ![p] = r]
    /\ Close({p})
    /\ UNCHANGED <<jpc, buf, validatorFirst, verdict>>

-----------------------------------------------------------------------------
(* The goroutines, after Run. *)

(* The program's has set programRun, and is about to close its end. *)
ProgramReturns ==
    /\ st["program"] = "ended"
    /\ st' = [st EXCEPT !["program"] = "returned"]
    /\ UNCHANGED <<jpc, fifoVars, run, validatorFirst, verdict>>

ProgramDone ==
    /\ st["program"] = "returned"
    /\ st' = [st EXCEPT !["program"] = "done"]
    /\ Close({"outWrite"})
    /\ UNCHANGED <<jpc, buf, run, validatorFirst, verdict>>

ValidatorReturns ==
    /\ st["validator"] = "ended"
    /\ st' = [st EXCEPT !["validator"] = "returned"]
    /\ Close({"inWrite"})
    /\ UNCHANGED <<jpc, buf, run, validatorFirst, verdict>>

(* programRun is read without synchronisation: while the other goroutine    *)
(* has set it but not yet made a call, either value may be seen.            *)
ProgramRunSeenNil ==
    {seen \in BOOLEAN :
        /\ st["program"] \notin {"returned", "done"} => seen
        /\ st["program"] = "done" => ~seen}

ValidatorDone ==
    /\ st["validator"] = "returned"
    /\ st' = [st EXCEPT !["validator"] = "done"]
    /\ validatorFirst' \in ProgramRunSeenNil
    /\ IF validatorFirst' /\ run["validator"] # Exited(AC)
       THEN Close({"outRead"})
       ELSE UNCHANGED <<readers, writers>>
    /\ UNCHANGED <<jpc, buf, run, verdict>>

-----------------------------------------------------------------------------
(* wg.Wait has returned: close the other ends, and judge; the clean-up and  *)
(* the validator's files may fail.                                          *)

(* An earlier rule, that blames whoever ended first. *)
BlameFirst(r) == Crashed(r) /\ r.type # "sigpipe" /\ ~validatorFirst

(* A program's crash is its own fault, unless it may be due to a validator  *)
(* that has rejected it and gone.                                           *)
Blamed(r) ==
    /\ Crashed(r)
    /\ r.type # "sigpipe"
    /\ ~validatorFirst \/ run["validator"] = Exited(AC)

Verdict ==
    IF (\E p \in Sides : run[p] = SetupError) \/ run["validator"] \notin {Exited(AC), Exited(WA)} THEN "error"
    ELSE IF run["program"].type = "timedOut" THEN "TLE"
    ELSE IF Blamed(run["program"]) THEN "RTE"
    ELSE IF run["validator"] = Exited(AC) THEN "AC" ELSE "WA"

Judge ==
    /\ jpc = "wait"
    /\ \A p \in Sides : st[p] = "done"
    /\ jpc' = "over"
    /\ Close({"inRead", "outRead"})
    /\ \/ verdict' = "error"
       \/ verdict' = Verdict
    /\ UNCHANGED <<st, buf, run, validatorFirst>>

RunStep(p) == OpenIn(p) \/ OpenOut(p) \/ SetupFails(p) \/ End(p)

Next ==
    \/ Setup
    \/ \E p \in Sides : RunStep(p) \/ Write(p) \/ Read(p)
    \/ ProgramReturns \/ ProgramDone \/ ValidatorReturns \/ ValidatorDone
    \/ Judge

Spec == Init /\ [][Next]_vars

(* The judge and the sandboxes are scheduled, and end a run that exceeds    *)
(* its limits; nothing is assumed of what program and validator do.         *)
LiveSpec ==
    /\ Spec
    /\ \A p \in Sides : WF_vars(RunStep(p))
    /\ WF_vars(Setup) /\ WF_vars(Judge)
    /\ WF_vars(ProgramReturns \/ ProgramDone)
    /\ WF_vars(ValidatorReturns \/ ValidatorDone)

-----------------------------------------------------------------------------
(* The variables have their types. *)
TypeOK ==
    /\ jpc \in {"setup", "wait", "over"}
    /\ st \in [Sides -> {"idle", "boot", "openIn", "openOut", "run", "ended", "returned", "done"}]
    /\ readers \in [Fifos -> SUBSET (Sides \cup JudgeEnds)]
    /\ writers \in [Fifos -> SUBSET (Sides \cup JudgeEnds)]
    /\ buf \in [Fifos -> 0 .. Capacity]
    /\ DOMAIN run = Sides /\ \A p \in Sides : run[p] \in Ends(p) \cup {NotRun, SetupError}
    /\ validatorFirst \in BOOLEAN
    /\ verdict \in {"none", "error", "AC", "WA", "TLE", "RTE"}

(* An end of file on its input tells a process that the Run of the other    *)
(* has returned, however early or late the two started: until then the      *)
(* judge holds the FIFO open (eval.go 445-448).  So a validator that ends   *)
(* because its program has ended does not pass for the first to end, and    *)
(* does not cover up a crash of the program.  Conversely, when the goroutine *)
(* of a run has ended, the other side is not kept waiting for input by       *)
(* anyone (eval.go 457, 462).                                                *)
EofMeansEnd ==
    \A p \in Sides :
        /\ st[p] = "run" /\ buf[In(p)] = 0 /\ writers[In(p)] = {} => st[Peer(p)] \in {"returned", "done"}
        /\ st[p] = "done" => writers[Out(p)] = {}

(* A process that writes has a reader, also a program whose validator is    *)
(* gone: the O_RDWR end of eval.go 447 outlives the close of outRead in     *)
(* eval.go 466, which therefore raises no SIGPIPE.  Only a limit ends a     *)
(* program that writes more than the FIFO holds.                            *)
NoSigpipe ==
    \A p \in Sides : st[p] = "run" => readers[Out(p)] # {}

(* However the evaluation ends, the judge keeps no end of a FIFO: it would  *)
(* run out of descriptors, a case at a time.                                *)
NothingKeptOpen ==
    jpc = "over" => readers = Nobody /\ writers = Nobody

(* The FIFOs through the whole of an evaluation: types, and who holds them. *)
Inv == TypeOK /\ NoSigpipe /\ NothingKeptOpen

(* Whichever run ends first, and whatever the race on programRun: a program *)
(* that crashed, timed out or was rejected is not accepted, one that did    *)
(* none of this is, and only a program that crashed is told so              *)
(* (eval.go 500-519).                                                       *)
VerdictFits ==
    LET p == run["program"]
        accepted == run["validator"] = Exited(AC)
        good == accepted /\ p.type \notin {"error", "timedOut"} /\ (Crashed(p) => p.type = "sigpipe")
    IN  /\ verdict = "AC" => good
        /\ jpc = "over" /\ good => verdict \in {"AC", "error"}
        /\ verdict = "RTE" => Crashed(p)
        /\ verdict = "WA" => run["validator"] = Exited(WA)

(* Each child has come to its FIFOs before the other's Run is over. *)
OpensInTime == \A p \in Sides : st[p] = "returned" => st[Peer(p)] # "boot"

(* Then the evaluation ends, whatever program and validator do: no end the  *)
(* judge holds or closes keeps a child waiting (eval.go 445-466).           *)
EndsIfOpenInTime == []OpensInTime => <>(jpc = "over")

(* main.rs 71: a run has "the wall-clock time limit in milliseconds", so    *)
(* that, once started, both runs, and the evaluation, end.                  *)
EndsInTime == <>(jpc = "over")
=============================================================================

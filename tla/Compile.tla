------------------------------ MODULE Compile ------------------------------
(* The judge before it evaluates: InitLanguages runs every compiler once for *)
(* its version, and Compile turns a submission into a program or says why    *)
(* not.  Both run commands in sandboxes of id 0, which keep what             *)
(* SandboxService promises; javaCompile runs several in one.                 *)
EXTENDS Paths

CONSTANTS
    Order,      \* the languages, in the order of InitLanguages
    Unprobed,   \* ...and those that have a group but no initialisation
    Kind,       \* what compiles each: "none", "simple" or "java"
    Classes,    \* the .class files javac can write: 1 .. n, in Walk's order
    HasMain,    \* those with a main method
    Plain,      \* those that javap introduces with "class" or "public class"
    MaxCompiles \* bound: calls of Compile

ASSUME CompileAssumption ==
    /\ Classes \in SUBSET (Nat \ {0}) /\ HasMain \subseteq Classes /\ Plain \subseteq Classes
    /\ Order \in Seq(ToSet(Order)) /\ Order # <<>>
    /\ Kind \in [ToSet(Order) \cup Unprobed -> {"none", "simple", "java"}]
    /\ MaxCompiles \in Nat

VARIABLES
    pc,         \* of the judge
    todo,       \* languages to initialise
    installed,  \* the keys of the map languages
    reowned,    \* directories whose owner and mode were changed for a probe
    calls,      \* calls of Compile
    lang,       \* the language at hand
    job,        \* what runs in the sandbox: "probe", "simple", "javac", "javap"
    boxes,      \* sandboxes started
    open,       \* [n, lang] of those of which Finish was not called
    outDir,     \* the compiler's output: exe is "none", "old" or "new"; the classes
                \* in it, and those of them that this call has written
    walk,       \* classes that Walk has still to visit
    mains,      \* the classes found to have a main
    cut,        \* whether a run of this call ended with no status
    ret,        \* what the last call returned
    phase, alive, cpu, end, result \* of the last sandbox: SandboxService

fileVars == <<outDir, walk, mains>>
bootVars == <<todo, installed, reowned>>
callVars == <<calls, lang>>
boxVars == <<phase, alive, cpu, end, result>>
vars == <<pc, bootVars, callVars, job, boxes, open, fileVars, cut, ret, boxVars>>

NoStatus == [t |-> "none", v |-> 0]
Statuses == {[t |-> "code", v |-> 0], [t |-> "code", v |-> 1], [t |-> "signal", v |-> 9]}
Succeeded == [t |-> "code", v |-> 0]
Results == [type : {"exited", "signaled", "timedOut"}, code : {0, 1}, signal : {0, 9}]

Service == INSTANCE SandboxService

CrashedWith(r, code) == r.type = "exited" /\ r.code = code
Crashed(r) == (r.type = "exited" /\ r.code # 0) \/ r.type = "signaled"
TimedOut(r) == r.type = "timedOut"

EmptyDir == [exe |-> "none", classes |-> {}, written |-> {}]

Init ==
    /\ pc = "boot" /\ todo = Order /\ installed = {} /\ reowned = {}
    /\ calls = 0 /\ lang = Head(Order)
    /\ job = "probe" /\ boxes = 0 /\ open = {}
    /\ outDir = EmptyDir /\ walk = {} /\ mains = <<>>
    /\ cut = FALSE /\ ret = [is |-> "none"]
    /\ phase = "closed" /\ alive = FALSE /\ cpu = 0 /\ end = NoStatus /\ result = {}

Idle(is) == pc' = "idle" /\ ret' = [is |-> is]
GiveUp == IF job = "probe" THEN pc' = "fatal" /\ UNCHANGED ret ELSE Idle("error")
Program(main) == pc' = "idle" /\ ret' = [is |-> "program", main |-> main]
Rejected(why) == pc' = "idle" /\ ret' = [is |-> "rejected", why |-> why]

(* Finish waits for the monitor, and so for all of the sandbox. *)
Finish ==
    /\ Service!Close /\ ~alive'
    /\ open' = {b \in open : b.n # boxes}

-----------------------------------------------------------------------------
(* runCommandInSandbox and Compile, up to the sandbox. *)

(* MkdirTemp's error is ignored: its path is then empty, and the base is    *)
(* the judge's working directory.                                           *)
TempDirs == {<<"", "tmp", "omogen">>, <<"">>}

PrepareProbe ==
    /\ pc = "boot"
    /\ todo # <<>>
    /\ \E tmpdir \in TempDirs, fixed \in {"no", "owner", "mode"} :
        /\ reowned' = reowned \cup (IF fixed = "no" THEN {} ELSE {NewBase(tmpdir)})
        /\ pc' \in IF fixed = "mode" /\ FullPath(NewBase(tmpdir), <<"in">>) # Refused
                   THEN {"start", "fatal"}
                   ELSE {"fatal"}
    /\ lang' = Head(todo) /\ job' = "probe"
    /\ UNCHANGED <<todo, installed, calls, boxes, open, fileVars, cut, ret, boxVars>>

Booted ==
    /\ pc = "boot"
    /\ todo = <<>>
    /\ pc' = "idle"
    /\ UNCHANGED <<bootVars, callVars, job, boxes, open, fileVars, cut, ret, boxVars>>

(* The directory of the output may be one that was used before. *)
CompileCall ==
    /\ pc = "idle"
    /\ calls < MaxCompiles
    /\ calls' = calls + 1
    /\ lang' \in DOMAIN Kind
    /\ outDir' \in {[outDir EXCEPT !.exe = IF @ = "none" THEN @ ELSE "old", !.written = {}], EmptyDir}
    /\ walk' = {} /\ mains' = <<>> /\ cut' = FALSE
    /\ job' = IF Kind[lang'] = "java" THEN "javac" ELSE "simple"
    /\ \/ Idle("error")
       \/ lang' \in installed /\ Kind[lang'] = "none" /\ (Program(0) \/ Rejected("sources"))
       \/ lang' \in installed /\ Kind[lang'] # "none" /\ pc' = "start" /\ ret' = [is |-> "none"]
    /\ UNCHANGED <<bootVars, boxes, open, boxVars>>

NewSandbox ==
    /\ pc = "start"
    /\ \/ GiveUp /\ UNCHANGED <<boxes, open, boxVars>>
       \/ /\ pc' = "ready"
          /\ boxes' = boxes + 1
          /\ open' = open \cup {[n |-> boxes', lang |-> lang]}
          /\ phase' = "idle" /\ alive' = FALSE /\ cpu' = 0 /\ end' = NoStatus /\ result' = {}
          /\ UNCHANGED ret
    /\ UNCHANGED <<bootVars, callVars, job, fileVars, cut>>

-----------------------------------------------------------------------------
(* Run. *)

RunCall ==
    /\ pc = "ready"
    /\ Service!Call
    /\ pc' = "running"
    /\ UNCHANGED <<bootVars, callVars, job, boxes, open, fileVars, cut, ret>>

Running ==
    /\ pc = "running"
    /\ Service!Start \/ (Service!Work /\ cpu' <= 1)
    /\ UNCHANGED <<pc, bootVars, callVars, job, boxes, open, fileVars, cut, ret>>

(* Only a compiler that ended well is known to have written its output. *)
RunReturns ==
    /\ pc = "running"
    /\ Service!Return
    /\ pc' = "ended"
    /\ cut' = (cut \/ end = NoStatus)
    /\ \/ job = "simple" /\ end = Succeeded /\ outDir' = [outDir EXCEPT !.exe = "new"]
       \/ job = "javac" /\ \E made \in SUBSET Classes : 
              outDir' = [outDir EXCEPT !.classes = @ \cup made, !.written = made]
       \/ job # "javac" /\ (job # "simple" \/ end # Succeeded) /\ UNCHANGED outDir
    /\ UNCHANGED <<bootVars, callVars, job, boxes, open, walk, mains, ret>>

(* The setup failed and Run has called Finish, or the sandbox is gone. *)
RunFails ==
    /\ pc = "running"
    /\ Finish
    /\ GiveUp \/ (pc' = "fatal" /\ UNCHANGED ret)
    /\ UNCHANGED <<bootVars, callVars, job, boxes, fileVars, cut>>

TheResult == CHOOSE r \in result : TRUE

-----------------------------------------------------------------------------
(* What follows a Run. *)

Probed ==
    /\ pc = "ended" /\ job = "probe"
    /\ Finish
    /\ \/ /\ ~Crashed(TheResult) /\ ~TimedOut(TheResult)
          /\ pc' = "boot" /\ installed' = installed \cup {lang} /\ todo' = Tail(todo)
       \/ pc' = "fatal" /\ UNCHANGED <<installed, todo>>
    /\ UNCHANGED <<reowned, callVars, job, boxes, fileVars, cut, ret>>

(* Finish is called for a program only. *)
SimpleDoneOpen ==
    /\ pc = "ended" /\ job = "simple"
    /\ \/ Idle("error") /\ UNCHANGED <<open, boxVars>>
       \/ CrashedWith(TheResult, 0) /\ Program(0) /\ Finish
    /\ UNCHANGED <<bootVars, callVars, job, boxes, fileVars, cut>>

SimpleDone ==
    /\ pc = "ended" /\ job = "simple"
    /\ Finish
    /\ \/ Idle("error")
       \/ CrashedWith(TheResult, 0) /\ Program(0)
       \/ ~CrashedWith(TheResult, 0) /\ Rejected("compiler")
    /\ UNCHANGED <<bootVars, callVars, job, boxes, fileVars, cut>>

(* From here on the sandbox is left running when something is wrong. *)
JavacDone ==
    /\ pc = "ended" /\ job = "javac"
    /\ \/ Idle("error") /\ UNCHANGED walk
       \/ ~CrashedWith(TheResult, 0) /\ Rejected("compiler") /\ UNCHANGED walk
       \/ CrashedWith(TheResult, 0) /\ pc' = "walk" /\ walk' = outDir.classes /\ UNCHANGED ret
    /\ UNCHANGED <<bootVars, callVars, job, boxes, open, outDir, mains, cut, boxVars>>

Visited == CHOOSE c \in walk : \A d \in walk : c <= d

Visit ==
    /\ pc = "walk"
    /\ walk # {}
    /\ \/ Idle("error") /\ UNCHANGED job
       \/ pc' = "ready" /\ job' = "javap" /\ UNCHANGED ret
    /\ UNCHANGED <<bootVars, callVars, boxes, open, fileVars, cut, boxVars>>

(* A class is visited again. *)
JavapDoneAgain ==
    /\ pc = "ended" /\ job = "javap"
    /\ pc' = "walk"
    /\ mains' = IF Visited \in HasMain \cap Plain THEN <<Visited>> ELSE mains
    /\ UNCHANGED <<bootVars, callVars, job, boxes, open, outDir, walk, cut, ret, boxVars>>

(* Every class is one with a main. *)
JavapDoneAny ==
    /\ pc = "ended" /\ job = "javap"
    /\ \/ Idle("error") /\ UNCHANGED <<walk, mains>>
       \/ /\ ~Crashed(TheResult) /\ ~TimedOut(TheResult)
          /\ mains' = IF Visited \in Plain THEN Append(mains, Visited) ELSE mains
          /\ walk' = walk \ {Visited} /\ pc' = "walk" /\ UNCHANGED ret
    /\ UNCHANGED <<bootVars, callVars, job, boxes, open, outDir, cut, boxVars>>

(* Of a javap that was cut, a part of the output may be missing. *)
JavapDone ==
    /\ pc = "ended" /\ job = "javap"
    /\ \/ Idle("error") /\ UNCHANGED <<walk, mains>>
       \/ /\ ~Crashed(TheResult) /\ ~TimedOut(TheResult)
          /\ mains' \in {IF Visited \in HasMain \cap Plain THEN Append(mains, Visited) ELSE mains}
                        \cup (IF end = Succeeded THEN {} ELSE {mains})
          /\ walk' = walk \ {Visited} /\ pc' = "walk" /\ UNCHANGED ret
    /\ UNCHANGED <<bootVars, callVars, job, boxes, open, outDir, cut, boxVars>>

JavaDone ==
    /\ pc = "walk"
    /\ walk = {}
    /\ Finish
    /\ \/ mains = <<>> /\ Rejected("no main")
       \/ Len(mains) = 1 /\ Program(mains[1])
       \/ Len(mains) > 1 /\ Rejected("mains")
    /\ UNCHANGED <<bootVars, callVars, job, boxes, fileVars, cut>>

Over ==
    /\ pc = "fatal" \/ (pc = "idle" /\ calls = MaxCompiles)
    /\ UNCHANGED vars

Step ==
    \/ PrepareProbe \/ Booted \/ NewSandbox \/ RunCall \/ RunReturns
    \/ Probed \/ SimpleDone \/ JavacDone \/ Visit \/ JavapDone \/ JavaDone

Next == CompileCall \/ Step \/ Running \/ RunFails \/ Over

Spec == Init /\ [][Next]_vars

(* The judge's fairness, and the sandbox's: a command is started, and all   *)
(* of it ends (RunReturns of SandboxWrapper).                               *)
LiveSpec ==
    /\ Spec
    /\ WF_vars(Step)
    /\ WF_vars(Running /\ phase = "called")
    /\ WF_vars(Running /\ ~alive')

-----------------------------------------------------------------------------
(* The variables have their types, and Run is only called on a sandbox that *)
(* was started and not finished: newSandbox and Finish are far from it.     *)
TypeOK ==
    /\ pc \in {"boot", "idle", "start", "ready", "running", "ended", "walk", "fatal"}
    /\ job \in {"probe", "simple", "javac", "javap"}
    /\ installed \subseteq ToSet(Order) /\ lang \in DOMAIN Kind
    /\ open \subseteq [n : 1 .. boxes, lang : DOMAIN Kind]
    /\ outDir.classes \subseteq Classes /\ outDir.written \subseteq outDir.classes
    /\ walk \subseteq outDir.classes /\ ToSet(mains) \subseteq Classes
    /\ pc = "ended" => Cardinality(result) = 1
    /\ pc \in {"ready", "running", "ended", "walk"} => phase # "closed" /\ [n |-> boxes, lang |-> lang] \in open

(* Between calls, a sandbox that is still there is one of a javaCompile     *)
(* that gave no program (compilers.go 126-136, 172): every other path has   *)
(* finished its own.  Even that one runs nothing any more.                  *)
LeftByJava ==
    /\ pc \in {"idle", "boot"} => ~alive
    /\ pc \in {"idle", "boot"} => \A b \in open :
        /\ Kind[b.lang] = "java"
        /\ b.n = boxes /\ ret.is = "program" => Kind[lang] = "none"

(* A program of simpleCompile is the one that this call built, not what an   *)
(* earlier call left in the same directory (compilers.go 93).  A Java        *)
(* program starts a class with a main, the only one in the whole directory   *)
(* that javap introduces as expected.  Walk visits what earlier calls left   *)
(* too (compilers.go 139), so that it may be a class of an earlier call: but *)
(* only when this call has written no class with a main (138-184).  The      *)
(* exception to all of it is a run ended by the wall clock, which            *)
(* CrashedWith(0) takes for one that exited with 0: "cut" says that there    *)
(* was one.                                                                  *)
ProgramIsBuilt ==
    ret.is = "program" =>
        /\ Kind[lang] = "simple" => outDir.exe = "new" \/ cut
        /\ Kind[lang] = "java" =>
            /\ ret.main \in outDir.classes \cap HasMain
            /\ outDir.classes \cap HasMain \cap Plain = {ret.main} \/ cut
            /\ ret.main \in outDir.written \/ outDir.written \cap HasMain \cap Plain = {} \/ cut

(* When MkdirTemp fails the owner and the mode of the judge's own working   *)
(* directory are changed (language.go 208-216), but then the judge does not *)
(* start: nothing can be written in a base that is ".".                     *)
OwnDirectoryEnds == Here \in reowned => pc = "fatal"

(* What the judge leaves behind on its host, at every step: the parts above. *)
Inv == TypeOK /\ LeftByJava /\ OwnDirectoryEnds

(* Every call of Compile, and the start of the judge, comes to an end.      *)
CallsEnd == pc \notin {"idle", "fatal"} ~> pc \in {"idle", "fatal"}
=============================================================================

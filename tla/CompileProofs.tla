---------------------------- MODULE CompileProofs ----------------------------
(* Proofs about Compile, for every set of languages and of classes: which    *)
(* sandboxes a call leaves, and where the program that it returns is from.  *)
EXTENDS Compile, WellFoundedInduction, FiniteSetTheorems, SequenceTheorems, TLAPS

(* The positions at which the sandbox of the call is in use. *)
Using == {"ready", "running", "ended", "walk"}

(* What an output directory may hold. *)
OutDirs == [exe : {"none", "old", "new"}, classes : SUBSET Classes, written : SUBSET Classes]

(* The types, with those that TypeOK leaves to the runs. *)
Types ==
    /\ TypeOK
    /\ boxes \in Nat
    /\ todo \in Seq(ToSet(Order)) /\ mains \in Seq(Classes)
    /\ outDir \in OutDirs

(* What runs is what compiles the language at hand. *)
JobFits ==
    /\ pc \in Using \cup {"start"} => 
        /\ job = "simple" => Kind[lang] = "simple"
        /\ job \in {"javac", "javap"} => Kind[lang] = "java"
    /\ pc \in Using \cup {"start", "boot"} => ret.is # "program"
    /\ pc = "boot" => job = "probe"
    /\ pc = "start" => job # "javap"
    /\ job = "probe" /\ pc \in Using \cup {"start"} => lang \in ToSet(Order) /\ todo # <<>>
    /\ pc = "walk" => job \in {"javac", "javap"}
    /\ pc \in {"start", "ready", "running", "ended"} => (job = "javac" => mains = <<>>) /\ (job = "javap" => walk # {})

(* A result is there when a run has returned, and fits its end; what a     *)
(* compiler has written is known, unless it was cut. *)
Ended ==
    /\ pc = "running" => result = {}
    /\ \A r \in result : r \in Results /\ Service!Fits(r, cpu, end)
    /\ pc = "ended" =>
        /\ result # {}
        /\ end = NoStatus => cut
        /\ job = "simple" /\ end = Succeeded => outDir.exe = "new"

(* Only a command that runs is alive, and a sandbox left is one of Java, or *)
(* the one in use. *)
Left ==
    /\ alive => pc = "running"
    /\ \A b \in open : Kind[b.lang] = "java" \/ (b.n = boxes /\ pc \in Using \cup {"fatal"})
    /\ pc \in Using => \A b \in open : b.n = boxes => b.lang = lang
    /\ pc \in {"idle", "boot"} => \A b \in open : b.n = boxes /\ ret.is = "program" => Kind[lang] = "none"

(* What was found so far: of the classes visited, those with a main. *)
Found ==
    job \in {"javac", "javap"} /\ pc \in Using =>
        /\ ToSet(mains) \subseteq HasMain \cap Plain \cap outDir.classes
        /\ pc = "walk" \/ job = "javap" =>
            cut \/ HasMain \cap Plain \cap (outDir.classes \ walk) \subseteq ToSet(mains)

IInv == Types /\ JobFits /\ Ended /\ Left /\ Found /\ ProgramIsBuilt

(* A class is visited as long as one is left. *)
LEMMA VisitedIsLeft == Classes \in SUBSET Nat /\ walk \subseteq Classes /\ walk # {} => Visited \in walk
<1> SUFFICES ASSUME Classes \in SUBSET Nat, walk \subseteq Classes, walk # {} PROVE Visited \in walk
  OBVIOUS
<1> DEFINE R == {ss \in Nat \X Nat : ss[1] < ss[2]}
<1>1. IsWellFoundedOn(R, Nat)
  BY NatLessThanWellFounded, Zenon DEF OpToRel
<1>2. \E x \in walk : \A y \in walk : ~ (<<y, x>> \in R)
  <2> HIDE DEF R
  <2> QED BY <1>1, WFMin, Zenon
<1>3. \A x, y \in Nat : <<y, x>> \in R <=> y < x
  OBVIOUS
<1>4. \E x \in walk : \A y \in walk : x <= y
  <2>1. \E x \in walk : \A y \in walk : ~ (y < x)
    <3> HIDE DEF R
    <3> QED BY <1>2, <1>3, Zenon
  <2> QED BY <2>1
<1> QED BY <1>4 DEF Visited

(* The elements of a list: none, and one more. *)
LEMMA Elements ==
    /\ ToSet(<<>>) = {}
    /\ \A S : \A s \in Seq(S), x \in S : ToSet(Append(s, x)) = ToSet(s) \cup {x} /\ ToSet(s) \subseteq S
    /\ \A S : \A s \in Seq(S) : Len(s) = 1 => ToSet(s) = {s[1]} /\ s[1] \in S
<1>1. ToSet(<<>>) = {}
  BY DEF ToSet
<1>2. ASSUME NEW S, NEW s \in Seq(S) PROVE ToSet(s) \subseteq S
  BY DEF ToSet
<1>3. ASSUME NEW S, NEW s \in Seq(S), NEW x \in S PROVE ToSet(Append(s, x)) = ToSet(s) \cup {x}
  <2>1. /\ DOMAIN s = 1 .. Len(s) /\ Len(s) \in Nat /\ DOMAIN Append(s, x) = 1 .. Len(s) + 1
        /\ \A i \in 1 .. Len(s) : Append(s, x)[i] = s[i]
        /\ Append(s, x)[Len(s) + 1] = x
    OBVIOUS
  <2>2. 1 .. Len(s) + 1 = (1 .. Len(s)) \cup {Len(s) + 1}
    BY <2>1
  <2> QED BY <2>1, <2>2 DEF ToSet
<1>4. ASSUME NEW S, NEW s \in Seq(S), Len(s) = 1 PROVE ToSet(s) = {s[1]} /\ s[1] \in S
  <2>1. DOMAIN s = {1}
    BY <1>4
  <2> QED BY <2>1 DEF ToSet
<1> QED BY <1>1, <1>2, <1>3, <1>4

(* At the start. *)
LEMMA Start == Init => IInv
<1> SUFFICES ASSUME Init PROVE IInv
  OBVIOUS
<1> USE CompileAssumption DEF Init
<1>1. Head(Order) \in ToSet(Order) /\ mains \in Seq(Classes) /\ ToSet(mains) = {}
  BY DEF ToSet
<1>2. Types
  BY <1>1 DEF Types, OutDirs, TypeOK, NoStatus, EmptyDir
<1>3. JobFits /\ Ended /\ Left /\ Found /\ ProgramIsBuilt
  BY DEF JobFits, Ended, Left, Found, ProgramIsBuilt, Using
<1> QED BY <1>2, <1>3 DEF IInv
(* A probe is prepared. *)
LEMMA PrepareProbeStep == IInv /\ PrepareProbe => IInv'
<1> SUFFICES ASSUME IInv, PrepareProbe PROVE IInv'
  OBVIOUS
<1> USE CompileAssumption DEF IInv, PrepareProbe, vars, bootVars, callVars, fileVars, boxVars
<1>1. Types'
  BY Elements DEF Types, OutDirs, TypeOK, Using
<1>2. JobFits'
  BY DEF JobFits, Types, Using
<1>3. Ended'
  BY DEF Ended, Using
<1>4. Left'
  BY DEF Left, JobFits, Using, Types, OutDirs, TypeOK
<1>5. Found'
  BY Elements DEF Found, JobFits, Types, OutDirs, TypeOK, Using
<1>6. ProgramIsBuilt'
  BY Elements DEF ProgramIsBuilt, JobFits, Types, OutDirs, TypeOK, Using
<1> QED BY <1>1, <1>2, <1>3, <1>4, <1>5, <1>6

(* Every language is initialised. *)
LEMMA BootedStep == IInv /\ Booted => IInv'
<1> SUFFICES ASSUME IInv, Booted PROVE IInv'
  OBVIOUS
<1> USE CompileAssumption DEF IInv, Booted, vars, bootVars, callVars, fileVars, boxVars
<1>1. Types'
  BY Elements DEF Types, OutDirs, TypeOK, Using
<1>2. JobFits'
  BY DEF JobFits, Using
<1>3. Ended'
  BY DEF Ended, Using
<1>4. Left'
  BY DEF Left, JobFits, Using, Types, OutDirs, TypeOK
<1>5. Found'
  BY Elements DEF Found, JobFits, Types, OutDirs, TypeOK, Using
<1>6. ProgramIsBuilt'
  BY Elements DEF ProgramIsBuilt, JobFits, Types, OutDirs, TypeOK, Using
<1> QED BY <1>1, <1>2, <1>3, <1>4, <1>5, <1>6

(* Compile is called. *)
LEMMA CompileCallStep == IInv /\ CompileCall => IInv'
<1> SUFFICES ASSUME IInv, CompileCall PROVE IInv'
  OBVIOUS
<1> USE CompileAssumption DEF IInv, CompileCall, vars, bootVars, callVars, fileVars, boxVars, Idle, Program, Rejected
<1>1. Types'
  <2>1. outDir' \in OutDirs /\ outDir'.written = {}
    <3>1. outDir \in OutDirs
      BY DEF Types
    <3> HIDE DEF CompileCall
    <3>2. [outDir EXCEPT !.exe = IF @ = "none" THEN @ ELSE "old", !.written = {}] \in OutDirs
      BY <3>1 DEF OutDirs
    <3>3. [outDir EXCEPT !.exe = IF @ = "none" THEN @ ELSE "old", !.written = {}].written = {}
      BY <3>1 DEF OutDirs
    <3>4. EmptyDir \in OutDirs /\ EmptyDir.written = {}
      BY DEF OutDirs, EmptyDir
    <3>5. outDir' \in {[outDir EXCEPT !.exe = IF @ = "none" THEN @ ELSE "old", !.written = {}], EmptyDir}
      BY DEF CompileCall
    <3> QED BY <3>2, <3>3, <3>4, <3>5
  <2>2. outDir'.classes \subseteq Classes /\ outDir'.written \subseteq outDir'.classes /\ walk' \subseteq outDir'.classes
        /\ mains' \in Seq(Classes) /\ ToSet(mains') = {}
    BY <2>1, Elements DEF OutDirs
  <2> QED BY <2>1, <2>2 DEF Types, OutDirs, TypeOK, Using
<1>2. JobFits'
  BY DEF JobFits, Using
<1>3. Ended'
  BY DEF Ended, Using
<1>4. Left'
  BY DEF Left, JobFits, Using, Types, OutDirs, TypeOK
<1>5. Found'
  BY Elements DEF Found, JobFits, Types, OutDirs, TypeOK, Using
<1>6. ProgramIsBuilt'
  BY Elements DEF ProgramIsBuilt, JobFits, Types, OutDirs, TypeOK, Using
<1> QED BY <1>1, <1>2, <1>3, <1>4, <1>5, <1>6

(* A sandbox is started. *)
LEMMA NewSandboxStep == IInv /\ NewSandbox => IInv'
<1> SUFFICES ASSUME IInv, NewSandbox PROVE IInv'
  OBVIOUS
<1> USE CompileAssumption DEF IInv, NewSandbox, vars, bootVars, callVars, fileVars, boxVars, Idle, GiveUp
<1>1. Types'
  BY Elements DEF Types, OutDirs, TypeOK, Using
<1>2. JobFits'
  BY DEF JobFits, Using
<1>3. Ended'
  BY DEF Ended, Using
<1>4. Left'
  BY DEF Left, JobFits, Using, Types, OutDirs, TypeOK
<1>5. Found'
  BY Elements DEF Found, JobFits, Types, OutDirs, TypeOK, Using
<1>6. ProgramIsBuilt'
  BY Elements DEF ProgramIsBuilt, JobFits, Types, OutDirs, TypeOK, Using
<1> QED BY <1>1, <1>2, <1>3, <1>4, <1>5, <1>6

(* A run is called, *)
LEMMA RunCallStep == IInv /\ RunCall => IInv'
<1> SUFFICES ASSUME IInv, RunCall PROVE IInv'
  OBVIOUS
<1> USE CompileAssumption DEF IInv, RunCall, vars, bootVars, callVars, fileVars, boxVars, Service!Call, Service!NoResult
<1>1. Types'
  BY Elements DEF Types, OutDirs, TypeOK, Using
<1>2. JobFits'
  BY DEF JobFits, Using
<1>3. Ended'
  BY DEF Ended, Using
<1>4. Left'
  BY DEF Left, JobFits, Using, Types, OutDirs, TypeOK
<1>5. Found'
  BY Elements DEF Found, JobFits, Types, OutDirs, TypeOK, Using
<1>6. ProgramIsBuilt'
  BY Elements DEF ProgramIsBuilt, JobFits, Types, OutDirs, TypeOK, Using
<1> QED BY <1>1, <1>2, <1>3, <1>4, <1>5, <1>6

(* ...goes on, *)
LEMMA RunningStep == IInv /\ Running => IInv'
<1> SUFFICES ASSUME IInv, Running PROVE IInv'
  OBVIOUS
<1> USE CompileAssumption DEF IInv, Running, vars, bootVars, callVars, fileVars, boxVars, Service!Start, Service!Work
<1>1. Types'
  BY Elements DEF Types, OutDirs, TypeOK, Using
<1>2. JobFits'
  BY DEF JobFits, Using
<1>3. Ended'
  BY DEF Ended, Using
<1>4. Left'
  BY DEF Left, JobFits, Using, Types, OutDirs, TypeOK
<1>5. Found'
  BY Elements DEF Found, JobFits, Types, OutDirs, TypeOK, Using
<1>6. ProgramIsBuilt'
  BY Elements DEF ProgramIsBuilt, JobFits, Types, OutDirs, TypeOK, Using
<1> QED BY <1>1, <1>2, <1>3, <1>4, <1>5, <1>6

(* ...returns *)
LEMMA RunReturnsStep == IInv /\ RunReturns => IInv'
<1> SUFFICES ASSUME IInv, RunReturns PROVE IInv'
  OBVIOUS
<1> USE CompileAssumption DEF IInv, RunReturns, vars, bootVars, callVars, fileVars, boxVars, Service!Return
<1>o. /\ outDir' \in OutDirs /\ outDir.classes \subseteq outDir'.classes /\ outDir'.written \subseteq outDir'.classes
      /\ job = "simple" /\ end = Succeeded => outDir'.exe = "new"
  <2>1. outDir \in OutDirs /\ outDir.written \subseteq outDir.classes
    BY DEF Types, TypeOK
  <2>2. CASE outDir' = [outDir EXCEPT !.exe = "new"] /\ job = "simple"
    BY <2>1, <2>2 DEF OutDirs
  <2>3. CASE job = "javac" /\ \E made \in SUBSET Classes :
                               outDir' = [outDir EXCEPT !.classes = @ \cup made, !.written = made]
    <3> HIDE DEF RunReturns
    <3>1. PICK made \in SUBSET Classes : outDir' = [outDir EXCEPT !.classes = @ \cup made, !.written = made]
      BY <2>3
    <3>2. outDir'.classes = outDir.classes \cup made /\ outDir'.written = made /\ outDir'.exe = outDir.exe
      BY <2>1, <3>1 DEF OutDirs
    <3>3. outDir' \in OutDirs
      BY <2>1, <3>1 DEF OutDirs
    <3> QED BY <2>1, <2>3, <3>2, <3>3
  <2>4. CASE UNCHANGED outDir /\ (job # "simple" \/ end # Succeeded)
    BY <2>1, <2>4
  <2> QED BY <2>2, <2>3, <2>4
<1>1. Types'
  <2>1. Cardinality(result') = 1
    BY FS_Singleton
  <2>2. outDir'.classes \subseteq Classes /\ walk' \subseteq outDir'.classes
    BY <1>o DEF Types, TypeOK, OutDirs
  <2> QED BY <1>o, <2>1, <2>2 DEF Types, TypeOK, Using
<1>2. JobFits'
  BY DEF JobFits, Using
<1>3. Ended'
  <2>1. PICK r \in Results : Service!Fits(r, cpu, end) /\ result' = {r}
    OBVIOUS
  <2>2. \A x \in result' : x \in Results /\ Service!Fits(x, cpu', end')
    BY <2>1 DEF Service!Fits
  <2>3. job = "simple" /\ end = Succeeded => outDir'.exe = "new"
    BY <1>o
  <2>4. end = NoStatus => cut'
    OBVIOUS
  <2> QED BY <2>1, <2>2, <2>3, <2>4 DEF Ended
<1>4. Left'
  BY DEF Left, JobFits, Using, Types, OutDirs, TypeOK
<1>5. Found'
  BY Elements DEF Found, JobFits, Types, OutDirs, TypeOK, Using
<1>6. ProgramIsBuilt'
  BY Elements DEF ProgramIsBuilt, JobFits, Types, OutDirs, TypeOK, Using
<1> QED BY <1>1, <1>2, <1>3, <1>4, <1>5, <1>6

(* ...or fails. *)
LEMMA RunFailsStep == IInv /\ RunFails => IInv'
<1> SUFFICES ASSUME IInv, RunFails PROVE IInv'
  OBVIOUS
<1> USE CompileAssumption DEF IInv, RunFails, vars, bootVars, callVars, fileVars, boxVars, Idle, GiveUp, Program, Rejected, Finish, Service!Close, Service!NoResult
<1>1. Types'
  BY Elements DEF Types, OutDirs, TypeOK, Using
<1>2. JobFits'
  BY DEF JobFits, Using
<1>3. Ended'
  BY DEF Ended, Using
<1>4. Left'
  BY DEF Left, JobFits, Using, Types, OutDirs, TypeOK
<1>5. Found'
  BY Elements DEF Found, JobFits, Types, OutDirs, TypeOK, Using
<1>6. ProgramIsBuilt'
  BY Elements DEF ProgramIsBuilt, JobFits, Types, OutDirs, TypeOK, Using
<1> QED BY <1>1, <1>2, <1>3, <1>4, <1>5, <1>6

(* A probe is over. *)
LEMMA ProbedStep == IInv /\ Probed => IInv'
<1> SUFFICES ASSUME IInv, Probed PROVE IInv'
  OBVIOUS
<1> USE CompileAssumption DEF IInv, Probed, vars, bootVars, callVars, fileVars, boxVars, Idle, GiveUp, Program, Rejected, Finish, Service!Close, Service!NoResult
<1>1. Types'
  <2>1. lang \in ToSet(Order) /\ todo # <<>>
    BY DEF JobFits, Using
  <2>2. todo' \in Seq(ToSet(Order))
    <3>1. todo' \in {todo, Tail(todo)}
      OBVIOUS
    <3>2. todo \in Seq(ToSet(Order)) /\ todo # <<>>
      BY <2>1 DEF Types
    <3>3. Tail(todo) \in Seq(ToSet(Order))
      <4> HIDE DEF Probed
      <4> QED BY <3>2
    <3> QED BY <3>1, <3>2, <3>3, Zenon
  <2>3. installed' \subseteq ToSet(Order)
    BY <2>1 DEF Types, OutDirs, TypeOK
  <2>4. pc' \in {"boot", "fatal"} /\ UNCHANGED <<job, lang, boxes, fileVars>> /\ open' \subseteq open
    OBVIOUS
  <2> HIDE DEF Probed
  <2> QED BY <2>2, <2>3, <2>4 DEF Types, OutDirs, TypeOK, Using
<1>2. JobFits'
  BY DEF JobFits, Using
<1>3. Ended'
  BY DEF Ended, Using
<1>4. Left'
  BY DEF Left, JobFits, Using, Types, OutDirs, TypeOK
<1>5. Found'
  BY Elements DEF Found, JobFits, Types, OutDirs, TypeOK, Using
<1>6. ProgramIsBuilt'
  BY Elements DEF ProgramIsBuilt, JobFits, Types, OutDirs, TypeOK, Using
<1> QED BY <1>1, <1>2, <1>3, <1>4, <1>5, <1>6

(* A compiler is over. *)
LEMMA SimpleDoneStep == IInv /\ SimpleDone => IInv'
<1> SUFFICES ASSUME IInv, SimpleDone PROVE IInv'
  OBVIOUS
<1> USE CompileAssumption DEF IInv, SimpleDone, vars, bootVars, callVars, fileVars, boxVars, Idle, GiveUp, Program, Rejected, Finish, Service!Close, Service!NoResult
<1>1. Types'
  BY Elements DEF Types, OutDirs, TypeOK, Using
<1>2. JobFits'
  BY DEF JobFits, Using
<1>3. Ended'
  BY DEF Ended, Using
<1>4. Left'
  BY DEF Left, JobFits, Using, Types, OutDirs, TypeOK
<1>5. Found'
  BY Elements DEF Found, JobFits, Types, OutDirs, TypeOK, Using
<1>6. ProgramIsBuilt'
  <2>1. TheResult \in result /\ Kind[lang] = "simple" /\ ret.is # "program"
    BY DEF Ended, JobFits, Using, TheResult
  <2>2. CrashedWith(TheResult, 0) => end \in {NoStatus, Succeeded}
    BY <2>1 DEF Ended, CrashedWith, Service!Fits, Succeeded
  <2>3. CrashedWith(TheResult, 0) => outDir.exe = "new" \/ cut
    BY <2>2 DEF Ended
  <2> QED BY <2>1, <2>3 DEF ProgramIsBuilt
<1> QED BY <1>1, <1>2, <1>3, <1>4, <1>5, <1>6

(* So is javac, *)
LEMMA JavacDoneStep == IInv /\ JavacDone => IInv'
<1> SUFFICES ASSUME IInv, JavacDone PROVE IInv'
  OBVIOUS
<1> USE CompileAssumption DEF IInv, JavacDone, vars, bootVars, callVars, fileVars, boxVars, Idle, GiveUp, Program, Rejected, Finish, Service!Close, Service!NoResult
<1>1. Types'
  BY Elements DEF Types, OutDirs, TypeOK, Using
<1>2. JobFits'
  BY DEF JobFits, Using
<1>3. Ended'
  BY DEF Ended, Using
<1>4. Left'
  BY DEF Left, JobFits, Using, Types, OutDirs, TypeOK
<1>5. Found'
  BY Elements DEF Found, JobFits, Types, OutDirs, TypeOK, Using
<1>6. ProgramIsBuilt'
  BY Elements DEF ProgramIsBuilt, JobFits, Types, OutDirs, TypeOK, Using
<1> QED BY <1>1, <1>2, <1>3, <1>4, <1>5, <1>6

(* ...a class is visited *)
LEMMA VisitStep == IInv /\ Visit => IInv'
<1> SUFFICES ASSUME IInv, Visit PROVE IInv'
  OBVIOUS
<1> USE CompileAssumption DEF IInv, Visit, vars, bootVars, callVars, fileVars, boxVars, Idle
<1>1. Types'
  BY Elements DEF Types, OutDirs, TypeOK, Using
<1>2. JobFits'
  BY DEF JobFits, Using
<1>3. Ended'
  BY DEF Ended, Using
<1>4. Left'
  BY DEF Left, JobFits, Using, Types, OutDirs, TypeOK
<1>5. Found'
  BY Elements DEF Found, JobFits, Types, OutDirs, TypeOK, Using
<1>6. ProgramIsBuilt'
  BY Elements DEF ProgramIsBuilt, JobFits, Types, OutDirs, TypeOK, Using
<1> QED BY <1>1, <1>2, <1>3, <1>4, <1>5, <1>6

(* ...and read, *)
LEMMA JavapDoneStep == IInv /\ JavapDone => IInv'
<1> SUFFICES ASSUME IInv, JavapDone PROVE IInv'
  OBVIOUS
<1> USE CompileAssumption DEF IInv, JavapDone, vars, bootVars, callVars, fileVars, boxVars, Idle
<1>a. Visited \in walk /\ walk \subseteq outDir.classes /\ outDir.classes \subseteq Classes
  BY VisitedIsLeft DEF JobFits, Types, OutDirs, TypeOK
<1>b. TheResult \in result /\ TheResult \in Results
  BY DEF Ended, TheResult
<1>c. ~Crashed(TheResult) /\ ~TimedOut(TheResult) => end = Succeeded \/ cut
  BY <1>b DEF Ended, Crashed, TimedOut, Service!Fits, Succeeded, Results
<1>d. /\ mains' \in Seq(Classes) /\ ToSet(mains) \subseteq ToSet(mains')
      /\ ToSet(mains') \subseteq ToSet(mains) \cup ({Visited} \cap HasMain \cap Plain)
      /\ walk' # walk => walk' = walk \ {Visited} /\ (Visited \in HasMain \cap Plain => Visited \in ToSet(mains') \/ cut)
  <2>1. mains \in Seq(Classes)
    BY DEF Types
  <2>2. ToSet(Append(mains, Visited)) = ToSet(mains) \cup {Visited} /\ Append(mains, Visited) \in Seq(Classes)
    BY <1>a, <2>1, Elements
  <2>3. mains' \in {mains, Append(mains, Visited)}
    OBVIOUS
  <2>4. walk' # walk => walk' = walk \ {Visited} /\ (Visited \in HasMain \cap Plain => mains' = Append(mains, Visited) \/ cut)
    BY <1>c
  <2>5. mains' = Append(mains, Visited) => mains' = mains \/ Visited \in HasMain \cap Plain
    OBVIOUS
  <2> QED BY <2>1, <2>2, <2>3, <2>4, <2>5
<1>1. Types'
  BY <1>a, <1>d, Elements DEF Types, OutDirs, TypeOK, Using
<1>2. JobFits'
  BY DEF JobFits, Using
<1>3. Ended'
  BY DEF Ended, Using
<1>4. Left'
  BY DEF Left, JobFits, Using, Types, OutDirs, TypeOK
<1>5. Found'
  <2>1. ToSet(mains) \subseteq HasMain \cap Plain \cap outDir.classes
    BY DEF Found, Using
  <2>2. cut \/ HasMain \cap Plain \cap (outDir.classes \ walk) \subseteq ToSet(mains)
    BY DEF Found, Using
  <2> QED BY <1>a, <1>d, <2>1, <2>2 DEF Found, Using
<1>6. ProgramIsBuilt'
  BY Elements DEF ProgramIsBuilt, JobFits, Types, OutDirs, TypeOK, Using
<1> QED BY <1>1, <1>2, <1>3, <1>4, <1>5, <1>6

(* ...until none is left. *)
LEMMA JavaDoneStep == IInv /\ JavaDone => IInv'
<1> SUFFICES ASSUME IInv, JavaDone PROVE IInv'
  OBVIOUS
<1> USE CompileAssumption DEF IInv, JavaDone, vars, bootVars, callVars, fileVars, boxVars, Idle, GiveUp, Program, Rejected, Finish, Service!Close, Service!NoResult
<1>1. Types'
  BY Elements DEF Types, OutDirs, TypeOK, Using
<1>2. JobFits'
  BY DEF JobFits, Using
<1>3. Ended'
  BY DEF Ended, Using
<1>4. Left'
  BY DEF Left, JobFits, Using, Types, OutDirs, TypeOK
<1>5. Found'
  BY Elements DEF Found, JobFits, Types, OutDirs, TypeOK, Using
<1>6. ProgramIsBuilt'
  <2>1. Kind[lang] = "java" /\ ret.is # "program"
    BY DEF JobFits, Using
  <2>2. /\ ToSet(mains) \subseteq HasMain \cap Plain \cap outDir.classes
        /\ cut \/ HasMain \cap Plain \cap outDir.classes \subseteq ToSet(mains)
    BY DEF Found, JobFits, Using
  <2>3. Len(mains) = 1 => ToSet(mains) = {mains[1]}
    BY Elements DEF Types
  <2>4. ret'.is = "program" => Len(mains) = 1 /\ ret'.main = mains[1]
    <3>1. \/ ret' = [is |-> "rejected", why |-> "no main"]
          \/ ret' = [is |-> "rejected", why |-> "mains"]
          \/ (Len(mains) = 1 /\ ret' = [is |-> "program", main |-> mains[1]])
      OBVIOUS
    <3> HIDE DEF JavaDone
    <3>2. ASSUME NEW why, ret' = [is |-> "rejected", why |-> why] PROVE ret'.is = "rejected"
      BY <3>2
    <3>3. ASSUME ret' = [is |-> "program", main |-> mains[1]] PROVE ret'.main = mains[1]
      BY <3>3
    <3>4. ret'.is = "rejected" \/ (Len(mains) = 1 /\ ret'.main = mains[1])
      <4> USE <3>1, <3>2, <3>3
      <4> HIDE DEF Rejected, Program
      <4> QED BY Zenon
    <3> QED BY <3>4
  <2>5. UNCHANGED <<lang, outDir, cut>>
    OBVIOUS
  <2>6. outDir.written \subseteq outDir.classes
    BY DEF Types, TypeOK
  <2> HIDE DEF JavaDone
  <2>7. CASE ret'.is = "program"
    <3>1. ret'.main \in outDir.classes \cap HasMain
      BY <2>2, <2>3, <2>4, <2>7
    <3>2. outDir.classes \cap HasMain \cap Plain = {ret'.main} \/ cut
      BY <2>2, <2>3, <2>4, <2>7
    <3>3. ret'.main \in outDir.written \/ outDir.written \cap HasMain \cap Plain = {} \/ cut
      BY <2>6, <3>2
    <3> QED BY <2>1, <2>5, <3>1, <3>2, <3>3 DEF ProgramIsBuilt
  <2> QED BY <2>7 DEF ProgramIsBuilt
<1> QED BY <1>1, <1>2, <1>3, <1>4, <1>5, <1>6


(* Every step keeps the invariant. *)
LEMMA NextStep == IInv /\ [Next]_vars => IInv'
<1> SUFFICES ASSUME IInv, [Next]_vars PROVE IInv'
  OBVIOUS
<1>1. CASE Over \/ UNCHANGED vars
  BY <1>1 DEF Over, vars, bootVars, callVars, fileVars, boxVars, IInv, Types, OutDirs, TypeOK, JobFits, Ended, Left, Found, Using,
      ProgramIsBuilt
<1>2. CASE PrepareProbe \/ Booted \/ Probed
  BY <1>2, PrepareProbeStep, BootedStep, ProbedStep
<1>3. CASE CompileCall \/ NewSandbox \/ SimpleDone
  BY <1>3, CompileCallStep, NewSandboxStep, SimpleDoneStep
<1>4. CASE RunCall \/ Running \/ RunReturns \/ RunFails
  BY <1>4, RunCallStep, RunningStep, RunReturnsStep, RunFailsStep
<1>5. CASE JavacDone \/ Visit \/ JavapDone \/ JavaDone
  BY <1>5, JavacDoneStep, VisitStep, JavapDoneStep, JavaDoneStep
<1> QED BY <1>1, <1>2, <1>3, <1>4, <1>5 DEF Next, Step

LEMMA Invariance == Spec => []IInv
<1>1. Init => IInv
  BY Start
<1>2. IInv /\ [Next]_vars => IInv'
  BY NextStep
<1> QED BY <1>1, <1>2, PTL DEF Spec

(* A program of simpleCompile is one that this very call has built.  A Java  *)
(* program's class is the one in the directory with a main: it is left by an *)
(* earlier call only when this call has written none with a main.  All of it *)
(* unless a run was cut by the wall clock (compilers.go 93, 138-184). *)
THEOREM ProgramsAreBuilt == Spec => []ProgramIsBuilt
<1>1. IInv => ProgramIsBuilt
  BY DEF IInv
<1> QED BY <1>1, Invariance, PTL

-----------------------------------------------------------------------------
(* Two sequences of one. *)
LEMMA PairIs == \A x, y : <<x>> \o <<y>> = <<x, y>>
<1> TAKE x, y
<1> DEFINE T == {x, y}
           a == <<x>>
           b == <<y>>
           p == <<x, y>>
           c == a \o b
<1>1. a \in Seq(T) /\ b \in Seq(T) /\ Len(a) = 1 /\ Len(b) = 1 /\ a[1] = x /\ b[1] = y
  OBVIOUS
<1>2. p \in Seq(T) /\ Len(p) = 2 /\ p[1] = x /\ p[2] = y
  OBVIOUS
<1> HIDE DEF a, b, p, T
<1>3. c \in Seq(T) /\ Len(c) = 2 /\ c[1] = x /\ c[2] = y
  <2>1. /\ c \in Seq(T) /\ Len(c) = Len(a) + Len(b)
        /\ \A i \in 1 .. Len(a) + Len(b) : c[i] = IF i <= Len(a) THEN a[i] ELSE b[i - Len(a)]
    BY <1>1, ConcatProperties
  <2> HIDE DEF c
  <2> QED BY <1>1, <2>1
<1> HIDE DEF c
<1>4. \A i \in 1 .. 2 : i = 1 \/ i = 2
  OBVIOUS
<1>5. c = p
  BY <1>2, <1>3, <1>4, SeqEqual
<1> QED BY <1>5 DEF a, b, c, p

(* A base that is "." refuses every name in it. *)
LEMMA NothingInHere == FullPath(Here, <<"in">>) = Refused
<1> DEFINE p == <<".", "in">>
           Walk(done, part) ==
            CASE part \in {"", "."} -> done
              [] part = ".." /\ done # <<>> /\ Last(done) # ".." -> Front(done)
              [] part = ".." /\ done = <<>> /\ Absolute(p) -> done
              [] OTHER -> Append(done, part)
           IsKept(f) == f = [n \in 0 .. Len(p) |-> IF n = 0 THEN <<>> ELSE Walk(f[n - 1], p[n])]
           kept == CHOOSE f : IsKept(f)
           clean == kept[Len(p)]
<1>1. /\ \A d : Walk(d, ".") = d
      /\ Walk(<<>>, "in") = <<"in">>
  <2>1. \A d : Walk(d, ".") = d
    OBVIOUS
  <2>2. Walk(<<>>, "in") = Append(<<>>, "in")
    OBVIOUS
  <2> QED BY <2>1, <2>2
<1>2. Len(p) = 2 /\ p[1] = "." /\ p[2] = "in" /\ 0 .. Len(p) = {0, 1, 2}
  OBVIOUS
<1>3. \E f : IsKept(f)
  <2> DEFINE g == [n \in 0 .. Len(p) |-> IF n = 2 THEN <<"in">> ELSE <<>>]
  <2>1. \A n \in 0 .. Len(p) : g[n] = IF n = 0 THEN <<>> ELSE Walk(g[n - 1], p[n])
    <3>1. g[0] = <<>> /\ g[1] = <<>> /\ g[2] = <<"in">>
      BY <1>2
    <3> HIDE DEF g, Walk, p
    <3>2. g[1] = Walk(g[0], p[1])
      BY <1>1, <1>2, <3>1
    <3>3. g[2] = Walk(g[1], p[2])
      BY <1>1, <1>2, <3>1
    <3> QED BY <1>2, <3>1, <3>2, <3>3
  <2>2. g = [n \in 0 .. Len(p) |-> g[n]]
    OBVIOUS
  <2> HIDE DEF g, Walk, p
  <2>3. IsKept(g)
    BY <2>1, <2>2
  <2> QED BY <2>3
<1>4. clean = <<"in">>
  <2>1. IsKept(kept)
    BY <1>3
  <2> HIDE DEF kept, Walk, p
  <2>2. kept[0] = <<>> /\ kept[1] = Walk(kept[0], p[1]) /\ kept[2] = Walk(kept[1], p[2])
    BY <1>2, <2>1
  <2> QED BY <1>1, <1>2, <2>2
<1>5. Clean(p) = <<"in">>
  <2>1. Clean(p) = CASE clean = <<>> -> IF Absolute(p) THEN Root ELSE Here
                     [] clean # <<>> -> IF Absolute(p) THEN <<"">> \o clean ELSE clean
    BY DEF Clean
  <2>2. ~Absolute(p)
    BY <1>2 DEF Absolute
  <2>3. <<"in">> # <<>>
    OBVIOUS
  <2> HIDE DEF clean, p
  <2> QED BY <1>4, <2>1, <2>2, <2>3
<1>6. JoinPath(Here, <<"in">>) = <<"in">>
  <2>1. Here # <<"">> /\ <<"in">> # <<"">>
    <3>1. "." # "" /\ "in" # ""
      BY Zenon
    <3>2. \A x, y : <<x>> = <<y>> => x = y
      OBVIOUS
    <3> HIDE DEF p
    <3> QED BY <3>1, <3>2, Zenon DEF Here
  <2>2. Here \o <<"in">> = p
    BY PairIs DEF Here
  <2> HIDE DEF p
  <2> QED BY <1>5, <2>1, <2>2, Zenon DEF JoinPath
<1>7. ~IsPrefix(Here, <<"in">>)
  BY DEF Here, IsPrefix
<1> QED BY <1>6, <1>7 DEF FullPath

(* The judge's own directory is never the base of a judge that goes on. *)
LEMMA OwnStep == OwnDirectoryEnds /\ [Next]_vars => OwnDirectoryEnds'
<1> SUFFICES ASSUME OwnDirectoryEnds, [Next]_vars, Here \in reowned' PROVE pc' = "fatal"
  BY DEF OwnDirectoryEnds
<1>1. CASE PrepareProbe
  <2>1. PICK tmpdir \in TempDirs, fixed \in {"no", "owner", "mode"} :
        /\ reowned' = reowned \cup (IF fixed = "no" THEN {} ELSE {NewBase(tmpdir)})
        /\ pc' \in IF fixed = "mode" /\ FullPath(NewBase(tmpdir), <<"in">>) # Refused
                   THEN {"start", "fatal"}
                   ELSE {"fatal"}
    BY <1>1 DEF PrepareProbe
  <2>2. Here \notin reowned
    BY <1>1 DEF PrepareProbe, OwnDirectoryEnds
  <2>3. NewBase(tmpdir) = Here
    BY <2>1, <2>2
  <2> QED BY <2>1, <2>3, NothingInHere
<1>2. CASE ~PrepareProbe
  <2>1. reowned' = reowned
    BY <1>2 DEF Next, Step, vars, bootVars, Booted, CompileCall, NewSandbox, RunCall, Running, RunReturns, RunFails, Probed, SimpleDone, JavacDone, Visit, JavapDone, JavaDone, Over
  <2>2. pc = "fatal"
    BY <2>1 DEF OwnDirectoryEnds
  <2>3. UNCHANGED vars
    BY <1>2, <2>2 DEF Next, Step, Booted, CompileCall, NewSandbox, RunCall, Running, RunReturns, RunFails, Probed, SimpleDone, JavacDone, Visit, JavapDone, JavaDone, Over
  <2> QED BY <2>2, <2>3 DEF vars
<1> QED BY <1>1, <1>2

(* Between calls nothing runs, and a sandbox that was not finished is one of *)
(* a javaCompile that gave no program (compilers.go 126-136, 172); a judge   *)
(* that has changed its own directory, for want of a temporary one, ends     *)
(* (language.go 208-216). *)
THEOREM OnlyJavaLeaves == Spec => []Inv
<1>1. IInv => TypeOK
  BY DEF IInv, Types
<1>2. IInv => LeftByJava
  BY DEF IInv, Types, Left, LeftByJava, Using
<1>3. Init => OwnDirectoryEnds
  BY DEF Init, OwnDirectoryEnds
<1> QED BY <1>1, <1>2, <1>3, OwnStep, Invariance, PTL DEF Spec, Inv
=============================================================================

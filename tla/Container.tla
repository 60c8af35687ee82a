------------------------------ MODULE Container ------------------------------
(* What a sandbox sees of the file system: the directories that the judge   *)
(* asks for (newSandbox, mountArgs, setLanguageSandbox and the callers), the *)
(* mounts the sandbox makes of them one by one (setup_mounts, make_mount),  *)
(* and what is left of its container when it ends, or when the judge dies.   *)
EXTENDS Paths, FiniteSets

CONSTANTS
    Plans,      \* [root, program, validator, grader, interactive]: root is the evaluation's, then program roots
    Sources,    \* output directories of compilations
    Fs,         \* the directories of /var/lib/omogen/fs: a function from tags to sequences of [name, link], the target or <<>>
    HostDirs,   \* the directories of the host that matter
    MaxStarts,  \* bound: sandboxes started
    MaxKept     \* bound: directories that a clean-up fails to remove

(* A directory is in one, up to the root. *)
ASSUME ContainerAssumption ==
    /\ MaxStarts \in Nat /\ MaxKept \in Nat
    /\ Plans \subseteq [root : Seq(STRING), program : Seq(STRING), validator : Seq(STRING),
                        grader : Seq(STRING), interactive : BOOLEAN]
    /\ Sources \subseteq Seq(STRING)
    /\ DOMAIN Fs \subseteq STRING /\ \A tag \in DOMAIN Fs : Fs[tag] \in Seq([name : STRING, link : Seq(STRING)])
    /\ HostDirs \subseteq Seq(STRING)
    /\ \A h \in HostDirs : Absolute(h) /\ \A n \in 2 .. Len(h) : SubSeq(h, 1, n) \in HostDirs

VARIABLES
    pc,         \* "off", "boot", "running" or "panic"
    args,       \* the sandboxArgs
    private,    \* whether the mounts are the sandbox's own
    todo,       \* the mounts still to be made
    mounts,     \* those made, in order
    dirs,       \* the directories in the container directory
    host,       \* the directories of the host
    starts

vars == <<pc, args, private, todo, mounts, dirs, host, starts>>

-----------------------------------------------------------------------------
(* The judge. *)

FsPath == <<"", "var", "lib", "omogen", "fs">>

(* makeMounts: a link is followed within the language's own root, also when  *)
(* its target is absolute.                                                   *)
FsMount(lang, entry) ==
    [out |-> IF entry.link = <<>> THEN Append(lang, entry.name) ELSE Clean(JoinPath(lang, entry.link)),
     in |-> <<"", entry.name>>]
LanguageMounts(tag) == [i \in 1 .. Len(Fs[tag]) |-> FsMount(Append(FsPath, tag), Fs[tag][i])]

(* A path without a colon is seen where it is. *)
Same(p) == [out |-> p, in |-> p]
SameAll(s) == [i \in 1 .. Len(s) |-> Same(s[i])]

(* setLanguageSandbox *)
WithLanguage(a, tag) ==
    IF tag \in DOMAIN Fs
    THEN [a EXCEPT !.skip = TRUE, !.reads = @ \o LanguageMounts(tag)]
    ELSE a

Env(plan, env, base) == plan.root \o <<env, base>>

ProgramArgs(plan, tag) ==
    WithLanguage([work |-> plan.program, input |-> Env(plan, "env", "read"),
                  output |-> Env(plan, "env", "write"), error |-> Env(plan, "env", "write"),
                  reads |-> <<Same(plan.program)>>, writes |-> <<>>, skip |-> FALSE], tag)

ValidatorArgs(plan) ==
    [work |-> plan.validator,
     input |-> IF plan.interactive THEN Env(plan, "env", "write") ELSE Env(plan, "valenv", "read"),
     output |-> IF plan.interactive THEN Env(plan, "env", "read") ELSE Env(plan, "valenv", "write"),
     error |-> Env(plan, "valenv", "write"),
     reads |-> <<Same(Env(plan, "valenv", "read")), Same(plan.validator)>>,
     writes |-> <<Same(Env(plan, "valenv", "write"))>>, skip |-> FALSE]

GraderArgs(plan) ==
    [work |-> plan.grader, input |-> Env(plan, "graderenv", "read"),
     output |-> Env(plan, "graderenv", "write"), error |-> Env(plan, "graderenv", "write"),
     reads |-> <<Same(Env(plan, "graderenv", "read")), Same(plan.grader)>>,
     writes |-> <<Same(Env(plan, "graderenv", "write"))>>, skip |-> FALSE]

(* sandboxForCompile, and runCommandInSandbox, whose working directory is / *)
CompileArgs(source, tag) ==
    WithLanguage([work |-> source, input |-> source, output |-> source, error |-> source,
                  reads |-> <<>>, writes |-> <<Same(source)>>, skip |-> FALSE], tag)
ProbeArgs(tmp, tag) == [CompileArgs(tmp, tag) EXCEPT !.work = Root, !.writes = <<>>]

AllArgs ==
    (UNION {{ValidatorArgs(plan), GraderArgs(plan)} : plan \in Plans})
    \cup {ProgramArgs(plan, tag) : plan \in Plans, tag \in DOMAIN Fs}
    \cup (UNION {{CompileArgs(s, tag), ProbeArgs(s, tag)} : s \in Sources, tag \in DOMAIN Fs})

(* newSandbox: the directories of the streams, here input, output and error. *)
Reads(a) == Append(a.reads, Same(a.input))
Writes(a) == a.writes \o SameAll(<<a.output, a.error>>)

(* mountArgs: each path once, "Writable first, in case a path exists in both" *)
Once(paths, seen) ==
    LET kept[n \in 0 .. Len(paths)] ==
            IF n = 0 THEN <<>>
            ELSE IF paths[n] \in seen \cup ToSet(kept[n - 1]) THEN kept[n - 1]
            ELSE Append(kept[n - 1], paths[n])
    IN  kept[Len(paths)]

(* Readable first. *)
WritableLast(a) == Once(Writes(a), ToSet(Reads(a)))

Writable(a) == Once(Writes(a), {})
Readable(a) == Once(Reads(a), ToSet(Writes(a)))
-----------------------------------------------------------------------------
(* The sandbox. *)

DefaultDirs == <<<<"", "bin">>, <<"", "usr", "bin">>, <<"", "usr", "lib">>, <<"", "lib">>>>
OptionalDirs == <<<<"", "usr", "lib32">>, <<"", "lib64">>, <<"", "lib32">>>>

MountOf(m, writable) == [out |-> m.out, in |-> m.in, writable |-> writable]
MountsOf(s, writable) == [i \in 1 .. Len(s) |-> MountOf(s[i], writable)]
ProcMount == [out |-> <<"proc">>, in |-> <<"", "proc">>, writable |-> FALSE]

(* exists and is_dir *)
There(p) == IF p \in host THEN <<MountOf(Same(p), FALSE)>> ELSE <<>>

(* setup_mounts *)
Planned(a) ==
    <<ProcMount>>
    \o (IF a.skip THEN <<>> ELSE MountsOf(SameAll(DefaultDirs), FALSE))
    \o MountsOf(Readable(a), FALSE)
    \o MountsOf(Writable(a), TRUE)
    \o (IF a.skip THEN <<>>
        ELSE There(OptionalDirs[1]) \o There(OptionalDirs[2]) \o There(OptionalDirs[3]))

(* The path that is seen at p: below the last mount that p lies in, or in   *)
(* the container directory itself.                                           *)
Rest(p, q) == SubSeq(p, Len(q) + 1, Len(p))
Covers(p) == {i \in DOMAIN mounts : IsPrefix(mounts[i].in, p)}
Covering(p) == mounts[CHOOSE i \in Covers(p) : \A j \in Covers(p) : j <= i]
Seen(p) == Covering(p).out \o Rest(p, Covering(p).in)

Exists(p) == IF Covers(p) = {} THEN p \in dirs ELSE Seen(p) \in host
CanWrite(p) == Covers(p) # {} /\ Covering(p).writable

Parents(p) == {SubSeq(p, 1, n) : n \in 2 .. Len(p)}
Missing(p) == {q \in Parents(p) : ~Exists(q)}

Init ==
    /\ pc = "off" /\ args \in AllArgs /\ private = FALSE
    /\ todo = <<>> /\ mounts = <<>> /\ dirs = {} /\ host = HostDirs /\ starts = 0

(* CLONE_NEWNS copies the mounts, which still propagate to the host. *)
Start ==
    /\ pc = "off"
    /\ starts < MaxStarts
    /\ starts' = starts + 1
    /\ args' \in AllArgs
    /\ pc' = "boot" /\ private' = FALSE /\ todo' = <<>> /\ mounts' = <<>>
    /\ UNCHANGED <<dirs, host>>

(* privatize_mounts is missing. *)
PrivatizeNot ==
    /\ pc = "boot"
    /\ todo = <<>> /\ mounts = <<>>
    /\ todo' = Planned(args)
    /\ UNCHANGED <<pc, args, private, mounts, dirs, host, starts>>

Privatize ==
    /\ pc = "boot"
    /\ todo = <<>> /\ mounts = <<>>
    /\ private' = TRUE
    /\ todo' = Planned(args)
    /\ UNCHANGED <<pc, args, mounts, dirs, host, starts>>

(* A mount point that is there already is an error. *)
MountableNew(m) ==
    /\ Absolute(m.in)
    /\ ~Exists(m.in)
    /\ \A q \in Missing(m.in) : Covers(q) = {} \/ CanWrite(q)
    /\ m = ProcMount \/ (Absolute(m.out) /\ m.out \in host)

(* make_mount, up to mount: create_dir_all, in which a directory is made on *)
(* the host when it lies in a mount, and mount.                             *)
Mountable(m) ==
    /\ Absolute(m.in)
    /\ \A q \in Missing(m.in) : Covers(q) = {} \/ CanWrite(q)
    /\ m = ProcMount \/ (Absolute(m.out) /\ m.out \in host)

(* Without the remount ReadOnly has no effect. *)
BoundOnly(m) == [m EXCEPT !.writable = TRUE]

(* The bind mount, and the remount that makes it read-only. *)
Bound(m) == m

Mount ==
    /\ pc = "boot"
    /\ todo # <<>>
    /\ Mountable(Head(todo))
    /\ dirs' = dirs \cup {q \in Missing(Head(todo).in) : Covers(q) = {}}
    /\ host' = host \cup {Seen(q) : q \in {r \in Missing(Head(todo).in) : Covers(r) # {}}}
    /\ mounts' = Append(mounts, Bound(Head(todo)))
    /\ todo' = Tail(todo)
    /\ pc' = IF todo' = <<>> THEN "running" ELSE "boot"
    /\ UNCHANGED <<args, private, starts>>

(* An unwrap of setup_mounts. *)
Panic ==
    /\ pc = "boot"
    /\ todo # <<>>
    /\ ~Mountable(Head(todo))
    /\ pc' = "panic"
    /\ UNCHANGED <<args, private, todo, mounts, dirs, host, starts>>

(* remove_dir_all, in the monitor and so among the host's mounts: it goes   *)
(* down into mounts that have propagated.                                    *)
Below(m) == {h \in host : IsPrefix(m.out, h) /\ m.writable}
Removed == IF private THEN {} ELSE UNION {Below(m) : m \in ToSet(mounts)}

(* The sandbox has ended by itself or panicked; the monitor cleans up, and  *)
(* panics where that fails: what it cannot remove stays, as all above does. *)
End ==
    /\ pc \in {"running", "panic"}
    /\ pc' = "off"
    /\ \E kept \in [1 .. MaxKept -> dirs \cup {Root}] :
        dirs' = {d \in dirs : \E i \in 1 .. MaxKept : IsPrefix(d, kept[i])}
    /\ host' = host \ Removed
    /\ todo' = <<>> /\ mounts' = <<>>
    /\ UNCHANGED <<args, private, starts>>

(* The judge dies: monitor and sandbox are killed, the directories stay. *)
Killed ==
    /\ pc # "off"
    /\ pc' = "off"
    /\ todo' = <<>> /\ mounts' = <<>>
    /\ UNCHANGED <<args, private, dirs, host, starts>>

Next == Start \/ Privatize \/ Mount \/ Panic \/ End \/ Killed

Spec == Init /\ [][Next]_vars

-----------------------------------------------------------------------------
(* The variables have their types: in particular what the sandbox makes and *)
(* leaves in its own directory are mount points and their parents.          *)
TypeOK ==
    /\ pc \in {"off", "boot", "running", "panic"}
    /\ args \in AllArgs
    /\ \A d \in dirs : Absolute(d)
    /\ pc = "off" => mounts = <<>> /\ todo = <<>>

(* Every place inside at which something of the host is seen. *)
Places == UNION {{m.in \o Rest(h, m.out) : h \in {g \in host : IsPrefix(m.out, g)}} : m \in ToSet(mounts)}
Points == {p \in Places : Exists(p)}

Own(a) == {a.input, a.output, a.error} \cup {m.out : m \in {n \in ToSet(a.reads \o a.writes) : n.in = n.out}}
Relative(a) == \E p \in Own(a) : ~Absolute(p)
Hidden(a) == \E p \in Own(a), m \in ToSet(a.reads) : m.in # m.out /\ IsPrefix(m.in, p)

(* What the judge relies on: the directories that it names, those of a      *)
(* language's root and the default ones exist, and none is the one of       *)
(* /proc; the optional ones and its own are apart; and it does not put a     *)
(* program into a directory that the program writes.                        *)
AskedExist ==
    /\ ToSet(DefaultDirs) \subseteq HostDirs
    /\ \A tag \in DOMAIN Fs : \A i \in 1 .. Len(Fs[tag]) :
        LanguageMounts(tag)[i].out \in HostDirs /\ Fs[tag][i].name # "proc"
    /\ \A a \in AllArgs : \A p \in Own(a) :
        Absolute(p) => p \in HostDirs /\ ~IsPrefix(ProcMount.in, p)
OptionalApart ==
    \A a \in AllArgs : \A p \in Own(a), q \in ToSet(OptionalDirs) : ~IsPrefix(q, p) /\ ~IsPrefix(p, q)
ProgramsApart == \A plan \in Plans : ~IsPrefix(Env(plan, "env", "write"), plan.program)

(* A command can write below the directories given as writable, and nowhere *)
(* else: no mount made later hides one, none of a read-only directory or of *)
(* a language's makes one of them read-only, or gives a second way to write *)
(* (sandbox.go 192-217, sandbox.rs 55-78, chroot.rs 49-60).  In particular  *)
(* a program cannot change its own files, nor its input: not even when the  *)
(* program's root holds the evaluation's directories.                       *)
WritableExactly ==
    pc = "running" =>
        /\ {Seen(p) : p \in {q \in Points : CanWrite(q)}}
            = {h \in host : \E w \in ToSet(Writes(args)) : IsPrefix(w.out, h)}
        /\ \A plan \in Plans, tag \in DOMAIN Fs :
            args = ProgramArgs(plan, tag) => ~CanWrite(plan.program) /\ ~CanWrite(Env(plan, "env", "read"))

(* The working directory and the directories of the streams are seen under  *)
(* the names that the judge uses for them, those of the output and of the   *)
(* errors writable, whatever was mounted before or after, unless they lie   *)
(* in a directory that the language's root has too.                         *)
StreamsReachable ==
    pc = "running" /\ ~Hidden(args) =>
        /\ \A p \in {args.work, args.input} \ {Root} : Covers(p) # {} /\ Seen(p) = p
        /\ \A p \in {args.output, args.error} : Covers(p) # {} /\ Seen(p) = p /\ CanWrite(p)

(* The mounts succeed, also when a judge died before and the directories of *)
(* its container are still there (main.rs 152-156), unless a path is not    *)
(* absolute or lies in a directory of the language's root.                  *)
PanicsExplained == pc = "panic" => Relative(args) \/ Hidden(args)

(* A sandbox boots, with only its own directories made, unless its command  *)
(* line forbids it.                                                         *)
Inv == TypeOK /\ PanicsExplained

(* A sandbox never adds a directory to the host, and its clean-up takes     *)
(* none away, although it removes a tree in which the host's directories    *)
(* were mounted (main.rs 154, sandbox.rs 42).                               *)
HostKept == [][host' = host]_vars
=============================================================================

------------------------------ MODULE FileBase ------------------------------
(* The operations of a FileBase (util/files.go) and of the file linker made  *)
(* of two (eval/filelinker.go), on a tree of directories with hard links.    *)
(* Each operation is a sequence of system calls of which any may fail.       *)
EXTENDS Paths, FiniteSets

CONSTANTS
    Tree,       \* what is there at first: a sequence of [path, kind]
    Base,       \* the path of a FileBase
    LinkerDir,  \* the directory given to newFileLinker
    Subs,       \* sub-paths given to the operations
    Outside,    \* paths of files to copy and to link
    SourceDir,  \* a directory to copy...
    Source,     \* ...and what it holds, in the order of its walk: [sub, kind]
    MaxOps,     \* bound: operations
    MaxCalls    \* the system calls after which one may fail, at most

Kinds == {"dir", "file"}

VARIABLES
    names,      \* the directory entries: from paths to nodes
    nodes,      \* the nodes: [kind, gid, mode, data], by number
    linker,     \* "none", or "made" when newFileLinker has returned one
    ops,        \* operations so far
    last        \* the last one: [op, base, path, ok]

vars == <<names, nodes, linker, ops, last>>

Group == "omogenexec-users"
Bare(p) == [path |-> NewBase(p), gid |-> "judge", groupWritable |-> FALSE]
OwnBase == [Bare(Base) EXCEPT !.gid = Group, !.groupWritable = TRUE]

SubBase(fb, sub) == [fb EXCEPT !.path = FullPath(fb.path, sub)]

(* The three bases of newFileLinker; GroupWritable is set on a copy. *)
LinkerBase == [Bare(LinkerDir) EXCEPT !.gid = Group]
ReadBase == SubBase(LinkerBase, <<"read">>)
WriteBaseUnset == SubBase(LinkerBase, <<"write">>)
WriteBase == [SubBase(LinkerBase, <<"write">>) EXCEPT !.groupWritable = TRUE]

(* The file system is a tree at first.  A base is not below the linker's     *)
(* directory, nor that below the base: "env" and "case-..." of the           *)
(* evaluator's root (eval.go 72 and 532).                                    *)
ASSUME FileBaseAssumption ==
    /\ MaxOps \in Nat /\ MaxCalls \in Nat
    /\ Tree \in Seq([path : Seq(STRING), kind : Kinds])
    /\ \A i, j \in DOMAIN Tree : Tree[i].path = Tree[j].path => i = j
    /\ \A i \in DOMAIN Tree : Len(Tree[i].path) > 1 =>
        \E j \in DOMAIN Tree : Tree[j] = [path |-> Front(Tree[i].path), kind |-> "dir"]
    /\ Base \in Seq(STRING) /\ LinkerDir \in Seq(STRING) /\ Subs \subseteq Seq(STRING)
    /\ Source \in Seq([sub : Seq(STRING), kind : Kinds])
    /\ ~IsPrefix(OwnBase.path, LinkerBase.path) /\ ~IsPrefix(LinkerBase.path, OwnBase.path)

-----------------------------------------------------------------------------
(* System calls, on fs = [names, nodes, err, left]: after left calls one    *)
(* fails, and after an error nothing more is done.                          *)
Below(p, fs) == {q \in DOMAIN fs.names : p # Refused /\ IsStrictPrefix(p, q)}
Node(fs, p) == fs.nodes[fs.names[p]]
IsKind(fs, p, kind) == p \in DOMAIN fs.names /\ Node(fs, p).kind = kind
Parent(p) == Front(p)

Do(fs, can, after) ==
    CASE fs.err -> fs
      [] ~fs.err /\ (~can \/ fs.left = 0) -> [fs EXCEPT !.err = TRUE]
      [] OTHER -> [after EXCEPT !.left = fs.left - 1]

With(f, x, y) == [z \in DOMAIN f \cup {x} |-> IF z = x THEN y ELSE f[z]]
Enter(fs, p, node) ==
    LET n == Cardinality(DOMAIN fs.nodes) + 1
    IN  [fs EXCEPT !.names = With(@, p, n), !.nodes = With(@, n, node)]

(* An open that creates or empties the file, or a write. *)
Put(fs, p, data) ==
    LET can == IsKind(fs, Parent(p), "dir") /\ ~IsKind(fs, p, "dir")
    IN  Do(fs, can,
           IF p \in DOMAIN fs.names THEN [fs EXCEPT !.nodes[fs.names[p]].data = data]
           ELSE Enter(fs, p, [kind |-> "file", gid |-> "judge", mode |-> "created", data |-> data]))

Set(fs, p, field, value) ==
    Do(fs, p \in DOMAIN fs.names, [fs EXCEPT !.nodes[fs.names[p]][field] = value])

(* MkdirAll *)
MakeDir(fs, p) ==
    IF IsKind(fs, p, "dir") THEN fs
    ELSE Do(fs, p \notin DOMAIN fs.names /\ IsKind(fs, Parent(p), "dir"),
            Enter(fs, p, [kind |-> "dir", gid |-> "judge", mode |-> "created", data |-> "nothing"]))
MakeDirs(fs, p) ==
    LET made[n \in 0 .. Len(p)] == IF n = 0 THEN fs ELSE MakeDir(made[n - 1], SubSeq(p, 1, n))
    IN  made[Len(p)]

Hardlink(fs, from, to) ==
    Do(fs, IsKind(fs, from, "file") /\ IsKind(fs, Parent(to), "dir") /\ to \notin DOMAIN fs.names,
       [fs EXCEPT !.names = With(@, to, fs.names[from])])

Without(fs, paths) == [fs EXCEPT !.names = [q \in DOMAIN @ \ paths |-> @[q]]]

-----------------------------------------------------------------------------
(* The operations of files.go; an invalid path is an error at once.          *)
Checked(fs, p) == IF p = Refused THEN [fs EXCEPT !.err = TRUE] ELSE fs

FixOwners(fs, fb, p) == Set(fs, p, "gid", fb.gid)
ModeExec(fb) == IF fb.groupWritable THEN "770" ELSE "750"
ModeFile(fb) == IF fb.groupWritable THEN "660" ELSE "640"
FixModeExec(fs, fb, p) == Set(fs, p, "mode", ModeExec(fb))
FixMode(fs, fb, p) == Set(fs, p, "mode", ModeFile(fb))

(* The error that says the path exists (files.go 198) is one that MkdirAll   *)
(* has only where a symbolic link or another process is in the way.          *)
MkdirOp(fs, fb, p) == FixModeExec(FixOwners(MakeDirs(Checked(fs, p), p), fb, p), fb, p)
WriteFileOp(fs, fb, p, data) == FixMode(FixOwners(Put(Put(Checked(fs, p), p, "nothing"), p, data), fb, p), fb, p)

(* The modes of a copy are left as they are. *)
CopyOpBare(fs, fb, from, p) ==
    LET made == Put(Checked(fs, p), p, "nothing")
    IN  FixOwners(Put(Do(made, IsKind(made, from, "file"), made), p, "copied"), fb, p)

(* The destination is emptied before the source is opened. *)
CopyOp(fs, fb, from, p) ==
    LET made == Put(Checked(fs, p), p, "nothing")
        copied == Put(Do(made, IsKind(made, from, "file"), made), p, Node(made, from).data)
    IN  FixMode(FixOwners(copied, fb, p), fb, p)

LinkIntoOp(fs, from, p) == Hardlink(Checked(fs, p), from, p)

RemoveOp(fs, p) ==
    LET f == Checked(fs, p)
    IN  Do(f, p \in DOMAIN f.names /\ Below(p, f) = {}, Without(f, {p}))

(* What may stay when the entries of directory p are given to os.RemoveAll   *)
(* one by one: it removes all it can, but not what is above an entry that   *)
(* stays, and after the first child that was not removed no other is tried. *)
Stays(fs, p) ==
    {kept \in SUBSET Below(p, fs) :
        /\ \A q \in kept : Parent(q) = p \/ Parent(q) \in kept
        /\ Cardinality({q \in kept : Parent(q) = p /\ ~(Below(q, fs) \subseteq kept)}) <= 1}

RemoveContentsOp(fs, p, kept) ==
    LET f == Do(Checked(fs, p), IsKind(fs, p, "dir"), fs)
    IN  IF f.err THEN f ELSE [Without(f, Below(p, f) \ kept) EXCEPT !.err = Below(p, f) \cap kept # {}]

(* The walk is that of the recursion: a directory comes before what it holds. *)
CopyEntry(fs, fb, entry) ==
    LET p == FullPath(fb.path, entry.sub)
        from == SourceDir \o entry.sub
        made == MkdirOp(fs, fb, p)
    IN  IF entry.kind = "dir" THEN Do(made, IsKind(made, from, "dir"), made) ELSE CopyOp(fs, fb, from, p)
CopyIntoOp(fs, fb) ==
    LET copied[n \in 0 .. Len(Source)] ==
            IF n = 0 THEN Do(fs, IsKind(fs, SourceDir, "dir"), fs) ELSE CopyEntry(copied[n - 1], fb, Source[n])
    IN  copied[Len(Source)]

-----------------------------------------------------------------------------
Init ==
    /\ names = [p \in {Tree[i].path : i \in DOMAIN Tree} |-> CHOOSE i \in DOMAIN Tree : Tree[i].path = p]
    /\ nodes = [i \in DOMAIN Tree |-> [kind |-> Tree[i].kind, gid |-> "other", mode |-> "other", data |-> "old"]]
    /\ linker = "none" /\ ops = 0
    /\ last = [op |-> "none", ok |-> FALSE]

Now == [names |-> names, nodes |-> nodes]

(* An operation is done, with the file system fs; of its system calls, the   *)
(* one after n others has failed.                                           *)
At(n) == [names |-> names, nodes |-> nodes, err |-> FALSE, left |-> n]
Done(op, fb, p, from, fs) ==
    /\ ops' = ops + 1
    /\ names' = fs.names /\ nodes' = fs.nodes
    /\ last' = [op |-> op, fb |-> fb, path |-> p, from |-> from, ok |-> ~fs.err]

Calls == 0 .. MaxCalls
Own(sub) == FullPath(OwnBase.path, sub)

Mkdir == \E n \in Calls, sub \in Subs :
    /\ Done("mkdir", OwnBase, Own(sub), <<>>, MkdirOp(At(n), OwnBase, Own(sub)))
    /\ UNCHANGED linker
WriteFile == \E n \in Calls, sub \in Subs :
    /\ Done("write", OwnBase, Own(sub), <<>>, WriteFileOp(At(n), OwnBase, Own(sub), "new"))
    /\ UNCHANGED linker
Copy == \E n \in Calls, sub \in Subs, from \in Outside :
    /\ Done("copy", OwnBase, Own(sub), from, CopyOp(At(n), OwnBase, from, Own(sub)))
    /\ UNCHANGED linker
LinkInto == \E n \in Calls, sub \in Subs, from \in Outside :
    /\ Done("link", OwnBase, Own(sub), from, LinkIntoOp(At(n), from, Own(sub)))
    /\ UNCHANGED linker
RemoveFile == \E n \in Calls, sub \in Subs :
    /\ Done("remove", OwnBase, Own(sub), <<>>, RemoveOp(At(n), Own(sub)))
    /\ UNCHANGED linker
RemoveContents == \E sub \in Subs : \E kept \in Stays(Now, Own(sub)), n \in Calls :
    /\ Done("empty", OwnBase, Own(sub), <<>>, RemoveContentsOp(At(n), Own(sub), kept))
    /\ UNCHANGED linker
CopyInto == \E n \in Calls :
    /\ Done("into", OwnBase, OwnBase.path, SourceDir, CopyIntoOp(At(n), OwnBase))
    /\ UNCHANGED linker

(* newFileLinker *)
NewFileLinkerOp(fs) ==
    MkdirOp(MkdirOp(MkdirOp(fs, LinkerBase, LinkerBase.path), WriteBase, WriteBase.path), ReadBase, ReadBase.path)
NewFileLinker == \E n \in Calls :
    /\ linker = "none"
    /\ Done("linker", LinkerBase, LinkerBase.path, <<>>, NewFileLinkerOp(At(n)))
    /\ linker' = IF last'.ok THEN "made" ELSE "none"

LinkFile == \E n \in Calls, from \in Outside, fb \in {ReadBase, WriteBase} :
    /\ linker = "made"
    /\ Done("link", fb, FullPath(fb.path, <<"f">>), from, LinkIntoOp(At(n), from, FullPath(fb.path, <<"f">>)))
    /\ UNCHANGED linker

(* An error in one base does not keep the other from being emptied. *)
ClearOp(fs, inRead, inWrite) ==
    LET r == RemoveContentsOp(fs, ReadBase.path, inRead)
        w == RemoveContentsOp([r EXCEPT !.err = FALSE, !.left = IF r.err THEN MaxCalls ELSE @], WriteBase.path, inWrite)
    IN  [w EXCEPT !.err = r.err \/ w.err]
Clear ==
    /\ linker = "made"
    /\ \E inRead \in Stays(Now, ReadBase.path), inWrite \in Stays(Now, WriteBase.path), n \in Calls :
        Done("clear", ReadBase, ReadBase.path, <<>>, ClearOp(At(n), inRead, inWrite))
    /\ UNCHANGED linker

Next ==
    /\ ops < MaxOps
    /\ \/ Mkdir \/ WriteFile \/ Copy \/ LinkInto \/ RemoveFile \/ RemoveContents \/ CopyInto
       \/ NewFileLinker \/ LinkFile \/ Clear

Spec == Init /\ [][Next]_vars

-----------------------------------------------------------------------------
(* The entries form a tree of directories, every one has its node, and a     *)
(* directory has one name.                                                   *)
TypeOK ==
    /\ DOMAIN nodes = 1 .. Cardinality(DOMAIN nodes)
    /\ \A p \in DOMAIN names :
        /\ names[p] \in DOMAIN nodes
        /\ Len(p) > 1 => IsKind(Now, Parent(p), "dir")
        /\ \A q \in DOMAIN names : names[q] = names[p] /\ Node(Now, p).kind = "dir" => q = p
    /\ linker \in {"none", "made"} /\ ops \in 0 .. MaxOps

Fixed(fb, p, kind) ==
    /\ IsKind(Now, p, kind)
    /\ Node(Now, p).gid = fb.gid
    /\ Node(Now, p).mode = IF kind = "dir" THEN ModeExec(fb) ELSE ModeFile(fb)

(* What CopyInto makes of entry i of its source, and what it copies.  A file *)
(* is apart when no other file of the copy is the same by a hard link: what  *)
(* is written over one is then not seen in the other.                        *)
Target(i) == FullPath(OwnBase.path, Source[i].sub)
Original(i) == SourceDir \o Source[i].sub
Apart(i) == \A j \in DOMAIN Source :
    names[Target(j)] # names[Original(i)] /\ (j # i => names[Target(j)] # names[Target(i)])

AllIsDone ==
    CASE last'.op = "mkdir" -> Fixed(last.fb, last.path, "dir")'
      [] last'.op = "write" -> Fixed(last.fb, last.path, "file")' /\ Node(Now, last.path)'.data = "new"
      [] last'.op = "copy" ->
            /\ Fixed(last.fb, last.path, "file")'
            /\ Node(Now, last.path)'.data =
                 IF names'[last'.path] = names'[last'.from] THEN "nothing" ELSE Node(Now, last'.from).data
      [] last'.op = "link" -> names'[last'.path] = names'[last'.from]
      [] last'.op = "remove" -> last'.path \notin DOMAIN names'
      [] last'.op = "empty" -> Below(last.path, Now)' = {}
      [] last'.op = "into" -> \A i \in DOMAIN Source :
            /\ Fixed(OwnBase, Target(i), Source[i].kind)'
            /\ Source[i].kind = "file" /\ Original(i) \in DOMAIN names /\ Apart(i)' =>
                 Node(Now, Target(i))'.data = Node(Now, Original(i)).data
      [] last'.op = "clear" -> (Below(ReadBase.path, Now) \cup Below(WriteBase.path, Now))' = {}
      [] OTHER -> TRUE

(* No error means that all of an operation is done, whichever system call    *)
(* may fail: what it made has the owner and the mode by which sandboxes      *)
(* reach it ("The group ID files should be owned by", files.go 19), and a    *)
(* copy holds what its source held before.  The exception is a copy onto a   *)
(* hard link of its own source: os.Create empties the file before it is      *)
(* read (files.go 130-142), Copy returns nil, and both names are left with   *)
(* nothing in them, against "Copy copies the file" (files.go 124).           *)
OkMeansDone == [][last'.ok => AllIsDone]_vars

(* While there is a linker, the group of the sandboxes can write in its     *)
(* second directory and not in the first.                                   *)
LinkerReady ==
    linker = "made" =>
        /\ Fixed(ReadBase, ReadBase.path, "dir") /\ Node(Now, ReadBase.path).mode = "750"
        /\ Fixed(WriteBase, WriteBase.path, "dir") /\ Node(Now, WriteBase.path).mode = "770"

(* The tree of files, and a linker's two directories in it. *)
Inv == TypeOK /\ LinkerReady

Inside(p) == \E fb \in {OwnBase, LinkerBase} : IsPrefix(fb.path, p)
LinkedInside(n) == \E p \in DOMAIN names : names[p] = n /\ Inside(p)

(* "It makes sure that all operations are only performed within that        *)
(* directory" (files.go 15): outside, no entry is lost or replaced, none is *)
(* made but a parent of the base, and no file changes, save one that has    *)
(* been linked into the base; emptying a base removes only the link.        *)
OutsideKept ==
    [][/\ \A p \in DOMAIN names : ~Inside(p) =>
            /\ p \in DOMAIN names' /\ names'[p] = names[p]
            /\ nodes'[names[p]] = nodes[names[p]] \/ LinkedInside(names[p])
       /\ \A p \in DOMAIN names' \ DOMAIN names :
            ~Inside(p) => \E fb \in {OwnBase, LinkerBase} : IsStrictPrefix(p, fb.path)]_vars
=============================================================================

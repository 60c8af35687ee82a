----------------------------- MODULE MCContainer -----------------------------
(* A host for Container, and plans: one of each evaluation type, of which   *)
(* the interactive one has its program in the directory above its root, and  *)
(* one with a relative root.                                                 *)
EXTENDS Container, TLC

Judge == <<"", "var", "lib", "omogen", "j">>
Simple == [root |-> Append(Judge, "s"), program |-> Judge \o <<"p">>, validator |-> Judge \o <<"v">>,
           grader |-> Judge \o <<"g">>, interactive |-> FALSE]
Inter == [root |-> Append(Judge, "i"), program |-> Judge, validator |-> Judge \o <<"v">>,
          grader |-> Judge \o <<"v">>, interactive |-> TRUE]
Rel == [Simple EXCEPT !.root = <<"r">>]
MCPlans == {Simple, Inter, Rel}
MCSources == {Append(Judge, "p"), <<"", "tmp", "o">>}

(* Roots with a relative and with an absolute link, and one as large as a   *)
(* distribution's.                                                           *)
Entry(name, link) == [name |-> name, link |-> link]
MCFs == "cpp" :> <<Entry("bin", <<"usr", "bin">>), Entry("usr", <<>>)>>
        @@ "go" :> <<Entry("lib", <<"", "usr", "lib">>)>>
        @@ "full" :> <<Entry("tmp", <<>>), Entry("usr", <<>>), Entry("var", <<>>)>>

Ancestors(p) == {SubSeq(p, 1, n) : n \in 2 .. Len(p)}
Envs(plan) == {Env(plan, e, b) : e \in {"env", "valenv", "graderenv"}, b \in {"read", "write"}}
MCHostDirs ==
    UNION {Ancestors(p) : p \in
        ToSet(DefaultDirs) \cup {<<"", "lib64">>} \cup MCSources
        \cup (UNION {Envs(plan) \cup {plan.program, plan.validator, plan.grader} : plan \in {Simple, Inter}})
        \cup {FsPath \o <<"cpp", "usr", "bin">>, FsPath \o <<"full", "usr">>, FsPath \o <<"full", "var">>, FsPath \o <<"full", "tmp">>, FsPath \o <<"go", "usr", "lib">>}}

ASSUME AskedExist /\ OptionalApart /\ ProgramsApart
=============================================================================

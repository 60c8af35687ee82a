-------------------------------- MODULE Paths --------------------------------
(* Paths as Go's filepath sees them.  A path is the sequence of what its     *)
(* slashes separate, as strings.Split gives it: "/a/b" is <<"", "a", "b">>,  *)
(* "/" is <<"", "">>, and "" is <<"">>.                                      *)
EXTENDS SequencesExt, Integers

Absolute(p) == Len(p) > 1 /\ p[1] = ""
Root == <<"", "">>
Here == <<".">>

(* filepath.Clean *)
Clean(p) ==
    LET Walk(done, part) ==
            CASE part \in {"", "."} -> done
              [] part = ".." /\ done # <<>> /\ Last(done) # ".." -> Front(done)
              [] part = ".." /\ done = <<>> /\ Absolute(p) -> done
              [] OTHER -> Append(done, part)
        kept[n \in 0 .. Len(p)] == IF n = 0 THEN <<>> ELSE Walk(kept[n - 1], p[n])
        clean == kept[Len(p)]
    IN  CASE clean = <<>> -> IF Absolute(p) THEN Root ELSE Here
          [] clean # <<>> -> IF Absolute(p) THEN <<"">> \o clean ELSE clean

(* filepath.Join, of two *)
JoinPath(p, q) ==
    CASE p = <<"">> /\ q = <<"">> -> <<"">>
      [] p = <<"">> /\ q # <<"">> -> Clean(q)
      [] p # <<"">> /\ q = <<"">> -> Clean(p)
      [] OTHER -> Clean(p \o q)

(* filepath.Dir *)
Dir(p) == Clean(Append(Front(p), ""))

-----------------------------------------------------------------------------
(* FullPath of a FileBase, with the path above the base that is refused.     *)
Refused == <<>>

(* Only the number of components is compared. *)
FullPathCount(base, sub) ==
    LET full == JoinPath(base, sub) IN IF Len(base) <= Len(full) THEN full ELSE Refused

FullPath(base, sub) ==
    LET full == JoinPath(base, sub) IN IF IsPrefix(base, full) THEN full ELSE Refused

(* NewFileBase *)
NewBase(p) == Clean(p)
=============================================================================

--------------------------- MODULE ContainerProofs ---------------------------
(* Proofs about Container, for all plans, language roots and directories of  *)
(* the host: what a sandbox's command sees and writes, why its mounts       *)
(* succeed, and that the host is left as it was.                            *)
EXTENDS Container, WellFoundedInduction, SequenceTheorems, TLAPS

(* The strings; those that are written down here are named, because the     *)
(* provers do not know that a literal is a string.                          *)
Strings == STRING \cup {"", ".", "..", "var", "lib", "omogen", "fs", "env", "valenv", "graderenv",
                       "read", "write", "proc", "bin", "usr", "lib32", "lib64"}
PathSet == Seq(Strings)
Pairs == [out : PathSet, in : PathSet]
MountSet == [out : PathSet, in : PathSet, writable : BOOLEAN]
ArgSet == [work : PathSet, input : PathSet, output : PathSet, error : PathSet,
           reads : Seq(Pairs), writes : Seq(Pairs), skip : BOOLEAN]

(* A set of naturals has a least one. *)
LEMMA LeastNumber ==
    ASSUME NEW T, T \subseteq Nat, T # {}
    PROVE  \E m \in T : \A k \in T : m <= k
<1> DEFINE R == {ss \in Nat \X Nat : ss[1] < ss[2]}
<1>1. IsWellFoundedOn(R, Nat)
  BY NatLessThanWellFounded DEF OpToRel
<1>2. \A i, j \in Nat : i < j => <<i, j>> \in R
  OBVIOUS
<1> HIDE DEF R
<1>3. PICK m \in T : \A k \in T : ~ (<<k, m>> \in R)
  BY <1>1, WFMin
<1>4. ASSUME NEW k \in T PROVE m <= k
  <2>1. ~ (k < m)
    BY <1>2, <1>3
  <2>2. k \in Nat /\ m \in Nat
    OBVIOUS
  <2> QED BY <2>1, <2>2
<1> QED BY <1>4

(* Step by step, from 0 on. *)
LEMMA FromZeroOn ==
    ASSUME NEW n \in Nat, NEW Good, 0 \in Good,
           \A k \in 1 .. n : k - 1 \in Good => k \in Good
    PROVE  \A k \in 0 .. n : k \in Good
<1> DEFINE Bad == {k \in 0 .. n : k \notin Good}
<1>1. SUFFICES ASSUME Bad # {} PROVE FALSE
  OBVIOUS
<1>2. PICK m \in Bad : \A k \in Bad : m <= k
  <2>1. Bad \subseteq Nat
    OBVIOUS
  <2> HIDE DEF Bad
  <2> QED BY <1>1, <2>1, LeastNumber
<1>3. m \in 1 .. n /\ m - 1 \in 0 .. n /\ m - 1 \notin Bad
  BY <1>2
<1> QED BY <1>2, <1>3

(* A loop that goes from one value to the next has its values. *)
Turns(Turn, n, X) == \A k \in 1 .. n : \A x \in X : Turn[k][x] \in X

LEMMA LoopExists ==
    ASSUME NEW n \in Nat, NEW X, NEW start \in X, NEW Turn, Turns(Turn, n, X)
    PROVE  \E f \in [0 .. n -> X] : f[0] = start /\ \A k \in 1 .. n : f[k] = Turn[k][f[k - 1]]
<1> DEFINE Until(m, f) == f \in [0 .. m -> X] /\ f[0] = start /\ \A k \in 1 .. m : f[k] = Turn[k][f[k - 1]]
           Good == {m \in 0 .. n : \E f : Until(m, f)}
<1>1. 0 \in Good
  <2>1. Until(0, [k \in 0 .. 0 |-> start])
    OBVIOUS
  <2> HIDE DEF Until
  <2>2. \E f : Until(0, f)
    BY <2>1
  <2>3. 0 \in 0 .. n
    OBVIOUS
  <2> QED BY <2>2, <2>3
<1>2. ASSUME NEW m \in 1 .. n, m - 1 \in Good PROVE m \in Good
  <2>1. PICK f : Until(m - 1, f)
    BY <1>2
  <2> DEFINE last == Turn[m][f[m - 1]]
             g == [k \in 0 .. m |-> IF k = m THEN last ELSE f[k]]
  <2>2. m \in Nat /\ m - 1 \in 0 .. m - 1 /\ f[m - 1] \in X
    BY <2>1
  <2>3. last \in X
    BY <2>2 DEF Turns
  <2>4. \A k \in 0 .. m : k = m \/ k \in 0 .. m - 1
    BY <2>2
  <2>5. g \in [0 .. m -> X] /\ g[0] = start
    <3> HIDE DEF last
    <3> QED BY <2>1, <2>2, <2>3, <2>4
  <2>6. ASSUME NEW k \in 1 .. m PROVE g[k] = Turn[k][g[k - 1]]
    <3>1. k - 1 \in 0 .. m /\ k - 1 # m /\ g[k - 1] = f[k - 1] /\ k \in 0 .. m
      BY <2>2
    <3>2. CASE k = m
      BY <3>1, <3>2
    <3>3. CASE k # m
      <4>1. k \in 1 .. m - 1 /\ g[k] = f[k]
        BY <3>3, <2>2
      <4> HIDE DEF g
      <4> QED BY <4>1, <3>1, <2>1
    <3> QED BY <3>2, <3>3
  <2>7. Until(m, g)
    <3> HIDE DEF g
    <3> QED BY <2>5, <2>6
  <2> HIDE DEF Until, g
  <2>8. \E h : Until(m, h)
    BY <2>7
  <2>9. m \in 0 .. n
    OBVIOUS
  <2> QED BY <2>8, <2>9
<1>3. n \in Good
  <2> HIDE DEF Good
  <2>1. n \in 0 .. n /\ \A k \in 1 .. n : k - 1 \in Good => k \in Good
    BY <1>2
  <2> QED BY <1>1, <2>1, FromZeroOn
<1> QED BY <1>3

-----------------------------------------------------------------------------
(* Paths. *)
LEMMA Listed ==
    \A S :
          /\ \A a \in S : <<a>> \in Seq(S)
          /\ \A a, b \in S : <<a, b>> \in Seq(S)
          /\ \A a, b, c \in S : <<a, b, c>> \in Seq(S)
          /\ \A a, b, c, d \in S : <<a, b, c, d>> \in Seq(S)
          /\ \A a, b, c, d, e \in S : <<a, b, c, d, e>> \in Seq(S)
OBVIOUS

Walked(p, done, part) ==
    CASE part \in {"", "."} -> done
      [] part = ".." /\ done # <<>> /\ Last(done) # ".." -> Front(done)
      [] part = ".." /\ done = <<>> /\ Absolute(p) -> done
      [] OTHER -> Append(done, part)

(* The step of Clean keeps a path a path. *)
LEMMA WalkedIs ==
    ASSUME NEW p \in PathSet, NEW done \in PathSet, NEW part \in Strings
    PROVE  Walked(p, done, part) \in PathSet
<1>1. Append(done, part) \in PathSet
  BY AppendProperties DEF PathSet
<1>2. ASSUME done # <<>> PROVE Front(done) \in PathSet
  <2>1. Len(done) \in Nat \ {0}
    BY <1>2, EmptySeq DEF PathSet
  <2>2. 1 \in 1 .. Len(done) + 1 /\ Len(done) - 1 \in 0 .. Len(done)
    BY <2>1
  <2> QED BY <2>1, <2>2, SubSeqProperties DEF PathSet, Front
<1> DEFINE A == part \in {"", "."}  B == part = ".." /\ done # <<>> /\ Last(done) # ".."
           C == part = ".." /\ done = <<>> /\ Absolute(p)
           W == CASE A -> done [] B -> Front(done) [] C -> done [] OTHER -> Append(done, part)
<1>3. B => done # <<>>
  OBVIOUS
<1>4. Walked(p, done, part) = W
  BY Zenon DEF Walked
<1>5. W \in PathSet
  <2> HIDE DEF A, B, C
  <2> QED BY <1>1, <1>2, <1>3
<1> QED BY <1>4, <1>5

LEMMA CleanIs == \A p \in PathSet : Clean(p) \in PathSet
<1> TAKE p \in PathSet
<1> DEFINE n == Len(p)
           IsKept(f) == f = [k \in 0 .. n |-> IF k = 0 THEN <<>> ELSE Walked(p, f[k - 1], p[k])]
           kept == CHOOSE f : IsKept(f)
           clean == kept[n]
<1>1. n \in Nat /\ (\A k \in 1 .. n : p[k] \in Strings) /\ <<>> \in PathSet
  BY ElementOfSeq, EmptySeq DEF PathSet
<1> HIDE DEF n
<1>2. \E f : IsKept(f)
  <2> DEFINE Turn == [k \in 1 .. n |-> [done \in PathSet |-> Walked(p, done, p[k])]]
  <2>2. \A k \in 1 .. n, done \in PathSet : Turn[k][done] = Walked(p, done, p[k])
    OBVIOUS
  <2>1. Turns(Turn, n, PathSet)
    BY <1>1, <2>2, WalkedIs DEF Turns
  <2> HIDE DEF Turn
  <2>3. PICK f \in [0 .. n -> PathSet] : f[0] = <<>> /\ \A k \in 1 .. n : f[k] = Turn[k][f[k - 1]]
    <3> DEFINE start == <<>>
    <3>1. start \in PathSet
      BY <1>1
    <3> HIDE DEF start
    <3>2. \E f \in [0 .. n -> PathSet] : f[0] = start /\ \A k \in 1 .. n : f[k] = Turn[k][f[k - 1]]
      <4>1. n \in Nat
        BY <1>1
      <4> QED BY <4>1, <2>1, <3>1, LoopExists
    <3> QED BY <3>2 DEF start
  <2>4. \A k \in 0 .. n : f[k] = IF k = 0 THEN <<>> ELSE Walked(p, f[k - 1], p[k])
    <3> TAKE k \in 0 .. n
    <3>1. k = 0 \/ (k # 0 /\ k \in 1 .. n /\ k - 1 \in 0 .. n)
      BY <1>1
    <3> QED BY <3>1, <2>2, <2>3
  <2>5. f = [k \in 0 .. n |-> f[k]]
    OBVIOUS
  <2>6. IsKept(f)
    BY <2>4, <2>5
  <2> QED BY <2>6
<1>3. IsKept(kept)
  BY <1>2
<1> HIDE DEF kept
<1>4. clean \in PathSet
  <2> DEFINE Good == {k \in 0 .. n : kept[k] \in PathSet}
  <2>1. 0 \in Good /\ n \in 0 .. n
    BY <1>1, <1>3
  <2>2. \A k \in 1 .. n : k - 1 \in Good => k \in Good
    <3> TAKE k \in 1 .. n
    <3>1. k # 0 /\ k \in 0 .. n
      BY <1>1
    <3>2. kept[k] = Walked(p, kept[k - 1], p[k])
      BY <1>3, <3>1
    <3> QED BY <1>1, <3>1, <3>2, WalkedIs
  <2> HIDE DEF Good
  <2>3. n \in Good
    BY <1>1, <2>1, <2>2, FromZeroOn
  <2> QED BY <2>3 DEF Good
<1>5. Clean(p) = CASE clean = <<>> -> IF Absolute(p) THEN Root ELSE Here
                   [] clean # <<>> -> IF Absolute(p) THEN <<"">> \o clean ELSE clean
  BY Zenon DEF Clean, clean, kept, n, Walked
<1> HIDE DEF clean
<1>6. Root \in PathSet /\ Here \in PathSet /\ <<"">> \in PathSet
  <2>1. "" \in Strings /\ "." \in Strings
    BY Zenon DEF Strings
  <2> QED BY <2>1, Listed, Zenon DEF Root, Here, PathSet
<1>7. <<"">> \o clean \in PathSet
  <2> DEFINE e == <<"">>
  <2>1. e \in PathSet
    BY <1>6, Zenon
  <2> HIDE DEF e
  <2>2. e \o clean \in PathSet
    BY <1>4, <2>1, ConcatProperties DEF PathSet
  <2> QED BY <2>2, Zenon DEF e
<1> QED BY <1>4, <1>5, <1>6, <1>7

LEMMA JoinIs == \A p, q \in PathSet : JoinPath(p, q) \in PathSet
<1> TAKE p, q \in PathSet
<1> DEFINE e == <<"">>  c == p \o q  A == p = e  B == q = e
<1>1. e \in PathSet
  <2>1. "" \in Strings
    BY Zenon DEF Strings
  <2> QED BY <2>1, Listed, Zenon DEF PathSet
<1>2. c \in PathSet
  BY ConcatProperties DEF PathSet
<1>3. /\ A /\ B => JoinPath(p, q) = e
      /\ A /\ ~B => JoinPath(p, q) = Clean(q)
      /\ ~A /\ B => JoinPath(p, q) = Clean(p)
      /\ ~A /\ ~B => JoinPath(p, q) = Clean(c)
  <2> DEFINE J == CASE A /\ B -> e [] A /\ ~B -> Clean(q) [] ~A /\ B -> Clean(p) [] OTHER -> Clean(c)
  <2>1. JoinPath(p, q) = J
    BY Zenon DEF JoinPath
  <2> HIDE DEF A, B, e, c
  <2> QED BY <2>1
<1> HIDE DEF A, B, e, c
<1> QED BY <1>1, <1>2, <1>3, CleanIs

(* The elements of lists. *)
LEMMA Elements ==
    /\ ToSet(<<>>) = {}
    /\ \A x : ToSet(<<x>>) = {x}
    /\ \A x, y : ToSet(<<x, y>>) = {x, y}
<1>1. ToSet(<<>>) = {}
  BY DEF ToSet
<1>2. ASSUME NEW x PROVE ToSet(<<x>>) = {x}
  <2> DEFINE s == <<x>>
  <2>1. DOMAIN s = {1} /\ s[1] = x
    OBVIOUS
  <2> HIDE DEF s
  <2>2. ToSet(s) = {x}
    BY <2>1 DEF ToSet
  <2> QED BY <2>2 DEF s
<1>3. ASSUME NEW x, NEW y PROVE ToSet(<<x, y>>) = {x, y}
  <2> DEFINE s == <<x, y>>
  <2>1. DOMAIN s = {1, 2} /\ s[1] = x /\ s[2] = y
    OBVIOUS
  <2> HIDE DEF s
  <2>2. ToSet(s) = {x, y}
    BY <2>1 DEF ToSet
  <2> QED BY <2>2 DEF s
<1> QED BY <1>1, <1>2, <1>3

LEMMA ElementsIn ==
    ASSUME NEW S, NEW s \in Seq(S)
    PROVE  ToSet(s) \subseteq S /\ \A x : x \in ToSet(s) <=> \E i \in 1 .. Len(s) : s[i] = x
BY DEF ToSet

LEMMA ElementsOfBoth ==
    ASSUME NEW S, NEW s \in Seq(S), NEW t \in Seq(S)
    PROVE  s \o t \in Seq(S) /\ ToSet(s \o t) = ToSet(s) \cup ToSet(t)
<1> DEFINE c == s \o t
<1>1. /\ c \in Seq(S) /\ Len(c) = Len(s) + Len(t) /\ Len(s) \in Nat /\ Len(t) \in Nat
      /\ \A i \in 1 .. Len(s) + Len(t) : c[i] = IF i <= Len(s) THEN s[i] ELSE t[i - Len(s)]
  BY ConcatProperties
<1> HIDE DEF c
<1>2. ASSUME NEW x \in ToSet(c) PROVE x \in ToSet(s) \cup ToSet(t)
  <2>1. PICK i \in 1 .. Len(c) : c[i] = x
    BY <1>1, ElementsIn
  <2>2. CASE i <= Len(s)
    <3>1. i \in 1 .. Len(s) /\ s[i] = x
      BY <1>1, <2>1, <2>2
    <3> QED BY <3>1, ElementsIn
  <2>3. CASE ~(i <= Len(s))
    <3>1. i - Len(s) \in 1 .. Len(t) /\ t[i - Len(s)] = x
      BY <1>1, <2>1, <2>3
    <3> QED BY <3>1, ElementsIn
  <2> QED BY <2>2, <2>3
<1>3. ASSUME NEW x \in ToSet(s) PROVE x \in ToSet(c)
  <2>1. PICK i \in 1 .. Len(s) : s[i] = x
    BY ElementsIn
  <2>2. i \in 1 .. Len(c) /\ c[i] = x
    BY <1>1, <2>1
  <2> QED BY <1>1, <2>2, ElementsIn
<1>4. ASSUME NEW x \in ToSet(t) PROVE x \in ToSet(c)
  <2>1. PICK i \in 1 .. Len(t) : t[i] = x
    BY ElementsIn
  <2>2. i + Len(s) \in 1 .. Len(c) /\ c[i + Len(s)] = x
    <3> DEFINE k == i + Len(s)
    <3>1. k \in 1 .. Len(s) + Len(t) /\ ~(k <= Len(s)) /\ k - Len(s) = i
      BY <1>1
    <3> HIDE DEF k
    <3>2. k \in 1 .. Len(c) /\ c[k] = x
      BY <1>1, <2>1, <3>1
    <3> QED BY <3>2 DEF k
  <2> QED BY <1>1, <2>2, ElementsIn
<1>5. ToSet(c) = ToSet(s) \cup ToSet(t)
  BY <1>2, <1>3, <1>4
<1> QED BY <1>1, <1>5 DEF c

LEMMA ElementsOfThree ==
    ASSUME NEW S, NEW s \in Seq(S), NEW t \in Seq(S), NEW u \in Seq(S)
    PROVE  /\ s \o t \in Seq(S) /\ (s \o t) \o u \in Seq(S)
           /\ ToSet((s \o t) \o u) = (ToSet(s) \cup ToSet(t)) \cup ToSet(u)
<1> DEFINE c == s \o t
<1>1. c \in Seq(S) /\ ToSet(c) = ToSet(s) \cup ToSet(t)
  BY ElementsOfBoth
<1> HIDE DEF c
<1>2. c \o u \in Seq(S) /\ ToSet(c \o u) = ToSet(c) \cup ToSet(u)
  BY <1>1, ElementsOfBoth
<1> QED BY <1>1, <1>2 DEF c

LEMMA BeyondFirst ==
    ASSUME NEW S, NEW s \in Seq(S), NEW t \in Seq(S), NEW u \in Seq(S), NEW i \in 1 .. Len((s \o t) \o u), i > Len(s)
    PROVE  ((s \o t) \o u)[i] \in ToSet(t) \cup ToSet(u)
<1> DEFINE c == s \o t  d == c \o u
<1>1. /\ c \in Seq(S) /\ Len(c) = Len(s) + Len(t) /\ Len(s) \in Nat /\ Len(t) \in Nat /\ Len(u) \in Nat
      /\ \A k \in 1 .. Len(s) + Len(t) : c[k] = IF k <= Len(s) THEN s[k] ELSE t[k - Len(s)]
  BY ConcatProperties
<1> HIDE DEF c
<1>2. /\ Len(d) = Len(c) + Len(u)
      /\ \A k \in 1 .. Len(c) + Len(u) : d[k] = IF k <= Len(c) THEN c[k] ELSE u[k - Len(c)]
  <2>1. c \in Seq(S)
    BY <1>1
  <2>2. /\ Len(c \o u) = Len(c) + Len(u)
        /\ \A k \in 1 .. Len(c) + Len(u) : (c \o u)[k] = IF k <= Len(c) THEN c[k] ELSE u[k - Len(c)]
    BY <2>1, ConcatProperties
  <2> QED BY <2>2
<1> HIDE DEF d
<1>3. i \in 1 .. Len(d) /\ i > Len(s)
  BY DEF d, c
<1>4. CASE i <= Len(c)
  <2>1. i - Len(s) \in 1 .. Len(t) /\ d[i] = t[i - Len(s)]
    BY <1>1, <1>2, <1>3, <1>4
  <2>2. t[i - Len(s)] \in ToSet(t)
    BY <2>1, ElementsIn
  <2> QED BY <2>1, <2>2 DEF d, c
<1>5. CASE ~(i <= Len(c))
  <2>1. i - Len(c) \in 1 .. Len(u) /\ d[i] = u[i - Len(c)]
    BY <1>1, <1>2, <1>3, <1>5
  <2>2. u[i - Len(c)] \in ToSet(u)
    BY <2>1, ElementsIn
  <2> QED BY <2>1, <2>2 DEF d, c
<1> QED BY <1>4, <1>5

LEMMA ElementsOfMore ==
    ASSUME NEW S, NEW s \in Seq(S), NEW x \in S
    PROVE  Append(s, x) \in Seq(S) /\ ToSet(Append(s, x)) = ToSet(s) \cup {x}
<1>1. /\ Append(s, x) \in Seq(S) /\ Len(s) \in Nat
      /\ DOMAIN s = 1 .. Len(s) /\ DOMAIN Append(s, x) = 1 .. Len(s) + 1
      /\ \A i \in 1 .. Len(s) : Append(s, x)[i] = s[i]
      /\ Append(s, x)[Len(s) + 1] = x
  OBVIOUS
<1>2. 1 .. Len(s) + 1 = (1 .. Len(s)) \cup {Len(s) + 1}
  BY <1>1
<1> QED BY <1>1, <1>2 DEF ToSet

-----------------------------------------------------------------------------
(* What the judge asks for. *)
LEMMA Typed ==
    /\ \A plan \in Plans : /\ plan.root \in PathSet /\ plan.program \in PathSet /\ plan.validator \in PathSet
                           /\ plan.grader \in PathSet /\ plan.interactive \in BOOLEAN
    /\ Sources \subseteq PathSet /\ HostDirs \subseteq PathSet
    /\ Root \in PathSet /\ FsPath \in PathSet
<1>1. STRING \subseteq Strings
  BY Zenon DEF Strings
<1>2. Seq(STRING) \subseteq PathSet
  BY <1>1, SeqMonotonic DEF PathSet
<1>3. Root \in PathSet /\ FsPath \in PathSet
  <2>1. "" \in Strings /\ "var" \in Strings /\ "lib" \in Strings /\ "omogen" \in Strings /\ "fs" \in Strings
    BY Zenon DEF Strings
  <2> QED BY <2>1, Listed, Zenon DEF Root, FsPath, PathSet
<1>4. /\ \A plan \in Plans : plan \in [root : Seq(STRING), program : Seq(STRING), validator : Seq(STRING),
                                      grader : Seq(STRING), interactive : BOOLEAN]
      /\ Sources \subseteq Seq(STRING) /\ HostDirs \subseteq Seq(STRING)
  BY ContainerAssumption, Zenon
<1> HIDE DEF PathSet
<1> QED BY <1>2, <1>3, <1>4

LEMMA EnvIs ==
    \A plan \in Plans, env \in {"env", "valenv", "graderenv"}, base \in {"read", "write"} :
        Env(plan, env, base) \in PathSet
<1> TAKE plan \in Plans, env \in {"env", "valenv", "graderenv"}, base \in {"read", "write"}
<1>1. env \in Strings /\ base \in Strings
  BY Zenon DEF Strings
<1> DEFINE two == <<env, base>>
<1>2. two \in PathSet
  BY <1>1, Listed, Zenon DEF PathSet
<1> HIDE DEF two
<1>3. plan.root \o two \in PathSet
  BY <1>2, Typed, ConcatProperties DEF PathSet
<1> QED BY <1>3, Zenon DEF Env, two

LEMMA LanguageMountsAre ==
    ASSUME NEW tag \in DOMAIN Fs
    PROVE  /\ LanguageMounts(tag) \in Seq(Pairs)
           /\ Len(LanguageMounts(tag)) = Len(Fs[tag]) /\ Len(Fs[tag]) \in Nat
           /\ \A i \in 1 .. Len(Fs[tag]) : LanguageMounts(tag)[i].in = <<"", Fs[tag][i].name>>
<1> DEFINE entries == Fs[tag]
           lang == Append(FsPath, tag)
<1>1. tag \in Strings /\ lang \in PathSet
  <2>1. tag \in STRING
    BY ContainerAssumption
  <2>2. tag \in Strings
    BY <2>1, Zenon DEF Strings
  <2> QED BY <2>2, Typed, AppendProperties DEF PathSet
<1>2. entries \in Seq([name : Strings, link : PathSet])
  <2>1. STRING \subseteq Strings
    BY Zenon DEF Strings
  <2>2. Seq(STRING) \subseteq PathSet
    BY <2>1, SeqMonotonic DEF PathSet
  <2>3. [name : STRING, link : Seq(STRING)] \subseteq [name : Strings, link : PathSet]
    BY <2>1, <2>2
  <2>4. entries \in Seq([name : STRING, link : Seq(STRING)])
    BY ContainerAssumption
  <2> DEFINE Small == [name : STRING, link : Seq(STRING)]  Big == [name : Strings, link : PathSet]
  <2>5. Small \subseteq Big /\ entries \in Seq(Small)
    BY <2>3, <2>4
  <2> HIDE DEF Small, Big
  <2>6. entries \in Seq(Big)
    BY <2>5, SeqMonotonic
  <2> QED BY <2>6 DEF Big
<1> HIDE DEF lang, entries
<1>3. ASSUME NEW e \in [name : Strings, link : PathSet] PROVE FsMount(lang, e) \in Pairs /\ FsMount(lang, e).in = <<"", e.name>>
  <2>1. Append(lang, e.name) \in PathSet /\ Clean(JoinPath(lang, e.link)) \in PathSet
    BY <1>1, CleanIs, JoinIs, AppendProperties DEF PathSet
  <2>2. <<"", e.name>> \in PathSet
    <3>1. "" \in Strings
      BY Zenon DEF Strings
    <3>2. e.name \in Strings
      OBVIOUS
    <3> QED BY <3>1, <3>2, Listed, Zenon DEF PathSet
  <2> DEFINE in == <<"", e.name>>
             out == IF e.link = <<>> THEN Append(lang, e.name) ELSE Clean(JoinPath(lang, e.link))
  <2>3. in \in PathSet /\ out \in PathSet
    BY <2>1, <2>2, Zenon
  <2>4. FsMount(lang, e) = [out |-> out, in |-> in]
    BY Zenon DEF FsMount
  <2> HIDE DEF in, out
  <2>5. FsMount(lang, e) \in Pairs /\ FsMount(lang, e).in = in
    BY <2>3, <2>4 DEF Pairs
  <2> QED BY <2>5, Zenon DEF in
<1>4. Len(entries) \in Nat /\ \A i \in 1 .. Len(entries) : entries[i] \in [name : Strings, link : PathSet]
  <2> DEFINE Big == [name : Strings, link : PathSet]
  <2>1. entries \in Seq(Big)
    BY <1>2
  <2> HIDE DEF Big
  <2>2. Len(entries) \in Nat /\ \A i \in 1 .. Len(entries) : entries[i] \in Big
    BY <2>1, ElementOfSeq
  <2> QED BY <2>2 DEF Big
<1>5. LanguageMounts(tag) = [i \in 1 .. Len(entries) |-> FsMount(lang, entries[i])]
  BY DEF LanguageMounts, lang, entries
<1> DEFINE in(i) == <<"", entries[i].name>>
<1>6. \A i \in 1 .. Len(entries) : FsMount(lang, entries[i]) \in Pairs /\ FsMount(lang, entries[i]).in = in(i)
  BY <1>3, <1>4, Zenon
<1> HIDE DEF in
<1>7. /\ LanguageMounts(tag) \in Seq(Pairs) /\ Len(LanguageMounts(tag)) = Len(entries)
      /\ \A i \in 1 .. Len(entries) : LanguageMounts(tag)[i].in = in(i)
  BY <1>4, <1>5, <1>6
<1> QED BY <1>4, <1>7, Zenon DEF in, entries

(* A list of one read-only path of the caller's, and the languages' mounts. *)
AsAsked(a) ==
    /\ a \in ArgSet
    /\ \A w \in ToSet(a.writes) : w.in = w.out
    /\ \A r \in ToSet(a.reads) : r.in # r.out =>
        a.skip /\ \E tag \in DOMAIN Fs : r \in ToSet(LanguageMounts(tag))
    /\ a.work = Root \/ a.work \in Own(a)

LEMMA SameIs == \A p \in PathSet : Same(p) \in Pairs /\ Same(p).in = p /\ Same(p).out = p
BY DEF Same, Pairs

LEMMA WithLanguageIs ==
    ASSUME NEW a \in ArgSet, NEW tag \in DOMAIN Fs, AsAsked(a)
    PROVE  AsAsked(WithLanguage(a, tag))
<1> DEFINE b == WithLanguage(a, tag)  more == LanguageMounts(tag)
<1>1. more \in Seq(Pairs) /\ a.reads \in Seq(Pairs)
  BY LanguageMountsAre DEF ArgSet
<1>2. b = [a EXCEPT !.skip = TRUE, !.reads = a.reads \o more]
  BY DEF WithLanguage
<1> HIDE DEF b
<1>3. a.reads \o more \in Seq(Pairs) /\ ToSet(a.reads \o more) = ToSet(a.reads) \cup ToSet(more)
  BY <1>1, ElementsOfBoth
<1>4. b \in ArgSet
  BY <1>2, <1>3 DEF ArgSet
<1>5. /\ b.skip = TRUE /\ b.reads = a.reads \o more /\ b.writes = a.writes /\ b.work = a.work
      /\ b.input = a.input /\ b.output = a.output /\ b.error = a.error
  BY <1>2 DEF ArgSet
<1>6. ToSet(a.reads \o a.writes) \subseteq ToSet(b.reads \o b.writes)
  <2>1. a.writes \in Seq(Pairs) /\ b.reads \in Seq(Pairs)
    BY <1>3, <1>5 DEF ArgSet
  <2>2. ToSet(a.reads \o a.writes) = ToSet(a.reads) \cup ToSet(a.writes)
    BY <1>1, <2>1, ElementsOfBoth
  <2>3. ToSet(b.reads \o a.writes) = ToSet(b.reads) \cup ToSet(a.writes)
    BY <2>1, ElementsOfBoth
  <2> QED BY <2>2, <2>3, <1>3, <1>5
<1>7. Own(a) \subseteq Own(b)
  BY <1>5, <1>6 DEF Own
<1>8. \A r \in ToSet(b.reads) : r.in # r.out => \E t \in DOMAIN Fs : r \in ToSet(LanguageMounts(t))
  BY <1>3, <1>5 DEF AsAsked
<1> QED BY <1>4, <1>5, <1>7, <1>8 DEF AsAsked, b

LEMMA OwnIs ==
    ASSUME NEW a \in ArgSet
    PROVE  /\ {a.input, a.output, a.error} \subseteq Own(a) /\ Own(a) \subseteq PathSet
           /\ \A r \in ToSet(a.reads) \cup ToSet(a.writes) : r \in Pairs /\ (r.in = r.out => r.out \in Own(a))
<1>1. a.reads \in Seq(Pairs) /\ a.writes \in Seq(Pairs)
  BY DEF ArgSet
<1>2. ToSet(a.reads \o a.writes) = ToSet(a.reads) \cup ToSet(a.writes) /\ ToSet(a.reads) \cup ToSet(a.writes) \subseteq Pairs
  BY <1>1, ElementsOfBoth, ElementsIn
<1>3. a.input \in PathSet /\ a.output \in PathSet /\ a.error \in PathSet
  BY DEF ArgSet
<1> QED BY <1>2, <1>3 DEF Own, Pairs

LEMMA PlainAsked ==
    ASSUME NEW a \in ArgSet,
           \A r \in ToSet(a.reads) \cup ToSet(a.writes) : r.in = r.out,
           a.work = Root \/ \E r \in ToSet(a.reads) \cup ToSet(a.writes) : r.out = a.work
    PROVE  AsAsked(a)
BY OwnIs DEF AsAsked

LEMMA ProgramAsked ==
    ASSUME NEW plan \in Plans, NEW tag \in DOMAIN Fs
    PROVE  /\ AsAsked(ProgramArgs(plan, tag))
           /\ ProgramArgs(plan, tag).output = Env(plan, "env", "write")
           /\ ProgramArgs(plan, tag).error = Env(plan, "env", "write")
           /\ ProgramArgs(plan, tag).writes = <<>>
<1> DEFINE r == Env(plan, "env", "read")  w == Env(plan, "env", "write")
           reads == <<Same(plan.program)>>
           a == [work |-> plan.program, input |-> r, output |-> w, error |-> w,
                 reads |-> reads, writes |-> <<>>, skip |-> FALSE]
<1>1. r \in PathSet /\ w \in PathSet /\ plan.program \in PathSet
  BY EnvIs, Typed
<1>2. ProgramArgs(plan, tag) = WithLanguage(a, tag)
  BY DEF ProgramArgs
<1>3. reads \in Seq(Pairs) /\ ToSet(reads) = {Same(plan.program)}
  BY <1>1, SameIs, Listed, Elements
<1>4. <<>> \in Seq(Pairs) /\ ToSet(<<>>) = {}
  BY Elements
<1> HIDE DEF r, w, reads
<1>5. a \in ArgSet
  BY <1>1, <1>3, <1>4 DEF ArgSet
<1>6. AsAsked(a)
  <2>1. a.reads = reads /\ a.writes = <<>> /\ a.work = plan.program
    OBVIOUS
  <2> HIDE DEF a
  <2> QED BY <1>1, <1>3, <1>4, <1>5, <2>1, SameIs, PlainAsked
<1>7. /\ WithLanguage(a, tag).output = w /\ WithLanguage(a, tag).error = w
      /\ WithLanguage(a, tag).writes = <<>>
  BY DEF WithLanguage
<1> HIDE DEF a
<1> QED BY <1>2, <1>5, <1>6, <1>7, WithLanguageIs DEF w

LEMMA ValidatorAsked == \A plan \in Plans : AsAsked(ValidatorArgs(plan))
<1> TAKE plan \in Plans
<1> DEFINE a == ValidatorArgs(plan)
           vr == Env(plan, "valenv", "read")  vw == Env(plan, "valenv", "write")
           er == Env(plan, "env", "read")  ew == Env(plan, "env", "write")
           reads == <<Same(vr), Same(plan.validator)>>  writes == <<Same(vw)>>
<1>1. vr \in PathSet /\ vw \in PathSet /\ er \in PathSet /\ ew \in PathSet /\ plan.validator \in PathSet /\ plan.interactive \in BOOLEAN
  BY EnvIs, Typed
<1>2. a = [work |-> plan.validator, input |-> IF plan.interactive THEN ew ELSE vr,
           output |-> IF plan.interactive THEN er ELSE vw, error |-> vw,
           reads |-> reads, writes |-> writes, skip |-> FALSE]
  BY DEF ValidatorArgs
<1>3. reads \in Seq(Pairs) /\ ToSet(reads) = {Same(vr), Same(plan.validator)}
  BY <1>1, SameIs, Listed, Elements
<1>4. writes \in Seq(Pairs) /\ ToSet(writes) = {Same(vw)}
  BY <1>1, SameIs, Listed, Elements
<1> HIDE DEF a, vr, vw, er, ew, reads, writes
<1>5. a \in ArgSet /\ a.work = plan.validator /\ a.reads = reads /\ a.writes = writes
  BY <1>1, <1>2, <1>3, <1>4 DEF ArgSet
<1>6. AsAsked(a)
  BY <1>1, <1>3, <1>4, <1>5, SameIs, PlainAsked
<1> QED BY <1>6 DEF a

LEMMA GraderAsked == \A plan \in Plans : AsAsked(GraderArgs(plan))
<1> TAKE plan \in Plans
<1> DEFINE a == GraderArgs(plan)
           gr == Env(plan, "graderenv", "read")  gw == Env(plan, "graderenv", "write")
           reads == <<Same(gr), Same(plan.grader)>>  writes == <<Same(gw)>>
<1>1. gr \in PathSet /\ gw \in PathSet /\ plan.grader \in PathSet
  BY EnvIs, Typed
<1>2. a = [work |-> plan.grader, input |-> gr, output |-> gw, error |-> gw,
           reads |-> reads, writes |-> writes, skip |-> FALSE]
  BY DEF GraderArgs
<1>3. reads \in Seq(Pairs) /\ ToSet(reads) = {Same(gr), Same(plan.grader)}
  BY <1>1, SameIs, Listed, Elements
<1>4. writes \in Seq(Pairs) /\ ToSet(writes) = {Same(gw)}
  BY <1>1, SameIs, Listed, Elements
<1> HIDE DEF a, gr, gw, reads, writes
<1>5. a \in ArgSet /\ a.work = plan.grader /\ a.reads = reads /\ a.writes = writes
  BY <1>1, <1>2, <1>3, <1>4 DEF ArgSet
<1>6. AsAsked(a)
  BY <1>1, <1>3, <1>4, <1>5, SameIs, PlainAsked
<1> QED BY <1>6 DEF a

LEMMA CompileAsked ==
    \A s \in Sources, tag \in DOMAIN Fs : AsAsked(CompileArgs(s, tag)) /\ AsAsked(ProbeArgs(s, tag))
<1> TAKE s \in Sources, tag \in DOMAIN Fs
<1> DEFINE writes == <<Same(s)>>
           a == [work |-> s, input |-> s, output |-> s, error |-> s,
                 reads |-> <<>>, writes |-> writes, skip |-> FALSE]
           c == CompileArgs(s, tag)  p == ProbeArgs(s, tag)
<1>1. s \in PathSet
  BY Typed
<1>2. writes \in Seq(Pairs) /\ ToSet(writes) = {Same(s)}
  BY <1>1, SameIs, Listed, Elements
<1>3. <<>> \in Seq(Pairs) /\ ToSet(<<>>) = {}
  BY Elements
<1> HIDE DEF writes
<1>4. a \in ArgSet /\ a.work = s /\ a.reads = <<>> /\ a.writes = writes
  BY <1>1, <1>2, <1>3 DEF ArgSet
<1>5. c = WithLanguage(a, tag)
  BY DEF CompileArgs, writes
<1> HIDE DEF a, c
<1>6. AsAsked(a)
  BY <1>1, <1>2, <1>3, <1>4, SameIs, PlainAsked
<1>7. AsAsked(c)
  BY <1>4, <1>5, <1>6, WithLanguageIs
<1>8. p = [c EXCEPT !.work = Root, !.writes = <<>>]
  BY DEF ProbeArgs, c
<1> HIDE DEF p
<1>9. p \in ArgSet /\ p.work = Root /\ p.writes = <<>> /\ p.reads = c.reads /\ p.skip = c.skip
  BY <1>3, <1>7, <1>8, Typed DEF AsAsked, ArgSet
<1>10. AsAsked(p)
  BY <1>3, <1>7, <1>9 DEF AsAsked
<1> QED BY <1>7, <1>10 DEF c, p

LEMMA AllAsked == \A a \in AllArgs : AsAsked(a)
BY ProgramAsked, ValidatorAsked, GraderAsked, CompileAsked DEF AllArgs

(* Once keeps every path that was not seen before. *)
Added(seen, done, p) == IF p \in seen \cup ToSet(done) THEN done ELSE Append(done, p)

LEMMA OnceIs ==
    ASSUME NEW paths \in Seq(Pairs), NEW seen
    PROVE  Once(paths, seen) \in Seq(Pairs) /\ ToSet(Once(paths, seen)) = ToSet(paths) \ seen
<1> DEFINE n == Len(paths)
           IsKept(f) == f = [k \in 0 .. n |-> IF k = 0 THEN <<>> ELSE Added(seen, f[k - 1], paths[k])]
           kept == CHOOSE f : IsKept(f)
<1>1. n \in Nat /\ (\A k \in 1 .. n : paths[k] \in Pairs) /\ <<>> \in Seq(Pairs) /\ ToSet(<<>>) = {}
  BY ElementOfSeq, EmptySeq, Elements
<1> HIDE DEF n
<1>2. ASSUME NEW done \in Seq(Pairs), NEW p \in Pairs
      PROVE  Added(seen, done, p) \in Seq(Pairs) /\ ToSet(Added(seen, done, p)) = ToSet(done) \cup ({p} \ seen)
  BY ElementsOfMore DEF Added
<1>3. \E f : IsKept(f)
  <2> DEFINE Turn == [k \in 1 .. n |-> [done \in Seq(Pairs) |-> Added(seen, done, paths[k])]]
  <2>1. \A k \in 1 .. n, done \in Seq(Pairs) : Turn[k][done] = Added(seen, done, paths[k])
    OBVIOUS
  <2>2. Turns(Turn, n, Seq(Pairs))
    <3> HIDE DEF Turn
    <3> QED BY <1>1, <1>2, <2>1 DEF Turns
  <2> HIDE DEF Turn
  <2>3. PICK f \in [0 .. n -> Seq(Pairs)] : f[0] = <<>> /\ \A k \in 1 .. n : f[k] = Turn[k][f[k - 1]]
    <3> DEFINE start == <<>>
    <3>1. start \in Seq(Pairs)
      BY <1>1
    <3> HIDE DEF start
    <3>2. \E f \in [0 .. n -> Seq(Pairs)] : f[0] = start /\ \A k \in 1 .. n : f[k] = Turn[k][f[k - 1]]
      <4> DEFINE Lists == Seq(Pairs)
      <4>1. n \in Nat /\ start \in Lists /\ Turns(Turn, n, Lists)
        BY <1>1, <2>2, <3>1
      <4> HIDE DEF Lists
      <4>2. \E f \in [0 .. n -> Lists] : f[0] = start /\ \A k \in 1 .. n : f[k] = Turn[k][f[k - 1]]
        BY <4>1, LoopExists, SMTT(30)
      <4> QED BY <4>2 DEF Lists
    <3> QED BY <3>2 DEF start
  <2>4. \A k \in 0 .. n : f[k] = IF k = 0 THEN <<>> ELSE Added(seen, f[k - 1], paths[k])
    <3> TAKE k \in 0 .. n
    <3>1. k = 0 \/ (k # 0 /\ k \in 1 .. n /\ k - 1 \in 0 .. n)
      BY <1>1
    <3> QED BY <3>1, <2>1, <2>3
  <2>5. f = [k \in 0 .. n |-> f[k]]
    OBVIOUS
  <2>6. IsKept(f)
    BY <2>4, <2>5
  <2> QED BY <2>6
<1>4. IsKept(kept)
  BY <1>3
<1>5. Once(paths, seen) = kept[n]
  BY Zenon DEF Once, Added, kept, n
<1> HIDE DEF kept
<1> DEFINE Sofar(k) == {paths[i] : i \in 1 .. k}
           Good == {k \in 0 .. n : kept[k] \in Seq(Pairs) /\ ToSet(kept[k]) = Sofar(k) \ seen}
<1>6. 0 \in Good /\ n \in 0 .. n
  <2>1. kept[0] = <<>> /\ Sofar(0) = {} /\ 0 \in 0 .. n /\ n \in 0 .. n
    BY <1>1, <1>4
  <2>2. kept[0] \in Seq(Pairs) /\ ToSet(kept[0]) = Sofar(0) \ seen
    <3> HIDE DEF Sofar
    <3> QED BY <1>1, <2>1
  <2> QED BY <2>1, <2>2
<1>7. \A k \in 1 .. n : k - 1 \in Good => k \in Good
  <2> TAKE k \in 1 .. n
  <2>1. k # 0 /\ k \in 0 .. n
    BY <1>1
  <2>2. kept[k] = Added(seen, kept[k - 1], paths[k])
    BY <1>4, <2>1
  <2>3. Sofar(k) = Sofar(k - 1) \cup {paths[k]}
    <3>1. 1 .. k = (1 .. k - 1) \cup {k}
      BY <1>1
    <3> QED BY <3>1
  <2> HIDE DEF Sofar
  <2> HAVE k - 1 \in Good
  <2>5. kept[k - 1] \in Seq(Pairs) /\ ToSet(kept[k - 1]) = Sofar(k - 1) \ seen /\ paths[k] \in Pairs
    BY <1>1
  <2>4. kept[k] \in Seq(Pairs) /\ ToSet(kept[k]) = ToSet(kept[k - 1]) \cup ({paths[k]} \ seen)
    <3> DEFINE done == kept[k - 1]  p == paths[k]
    <3>1. done \in Seq(Pairs) /\ p \in Pairs /\ kept[k] = Added(seen, done, p)
      BY <2>2, <2>5
    <3> HIDE DEF done, p
    <3>2. kept[k] \in Seq(Pairs) /\ ToSet(kept[k]) = ToSet(done) \cup ({p} \ seen)
      BY <1>2, <3>1
    <3> QED BY <3>2 DEF done, p
  <2>6. ToSet(kept[k]) = Sofar(k) \ seen
    BY <2>3, <2>4, <2>5
  <2> QED BY <2>1, <2>4, <2>6
<1>8. n \in Good
  <2> HIDE DEF Good
  <2> QED BY <1>1, <1>6, <1>7, FromZeroOn
<1>9. ToSet(paths) = Sofar(n)
  BY DEF ToSet, n
<1> QED BY <1>5, <1>8, <1>9

-----------------------------------------------------------------------------
(* The mounts that are planned: those made before the writable ones, these, *)
(* and the optional ones.                                                    *)
Before(a) ==
    <<ProcMount>> \o (IF a.skip THEN <<>> ELSE MountsOf(SameAll(DefaultDirs), FALSE)) \o MountsOf(Readable(a), FALSE)
Asked(a) == MountsOf(Writable(a), TRUE)
After(a) ==
    IF a.skip THEN <<>> ELSE There(OptionalDirs[1]) \o There(OptionalDirs[2]) \o There(OptionalDirs[3])

(* A mount that is made in any case, or for a directory given as readable,  *)
(* as writable, and one that is made if its directory exists.               *)
IsReadable(m, a) ==
    \/ ~m.writable /\ ~a.skip /\ m.in = m.out /\ m.out \in ToSet(DefaultDirs)
    \/ ~m.writable /\ \E r \in ToSet(Reads(a)) : m.in = r.in /\ m.out = r.out
IsBefore(m, a) == m = ProcMount \/ IsReadable(m, a)
IsAsked(m, a) == m.writable /\ m.in = m.out /\ \E w \in ToSet(Writes(a)) : m.out = w.out
IsAfter(m) == ~m.writable /\ m.in = m.out /\ m.out \in ToSet(OptionalDirs)

LEMMA ReadsAndWrites ==
    ASSUME NEW a, AsAsked(a)
    PROVE  /\ Reads(a) \in Seq(Pairs) /\ ToSet(Reads(a)) = ToSet(a.reads) \cup {Same(a.input)}
           /\ Writes(a) \in Seq(Pairs) /\ ToSet(Writes(a)) = ToSet(a.writes) \cup {Same(a.output), Same(a.error)}
           /\ \A w \in ToSet(Writes(a)) : w \in Pairs /\ w.in = w.out /\ w.out \in Own(a)
           /\ \A r \in ToSet(Reads(a)) : r \in Pairs /\ (r.in = r.out => r.out \in Own(a))
<1>1. /\ a \in ArgSet /\ a.reads \in Seq(Pairs) /\ a.writes \in Seq(Pairs)
      /\ a.input \in PathSet /\ a.output \in PathSet /\ a.error \in PathSet
  BY DEF AsAsked, ArgSet
<1>2. Reads(a) \in Seq(Pairs) /\ ToSet(Reads(a)) = ToSet(a.reads) \cup {Same(a.input)}
  BY <1>1, SameIs, ElementsOfMore DEF Reads
<1>3. Writes(a) \in Seq(Pairs) /\ ToSet(Writes(a)) = ToSet(a.writes) \cup {Same(a.output), Same(a.error)}
  <2> DEFINE two == <<a.output, a.error>>  both == SameAll(two)
  <2>1. two \in Seq(PathSet) /\ Len(two) = 2 /\ two[1] = a.output /\ two[2] = a.error
    BY <1>1
  <2> HIDE DEF two
  <2>2. both = [k \in 1 .. 2 |-> Same(two[k])]
    BY <2>1 DEF SameAll
  <2>3. 1 .. 2 = {1, 2}
    OBVIOUS
  <2> HIDE DEF both
  <2>4. both \in Seq(Pairs) /\ DOMAIN both = {1, 2} /\ both[1] = Same(a.output) /\ both[2] = Same(a.error)
    BY <1>1, <2>1, <2>2, <2>3, SameIs
  <2>5. ToSet(both) = {Same(a.output), Same(a.error)}
    BY <2>4 DEF ToSet
  <2>6. Writes(a) = a.writes \o both
    BY DEF Writes, both, two
  <2> QED BY <1>1, <2>4, <2>5, <2>6, ElementsOfBoth
<1>4. \A w \in ToSet(Writes(a)) : w \in Pairs /\ w.in = w.out /\ w.out \in Own(a)
  BY <1>1, <1>3, SameIs, OwnIs DEF AsAsked
<1>5. \A r \in ToSet(Reads(a)) : r \in Pairs /\ (r.in = r.out => r.out \in Own(a))
  BY <1>1, <1>2, SameIs, OwnIs
<1> QED BY <1>2, <1>3, <1>4, <1>5

LEMMA MountsAre ==
    ASSUME NEW s \in Seq(Pairs), NEW writable \in BOOLEAN
    PROVE  /\ MountsOf(s, writable) \in Seq(MountSet)
           /\ ToSet(MountsOf(s, writable)) = {MountOf(p, writable) : p \in ToSet(s)}
           /\ \A p \in ToSet(s) : /\ MountOf(p, writable) \in MountSet
                                  /\ MountOf(p, writable).in = p.in
                                  /\ MountOf(p, writable).out = p.out
                                  /\ MountOf(p, writable).writable = writable
<1> DEFINE c == MountsOf(s, writable)
<1>1. Len(s) \in Nat /\ DOMAIN s = 1 .. Len(s) /\ \A i \in 1 .. Len(s) : s[i] \in Pairs
  BY ElementOfSeq
<1>2. \A p \in Pairs : /\ MountOf(p, writable) \in MountSet /\ MountOf(p, writable).in = p.in
                       /\ MountOf(p, writable).out = p.out /\ MountOf(p, writable).writable = writable
  BY DEF MountOf, Pairs, MountSet
<1>3. c = [i \in 1 .. Len(s) |-> MountOf(s[i], writable)]
  BY DEF MountsOf
<1> HIDE DEF c
<1>4. c \in Seq(MountSet) /\ DOMAIN c = 1 .. Len(s) /\ \A i \in 1 .. Len(s) : c[i] = MountOf(s[i], writable)
  BY <1>1, <1>2, <1>3
<1>5. ToSet(c) = {MountOf(p, writable) : p \in ToSet(s)}
  BY <1>1, <1>4 DEF ToSet
<1>6. \A p \in ToSet(s) : p \in Pairs
  BY ElementsIn
<1> QED BY <1>2, <1>4, <1>5, <1>6 DEF c

LEMMA DefaultsAre ==
    /\ SameAll(DefaultDirs) \in Seq(Pairs) /\ ToSet(DefaultDirs) \subseteq PathSet
    /\ ToSet(SameAll(DefaultDirs)) = {Same(p) : p \in ToSet(DefaultDirs)}
<1>1. DefaultDirs \in Seq(PathSet)
  <2> DEFINE a == <<"", "bin">>  b == <<"", "usr", "bin">>  c == <<"", "usr", "lib">>  d == <<"", "lib">>
  <2>1. "" \in Strings /\ "usr" \in Strings /\ "bin" \in Strings /\ "lib" \in Strings
    BY Zenon DEF Strings
  <2>2. a \in PathSet /\ b \in PathSet /\ c \in PathSet /\ d \in PathSet
    BY <2>1, Listed, Zenon DEF PathSet
  <2>3. DefaultDirs = <<a, b, c, d>>
    BY Zenon DEF DefaultDirs
  <2> HIDE DEF a, b, c, d
  <2> QED BY <2>2, <2>3, Listed
<1> DEFINE s == DefaultDirs  e == SameAll(s)
<1> HIDE DEF s
<1>2. Len(s) \in Nat /\ DOMAIN s = 1 .. Len(s) /\ \A i \in 1 .. Len(s) : s[i] \in PathSet
  BY <1>1, ElementOfSeq DEF s
<1>3. e = [i \in 1 .. Len(s) |-> Same(s[i])]
  BY DEF SameAll
<1> HIDE DEF e
<1>4. e \in Seq(Pairs) /\ DOMAIN e = 1 .. Len(s) /\ \A i \in 1 .. Len(s) : e[i] = Same(s[i])
  BY <1>2, <1>3, SameIs
<1>5. ToSet(e) = {Same(p) : p \in ToSet(s)} /\ ToSet(s) \subseteq PathSet
  BY <1>2, <1>4 DEF ToSet
<1> QED BY <1>4, <1>5 DEF e, s

LEMMA OptionalAre ==
    /\ ToSet(OptionalDirs) = {OptionalDirs[1], OptionalDirs[2], OptionalDirs[3]}
    /\ ToSet(OptionalDirs) \subseteq PathSet
<1> DEFINE a == <<"", "usr", "lib32">>  b == <<"", "lib64">>  c == <<"", "lib32">>  s == OptionalDirs
<1>1. "" \in Strings /\ "usr" \in Strings /\ "lib32" \in Strings /\ "lib64" \in Strings
  BY Zenon DEF Strings
<1>2. a \in PathSet /\ b \in PathSet /\ c \in PathSet
  BY <1>1, Listed, Zenon DEF PathSet
<1>3. s = <<a, b, c>>
  BY Zenon DEF OptionalDirs
<1> HIDE DEF a, b, c, s
<1>4. DOMAIN s = {1, 2, 3} /\ s[1] = a /\ s[2] = b /\ s[3] = c
  BY <1>3
<1>5. ToSet(s) = {s[1], s[2], s[3]} /\ ToSet(s) \subseteq PathSet
  BY <1>2, <1>4 DEF ToSet
<1> QED BY <1>5 DEF s

LEMMA ProcIs == ProcMount \in MountSet /\ ~ProcMount.writable /\ ProcMount.in # ProcMount.out
<1> DEFINE out == <<"proc">>  in == <<"", "proc">>
<1>1. "" \in Strings /\ "proc" \in Strings
  BY Zenon DEF Strings
<1>2. out \in PathSet /\ in \in PathSet
  BY <1>1, Listed, Zenon DEF PathSet
<1>3. Len(out) = 1 /\ Len(in) = 2
  <2>1. \A x : Len(<<x>>) = 1
    OBVIOUS
  <2>2. \A x, y : Len(<<x, y>>) = 2
    OBVIOUS
  <2> QED BY <2>1, <2>2, Zenon
<1>4. ProcMount = [out |-> out, in |-> in, writable |-> FALSE]
  BY Zenon DEF ProcMount
<1> HIDE DEF out, in
<1> QED BY <1>2, <1>3, <1>4 DEF MountSet

LEMMA BeforeIs ==
    ASSUME NEW a, AsAsked(a)
    PROVE  /\ Before(a) \in Seq(MountSet) /\ ProcMount \in ToSet(Before(a))
           /\ \A m \in ToSet(Before(a)) : IsBefore(m, a)
           /\ \A i \in 2 .. Len(Before(a)) : IsReadable(Before(a)[i], a)
           /\ \A r \in ToSet(Reads(a)) \ ToSet(Writes(a)) : \E m \in ToSet(Before(a)) : m.in = r.in /\ m.out = r.out
<1> DEFINE proc == <<ProcMount>>
           default == IF a.skip THEN <<>> ELSE MountsOf(SameAll(DefaultDirs), FALSE)
           asked == MountsOf(Readable(a), FALSE)
<1>1. proc \in Seq(MountSet) /\ ToSet(proc) = {ProcMount}
  BY ProcIs, Listed, Elements
<1>2. default \in Seq(MountSet)
      /\ \A m \in ToSet(default) : ~m.writable /\ ~a.skip /\ m.in = m.out /\ m.out \in ToSet(DefaultDirs)
  <2>1. CASE a.skip
    BY <2>1, Elements
  <2>2. CASE ~a.skip
    <3>1. default = MountsOf(SameAll(DefaultDirs), FALSE)
      BY <2>2
    <3> HIDE DEF default
    <3>2. default \in Seq(MountSet) /\ ToSet(default) = {MountOf(p, FALSE) : p \in ToSet(SameAll(DefaultDirs))}
      BY <3>1, DefaultsAre, MountsAre
    <3>3. \A p \in ToSet(SameAll(DefaultDirs)) : /\ MountOf(p, FALSE).in = p.in /\ MountOf(p, FALSE).out = p.out
                                                 /\ MountOf(p, FALSE).writable = FALSE
      BY DefaultsAre, MountsAre
    <3>4. \A p \in ToSet(SameAll(DefaultDirs)) : p.in = p.out /\ p.out \in ToSet(DefaultDirs)
      BY DefaultsAre, SameIs
    <3> QED BY <2>2, <3>2, <3>3, <3>4
  <2> QED BY <2>1, <2>2
<1>3. Readable(a) \in Seq(Pairs) /\ ToSet(Readable(a)) = ToSet(Reads(a)) \ ToSet(Writes(a))
  BY ReadsAndWrites, OnceIs DEF Readable
<1>4. asked \in Seq(MountSet) /\ ToSet(asked) = {MountOf(p, FALSE) : p \in ToSet(Readable(a))}
      /\ \A p \in ToSet(Readable(a)) : /\ MountOf(p, FALSE).in = p.in /\ MountOf(p, FALSE).out = p.out
                                       /\ MountOf(p, FALSE).writable = FALSE
  BY <1>3, MountsAre
<1> HIDE DEF proc, default, asked
<1>5. Before(a) = (proc \o default) \o asked
  BY DEF Before, proc, default, asked
<1>7. Before(a) \in Seq(MountSet) /\ ToSet(Before(a)) = (ToSet(proc) \cup ToSet(default)) \cup ToSet(asked)
  <2>1. proc \in Seq(MountSet) /\ default \in Seq(MountSet) /\ asked \in Seq(MountSet)
    BY <1>1, <1>2, <1>4
  <2> QED BY <1>5, <2>1, ElementsOfThree
<1>8. ASSUME NEW m \in ToSet(Before(a)) PROVE IsBefore(m, a)
  BY <1>1, <1>2, <1>3, <1>4, <1>7, ZenonT(60) DEF IsBefore, IsReadable
<1>9. ASSUME NEW r \in ToSet(Reads(a)) \ ToSet(Writes(a))
      PROVE  \E m \in ToSet(Before(a)) : m.in = r.in /\ m.out = r.out
  <2>1. r \in ToSet(Readable(a))
    BY <1>3
  <2> QED BY <2>1, <1>4, <1>7
<1>10. ASSUME NEW i \in 2 .. Len(Before(a)) PROVE IsReadable(Before(a)[i], a)
  <2>1. Len(proc) = 1
    BY DEF proc
  <2>2. Before(a)[i] \in ToSet(default) \cup ToSet(asked)
    <3>1. proc \in Seq(MountSet) /\ default \in Seq(MountSet) /\ asked \in Seq(MountSet)
      BY <1>1, <1>2, <1>4
    <3>2. i \in 1 .. Len((proc \o default) \o asked) /\ i > Len(proc)
      BY <1>5, <2>1
    <3>3. ((proc \o default) \o asked)[i] \in ToSet(default) \cup ToSet(asked)
      BY <3>1, <3>2, BeyondFirst
    <3> QED BY <1>5, <3>3
  <2> DEFINE m == Before(a)[i]
  <2>3. m \in ToSet(default) \cup ToSet(asked)
    BY <2>2
  <2> HIDE DEF m
  <2>4. ASSUME m \in ToSet(default) PROVE IsReadable(m, a)
    BY <1>2, <2>4 DEF IsReadable
  <2>5. ASSUME m \in ToSet(asked) PROVE IsReadable(m, a)
    <3>1. PICK p \in ToSet(Readable(a)) : m = MountOf(p, FALSE)
      BY <1>4, <2>5
    <3>2. m.in = p.in /\ m.out = p.out /\ m.writable = FALSE /\ p \in ToSet(Reads(a))
      BY <1>3, <1>4, <3>1
    <3> QED BY <3>2 DEF IsReadable
  <2>6. IsReadable(m, a)
    BY <2>3, <2>4, <2>5
  <2> QED BY <2>6 DEF m
<1> QED BY <1>1, <1>7, <1>8, <1>9, <1>10

LEMMA AskedIs ==
    ASSUME NEW a, AsAsked(a)
    PROVE  /\ Asked(a) \in Seq(MountSet)
           /\ \A m \in ToSet(Asked(a)) : IsAsked(m, a)
           /\ \A w \in ToSet(Writes(a)) : \E m \in ToSet(Asked(a)) : m.in = w.in /\ m.out = w.out
<1>1. Writable(a) \in Seq(Pairs) /\ ToSet(Writable(a)) = ToSet(Writes(a))
  <2>1. Writable(a) \in Seq(Pairs) /\ ToSet(Writable(a)) = ToSet(Writes(a)) \ {}
    BY ReadsAndWrites, OnceIs DEF Writable
  <2> QED BY <2>1
<1>2. Asked(a) \in Seq(MountSet) /\ ToSet(Asked(a)) = {MountOf(p, TRUE) : p \in ToSet(Writable(a))}
      /\ \A p \in ToSet(Writable(a)) : /\ MountOf(p, TRUE).in = p.in /\ MountOf(p, TRUE).out = p.out
                                       /\ MountOf(p, TRUE).writable = TRUE
  BY <1>1, MountsAre, ZenonT(60) DEF Asked
<1>3. \A w \in ToSet(Writes(a)) : w.in = w.out
  BY ReadsAndWrites
<1>4. ASSUME NEW m \in ToSet(Asked(a)) PROVE IsAsked(m, a)
  <2>1. m \in {MountOf(p, TRUE) : p \in ToSet(Writable(a))}
    BY <1>2
  <2>2. PICK p \in ToSet(Writable(a)) : m = MountOf(p, TRUE)
    BY <2>1, Zenon
  <2>3. m.in = p.in /\ m.out = p.out /\ m.writable = TRUE
    BY <1>2, <2>2
  <2>4. p \in ToSet(Writes(a)) /\ p.in = p.out
    BY <1>1, <1>3, <2>2
  <2>5. m.writable
    BY <2>3
  <2>6. m.in = m.out /\ m.out = p.out
    BY <2>3, <2>4
  <2> QED BY <2>4, <2>5, <2>6, Zenon DEF IsAsked
<1>5. \A w \in ToSet(Writes(a)) : \E m \in ToSet(Asked(a)) : m.in = w.in /\ m.out = w.out
  BY <1>1, <1>2
<1> QED BY <1>2, <1>4, <1>5

LEMMA ThereIs ==
    ASSUME NEW p \in PathSet
    PROVE  There(p) \in Seq(MountSet)
           /\ \A m \in ToSet(There(p)) : p \in host /\ ~m.writable /\ m.in = p /\ m.out = p
<1> DEFINE m == MountOf(Same(p), FALSE)
<1>1. m \in MountSet /\ ~m.writable /\ m.in = p /\ m.out = p
  BY DEF MountOf, Same, MountSet
<1>2. CASE p \in host
  <2>1. There(p) = <<m>>
    BY <1>2 DEF There
  <2> HIDE DEF m
  <2>2. There(p) \in Seq(MountSet) /\ ToSet(There(p)) = {m}
    BY <1>1, <2>1, Listed, Elements
  <2> QED BY <1>1, <1>2, <2>2
<1>3. CASE p \notin host
  <2>1. There(p) = <<>>
    BY <1>3 DEF There
  <2> QED BY <2>1, Elements
<1> QED BY <1>2, <1>3

LEMMA AfterIs ==
    ASSUME NEW a
    PROVE  After(a) \in Seq(MountSet) /\ \A m \in ToSet(After(a)) : IsAfter(m) /\ m.out \in host /\ ~a.skip
<1> DEFINE x == There(OptionalDirs[1])  y == There(OptionalDirs[2])  z == There(OptionalDirs[3])
           F(m) == IsAfter(m) /\ m.out \in host
<1>1. /\ x \in Seq(MountSet) /\ \A m \in ToSet(x) : F(m)
      /\ y \in Seq(MountSet) /\ \A m \in ToSet(y) : F(m)
      /\ z \in Seq(MountSet) /\ \A m \in ToSet(z) : F(m)
  <2>1. OptionalDirs[1] \in PathSet /\ OptionalDirs[2] \in PathSet /\ OptionalDirs[3] \in PathSet
    BY OptionalAre
  <2> QED BY <2>1, ThereIs, OptionalAre DEF IsAfter
<1> HIDE DEF x, y, z, F
<1>3. (x \o y) \o z \in Seq(MountSet) /\ ToSet((x \o y) \o z) = (ToSet(x) \cup ToSet(y)) \cup ToSet(z)
  BY <1>1, ElementsOfThree
<1>4. CASE a.skip
  <2>1. After(a) = <<>>
    BY <1>4 DEF After
  <2> QED BY <2>1, Elements
<1>5. CASE ~a.skip
  <2>1. After(a) = (x \o y) \o z
    BY <1>5 DEF After, x, y, z
  <2> QED BY <1>1, <1>3, <1>5, <2>1 DEF F
<1> QED BY <1>4, <1>5

LEMMA PlannedIs ==
    ASSUME NEW a, AsAsked(a)
    PROVE  /\ Planned(a) = (Before(a) \o Asked(a)) \o After(a)
           /\ Before(a) \o Asked(a) \in Seq(MountSet)
           /\ Planned(a) \in Seq(MountSet) /\ Planned(a) # <<>>
<1>1. Planned(a) = (Before(a) \o Asked(a)) \o After(a)
  BY Zenon DEF Planned, Before, Asked, After
<1>2. Before(a) \in Seq(MountSet) /\ Asked(a) \in Seq(MountSet) /\ After(a) \in Seq(MountSet)
  BY BeforeIs, AskedIs, AfterIs
<1>3. /\ Before(a) \o Asked(a) \in Seq(MountSet) /\ Planned(a) \in Seq(MountSet)
      /\ ToSet(Planned(a)) = (ToSet(Before(a)) \cup ToSet(Asked(a))) \cup ToSet(After(a))
  BY <1>1, <1>2, ElementsOfThree
<1>4. ProcMount \in ToSet(Planned(a))
  BY <1>3, BeforeIs
<1>5. Planned(a) # <<>>
  BY <1>4, Elements
<1> QED BY <1>1, <1>3, <1>5

(* The order of the mounts: after a writable one, there are only those of    *)
(* directories seen where they are.                                         *)
Ordered(made, a) ==
    /\ \A i \in 1 .. Len(made) : IsBefore(made[i], a) \/ IsAsked(made[i], a) \/ IsAfter(made[i])
    /\ \A i \in 1 .. Len(made) : IsAfter(made[i]) => IsAsked(made[i], a) \/ IsBefore(made[i], a) \/ (made[i].out \in host /\ ~a.skip)
    /\ \A i \in 2 .. Len(made) : IsReadable(made[i], a) \/ IsAsked(made[i], a) \/ IsAfter(made[i])
    /\ \A i, j \in 1 .. Len(made) : i < j /\ made[i].writable => IsAsked(made[j], a) \/ IsAfter(made[j])
    /\ \A w \in ToSet(Writes(a)) : \E i \in 1 .. Len(made) :
        /\ made[i].in = w.in /\ made[i].out = w.out /\ made[i].writable
        /\ \A j \in 1 .. Len(made) : i < j => IsAsked(made[j], a) \/ IsAfter(made[j])
    /\ \A r \in ToSet(Reads(a)) : \E i \in 1 .. Len(made) : made[i].in = r.in /\ made[i].out = r.out

LEMMA PlannedOrder ==
    ASSUME NEW a, AsAsked(a)
    PROVE  Ordered(Planned(a), a)
<1> DEFINE b == Before(a)  w == Asked(a)  o == After(a)  P == Planned(a)
           nb == Len(b)  nw == Len(w)  no == Len(o)
<1>1. b \in Seq(MountSet) /\ w \in Seq(MountSet) /\ o \in Seq(MountSet)
  BY BeforeIs, AskedIs, AfterIs
<1>2. nb \in Nat /\ nw \in Nat /\ no \in Nat
  BY <1>1
<1>3. /\ Len(P) = nb + nw + no
      /\ \A i \in 1 .. nb : P[i] = b[i]
      /\ \A i \in 1 .. nw : P[nb + i] = w[i]
      /\ \A i \in 1 .. no : P[nb + nw + i] = o[i]
  <2> DEFINE c == b \o w
  <2>1. /\ c \in Seq(MountSet) /\ Len(c) = nb + nw
        /\ \A i \in 1 .. nb + nw : c[i] = IF i <= nb THEN b[i] ELSE w[i - nb]
    BY <1>1, ConcatProperties
  <2>2. P = c \o o
    BY PlannedIs
  <2> HIDE DEF b, w, o, c, P
  <2>3. /\ Len(P) = (nb + nw) + no
        /\ \A i \in 1 .. (nb + nw) + no : P[i] = IF i <= nb + nw THEN c[i] ELSE o[i - (nb + nw)]
    <3>1. /\ Len(P) = Len(c) + Len(o)
          /\ \A i \in 1 .. Len(c) + Len(o) : P[i] = IF i <= Len(c) THEN c[i] ELSE o[i - Len(c)]
      <4>1. c \in Seq(MountSet) /\ o \in Seq(MountSet)
        BY <1>1, <2>1
      <4> HIDE DEF nb, nw, no
      <4>2. /\ Len(c \o o) = Len(c) + Len(o)
            /\ \A i \in 1 .. Len(c) + Len(o) : (c \o o)[i] = IF i <= Len(c) THEN c[i] ELSE o[i - Len(c)]
        BY <4>1, ConcatProperties
      <4> QED BY <2>2, <4>2
    <3>2. Len(c) = nb + nw /\ Len(o) = no
      BY <2>1
    <3> HIDE DEF nb, nw, no
    <3> QED BY <3>1, <3>2
  <2> HIDE DEF nb, nw, no
  <2>4. ASSUME NEW i \in 1 .. nb PROVE P[i] = b[i]
    <3>1. i \in 1 .. nb + nw /\ i \in 1 .. (nb + nw) + no /\ i <= nb /\ i <= nb + nw
      BY <1>2
    <3> QED BY <2>1, <2>3, <3>1
  <2>5. ASSUME NEW i \in 1 .. nw PROVE P[nb + i] = w[i]
    <3> DEFINE k == nb + i
    <3>1. k \in 1 .. nb + nw /\ k \in 1 .. (nb + nw) + no /\ ~(k <= nb) /\ k <= nb + nw /\ k - nb = i
      BY <1>2
    <3> HIDE DEF k
    <3>2. P[k] = w[i]
      BY <2>1, <2>3, <3>1
    <3> QED BY <3>2 DEF k
  <2>6. ASSUME NEW i \in 1 .. no PROVE P[nb + nw + i] = o[i]
    <3> DEFINE k == nb + nw + i
    <3>1. k \in 1 .. (nb + nw) + no /\ ~(k <= nb + nw) /\ k - (nb + nw) = i
      BY <1>2
    <3> HIDE DEF k
    <3>2. P[k] = o[i]
      BY <2>3, <3>1
    <3> QED BY <3>2 DEF k
  <2> QED BY <2>3, <2>4, <2>5, <2>6
<1>4. /\ \A i \in 1 .. nb : IsBefore(b[i], a)
      /\ \A i \in 2 .. nb : IsReadable(b[i], a)
      /\ \A i \in 1 .. nw : IsAsked(w[i], a)
      /\ \A i \in 1 .. no : IsAfter(o[i]) /\ o[i].out \in host /\ ~a.skip
  BY <1>1, BeforeIs, AskedIs, AfterIs, ElementsIn, ZenonT(60)
<1>5. /\ \A x \in ToSet(Writes(a)) : \E i \in 1 .. nw : w[i].in = x.in /\ w[i].out = x.out
      /\ \A x \in ToSet(Reads(a)) \ ToSet(Writes(a)) : \E i \in 1 .. nb : b[i].in = x.in /\ b[i].out = x.out
  <2>1. /\ \A x \in ToSet(Writes(a)) : \E m \in ToSet(w) : m.in = x.in /\ m.out = x.out
        /\ \A x \in ToSet(Reads(a)) \ ToSet(Writes(a)) : \E m \in ToSet(b) : m.in = x.in /\ m.out = x.out
    BY BeforeIs, AskedIs
  <2>2. (\A m \in ToSet(w) : \E i \in 1 .. nw : w[i] = m) /\ (\A m \in ToSet(b) : \E i \in 1 .. nb : b[i] = m)
    BY <1>1, ElementsIn
  <2> HIDE DEF b, w, nb, nw
  <2> QED BY <2>1, <2>2
<1> HIDE DEF b, w, o, P, nb, nw, no
<1>6. /\ \A i \in 1 .. nb : i \in 1 .. Len(P)
      /\ \A i \in 1 .. nw : nb + i \in 1 .. Len(P)
      /\ \A i \in 1 .. Len(P) : \/ i \in 1 .. nb
                                \/ \E k \in 1 .. nw : i = nb + k
                                \/ \E k \in 1 .. no : i = nb + nw + k
  <2>1. ASSUME NEW i \in 1 .. Len(P) PROVE \/ i \in 1 .. nb
                                           \/ \E k \in 1 .. nw : i = nb + k
                                           \/ \E k \in 1 .. no : i = nb + nw + k
    <3>1. CASE i <= nb
      BY <3>1, <1>2, <1>3
    <3>2. CASE ~(i <= nb) /\ i <= nb + nw
      <4>1. i - nb \in 1 .. nw /\ i = nb + (i - nb)
        BY <3>2, <1>2, <1>3
      <4> QED BY <4>1
    <3>3. CASE ~(i <= nb) /\ ~(i <= nb + nw)
      <4>1. i - (nb + nw) \in 1 .. no /\ i = nb + nw + (i - (nb + nw))
        BY <3>3, <1>2, <1>3
      <4> QED BY <4>1
    <3> QED BY <3>1, <3>2, <3>3
  <2>2. \A i \in 1 .. nb : i \in 1 .. Len(P)
    BY <1>2, <1>3
  <2>3. \A i \in 1 .. nw : nb + i \in 1 .. Len(P)
    BY <1>2, <1>3
  <2> QED BY <2>1, <2>2, <2>3
<1>7. ASSUME NEW i \in 1 .. Len(P)
      PROVE  /\ IsBefore(P[i], a) \/ IsAsked(P[i], a) \/ IsAfter(P[i])
             /\ ~(i \in 1 .. nb) => IsAsked(P[i], a) \/ IsAfter(P[i])
             /\ IsAfter(P[i]) => IsAsked(P[i], a) \/ IsBefore(P[i], a) \/ (P[i].out \in host /\ ~a.skip)
  BY <1>3, <1>4, <1>6
<1>8. ASSUME NEW i \in 1 .. nb PROVE ~P[i].writable
  BY <1>3, <1>4, ProcIs DEF IsBefore, IsReadable
<1>13. ASSUME NEW i \in 2 .. Len(P) PROVE IsReadable(P[i], a) \/ IsAsked(P[i], a) \/ IsAfter(P[i])
  <2>1. i \in 1 .. Len(P) /\ (i \in 1 .. nb => i \in 2 .. nb)
    OBVIOUS
  <2> QED BY <1>3, <1>4, <1>7, <2>1
<1>9. ASSUME NEW i \in 1 .. Len(P), NEW j \in 1 .. Len(P), i < j, P[i].writable
      PROVE  IsAsked(P[j], a) \/ IsAfter(P[j])
  <2>1. ~(i \in 1 .. nb)
    BY <1>8, <1>9
  <2>2. ~(j \in 1 .. nb)
    BY <2>1, <1>9, <1>2
  <2> QED BY <1>7, <2>2
<1>10. ASSUME NEW x \in ToSet(Writes(a))
       PROVE  \E i \in 1 .. Len(P) : /\ P[i].in = x.in /\ P[i].out = x.out /\ P[i].writable
                                     /\ \A j \in 1 .. Len(P) : i < j => IsAsked(P[j], a) \/ IsAfter(P[j])
  <2>1. PICK k \in 1 .. nw : w[k].in = x.in /\ w[k].out = x.out
    BY <1>5
  <2> DEFINE i == nb + k
  <2>2. i \in 1 .. Len(P) /\ P[i] = w[k]
    BY <1>3, <1>6
  <2> HIDE DEF i
  <2>3. P[i].writable
    BY <2>2, <1>4 DEF IsAsked
  <2>4. \A j \in 1 .. Len(P) : i < j => IsAsked(P[j], a) \/ IsAfter(P[j])
    BY <1>9, <2>2, <2>3
  <2> QED BY <2>1, <2>2, <2>3, <2>4
<1>11. ASSUME NEW x \in ToSet(Reads(a))
       PROVE  \E i \in 1 .. Len(P) : P[i].in = x.in /\ P[i].out = x.out
  <2>1. CASE x \in ToSet(Writes(a))
    BY <1>10, <2>1
  <2>2. CASE x \notin ToSet(Writes(a))
    <3>1. PICK k \in 1 .. nb : b[k].in = x.in /\ b[k].out = x.out
      BY <1>5, <2>2
    <3> QED BY <1>3, <1>6, <3>1
  <2> QED BY <2>1, <2>2
<1>12. Ordered(P, a)
  BY <1>7, <1>9, <1>10, <1>11, <1>13 DEF Ordered
<1> QED BY <1>12 DEF P

-----------------------------------------------------------------------------
(* The sandbox has begun to mount. *)
Underway == mounts # <<>> \/ todo # <<>>

(* The host is as it was; what is mounted and what is still to be mounted   *)
(* make up the plan, in a private namespace, and was there to be mounted.   *)
Made ==
    /\ host = HostDirs
    /\ mounts \in Seq(MountSet) /\ todo \in Seq(MountSet)
    /\ Underway => private /\ mounts \o todo = Planned(args)
    /\ pc \in {"running", "panic"} => Underway
    /\ pc = "running" => todo = <<>>
    /\ \A m \in ToSet(mounts) : Absolute(m.in) /\ (m = ProcMount \/ m.out \in host)

IInv == TypeOK /\ Made

-----------------------------------------------------------------------------
(* What is seen at a path. *)
LEMMA PrefixIs ==
    ASSUME NEW s \in PathSet, NEW u \in PathSet
    PROVE  IsPrefix(s, u) <=> Len(s) <= Len(u) /\ \A i \in 1 .. Len(s) : s[i] = u[i]
<1>1. Len(s) \in Nat /\ Len(u) \in Nat /\ (\A i \in 1 .. Len(u) : u[i] \in Strings) /\ \A i \in 1 .. Len(s) : s[i] \in Strings
  BY ElementOfSeq DEF PathSet
<1> DEFINE b == SubSeq(u, 1, Len(s))
<1>2. ASSUME Len(s) <= Len(u)
      PROVE  b \in Seq(Strings) /\ Len(b) = Len(s) /\ \A i \in 1 .. Len(s) : b[i] = u[i]
  <2>1. \A i \in 1 .. Len(s) : u[i] \in Strings
    BY <1>1, <1>2
  <2>2. /\ b \in Seq(Strings) /\ Len(b) = (IF 1 <= Len(s) THEN Len(s) - 1 + 1 ELSE 0)
        /\ \A i \in 1 .. Len(s) - 1 + 1 : b[i] = u[1 + i - 1]
    BY <1>1, <2>1, SubSeqProperties
  <2> HIDE DEF b
  <2>3. Len(b) = Len(s)
    BY <1>1, <2>2
  <2>4. \A i \in 1 .. Len(s) : i \in 1 .. Len(s) - 1 + 1 /\ 1 + i - 1 = i
    BY <1>1
  <2> QED BY <2>2, <2>3, <2>4
<1>3. IsPrefix(s, u) <=> Len(s) <= Len(u) /\ s = b
  <2>1. SubSeq(s, 1, Len(s)) = s
    BY SubSeqFull DEF PathSet
  <2> QED BY <2>1, Zenon DEF IsPrefix, b
<1> HIDE DEF b
<1>4. ASSUME Len(s) <= Len(u) PROVE s = b <=> \A i \in 1 .. Len(s) : s[i] = u[i]
  <2>1. s \in Seq(Strings)
    BY DEF PathSet
  <2>2. (\A i \in 1 .. Len(s) : s[i] = b[i]) => s = b
    BY <1>2, <1>4, <2>1, SeqEqual
  <2> QED BY <1>2, <1>4, <2>2
<1> QED BY <1>3, <1>4

LEMMA PrefixOfPrefix ==
    ASSUME NEW s \in PathSet, NEW u \in PathSet, NEW v \in PathSet, IsPrefix(s, u), IsPrefix(u, v)
    PROVE  IsPrefix(s, v)
<1>1. Len(s) \in Nat /\ Len(u) \in Nat /\ Len(v) \in Nat
  BY DEF PathSet
<1>2. Len(s) <= Len(u) /\ Len(u) <= Len(v) /\ (\A i \in 1 .. Len(s) : s[i] = u[i]) /\ \A i \in 1 .. Len(u) : u[i] = v[i]
  BY PrefixIs
<1>3. Len(s) <= Len(v) /\ \A i \in 1 .. Len(s) : i \in 1 .. Len(u)
  BY <1>1, <1>2
<1> QED BY <1>2, <1>3, PrefixIs

LEMMA PrefixOfItself == \A s \in PathSet : IsPrefix(s, s)
<1> TAKE s \in PathSet
<1>1. Len(s) \in Nat
  BY DEF PathSet
<1> QED BY <1>1, PrefixIs

(* Of two paths above a third one is above the other. *)
LEMMA PrefixesMeet ==
    ASSUME NEW s \in PathSet, NEW u \in PathSet, NEW v \in PathSet, IsPrefix(s, v), IsPrefix(u, v)
    PROVE  IsPrefix(s, u) \/ IsPrefix(u, s)
<1>1. Len(s) \in Nat /\ Len(u) \in Nat
  BY DEF PathSet
<1>2. (\A i \in 1 .. Len(s) : s[i] = v[i]) /\ \A i \in 1 .. Len(u) : u[i] = v[i]
  BY PrefixIs
<1>3. CASE Len(s) <= Len(u)
  <2>1. \A i \in 1 .. Len(s) : i \in 1 .. Len(u)
    BY <1>1, <1>3
  <2> QED BY <1>2, <1>3, <2>1, PrefixIs
<1>4. CASE ~(Len(s) <= Len(u))
  <2>1. Len(u) <= Len(s) /\ \A i \in 1 .. Len(u) : i \in 1 .. Len(s)
    BY <1>1, <1>4
  <2> QED BY <1>2, <2>1, PrefixIs
<1> QED BY <1>3, <1>4

LEMMA RestIs ==
    ASSUME NEW q \in PathSet, NEW p \in PathSet, IsPrefix(q, p)
    PROVE  Rest(p, q) \in PathSet /\ q \o Rest(p, q) = p
<1> DEFINE r == Rest(p, q)  n == Len(q)  m == Len(p)  c == q \o r
<1>1. n \in Nat /\ m \in Nat /\ n <= m /\ (\A i \in 1 .. n : q[i] = p[i]) /\ \A i \in 1 .. m : p[i] \in Strings
  BY PrefixIs, ElementOfSeq DEF PathSet
<1> HIDE DEF n, m
<1>2. r = SubSeq(p, n + 1, m)
  BY DEF Rest, n, m
<1>3. \A i \in n + 1 .. m : p[i] \in Strings
  BY <1>1
<1> HIDE DEF r
<1>4. /\ r \in Seq(Strings) /\ Len(r) = (IF n + 1 <= m THEN m - (n + 1) + 1 ELSE 0)
      /\ \A i \in 1 .. m - (n + 1) + 1 : r[i] = p[n + 1 + i - 1]
  <2>1. n + 1 \in Int /\ m \in Int
    BY <1>1
  <2> DEFINE k == n + 1
  <2>2. k \in Int /\ r = SubSeq(p, k, m) /\ \A i \in k .. m : p[i] \in Strings
    BY <1>2, <1>3, <2>1
  <2> HIDE DEF k
  <2>3. /\ r \in Seq(Strings) /\ Len(r) = (IF k <= m THEN m - k + 1 ELSE 0)
        /\ \A i \in 1 .. m - k + 1 : r[i] = p[k + i - 1]
    BY <2>1, <2>2, SubSeqProperties
  <2> QED BY <2>3 DEF k
<1>5. Len(r) = m - n /\ \A i \in 1 .. m - n : r[i] = p[n + i]
  <2>1. Len(r) = m - n
    BY <1>1, <1>4
  <2>2. \A i \in 1 .. m - n : i \in 1 .. m - (n + 1) + 1 /\ n + 1 + i - 1 = n + i
    BY <1>1
  <2> QED BY <1>4, <2>1, <2>2
<1>6. /\ c \in Seq(Strings) /\ Len(c) = n + Len(r)
      /\ \A i \in 1 .. n + Len(r) : c[i] = IF i <= n THEN q[i] ELSE r[i - n]
  BY <1>4, ConcatProperties DEF PathSet, n
<1> HIDE DEF c
<1>7. Len(c) = m
  BY <1>1, <1>5, <1>6
<1>8. ASSUME NEW i \in 1 .. m PROVE c[i] = p[i]
  <2>1. i \in 1 .. n + Len(r)
    BY <1>1, <1>5
  <2>2. CASE i <= n
    <3>1. i \in 1 .. n
      BY <2>2, <1>1
    <3> QED BY <1>1, <1>6, <2>1, <2>2, <3>1
  <2>3. CASE ~(i <= n)
    <3>1. i - n \in 1 .. m - n /\ n + (i - n) = i
      BY <2>3, <1>1
    <3> QED BY <1>5, <1>6, <2>1, <2>3, <3>1
  <2> QED BY <2>2, <2>3
<1>9. p \in Seq(Strings) /\ Len(p) = m
  BY DEF PathSet, m
<1>10. c = p
  BY <1>6, <1>7, <1>8, <1>9, SeqEqual
<1> QED BY <1>4, <1>10 DEF PathSet, c, r

(* The directories above one. *)
LEMMA ParentsAre ==
    ASSUME NEW p \in PathSet, Absolute(p), NEW q \in Parents(p)
    PROVE  q \in PathSet /\ Absolute(q) /\ IsPrefix(q, p) /\ (p \in HostDirs => q \in HostDirs)
<1>1. PICK n \in 2 .. Len(p) : q = SubSeq(p, 1, n)
  BY DEF Parents
<1>2. Len(p) \in Nat /\ \A i \in 1 .. Len(p) : p[i] \in Strings
  BY ElementOfSeq DEF PathSet
<1>3. \A i \in 1 .. n : i \in 1 .. Len(p) /\ p[i] \in Strings
  BY <1>2
<1>4. /\ q \in Seq(Strings) /\ Len(q) = (IF 1 <= n THEN n - 1 + 1 ELSE 0)
      /\ \A i \in 1 .. n - 1 + 1 : q[i] = p[1 + i - 1]
  <2>1. 1 \in Int /\ n \in Int
    OBVIOUS
  <2> QED BY <1>1, <1>3, <2>1, SubSeqProperties
<1>5. Len(q) = n /\ \A i \in 1 .. n : q[i] = p[i]
  <2>1. \A i \in 1 .. n : i \in 1 .. n - 1 + 1 /\ 1 + i - 1 = i
    OBVIOUS
  <2>2. Len(q) = n
    BY <1>4
  <2> QED BY <1>4, <2>1, <2>2
<1>6. q \in PathSet
  BY <1>4 DEF PathSet
<1>7. IsPrefix(q, p)
  <2>1. Len(q) <= Len(p)
    BY <1>2, <1>5
  <2> QED BY <1>5, <1>6, <2>1, PrefixIs
<1>8. Absolute(q)
  <2>1. Len(q) > 1 /\ q[1] = p[1]
    BY <1>5
  <2> QED BY <2>1, Zenon DEF Absolute
<1>9. p \in HostDirs => q \in HostDirs
  BY <1>1, ContainerAssumption
<1> QED BY <1>6, <1>7, <1>8, <1>9

(* The mount that covers a path is the last one that it lies in. *)
LEMMA CoveringIs ==
    ASSUME mounts \in Seq(MountSet), NEW p, Covers(p) # {}
    PROVE  \E i \in Covers(p) : Covering(p) = mounts[i] /\ \A j \in Covers(p) : j <= i
<1> DEFINE n == Len(mounts)  C == Covers(p)  Left == {n - i : i \in C}
<1>1. n \in Nat /\ C \subseteq 1 .. n
  BY DEF Covers
<1> HIDE DEF n
<1>2. Left \subseteq Nat /\ Left # {}
  BY <1>1
<1> HIDE DEF C
<1>3. PICK k \in Left : \A l \in Left : k <= l
  <2> HIDE DEF Left
  <2> QED BY <1>2, LeastNumber
<1>4. PICK i \in C : k = n - i
  OBVIOUS
<1>5. \A j \in C : j <= i
  <2> TAKE j \in C
  <2>1. n - j \in Left
    OBVIOUS
  <2>2. n - i <= n - j /\ i \in Int /\ j \in Int
    <3> HIDE DEF Left
    <3> QED BY <1>1, <1>3, <1>4, <2>1
  <2> QED BY <1>1, <2>2
<1>6. Covering(p) = mounts[CHOOSE x \in C : \A j \in C : j <= x]
  BY DEF Covering, C
<1>7. (CHOOSE x \in C : \A j \in C : j <= x) = i
  <2>1. \A x \in C : (\A j \in C : j <= x) => x = i
    BY <1>1, <1>5
  <2> QED BY <1>5, <2>1
<1> QED BY <1>5, <1>6, <1>7 DEF C

LEMMA CoversIs ==
    ASSUME mounts \in Seq(MountSet), NEW p
    PROVE  /\ Covers(p) \subseteq 1 .. Len(mounts) /\ Len(mounts) \in Nat
           /\ \A i \in 1 .. Len(mounts) : i \in Covers(p) <=> IsPrefix(mounts[i].in, p)
           /\ \A i \in 1 .. Len(mounts) : mounts[i] \in MountSet /\ mounts[i] \in ToSet(mounts)
BY ElementOfSeq DEF Covers, ToSet

(* What a mount shows where it is, is seen where it is. *)
LEMMA SeenHere ==
    ASSUME mounts \in Seq(MountSet), NEW p \in PathSet, Covers(p) # {}, Covering(p).in = Covering(p).out
    PROVE  Seen(p) = p
<1>1. PICK i \in Covers(p) : Covering(p) = mounts[i]
  BY CoveringIs
<1>2. Covering(p).in \in PathSet /\ IsPrefix(Covering(p).in, p)
  BY <1>1, CoversIs DEF MountSet
<1> QED BY <1>2, RestIs DEF Seen

(* A mount that comes after a writable one is made without a directory      *)
(* being made on the host.                                                   *)
LEMMA NothingMadeOnHost ==
    ASSUME Made, args \in AllArgs, todo # <<>>, Mountable(Head(todo))
    PROVE  {Seen(q) : q \in {r \in Missing(Head(todo).in) : Covers(r) # {}}} = {}
<1> DEFINE m == Head(todo)  P == mounts \o todo  k == Len(mounts) + 1
<1> SUFFICES ASSUME NEW q \in Missing(m.in), Covers(q) # {} PROVE FALSE
  OBVIOUS
<1>1. mounts \in Seq(MountSet) /\ todo \in Seq(MountSet) /\ host = HostDirs /\ P = Planned(args)
  BY DEF Made, Underway
<1>2. Ordered(P, args)
  BY <1>1, AllAsked, PlannedOrder
<1>3. /\ Len(mounts) \in Nat /\ k \in 1 .. Len(P) /\ P[k] = m /\ m \in MountSet
      /\ \A i \in 1 .. Len(mounts) : i \in 1 .. Len(P) /\ P[i] = mounts[i]
  <2>1. Len(todo) \in Nat \ {0} /\ m = todo[1] /\ m \in MountSet /\ Len(mounts) \in Nat
    BY <1>1, EmptySeq, ElementOfSeq
  <2>2. /\ Len(P) = Len(mounts) + Len(todo)
        /\ \A i \in 1 .. Len(mounts) + Len(todo) : P[i] = IF i <= Len(mounts) THEN mounts[i] ELSE todo[i - Len(mounts)]
    BY <1>1, ConcatProperties
  <2> HIDE DEF P, m
  <2>3. k \in 1 .. Len(mounts) + Len(todo) /\ ~(k <= Len(mounts)) /\ k - Len(mounts) = 1
    BY <2>1
  <2>4. P[k] = m
    <3> HIDE DEF k
    <3> QED BY <2>1, <2>2, <2>3
  <2>5. \A i \in 1 .. Len(mounts) : i \in 1 .. Len(mounts) + Len(todo) /\ i <= Len(mounts)
    BY <2>1
  <2> QED BY <2>1, <2>2, <2>3, <2>4, <2>5
<1>4. Absolute(m.in) /\ m.in \in PathSet /\ CanWrite(q) /\ ~Exists(q) /\ q \in Parents(m.in)
      /\ (m = ProcMount \/ m.out \in host)
  BY <1>3 DEF Mountable, Missing, MountSet
<1>5. PICK i \in Covers(q) : Covering(q) = mounts[i]
  BY <1>1, <1>4, CoveringIs
<1>6. i \in 1 .. Len(mounts) /\ P[i].writable
  BY <1>1, <1>3, <1>4, <1>5, CoversIs DEF CanWrite
<1>7. i < k
  BY <1>3, <1>6
<1> HIDE DEF P, k, m
<1>8. P[i].in = P[i].out
  BY <1>2, <1>3, <1>6, ProcIs DEF Ordered, IsBefore, IsReadable, IsAsked, IsAfter
<1>9. m.in = m.out
  BY <1>2, <1>3, <1>6, <1>7 DEF Ordered, IsAsked, IsAfter
<1>10. m.in \in HostDirs
  BY <1>1, <1>4, <1>9, ProcIs
<1>11. q \in HostDirs /\ q \in PathSet
  BY <1>4, <1>10, ParentsAre
<1>12. Seen(q) = q
  BY <1>1, <1>3, <1>5, <1>6, <1>8, <1>11, SeenHere
<1> QED BY <1>1, <1>4, <1>11, <1>12 DEF Exists

(* The next mount goes from what is to be mounted to what is. *)
LEMMA MoveOne ==
    ASSUME NEW s \in Seq(MountSet), NEW u \in Seq(MountSet), u # <<>>
    PROVE  /\ Append(s, Head(u)) \in Seq(MountSet) /\ Tail(u) \in Seq(MountSet)
           /\ ToSet(Append(s, Head(u))) = ToSet(s) \cup {Head(u)}
           /\ Append(s, Head(u)) \o Tail(u) = s \o u
<1> DEFINE a == Append(s, Head(u))  v == Tail(u)  n == Len(s)  k == Len(u)
           c == a \o v  d == s \o u
<1>1. n \in Nat /\ k \in Nat \ {0} /\ Head(u) = u[1] /\ u[1] \in MountSet
  BY EmptySeq, ElementOfSeq
<1>2. a \in Seq(MountSet) /\ Len(a) = n + 1 /\ (\A i \in 1 .. n : a[i] = s[i]) /\ a[n + 1] = u[1]
      /\ ToSet(a) = ToSet(s) \cup {Head(u)}
  BY <1>1, ElementsOfMore
<1>3. v \in Seq(MountSet) /\ Len(v) = k - 1 /\ \A i \in 1 .. k - 1 : v[i] = u[i + 1]
  BY <1>1, HeadTailProperties
<1>4. /\ d \in Seq(MountSet) /\ Len(d) = n + k
      /\ \A i \in 1 .. n + k : d[i] = IF i <= n THEN s[i] ELSE u[i - n]
  BY ConcatProperties
<1> HIDE DEF a, v, d
<1>5. /\ c \in Seq(MountSet) /\ Len(c) = Len(a) + Len(v)
      /\ \A i \in 1 .. Len(a) + Len(v) : c[i] = IF i <= Len(a) THEN a[i] ELSE v[i - Len(a)]
  BY <1>2, <1>3, ConcatProperties
<1> HIDE DEF c, n, k
<1>6. Len(c) = n + k /\ Len(a) + Len(v) = n + k
  BY <1>1, <1>2, <1>3, <1>5
<1>7. ASSUME NEW i \in 1 .. n + k PROVE c[i] = d[i]
  <2>1. CASE i <= n
    <3>1. i \in 1 .. n /\ i <= n + 1
      BY <1>1, <2>1
    <3> QED BY <1>2, <1>4, <1>5, <1>6, <2>1, <3>1
  <2>2. CASE i = n + 1
    <3>1. ~(i <= n) /\ i - n = 1 /\ i <= n + 1
      BY <1>1, <2>2
    <3> QED BY <1>2, <1>4, <1>5, <1>6, <2>2, <3>1
  <2>3. CASE ~(i <= n + 1)
    <3>1. ~(i <= n) /\ i - (n + 1) \in 1 .. k - 1 /\ (i - (n + 1)) + 1 = i - n
      BY <1>1, <2>3
    <3>2. d[i] = u[i - n]
      BY <1>4, <3>1
    <3>3. c[i] = v[i - (n + 1)]
      BY <1>2, <1>5, <1>6, <2>3
    <3>4. v[i - (n + 1)] = u[(i - (n + 1)) + 1]
      BY <1>3, <3>1
    <3> QED BY <3>1, <3>2, <3>3, <3>4
  <2> QED BY <1>1, <2>1, <2>2, <2>3
<1>8. c = d
  BY <1>4, <1>5, <1>6, <1>7, SeqEqual
<1> QED BY <1>2, <1>3, <1>8 DEF a, v, c, d

LEMMA ArgsTypes == IInv => args \in AllArgs /\ AsAsked(args)
BY AllAsked DEF IInv, TypeOK

LEMMA MadeStart == Init => IInv
<1> SUFFICES ASSUME Init PROVE IInv
  OBVIOUS
<1>1. TypeOK
  BY DEF Init, TypeOK
<1>2. Made
  BY Elements DEF Init, Made, Underway
<1> QED BY <1>1, <1>2 DEF IInv

LEMMA StartStep == IInv /\ Start => IInv' /\ host' = host
<1> SUFFICES ASSUME IInv, Start PROVE IInv' /\ host' = host
  OBVIOUS
<1> USE DEF IInv, Start
<1>1. TypeOK'
  BY DEF TypeOK
<1>2. Made'
  BY Elements DEF Made, Underway
<1> QED BY <1>1, <1>2

LEMMA PrivatizeStep == IInv /\ Privatize => IInv' /\ host' = host
<1> SUFFICES ASSUME IInv, Privatize PROVE IInv' /\ host' = host
  OBVIOUS
<1> USE DEF IInv, Privatize
<1>1. TypeOK'
  BY DEF TypeOK
<1>2. Planned(args)' = Planned(args)
  BY DEF Planned, There
<1>3. Planned(args) \in Seq(MountSet)
  BY ArgsTypes, PlannedIs
<1>4. mounts' \o todo' = Planned(args)
  <2>1. mounts' = <<>> /\ todo' = Planned(args)
    OBVIOUS
  <2> QED BY <1>3, <2>1, ConcatEmptySeq
<1>5. Made'
  BY <1>2, <1>3, <1>4 DEF Made, Underway, TypeOK
<1> QED BY <1>1, <1>5

LEMMA MountStep == IInv /\ Mount => IInv' /\ host' = host
<1> SUFFICES ASSUME IInv, Mount PROVE IInv' /\ host' = host
  OBVIOUS
<1> USE DEF IInv
<1>1. /\ pc = "boot" /\ todo # <<>> /\ Mountable(Head(todo)) /\ args' = args /\ private' = private
      /\ dirs' = dirs \cup {q \in Missing(Head(todo).in) : Covers(q) = {}}
      /\ mounts' = Append(mounts, Head(todo)) /\ todo' = Tail(todo)
      /\ pc' = IF todo' = <<>> THEN "running" ELSE "boot"
  BY DEF Mount, Bound
<1>2. host' = host
  BY <1>1, NothingMadeOnHost, ArgsTypes DEF Mount
<1>3. mounts \in Seq(MountSet) /\ todo \in Seq(MountSet) /\ private /\ mounts \o todo = Planned(args)
  BY <1>1 DEF Made, Underway
<1>4. /\ mounts' \in Seq(MountSet) /\ todo' \in Seq(MountSet)
      /\ ToSet(mounts') = ToSet(mounts) \cup {Head(todo)}
      /\ mounts' \o todo' = mounts \o todo
  BY <1>1, <1>3, MoveOne
<1>5. mounts' # <<>>
  BY <1>4, Elements
<1>6. Planned(args)' = Planned(args)
  BY <1>1, <1>2 DEF Planned, There
<1>7. Made'
  BY <1>1, <1>2, <1>3, <1>4, <1>5, <1>6 DEF Made, Underway, Mountable
<1>8. \A d \in dirs' : Absolute(d)
  <2>1. Head(todo) \in MountSet
    BY <1>1, <1>3, EmptySeq, ElementOfSeq
  <2>2. Head(todo).in \in PathSet /\ Absolute(Head(todo).in)
    BY <1>1, <2>1 DEF Mountable, MountSet
  <2>3. \A q \in Missing(Head(todo).in) : Absolute(q)
    BY <2>2, ParentsAre DEF Missing
  <2> QED BY <1>1, <2>3 DEF TypeOK
<1>9. TypeOK'
  BY <1>1, <1>8 DEF TypeOK
<1> QED BY <1>2, <1>7, <1>9

LEMMA PanicStep == IInv /\ Panic => IInv' /\ host' = host
<1> SUFFICES ASSUME IInv, Panic PROVE IInv' /\ host' = host
  OBVIOUS
<1> USE DEF IInv, Panic
<1>1. TypeOK'
  BY DEF TypeOK
<1>2. Planned(args)' = Planned(args)
  BY DEF Planned, There
<1>3. Made'
  BY <1>2 DEF Made, Underway
<1> QED BY <1>1, <1>3

LEMMA EndStep == IInv /\ End => IInv' /\ host' = host
<1> SUFFICES ASSUME IInv, End PROVE IInv' /\ host' = host
  OBVIOUS
<1> USE DEF IInv, End
<1>1. TypeOK'
  BY DEF TypeOK
<1>2. private
  BY DEF Made
<1>3. Removed = {}
  BY <1>2 DEF Removed
<1>4. host' = host
  BY <1>3
<1>5. Made'
  BY <1>4, Elements DEF Made, Underway
<1> QED BY <1>1, <1>4, <1>5

LEMMA KilledStep == IInv /\ Killed => IInv' /\ host' = host
<1> SUFFICES ASSUME IInv, Killed PROVE IInv' /\ host' = host
  OBVIOUS
<1> USE DEF IInv, Killed
<1>1. TypeOK'
  BY DEF TypeOK
<1>2. Made'
  BY Elements DEF Made, Underway
<1> QED BY <1>1, <1>2

LEMMA StutterStep == IInv /\ UNCHANGED vars => IInv' /\ host' = host
<1> SUFFICES ASSUME IInv, UNCHANGED vars PROVE IInv' /\ host' = host
  OBVIOUS
<1> USE DEF IInv, vars
<1>1. TypeOK'
  BY DEF TypeOK
<1>2. Planned(args)' = Planned(args)
  BY DEF Planned, There
<1>3. Made'
  BY <1>2 DEF Made, Underway
<1> QED BY <1>1, <1>3

LEMMA MadeStep == IInv /\ [Next]_vars => IInv' /\ host' = host
<1> SUFFICES ASSUME IInv, [Next]_vars PROVE IInv' /\ host' = host
  OBVIOUS
<1>1. CASE Next
  BY <1>1, StartStep, PrivatizeStep, MountStep, PanicStep, EndStep, KilledStep DEF Next
<1>2. CASE UNCHANGED vars
  BY <1>2, StutterStep
<1> QED BY <1>1, <1>2

(* No sandbox adds a directory to the host or takes one away: whatever was   *)
(* asked for, in whichever order its mounts were made, and wherever it or    *)
(* its judge was stopped.                                                   *)
THEOREM HostIsKept == Spec => HostKept
<1>1. IInv /\ [Next]_vars => [host' = host]_vars
  BY MadeStep
<1>2. IInv /\ [Next]_vars => IInv'
  BY MadeStep
<1> QED BY MadeStart, <1>1, <1>2, PTL DEF Spec, HostKept

-----------------------------------------------------------------------------
(* Why mounts succeed. *)
LEMMA LiteralsApart == \A p \in ToSet(DefaultDirs) \cup ToSet(OptionalDirs) : ~IsPrefix(ProcMount.in, p)
<1>1. \A a, b : Len(<<a, b>>) = 2 /\ <<a, b>>[2] = b
  OBVIOUS
<1>2. \A a, b, c : <<a, b, c>>[2] = b
  OBVIOUS
<1>3. ProcMount.in = <<"", "proc">>
  BY Zenon DEF ProcMount
<1>4. ProcMount.in \in PathSet /\ Len(ProcMount.in) = 2 /\ ProcMount.in[2] = "proc"
  <2>1. ProcMount.in \in PathSet
    BY ProcIs DEF MountSet
  <2> QED BY <1>1, <1>3, <2>1, Zenon
<1>5. "proc" # "bin" /\ "proc" # "usr" /\ "proc" # "lib" /\ "proc" # "lib64" /\ "proc" # "lib32"
  OBVIOUS
<1>6. \A p \in ToSet(DefaultDirs) \cup ToSet(OptionalDirs) : p[2] # "proc"
  <2>1. ToSet(DefaultDirs) = {<<"", "bin">>, <<"", "usr", "bin">>, <<"", "usr", "lib">>, <<"", "lib">>}
    <3> DEFINE a == <<"", "bin">>  b == <<"", "usr", "bin">>  c == <<"", "usr", "lib">>  d == <<"", "lib">>
               s == DefaultDirs
    <3>1. s = <<a, b, c, d>>
      BY Zenon DEF DefaultDirs
    <3> HIDE DEF a, b, c, d, s
    <3>2. DOMAIN s = {1, 2, 3, 4} /\ s[1] = a /\ s[2] = b /\ s[3] = c /\ s[4] = d
      BY <3>1
    <3>3. ToSet(s) = {a, b, c, d}
      BY <3>2 DEF ToSet
    <3> QED BY <3>3, Zenon DEF a, b, c, d, s
  <2>2. ToSet(OptionalDirs) = {<<"", "usr", "lib32">>, <<"", "lib64">>, <<"", "lib32">>}
    <3> DEFINE a == <<"", "usr", "lib32">>  b == <<"", "lib64">>  c == <<"", "lib32">>  s == OptionalDirs
    <3>1. s = <<a, b, c>>
      BY Zenon DEF OptionalDirs
    <3> HIDE DEF a, b, c, s
    <3>2. DOMAIN s = {1, 2, 3} /\ s[1] = a /\ s[2] = b /\ s[3] = c
      BY <3>1
    <3>3. ToSet(s) = {a, b, c}
      BY <3>2 DEF ToSet
    <3> QED BY <3>3, Zenon DEF a, b, c, s
  <2>3. <<"", "bin">>[2] = "bin" /\ <<"", "lib">>[2] = "lib" /\ <<"", "lib64">>[2] = "lib64" /\ <<"", "lib32">>[2] = "lib32"
    BY <1>1, Zenon
  <2>4. <<"", "usr", "bin">>[2] = "usr" /\ <<"", "usr", "lib">>[2] = "usr" /\ <<"", "usr", "lib32">>[2] = "usr"
    BY <1>2, Zenon
  <2> QED BY <2>1, <2>2, <2>3, <2>4, <1>5, Zenon
<1>7. ASSUME NEW p \in ToSet(DefaultDirs) \cup ToSet(OptionalDirs), IsPrefix(ProcMount.in, p) PROVE FALSE
  <2>1. p \in PathSet
    BY DefaultsAre, OptionalAre
  <2>2. p[2] = "proc"
    <3>1. 2 \in 1 .. 2
      OBVIOUS
    <3> QED BY <1>4, <1>7, <2>1, <3>1, PrefixIs
  <2> QED BY <1>6, <2>2
<1> QED BY <1>7

(* A path of the host at which a directory is seen where it is is there. *)
LEMMA ThereBySame ==
    ASSUME mounts \in Seq(MountSet), NEW q \in PathSet, q \in host, Covers(q) # {}, Covering(q).in = Covering(q).out
    PROVE  Exists(q)
BY SeenHere DEF Exists

(* A mount point is there. *)
LEMMA ThereByMount ==
    ASSUME mounts \in Seq(MountSet), host \subseteq PathSet,
           NEW q \in PathSet, Covers(q) # {}, Covering(q).in = q, Covering(q).out \in host
    PROVE  Exists(q)
<1> DEFINE o == Covering(q).out
<1>1. Len(q) \in Nat /\ o \in PathSet
  BY DEF PathSet
<1> HIDE DEF o
<1>2. Rest(q, q) = <<>>
  <2>1. Len(q) + 1 > Len(q)
    BY <1>1
  <2> DEFINE n == Len(q)  k == n + 1
  <2>2. n \in Int /\ k \in Int /\ ~(k <= n)
    BY <1>1
  <2> HIDE DEF n, k
  <2>3. SubSeq(q, k, n) = <<>>
    BY <2>2, SubSeqEmpty
  <2> QED BY <2>3 DEF Rest, n, k
<1>3. o \o <<>> = o
  BY <1>1, ConcatEmptySeq DEF PathSet
<1>4. Seen(q) = o
  BY <1>2, <1>3 DEF Seen, o
<1> QED BY <1>4 DEF Exists, o

(* A mount is of the directory of /proc, of one seen where it is, or one of *)
(* a language's.                                                             *)
FromRoot(m) ==
    /\ args.skip
    /\ m.in # m.out
    /\ \E r \in ToSet(args.reads) : m.in = r.in /\ m.out = r.out
    /\ \E tag \in DOMAIN Fs : \E i \in 1 .. Len(Fs[tag]) :
        m.in = <<"", Fs[tag][i].name>> /\ m.out = LanguageMounts(tag)[i].out
Kind(m) == m = ProcMount \/ m.in = m.out \/ FromRoot(m)

LEMMA KindIs ==
    ASSUME IInv, NEW m, IsReadable(m, args)
    PROVE  m.in = m.out \/ FromRoot(m)
<1>1. AsAsked(args)
  BY ArgsTypes
<1> SUFFICES ASSUME m.in # m.out PROVE FromRoot(m)
  OBVIOUS
<1>2. PICK r \in ToSet(Reads(args)) : m.in = r.in /\ m.out = r.out
  BY DEF IsReadable
<1>3. r \in ToSet(args.reads)
  <2>1. r # Same(args.input)
    BY <1>2 DEF Same
  <2> QED BY <1>1, <1>2, <2>1, ReadsAndWrites
<1>4. args.skip /\ \E tag \in DOMAIN Fs : r \in ToSet(LanguageMounts(tag))
  BY <1>1, <1>2, <1>3 DEF AsAsked
<1>5. PICK tag \in DOMAIN Fs : r \in ToSet(LanguageMounts(tag))
  BY <1>4
<1>6. PICK i \in 1 .. Len(Fs[tag]) : r = LanguageMounts(tag)[i]
  <2> DEFINE s == LanguageMounts(tag)
  <2>1. s \in Seq(Pairs) /\ Len(s) = Len(Fs[tag])
    BY <1>5, LanguageMountsAre
  <2> HIDE DEF s
  <2>2. \A q \in ToSet(s) : \E i \in 1 .. Len(s) : q = s[i]
    BY <2>1 DEF ToSet
  <2> QED BY <1>5, <2>1, <2>2 DEF s
<1> DEFINE in == <<"", Fs[tag][i].name>>
<1>7. r.in = in
  BY <1>6, LanguageMountsAre, Zenon
<1> HIDE DEF in
<1>8. m.in = in /\ m.out = LanguageMounts(tag)[i].out
  BY <1>2, <1>6, <1>7
<1> QED BY <1>2, <1>3, <1>4, <1>8, Zenon DEF FromRoot, in

(* A path that the judge names. *)
LEMMA OwnAre ==
    ASSUME IInv
    PROVE  \A p \in Own(args) : p \in PathSet /\ \E r \in ToSet(Reads(args)) \cup ToSet(Writes(args)) : r.in = p /\ r.out = p
<1>1. AsAsked(args) /\ args \in ArgSet
  BY ArgsTypes DEF AsAsked
<1>2. args.reads \in Seq(Pairs) /\ args.writes \in Seq(Pairs)
  BY <1>1 DEF ArgSet
<1>3. ToSet(args.reads \o args.writes) = ToSet(args.reads) \cup ToSet(args.writes)
  BY <1>2, ElementsOfBoth
<1>4. args.input \in PathSet /\ args.output \in PathSet /\ args.error \in PathSet
  BY <1>1 DEF ArgSet
<1>5. ASSUME NEW p \in Own(args)
      PROVE  \E r \in ToSet(Reads(args)) \cup ToSet(Writes(args)) : r.in = p /\ r.out = p
  <2> DEFINE all == ToSet(Reads(args)) \cup ToSet(Writes(args))
  <2>1. /\ ToSet(args.reads) \cup ToSet(args.writes) \subseteq all
        /\ Same(args.input) \in all /\ Same(args.output) \in all /\ Same(args.error) \in all
    BY <1>1, ReadsAndWrites
  <2>2. \A x \in {args.input, args.output, args.error} : Same(x) \in all /\ Same(x).in = x /\ Same(x).out = x
    BY <1>4, <2>1, SameIs
  <2>3. p \in {args.input, args.output, args.error} \/ \E m \in ToSet(args.reads) \cup ToSet(args.writes) : m.in = m.out /\ m.out = p
    BY <1>3 DEF Own
  <2> HIDE DEF all
  <2>4. \E r \in all : r.in = p /\ r.out = p
    BY <2>1, <2>2, <2>3
  <2> QED BY <2>4 DEF all
<1> QED BY <1>1, <1>5, OwnIs

(* The mounts made are the first of the plan. *)
LEMMA MadeInOrder ==
    ASSUME IInv, Underway
    PROVE  LET P == mounts \o todo
           IN  /\ Ordered(P, args) /\ P \in Seq(MountSet) /\ Len(mounts) \in Nat /\ Len(mounts) <= Len(P)
               /\ \A i \in 1 .. Len(mounts) :
                    /\ i \in 1 .. Len(P) /\ P[i] = mounts[i]
                    /\ Absolute(mounts[i].in) /\ (mounts[i] = ProcMount \/ mounts[i].out \in host)
               /\ todo # <<>> => Len(mounts) + 1 \in 1 .. Len(P) /\ P[Len(mounts) + 1] = Head(todo)
<1> DEFINE P == mounts \o todo  k == Len(mounts) + 1
<1>1. mounts \in Seq(MountSet) /\ todo \in Seq(MountSet) /\ P = Planned(args)
  BY DEF IInv, Made
<1>2. Ordered(P, args) /\ P \in Seq(MountSet)
  BY <1>1, ArgsTypes, PlannedOrder, PlannedIs
<1>3. /\ Len(mounts) \in Nat /\ Len(todo) \in Nat
      /\ Len(P) = Len(mounts) + Len(todo)
      /\ \A i \in 1 .. Len(mounts) + Len(todo) : P[i] = IF i <= Len(mounts) THEN mounts[i] ELSE todo[i - Len(mounts)]
  BY <1>1, ConcatProperties
<1> HIDE DEF P
<1>4. \A i \in 1 .. Len(mounts) : i \in 1 .. Len(P) /\ P[i] = mounts[i]
  BY <1>3
<1>5. \A i \in 1 .. Len(mounts) : Absolute(mounts[i].in) /\ (mounts[i] = ProcMount \/ mounts[i].out \in host)
  <2>1. \A i \in 1 .. Len(mounts) : mounts[i] \in ToSet(mounts)
    BY <1>1, CoversIs
  <2> QED BY <2>1 DEF IInv, Made
<1>6. ASSUME todo # <<>> PROVE k \in 1 .. Len(P) /\ P[k] = Head(todo)
  <2>1. Len(todo) \in Nat \ {0} /\ Head(todo) = todo[1]
    BY <1>1, <1>6, EmptySeq
  <2>2. k \in 1 .. Len(mounts) + Len(todo) /\ ~(k <= Len(mounts)) /\ k - Len(mounts) = 1
    BY <1>3, <2>1
  <2> HIDE DEF k
  <2> QED BY <1>3, <2>1, <2>2
<1>7. Len(mounts) <= Len(P)
  BY <1>3
<1> QED BY <1>2, <1>3, <1>4, <1>5, <1>6, <1>7 DEF P

LEMMA CoverIs ==
    ASSUME IInv, Underway, NEW p \in PathSet, Covers(p) # {}
    PROVE  /\ Covering(p) \in MountSet /\ IsPrefix(Covering(p).in, p) /\ Absolute(Covering(p).in)
           /\ Kind(Covering(p)) /\ (Covering(p) = ProcMount \/ Covering(p).out \in host)
<1> DEFINE P == mounts \o todo
<1>1. mounts \in Seq(MountSet)
  BY DEF IInv, Made
<1>2. PICK i \in Covers(p) : Covering(p) = mounts[i]
  BY <1>1, CoveringIs
<1>3. i \in 1 .. Len(mounts) /\ IsPrefix(mounts[i].in, p) /\ mounts[i] \in MountSet
  BY <1>1, <1>2, CoversIs
<1>4. /\ i \in 1 .. Len(P) /\ P[i] = mounts[i] /\ Ordered(P, args)
      /\ Absolute(mounts[i].in) /\ (mounts[i] = ProcMount \/ mounts[i].out \in host)
  BY <1>3, MadeInOrder
<1> HIDE DEF P
<1>5. IsBefore(mounts[i], args) \/ IsAsked(mounts[i], args) \/ IsAfter(mounts[i])
  BY <1>4 DEF Ordered
<1>6. Kind(mounts[i])
  BY <1>5, KindIs DEF IsBefore, IsAsked, IsAfter, Kind
<1> QED BY <1>2, <1>3, <1>4, <1>6

(* A language's root has a directory above the path. *)
Rooted(q) == args.skip /\ \E m \in ToSet(args.reads) : m.in # m.out /\ IsPrefix(m.in, q)

LEMMA SeenAsItIs ==
    ASSUME IInv, Underway, NEW q \in PathSet, Covers(q) # {}, ~IsPrefix(ProcMount.in, q), ~Rooted(q)
    PROVE  Covering(q).in = Covering(q).out /\ Seen(q) = q
<1>1. Kind(Covering(q)) /\ IsPrefix(Covering(q).in, q)
  BY CoverIs
<1>2. Covering(q) # ProcMount
  BY <1>1
<1>3. Covering(q).in = Covering(q).out
  BY <1>1, <1>2 DEF Kind, FromRoot, Rooted
<1> QED BY <1>3, SeenHere DEF IInv, Made

(* A directory seen where it is can be mounted. *)
LEMMA SameMountable ==
    ASSUME IInv, Underway, NEW m \in MountSet, m.in = m.out, m.out \in HostDirs,
           ~IsPrefix(ProcMount.in, m.in), ~Rooted(m.in)
    PROVE  Mountable(m)
<1>1. host = HostDirs /\ m.in \in PathSet /\ Absolute(m.in) /\ mounts \in Seq(MountSet)
  BY ContainerAssumption DEF IInv, Made, MountSet
<1>2. ASSUME NEW q \in Missing(m.in), Covers(q) # {} PROVE FALSE
  <2>1. q \in Parents(m.in) /\ ~Exists(q)
    BY <1>2 DEF Missing
  <2>2. q \in PathSet /\ q \in HostDirs /\ IsPrefix(q, m.in)
    BY <1>1, <2>1, ParentsAre
  <2>3. ~IsPrefix(ProcMount.in, q)
    <3>1. ProcMount.in \in PathSet
      BY ProcIs DEF MountSet
    <3> QED BY <1>1, <2>2, <3>1, PrefixOfPrefix
  <2>4. ~Rooted(q)
    <3>1. \A r \in ToSet(args.reads) : r.in \in PathSet
      <4>1. args.reads \in Seq(Pairs)
        BY ArgsTypes DEF AsAsked, ArgSet
      <4>2. ToSet(args.reads) \subseteq Pairs
        BY <4>1, ElementsIn
      <4> QED BY <4>2 DEF Pairs
    <3> QED BY <1>1, <2>2, <3>1, PrefixOfPrefix DEF Rooted
  <2>5. Covering(q).in = Covering(q).out
    BY <1>2, <2>2, <2>3, <2>4, SeenAsItIs
  <2> QED BY <1>1, <1>2, <2>1, <2>2, <2>5, ThereBySame
<1> QED BY <1>1, <1>2 DEF Mountable

(* A directory of a language's root can be mounted. *)
LEMMA RootMountable ==
    ASSUME AskedExist, IInv, Underway, NEW m \in MountSet, FromRoot(m)
    PROVE  Mountable(m)
<1>1. PICK tag \in DOMAIN Fs : \E i \in 1 .. Len(Fs[tag]) : m.in = <<"", Fs[tag][i].name>> /\ m.out = LanguageMounts(tag)[i].out
  BY Zenon DEF FromRoot
<1>2. PICK i \in 1 .. Len(Fs[tag]) : m.in = <<"", Fs[tag][i].name>> /\ m.out = LanguageMounts(tag)[i].out
  BY <1>1, Zenon
<1> DEFINE name == Fs[tag][i].name
<1>3. m.out \in HostDirs /\ name # "proc"
  BY <1>2, Zenon DEF AskedExist
<1> HIDE DEF name
<1>4. m.in \in PathSet /\ Len(m.in) = 2 /\ m.in[1] = "" /\ m.in[2] = name
  <2>1. PICK blank : blank = ""
    BY Zenon
  <2>2. m.in = <<blank, name>>
    BY <1>2, <2>1, Zenon DEF name
  <2>3. Len(m.in) = 2 /\ m.in[1] = blank /\ m.in[2] = name
    BY <2>2
  <2>4. m.in[1] = ""
    BY <2>1, <2>3, Zenon
  <2>5. m.in \in PathSet
    BY DEF MountSet
  <2> QED BY <2>3, <2>4, <2>5, Zenon
<1>5. Absolute(m.in)
  <2> DEFINE n == Len(m.in)
  <2>1. n = 2
    BY <1>4, Zenon
  <2> HIDE DEF n
  <2>2. n > 1
    BY <2>1
  <2>3. Len(m.in) > 1
    BY <2>2 DEF n
  <2> QED BY <1>4, <2>3, Zenon DEF Absolute
<1>6. host = HostDirs /\ mounts \in Seq(MountSet) /\ host \subseteq PathSet
  BY Typed DEF IInv, Made
<1>7. ASSUME NEW q \in Missing(m.in), Covers(q) # {} PROVE FALSE
  <2>1. q \in Parents(m.in) /\ ~Exists(q)
    BY <1>7 DEF Missing
  <2>2. q \in PathSet /\ Absolute(q) /\ IsPrefix(q, m.in)
    BY <1>4, <1>5, <2>1, ParentsAre
  <2> DEFINE c == Covering(q)
  <2>3. c \in MountSet /\ IsPrefix(c.in, q) /\ Absolute(c.in) /\ (c = ProcMount \/ c.out \in host)
    BY <1>7, <2>2, CoverIs
  <2> HIDE DEF c
  <2>4. c.in \in PathSet /\ Len(c.in) > 1 /\ Len(q) > 1
    <3>1. Len(c.in) > 1 /\ Len(q) > 1
      BY <2>2, <2>3, Zenon DEF Absolute
    <3> QED BY <2>3, <3>1 DEF MountSet
  <2>5. Len(c.in) <= Len(q) /\ Len(q) <= 2 /\ Len(c.in) \in Nat /\ Len(q) \in Nat
    <3>1. Len(c.in) \in Nat /\ Len(q) \in Nat
      BY <2>2, <2>4 DEF PathSet
    <3> QED BY <1>4, <2>2, <2>3, <2>4, <3>1, PrefixIs
  <2>6. Len(c.in) = 2 /\ Len(q) = 2
    <3> DEFINE x == Len(c.in)  y == Len(q)
    <3>1. x \in Nat /\ y \in Nat /\ x <= y /\ y <= 2 /\ x > 1 /\ y > 1
      BY <2>4, <2>5, Zenon
    <3> HIDE DEF x, y
    <3>2. x = 2 /\ y = 2
      BY <3>1
    <3> QED BY <3>2 DEF x, y
  <2>7. c.in = q
    <3>1. \A j \in 1 .. 2 : c.in[j] = q[j]
      BY <2>2, <2>3, <2>4, <2>6, PrefixIs
    <3> QED BY <2>2, <2>4, <2>6, <3>1, SeqEqual DEF PathSet
  <2>8. c = ProcMount
    BY <1>6, <1>7, <2>1, <2>2, <2>3, <2>7, ThereByMount DEF c
  <2>9. q[2] = name
    <3>1. 2 \in 1 .. Len(q)
      BY <2>6
    <3> QED BY <1>4, <2>2, <3>1, PrefixIs
  <2>10. q[2] = "proc"
    <3>1. \A a, b : <<a, b>>[2] = b
      OBVIOUS
    <3>2. ProcMount.in = <<"", "proc">>
      BY Zenon DEF ProcMount
    <3> QED BY <2>7, <2>8, <3>1, <3>2, Zenon
  <2> QED BY <1>3, <2>9, <2>10
<1>8. Absolute(m.out)
  BY <1>3, ContainerAssumption
<1> QED BY <1>3, <1>5, <1>6, <1>7, <1>8 DEF Mountable

(* A directory that the judge names can be mounted.                          *)
LEMMA OwnMountable ==
    ASSUME AskedExist, IInv, Underway, ~Relative(args), ~Hidden(args),
           NEW m \in MountSet, m.in = m.out, m.out \in Own(args)
    PROVE  Mountable(m)
<1>1. args \in AllArgs
  BY ArgsTypes
<1>2. Absolute(m.out)
  BY DEF Relative
<1>3. m.out \in HostDirs /\ ~IsPrefix(ProcMount.in, m.out)
  BY <1>1, <1>2 DEF AskedExist
<1>4. ~Rooted(m.out)
  BY DEF Rooted, Hidden
<1> QED BY <1>3, <1>4, SameMountable

(* A mount that is made next can be made.                                    *)
LEMMA HeadMountable ==
    ASSUME AskedExist, IInv, pc = "boot", todo # <<>>, ~Relative(args), ~Hidden(args)
    PROVE  Mountable(Head(todo))
<1> DEFINE m == Head(todo)  P == mounts \o todo  k == Len(mounts) + 1
<1>1. Underway /\ AsAsked(args) /\ host = HostDirs /\ mounts \in Seq(MountSet) /\ todo \in Seq(MountSet)
  BY ArgsTypes DEF Underway, IInv, Made
<1>2. Ordered(P, args) /\ k \in 1 .. Len(P) /\ P[k] = m /\ Len(mounts) \in Nat
  BY <1>1, MadeInOrder
<1>3. m \in MountSet
  BY <1>1, EmptySeq, ElementOfSeq
<1>4. (m = ProcMount /\ mounts = <<>>) \/ IsReadable(m, args) \/ IsAsked(m, args) \/ IsAfter(m)
  <2>1. CASE mounts = <<>>
    <3> HIDE DEF P, m, k
    <3> QED BY <1>2, <2>1 DEF Ordered, IsBefore
  <2>2. CASE mounts # <<>>
    <3>1. Len(mounts) # 0
      BY <1>1, <2>2, EmptySeq
    <3>2. k \in 2 .. Len(P)
      <4> DEFINE n == Len(mounts)  l == Len(P)
      <4>1. n \in Nat /\ n # 0 /\ n + 1 \in 1 .. l
        BY <1>2, <3>1
      <4> HIDE DEF n, l
      <4>2. n + 1 \in 2 .. l
        BY <4>1
      <4> QED BY <4>2 DEF n, l
    <3> HIDE DEF P, m, k
    <3> QED BY <1>2, <3>2 DEF Ordered
  <2> QED BY <2>1, <2>2
<1>5. IsAfter(m) => IsAsked(m, args) \/ m = ProcMount \/ IsReadable(m, args) \/ (m.out \in host /\ ~args.skip)
  <2> HIDE DEF P, m, k
  <2> QED BY <1>2 DEF Ordered, IsBefore
<1> SUFFICES Mountable(m)
  OBVIOUS
<1> HIDE DEF P, m, k
<1>6. CASE m = ProcMount /\ mounts = <<>>
  <2>1. \A q : Covers(q) = {}
    BY <1>6, EmptySeq DEF Covers
  <2>2. Absolute(ProcMount.in)
    <3>1. PICK blank : blank = ""
      BY Zenon
    <3>2. PICK proc : proc = "proc"
      BY Zenon
    <3>3. ProcMount.in = <<blank, proc>>
      BY <3>1, <3>2, Zenon DEF ProcMount
    <3>4. Len(ProcMount.in) > 1 /\ ProcMount.in[1] = blank
      BY <3>3
    <3> QED BY <3>1, <3>4, Zenon DEF Absolute
  <2> QED BY <1>6, <2>1, <2>2 DEF Mountable
<1>7. CASE IsReadable(m, args) /\ m.in = m.out
  <2>1. CASE ~args.skip /\ m.out \in ToSet(DefaultDirs)
    <3>1. m.out \in HostDirs
      BY <2>1 DEF AskedExist
    <3>2. ~IsPrefix(ProcMount.in, m.out) /\ ~Rooted(m.out)
      BY <2>1, LiteralsApart DEF Rooted
    <3> QED BY <1>1, <1>3, <1>7, <3>1, <3>2, SameMountable
  <2>2. CASE \E r \in ToSet(Reads(args)) : m.in = r.in /\ m.out = r.out
    <3>1. m.out \in Own(args)
      BY <1>1, <1>7, <2>2, ReadsAndWrites
    <3> QED BY <1>1, <1>3, <1>7, <3>1, OwnMountable
  <2> QED BY <1>7, <2>1, <2>2 DEF IsReadable
<1>8. CASE IsReadable(m, args) /\ m.in # m.out
  BY <1>1, <1>3, <1>8, KindIs, RootMountable
<1>9. CASE IsAsked(m, args)
  <2>1. m.in = m.out /\ m.out \in Own(args)
    BY <1>1, <1>9, ReadsAndWrites DEF IsAsked
  <2> QED BY <1>1, <1>3, <2>1, OwnMountable
<1>10. CASE IsAfter(m) /\ m.out \in host /\ ~args.skip
  <2>1. m.in = m.out /\ ~IsPrefix(ProcMount.in, m.out) /\ ~Rooted(m.out)
    BY <1>10, LiteralsApart DEF IsAfter, Rooted
  <2> QED BY <1>1, <1>3, <1>10, <2>1, SameMountable
<1>11. CASE IsAfter(m) /\ m = ProcMount
  BY <1>11, ProcIs DEF IsAfter
<1> QED BY <1>4, <1>5, <1>6, <1>7, <1>8, <1>9, <1>10, <1>11

LEMMA ExplainedStep == ASSUME AskedExist PROVE IInv /\ PanicsExplained /\ [Next]_vars => PanicsExplained'
<1> SUFFICES ASSUME IInv, PanicsExplained, [Next]_vars PROVE PanicsExplained'
  OBVIOUS
<1>1. CASE Panic
  <2>1. args' = args /\ pc = "boot" /\ todo # <<>> /\ ~Mountable(Head(todo))
    BY <1>1 DEF Panic
  <2>2. Relative(args) \/ Hidden(args)
    BY <2>1, HeadMountable
  <2> QED BY <2>1, <2>2 DEF PanicsExplained
<1>2. CASE UNCHANGED vars
  BY <1>2 DEF vars, PanicsExplained
<1>3. CASE Start \/ Privatize \/ Mount \/ End \/ Killed
  <2>1. pc' # "panic"
    BY <1>3 DEF Start, Privatize, Mount, End, Killed
  <2> QED BY <2>1 DEF PanicsExplained
<1> QED BY <1>1, <1>2, <1>3 DEF Next

(* On a host that has what the judge and the sandbox take for granted, no   *)
(* mount fails, unless one of the sandbox's own paths is relative or lies   *)
(* in a directory that the language's root has too.                         *)
THEOREM SandboxesBoot == ASSUME AskedExist PROVE Spec => []Inv
<1>1. Init => PanicsExplained
  BY DEF Init, PanicsExplained
<1>2. IInv /\ PanicsExplained => Inv
  BY DEF IInv, Inv
<1>3. IInv /\ PanicsExplained /\ [Next]_vars => IInv' /\ PanicsExplained'
  BY MadeStep, ExplainedStep
<1> QED BY MadeStart, <1>1, <1>2, <1>3, PTL DEF Spec

-----------------------------------------------------------------------------
(* What a running sandbox's command sees and writes.                         *)
LEMMA AllMade ==
    ASSUME IInv, pc = "running"
    PROVE  /\ AsAsked(args) /\ args \in AllArgs /\ Underway /\ Ordered(mounts, args)
           /\ mounts \in Seq(MountSet) /\ host = HostDirs /\ host \subseteq PathSet
           /\ \A i \in 1 .. Len(mounts) : mounts[i] \in MountSet /\ Absolute(mounts[i].in)
<1>1. /\ Underway /\ todo = <<>> /\ mounts \in Seq(MountSet) /\ host = HostDirs
      /\ AsAsked(args) /\ args \in AllArgs
  BY ArgsTypes DEF IInv, Made
<1>2. mounts \o todo = mounts
  BY <1>1, ConcatEmptySeq
<1>3. Ordered(mounts, args) /\ \A i \in 1 .. Len(mounts) : Absolute(mounts[i].in)
  BY <1>1, <1>2, MadeInOrder
<1>4. \A i \in 1 .. Len(mounts) : mounts[i] \in MountSet
  BY <1>1, CoversIs
<1> QED BY <1>1, <1>3, <1>4, Typed

(* What the judge names is seen where it is. *)
LEMMA OwnSeen ==
    ASSUME AskedExist, IInv, pc = "running", ~Hidden(args), NEW p \in Own(args)
    PROVE  Covers(p) # {} /\ Seen(p) = p
<1>1. p \in PathSet /\ \E r \in ToSet(Reads(args)) \cup ToSet(Writes(args)) : r.in = p /\ r.out = p
  BY OwnAre
<1>2. PICK i \in 1 .. Len(mounts) : mounts[i].in = p
  BY <1>1, AllMade DEF Ordered
<1>3. i \in Covers(p) /\ Absolute(p)
  <2>1. IsPrefix(mounts[i].in, p)
    BY <1>1, <1>2, PrefixOfItself
  <2> QED BY <1>2, <2>1, AllMade, CoversIs
<1>4. ~IsPrefix(ProcMount.in, p)
  BY <1>3, AllMade DEF AskedExist
<1>5. ~Rooted(p)
  BY DEF Rooted, Hidden
<1> QED BY <1>1, <1>3, <1>4, <1>5, SeenAsItIs, AllMade

(* The mount that covers a path is one of the plan's. *)
LEMMA CoveringKind ==
    ASSUME IInv, pc = "running", NEW p, Covers(p) # {}
    PROVE  \E i \in Covers(p) :
            /\ i \in 1 .. Len(mounts) /\ Covering(p) = mounts[i] /\ mounts[i] \in MountSet
            /\ IsPrefix(mounts[i].in, p) /\ \A j \in Covers(p) : j <= i
            /\ IsBefore(mounts[i], args) \/ IsAsked(mounts[i], args) \/ IsAfter(mounts[i])
<1>1. PICK i \in Covers(p) : Covering(p) = mounts[i] /\ \A j \in Covers(p) : j <= i
  BY AllMade, CoveringIs
<1>2. i \in 1 .. Len(mounts) /\ mounts[i] \in MountSet /\ IsPrefix(mounts[i].in, p)
  BY AllMade, CoversIs
<1>3. IsBefore(mounts[i], args) \/ IsAsked(mounts[i], args) \/ IsAfter(mounts[i])
  BY <1>2, AllMade DEF Ordered
<1> QED BY <1>1, <1>2, <1>3

(* What can be written lies in a directory given as writable. *)
LEMMA WrittenIsAsked ==
    ASSUME IInv, pc = "running", NEW p \in PathSet, CanWrite(p)
    PROVE  Seen(p) = p /\ \E w \in ToSet(Writes(args)) : IsPrefix(w.out, p)
<1>1. Covers(p) # {} /\ Covering(p).writable
  BY DEF CanWrite
<1>2. PICK i \in Covers(p) :
        /\ Covering(p) = mounts[i] /\ IsPrefix(mounts[i].in, p)
        /\ IsBefore(mounts[i], args) \/ IsAsked(mounts[i], args) \/ IsAfter(mounts[i])
  BY <1>1, CoveringKind
<1>3. IsAsked(mounts[i], args)
  BY <1>1, <1>2, ProcIs DEF IsBefore, IsReadable, IsAfter
<1>4. PICK w \in ToSet(Writes(args)) : mounts[i].out = w.out
  BY <1>3 DEF IsAsked
<1>5. mounts[i].in = mounts[i].out
  BY <1>3 DEF IsAsked
<1> QED BY <1>1, <1>2, <1>4, <1>5, SeenHere, AllMade

(* What lies in a directory given as writable can be written. *)
LEMMA AskedIsWritten ==
    ASSUME OptionalApart, IInv, pc = "running", NEW p \in PathSet,
           NEW w \in ToSet(Writes(args)), IsPrefix(w.out, p)
    PROVE  /\ CanWrite(p) /\ Covers(p) # {} /\ Seen(p) = p
           /\ \E m \in ToSet(mounts) : m.in = w.out /\ m.out = w.out
<1>1. w \in Pairs /\ w.in = w.out /\ w.out \in Own(args) /\ w.out \in PathSet
  BY AllMade, ReadsAndWrites DEF Pairs
<1>2. PICK i \in 1 .. Len(mounts) :
        /\ mounts[i].in = w.in /\ mounts[i].out = w.out /\ mounts[i].writable
        /\ \A j \in 1 .. Len(mounts) : i < j => IsAsked(mounts[j], args) \/ IsAfter(mounts[j])
  BY AllMade DEF Ordered
<1>3. i \in Covers(p) /\ mounts[i] \in ToSet(mounts)
  BY <1>1, <1>2, AllMade, CoversIs
<1>4. PICK c \in Covers(p) : /\ c \in 1 .. Len(mounts) /\ Covering(p) = mounts[c] /\ mounts[c] \in MountSet
                             /\ IsPrefix(mounts[c].in, p) /\ \A j \in Covers(p) : j <= c
  BY <1>3, CoveringKind
<1>5. i = c \/ i < c
  <2>1. i <= c
    BY <1>3, <1>4
  <2> QED BY <1>2, <1>4, <2>1
<1>6. ~IsAfter(mounts[c])
  <2> SUFFICES ASSUME IsAfter(mounts[c]) PROVE FALSE
    OBVIOUS
  <2>1. mounts[c].in \in ToSet(OptionalDirs) /\ mounts[c].in \in PathSet
    BY <1>4 DEF IsAfter, MountSet
  <2>2. IsPrefix(mounts[c].in, w.out) \/ IsPrefix(w.out, mounts[c].in)
    BY <1>1, <1>4, <2>1, PrefixesMeet
  <2> QED BY <1>1, <2>1, <2>2, AllMade DEF OptionalApart
<1>7. Covering(p).writable /\ Covering(p).in = Covering(p).out
  <2>1. CASE i = c
    BY <1>1, <1>2, <1>4, <2>1
  <2>2. CASE i < c
    <3>1. IsAsked(mounts[c], args)
      BY <1>2, <1>4, <1>6, <2>2
    <3> QED BY <1>4, <3>1 DEF IsAsked
  <2> QED BY <1>5, <2>1, <2>2
<1>8. Seen(p) = p
  BY <1>3, <1>7, SeenHere, AllMade
<1> QED BY <1>1, <1>2, <1>3, <1>7, <1>8 DEF CanWrite

(* A command finds its working directory and those of its streams under the *)
(* judge's names for them, and can write its output.                        *)
THEOREM StreamsAreReachable == ASSUME AskedExist, OptionalApart PROVE Spec => []StreamsReachable
<1>1. IInv => StreamsReachable
  <2> SUFFICES ASSUME IInv, pc = "running", ~Hidden(args)
               PROVE  /\ \A p \in {args.work, args.input} \ {Root} : Covers(p) # {} /\ Seen(p) = p
                      /\ \A p \in {args.output, args.error} : Covers(p) # {} /\ Seen(p) = p /\ CanWrite(p)
    BY DEF StreamsReachable
  <2>1. /\ args \in ArgSet /\ AsAsked(args) /\ {args.input, args.output, args.error} \subseteq Own(args)
        /\ args.work = Root \/ args.work \in Own(args)
    BY AllMade, OwnIs DEF AsAsked
  <2>2. \A p \in {args.work, args.input} \ {Root} : Covers(p) # {} /\ Seen(p) = p
    BY <2>1, OwnSeen
  <2>3. ASSUME NEW p \in {args.output, args.error} PROVE CanWrite(p) /\ Covers(p) # {} /\ Seen(p) = p
    <3>1. p \in PathSet
      BY <2>1 DEF ArgSet
    <3>2. Same(p) \in ToSet(Writes(args)) /\ Same(p).out = p
      BY <2>1, <3>1, SameIs, ReadsAndWrites
    <3>3. IsPrefix(p, p)
      BY <3>1, PrefixOfItself
    <3> QED BY <3>1, <3>2, <3>3, AskedIsWritten
  <2> QED BY <2>2, <2>3
<1>2. IInv /\ [Next]_vars => IInv'
  BY MadeStep
<1> QED BY MadeStart, <1>1, <1>2, PTL DEF Spec

(* The directory of a program's input is not in the one of its output. *)
LEMMA InputApart == ASSUME NEW plan \in Plans PROVE ~IsPrefix(Env(plan, "env", "write"), Env(plan, "env", "read"))
<1> DEFINE r == plan.root  n == Len(r)
<1>1. PICK env : env = "env"
  BY Zenon
<1>2. PICK base : base = "read"
  BY Zenon
<1>3. PICK other : other = "write"
  BY Zenon
<1>4. base # other
  BY <1>2, <1>3
<1>5. env \in Strings /\ base \in Strings /\ other \in Strings
  BY <1>1, <1>2, <1>3, Zenon DEF Strings
<1> DEFINE b == <<env, base>>  o == <<env, other>>
<1>6. r \in Seq(Strings) /\ b \in Seq(Strings) /\ o \in Seq(Strings)
  BY <1>5, Typed DEF PathSet
<1>7. Len(b) = 2 /\ Len(o) = 2 /\ b[2] = base /\ o[2] = other
  OBVIOUS
<1>8. Env(plan, "env", "read") = r \o b /\ Env(plan, "env", "write") = r \o o
  BY <1>1, <1>2, <1>3, Zenon DEF Env
<1> HIDE DEF r, b, o
<1>9. /\ Len(r) \in Nat /\ r \o b \in PathSet /\ r \o o \in PathSet /\ Len(r \o o) = Len(r) + 2
      /\ (r \o b)[n + 2] = base /\ (r \o o)[n + 2] = other
  <2>0. Len(r) \in Nat
    BY <1>6
  <2>1. /\ r \o b \in Seq(Strings)
        /\ \A i \in 1 .. Len(r) + Len(b) : (r \o b)[i] = IF i <= Len(r) THEN r[i] ELSE b[i - Len(r)]
    BY <1>6, ConcatProperties
  <2>2. /\ r \o o \in Seq(Strings) /\ Len(r \o o) = Len(r) + Len(o)
        /\ \A i \in 1 .. Len(r) + Len(o) : (r \o o)[i] = IF i <= Len(r) THEN r[i] ELSE o[i - Len(r)]
    BY <1>6, ConcatProperties
  <2>3. /\ \A i \in 1 .. n + 2 : (r \o b)[i] = IF i <= n THEN r[i] ELSE b[i - n]
        /\ \A i \in 1 .. n + 2 : (r \o o)[i] = IF i <= n THEN r[i] ELSE o[i - n]
    BY <1>7, <2>1, <2>2
  <2>4. n \in Nat
    BY <2>0
  <2> HIDE DEF n
  <2> DEFINE k == n + 2
  <2>5. k \in 1 .. n + 2 /\ ~(k <= n) /\ k - n = 2
    BY <2>4
  <2> HIDE DEF k
  <2>6. (r \o b)[k] = b[2] /\ (r \o o)[k] = o[2]
    BY <2>3, <2>5
  <2> QED BY <1>7, <2>0, <2>1, <2>2, <2>6 DEF PathSet, k
<1>10. ~IsPrefix(r \o o, r \o b)
  <2> SUFFICES ASSUME IsPrefix(r \o o, r \o b) PROVE FALSE
    OBVIOUS
  <2>1. \A i \in 1 .. Len(r \o o) : (r \o o)[i] = (r \o b)[i]
    BY <1>9, PrefixIs
  <2>2. n + 2 \in 1 .. Len(r \o o)
    BY <1>9
  <2> QED BY <1>4, <1>9, <2>1, <2>2
<1> QED BY <1>8, <1>10

(* A command can write below the directories given as writable, there only,  *)
(* and a program cannot write its own files or its input.                   *)
THEOREM OnlyWritableIsWritten == ASSUME OptionalApart, ProgramsApart PROVE Spec => []WritableExactly
<1>1. IInv => WritableExactly
  <2> SUFFICES ASSUME IInv, pc = "running"
               PROVE  /\ {Seen(p) : p \in {q \in Points : CanWrite(q)}}
                            = {h \in host : \E w \in ToSet(Writes(args)) : IsPrefix(w.out, h)}
                      /\ \A plan \in Plans, tag \in DOMAIN Fs :
                            args = ProgramArgs(plan, tag) => ~CanWrite(plan.program) /\ ~CanWrite(Env(plan, "env", "read"))
    BY DEF WritableExactly
  <2>1. ASSUME NEW p \in Points, CanWrite(p)
        PROVE  Seen(p) \in host /\ \E w \in ToSet(Writes(args)) : IsPrefix(w.out, Seen(p))
    <3>1. PICK m \in ToSet(mounts), h \in host : IsPrefix(m.out, h) /\ p = m.in \o Rest(h, m.out)
      BY DEF Points, Places
    <3>2. m \in MountSet /\ h \in PathSet
      BY AllMade, ElementsIn
    <3>3. m.in \in PathSet /\ Rest(h, m.out) \in PathSet
      BY <3>1, <3>2, RestIs DEF MountSet
    <3>4. m.in \o Rest(h, m.out) \in PathSet
      BY <3>3, ConcatProperties DEF PathSet
    <3>5. p \in PathSet
      BY <3>1, <3>4
    <3>6. Seen(p) = p /\ \E w \in ToSet(Writes(args)) : IsPrefix(w.out, p)
      BY <2>1, <3>5, WrittenIsAsked
    <3>7. Covers(p) # {} /\ Exists(p)
      BY <2>1 DEF CanWrite, Points
    <3> QED BY <3>6, <3>7 DEF Exists
  <2>2. ASSUME NEW h \in host, NEW w \in ToSet(Writes(args)), IsPrefix(w.out, h)
        PROVE  h \in Points /\ CanWrite(h) /\ Seen(h) = h
    <3>1. h \in PathSet
      BY AllMade
    <3>2. CanWrite(h) /\ Covers(h) # {} /\ Seen(h) = h /\ \E m \in ToSet(mounts) : m.in = w.out /\ m.out = w.out
      BY <2>2, <3>1, AskedIsWritten
    <3>3. PICK m \in ToSet(mounts) : m.in = w.out /\ m.out = w.out
      BY <3>2
    <3>4. w.out \in PathSet
      BY AllMade, ReadsAndWrites DEF Pairs
    <3>5. m.in \o Rest(h, m.out) = h
      BY <2>2, <3>1, <3>3, <3>4, RestIs
    <3>6. h \in Places
      <4>1. h \in {g \in host : IsPrefix(m.out, g)}
        BY <2>2, <3>3
      <4>2. h \in {m.in \o Rest(x, m.out) : x \in {g \in host : IsPrefix(m.out, g)}}
        BY <3>5, <4>1, Zenon
      <4> QED BY <4>2, Zenon DEF Places
    <3> QED BY <3>2, <3>6 DEF Points, Exists
  <2>3. {Seen(p) : p \in {q \in Points : CanWrite(q)}} = {h \in host : \E w \in ToSet(Writes(args)) : IsPrefix(w.out, h)}
    BY <2>1, <2>2, Zenon
  <2>4. ASSUME NEW plan \in Plans, NEW tag \in DOMAIN Fs, args = ProgramArgs(plan, tag)
        PROVE  ~CanWrite(plan.program) /\ ~CanWrite(Env(plan, "env", "read"))
    <3> DEFINE o == Env(plan, "env", "write")  r == Env(plan, "env", "read")
    <3>1. o \in PathSet /\ r \in PathSet /\ plan.program \in PathSet
      BY EnvIs, Typed
    <3>2. ~IsPrefix(o, r) /\ ~IsPrefix(o, plan.program)
      BY InputApart DEF ProgramsApart
    <3>3. args.writes = <<>> /\ args.output = o /\ args.error = o
      BY <2>4, ProgramAsked
    <3> HIDE DEF o, r
    <3>4. \A w \in ToSet(Writes(args)) : w.out = o
      BY <3>1, <3>3, AllMade, ReadsAndWrites, SameIs, Elements
    <3>5. ~CanWrite(plan.program) /\ ~CanWrite(r)
      BY <3>1, <3>2, <3>4, WrittenIsAsked
    <3> QED BY <3>5 DEF r
  <2> QED BY <2>3, <2>4
<1>2. IInv /\ [Next]_vars => IInv'
  BY MadeStep
<1> QED BY MadeStart, <1>1, <1>2, PTL DEF Spec
=============================================================================

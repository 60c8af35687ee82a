--------------------------- MODULE FileBaseProofs ---------------------------
(* Proofs about FileBase, for every tree of files and every failure of a     *)
(* system call: what an operation that returns no error has done, what it   *)
(* leaves alone outside its base, and that the linker's directories stay.   *)
EXTENDS FileBase, FiniteSetTheorems, SequenceTheorems, WellFoundedInduction, TLAPS

(* The strings; those that are written down here are named, because the     *)
(* provers do not know that a literal is a string.                          *)
Strings == STRING \cup {"", ".", "..", "read", "write", "f"}
PathSet == Seq(Strings)

(* A set of naturals has a least one. *)
LEMMA LeastNumber ==
    ASSUME NEW T, T \subseteq Nat, T # {}
    PROVE  \E m \in T : \A k \in T : m <= k
<1> DEFINE R == {ss \in Nat \X Nat : ss[1] < ss[2]}
<1>1. IsWellFoundedOn(R, Nat)
  BY NatLessThanWellFounded DEF OpToRel
<1>2. \A i, j \in Nat : i < j => <<i, j>> \in R
  OBVIOUS
<1> HIDE DEF R
<1>3. PICK m \in T : \A k \in T : ~ (<<k, m>> \in R)
  BY <1>1, WFMin
<1>4. ASSUME NEW k \in T PROVE m <= k
  <2>1. ~ (k < m)
    BY <1>2, <1>3
  <2>2. k \in Nat /\ m \in Nat
    OBVIOUS
  <2> QED BY <2>1, <2>2
<1> QED BY <1>4

(* Step by step, from 0 on. *)
LEMMA FromZeroOn ==
    ASSUME NEW n \in Nat, NEW Good, 0 \in Good,
           \A k \in 1 .. n : k - 1 \in Good => k \in Good
    PROVE  \A k \in 0 .. n : k \in Good
<1> DEFINE Bad == {k \in 0 .. n : k \notin Good}
<1>1. SUFFICES ASSUME Bad # {} PROVE FALSE
  OBVIOUS
<1>2. PICK m \in Bad : \A k \in Bad : m <= k
  <2>1. Bad \subseteq Nat
    OBVIOUS
  <2> HIDE DEF Bad
  <2> QED BY <1>1, <2>1, LeastNumber
<1>3. m \in 1 .. n /\ m - 1 \in 0 .. n /\ m - 1 \notin Bad
  BY <1>2
<1> QED BY <1>2, <1>3

(* A loop that goes from one value to the next has its values. *)
Turns(Turn, n, X) == \A k \in 1 .. n : \A x \in X : Turn[k][x] \in X

LEMMA LoopExists ==
    ASSUME NEW n \in Nat, NEW X, NEW start \in X, NEW Turn, Turns(Turn, n, X)
    PROVE  \E f \in [0 .. n -> X] : f[0] = start /\ \A k \in 1 .. n : f[k] = Turn[k][f[k - 1]]
<1> DEFINE Until(m, f) == f \in [0 .. m -> X] /\ f[0] = start /\ \A k \in 1 .. m : f[k] = Turn[k][f[k - 1]]
           Good == {m \in 0 .. n : \E f : Until(m, f)}
<1>1. 0 \in Good
  <2>1. Until(0, [k \in 0 .. 0 |-> start])
    OBVIOUS
  <2> HIDE DEF Until
  <2>2. \E f : Until(0, f)
    BY <2>1
  <2>3. 0 \in 0 .. n
    OBVIOUS
  <2> QED BY <2>2, <2>3
<1>2. ASSUME NEW m \in 1 .. n, m - 1 \in Good PROVE m \in Good
  <2>1. PICK f : Until(m - 1, f)
    BY <1>2
  <2> DEFINE turn == Turn[m][f[m - 1]]
             g == [k \in 0 .. m |-> IF k = m THEN turn ELSE f[k]]
  <2>2. m \in Nat /\ m - 1 \in 0 .. m - 1 /\ f[m - 1] \in X
    BY <2>1
  <2>3. turn \in X
    BY <2>2 DEF Turns
  <2>4. \A k \in 0 .. m : k = m \/ k \in 0 .. m - 1
    BY <2>2
  <2>5. g \in [0 .. m -> X] /\ g[0] = start
    <3> HIDE DEF turn
    <3> QED BY <2>1, <2>2, <2>3, <2>4
  <2>6. ASSUME NEW k \in 1 .. m PROVE g[k] = Turn[k][g[k - 1]]
    <3>1. k - 1 \in 0 .. m /\ k - 1 # m /\ g[k - 1] = f[k - 1] /\ k \in 0 .. m
      BY <2>2
    <3>2. CASE k = m
      BY <3>1, <3>2
    <3>3. CASE k # m
      <4>1. k \in 1 .. m - 1 /\ g[k] = f[k]
        BY <3>3, <2>2
      <4> HIDE DEF g
      <4> QED BY <4>1, <3>1, <2>1
    <3> QED BY <3>2, <3>3
  <2>7. Until(m, g)
    <3> HIDE DEF g
    <3> QED BY <2>5, <2>6
  <2> HIDE DEF Until, g
  <2>8. \E h : Until(m, h)
    BY <2>7
  <2>9. m \in 0 .. n
    OBVIOUS
  <2> QED BY <2>8, <2>9
<1>3. n \in Good
  <2> HIDE DEF Good
  <2>1. n \in 0 .. n /\ \A k \in 1 .. n : k - 1 \in Good => k \in Good
    BY <1>2
  <2> QED BY <1>1, <2>1, FromZeroOn
<1> QED BY <1>3

-----------------------------------------------------------------------------
(* Paths. *)
LEMMA Listed ==
    \A S : (\A a \in S : <<a>> \in Seq(S)) /\ \A a, b \in S : <<a, b>> \in Seq(S)
OBVIOUS

Walked(p, done, part) ==
    CASE part \in {"", "."} -> done
      [] part = ".." /\ done # <<>> /\ Last(done) # ".." -> Front(done)
      [] part = ".." /\ done = <<>> /\ Absolute(p) -> done
      [] OTHER -> Append(done, part)

(* The step of Clean keeps a path a path. *)
LEMMA WalkedIs ==
    ASSUME NEW p \in PathSet, NEW done \in PathSet, NEW part \in Strings
    PROVE  Walked(p, done, part) \in PathSet
<1>1. Append(done, part) \in PathSet
  BY AppendProperties DEF PathSet
<1>2. ASSUME done # <<>> PROVE Front(done) \in PathSet
  <2>1. Len(done) \in Nat \ {0}
    BY <1>2, EmptySeq DEF PathSet
  <2>2. 1 \in 1 .. Len(done) + 1 /\ Len(done) - 1 \in 0 .. Len(done)
    BY <2>1
  <2> QED BY <2>1, <2>2, SubSeqProperties DEF PathSet, Front
<1> DEFINE A == part \in {"", "."}  B == part = ".." /\ done # <<>> /\ Last(done) # ".."
           C == part = ".." /\ done = <<>> /\ Absolute(p)
           W == CASE A -> done [] B -> Front(done) [] C -> done [] OTHER -> Append(done, part)
<1>3. B => done # <<>>
  OBVIOUS
<1>4. Walked(p, done, part) = W
  BY Zenon DEF Walked
<1>5. W \in PathSet
  <2> HIDE DEF A, B, C
  <2> QED BY <1>1, <1>2, <1>3
<1> QED BY <1>4, <1>5

(* What the loop of Clean makes of a path. *)
LEMMA CleanTurns ==
    ASSUME NEW p \in PathSet
    PROVE  \E kept \in [0 .. Len(p) -> PathSet] :
               /\ kept[0] = <<>>
               /\ \A k \in 1 .. Len(p) : kept[k] = Walked(p, kept[k - 1], p[k])
               /\ Clean(p) = IF kept[Len(p)] = <<>> THEN (IF Absolute(p) THEN Root ELSE Here)
                             ELSE (IF Absolute(p) THEN <<"">> \o kept[Len(p)] ELSE kept[Len(p)])
<1> DEFINE n == Len(p)
           IsKept(f) == f = [k \in 0 .. n |-> IF k = 0 THEN <<>> ELSE Walked(p, f[k - 1], p[k])]
           kept == CHOOSE f : IsKept(f)
           clean == kept[n]
<1>1. n \in Nat /\ (\A k \in 1 .. n : p[k] \in Strings) /\ <<>> \in PathSet
  BY ElementOfSeq, EmptySeq DEF PathSet
<1> HIDE DEF n
<1>2. \E f : IsKept(f)
  <2> DEFINE Turn == [k \in 1 .. n |-> [done \in PathSet |-> Walked(p, done, p[k])]]
  <2>2. \A k \in 1 .. n, done \in PathSet : Turn[k][done] = Walked(p, done, p[k])
    OBVIOUS
  <2>1. Turns(Turn, n, PathSet)
    BY <1>1, <2>2, WalkedIs DEF Turns
  <2> HIDE DEF Turn
  <2>3. PICK f \in [0 .. n -> PathSet] : f[0] = <<>> /\ \A k \in 1 .. n : f[k] = Turn[k][f[k - 1]]
    <3> DEFINE start == <<>>
    <3>1. start \in PathSet
      BY <1>1
    <3> HIDE DEF start
    <3>2. \E f \in [0 .. n -> PathSet] : f[0] = start /\ \A k \in 1 .. n : f[k] = Turn[k][f[k - 1]]
      <4>1. n \in Nat
        BY <1>1
      <4> QED BY <4>1, <2>1, <3>1, LoopExists
    <3> QED BY <3>2 DEF start
  <2>4. \A k \in 0 .. n : f[k] = IF k = 0 THEN <<>> ELSE Walked(p, f[k - 1], p[k])
    <3> TAKE k \in 0 .. n
    <3>1. k = 0 \/ (k # 0 /\ k \in 1 .. n /\ k - 1 \in 0 .. n)
      BY <1>1
    <3> QED BY <3>1, <2>2, <2>3
  <2>5. f = [k \in 0 .. n |-> f[k]]
    OBVIOUS
  <2>6. IsKept(f)
    BY <2>4, <2>5
  <2> QED BY <2>6
<1>3. IsKept(kept)
  BY <1>2
<1> HIDE DEF kept
<1>4. \A k \in 0 .. n : kept[k] \in PathSet
  <2> DEFINE Good == {k \in 0 .. n : kept[k] \in PathSet}
  <2>1. 0 \in Good
    BY <1>1, <1>3
  <2>2. \A k \in 1 .. n : k - 1 \in Good => k \in Good
    <3> TAKE k \in 1 .. n
    <3>1. k # 0 /\ k \in 0 .. n
      BY <1>1
    <3>2. kept[k] = Walked(p, kept[k - 1], p[k])
      BY <1>3, <3>1
    <3> QED BY <1>1, <3>1, <3>2, WalkedIs
  <2> HIDE DEF Good
  <2>3. \A k \in 0 .. n : k \in Good
    BY <1>1, <2>1, <2>2, FromZeroOn
  <2> QED BY <2>3 DEF Good
<1>5. Clean(p) = CASE clean = <<>> -> IF Absolute(p) THEN Root ELSE Here
                   [] clean # <<>> -> IF Absolute(p) THEN <<"">> \o clean ELSE clean
  BY Zenon DEF Clean, clean, kept, n, Walked
<1> HIDE DEF clean
<1>6. kept \in [0 .. n -> PathSet]
  BY <1>3, <1>4
<1>7. kept[0] = <<>> /\ \A k \in 1 .. n : kept[k] = Walked(p, kept[k - 1], p[k])
  <2>1. 0 \in 0 .. n /\ \A k \in 1 .. n : k \in 0 .. n /\ k # 0
    BY <1>1
  <2> QED BY <1>3, <2>1
<1>8. Clean(p) = IF clean = <<>> THEN (IF Absolute(p) THEN Root ELSE Here)
                 ELSE (IF Absolute(p) THEN <<"">> \o clean ELSE clean)
  <2> DEFINE e == <<"">>
  <2>1. Clean(p) = CASE clean = <<>> -> IF Absolute(p) THEN Root ELSE Here
                     [] clean # <<>> -> IF Absolute(p) THEN e \o clean ELSE clean
    BY <1>5
  <2> HIDE DEF e, clean
  <2>2. Clean(p) = IF clean = <<>> THEN (IF Absolute(p) THEN Root ELSE Here)
                   ELSE (IF Absolute(p) THEN e \o clean ELSE clean)
    BY <2>1
  <2> QED BY <2>2, Zenon DEF e
<1> QED BY <1>6, <1>7, <1>8, Zenon DEF n, clean

LEMMA CleanIs == \A p \in PathSet : Clean(p) \in PathSet
<1> TAKE p \in PathSet
<1>1. PICK kept \in [0 .. Len(p) -> PathSet] :
          Clean(p) = IF kept[Len(p)] = <<>> THEN (IF Absolute(p) THEN Root ELSE Here)
                     ELSE (IF Absolute(p) THEN <<"">> \o kept[Len(p)] ELSE kept[Len(p)])
  BY CleanTurns, Zenon
<1> DEFINE clean == kept[Len(p)]
           e == <<"">>
<1>2. clean \in PathSet
  <2>1. Len(p) \in 0 .. Len(p)
    BY DEF PathSet
  <2> QED BY <2>1
<1>3. Root \in PathSet /\ Here \in PathSet /\ e \in PathSet
  <2>1. "" \in Strings /\ "." \in Strings
    BY Zenon DEF Strings
  <2> QED BY <2>1, Listed, Zenon DEF Root, Here, PathSet
<1>4. Clean(p) = IF clean = <<>> THEN (IF Absolute(p) THEN Root ELSE Here)
                 ELSE (IF Absolute(p) THEN e \o clean ELSE clean)
  BY <1>1, Zenon
<1> HIDE DEF e, clean
<1>5. e \o clean \in PathSet
  BY <1>2, <1>3, ConcatProperties DEF PathSet
<1> QED BY <1>2, <1>3, <1>4, <1>5

LEMMA JoinIs == \A p, q \in PathSet : JoinPath(p, q) \in PathSet
<1> TAKE p, q \in PathSet
<1> DEFINE e == <<"">>  c == p \o q  A == p = e  B == q = e
<1>1. e \in PathSet
  <2>1. "" \in Strings
    BY Zenon DEF Strings
  <2> QED BY <2>1, Listed, Zenon DEF PathSet
<1>2. c \in PathSet
  BY ConcatProperties DEF PathSet
<1>3. /\ A /\ B => JoinPath(p, q) = e
      /\ A /\ ~B => JoinPath(p, q) = Clean(q)
      /\ ~A /\ B => JoinPath(p, q) = Clean(p)
      /\ ~A /\ ~B => JoinPath(p, q) = Clean(c)
  <2> DEFINE J == CASE A /\ B -> e [] A /\ ~B -> Clean(q) [] ~A /\ B -> Clean(p) [] OTHER -> Clean(c)
  <2>1. JoinPath(p, q) = J
    BY Zenon DEF JoinPath
  <2> HIDE DEF A, B, e, c
  <2> QED BY <2>1
<1> HIDE DEF A, B, e, c
<1> QED BY <1>1, <1>2, <1>3, CleanIs

LEMMA PrefixIs ==
    ASSUME NEW s \in PathSet, NEW u \in PathSet
    PROVE  IsPrefix(s, u) <=> Len(s) <= Len(u) /\ \A i \in 1 .. Len(s) : s[i] = u[i]
<1>1. Len(s) \in Nat /\ Len(u) \in Nat /\ (\A i \in 1 .. Len(u) : u[i] \in Strings) /\ \A i \in 1 .. Len(s) : s[i] \in Strings
  BY ElementOfSeq DEF PathSet
<1> DEFINE b == SubSeq(u, 1, Len(s))
<1>2. ASSUME Len(s) <= Len(u)
      PROVE  b \in Seq(Strings) /\ Len(b) = Len(s) /\ \A i \in 1 .. Len(s) : b[i] = u[i]
  <2>1. \A i \in 1 .. Len(s) : u[i] \in Strings
    BY <1>1, <1>2
  <2>2. /\ b \in Seq(Strings) /\ Len(b) = (IF 1 <= Len(s) THEN Len(s) - 1 + 1 ELSE 0)
        /\ \A i \in 1 .. Len(s) - 1 + 1 : b[i] = u[1 + i - 1]
    BY <1>1, <2>1, SubSeqProperties
  <2> HIDE DEF b
  <2>3. Len(b) = Len(s)
    BY <1>1, <2>2
  <2>4. \A i \in 1 .. Len(s) : i \in 1 .. Len(s) - 1 + 1 /\ 1 + i - 1 = i
    BY <1>1
  <2> QED BY <2>2, <2>3, <2>4
<1>3. IsPrefix(s, u) <=> Len(s) <= Len(u) /\ s = b
  <2>1. SubSeq(s, 1, Len(s)) = s
    BY SubSeqFull DEF PathSet
  <2> QED BY <2>1, Zenon DEF IsPrefix, b
<1> HIDE DEF b
<1>4. ASSUME Len(s) <= Len(u) PROVE s = b <=> \A i \in 1 .. Len(s) : s[i] = u[i]
  <2>1. s \in Seq(Strings)
    BY DEF PathSet
  <2>2. (\A i \in 1 .. Len(s) : s[i] = b[i]) => s = b
    BY <1>2, <1>4, <2>1, SeqEqual
  <2> QED BY <1>2, <1>4, <2>2
<1> QED BY <1>3, <1>4

LEMMA PrefixOfPrefix ==
    ASSUME NEW s \in PathSet, NEW u \in PathSet, NEW v \in PathSet, IsPrefix(s, u), IsPrefix(u, v)
    PROVE  IsPrefix(s, v)
<1>1. Len(s) \in Nat /\ Len(u) \in Nat /\ Len(v) \in Nat
  BY DEF PathSet
<1>2. Len(s) <= Len(u) /\ Len(u) <= Len(v) /\ (\A i \in 1 .. Len(s) : s[i] = u[i]) /\ \A i \in 1 .. Len(u) : u[i] = v[i]
  BY PrefixIs
<1>3. Len(s) <= Len(v) /\ \A i \in 1 .. Len(s) : i \in 1 .. Len(u)
  BY <1>1, <1>2
<1> QED BY <1>2, <1>3, PrefixIs

LEMMA PrefixOfItself == \A s \in PathSet : IsPrefix(s, s)
<1> TAKE s \in PathSet
<1>1. Len(s) \in Nat
  BY DEF PathSet
<1> QED BY <1>1, PrefixIs

(* Of two paths above a third one is above the other. *)
LEMMA PrefixesMeet ==
    ASSUME NEW s \in PathSet, NEW u \in PathSet, NEW v \in PathSet, IsPrefix(s, v), IsPrefix(u, v)
    PROVE  IsPrefix(s, u) \/ IsPrefix(u, s)
<1>1. Len(s) \in Nat /\ Len(u) \in Nat
  BY DEF PathSet
<1>2. (\A i \in 1 .. Len(s) : s[i] = v[i]) /\ \A i \in 1 .. Len(u) : u[i] = v[i]
  BY PrefixIs
<1>3. CASE Len(s) <= Len(u)
  <2>1. \A i \in 1 .. Len(s) : i \in 1 .. Len(u)
    BY <1>1, <1>3
  <2> QED BY <1>2, <1>3, <2>1, PrefixIs
<1>4. CASE ~(Len(s) <= Len(u))
  <2>1. Len(u) <= Len(s) /\ \A i \in 1 .. Len(u) : i \in 1 .. Len(s)
    BY <1>1, <1>4
  <2> QED BY <1>2, <2>1, PrefixIs
<1> QED BY <1>3, <1>4

(* Two names in a directory: neither path is below the other. *)
LEMMA EndsApart ==
    ASSUME NEW u \in PathSet, NEW v \in PathSet, NEW n \in Nat, n > 0, Len(u) = n, Len(v) = n, u[n] # v[n]
    PROVE  ~IsPrefix(u, v)
<1>1. n \in 1 .. Len(u)
  OBVIOUS
<1> QED BY <1>1, PrefixIs

Plain == Strings \ {"", ".", ".."}

LEMMA PlainWalked ==
    ASSUME NEW p, NEW done, NEW part \in Plain
    PROVE  Walked(p, done, part) = Append(done, part)
<1> DEFINE A == part \in {"", "."}  B == part = ".." /\ done # <<>> /\ Last(done) # ".."
           C == part = ".." /\ done = <<>> /\ Absolute(p)
           W == CASE A -> done [] B -> Front(done) [] C -> done [] OTHER -> Append(done, part)
<1>1. Walked(p, done, part) = W
  BY Zenon DEF Walked
<1>2. ~A /\ ~B /\ ~C
  BY Zenon DEF Plain
<1>3. W = Append(done, part)
  <2> HIDE DEF A, B, C
  <2> QED BY <1>2
<1> QED BY <1>1, <1>3

LEMMA WalkedAlike ==
    ASSUME NEW p, NEW q, Absolute(p) = Absolute(q), NEW done, NEW part
    PROVE  Walked(p, done, part) = Walked(q, done, part)
BY Zenon DEF Walked

LEMMA CleanApart ==
    ASSUME NEW p \in PathSet, NEW x \in Plain, NEW y \in Plain, x # y
    PROVE  ~IsPrefix(Clean(p \o <<x>>), Clean(p \o <<y>>))
<1> DEFINE n == Len(p)  ax == <<x>>  ay == <<y>>  px == p \o ax  py == p \o ay  e == <<"">>
<1>0. x \in Strings /\ y \in Strings /\ "" \in Strings
  BY Zenon DEF Plain, Strings
<1>1. /\ ax \in PathSet /\ Len(ax) = 1 /\ ax[1] = x /\ ay \in PathSet /\ Len(ay) = 1 /\ ay[1] = y
  <2>1. ax \in PathSet /\ ay \in PathSet
    BY <1>0, Listed, Zenon DEF PathSet
  <2>2. \A z : Len(<<z>>) = 1 /\ <<z>>[1] = z
    OBVIOUS
  <2> QED BY <2>1, <2>2, Zenon
<1>e. e \in PathSet /\ Len(e) = 1
  <2>1. e \in PathSet
    BY <1>0, Listed, Zenon DEF PathSet
  <2>2. \A z : Len(<<z>>) = 1
    OBVIOUS
  <2> QED BY <2>1, <2>2, Zenon
<1> HIDE DEF ax, ay, e
<1>n. n \in Nat /\ n + 1 \in Nat /\ p \in Seq(Strings)
  BY DEF PathSet
<1>2. /\ px \in PathSet /\ Len(px) = n + 1 /\ (\A i \in 1 .. n : px[i] = p[i]) /\ px[n + 1] = x
  <2>1. ax \in Seq(Strings)
    BY <1>1 DEF PathSet
  <2>2. /\ p \o ax \in Seq(Strings) /\ Len(p \o ax) = Len(p) + Len(ax)
        /\ \A i \in 1 .. Len(p) + Len(ax) : (p \o ax)[i] = IF i <= Len(p) THEN p[i] ELSE ax[i - Len(p)]
    BY <1>n, <2>1, ConcatProperties
  <2> HIDE DEF px, n
  <2>3. /\ px \in Seq(Strings) /\ Len(px) = n + 1
        /\ \A i \in 1 .. n + 1 : px[i] = IF i <= n THEN p[i] ELSE ax[i - n]
    BY <1>1, <2>2 DEF px, n
  <2> QED BY <1>1, <1>n, <2>3 DEF PathSet
<1>3. /\ py \in PathSet /\ Len(py) = n + 1 /\ (\A i \in 1 .. n : py[i] = p[i]) /\ py[n + 1] = y
  <2>1. ay \in Seq(Strings)
    BY <1>1 DEF PathSet
  <2>2. /\ p \o ay \in Seq(Strings) /\ Len(p \o ay) = Len(p) + Len(ay)
        /\ \A i \in 1 .. Len(p) + Len(ay) : (p \o ay)[i] = IF i <= Len(p) THEN p[i] ELSE ay[i - Len(p)]
    BY <1>n, <2>1, ConcatProperties
  <2> HIDE DEF py, n
  <2>3. /\ py \in Seq(Strings) /\ Len(py) = n + 1
        /\ \A i \in 1 .. n + 1 : py[i] = IF i <= n THEN p[i] ELSE ay[i - n]
    BY <1>1, <2>2 DEF py, n
  <2> QED BY <1>1, <1>n, <2>3 DEF PathSet
<1> HIDE DEF px, py, n
<1>4. Absolute(px) = Absolute(py)
  <2>1. CASE n = 0
    <3>1. ~(Len(px) > 1) /\ ~(Len(py) > 1)
      BY <1>2, <1>3, <2>1
    <3> QED BY <3>1, Zenon DEF Absolute
  <2>2. CASE n # 0
    <3>1. Len(px) > 1 /\ Len(py) > 1 /\ px[1] = py[1]
      BY <1>n, <1>2, <1>3, <2>2
    <3> QED BY <3>1, Zenon DEF Absolute
  <2> QED BY <2>1, <2>2
<1>5. PICK kx \in [0 .. n + 1 -> PathSet] :
          /\ kx[0] = <<>>
          /\ \A k \in 1 .. n + 1 : kx[k] = Walked(px, kx[k - 1], px[k])
          /\ Clean(px) = IF kx[n + 1] = <<>> THEN (IF Absolute(px) THEN Root ELSE Here)
                         ELSE (IF Absolute(px) THEN e \o kx[n + 1] ELSE kx[n + 1])
  BY <1>2, CleanTurns, Zenon DEF e
<1>6. PICK ky \in [0 .. n + 1 -> PathSet] :
          /\ ky[0] = <<>>
          /\ \A k \in 1 .. n + 1 : ky[k] = Walked(py, ky[k - 1], py[k])
          /\ Clean(py) = IF ky[n + 1] = <<>> THEN (IF Absolute(py) THEN Root ELSE Here)
                         ELSE (IF Absolute(py) THEN e \o ky[n + 1] ELSE ky[n + 1])
  BY <1>3, CleanTurns, Zenon DEF e
<1>7. kx[n] = ky[n]
  <2> DEFINE Good == {k \in 0 .. n : kx[k] = ky[k]}
  <2>1. 0 \in Good
    BY <1>n, <1>5, <1>6
  <2>2. \A k \in 1 .. n : k - 1 \in Good => k \in Good
    <3> SUFFICES ASSUME NEW k \in 1 .. n, k - 1 \in Good PROVE k \in Good
      OBVIOUS
    <3>1. k \in 1 .. n + 1 /\ k \in 0 .. n /\ px[k] = py[k] /\ kx[k - 1] = ky[k - 1]
      BY <1>n, <1>2, <1>3
    <3>2. Walked(px, kx[k - 1], px[k]) = Walked(py, ky[k - 1], py[k])
      BY <1>4, <3>1, WalkedAlike
    <3> QED BY <1>5, <1>6, <3>1, <3>2
  <2> HIDE DEF Good
  <2>3. \A k \in 0 .. n : k \in Good
    BY <1>n, <2>1, <2>2, FromZeroOn
  <2>4. n \in 0 .. n
    BY <1>n
  <2> QED BY <2>3, <2>4 DEF Good
<1> DEFINE c == kx[n]  cx == Append(c, x)  cy == Append(c, y)
<1>8. kx[n + 1] = cx /\ ky[n + 1] = cy /\ c \in PathSet
  <2>1. n + 1 \in 1 .. n + 1 /\ (n + 1) - 1 = n /\ n \in 0 .. n + 1
    BY <1>n
  <2>2. kx[n + 1] = Walked(px, kx[n], x) /\ ky[n + 1] = Walked(py, ky[n], y)
    BY <1>2, <1>3, <1>5, <1>6, <2>1
  <2> QED BY <1>7, <2>1, <2>2, PlainWalked
<1> HIDE DEF c
<1>9. /\ cx \in PathSet /\ cx # <<>> /\ cy \in PathSet /\ cy # <<>> /\ Len(c) \in Nat
      /\ Len(cx) = Len(c) + 1 /\ Len(cy) = Len(c) + 1 /\ cx[Len(c) + 1] = x /\ cy[Len(c) + 1] = y
  <2>1. c \in Seq(Strings) /\ x \in Strings /\ y \in Strings
    BY <1>0, <1>8, Zenon DEF PathSet
  <2>2. /\ cx \in Seq(Strings) /\ cx # <<>> /\ Len(cx) = Len(c) + 1 /\ cx[Len(c) + 1] = x
    BY <2>1, AppendProperties
  <2>3. /\ cy \in Seq(Strings) /\ cy # <<>> /\ Len(cy) = Len(c) + 1 /\ cy[Len(c) + 1] = y
    BY <2>1, AppendProperties
  <2>4. Len(c) \in Nat
    BY <2>1
  <2> QED BY <2>2, <2>3, <2>4, Zenon DEF PathSet
<1> HIDE DEF cx, cy
<1>10. CASE Absolute(px)
  <2> DEFINE m == Len(c) + 2
  <2>1. Clean(px) = e \o cx /\ Clean(py) = e \o cy
    BY <1>4, <1>5, <1>6, <1>8, <1>9, <1>10, Zenon
  <2>2. /\ e \in Seq(Strings) /\ cx \in Seq(Strings) /\ cy \in Seq(Strings)
    BY <1>e, <1>9 DEF PathSet
  <2>3. /\ e \o cx \in Seq(Strings) /\ Len(e \o cx) = Len(e) + Len(cx)
        /\ \A i \in 1 .. Len(e) + Len(cx) : (e \o cx)[i] = IF i <= Len(e) THEN e[i] ELSE cx[i - Len(e)]
    BY <2>2, ConcatProperties
  <2>4. /\ e \o cy \in Seq(Strings) /\ Len(e \o cy) = Len(e) + Len(cy)
        /\ \A i \in 1 .. Len(e) + Len(cy) : (e \o cy)[i] = IF i <= Len(e) THEN e[i] ELSE cy[i - Len(e)]
    BY <2>2, ConcatProperties
  <2> DEFINE u == e \o cx  v == e \o cy
  <2>5. u \in PathSet /\ v \in PathSet /\ Len(u) = m /\ Len(v) = m
    BY <1>e, <1>9, <2>3, <2>4 DEF PathSet
  <2>6. u[m] = x /\ v[m] = y /\ m \in Nat /\ m > 0
    <3>1. m \in 1 .. Len(e) + Len(cx) /\ m \in 1 .. Len(e) + Len(cy) /\ ~(m <= Len(e)) /\ m - Len(e) = Len(c) + 1 /\ m \in Nat /\ m > 0
      BY <1>e, <1>9
    <3> HIDE DEF m
    <3> QED BY <1>9, <2>3, <2>4, <3>1
  <2> HIDE DEF u, v, m
  <2>7. ~IsPrefix(u, v)
    BY <2>5, <2>6, EndsApart
  <2> QED BY <2>1, <2>7 DEF u, v, px, py, ax, ay
<1>11. CASE ~Absolute(px)
  <2>1. Clean(px) = cx /\ Clean(py) = cy
    BY <1>4, <1>5, <1>6, <1>8, <1>9, <1>11, Zenon
  <2> DEFINE m == Len(c) + 1
  <2>2. m \in Nat /\ m > 0 /\ Len(cx) = m /\ Len(cy) = m /\ cx[m] # cy[m]
    BY <1>9
  <2> HIDE DEF m
  <2>3. ~IsPrefix(cx, cy)
    BY <1>9, <2>2, EndsApart
  <2> QED BY <2>1, <2>3 DEF px, py, ax, ay
<1> QED BY <1>10, <1>11

(* A path that is not refused is in its base. *)
LEMMA FullPathIs ==
    ASSUME NEW base \in PathSet, NEW sub \in PathSet
    PROVE  FullPath(base, sub) = Refused \/ (FullPath(base, sub) \in PathSet /\ IsPrefix(base, FullPath(base, sub)))
BY JoinIs, Zenon DEF FullPath

(* What lies on the way to a path in a base is in it or above it. *)
LEMMA OnTheWay ==
    ASSUME NEW base \in PathSet, NEW p \in PathSet, IsPrefix(base, p), NEW n \in 1 .. Len(p)
    PROVE  /\ SubSeq(p, 1, n) \in PathSet /\ Len(SubSeq(p, 1, n)) = n
           /\ IsPrefix(base, SubSeq(p, 1, n)) \/ IsStrictPrefix(SubSeq(p, 1, n), base)
<1> DEFINE q == SubSeq(p, 1, n)
<1>1. Len(p) \in Nat /\ n \in Nat /\ n <= Len(p) /\ \A i \in 1 .. Len(p) : p[i] \in Strings
  BY ElementOfSeq DEF PathSet
<1>2. q \in PathSet /\ Len(q) = n /\ \A i \in 1 .. n : q[i] = p[i]
  <2>1. \A i \in 1 .. n : p[i] \in Strings
    BY <1>1
  <2>2. /\ q \in Seq(Strings) /\ Len(q) = (IF 1 <= n THEN n - 1 + 1 ELSE 0)
        /\ \A i \in 1 .. n - 1 + 1 : q[i] = p[1 + i - 1]
    BY <1>1, <2>1, SubSeqProperties
  <2> HIDE DEF q
  <2>3. Len(q) = n
    BY <1>1, <2>2
  <2>4. \A i \in 1 .. n : i \in 1 .. n - 1 + 1 /\ 1 + i - 1 = i
    BY <1>1
  <2> QED BY <2>2, <2>3, <2>4 DEF PathSet
<1> HIDE DEF q
<1>3. IsPrefix(q, p)
  BY <1>1, <1>2, PrefixIs
<1>4. IsPrefix(base, q) \/ IsPrefix(q, base)
  BY <1>2, <1>3, PrefixesMeet
<1>5. IsPrefix(base, q) \/ IsStrictPrefix(q, base)
  BY <1>2, <1>4, PrefixOfItself DEF IsStrictPrefix
<1> QED BY <1>2, <1>5 DEF q

-----------------------------------------------------------------------------
(* File systems. *)
Values == {"judge", "other", Group, "created", "770", "750", "660", "640", "old", "new", "nothing"}
NodeSet == [kind : Kinds, gid : Values, mode : Values, data : Values]
NamesSet == UNION {[D -> Nat] : D \in SUBSET PathSet}
NodesSet == UNION {[1 .. k -> NodeSet] : k \in Nat}
FsSet == [names : NamesSet, nodes : NodesSet, err : BOOLEAN, left : Nat]
FbSet == [path : PathSet, gid : Values, groupWritable : BOOLEAN]

(* The entries are a tree, and a directory has one name. *)
Sound(f) ==
    /\ \A q \in DOMAIN f.names : f.names[q] \in DOMAIN f.nodes /\ (Len(q) > 1 => IsKind(f, Parent(q), "dir"))
    /\ \A q, r \in DOMAIN f.names : f.names[q] = f.names[r] /\ Node(f, q).kind = "dir" => q = r

Linked(base, f, n) == \E q \in DOMAIN f.names : f.names[q] = n /\ IsPrefix(base, q)
ModeOf(fb, kind) == IF kind = "dir" THEN ModeExec(fb) ELSE ModeFile(fb)

(* What making and writing files in a base may do to a file system: nothing  *)
(* goes, a node that changes is linked in the base and gets the base's       *)
(* owner and mode, and what is new is in the base or above it.               *)
Grown(fb, f, g) ==
    /\ \A q \in DOMAIN f.names : q \in DOMAIN g.names /\ g.names[q] = f.names[q]
    /\ \A n \in DOMAIN f.nodes :
        /\ n \in DOMAIN g.nodes
        /\ g.nodes[n].kind = f.nodes[n].kind
        /\ g.nodes[n].gid = f.nodes[n].gid \/ g.nodes[n].gid = fb.gid
        /\ g.nodes[n].mode = f.nodes[n].mode \/ g.nodes[n].mode = ModeOf(fb, f.nodes[n].kind)
        /\ g.nodes[n] = f.nodes[n] \/ Linked(fb.path, f, n)
    /\ \A q \in DOMAIN g.names \ DOMAIN f.names :
        /\ g.names[q] \notin DOMAIN f.nodes
        /\ IsPrefix(fb.path, q) \/ IsStrictPrefix(q, fb.path)
Step(fb, f, g) == g \in FsSet /\ Sound(g) /\ Grown(fb, f, g) /\ (f.err => g.err)

LEMMA FsIs ==
    ASSUME NEW f \in FsSet
    PROVE  /\ f.names = [q \in DOMAIN f.names |-> f.names[q]] /\ DOMAIN f.names \subseteq PathSet
           /\ \A q \in DOMAIN f.names : f.names[q] \in Nat
           /\ f.nodes = [n \in DOMAIN f.nodes |-> f.nodes[n]] /\ \A n \in DOMAIN f.nodes : f.nodes[n] \in NodeSet
           /\ \E k \in Nat : DOMAIN f.nodes = 1 .. k
           /\ f.err \in BOOLEAN /\ f.left \in Nat
<1>1. f.names \in NamesSet /\ f.nodes \in NodesSet /\ f.err \in BOOLEAN /\ f.left \in Nat
  BY DEF FsSet
<1>2. PICK D \in SUBSET PathSet : f.names \in [D -> Nat]
  BY <1>1 DEF NamesSet
<1>3. PICK k \in Nat : f.nodes \in [1 .. k -> NodeSet]
  BY <1>1 DEF NodesSet
<1>4. /\ f.names = [q \in DOMAIN f.names |-> f.names[q]] /\ DOMAIN f.names \subseteq PathSet
      /\ \A q \in DOMAIN f.names : f.names[q] \in Nat
  BY <1>2
<1>5. /\ f.nodes = [n \in DOMAIN f.nodes |-> f.nodes[n]] /\ (\A n \in DOMAIN f.nodes : f.nodes[n] \in NodeSet)
      /\ DOMAIN f.nodes = 1 .. k
  BY <1>3
<1> QED BY <1>1, <1>4, <1>5

LEMMA NamesAre == \A D \in SUBSET PathSet : \A h \in [D -> Nat] : h \in NamesSet
BY DEF NamesSet
LEMMA NodesAre == \A k \in Nat : \A h \in [1 .. k -> NodeSet] : h \in NodesSet
BY DEF NodesSet

(* Nothing but the outcome has changed. *)
Same(f, g) == g.names = f.names /\ g.nodes = f.nodes

(* What the nodes hold has not changed. *)
DataKept(f, g) == \A n \in DOMAIN f.nodes : g.nodes[n].data = f.nodes[n].data

LEMMA SameSteps ==
    ASSUME NEW fb, NEW f \in FsSet, Sound(f), NEW g \in FsSet, Same(f, g), f.err => g.err
    PROVE  Step(fb, f, g)
<1>1. Sound(g)
  BY DEF Sound, Same, IsKind, Node
<1>2. Grown(fb, f, g)
  BY DEF Grown, Same
<1> QED BY <1>1, <1>2 DEF Step

LEMMA StepsFollow ==
    ASSUME NEW fb, NEW f \in FsSet, NEW g \in FsSet, NEW h \in FsSet, Step(fb, f, g), Step(fb, g, h), Sound(f)
    PROVE  Step(fb, f, h)
<1>0. Sound(g) /\ Sound(h) /\ Grown(fb, f, g) /\ Grown(fb, g, h) /\ (f.err => h.err)
  BY DEF Step
<1>1. ASSUME NEW n \in DOMAIN f.nodes, Linked(fb.path, g, n) PROVE Linked(fb.path, f, n)
  <2>1. PICK q \in DOMAIN g.names : g.names[q] = n /\ IsPrefix(fb.path, q)
    BY <1>1 DEF Linked
  <2>2. q \in DOMAIN f.names /\ f.names[q] = n
    BY <1>0, <2>1 DEF Grown
  <2> QED BY <2>1, <2>2 DEF Linked
<1>2. ASSUME NEW q \in DOMAIN f.names PROVE q \in DOMAIN h.names /\ h.names[q] = f.names[q]
  BY <1>0 DEF Grown
<1>3. ASSUME NEW n \in DOMAIN f.nodes
      PROVE  /\ n \in DOMAIN h.nodes
             /\ h.nodes[n].kind = f.nodes[n].kind
             /\ h.nodes[n].gid = f.nodes[n].gid \/ h.nodes[n].gid = fb.gid
             /\ h.nodes[n].mode = f.nodes[n].mode \/ h.nodes[n].mode = ModeOf(fb, f.nodes[n].kind)
             /\ h.nodes[n] = f.nodes[n] \/ Linked(fb.path, f, n)
  <2>1. /\ n \in DOMAIN g.nodes
        /\ g.nodes[n].kind = f.nodes[n].kind
        /\ g.nodes[n].gid = f.nodes[n].gid \/ g.nodes[n].gid = fb.gid
        /\ g.nodes[n].mode = f.nodes[n].mode \/ g.nodes[n].mode = ModeOf(fb, f.nodes[n].kind)
        /\ g.nodes[n] = f.nodes[n] \/ Linked(fb.path, f, n)
    BY <1>0 DEF Grown
  <2>2. /\ n \in DOMAIN h.nodes
        /\ h.nodes[n].kind = g.nodes[n].kind
        /\ h.nodes[n].gid = g.nodes[n].gid \/ h.nodes[n].gid = fb.gid
        /\ h.nodes[n].mode = g.nodes[n].mode \/ h.nodes[n].mode = ModeOf(fb, g.nodes[n].kind)
        /\ h.nodes[n] = g.nodes[n] \/ Linked(fb.path, g, n)
    BY <1>0, <2>1 DEF Grown
  <2> QED BY <1>1, <2>1, <2>2
<1>4. ASSUME NEW q \in DOMAIN h.names \ DOMAIN f.names
      PROVE  h.names[q] \notin DOMAIN f.nodes /\ (IsPrefix(fb.path, q) \/ IsStrictPrefix(q, fb.path))
  <2>1. CASE q \in DOMAIN g.names
    <3>1. h.names[q] = g.names[q]
      BY <1>0, <2>1 DEF Grown
    <3> QED BY <1>0, <2>1, <3>1 DEF Grown
  <2>2. CASE q \notin DOMAIN g.names
    <3>1. DOMAIN f.nodes \subseteq DOMAIN g.nodes
      BY <1>0 DEF Grown
    <3> QED BY <1>0, <2>2, <3>1 DEF Grown
  <2> QED BY <2>1, <2>2
<1>5. Grown(fb, f, h)
  BY <1>2, <1>3, <1>4 DEF Grown
<1> QED BY <1>0, <1>5 DEF Step

(* A system call does what it does, or fails and does nothing. *)
LEMMA DoIs ==
    ASSUME NEW f \in FsSet, NEW can \in BOOLEAN, NEW after, can => after \in FsSet /\ after.err = f.err
    PROVE  /\ Do(f, can, after) \in FsSet
           /\ f.err => Do(f, can, after).err
           /\ Do(f, can, after).err => Same(f, Do(f, can, after))
           /\ ~Do(f, can, after).err => can /\ ~f.err /\ Same(after, Do(f, can, after))
<1> DEFINE failed == [f EXCEPT !.err = TRUE]
           done == [after EXCEPT !.left = f.left - 1]
<1>1. failed \in FsSet /\ failed.err = TRUE /\ Same(f, failed)
  BY DEF FsSet, Same
<1>2. ASSUME can, f.left # 0 PROVE done \in FsSet /\ done.err = f.err /\ Same(after, done)
  <2>1. after \in FsSet /\ after.err = f.err /\ f.left - 1 \in Nat
    BY <1>2 DEF FsSet
  <2> QED BY <2>1 DEF FsSet, Same
<1>3. Do(f, can, after) = CASE f.err -> f [] ~f.err /\ (~can \/ f.left = 0) -> failed [] OTHER -> done
  BY Zenon DEF Do
<1>4. Same(f, f) /\ f.err \in BOOLEAN
  BY DEF Same, FsSet
<1> HIDE DEF failed, done
<1>5. CASE f.err
  <2>1. Do(f, can, after) = f
    BY <1>3, <1>5
  <2> QED BY <1>4, <1>5, <2>1
<1>6. CASE ~f.err /\ (~can \/ f.left = 0)
  <2>1. Do(f, can, after) = failed
    BY <1>3, <1>6
  <2> QED BY <1>1, <1>6, <2>1
<1>7. CASE ~f.err /\ ~(~can \/ f.left = 0)
  <2>1. Do(f, can, after) = done
    BY <1>3, <1>7
  <2> QED BY <1>2, <1>7, <2>1
<1> QED BY <1>4, <1>5, <1>6, <1>7

-----------------------------------------------------------------------------
(* The system calls. *)
LEMMA EnterIs ==
    ASSUME NEW f \in FsSet, NEW p \in PathSet, NEW node \in NodeSet
    PROVE  LET g == Enter(f, p, node)
           IN  /\ g \in FsSet /\ g.err = f.err /\ p \in DOMAIN g.names
               /\ DOMAIN g.names = DOMAIN f.names \cup {p} /\ DOMAIN f.nodes \subseteq DOMAIN g.nodes
               /\ \A q \in DOMAIN f.names : q # p => g.names[q] = f.names[q]
               /\ \A n \in DOMAIN f.nodes : g.nodes[n] = f.nodes[n]
               /\ g.names[p] \in DOMAIN g.nodes \ DOMAIN f.nodes /\ g.nodes[g.names[p]] = node
<1> DEFINE n == Cardinality(DOMAIN f.nodes) + 1
           ns == With(f.names, p, n)
           ds == With(f.nodes, n, node)
           g == [f EXCEPT !.names = ns, !.nodes = ds]
<1>1. /\ DOMAIN f.names \subseteq PathSet /\ (\A q \in DOMAIN f.names : f.names[q] \in Nat)
      /\ \A i \in DOMAIN f.nodes : f.nodes[i] \in NodeSet
  BY FsIs
<1>2. PICK k \in Nat : DOMAIN f.nodes = 1 .. k
  BY FsIs
<1>3. n = k + 1 /\ n \in Nat /\ 1 .. n = (1 .. k) \cup {n} /\ n \notin 1 .. k
  <2>1. Cardinality(1 .. k) = k
    <3>1. Cardinality(1 .. k) = IF 1 > k THEN 0 ELSE k - 1 + 1
      BY FS_Interval
    <3> QED BY <3>1
  <2> QED BY <1>2, <2>1
<1> HIDE DEF n
<1>4. /\ ns \in NamesSet /\ DOMAIN ns = DOMAIN f.names \cup {p} /\ ns[p] = n
      /\ \A q \in DOMAIN f.names : q # p => ns[q] = f.names[q]
  <2> DEFINE D == DOMAIN f.names \cup {p}
  <2>1. D \in SUBSET PathSet
    BY <1>1
  <2>2. ns \in [D -> Nat]
    BY <1>1, <1>3 DEF With
  <2>3. ns \in NamesSet
    <3> HIDE DEF ns, D
    <3> QED BY <2>1, <2>2, NamesAre
  <2> QED BY <2>3 DEF With
<1>5. /\ ds \in NodesSet /\ DOMAIN ds = DOMAIN f.nodes \cup {n} /\ ds[n] = node
      /\ \A i \in DOMAIN f.nodes : ds[i] = f.nodes[i]
  <2>1. ds \in [1 .. n -> NodeSet]
    BY <1>1, <1>2, <1>3 DEF With
  <2>2. ds \in NodesSet
    <3> HIDE DEF ds
    <3> QED BY <1>3, <2>1, NodesAre
  <2> QED BY <1>2, <1>3, <2>2 DEF With
<1>6. Enter(f, p, node) = g
  BY DEF Enter, n
<1> HIDE DEF ns, ds
<1>7. g \in FsSet /\ g.names = ns /\ g.nodes = ds /\ g.err = f.err
  BY <1>4, <1>5 DEF FsSet
<1> HIDE DEF g
<1>8. n \in DOMAIN ds \ DOMAIN f.nodes
  BY <1>2, <1>3, <1>5
<1> QED BY <1>4, <1>5, <1>6, <1>7, <1>8

(* A new entry in a directory. *)
LEMMA EntersStep ==
    ASSUME NEW fb, NEW f \in FsSet, Sound(f), NEW p \in PathSet, NEW node \in NodeSet,
           p \notin DOMAIN f.names, IsKind(f, Parent(p), "dir"), IsPrefix(fb.path, p) \/ IsStrictPrefix(p, fb.path),
           NEW g \in FsSet, Same(Enter(f, p, node), g), ~f.err
    PROVE  /\ Step(fb, f, g) /\ p \in DOMAIN g.names /\ Node(g, p) = node
           /\ DOMAIN g.names = DOMAIN f.names \cup {p} /\ DataKept(f, g)
<1>1. /\ p \in DOMAIN g.names
      /\ DOMAIN g.names = DOMAIN f.names \cup {p} /\ DOMAIN f.nodes \subseteq DOMAIN g.nodes
      /\ \A q \in DOMAIN f.names : g.names[q] = f.names[q]
      /\ \A n \in DOMAIN f.nodes : g.nodes[n] = f.nodes[n]
      /\ g.names[p] \in DOMAIN g.nodes \ DOMAIN f.nodes /\ g.nodes[g.names[p]] = node
  <2> DEFINE e == Enter(f, p, node)
  <2>1. /\ p \in DOMAIN e.names
        /\ DOMAIN e.names = DOMAIN f.names \cup {p} /\ DOMAIN f.nodes \subseteq DOMAIN e.nodes
        /\ \A q \in DOMAIN f.names : q # p => e.names[q] = f.names[q]
        /\ \A n \in DOMAIN f.nodes : e.nodes[n] = f.nodes[n]
        /\ e.names[p] \in DOMAIN e.nodes \ DOMAIN f.nodes /\ e.nodes[e.names[p]] = node
    BY EnterIs
  <2>2. g.names = e.names /\ g.nodes = e.nodes
    BY DEF Same
  <2> HIDE DEF e
  <2> QED BY <2>1, <2>2
<1>2. Grown(fb, f, g)
  BY <1>1 DEF Grown
<1>3. \A q \in DOMAIN f.names : f.names[q] \in DOMAIN f.nodes /\ (Len(q) > 1 => IsKind(f, Parent(q), "dir"))
  BY DEF Sound
<1>4. \A q : IsKind(f, q, "dir") => IsKind(g, q, "dir")
  BY <1>1, <1>3 DEF IsKind, Node
<1>5. ASSUME NEW q \in DOMAIN g.names PROVE g.names[q] \in DOMAIN g.nodes /\ (Len(q) > 1 => IsKind(g, Parent(q), "dir"))
  BY <1>1, <1>3, <1>4
<1>6. ASSUME NEW q \in DOMAIN g.names, NEW r \in DOMAIN g.names, g.names[q] = g.names[r], Node(g, q).kind = "dir"
      PROVE  q = r
  <2>1. CASE q \in DOMAIN f.names /\ r \in DOMAIN f.names
    <3>1. f.names[q] = f.names[r] /\ Node(f, q).kind = "dir"
      BY <1>1, <1>3, <1>6, <2>1 DEF Node
    <3> QED BY <2>1, <3>1 DEF Sound
  <2>2. CASE q = p
    BY <1>1, <1>3, <1>6, <2>2
  <2>3. CASE r = p
    BY <1>1, <1>3, <1>6, <2>3
  <2> QED BY <1>1, <2>1, <2>2, <2>3
<1>7. Sound(g)
  BY <1>5, <1>6 DEF Sound
<1> QED BY <1>1, <1>2, <1>7 DEF Step, Node, DataKept

(* A node that is changed by its name p. *)
Changed(f, p, g) ==
    /\ g.names = f.names /\ DOMAIN g.nodes = DOMAIN f.nodes
    /\ \A n \in DOMAIN f.nodes : n # f.names[p] => g.nodes[n] = f.nodes[n]
    /\ Node(g, p).kind = Node(f, p).kind

LEMMA ChangesStep ==
    ASSUME NEW fb, NEW f \in FsSet, Sound(f), NEW p \in DOMAIN f.names, IsPrefix(fb.path, p), NEW g \in FsSet,
           Changed(f, p, g), ~f.err,
           Node(g, p).gid = Node(f, p).gid \/ Node(g, p).gid = fb.gid,
           Node(g, p).mode = Node(f, p).mode \/ Node(g, p).mode = ModeOf(fb, Node(f, p).kind)
    PROVE  Step(fb, f, g)
<1>1. f.names[p] \in DOMAIN f.nodes /\ g.names[p] = f.names[p]
  BY DEF Sound, Changed
<1>2. Linked(fb.path, f, f.names[p])
  BY DEF Linked
<1>3. ASSUME NEW n \in DOMAIN f.nodes
      PROVE  /\ n \in DOMAIN g.nodes
             /\ g.nodes[n].kind = f.nodes[n].kind
             /\ g.nodes[n].gid = f.nodes[n].gid \/ g.nodes[n].gid = fb.gid
             /\ g.nodes[n].mode = f.nodes[n].mode \/ g.nodes[n].mode = ModeOf(fb, f.nodes[n].kind)
             /\ g.nodes[n] = f.nodes[n] \/ Linked(fb.path, f, n)
  <2>1. CASE n = f.names[p]
    BY <1>1, <1>2, <2>1 DEF Changed, Node
  <2>2. CASE n # f.names[p]
    BY <2>2 DEF Changed
  <2> QED BY <2>1, <2>2
<1>4. Grown(fb, f, g)
  BY <1>3 DEF Grown, Changed
<1>5. \A q \in DOMAIN f.names : Node(g, q).kind = Node(f, q).kind
  BY <1>3 DEF Sound, Changed, Node
<1>6. Sound(g)
  <2>1. \A q, kind : IsKind(f, q, kind) <=> IsKind(g, q, kind)
    BY <1>5 DEF IsKind, Changed
  <2> QED BY <1>5, <2>1 DEF Sound, Changed
<1> QED BY <1>4, <1>6 DEF Step

LEMMA EditIs ==
    ASSUME NEW f \in FsSet, NEW n \in DOMAIN f.nodes, NEW node \in NodeSet
    PROVE  LET g == [f EXCEPT !.nodes = [f.nodes EXCEPT ![n] = node]]
           IN  /\ g \in FsSet /\ g.err = f.err /\ g.names = f.names /\ DOMAIN g.nodes = DOMAIN f.nodes
               /\ g.nodes[n] = node /\ \A i \in DOMAIN f.nodes : i # n => g.nodes[i] = f.nodes[i]
<1> DEFINE ds == [f.nodes EXCEPT ![n] = node]
           g == [f EXCEPT !.nodes = ds]
<1>1. \A i \in DOMAIN f.nodes : f.nodes[i] \in NodeSet
  BY FsIs
<1>2. PICK k \in Nat : DOMAIN f.nodes = 1 .. k
  BY FsIs
<1>3. /\ ds \in [1 .. k -> NodeSet] /\ DOMAIN ds = DOMAIN f.nodes /\ ds[n] = node
      /\ \A i \in DOMAIN f.nodes : i # n => ds[i] = f.nodes[i]
  BY <1>1, <1>2
<1> HIDE DEF ds
<1>4. ds \in NodesSet
  BY <1>3, NodesAre
<1>5. g \in FsSet /\ g.err = f.err /\ g.names = f.names /\ g.nodes = ds
  BY <1>4 DEF FsSet
<1> HIDE DEF g
<1>6. /\ g \in FsSet /\ g.err = f.err /\ g.names = f.names /\ DOMAIN g.nodes = DOMAIN f.nodes
      /\ g.nodes[n] = node /\ \A i \in DOMAIN f.nodes : i # n => g.nodes[i] = f.nodes[i]
  BY <1>3, <1>5
<1> QED BY <1>6 DEF g, ds

(* A call that changes the node of a name in the base. *)
LEMMA EditsStep ==
    ASSUME NEW fb, NEW f \in FsSet, Sound(f), NEW p \in DOMAIN f.names, IsPrefix(fb.path, p), NEW node \in NodeSet,
           node.kind = Node(f, p).kind, node.gid = Node(f, p).gid \/ node.gid = fb.gid,
           node.mode = Node(f, p).mode \/ node.mode = ModeOf(fb, node.kind),
           NEW g \in FsSet, ~f.err, Same([f EXCEPT !.nodes = [f.nodes EXCEPT ![f.names[p]] = node]], g)
    PROVE  Step(fb, f, g) /\ g.names = f.names /\ Node(g, p) = node
           /\ \A n \in DOMAIN f.nodes : n # f.names[p] => g.nodes[n] = f.nodes[n]
<1>1. f.names[p] \in DOMAIN f.nodes
  BY DEF Sound
<1>2. /\ g.names = f.names /\ DOMAIN g.nodes = DOMAIN f.nodes
      /\ g.nodes[f.names[p]] = node /\ \A n \in DOMAIN f.nodes : n # f.names[p] => g.nodes[n] = f.nodes[n]
  <2> DEFINE e == [f EXCEPT !.nodes = [f.nodes EXCEPT ![f.names[p]] = node]]
  <2>1. /\ e.names = f.names /\ DOMAIN e.nodes = DOMAIN f.nodes
        /\ e.nodes[f.names[p]] = node /\ \A n \in DOMAIN f.nodes : n # f.names[p] => e.nodes[n] = f.nodes[n]
    BY <1>1, EditIs
  <2>2. g.names = e.names /\ g.nodes = e.nodes
    BY DEF Same
  <2> HIDE DEF e
  <2> QED BY <2>1, <2>2
<1>3. Node(g, p) = node
  BY <1>2 DEF Node
<1>4. Changed(f, p, g)
  BY <1>2, <1>3 DEF Changed
<1>5. Step(fb, f, g)
  BY <1>3, <1>4, ChangesStep
<1> QED BY <1>2, <1>3, <1>5

(* The file p holds the data, and no other node has changed. *)
Wrote(f, p, data, h) ==
    ~h.err => /\ ~f.err /\ IsKind(h, p, "file") /\ Node(h, p).data = data
              /\ DOMAIN h.names \subseteq DOMAIN f.names \cup {p}
              /\ \A n \in DOMAIN f.nodes : n # h.names[p] => h.nodes[n] = f.nodes[n]

LEMMA PutIs ==
    ASSUME NEW fb, NEW f \in FsSet, Sound(f), NEW p \in PathSet, NEW data,
           ~f.err => IsPrefix(fb.path, p), ~f.err => data \in Values, NEW h, h = Put(f, p, data)
    PROVE  Step(fb, f, h) /\ Wrote(f, p, data, h)
<1> DEFINE can == IsKind(f, Parent(p), "dir") /\ ~IsKind(f, p, "dir")
           node == [kind |-> "file", gid |-> "judge", mode |-> "created", data |-> data]
           edited == [f EXCEPT !.nodes[f.names[p]].data = data]
           after == IF p \in DOMAIN f.names THEN edited ELSE Enter(f, p, node)
           g == Do(f, can, after)
<1>0. h = g
  BY Zenon DEF Put
<1>1. CASE f.err
  <2>1. g = f
    BY <1>1, Zenon DEF Do
  <2>2. Step(fb, f, f)
    BY SameSteps DEF Same
  <2> HIDE DEF g
  <2> QED BY <1>0, <1>1, <2>1, <2>2 DEF Wrote
<1>2. CASE ~f.err /\ p \in DOMAIN f.names
  <2> DEFINE new == [Node(f, p) EXCEPT !.data = data]
             e == [f EXCEPT !.nodes = [f.nodes EXCEPT ![f.names[p]] = new]]
  <2>1. f.names[p] \in DOMAIN f.nodes /\ Node(f, p) \in NodeSet /\ data \in Values
    BY <1>2, FsIs DEF Sound, Node
  <2>2. /\ new \in NodeSet /\ new.kind = Node(f, p).kind /\ new.gid = Node(f, p).gid /\ new.mode = Node(f, p).mode
        /\ new.data = data
    BY <2>1 DEF NodeSet
  <2>3. edited = e
    BY DEF Node
  <2> HIDE DEF new
  <2>4. e \in FsSet /\ e.err = f.err
    BY <2>1, <2>2, EditIs
  <2>5. after = e
    BY <1>2, <2>3
  <2> HIDE DEF after, e, edited
  <2>6. /\ g \in FsSet /\ (f.err => g.err) /\ (g.err => Same(f, g)) /\ (~g.err => can /\ ~f.err /\ Same(after, g))
    <3> HIDE DEF can
    <3>1. can \in BOOLEAN
      BY DEF can
    <3> QED BY <2>4, <2>5, <3>1, DoIs
  <2> HIDE DEF g
  <2>7. CASE g.err
    <3>1. Step(fb, f, g)
      BY <2>6, <2>7, SameSteps
    <3> QED BY <1>0, <2>7, <3>1 DEF Wrote
  <2>8. CASE ~g.err
    <3>1. Same(e, g) /\ can
      BY <2>5, <2>6, <2>8
    <3>2. Same([f EXCEPT !.nodes = [f.nodes EXCEPT ![f.names[p]] = new]], g)
      BY <3>1 DEF e
    <3>3. /\ Step(fb, f, g) /\ g.names = f.names /\ Node(g, p) = new
          /\ \A n \in DOMAIN f.nodes : n # f.names[p] => g.nodes[n] = f.nodes[n]
      BY <1>2, <2>2, <2>6, <3>2, EditsStep
    <3>4. Node(f, p).kind = "file"
      BY <1>2, <2>1, <3>1 DEF can, IsKind, NodeSet, Kinds
    <3>5. IsKind(g, p, "file") /\ Node(g, p).data = data
      BY <1>2, <2>2, <3>3, <3>4 DEF IsKind
    <3>6. g.names[p] = f.names[p]
      BY <3>3
    <3> QED BY <1>0, <1>2, <3>3, <3>5, <3>6 DEF Wrote
  <2> QED BY <2>7, <2>8
<1>3. CASE ~f.err /\ p \notin DOMAIN f.names
  <2>1. node \in NodeSet /\ node.kind = "file" /\ node.data = data
    BY <1>3 DEF NodeSet, Kinds, Values
  <2> HIDE DEF node
  <2> DEFINE e == Enter(f, p, node)
  <2>2. e \in FsSet /\ e.err = f.err
    BY <2>1, EnterIs
  <2>3. after = e
    BY <1>3
  <2> HIDE DEF after, e
  <2>4. /\ g \in FsSet /\ (f.err => g.err) /\ (g.err => Same(f, g)) /\ (~g.err => can /\ ~f.err /\ Same(after, g))
    <3> HIDE DEF can
    <3>1. can \in BOOLEAN
      BY DEF can
    <3> QED BY <2>2, <2>3, <3>1, DoIs
  <2> HIDE DEF g
  <2>5. CASE g.err
    <3>1. Step(fb, f, g)
      BY <2>4, <2>5, SameSteps
    <3> QED BY <1>0, <2>5, <3>1 DEF Wrote
  <2>6. CASE ~g.err
    <3>1. Same(Enter(f, p, node), g) /\ IsKind(f, Parent(p), "dir")
      BY <2>3, <2>4, <2>6 DEF e, can
    <3>2. /\ Step(fb, f, g) /\ p \in DOMAIN g.names /\ Node(g, p) = node
          /\ DOMAIN g.names = DOMAIN f.names \cup {p}
      BY <1>3, <2>1, <2>4, <3>1, EntersStep
    <3>3. \A n \in DOMAIN f.nodes : g.nodes[n] = f.nodes[n]
      BY <2>1, <3>1, EnterIs DEF Same
    <3>4. IsKind(g, p, "file") /\ Node(g, p).data = data
      BY <2>1, <3>2 DEF IsKind
    <3> QED BY <1>0, <1>3, <3>2, <3>3, <3>4 DEF Wrote
  <2> QED BY <2>5, <2>6
<1> QED BY <1>1, <1>2, <1>3

(* The node of p with one field set. *)
Edited(f, p, field, value) == [Node(f, p) EXCEPT ![field] = value]

(* That field may be set, and has been. *)
MayEdit(fb, f, p, node) ==
    ~f.err /\ p \in DOMAIN f.names =>
        /\ node \in NodeSet /\ node.kind = Node(f, p).kind /\ (node.gid = Node(f, p).gid \/ node.gid = fb.gid)
        /\ (node.mode = Node(f, p).mode \/ node.mode = ModeOf(fb, node.kind))
Edits(f, p, node, g) ==
    ~g.err => /\ ~f.err /\ p \in DOMAIN f.names /\ g.names = f.names /\ Node(g, p) = node
              /\ \A n \in DOMAIN f.nodes : n # g.names[p] => g.nodes[n] = f.nodes[n]

LEMMA SetIs ==
    ASSUME NEW fb, NEW f \in FsSet, Sound(f), NEW p \in PathSet, NEW field, NEW value, NEW node,
           node = Edited(f, p, field, value), ~f.err => IsPrefix(fb.path, p), MayEdit(fb, f, p, node),
           NEW h, h = Set(f, p, field, value)
    PROVE  Step(fb, f, h) /\ Edits(f, p, node, h)
<1> DEFINE can == p \in DOMAIN f.names
           after == [f EXCEPT !.nodes[f.names[p]][field] = value]
           e == [f EXCEPT !.nodes = [f.nodes EXCEPT ![f.names[p]] = node]]
           g == Do(f, can, after)
<1>0. h = g
  BY Zenon DEF Set
<1>1. CASE f.err
  <2>1. g = f
    BY <1>1, Zenon DEF Do
  <2>2. Step(fb, f, f)
    BY SameSteps DEF Same
  <2> HIDE DEF g
  <2> QED BY <1>0, <1>1, <2>1, <2>2 DEF Edits
<1>2. CASE ~f.err
  <2>1. after = e
    BY DEF Edited, Node
  <2>2. can => e \in FsSet /\ e.err = f.err
    <3> SUFFICES ASSUME can PROVE e \in FsSet /\ e.err = f.err
      OBVIOUS
    <3>1. f.names[p] \in DOMAIN f.nodes
      BY DEF Sound
    <3> QED BY <1>2, <3>1, EditIs DEF MayEdit
  <2>3. can \in BOOLEAN
    OBVIOUS
  <2> HIDE DEF after
  <2>4. /\ g \in FsSet /\ (f.err => g.err) /\ (g.err => Same(f, g)) /\ (~g.err => can /\ ~f.err /\ Same(e, g))
    <3> HIDE DEF can, e
    <3> QED BY <2>1, <2>2, <2>3, DoIs
  <2> HIDE DEF g, e
  <2>5. CASE g.err
    <3>1. Step(fb, f, g)
      BY <2>4, <2>5, SameSteps
    <3> QED BY <1>0, <2>5, <3>1 DEF Edits
  <2>6. CASE ~g.err
    <3>1. Same([f EXCEPT !.nodes = [f.nodes EXCEPT ![f.names[p]] = node]], g) /\ p \in DOMAIN f.names
      BY <2>4, <2>6 DEF e
    <3>2. /\ node \in NodeSet /\ node.kind = Node(f, p).kind /\ (node.gid = Node(f, p).gid \/ node.gid = fb.gid)
          /\ (node.mode = Node(f, p).mode \/ node.mode = ModeOf(fb, node.kind)) /\ IsPrefix(fb.path, p)
      BY <1>2, <3>1 DEF MayEdit
    <3>3. /\ Step(fb, f, g) /\ g.names = f.names /\ Node(g, p) = node
          /\ \A n \in DOMAIN f.nodes : n # f.names[p] => g.nodes[n] = f.nodes[n]
      BY <1>2, <2>4, <3>1, <3>2, EditsStep
    <3>4. g.names[p] = f.names[p]
      BY <3>3
    <3> QED BY <1>0, <1>2, <3>1, <3>3, <3>4 DEF Edits
  <2> QED BY <2>5, <2>6
<1> QED BY <1>1, <1>2

(* The owner and the mode of a name in the base. *)
LEMMA OwnersIs ==
    ASSUME NEW fb \in FbSet, NEW f \in FsSet, Sound(f), NEW p \in PathSet, ~f.err => IsPrefix(fb.path, p),
           NEW g, g = FixOwners(f, fb, p)
    PROVE  /\ Step(fb, f, g)
           /\ ~g.err => /\ ~f.err /\ p \in DOMAIN f.names /\ g.names = f.names
                        /\ Node(g, p).gid = fb.gid /\ Node(g, p).kind = Node(f, p).kind /\ Node(g, p).data = Node(f, p).data
                        /\ \A n \in DOMAIN f.nodes : n # g.names[p] => g.nodes[n] = f.nodes[n]
<1> DEFINE node == Edited(f, p, "gid", fb.gid)
<1>1. p \in DOMAIN f.names =>
          /\ node \in NodeSet /\ node.kind = Node(f, p).kind /\ node.gid = fb.gid
          /\ node.mode = Node(f, p).mode /\ node.data = Node(f, p).data
  <2>1. p \in DOMAIN f.names => Node(f, p) \in NodeSet /\ fb.gid \in Values
    BY FsIs DEF Sound, Node, FbSet
  <2> QED BY <2>1 DEF NodeSet, Edited
<1>2. \E field, value : node = Edited(f, p, field, value) /\ g = Set(f, p, field, value)
  BY Zenon DEF FixOwners
<1> HIDE DEF node
<1>3. MayEdit(fb, f, p, node)
  BY <1>1 DEF MayEdit
<1>4. Step(fb, f, g) /\ Edits(f, p, node, g)
  BY <1>2, <1>3, SetIs
<1> QED BY <1>1, <1>4 DEF Edits

LEMMA ModesAre ==
    ASSUME NEW fb \in FbSet
    PROVE  ModeExec(fb) \in Values /\ ModeFile(fb) \in Values /\ ModeOf(fb, "dir") = ModeExec(fb) /\ ModeOf(fb, "file") = ModeFile(fb)
BY DEF ModeExec, ModeFile, ModeOf, Values

LEMMA ModeIs ==
    ASSUME NEW fb \in FbSet, NEW f \in FsSet, Sound(f), NEW p \in PathSet, ~f.err => IsPrefix(fb.path, p),
           NEW kind \in Kinds, ~f.err => IsKind(f, p, kind), NEW g, g = Set(f, p, "mode", ModeOf(fb, kind))
    PROVE  /\ Step(fb, f, g)
           /\ ~g.err => /\ ~f.err /\ g.names = f.names /\ Node(g, p).mode = ModeOf(fb, kind)
                        /\ IsKind(g, p, kind) /\ Node(g, p).gid = Node(f, p).gid /\ Node(g, p).data = Node(f, p).data
                        /\ \A n \in DOMAIN f.nodes : n # g.names[p] => g.nodes[n] = f.nodes[n]
<1> DEFINE mode == ModeOf(fb, kind)
           node == Edited(f, p, "mode", mode)
<1>0. mode \in Values
  BY ModesAre DEF Kinds
<1>1. \E field, value : node = Edited(f, p, field, value) /\ g = Set(f, p, field, value)
  BY Zenon
<1> HIDE DEF mode
<1>2. p \in DOMAIN f.names =>
          /\ node \in NodeSet /\ node.kind = Node(f, p).kind /\ node.gid = Node(f, p).gid
          /\ node.mode = mode /\ node.data = Node(f, p).data
  <2>1. p \in DOMAIN f.names => Node(f, p) \in NodeSet
    BY FsIs DEF Sound, Node
  <2> QED BY <1>0, <2>1 DEF NodeSet, Edited
<1> HIDE DEF node
<1>3. MayEdit(fb, f, p, node)
  BY <1>2 DEF MayEdit, mode, IsKind
<1>4. Step(fb, f, g) /\ Edits(f, p, node, g)
  BY <1>1, <1>3, SetIs
<1>5. ~g.err => IsKind(g, p, kind)
  BY <1>2, <1>4 DEF IsKind, Edits
<1> QED BY <1>2, <1>4, <1>5 DEF Edits, mode

-----------------------------------------------------------------------------
(* MkdirAll: a directory of the base or on the way to it. *)
LEMMA MakeDirIs ==
    ASSUME NEW fb, NEW f \in FsSet, Sound(f), NEW p \in PathSet, IsPrefix(fb.path, p) \/ IsStrictPrefix(p, fb.path),
           NEW g, g = MakeDir(f, p)
    PROVE  Step(fb, f, g) /\ (~g.err => IsKind(g, p, "dir") \/ f.err) /\ (f.err => Same(f, g)) /\ DataKept(f, g)
<1> DEFINE node == [kind |-> "dir", gid |-> "judge", mode |-> "created", data |-> "nothing"]
           can == p \notin DOMAIN f.names /\ IsKind(f, Parent(p), "dir")
           e == Enter(f, p, node)
           d == Do(f, can, e)
<1>0. g = IF IsKind(f, p, "dir") THEN f ELSE d
  BY Zenon DEF MakeDir
<1>1. node \in NodeSet /\ node.kind = "dir"
  BY DEF NodeSet, Kinds, Values
<1> HIDE DEF node
<1>2. e \in FsSet /\ e.err = f.err
  BY <1>1, EnterIs
<1>3. can \in BOOLEAN
  OBVIOUS
<1>4. /\ d \in FsSet /\ (f.err => d.err) /\ (d.err => Same(f, d)) /\ (~d.err => can /\ ~f.err /\ Same(e, d))
  <2> HIDE DEF can, e
  <2> QED BY <1>2, <1>3, DoIs
<1> HIDE DEF d
<1>5. CASE IsKind(f, p, "dir")
  <2>1. g = f
    BY <1>0, <1>5
  <2>2. Same(f, f) /\ Step(fb, f, f)
    BY SameSteps DEF Same
  <2> QED BY <1>5, <2>1, <2>2 DEF DataKept
<1>6. CASE ~IsKind(f, p, "dir") /\ d.err
  <2>1. Step(fb, f, d)
    BY <1>4, <1>6, SameSteps
  <2>2. DataKept(f, d)
    BY <1>4, <1>6 DEF Same, DataKept
  <2> QED BY <1>0, <1>4, <1>6, <2>1, <2>2
<1>7. CASE ~IsKind(f, p, "dir") /\ ~d.err
  <2>1. Same(Enter(f, p, node), d) /\ p \notin DOMAIN f.names /\ IsKind(f, Parent(p), "dir") /\ ~f.err
    BY <1>4, <1>7
  <2>2. Step(fb, f, d) /\ p \in DOMAIN d.names /\ Node(d, p) = node /\ DataKept(f, d)
    BY <1>1, <1>4, <2>1, EntersStep
  <2>3. IsKind(d, p, "dir")
    BY <1>1, <2>2 DEF IsKind
  <2> QED BY <1>0, <1>7, <2>1, <2>2, <2>3
<1> QED BY <1>5, <1>6, <1>7

(* The loop of MkdirAll, which keeps what a step keeps. *)
LEMMA MakeDirsTurns ==
    ASSUME NEW f, NEW p, Len(p) \in Nat, NEW X, f \in X,
           \A k \in 1 .. Len(p) : \A x \in X : MakeDir(x, SubSeq(p, 1, k)) \in X
    PROVE  \E made \in [0 .. Len(p) -> X] :
               /\ made[0] = f
               /\ \A k \in 1 .. Len(p) : made[k] = MakeDir(made[k - 1], SubSeq(p, 1, k))
               /\ MakeDirs(f, p) = made[Len(p)]
<1> DEFINE n == Len(p)
           IsMade(h) == h = [k \in 0 .. n |-> IF k = 0 THEN f ELSE MakeDir(h[k - 1], SubSeq(p, 1, k))]
           made == CHOOSE h : IsMade(h)
           Turn == [k \in 1 .. n |-> [x \in X |-> MakeDir(x, SubSeq(p, 1, k))]]
<1>1. Turns(Turn, n, X)
  BY DEF Turns
<1>2. PICK h \in [0 .. n -> X] : h[0] = f /\ \A k \in 1 .. n : h[k] = Turn[k][h[k - 1]]
  <2> HIDE DEF Turn
  <2> QED BY <1>1, LoopExists
<1>3. \A k \in 1 .. n : h[k] = MakeDir(h[k - 1], SubSeq(p, 1, k))
  <2> TAKE k \in 1 .. n
  <2>1. k - 1 \in 0 .. n
    OBVIOUS
  <2>2. h[k - 1] \in X /\ h[k] = Turn[k][h[k - 1]]
    BY <1>2, <2>1
  <2> QED BY <2>2
<1>4. IsMade(h)
  <2>1. \A k \in 0 .. n : h[k] = IF k = 0 THEN f ELSE MakeDir(h[k - 1], SubSeq(p, 1, k))
    BY <1>2, <1>3
  <2> QED BY <1>2, <2>1
<1>5. IsMade(made)
  <2> HIDE DEF IsMade
  <2> QED BY <1>4
<1>6. \A k \in 0 .. n : made[k] = h[k]
  <2> DEFINE Alike == {k \in 0 .. n : made[k] = h[k]}
  <2>1. made[0] = f /\ \A k \in 1 .. n : made[k] = MakeDir(made[k - 1], SubSeq(p, 1, k))
    <3> HIDE DEF made
    <3> QED BY <1>5
  <2> HIDE DEF made
  <2>2. 0 \in Alike
    BY <1>2, <2>1
  <2>3. ASSUME NEW k \in 1 .. n, k - 1 \in Alike PROVE k \in Alike
    BY <1>3, <2>1, <2>3
  <2> HIDE DEF Alike
  <2>4. \A k \in 0 .. n : k \in Alike
    BY <2>2, <2>3, FromZeroOn
  <2> QED BY <2>4 DEF Alike
<1>7. MakeDirs(f, p) = made[n]
  BY Zenon DEF MakeDirs
<1>8. MakeDirs(f, p) = h[n]
  <2> HIDE DEF made
  <2> QED BY <1>6, <1>7
<1> QED BY <1>2, <1>3, <1>8

(* A path given to an operation that goes on is in the base. *)
PathIn(fb, f, p) == p \in PathSet /\ (p = Refused => f.err) /\ (p # Refused => IsPrefix(fb.path, p))

LEMMA CheckedIs ==
    ASSUME NEW fb, NEW f \in FsSet, Sound(f), NEW p \in PathSet, p = Refused \/ IsPrefix(fb.path, p),
           NEW g, g = Checked(f, p)
    PROVE  Step(fb, f, g) /\ PathIn(fb, g, p) /\ Same(f, g) /\ (~g.err => g = f)
<1>1. CASE p = Refused
  <2>1. g = [f EXCEPT !.err = TRUE]
    BY <1>1, Zenon DEF Checked
  <2>2. g \in FsSet /\ g.err = TRUE /\ Same(f, g)
    BY <2>1 DEF FsSet, Same
  <2>3. Step(fb, f, g)
    BY <2>2, SameSteps
  <2> QED BY <1>1, <2>2, <2>3 DEF PathIn
<1>2. CASE p # Refused
  <2>1. g = f
    BY <1>2, Zenon DEF Checked
  <2>2. Same(f, f) /\ Step(fb, f, f)
    BY SameSteps DEF Same
  <2> QED BY <1>2, <2>1, <2>2 DEF PathIn
<1> QED BY <1>1, <1>2

LEMMA KindStays ==
    ASSUME NEW fb, NEW f, NEW g, Step(fb, f, g), Sound(f), NEW q, NEW kind, IsKind(f, q, kind)
    PROVE  IsKind(g, q, kind) /\ q \in DOMAIN f.names /\ g.names[q] = f.names[q] /\ f.names[q] \in DOMAIN f.nodes
<1>1. q \in DOMAIN f.names /\ f.names[q] \in DOMAIN f.nodes /\ f.nodes[f.names[q]].kind = kind
  BY DEF IsKind, Node, Sound
<1>2. q \in DOMAIN g.names /\ g.names[q] = f.names[q] /\ g.nodes[f.names[q]].kind = f.nodes[f.names[q]].kind
  BY <1>1 DEF Step, Grown
<1> QED BY <1>1, <1>2 DEF IsKind, Node

LEMMA MakeDirsIs ==
    ASSUME NEW fb, fb.path \in PathSet, NEW f \in FsSet, Sound(f), NEW p, PathIn(fb, f, p), NEW g, g = MakeDirs(f, p)
    PROVE  Step(fb, f, g) /\ (~g.err => IsKind(g, p, "dir")) /\ DataKept(f, g)
<1> DEFINE X == {h \in FsSet : Step(fb, f, h) /\ DataKept(f, h)}
           n == Len(p)
<1>0. p \in PathSet /\ n \in Nat
  BY DEF PathIn, PathSet
<1>1. f \in X
  <2>1. Step(fb, f, f) /\ DataKept(f, f)
    BY SameSteps DEF Same, DataKept
  <2> QED BY <2>1
<1>2. ASSUME NEW k \in 1 .. n
      PROVE  /\ SubSeq(p, 1, k) \in PathSet
             /\ IsPrefix(fb.path, SubSeq(p, 1, k)) \/ IsStrictPrefix(SubSeq(p, 1, k), fb.path)
  <2>1. p # <<>>
    BY <1>0, EmptySeq DEF PathSet
  <2>2. IsPrefix(fb.path, p)
    BY <2>1 DEF PathIn, Refused
  <2> QED BY <1>0, <2>2, OnTheWay
<1>3. ASSUME NEW k \in 1 .. n, NEW x \in X
      PROVE  LET y == MakeDir(x, SubSeq(p, 1, k)) IN y \in X /\ (~y.err => IsKind(y, SubSeq(p, 1, k), "dir") \/ x.err)
  <2> DEFINE q == SubSeq(p, 1, k)
             y == MakeDir(x, q)
  <2>1. x \in FsSet /\ Step(fb, f, x) /\ Sound(x) /\ DataKept(f, x)
    BY DEF Step
  <2>2. q \in PathSet /\ (IsPrefix(fb.path, q) \/ IsStrictPrefix(q, fb.path))
    BY <1>2
  <2> HIDE DEF q
  <2>3. Step(fb, x, y) /\ (~y.err => IsKind(y, q, "dir") \/ x.err) /\ DataKept(x, y)
    BY <2>1, <2>2, MakeDirIs
  <2> HIDE DEF y
  <2>4. y \in FsSet /\ Step(fb, f, y) /\ DataKept(f, y)
    <3>1. y \in FsSet
      BY <2>3 DEF Step
    <3>2. DataKept(f, y)
      BY <2>1, <2>3 DEF Step, Grown, DataKept
    <3> QED BY <2>1, <2>3, <3>1, <3>2, StepsFollow
  <2>5. y \in X
    BY <2>4
  <2> QED BY <2>3, <2>5 DEF q, y
<1> HIDE DEF X
<1>4. PICK made \in [0 .. n -> X] :
          /\ made[0] = f
          /\ \A k \in 1 .. n : made[k] = MakeDir(made[k - 1], SubSeq(p, 1, k))
          /\ MakeDirs(f, p) = made[n]
  <2>1. \A k \in 1 .. n : \A x \in X : MakeDir(x, SubSeq(p, 1, k)) \in X
    BY <1>3
  <2> QED BY <1>0, <1>1, <2>1, MakeDirsTurns
<1>5. g = made[n] /\ g \in X
  BY <1>0, <1>4
<1>6. Step(fb, f, g) /\ DataKept(f, g)
  BY <1>5 DEF X
<1>7. ASSUME ~g.err PROVE IsKind(g, p, "dir")
  <2>1. ~f.err
    BY <1>6, <1>7 DEF Step
  <2>2. p # <<>>
    BY <2>1 DEF PathIn, Refused
  <2>3. n \in 1 .. n /\ n - 1 \in 0 .. n
    <3>1. n # 0
      BY <1>0, <2>2, EmptySeq DEF PathSet
    <3> QED BY <1>0, <3>1
  <2>4. SubSeq(p, 1, n) = p
    BY <1>0, SubSeqFull DEF PathSet
  <2> DEFINE x == made[n - 1]
  <2>5. x \in X /\ g = MakeDir(x, SubSeq(p, 1, n))
    BY <1>4, <1>5, <2>3
  <2> HIDE DEF x
  <2>6. ~g.err => IsKind(g, p, "dir") \/ x.err
    BY <1>3, <2>3, <2>4, <2>5
  <2>7. Step(fb, x, g)
    <3>1. x \in FsSet /\ Sound(x)
      BY <2>5 DEF X, Step
    <3>2. p \in PathSet /\ IsPrefix(fb.path, p) /\ g = MakeDir(x, p)
      BY <1>0, <2>2, <2>4, <2>5 DEF PathIn, Refused
    <3> QED BY <3>1, <3>2, MakeDirIs
  <2>8. ~x.err
    BY <1>7, <2>7 DEF Step
  <2> QED BY <1>7, <2>6, <2>8
<1> QED BY <1>6, <1>7

-----------------------------------------------------------------------------
(* The operations of files.go. *)
FixedIn(f, fb, p, kind) ==
    /\ IsKind(f, p, kind)
    /\ Node(f, p).gid = fb.gid
    /\ Node(f, p).mode = ModeOf(fb, kind)

LEMMA MkdirOpIs ==
    ASSUME NEW fb \in FbSet, NEW f \in FsSet, Sound(f), NEW p \in PathSet, p = Refused \/ IsPrefix(fb.path, p),
           NEW g, g = MkdirOp(f, fb, p)
    PROVE  Step(fb, f, g) /\ (~g.err => ~f.err /\ p # Refused /\ FixedIn(g, fb, p, "dir") /\ DataKept(f, g))
<1> DEFINE a == Checked(f, p)
           b == MakeDirs(a, p)
           c == FixOwners(b, fb, p)
<1>0. fb.path \in PathSet
  BY DEF FbSet
<1>1. Step(fb, f, a) /\ PathIn(fb, a, p) /\ Same(f, a)
  BY CheckedIs
<1>2. a \in FsSet /\ Sound(a)
  BY <1>1 DEF Step
<1> HIDE DEF a
<1>3. Step(fb, a, b) /\ (~b.err => IsKind(b, p, "dir")) /\ DataKept(a, b)
  BY <1>0, <1>1, <1>2, MakeDirsIs
<1>4. b \in FsSet /\ Sound(b) /\ (~b.err => IsPrefix(fb.path, p))
  BY <1>1, <1>3 DEF Step, PathIn
<1> HIDE DEF b
<1>5. Step(fb, b, c) /\ (~c.err => Node(c, p).gid = fb.gid /\ IsKind(c, p, "dir") /\ DataKept(b, c))
  <2>1. /\ Step(fb, b, c)
        /\ ~c.err => /\ ~b.err /\ p \in DOMAIN b.names /\ c.names = b.names
                     /\ Node(c, p).gid = fb.gid /\ Node(c, p).kind = Node(b, p).kind /\ Node(c, p).data = Node(b, p).data
                     /\ \A n \in DOMAIN b.nodes : n # c.names[p] => c.nodes[n] = b.nodes[n]
    BY <1>4, OwnersIs
  <2> HIDE DEF c
  <2>2. ~c.err => DataKept(b, c)
    BY <2>1 DEF DataKept, Node
  <2> QED BY <1>3, <2>1, <2>2 DEF IsKind
<1>6. c \in FsSet /\ Sound(c) /\ (~c.err => IsPrefix(fb.path, p))
  BY <1>4, <1>5 DEF Step
<1>7. g = Set(c, p, "mode", ModeOf(fb, "dir"))
  <2>1. ModeOf(fb, "dir") = ModeExec(fb)
    BY ModesAre
  <2> QED BY <2>1, Zenon DEF MkdirOp, FixModeExec, a, b
<1> HIDE DEF c
<1>8. /\ Step(fb, c, g)
      /\ ~g.err => /\ ~c.err /\ Node(g, p).mode = ModeOf(fb, "dir") /\ IsKind(g, p, "dir")
                   /\ Node(g, p).gid = Node(c, p).gid /\ DataKept(c, g)
  <2>1. "dir" \in Kinds
    BY DEF Kinds
  <2>2. /\ Step(fb, c, g)
        /\ ~g.err => /\ ~c.err /\ g.names = c.names /\ Node(g, p).mode = ModeOf(fb, "dir") /\ IsKind(g, p, "dir")
                     /\ Node(g, p).gid = Node(c, p).gid /\ Node(g, p).data = Node(c, p).data
                     /\ \A n \in DOMAIN c.nodes : n # g.names[p] => g.nodes[n] = c.nodes[n]
    BY <1>5, <1>6, <1>7, <2>1, ModeIs
  <2>3. ~g.err => DataKept(c, g)
    BY <2>2 DEF DataKept, Node
  <2> QED BY <2>2, <2>3
<1>9. Step(fb, f, g)
  <2>1. g \in FsSet
    BY <1>8 DEF Step
  <2>2. Step(fb, f, b)
    BY <1>1, <1>2, <1>3, <1>4, StepsFollow
  <2>3. Step(fb, f, c)
    BY <1>4, <1>5, <1>6, <2>2, StepsFollow
  <2> QED BY <1>6, <1>8, <2>1, <2>3, StepsFollow
<1>10. ~g.err => ~a.err /\ p # Refused
  BY <1>1, <1>3, <1>5, <1>8 DEF Step, PathIn
<1>11. ASSUME ~g.err PROVE DataKept(f, g)
  <2>1. DataKept(a, b) /\ DataKept(b, c) /\ DataKept(c, g) /\ a.nodes = f.nodes
    BY <1>1, <1>3, <1>5, <1>8, <1>11 DEF Same
  <2>2. DOMAIN a.nodes \subseteq DOMAIN b.nodes /\ DOMAIN b.nodes \subseteq DOMAIN c.nodes
    BY <1>3, <1>5 DEF Step, Grown
  <2> QED BY <2>1, <2>2 DEF DataKept
<1> QED BY <1>5, <1>8, <1>9, <1>10, <1>11 DEF FixedIn, Step

(* The owner and the mode of a file, at the end of an operation. *)
LEMMA FixedFile ==
    ASSUME NEW fb \in FbSet, NEW f \in FsSet, Sound(f), NEW p \in PathSet, ~f.err => IsPrefix(fb.path, p),
           ~f.err => IsKind(f, p, "file"), NEW g, g = FixMode(FixOwners(f, fb, p), fb, p)
    PROVE  /\ Step(fb, f, g)
           /\ ~g.err => /\ ~f.err /\ FixedIn(g, fb, p, "file") /\ g.names = f.names /\ Node(g, p).data = Node(f, p).data
                        /\ \A n \in DOMAIN f.nodes : n # g.names[p] => g.nodes[n] = f.nodes[n]
<1> DEFINE c == FixOwners(f, fb, p)
<1>1. /\ Step(fb, f, c)
      /\ ~c.err => /\ ~f.err /\ p \in DOMAIN f.names /\ c.names = f.names
                   /\ Node(c, p).gid = fb.gid /\ Node(c, p).kind = Node(f, p).kind /\ Node(c, p).data = Node(f, p).data
                   /\ \A n \in DOMAIN f.nodes : n # c.names[p] => c.nodes[n] = f.nodes[n]
  BY OwnersIs
<1>2. g = Set(c, p, "mode", ModeOf(fb, "file"))
  <2>1. ModeOf(fb, "file") = ModeFile(fb)
    BY ModesAre
  <2> QED BY <2>1, Zenon DEF FixMode
<1> HIDE DEF c
<1>3. c \in FsSet /\ Sound(c) /\ (~c.err => IsPrefix(fb.path, p)) /\ (~c.err => IsKind(c, p, "file"))
  BY <1>1 DEF Step, IsKind
<1>4. /\ Step(fb, c, g)
      /\ ~g.err => /\ ~c.err /\ g.names = c.names /\ Node(g, p).mode = ModeOf(fb, "file")
                   /\ IsKind(g, p, "file") /\ Node(g, p).gid = Node(c, p).gid /\ Node(g, p).data = Node(c, p).data
                   /\ \A n \in DOMAIN c.nodes : n # g.names[p] => g.nodes[n] = c.nodes[n]
  <2>1. "file" \in Kinds
    BY DEF Kinds
  <2> QED BY <1>2, <1>3, <2>1, ModeIs
<1>5. Step(fb, f, g)
  <2>1. g \in FsSet
    BY <1>4 DEF Step
  <2> QED BY <1>1, <1>3, <1>4, <2>1, StepsFollow
<1>6. ASSUME ~g.err PROVE \A n \in DOMAIN f.nodes : n # g.names[p] => g.nodes[n] = f.nodes[n]
  <2>1. DOMAIN f.nodes \subseteq DOMAIN c.nodes
    BY <1>1 DEF Step, Grown
  <2> QED BY <1>1, <1>4, <1>6, <2>1
<1>7. ~g.err => ~f.err /\ FixedIn(g, fb, p, "file") /\ g.names = f.names /\ Node(g, p).data = Node(f, p).data
  BY <1>1, <1>4 DEF FixedIn
<1> QED BY <1>5, <1>6, <1>7

LEMMA WriteFileOpIs ==
    ASSUME NEW fb \in FbSet, NEW f \in FsSet, Sound(f), NEW p \in PathSet, p = Refused \/ IsPrefix(fb.path, p),
           NEW data, data \in Values, NEW g, g = WriteFileOp(f, fb, p, data)
    PROVE  Step(fb, f, g) /\ (~g.err => FixedIn(g, fb, p, "file") /\ Node(g, p).data = data)
<1> DEFINE a == Checked(f, p)
           b == Put(a, p, "nothing")
           c == Put(b, p, data)
<1>0. "nothing" \in Values
  BY DEF Values
<1>1. Step(fb, f, a) /\ PathIn(fb, a, p)
  BY CheckedIs
<1>2. a \in FsSet /\ Sound(a) /\ (~a.err => IsPrefix(fb.path, p))
  BY <1>1 DEF Step, PathIn
<1> HIDE DEF a
<1>3. Step(fb, a, b)
  BY <1>0, <1>2, PutIs
<1>4. b \in FsSet /\ Sound(b) /\ (~b.err => IsPrefix(fb.path, p))
  BY <1>2, <1>3 DEF Step
<1> HIDE DEF b
<1>5. Step(fb, b, c) /\ (~c.err => IsKind(c, p, "file") /\ Node(c, p).data = data)
  <2>1. Step(fb, b, c) /\ Wrote(b, p, data, c)
    BY <1>4, PutIs
  <2> HIDE DEF c
  <2> QED BY <2>1 DEF Wrote
<1>6. c \in FsSet /\ Sound(c) /\ (~c.err => IsPrefix(fb.path, p)) /\ (~c.err => IsKind(c, p, "file"))
  BY <1>4, <1>5 DEF Step
<1>7. g = FixMode(FixOwners(c, fb, p), fb, p)
  BY Zenon DEF WriteFileOp, a, b
<1> HIDE DEF c
<1>8. Step(fb, c, g) /\ (~g.err => ~c.err /\ FixedIn(g, fb, p, "file") /\ Node(g, p).data = Node(c, p).data)
  BY <1>6, <1>7, FixedFile
<1>9. Step(fb, f, g)
  <2>1. g \in FsSet
    BY <1>8 DEF Step
  <2>2. Step(fb, f, b)
    BY <1>1, <1>2, <1>3, <1>4, StepsFollow
  <2>3. Step(fb, f, c)
    BY <1>4, <1>5, <1>6, <2>2, StepsFollow
  <2> QED BY <1>6, <1>8, <2>1, <2>3, StepsFollow
<1> QED BY <1>5, <1>8, <1>9

(* Of all nodes, what may hold something else is that of p. *)
Only(f, g, p) == \A n \in DOMAIN f.nodes : n # g.names[p] => g.nodes[n].data = f.nodes[n].data

(* A copy holds what its source held, unless the two are one file, which the *)
(* copy has emptied.                                                         *)
CopyMade(f, from, p, g) ==
    /\ from \in DOMAIN g.names /\ p \in DOMAIN g.names
    /\ g.names[p] # g.names[from] => from \in DOMAIN f.names /\ Node(g, p).data = Node(f, from).data
    /\ g.names[p] = g.names[from] => Node(g, p).data = "nothing"
    /\ Only(f, g, p)

LEMMA CopyOpIs ==
    ASSUME NEW fb \in FbSet, NEW f \in FsSet, Sound(f), NEW p \in PathSet, p = Refused \/ IsPrefix(fb.path, p),
           NEW from, NEW g, g = CopyOp(f, fb, from, p)
    PROVE  Step(fb, f, g) /\ (~g.err => ~f.err /\ FixedIn(g, fb, p, "file") /\ CopyMade(f, from, p, g))
<1> DEFINE a == Checked(f, p)
           b == Put(a, p, "nothing")
           can == IsKind(b, from, "file")
           c == Do(b, can, b)
           d == Put(c, p, Node(b, from).data)
<1>0. "nothing" \in Values
  BY DEF Values
<1>1. Step(fb, f, a) /\ PathIn(fb, a, p) /\ Same(f, a)
  BY CheckedIs
<1>2. a \in FsSet /\ Sound(a) /\ (~a.err => IsPrefix(fb.path, p))
  BY <1>1 DEF Step, PathIn
<1> HIDE DEF a
<1>3. Step(fb, a, b) /\ Wrote(a, p, "nothing", b)
  BY <1>0, <1>2, PutIs
<1>4. b \in FsSet /\ Sound(b) /\ (~b.err => IsPrefix(fb.path, p))
  BY <1>2, <1>3 DEF Step
<1>5. g = FixMode(FixOwners(d, fb, p), fb, p)
  BY Zenon DEF CopyOp, a, b, c, d
<1> HIDE DEF b
<1>6. /\ c \in FsSet /\ (b.err => c.err) /\ (c.err => Same(b, c)) /\ (~c.err => can /\ ~b.err /\ Same(b, c))
  <2>1. can \in BOOLEAN
    BY DEF IsKind
  <2> HIDE DEF can
  <2> QED BY <1>4, <2>1, DoIs
<1> HIDE DEF c
<1>7. Step(fb, b, c)
  BY <1>4, <1>6, SameSteps
<1>8. Sound(c) /\ (~c.err => IsPrefix(fb.path, p)) /\ (~c.err => Node(b, from).data \in Values)
  <2>1. can => Node(b, from) \in NodeSet
    BY <1>4, FsIs DEF IsKind, Sound, Node
  <2> QED BY <1>4, <1>6, <1>7, <2>1 DEF Step, NodeSet
<1>9. /\ Step(fb, c, d)
      /\ ~d.err => /\ ~c.err /\ IsKind(d, p, "file") /\ Node(d, p).data = Node(b, from).data
                   /\ \A n \in DOMAIN c.nodes : n # d.names[p] => d.nodes[n] = c.nodes[n]
  <2> DEFINE data == Node(b, from).data
  <2>1. d = Put(c, p, data) /\ (~c.err => data \in Values)
    BY <1>8
  <2> HIDE DEF d, data
  <2>2. Step(fb, c, d) /\ Wrote(c, p, data, d)
    BY <1>6, <1>8, <2>1, PutIs
  <2> QED BY <2>2 DEF data, Wrote
<1>10. d \in FsSet /\ Sound(d) /\ (~d.err => IsPrefix(fb.path, p)) /\ (~d.err => IsKind(d, p, "file"))
  BY <1>8, <1>9 DEF Step
<1> HIDE DEF d
<1>11. /\ Step(fb, d, g)
       /\ ~g.err => /\ ~d.err /\ FixedIn(g, fb, p, "file") /\ g.names = d.names /\ Node(g, p).data = Node(d, p).data
                    /\ \A n \in DOMAIN d.nodes : n # g.names[p] => g.nodes[n] = d.nodes[n]
  BY <1>5, <1>10, FixedFile
<1>12. Step(fb, f, g)
  <2>1. g \in FsSet
    BY <1>11 DEF Step
  <2>2. Step(fb, f, b)
    BY <1>1, <1>2, <1>3, <1>4, StepsFollow
  <2>3. Step(fb, f, c)
    BY <1>4, <1>6, <1>7, <2>2, StepsFollow
  <2>4. Step(fb, f, d)
    BY <1>6, <1>9, <1>10, <2>3, StepsFollow
  <2> QED BY <1>10, <1>11, <2>1, <2>4, StepsFollow
<1>13. ASSUME ~g.err PROVE CopyMade(f, from, p, g)
  <2>1. ~d.err /\ ~c.err /\ ~b.err /\ can /\ Same(b, c)
    BY <1>6, <1>9, <1>11, <1>13
  <2>2. IsKind(c, from, "file") /\ IsKind(b, from, "file")
    BY <2>1 DEF Same, IsKind, Node
  <2>3. d.names[from] = c.names[from] /\ c.names[from] \in DOMAIN c.nodes /\ from \in DOMAIN d.names
    <3>1. IsKind(d, from, "file") /\ d.names[from] = c.names[from] /\ c.names[from] \in DOMAIN c.nodes
      BY <1>8, <1>9, <2>2, KindStays
    <3> QED BY <3>1 DEF IsKind
  <2>4. /\ IsKind(b, p, "file") /\ Node(b, p).data = "nothing" /\ DOMAIN b.names \subseteq DOMAIN a.names \cup {p}
        /\ \A n \in DOMAIN a.nodes : n # b.names[p] => b.nodes[n] = a.nodes[n]
    BY <1>3, <2>1 DEF Wrote
  <2>5. p \in DOMAIN b.names /\ from \in DOMAIN b.names
    BY <2>2, <2>4 DEF IsKind
  <2>6. /\ b.names[p] = c.names[p] /\ b.names[from] = c.names[from]
        /\ d.names[p] = c.names[p] /\ p \in DOMAIN d.names
    BY <1>9, <2>1, <2>5 DEF Same, Step, Grown
  <2>7. /\ g.names = d.names /\ Node(g, p).data = Node(d, p).data
        /\ \A n \in DOMAIN d.nodes : n # g.names[p] => g.nodes[n] = d.nodes[n]
    BY <1>11, <1>13
  <2>8. Node(d, p).data = Node(b, from).data /\ \A n \in DOMAIN c.nodes : n # d.names[p] => d.nodes[n] = c.nodes[n]
    BY <1>9, <2>1
  <2>9. from \in DOMAIN g.names /\ p \in DOMAIN g.names
    BY <2>3, <2>6, <2>7
  <2>10. ASSUME g.names[p] = g.names[from] PROVE Node(g, p).data = "nothing"
    BY <2>3, <2>4, <2>6, <2>7, <2>8, <2>10 DEF Node
  <2>11. ASSUME g.names[p] # g.names[from] PROVE from \in DOMAIN f.names /\ Node(g, p).data = Node(f, from).data
    <3>1. from # p /\ from \in DOMAIN a.names
      BY <2>4, <2>5, <2>11
    <3>2. b.names[from] = a.names[from] /\ a.names[from] \in DOMAIN a.nodes
      BY <1>2, <1>3, <3>1 DEF Step, Grown, Sound
    <3>3. b.names[from] # b.names[p]
      BY <2>3, <2>6, <2>7, <2>11
    <3>4. Node(b, from) = Node(a, from)
      BY <2>4, <3>2, <3>3 DEF Node
    <3>5. Node(a, from) = Node(f, from) /\ from \in DOMAIN f.names
      BY <1>1, <3>1 DEF Same, Node
    <3> QED BY <2>7, <2>8, <3>4, <3>5
  <2>12. Only(f, g, p)
    <3> SUFFICES ASSUME NEW n \in DOMAIN f.nodes, n # g.names[p] PROVE g.nodes[n].data = f.nodes[n].data
      BY DEF Only
    <3>1. n \in DOMAIN a.nodes /\ a.nodes[n] = f.nodes[n]
      BY <1>1 DEF Same
    <3>2. n \in DOMAIN b.nodes /\ n \in DOMAIN c.nodes /\ n \in DOMAIN d.nodes
      BY <1>3, <1>9, <2>1, <3>1 DEF Step, Grown, Same
    <3>3. n # b.names[p] /\ n # d.names[p]
      BY <2>6, <2>7
    <3>4. b.nodes[n] = a.nodes[n] /\ c.nodes[n] = b.nodes[n]
      BY <2>1, <2>4, <3>1, <3>3 DEF Same
    <3>5. d.nodes[n] = c.nodes[n] /\ g.nodes[n] = d.nodes[n]
      BY <2>7, <2>8, <3>2, <3>3
    <3> QED BY <3>1, <3>4, <3>5
  <2> QED BY <2>9, <2>10, <2>11, <2>12 DEF CopyMade
<1>14. ~g.err => ~f.err /\ FixedIn(g, fb, p, "file")
  BY <1>11, <1>12 DEF Step
<1> QED BY <1>12, <1>13, <1>14

LEMMA FixedStays ==
    ASSUME NEW fb, NEW f, NEW g, Step(fb, f, g), Sound(f), NEW p, NEW kind, FixedIn(f, fb, p, kind)
    PROVE  FixedIn(g, fb, p, kind)
<1>1. IsKind(f, p, kind) /\ Node(f, p).gid = fb.gid /\ Node(f, p).mode = ModeOf(fb, kind)
  BY DEF FixedIn
<1>2. IsKind(g, p, kind) /\ g.names[p] = f.names[p] /\ f.names[p] \in DOMAIN f.nodes
  BY <1>1, KindStays
<1>3. f.nodes[f.names[p]].kind = kind
  BY <1>1 DEF IsKind, Node
<1>4. /\ g.nodes[f.names[p]].gid = f.nodes[f.names[p]].gid \/ g.nodes[f.names[p]].gid = fb.gid
      /\ g.nodes[f.names[p]].mode = f.nodes[f.names[p]].mode \/ g.nodes[f.names[p]].mode = ModeOf(fb, kind)
  BY <1>2, <1>3 DEF Step, Grown
<1> QED BY <1>1, <1>2, <1>4 DEF FixedIn, Node

(* A call that only looks. *)
LEMMA LooksIs ==
    ASSUME NEW fb, NEW f \in FsSet, Sound(f), NEW q, NEW kind, NEW g, g = Do(f, IsKind(f, q, kind), f)
    PROVE  Step(fb, f, g) /\ Same(f, g)
<1> DEFINE can == IsKind(f, q, kind)
<1>1. can \in BOOLEAN
  BY DEF IsKind
<1>2. g = Do(f, can, f)
  OBVIOUS
<1> HIDE DEF can
<1>3. g \in FsSet /\ (f.err => g.err) /\ (g.err => Same(f, g)) /\ (~g.err => ~f.err /\ Same(f, g))
  BY <1>1, <1>2, DoIs
<1> QED BY <1>3, SameSteps

(* What the walk meets is copied into the base. *)
IsEntry(entry) == entry.sub \in PathSet /\ entry.kind \in Kinds
Copied(f, fb, entry) == FixedIn(f, fb, FullPath(fb.path, entry.sub), entry.kind)
EntryMade(f, fb, entry, g) ==
    /\ Only(f, g, FullPath(fb.path, entry.sub))
    /\ entry.kind = "file" => CopyMade(f, SourceDir \o entry.sub, FullPath(fb.path, entry.sub), g)

LEMMA CopyEntryIs ==
    ASSUME NEW fb \in FbSet, NEW f \in FsSet, Sound(f), NEW entry, IsEntry(entry), NEW g, g = CopyEntry(f, fb, entry)
    PROVE  Step(fb, f, g) /\ (~g.err => Copied(g, fb, entry) /\ EntryMade(f, fb, entry, g))
<1> DEFINE p == FullPath(fb.path, entry.sub)
           from == SourceDir \o entry.sub
           made == MkdirOp(f, fb, p)
<1>1. p \in PathSet /\ (p = Refused \/ IsPrefix(fb.path, p))
  <2>1. fb.path \in PathSet /\ entry.sub \in PathSet
    BY DEF FbSet, IsEntry
  <2>2. Refused \in PathSet
    BY DEF Refused, PathSet
  <2> QED BY <2>1, <2>2, FullPathIs
<1>2. g = IF entry.kind = "dir" THEN Do(made, IsKind(made, from, "dir"), made) ELSE CopyOp(f, fb, from, p)
  BY Zenon DEF CopyEntry
<1>3. Copied(g, fb, entry) <=> FixedIn(g, fb, p, entry.kind)
  BY DEF Copied
<1>a. EntryMade(f, fb, entry, g) <=> Only(f, g, p) /\ (entry.kind = "file" => CopyMade(f, from, p, g))
  BY DEF EntryMade
<1> HIDE DEF p, from
<1>4. CASE entry.kind = "dir"
  <2>1. Step(fb, f, made) /\ (~made.err => FixedIn(made, fb, p, "dir") /\ DataKept(f, made))
    BY <1>1, MkdirOpIs
  <2>2. made \in FsSet /\ Sound(made)
    BY <2>1 DEF Step
  <2>3. g = Do(made, IsKind(made, from, "dir"), made)
    BY <1>2, <1>4
  <2> HIDE DEF made
  <2>4. Step(fb, made, g) /\ Same(made, g)
    BY <2>2, <2>3, LooksIs
  <2>5. g \in FsSet /\ (made.err => g.err)
    BY <2>4 DEF Step
  <2>6. Step(fb, f, g)
    BY <2>1, <2>2, <2>4, <2>5, StepsFollow
  <2>7. ~g.err => FixedIn(g, fb, p, "dir")
    BY <2>1, <2>2, <2>4, <2>5, FixedStays
  <2>8. ~g.err => Only(f, g, p)
    BY <2>1, <2>4, <2>5 DEF Only, DataKept, Same
  <2> QED BY <1>3, <1>a, <1>4, <2>6, <2>7, <2>8
<1>5. CASE entry.kind # "dir"
  <2>1. entry.kind = "file"
    BY <1>5 DEF IsEntry, Kinds
  <2>2. g = CopyOp(f, fb, from, p)
    BY <1>2, <1>5
  <2>3. Step(fb, f, g) /\ (~g.err => FixedIn(g, fb, p, "file") /\ CopyMade(f, from, p, g))
    BY <1>1, <2>2, CopyOpIs
  <2> QED BY <1>3, <1>a, <2>1, <2>3 DEF CopyMade
<1> QED BY <1>4, <1>5

LEMMA CopyIntoTurns ==
    ASSUME NEW fb, NEW f, Len(Source) \in Nat, NEW X, NEW start \in X, start = Do(f, IsKind(f, SourceDir, "dir"), f),
           \A k \in 1 .. Len(Source) : \A x \in X : CopyEntry(x, fb, Source[k]) \in X
    PROVE  \E copied \in [0 .. Len(Source) -> X] :
               /\ copied[0] = start
               /\ \A k \in 1 .. Len(Source) : copied[k] = CopyEntry(copied[k - 1], fb, Source[k])
               /\ CopyIntoOp(f, fb) = copied[Len(Source)]
<1> DEFINE n == Len(Source)
           first == Do(f, IsKind(f, SourceDir, "dir"), f)
           IsCopied(h) == h = [k \in 0 .. n |-> IF k = 0 THEN first ELSE CopyEntry(h[k - 1], fb, Source[k])]
           copied == CHOOSE h : IsCopied(h)
           Turn == [k \in 1 .. n |-> [x \in X |-> CopyEntry(x, fb, Source[k])]]
<1>1. CopyIntoOp(f, fb) = copied[n]
  BY Zenon DEF CopyIntoOp
<1>2. start = first
  OBVIOUS
<1> HIDE DEF first
<1>3. Turns(Turn, n, X)
  BY DEF Turns
<1>4. PICK h \in [0 .. n -> X] : h[0] = start /\ \A k \in 1 .. n : h[k] = Turn[k][h[k - 1]]
  <2> HIDE DEF Turn
  <2> QED BY <1>3, LoopExists
<1>5. \A k \in 1 .. n : h[k] = CopyEntry(h[k - 1], fb, Source[k])
  <2> TAKE k \in 1 .. n
  <2>1. k - 1 \in 0 .. n
    OBVIOUS
  <2>2. h[k - 1] \in X /\ h[k] = Turn[k][h[k - 1]]
    BY <1>4, <2>1
  <2> QED BY <2>2
<1>6. IsCopied(h)
  <2>1. \A k \in 0 .. n : h[k] = IF k = 0 THEN start ELSE CopyEntry(h[k - 1], fb, Source[k])
    BY <1>4, <1>5
  <2> QED BY <1>4, <1>2, <2>1
<1>7. IsCopied(copied)
  <2> HIDE DEF IsCopied
  <2> QED BY <1>6
<1>8. \A k \in 0 .. n : copied[k] = h[k]
  <2> DEFINE Alike == {k \in 0 .. n : copied[k] = h[k]}
  <2>1. copied[0] = start /\ \A k \in 1 .. n : copied[k] = CopyEntry(copied[k - 1], fb, Source[k])
    <3> HIDE DEF copied
    <3> QED BY <1>7, <1>2
  <2> HIDE DEF copied
  <2>2. 0 \in Alike
    BY <1>4, <2>1
  <2>3. ASSUME NEW k \in 1 .. n, k - 1 \in Alike PROVE k \in Alike
    BY <1>5, <2>1, <2>3
  <2> HIDE DEF Alike
  <2>4. \A k \in 0 .. n : k \in Alike
    BY <2>2, <2>3, FromZeroOn
  <2> QED BY <2>4 DEF Alike
<1>9. CopyIntoOp(f, fb) = h[n]
  <2> HIDE DEF copied
  <2> QED BY <1>8, <1>1
<1> QED BY <1>4, <1>5, <1>9

LEMMA SourceIs ==
    /\ Len(Source) \in Nat /\ DOMAIN Source = 1 .. Len(Source)
    /\ \A i \in DOMAIN Source : IsEntry(Source[i])
<1> DEFINE R == [sub : Seq(STRING), kind : Kinds]
<1>1. Source \in Seq(R)
  BY FileBaseAssumption
<1>2. Len(Source) \in Nat /\ DOMAIN Source = 1 .. Len(Source) /\ \A i \in DOMAIN Source : Source[i] \in R
  <2> HIDE DEF R
  <2> QED BY <1>1, ElementOfSeq
<1>3. Seq(STRING) \subseteq PathSet
  BY SeqMonotonic DEF PathSet, Strings
<1> QED BY <1>2, <1>3 DEF IsEntry

(* After k entries, with g: a name of before that no entry is a link to, and *)
(* the files of the entries that are the only ones of their node.           *)
PathOf(fb, i) == FullPath(fb.path, Source[i].sub)
Untouched(fb, k, g, n) == \A j \in 1 .. k : g.names[PathOf(fb, j)] # n
Alone(fb, k, g, i) == \A j \in 1 .. k : j # i => g.names[PathOf(fb, j)] # g.names[PathOf(fb, i)]
Met(fb, k, g) == \A j \in 1 .. k : PathOf(fb, j) \in DOMAIN g.names
OthersKept(fb, f, k, g) ==
    \A q \in DOMAIN f.names : Untouched(fb, k, g, f.names[q]) => Node(g, q).data = Node(f, q).data
Filled(fb, f, k, g) ==
    \A i \in 1 .. k :
        /\ Source[i].kind = "file" /\ Original(i) \in DOMAIN f.names
        /\ Untouched(fb, k, g, f.names[Original(i)]) /\ Alone(fb, k, g, i)
        => Node(g, PathOf(fb, i)).data = Node(f, Original(i)).data

(* One entry more, from x to y. *)
LEMMA EntryFills ==
    ASSUME NEW fb, NEW f, Sound(f), NEW x, NEW y, NEW k \in Nat \ {0}, Grown(fb, f, x), Grown(fb, x, y),
           Sound(x), EntryMade(x, fb, Source[k], y), OthersKept(fb, f, k - 1, x), Filled(fb, f, k - 1, x),
           Met(fb, k - 1, x)
    PROVE  OthersKept(fb, f, k, y) /\ Filled(fb, f, k, y)
<1>1. /\ \A j \in 1 .. k - 1 : j \in 1 .. k /\ j # k /\ PathOf(fb, j) \in DOMAIN x.names /\ y.names[PathOf(fb, j)] = x.names[PathOf(fb, j)]
      /\ \A j \in 1 .. k : j # k => j \in 1 .. k - 1
      /\ k \in 1 .. k
  BY DEF Grown, Met
<1>2. \A q \in DOMAIN f.names :
          /\ q \in DOMAIN x.names /\ x.names[q] = f.names[q] /\ y.names[q] = f.names[q]
          /\ f.names[q] \in DOMAIN f.nodes /\ f.names[q] \in DOMAIN x.nodes
  BY DEF Grown, Sound
<1>3. /\ \A n \in DOMAIN x.nodes : n # y.names[PathOf(fb, k)] => y.nodes[n].data = x.nodes[n].data
      /\ Source[k].kind = "file" => CopyMade(x, Original(k), PathOf(fb, k), y)
  BY DEF EntryMade, Only, PathOf, Original
<1>4. \A n : Untouched(fb, k, y, n) => Untouched(fb, k - 1, x, n) /\ y.names[PathOf(fb, k)] # n
  BY <1>1 DEF Untouched
<1>5. ASSUME NEW q \in DOMAIN f.names, Untouched(fb, k, y, f.names[q]) PROVE Node(y, q).data = Node(f, q).data
  <2>1. Untouched(fb, k - 1, x, f.names[q]) /\ y.names[PathOf(fb, k)] # f.names[q]
    BY <1>4, <1>5
  <2>2. Node(x, q).data = Node(f, q).data
    BY <2>1 DEF OthersKept
  <2>3. Node(y, q).data = Node(x, q).data
    BY <1>2, <1>3, <2>1 DEF Node
  <2> QED BY <2>2, <2>3
<1>6. ASSUME NEW i \in 1 .. k, Source[i].kind = "file", Original(i) \in DOMAIN f.names,
             Untouched(fb, k, y, f.names[Original(i)]), Alone(fb, k, y, i)
      PROVE  Node(y, PathOf(fb, i)).data = Node(f, Original(i)).data
  <2>1. Untouched(fb, k - 1, x, f.names[Original(i)]) /\ y.names[PathOf(fb, k)] # f.names[Original(i)]
    BY <1>4, <1>6
  <2>2. CASE i = k
    <3>1. CopyMade(x, Original(k), PathOf(fb, k), y)
      BY <1>3, <1>6, <2>2
    <3>2. y.names[PathOf(fb, k)] # y.names[Original(k)]
      BY <1>2, <1>6, <2>1, <2>2
    <3>3. Node(y, PathOf(fb, k)).data = Node(x, Original(k)).data
      BY <3>1, <3>2 DEF CopyMade
    <3>4. Node(x, Original(k)).data = Node(f, Original(k)).data
      BY <1>6, <2>1, <2>2 DEF OthersKept
    <3> QED BY <2>2, <3>3, <3>4
  <2>3. CASE i # k
    <3>1. i \in 1 .. k - 1 /\ PathOf(fb, i) \in DOMAIN x.names /\ y.names[PathOf(fb, i)] = x.names[PathOf(fb, i)]
      BY <1>1, <2>3
    <3>2. Alone(fb, k - 1, x, i) /\ y.names[PathOf(fb, k)] # y.names[PathOf(fb, i)]
      BY <1>1, <1>6, <2>3, <3>1 DEF Alone
    <3>3. Node(x, PathOf(fb, i)).data = Node(f, Original(i)).data
      BY <1>6, <2>1, <3>1, <3>2 DEF Filled
    <3>4. x.names[PathOf(fb, i)] \in DOMAIN x.nodes
      BY <3>1 DEF Sound
    <3>5. Node(y, PathOf(fb, i)).data = Node(x, PathOf(fb, i)).data
      BY <1>3, <3>1, <3>2, <3>4 DEF Node
    <3> QED BY <3>3, <3>5
  <2> QED BY <2>2, <2>3
<1> QED BY <1>5, <1>6 DEF OthersKept, Filled

LEMMA CopyIntoOpIs ==
    ASSUME NEW fb \in FbSet, NEW f \in FsSet, Sound(f), NEW g, g = CopyIntoOp(f, fb)
    PROVE  Step(fb, f, g) /\ (~g.err => Filled(fb, f, Len(Source), g) /\ \A i \in DOMAIN Source : Copied(g, fb, Source[i]))
<1> DEFINE X == {h \in FsSet : Step(fb, f, h)}
           n == Len(Source)
           start == Do(f, IsKind(f, SourceDir, "dir"), f)
<1>0. n \in Nat /\ DOMAIN Source = 1 .. n /\ \A i \in 1 .. n : IsEntry(Source[i])
  BY SourceIs
<1>1. start \in X /\ Same(f, start)
  <2>1. Step(fb, f, start) /\ Same(f, start)
    BY LooksIs
  <2> HIDE DEF start
  <2> QED BY <2>1 DEF Step
<1>2. ASSUME NEW k \in 1 .. n, NEW x \in X
      PROVE  /\ CopyEntry(x, fb, Source[k]) \in X
             /\ x \in FsSet /\ Sound(x) /\ Step(fb, x, CopyEntry(x, fb, Source[k]))
             /\ Grown(fb, f, x)
             /\ ~CopyEntry(x, fb, Source[k]).err =>
                    /\ Copied(CopyEntry(x, fb, Source[k]), fb, Source[k])
                    /\ EntryMade(x, fb, Source[k], CopyEntry(x, fb, Source[k]))
  <2> DEFINE y == CopyEntry(x, fb, Source[k])
  <2>1. x \in FsSet /\ Step(fb, f, x) /\ Sound(x) /\ Grown(fb, f, x) /\ IsEntry(Source[k])
    BY <1>0 DEF Step
  <2>2. Step(fb, x, y) /\ (~y.err => Copied(y, fb, Source[k]) /\ EntryMade(x, fb, Source[k], y))
    BY <2>1, CopyEntryIs
  <2> HIDE DEF y
  <2>3. y \in FsSet
    BY <2>2 DEF Step
  <2>4. Step(fb, f, y)
    BY <2>1, <2>2, <2>3, StepsFollow
  <2> QED BY <2>1, <2>2, <2>3, <2>4 DEF y
<1> HIDE DEF X
<1>3. PICK copied \in [0 .. n -> X] :
          /\ copied[0] = start
          /\ \A k \in 1 .. n : copied[k] = CopyEntry(copied[k - 1], fb, Source[k])
          /\ CopyIntoOp(f, fb) = copied[n]
  <2>1. \A k \in 1 .. n : \A x \in X : CopyEntry(x, fb, Source[k]) \in X
    BY <1>2
  <2>2. start = Do(f, IsKind(f, SourceDir, "dir"), f)
    OBVIOUS
  <2> HIDE DEF start
  <2> QED BY <1>0, <1>1, <2>1, <2>2, CopyIntoTurns
<1> HIDE DEF start
<1> DEFINE AllCopied(k) ==
               copied[k].err \/ /\ \A i \in 1 .. k : Copied(copied[k], fb, Source[i])
                                /\ OthersKept(fb, f, k, copied[k]) /\ Filled(fb, f, k, copied[k])
           Good == {k \in 0 .. n : AllCopied(k)}
<1>4. 0 \in Good
  <2>1. Same(f, copied[0])
    BY <1>1, <1>3
  <2>2. OthersKept(fb, f, 0, copied[0]) /\ Filled(fb, f, 0, copied[0])
    BY <2>1 DEF Same, OthersKept, Filled, Node
  <2> QED BY <1>0, <2>2
<1>5. ASSUME NEW k \in 1 .. n, k - 1 \in Good PROVE k \in Good
  <2> DEFINE x == copied[k - 1]
             y == copied[k]
  <2>1. k - 1 \in 0 .. n /\ k \in 0 .. n /\ k \in Nat /\ k # 0
    BY <1>0
  <2>2. x \in X /\ y = CopyEntry(x, fb, Source[k])
    BY <1>3, <2>1
  <2>3. x.err \/ /\ \A i \in 1 .. k - 1 : Copied(x, fb, Source[i])
                  /\ OthersKept(fb, f, k - 1, x) /\ Filled(fb, f, k - 1, x)
    BY <1>5
  <2> HIDE DEF x, y
  <2>4. /\ Sound(x) /\ Grown(fb, f, x) /\ Step(fb, x, y)
        /\ ~y.err => Copied(y, fb, Source[k]) /\ EntryMade(x, fb, Source[k], y)
    BY <1>2, <2>2
  <2>5. ASSUME ~y.err, NEW i \in 1 .. k PROVE Copied(y, fb, Source[i])
    <3>1. CASE i = k
      BY <2>4, <2>5, <3>1
    <3>2. CASE i # k
      <4>1. i \in 1 .. k - 1
        BY <2>1, <3>2
      <4>2. ~x.err
        BY <2>4, <2>5 DEF Step
      <4>3. FixedIn(x, fb, FullPath(fb.path, Source[i].sub), Source[i].kind)
        BY <2>3, <4>1, <4>2 DEF Copied
      <4> QED BY <2>4, <4>3, FixedStays DEF Copied
    <3> QED BY <3>1, <3>2
  <2>a. ASSUME ~y.err PROVE OthersKept(fb, f, k, y) /\ Filled(fb, f, k, y)
    <3>1. ~x.err /\ Grown(fb, x, y)
      BY <2>4, <2>a DEF Step
    <3>2. Met(fb, k - 1, x)
      BY <2>3, <3>1 DEF Met, Copied, FixedIn, IsKind, PathOf
    <3>3. k \in Nat \ {0}
      BY <2>1
    <3>4. OthersKept(fb, f, k - 1, x) /\ Filled(fb, f, k - 1, x)
      BY <2>3, <3>1
    <3>5. Sound(f) /\ Sound(x) /\ Grown(fb, f, x) /\ EntryMade(x, fb, Source[k], y)
      BY <2>4, <2>a
    <3> HIDE DEF n
    <3> QED BY <3>1, <3>2, <3>3, <3>4, <3>5, EntryFills, Zenon
  <2>6. AllCopied(k)
    BY <2>5, <2>a DEF y
  <2> QED BY <2>1, <2>6
<1>6. n \in Good
  <2> HIDE DEF Good
  <2>1. \A k \in 0 .. n : k \in Good
    BY <1>0, <1>4, <1>5, FromZeroOn
  <2> QED BY <1>0, <2>1
<1>7. g = copied[n] /\ g \in X
  BY <1>0, <1>3
<1> QED BY <1>0, <1>6, <1>7 DEF X

-----------------------------------------------------------------------------
(* Entries that go, and links. *)
LEMMA AboveIt == \A q \in PathSet : Len(q) > 1 => Parent(q) \in PathSet /\ IsStrictPrefix(Parent(q), q)
<1> SUFFICES ASSUME NEW q \in PathSet, Len(q) > 1 PROVE Parent(q) \in PathSet /\ IsStrictPrefix(Parent(q), q)
  OBVIOUS
<1> DEFINE n == Len(q) - 1
<1>1. Len(q) \in Nat /\ n \in 1 .. Len(q) /\ n # Len(q)
  BY DEF PathSet
<1>2. Parent(q) = SubSeq(q, 1, n)
  BY DEF Parent, Front
<1> HIDE DEF n
<1>3. IsPrefix(q, q)
  BY PrefixOfItself
<1>4. Parent(q) \in PathSet /\ Len(Parent(q)) = n
  BY <1>1, <1>2, <1>3, OnTheWay
<1>5. \A i \in 1 .. n : i \in 1 .. Len(q) /\ Parent(q)[i] = q[i]
  BY <1>1, <1>2, SubSeqProperties DEF PathSet
<1>6. IsPrefix(Parent(q), q)
  BY <1>1, <1>4, <1>5, PrefixIs
<1>7. Parent(q) # q
  BY <1>1, <1>4
<1> QED BY <1>4, <1>6, <1>7 DEF IsStrictPrefix

(* Of entries that go, those below them go as well. *)
Whole(gone, f) == \A q \in DOMAIN f.names : Len(q) > 1 /\ Parent(q) \in gone => q \in gone
Removed(gone, f, g) ==
    /\ g \in FsSet /\ Sound(g) /\ g.nodes = f.nodes
    /\ DOMAIN g.names = DOMAIN f.names \ gone
    /\ \A q \in DOMAIN g.names : g.names[q] = f.names[q]

LEMMA WithoutIs ==
    ASSUME NEW f \in FsSet, Sound(f), NEW gone, Whole(gone, f), NEW g, g = Without(f, gone)
    PROVE  Removed(gone, f, g) /\ g.err = f.err
<1> DEFINE ns == [q \in DOMAIN f.names \ gone |-> f.names[q]]
           D == DOMAIN f.names \ gone
<1>1. DOMAIN f.names \subseteq PathSet /\ \A q \in DOMAIN f.names : f.names[q] \in Nat
  BY FsIs
<1>2. D \in SUBSET PathSet /\ ns \in [D -> Nat]
  BY <1>1
<1>3. ns \in NamesSet
  <2> HIDE DEF ns, D
  <2> QED BY <1>2, NamesAre
<1>4. g = [f EXCEPT !.names = ns]
  BY Zenon DEF Without
<1>5. DOMAIN ns = DOMAIN f.names \ gone /\ \A q \in DOMAIN ns : ns[q] = f.names[q]
  OBVIOUS
<1> HIDE DEF ns
<1>6. g \in FsSet /\ g.err = f.err /\ g.names = ns /\ g.nodes = f.nodes
  BY <1>3, <1>4 DEF FsSet
<1>7. Sound(g)
  <2>1. ASSUME NEW q \in DOMAIN g.names PROVE g.names[q] \in DOMAIN g.nodes /\ (Len(q) > 1 => IsKind(g, Parent(q), "dir"))
    <3>1. f.names[q] \in DOMAIN f.nodes /\ (Len(q) > 1 => IsKind(f, Parent(q), "dir"))
      BY <1>5, <1>6 DEF Sound
    <3>2. Len(q) > 1 => Parent(q) \notin gone
      BY <1>5, <1>6 DEF Whole
    <3> QED BY <1>5, <1>6, <3>1, <3>2 DEF IsKind, Node
  <2>2. ASSUME NEW q \in DOMAIN g.names, NEW r \in DOMAIN g.names, g.names[q] = g.names[r], Node(g, q).kind = "dir"
        PROVE  q = r
    <3>1. q \in DOMAIN f.names /\ r \in DOMAIN f.names /\ f.names[q] = f.names[r] /\ Node(f, q).kind = "dir"
      BY <1>5, <1>6, <2>2 DEF Node
    <3> QED BY <3>1 DEF Sound
  <2> QED BY <2>1, <2>2 DEF Sound
<1> QED BY <1>5, <1>6, <1>7 DEF Removed

(* What is in a base may go. *)
Trimmed(p, f, g) ==
    /\ g \in FsSet /\ Sound(g) /\ g.nodes = f.nodes
    /\ \A q \in DOMAIN g.names : q \in DOMAIN f.names /\ g.names[q] = f.names[q]
    /\ \A q \in DOMAIN f.names : q \notin DOMAIN g.names => IsPrefix(p, q)

LEMMA SameTrims ==
    ASSUME NEW p, NEW f \in FsSet, Sound(f), NEW g \in FsSet, Same(f, g)
    PROVE  Trimmed(p, f, g)
<1>1. Sound(g)
  BY DEF Sound, Same, IsKind, Node
<1> QED BY <1>1 DEF Trimmed, Same

LEMMA RemoveOpIs ==
    ASSUME NEW fb, fb.path \in PathSet, NEW f \in FsSet, Sound(f), NEW p \in PathSet, p = Refused \/ IsPrefix(fb.path, p),
           NEW g, g = RemoveOp(f, p)
    PROVE  Trimmed(fb.path, f, g) /\ (~g.err => p \notin DOMAIN g.names)
<1> DEFINE a == Checked(f, p)
           can == p \in DOMAIN a.names /\ Below(p, a) = {}
           after == Without(a, {p})
<1>0. g = Do(a, can, after)
  BY Zenon DEF RemoveOp
<1>1. a \in FsSet /\ Sound(a) /\ Same(f, a) /\ PathIn(fb, a, p)
  BY CheckedIs DEF Step
<1> HIDE DEF a
<1>2. CASE a.err
  <2>1. g = a
    BY <1>0, <1>2, Zenon DEF Do
  <2> QED BY <1>1, <1>2, <2>1, SameTrims
<1>3. CASE ~a.err
  <2>0. p # Refused /\ IsPrefix(fb.path, p)
    BY <1>1, <1>3 DEF PathIn
  <2>1. can => Whole({p}, a)
    <3> SUFFICES ASSUME can, NEW q \in DOMAIN a.names, Len(q) > 1, Parent(q) = p PROVE FALSE
      BY DEF Whole
    <3>1. q \in PathSet
      BY <1>1, FsIs
    <3>2. IsStrictPrefix(p, q)
      BY <3>1, AboveIt
    <3> QED BY <2>0, <3>2 DEF Below
  <2>2. can => Removed({p}, a, after) /\ after.err = a.err
    BY <1>1, <2>1, WithoutIs
  <2>3. can \in BOOLEAN
    OBVIOUS
  <2> HIDE DEF can, after
  <2>4. can => after \in FsSet /\ after.err = a.err
    BY <2>2 DEF Removed
  <2>5. g \in FsSet /\ (g.err => Same(a, g)) /\ (~g.err => can /\ Same(after, g))
    BY <1>0, <1>1, <2>3, <2>4, DoIs
  <2>6. CASE g.err
    <3>1. Same(f, g)
      BY <1>1, <2>5, <2>6 DEF Same
    <3> QED BY <2>5, <2>6, <3>1, SameTrims
  <2>7. CASE ~g.err
    <3>1. Same(after, g) /\ Removed({p}, a, after)
      BY <2>2, <2>5, <2>7
    <3>2. Trimmed(fb.path, after, g)
      BY <2>5, <3>1, SameTrims DEF Removed
    <3>3. Sound(g)
      BY <3>2 DEF Trimmed
    <3> QED BY <1>1, <2>0, <2>5, <3>1, <3>3 DEF Trimmed, Removed, Same
  <2> QED BY <2>6, <2>7
<1> QED BY <1>2, <1>3

(* What stays of a directory is a tree. *)
Closed(p, kept) == \A q \in kept : Parent(q) = p \/ Parent(q) \in kept

LEMMA StaysIsClosed == \A f, p : \A kept \in Stays(f, p) : Closed(p, kept)
BY DEF Stays, Closed

LEMMA BelowIs ==
    ASSUME NEW f \in FsSet, NEW p \in PathSet, NEW q
    PROVE  /\ q \in Below(p, f) <=> q \in DOMAIN f.names /\ p # Refused /\ IsStrictPrefix(p, q)
           /\ q \in Below(p, f) => q \in PathSet /\ IsPrefix(p, q) /\ p # q
BY FsIs DEF Below, IsStrictPrefix

LEMMA RemoveContentsOpIs ==
    ASSUME NEW f \in FsSet, Sound(f), NEW p \in PathSet, NEW kept, Closed(p, kept),
           NEW g, g = RemoveContentsOp(f, p, kept)
    PROVE  /\ Trimmed(p, f, g) /\ (p \in DOMAIN f.names => p \in DOMAIN g.names) /\ (f.err => g.err)
           /\ ~g.err => Below(p, g) = {}
<1> DEFINE a == Checked(f, p)
           b == Do(a, IsKind(f, p, "dir"), f)
           gone == Below(p, b) \ kept
           c == Without(b, gone)
           failed == Below(p, b) \cap kept # {}
<1>0. g = IF b.err THEN b ELSE [c EXCEPT !.err = failed]
  BY Zenon DEF RemoveContentsOp
<1>1. a \in FsSet /\ Same(f, a) /\ (f.err => a.err) /\ (~a.err => a = f)
  <2> DEFINE fb == [path |-> p]
  <2>1. IsPrefix(fb.path, p)
    BY PrefixOfItself
  <2> HIDE DEF fb, a
  <2>2. a = Checked(f, p)
    BY DEF a
  <2>3. Step(fb, f, a) /\ Same(f, a) /\ (~a.err => a = f)
    BY <2>1, <2>2, CheckedIs
  <2> QED BY <2>3 DEF Step
<1> HIDE DEF a
<1>2. b \in FsSet /\ Same(f, b) /\ (f.err => b.err)
  <2>1. CASE a.err
    <3>1. b = a
      BY <2>1, Zenon DEF Do
    <3> QED BY <1>1, <2>1, <3>1
  <2>2. CASE ~a.err
    <3>1. b = Do(f, IsKind(f, p, "dir"), f)
      BY <1>1, <2>2
    <3> HIDE DEF b
    <3>2. \A fb : Step(fb, f, b) /\ Same(f, b)
      BY <3>1, LooksIs
    <3> QED BY <3>2 DEF Step
  <2> QED BY <2>1, <2>2
<1> HIDE DEF b
<1>3. Sound(b)
  BY <1>2, SameTrims DEF Trimmed
<1>4. CASE b.err
  <2>1. g = b
    BY <1>0, <1>4
  <2>2. Trimmed(p, f, g)
    BY <1>2, <2>1, SameTrims
  <2> QED BY <1>2, <1>4, <2>1, <2>2 DEF Same
<1>5. CASE ~b.err
  <2>1. Whole(gone, b)
    <3> SUFFICES ASSUME NEW q \in DOMAIN b.names, Len(q) > 1, Parent(q) \in gone, q \notin gone PROVE FALSE
      BY DEF Whole
    <3>1. q \in PathSet
      BY <1>2, FsIs
    <3>2. Parent(q) \in PathSet /\ IsPrefix(Parent(q), q) /\ Parent(q) # q
      BY <3>1, AboveIt DEF IsStrictPrefix
    <3>3. p # Refused /\ IsPrefix(p, Parent(q)) /\ p # Parent(q) /\ Parent(q) \notin kept
      BY <1>2, BelowIs
    <3>4. IsPrefix(p, q)
      BY <3>1, <3>2, <3>3, PrefixOfPrefix
    <3>5. p # q
      <4>1. ASSUME p = q PROVE FALSE
        <5>1. IsPrefix(q, Parent(q))
          BY <3>3, <4>1
        <5>2. Len(q) <= Len(Parent(q)) /\ Len(Parent(q)) <= Len(q) /\ \A i \in 1 .. Len(q) : q[i] = Parent(q)[i]
          BY <3>1, <3>2, <5>1, PrefixIs
        <5>3. q = Parent(q)
          BY <3>1, <3>2, <5>2, SeqEqual DEF PathSet
        <5> QED BY <3>2, <5>3
      <4> QED BY <4>1
    <3>6. q \in Below(p, b)
      BY <1>2, <3>3, <3>4, <3>5, BelowIs DEF IsStrictPrefix
    <3>7. q \in kept
      BY <3>6
    <3> QED BY <3>3, <3>7 DEF Closed
  <2>2. Removed(gone, b, c)
    BY <1>2, <1>3, <2>1, WithoutIs
  <2>3. c \in FsSet /\ failed \in BOOLEAN
    BY <2>2 DEF Removed
  <2>4. g = [c EXCEPT !.err = failed]
    BY <1>0, <1>5
  <2> HIDE DEF c, failed
  <2>5. g \in FsSet /\ g.names = c.names /\ g.nodes = c.nodes /\ g.err = failed
    BY <2>3, <2>4 DEF FsSet
  <2>6. Sound(g)
    <3>1. Trimmed(p, c, g)
      BY <2>2, <2>5, SameTrims DEF Removed, Same
    <3> QED BY <3>1 DEF Trimmed
  <2>7. \A q \in gone : IsPrefix(p, q) /\ p # q
    BY <1>2, BelowIs
  <2>8. Trimmed(p, f, g) /\ (p \in DOMAIN f.names => p \in DOMAIN g.names)
    <3> HIDE DEF gone
    <3> QED BY <1>2, <2>2, <2>5, <2>6, <2>7 DEF Trimmed, Removed, Same
  <2>9. ASSUME ~g.err PROVE Below(p, g) = {}
    <3>1. Below(p, b) \cap kept = {}
      BY <2>5, <2>9 DEF failed
    <3>2. gone = Below(p, b)
      BY <3>1
    <3>3. DOMAIN g.names = DOMAIN b.names \ gone
      BY <2>2, <2>5 DEF Removed
    <3>4. \A q : q \notin Below(p, g)
      BY <1>2, <2>5, <3>2, <3>3, BelowIs
    <3> QED BY <3>4
  <2>10. ~f.err
    BY <1>2, <1>5
  <2> QED BY <2>8, <2>9, <2>10
<1> QED BY <1>4, <1>5

(* A new name for a file. *)
Named(p, f, g) ==
    /\ g \in FsSet /\ Sound(g) /\ g.nodes = f.nodes
    /\ \A q \in DOMAIN f.names : q \in DOMAIN g.names /\ g.names[q] = f.names[q]
    /\ \A q \in DOMAIN g.names \ DOMAIN f.names : IsPrefix(p, q)

LEMMA SameNames ==
    ASSUME NEW p, NEW f \in FsSet, Sound(f), NEW g \in FsSet, Same(f, g)
    PROVE  Named(p, f, g)
<1>1. Sound(g)
  BY DEF Sound, Same, IsKind, Node
<1> QED BY <1>1 DEF Named, Same

LEMMA LinkIntoOpIs ==
    ASSUME NEW base, base \in PathSet, NEW f \in FsSet, Sound(f), NEW p \in PathSet, p = Refused \/ IsPrefix(base, p), NEW from,
           NEW g, g = LinkIntoOp(f, from, p)
    PROVE  Named(base, f, g) /\ (~g.err => g.names[p] = g.names[from])
<1> DEFINE fb == [path |-> base]
           a == Checked(f, p)
           can == IsKind(a, from, "file") /\ IsKind(a, Parent(p), "dir") /\ p \notin DOMAIN a.names
           ns == With(a.names, p, a.names[from])
           after == [a EXCEPT !.names = ns]
<1>0. g = Do(a, can, after)
  BY Zenon DEF LinkIntoOp, Hardlink
<1>1. a \in FsSet /\ Sound(a) /\ Same(f, a) /\ (~a.err => IsPrefix(base, p))
  <2>1. fb.path = base
    OBVIOUS
  <2> HIDE DEF fb, a
  <2>2. a = Checked(f, p)
    BY DEF a
  <2>3. Step(fb, f, a) /\ PathIn(fb, a, p) /\ Same(f, a)
    BY <2>1, <2>2, CheckedIs
  <2> QED BY <2>1, <2>3 DEF Step, PathIn
<1> HIDE DEF a
<1>2. CASE a.err
  <2>1. g = a
    BY <1>0, <1>2, Zenon DEF Do
  <2> QED BY <1>1, <1>2, <2>1, SameNames
<1>3. CASE ~a.err
  <2>1. ASSUME can
        PROVE  /\ ns \in NamesSet /\ DOMAIN ns = DOMAIN a.names \cup {p} /\ ns[p] = a.names[from]
               /\ \A q \in DOMAIN a.names : ns[q] = a.names[q]
    <3> DEFINE D == DOMAIN a.names \cup {p}
    <3>1. DOMAIN a.names \subseteq PathSet /\ \A q \in DOMAIN a.names : a.names[q] \in Nat
      BY <1>1, FsIs
    <3>2. from \in DOMAIN a.names /\ p \notin DOMAIN a.names
      BY <2>1 DEF IsKind
    <3>3. D \in SUBSET PathSet /\ ns \in [D -> Nat]
      BY <3>1, <3>2 DEF With
    <3>4. ns \in NamesSet
      <4> HIDE DEF ns, D
      <4> QED BY <3>3, NamesAre
    <3> QED BY <3>2, <3>4 DEF With
  <2> HIDE DEF ns
  <2>2. can => after \in FsSet /\ after.err = a.err /\ after.names = ns /\ after.nodes = a.nodes
    BY <1>1, <2>1 DEF FsSet
  <2>3. can \in BOOLEAN
    BY DEF IsKind
  <2> HIDE DEF after
  <2>4. g \in FsSet /\ (g.err => Same(a, g)) /\ (~g.err => can /\ Same(after, g))
    <3> HIDE DEF can
    <3> QED BY <1>0, <1>1, <2>2, <2>3, DoIs
  <2>5. CASE g.err
    <3>1. Same(f, g)
      BY <1>1, <2>4, <2>5 DEF Same
    <3> QED BY <2>4, <2>5, <3>1, SameNames
  <2>6. CASE ~g.err
    <3>1. can /\ g.names = ns /\ g.nodes = a.nodes
      BY <2>2, <2>4, <2>6 DEF Same
    <3>2. /\ DOMAIN ns = DOMAIN a.names \cup {p} /\ ns[p] = a.names[from]
          /\ \A q \in DOMAIN a.names : ns[q] = a.names[q]
      BY <2>1, <3>1
    <3>3. from \in DOMAIN a.names /\ Node(a, from).kind = "file" /\ IsKind(a, Parent(p), "dir")
      BY <3>1 DEF IsKind
    <3>4. ASSUME NEW q \in DOMAIN g.names PROVE g.names[q] \in DOMAIN g.nodes /\ (Len(q) > 1 => IsKind(g, Parent(q), "dir"))
      <4>1. \A r : IsKind(a, r, "dir") => IsKind(g, r, "dir")
        BY <3>1, <3>2 DEF IsKind, Node
      <4>2. \A r \in DOMAIN a.names : a.names[r] \in DOMAIN a.nodes /\ (Len(r) > 1 => IsKind(a, Parent(r), "dir"))
        BY <1>1 DEF Sound
      <4> QED BY <3>1, <3>2, <3>3, <4>1, <4>2
    <3>5. ASSUME NEW q \in DOMAIN g.names, NEW r \in DOMAIN g.names, g.names[q] = g.names[r], Node(g, q).kind = "dir"
          PROVE  q = r
      <4>1. "file" # "dir"
        OBVIOUS
      <4>2. q # p /\ r # p
        BY <3>1, <3>2, <3>3, <3>5, <4>1 DEF Node
      <4>3. q \in DOMAIN a.names /\ r \in DOMAIN a.names /\ a.names[q] = a.names[r] /\ Node(a, q).kind = "dir"
        BY <3>1, <3>2, <3>5, <4>2 DEF Node
      <4> QED BY <1>1, <4>3 DEF Sound
    <3>6. Sound(g)
      BY <3>4, <3>5 DEF Sound
    <3>7. Named(base, f, g)
      BY <1>1, <1>3, <2>4, <3>1, <3>2, <3>6 DEF Named, Same
    <3>8. g.names[p] = g.names[from]
      BY <3>1, <3>2, <3>3
    <3> QED BY <2>6, <3>7, <3>8
  <2> QED BY <2>5, <2>6
<1> QED BY <1>2, <1>3

-----------------------------------------------------------------------------
(* What an operation may do outside its base. *)
Within(base, f, g) ==
    /\ \A q \in DOMAIN f.names : ~IsPrefix(base, q) =>
        /\ q \in DOMAIN g.names /\ g.names[q] = f.names[q]
        /\ g.nodes[f.names[q]] = f.nodes[f.names[q]] \/ Linked(base, f, f.names[q])
    /\ \A q \in DOMAIN g.names \ DOMAIN f.names : IsPrefix(base, q) \/ IsStrictPrefix(q, base)

(* A step, without what it says of owners and modes. *)
Spread(base, f, g) ==
    /\ g \in FsSet /\ Sound(g)
    /\ \A q \in DOMAIN f.names : q \in DOMAIN g.names /\ g.names[q] = f.names[q]
    /\ \A n \in DOMAIN f.nodes : n \in DOMAIN g.nodes /\ (g.nodes[n] = f.nodes[n] \/ Linked(base, f, n))
    /\ \A q \in DOMAIN g.names \ DOMAIN f.names :
        g.names[q] \notin DOMAIN f.nodes /\ (IsPrefix(base, q) \/ IsStrictPrefix(q, base))

LEMMA StepSpreads ==
    ASSUME NEW fb, NEW f, NEW g, Step(fb, f, g), NEW base, base = fb.path
    PROVE  Spread(base, f, g)
BY DEF Step, Grown, Spread

LEMMA SpreadsFollow ==
    ASSUME NEW base, NEW f, NEW g, NEW h, Spread(base, f, g), Spread(base, g, h)
    PROVE  Spread(base, f, h)
<1>1. ASSUME NEW n \in DOMAIN f.nodes, Linked(base, g, n) PROVE Linked(base, f, n)
  <2>1. PICK q \in DOMAIN g.names : g.names[q] = n /\ IsPrefix(base, q)
    BY <1>1 DEF Linked
  <2>2. q \in DOMAIN f.names /\ f.names[q] = n
    BY <2>1 DEF Spread
  <2> QED BY <2>1, <2>2 DEF Linked
<1>2. ASSUME NEW q \in DOMAIN f.names PROVE q \in DOMAIN h.names /\ h.names[q] = f.names[q]
  BY DEF Spread
<1>3. ASSUME NEW n \in DOMAIN f.nodes PROVE n \in DOMAIN h.nodes /\ (h.nodes[n] = f.nodes[n] \/ Linked(base, f, n))
  <2>1. n \in DOMAIN g.nodes /\ (g.nodes[n] = f.nodes[n] \/ Linked(base, f, n))
    BY DEF Spread
  <2>2. n \in DOMAIN h.nodes /\ (h.nodes[n] = g.nodes[n] \/ Linked(base, g, n))
    BY <2>1 DEF Spread
  <2> QED BY <1>1, <2>1, <2>2
<1>4. ASSUME NEW q \in DOMAIN h.names \ DOMAIN f.names
      PROVE  h.names[q] \notin DOMAIN f.nodes /\ (IsPrefix(base, q) \/ IsStrictPrefix(q, base))
  <2>1. CASE q \in DOMAIN g.names
    <3>1. h.names[q] = g.names[q]
      BY <2>1 DEF Spread
    <3> QED BY <2>1, <3>1 DEF Spread
  <2>2. CASE q \notin DOMAIN g.names
    <3>1. DOMAIN f.nodes \subseteq DOMAIN g.nodes
      BY DEF Spread
    <3> QED BY <2>2, <3>1 DEF Spread
  <2> QED BY <2>1, <2>2
<1>5. h \in FsSet /\ Sound(h)
  BY DEF Spread
<1> QED BY <1>2, <1>3, <1>4, <1>5 DEF Spread

LEMMA SpreadsWithin ==
    ASSUME NEW base, NEW f, Sound(f), NEW g, Spread(base, f, g)
    PROVE  Within(base, f, g)
<1>1. \A q \in DOMAIN f.names : f.names[q] \in DOMAIN f.nodes
  BY DEF Sound
<1> QED BY <1>1 DEF Spread, Within

LEMMA TrimsWithin ==
    ASSUME NEW base, base \in PathSet, NEW f \in FsSet, NEW p \in PathSet, IsPrefix(base, p), NEW g, Trimmed(p, f, g)
    PROVE  Within(base, f, g)
<1>1. DOMAIN f.names \subseteq PathSet
  BY FsIs
<1>2. \A q \in PathSet : IsPrefix(p, q) => IsPrefix(base, q)
  BY PrefixOfPrefix
<1> QED BY <1>1, <1>2 DEF Trimmed, Within

LEMMA NamesWithin ==
    ASSUME NEW base, base \in PathSet, NEW f \in FsSet, NEW p \in PathSet, IsPrefix(base, p), NEW g, Named(p, f, g)
    PROVE  Within(base, f, g)
<1>1. g \in FsSet
  BY DEF Named
<1>2. DOMAIN g.names \subseteq PathSet
  BY <1>1, FsIs
<1>3. \A q \in PathSet : IsPrefix(p, q) => IsPrefix(base, q)
  BY PrefixOfPrefix
<1> QED BY <1>2, <1>3 DEF Named, Within

(* A directory that is not in the base is left as it is: it has no other    *)
(* name by which the base could hold it.                                     *)
LEMMA DirsStay ==
    ASSUME NEW base, NEW f, Sound(f), NEW g, Within(base, f, g), NEW p, ~IsPrefix(base, p),
           NEW fb, FixedIn(f, fb, p, "dir")
    PROVE  FixedIn(g, fb, p, "dir")
<1>1. p \in DOMAIN f.names /\ Node(f, p).kind = "dir"
  BY DEF FixedIn, IsKind
<1>2. ~Linked(base, f, f.names[p])
  <2> SUFFICES ASSUME NEW q \in DOMAIN f.names, f.names[q] = f.names[p], IsPrefix(base, q) PROVE FALSE
    BY DEF Linked
  <2>1. Node(f, q).kind = "dir"
    BY <1>1 DEF Node
  <2>2. q = p
    BY <1>1, <2>1 DEF Sound
  <2> QED BY <2>2
<1>3. p \in DOMAIN g.names /\ Node(g, p) = Node(f, p)
  BY <1>1, <1>2 DEF Within, Node
<1> QED BY <1>3 DEF FixedIn, IsKind

-----------------------------------------------------------------------------
(* The bases. *)
SubsAre(base, sub) == FullPath(base, sub) \in PathSet /\ (FullPath(base, sub) = Refused \/ IsPrefix(base, FullPath(base, sub)))

LEMMA SubPaths == \A base, sub \in PathSet : SubsAre(base, sub)
<1>1. Refused \in PathSet
  BY DEF Refused, PathSet
<1> QED BY <1>1, FullPathIs DEF SubsAre

LEMMA Literals == <<"read">> \in PathSet /\ <<"write">> \in PathSet /\ <<"f">> \in PathSet
<1>1. "read" \in Strings /\ "write" \in Strings /\ "f" \in Strings
  BY Zenon DEF Strings
<1> QED BY <1>1, Listed, Zenon DEF PathSet

LEMMA BasesAre ==
    /\ OwnBase \in FbSet /\ LinkerBase \in FbSet /\ ReadBase \in FbSet /\ WriteBase \in FbSet
    /\ OwnBase.path \in PathSet /\ LinkerBase.path \in PathSet
    /\ ReadBase.path = FullPath(LinkerBase.path, <<"read">>) /\ SubsAre(LinkerBase.path, <<"read">>)
    /\ WriteBase.path = FullPath(LinkerBase.path, <<"write">>) /\ SubsAre(LinkerBase.path, <<"write">>)
    /\ ReadBase.gid = LinkerBase.gid /\ ReadBase.groupWritable = FALSE /\ LinkerBase.groupWritable = FALSE
    /\ WriteBase.gid = LinkerBase.gid /\ WriteBase.groupWritable = TRUE
<1>1. Base \in PathSet /\ LinkerDir \in PathSet
  BY FileBaseAssumption, SeqMonotonic DEF PathSet, Strings
<1>2. NewBase(Base) \in PathSet /\ NewBase(LinkerDir) \in PathSet
  BY <1>1, CleanIs DEF NewBase
<1>3. Group \in Values /\ "judge" \in Values
  BY DEF Values
<1>4. OwnBase \in FbSet /\ OwnBase.path = NewBase(Base)
  <2> HIDE DEF Group
  <2> QED BY <1>2, <1>3 DEF OwnBase, Bare, FbSet
<1>5. LinkerBase \in FbSet /\ LinkerBase.path = NewBase(LinkerDir) /\ LinkerBase.gid = Group /\ LinkerBase.groupWritable = FALSE
  BY <1>2, <1>3 DEF LinkerBase, Bare, FbSet
<1>6. SubsAre(LinkerBase.path, <<"read">>) /\ SubsAre(LinkerBase.path, <<"write">>)
  BY <1>2, <1>5, SubPaths, Literals, Zenon
<1> DEFINE r == <<"read">>  w == <<"write">>
<1>7. ReadBase = [LinkerBase EXCEPT !.path = FullPath(LinkerBase.path, r)]
  BY DEF ReadBase, SubBase
<1>8. WriteBase = [[LinkerBase EXCEPT !.path = FullPath(LinkerBase.path, w)] EXCEPT !.groupWritable = TRUE]
  BY DEF WriteBase, SubBase
<1>9. SubsAre(LinkerBase.path, r) /\ SubsAre(LinkerBase.path, w)
  BY <1>6
<1> HIDE DEF r, w
<1>10. /\ ReadBase \in FbSet /\ ReadBase.path = FullPath(LinkerBase.path, r)
       /\ ReadBase.gid = LinkerBase.gid /\ ReadBase.groupWritable = FALSE
  BY <1>5, <1>7, <1>9 DEF FbSet, SubsAre
<1>11. /\ WriteBase \in FbSet /\ WriteBase.path = FullPath(LinkerBase.path, w)
       /\ WriteBase.gid = LinkerBase.gid /\ WriteBase.groupWritable = TRUE
  BY <1>5, <1>8, <1>9 DEF FbSet, SubsAre
<1> QED BY <1>2, <1>4, <1>5, <1>9, <1>10, <1>11 DEF r, w

(* The two directories of the linker are not in one another. *)
LEMMA ReadAndWriteApart ==
    ASSUME ReadBase.path # Refused, WriteBase.path # Refused
    PROVE  ~IsPrefix(ReadBase.path, WriteBase.path) /\ ~IsPrefix(WriteBase.path, ReadBase.path)
<1> DEFINE p == LinkerBase.path  x == "read"  y == "write"  e == <<"">>  o == <<>>
<1>1. p \in PathSet /\ o \in PathSet /\ e \in PathSet
  <2>1. "" \in Strings
    BY Zenon DEF Strings
  <2>2. e \in PathSet
    BY <2>1, Listed, Zenon DEF PathSet
  <2>3. p \in PathSet
    BY BasesAre, Zenon
  <2>4. o \in PathSet
    BY DEF PathSet
  <2> HIDE DEF e, o, p
  <2> QED BY <2>2, <2>3, <2>4
<1>2. x \in Plain /\ y \in Plain /\ x # y
  BY Zenon DEF Plain, Strings
<1>3. \A z \in Strings : z # "" => JoinPath(p, <<z>>) = IF p = e THEN Clean(o \o <<z>>) ELSE Clean(p \o <<z>>)
  <2> TAKE z \in Strings
  <2> HAVE z # ""
  <2>1. <<z>> # e
    <3>1. \A s : Len(<<s>>) = 1 /\ <<s>>[1] = s
      OBVIOUS
    <3> QED BY <3>1, Zenon
  <2>2. o \o <<z>> = <<z>>
    <3>1. <<z>> \in Seq(Strings)
      BY Listed, Zenon
    <3> QED BY <3>1, ConcatEmptySeq
  <2>3. JoinPath(p, <<z>>) = IF p = e THEN Clean(<<z>>) ELSE Clean(p \o <<z>>)
    BY <2>1, Zenon DEF JoinPath
  <2> QED BY <2>2, <2>3, Zenon
<1>4. ReadBase.path = JoinPath(p, <<x>>) /\ WriteBase.path = JoinPath(p, <<y>>)
  BY BasesAre, Zenon DEF FullPath
<1>5. /\ ReadBase.path = IF p = e THEN Clean(o \o <<x>>) ELSE Clean(p \o <<x>>)
      /\ WriteBase.path = IF p = e THEN Clean(o \o <<y>>) ELSE Clean(p \o <<y>>)
  BY <1>2, <1>3, <1>4, Zenon DEF Plain
<1> HIDE DEF x, y, p, e, o
<1>6. CASE p = e
  <2>1. ~IsPrefix(Clean(o \o <<x>>), Clean(o \o <<y>>)) /\ ~IsPrefix(Clean(o \o <<y>>), Clean(o \o <<x>>))
    BY <1>1, <1>2, CleanApart, Zenon
  <2> QED BY <1>5, <1>6, <2>1, Zenon
<1>7. CASE p # e
  <2>1. ~IsPrefix(Clean(p \o <<x>>), Clean(p \o <<y>>)) /\ ~IsPrefix(Clean(p \o <<y>>), Clean(p \o <<x>>))
    BY <1>1, <1>2, CleanApart, Zenon
  <2> QED BY <1>5, <1>7, <2>1, Zenon
<1> QED BY <1>6, <1>7

-----------------------------------------------------------------------------
(* The operations of the linker. *)
ReadyIn(f) == FixedIn(f, ReadBase, ReadBase.path, "dir") /\ FixedIn(f, WriteBase, WriteBase.path, "dir")

(* A Mkdir below the linker's directory, by a base with the same owner. *)
LEMMA MkdirBelow ==
    ASSUME NEW fb \in FbSet, fb.gid = LinkerBase.gid, NEW f \in FsSet, Sound(f), NEW p \in PathSet,
           p = Refused \/ IsPrefix(LinkerBase.path, p), NEW g, g = MkdirOp(f, fb, p)
    PROVE  /\ Spread(LinkerBase.path, f, g)
           /\ ~g.err => ~f.err /\ p # Refused /\ FixedIn(g, fb, p, "dir")
<1> DEFINE wide == [fb EXCEPT !.path = LinkerBase.path]
<1>1. wide \in FbSet /\ wide.path = LinkerBase.path /\ wide.gid = fb.gid /\ wide.groupWritable = fb.groupWritable
  BY BasesAre DEF FbSet
<1> HIDE DEF wide
<1>2. ModeExec(wide) = ModeExec(fb) /\ ModeOf(wide, "dir") = ModeExec(wide) /\ ModeOf(fb, "dir") = ModeExec(fb)
  BY <1>1 DEF ModeExec, ModeOf
<1>3. g = MkdirOp(f, wide, p)
  BY <1>1, <1>2, Zenon DEF MkdirOp, FixOwners, FixModeExec
<1>4. Step(wide, f, g) /\ (~g.err => ~f.err /\ p # Refused /\ FixedIn(g, wide, p, "dir"))
  BY <1>1, <1>3, MkdirOpIs
<1>5. FixedIn(g, wide, p, "dir") => FixedIn(g, fb, p, "dir")
  BY <1>1, <1>2 DEF FixedIn
<1>6. Spread(LinkerBase.path, f, g)
  BY <1>1, <1>4, StepSpreads
<1> QED BY <1>4, <1>5, <1>6

LEMMA NewFileLinkerOpIs ==
    ASSUME NEW f \in FsSet, Sound(f), NEW g, g = NewFileLinkerOp(f)
    PROVE  /\ Spread(LinkerBase.path, f, g)
           /\ ~g.err => ReadyIn(g) /\ ReadBase.path # Refused /\ WriteBase.path # Refused
<1> DEFINE a == MkdirOp(f, LinkerBase, LinkerBase.path)
           b == MkdirOp(a, WriteBase, WriteBase.path)
<1>0. g = MkdirOp(b, ReadBase, ReadBase.path)
  BY Zenon DEF NewFileLinkerOp
<1>1. Spread(LinkerBase.path, f, a)
  <2>1. IsPrefix(LinkerBase.path, LinkerBase.path)
    BY BasesAre, PrefixOfItself
  <2> QED BY <2>1, BasesAre, MkdirBelow
<1>2. a \in FsSet /\ Sound(a)
  BY <1>1 DEF Spread
<1> HIDE DEF a
<1>3. WriteBase.path \in PathSet /\ (WriteBase.path = Refused \/ IsPrefix(LinkerBase.path, WriteBase.path))
  BY BasesAre DEF SubsAre
<1>4. ReadBase.path \in PathSet /\ (ReadBase.path = Refused \/ IsPrefix(LinkerBase.path, ReadBase.path))
  BY BasesAre DEF SubsAre
<1>5. /\ Spread(LinkerBase.path, a, b)
      /\ ~b.err => WriteBase.path # Refused /\ FixedIn(b, WriteBase, WriteBase.path, "dir")
  BY <1>2, <1>3, BasesAre, MkdirBelow
<1>6. b \in FsSet /\ Sound(b)
  BY <1>5 DEF Spread
<1> HIDE DEF b
<1>7. /\ Spread(LinkerBase.path, b, g)
      /\ ~g.err => ~b.err /\ ReadBase.path # Refused /\ FixedIn(g, ReadBase, ReadBase.path, "dir")
  BY <1>0, <1>4, <1>6, BasesAre, MkdirBelow
<1>8. Spread(LinkerBase.path, f, g)
  <2>1. Spread(LinkerBase.path, f, b)
    BY <1>1, <1>5, SpreadsFollow
  <2> QED BY <1>7, <2>1, SpreadsFollow
<1>9. ASSUME ~g.err PROVE FixedIn(g, WriteBase, WriteBase.path, "dir")
  <2>1. ReadBase.path # Refused /\ WriteBase.path # Refused /\ FixedIn(b, WriteBase, WriteBase.path, "dir")
    BY <1>5, <1>7, <1>9
  <2>2. ~IsPrefix(ReadBase.path, WriteBase.path)
    BY <2>1, ReadAndWriteApart
  <2>3. Within(ReadBase.path, b, g)
    <3>1. IsPrefix(ReadBase.path, ReadBase.path)
      BY <1>4, PrefixOfItself
    <3>2. Step(ReadBase, b, g)
      BY <1>0, <1>4, <1>6, <3>1, BasesAre, MkdirOpIs
    <3>3. Spread(ReadBase.path, b, g)
      BY <3>2, StepSpreads
    <3> QED BY <1>6, <3>3, SpreadsWithin
  <2> QED BY <1>6, <2>1, <2>2, <2>3, DirsStay
<1> QED BY <1>5, <1>7, <1>8, <1>9 DEF ReadyIn

LEMMA NothingBelow ==
    ASSUME NEW p \in PathSet, NEW f \in FsSet, NEW q, NEW g, Trimmed(q, f, g), Below(p, f) = {}
    PROVE  Below(p, g) = {}
<1>1. g \in FsSet /\ \A r \in DOMAIN g.names : r \in DOMAIN f.names
  BY DEF Trimmed
<1>2. \A r : r \notin Below(p, g)
  BY <1>1, BelowIs
<1> QED BY <1>2

LEMMA TrimsFollow ==
    ASSUME NEW p, NEW q, NEW base, base \in PathSet, p \in PathSet, q \in PathSet, IsPrefix(base, p), IsPrefix(base, q),
           NEW f \in FsSet, NEW g, NEW h, Trimmed(p, f, g), Trimmed(q, g, h)
    PROVE  Trimmed(base, f, h)
<1>1. DOMAIN f.names \subseteq PathSet
  BY FsIs
<1>2. \A r \in PathSet : IsPrefix(p, r) \/ IsPrefix(q, r) => IsPrefix(base, r)
  BY PrefixOfPrefix
<1> QED BY <1>1, <1>2 DEF Trimmed

LEMMA ClearOpIs ==
    ASSUME ReadBase.path # Refused, WriteBase.path # Refused, NEW f \in FsSet, Sound(f),
           NEW inRead, Closed(ReadBase.path, inRead), NEW inWrite, Closed(WriteBase.path, inWrite),
           NEW g, g = ClearOp(f, inRead, inWrite)
    PROVE  /\ Trimmed(LinkerBase.path, f, g)
           /\ ReadyIn(f) => ReadyIn(g)
           /\ ~g.err => Below(ReadBase.path, g) = {} /\ Below(WriteBase.path, g) = {}
<1> DEFINE R == ReadBase.path
           W == WriteBase.path
           r == RemoveContentsOp(f, R, inRead)
           s == [r EXCEPT !.err = FALSE, !.left = IF r.err THEN MaxCalls ELSE r.left]
           w == RemoveContentsOp(s, W, inWrite)
<1>0. g = [w EXCEPT !.err = r.err \/ w.err]
  BY Zenon DEF ClearOp
<1>1. /\ R \in PathSet /\ W \in PathSet /\ LinkerBase.path \in PathSet
      /\ IsPrefix(LinkerBase.path, R) /\ IsPrefix(LinkerBase.path, W)
  BY BasesAre DEF SubsAre
<1>2. ~IsPrefix(R, W) /\ ~IsPrefix(W, R)
  BY ReadAndWriteApart
<1>3. Closed(R, inRead) /\ Closed(W, inWrite)
  OBVIOUS
<1> HIDE DEF R, W
<1>4. /\ Trimmed(R, f, r) /\ (R \in DOMAIN f.names => R \in DOMAIN r.names)
      /\ ~r.err => Below(R, r) = {}
  BY <1>1, <1>3, RemoveContentsOpIs
<1>5. r \in FsSet /\ Sound(r)
  BY <1>4 DEF Trimmed
<1> HIDE DEF r
<1>6. s \in FsSet /\ Same(r, s)
  BY <1>5, FileBaseAssumption DEF FsSet, Same
<1> HIDE DEF s
<1>7. Trimmed(W, r, s)
  BY <1>5, <1>6, SameTrims
<1>8. Sound(s)
  BY <1>7 DEF Trimmed
<1>9. /\ Trimmed(W, s, w) /\ (W \in DOMAIN s.names => W \in DOMAIN w.names)
      /\ ~w.err => Below(W, w) = {}
  BY <1>1, <1>3, <1>6, <1>8, RemoveContentsOpIs
<1>10. w \in FsSet /\ Sound(w)
  BY <1>9 DEF Trimmed
<1> HIDE DEF w
<1>11. g \in FsSet /\ Same(w, g) /\ (~g.err => ~r.err /\ ~w.err)
  <2> DEFINE e == r.err \/ w.err
  <2>1. e \in BOOLEAN /\ g = [w EXCEPT !.err = e] /\ (~e => ~r.err /\ ~w.err)
    BY <1>0
  <2> HIDE DEF e
  <2> QED BY <1>10, <2>1 DEF FsSet, Same
<1>12. Trimmed(W, w, g)
  BY <1>10, <1>11, SameTrims
<1>13. Trimmed(W, s, g)
  BY <1>9, <1>12 DEF Trimmed
<1>14. Trimmed(W, r, g)
  BY <1>6, <1>7, <1>13 DEF Trimmed, Same
<1>15. Trimmed(LinkerBase.path, f, g)
  BY <1>1, <1>4, <1>14, TrimsFollow
<1>16. ASSUME ReadyIn(f) PROVE ReadyIn(g)
  <2>1. FixedIn(f, ReadBase, R, "dir") /\ FixedIn(f, WriteBase, W, "dir")
    BY <1>16 DEF ReadyIn, R, W
  <2>2. R \in DOMAIN f.names /\ W \in DOMAIN f.names
    BY <2>1 DEF FixedIn, IsKind
  <2>3. R \in DOMAIN g.names
    <3>1. R \in DOMAIN r.names
      BY <1>4, <2>2
    <3> QED BY <1>2, <1>14, <3>1 DEF Trimmed
  <2>4. W \in DOMAIN g.names
    <3>1. W \in DOMAIN r.names
      BY <1>2, <1>4, <2>2 DEF Trimmed
    <3> QED BY <1>6, <1>9, <1>11, <3>1 DEF Same
  <2>5. Node(g, R) = Node(f, R) /\ Node(g, W) = Node(f, W)
    BY <1>15, <2>3, <2>4 DEF Trimmed, Node
  <2> QED BY <2>1, <2>3, <2>4, <2>5 DEF ReadyIn, FixedIn, IsKind, R, W
<1>17. ASSUME ~g.err PROVE Below(R, g) = {} /\ Below(W, g) = {}
  <2>1. Below(R, r) = {} /\ Below(W, w) = {}
    BY <1>4, <1>9, <1>11, <1>17
  <2> QED BY <1>1, <1>5, <1>10, <1>12, <1>14, <2>1, NothingBelow
<1> QED BY <1>15, <1>16, <1>17 DEF R, W

-----------------------------------------------------------------------------
(* The inductive invariant: the file system is a tree whose directories have *)
(* one name, and the linker's two directories are in it.                     *)
IInv ==
    /\ names \in NamesSet /\ nodes \in NodesSet /\ Sound(Now)
    /\ linker \in {"none", "made"} /\ ops \in 0 .. MaxOps
    /\ linker = "made" => ReadyIn(Now) /\ ReadBase.path # Refused /\ WriteBase.path # Refused

LEMMA InitIsGood == Init => IInv
<1> SUFFICES ASSUME Init PROVE IInv
  OBVIOUS
<1> DEFINE R == [path : Seq(STRING), kind : Kinds]
           D == {Tree[i].path : i \in DOMAIN Tree}
           n == Len(Tree)
<1>1. n \in Nat /\ DOMAIN Tree = 1 .. n /\ \A i \in DOMAIN Tree : Tree[i].path \in PathSet /\ Tree[i].kind \in Kinds
  <2>1. Tree \in Seq(R)
    BY FileBaseAssumption
  <2>2. n \in Nat /\ DOMAIN Tree = 1 .. n /\ \A i \in DOMAIN Tree : Tree[i] \in R
    <3> HIDE DEF R
    <3> QED BY <2>1, ElementOfSeq
  <2>3. Seq(STRING) \subseteq PathSet
    BY SeqMonotonic DEF PathSet, Strings
  <2> QED BY <2>2, <2>3
<1>2. /\ DOMAIN names = D
      /\ \A p \in D : names[p] = CHOOSE i \in DOMAIN Tree : Tree[i].path = p
      /\ names = [p \in D |-> names[p]]
  BY DEF Init
<1>3. D \in SUBSET PathSet /\ \A i \in DOMAIN Tree : Tree[i].path \in D
  BY <1>1
<1>4. \A p \in D : \E i \in DOMAIN Tree : Tree[i].path = p
  OBVIOUS
<1> HIDE DEF D
<1>5. \A p \in D : names[p] \in DOMAIN Tree /\ Tree[names[p]].path = p
  BY <1>2, <1>4
<1>6. names \in NamesSet
  <2>1. names \in [D -> Nat]
    BY <1>1, <1>2, <1>5
  <2> QED BY <1>3, <2>1, NamesAre
<1>7. DOMAIN nodes = DOMAIN Tree /\ \A i \in DOMAIN Tree : nodes[i].kind = Tree[i].kind
  BY DEF Init
<1>8. nodes \in NodesSet
  <2>1. nodes \in [1 .. n -> NodeSet]
    BY <1>1 DEF Init, NodeSet, Values
  <2> QED BY <1>1, <2>1, NodesAre
<1>9. Sound(Now)
  <2>1. \A p \in D : names[p] \in DOMAIN nodes
    BY <1>5, <1>7
  <2>2. ASSUME NEW p \in D, Len(p) > 1 PROVE IsKind(Now, Parent(p), "dir")
    <3>1. Len(Tree[names[p]].path) > 1 /\ names[p] \in DOMAIN Tree
      BY <1>5, <2>2
    <3>2. PICK j \in DOMAIN Tree : Tree[j] = [path |-> Front(p), kind |-> "dir"]
      BY <1>5, <3>1, FileBaseAssumption
    <3>3. Tree[j].path = Parent(p) /\ Tree[j].kind = "dir"
      BY <3>2 DEF Parent
    <3>4. Parent(p) \in D
      BY <1>3, <3>3
    <3>5. names[Parent(p)] = j
      <4>1. names[Parent(p)] \in DOMAIN Tree /\ Tree[names[Parent(p)]].path = Tree[j].path
        BY <1>5, <3>3, <3>4
      <4> QED BY <4>1, FileBaseAssumption
    <3> QED BY <1>2, <1>7, <3>3, <3>4, <3>5 DEF IsKind, Node, Now
  <2>3. \A p, q \in D : names[p] = names[q] => p = q
    BY <1>5
  <2> QED BY <1>2, <2>1, <2>2, <2>3 DEF Sound, Now
<1> QED BY <1>6, <1>8, <1>9, FileBaseAssumption DEF Init, IInv

(* Where an operation starts from. *)
LEMMA AtIs ==
    ASSUME IInv, NEW n \in Calls
    PROVE  /\ At(n) \in FsSet /\ Sound(At(n)) /\ At(n).names = names /\ At(n).nodes = nodes
           /\ linker = "made" => ReadyIn(At(n)) /\ ReadBase.path # Refused /\ WriteBase.path # Refused
<1>1. At(n) \in FsSet /\ At(n).names = names /\ At(n).nodes = nodes
  BY FileBaseAssumption DEF IInv, At, FsSet, Calls
<1>2. Now.names = names /\ Now.nodes = nodes
  BY DEF Now
<1> HIDE DEF At
<1>3. Sound(At(n))
  BY <1>1, <1>2 DEF IInv, Sound, IsKind, Node
<1>4. ReadyIn(Now) => ReadyIn(At(n))
  BY <1>1, <1>2 DEF ReadyIn, FixedIn, IsKind, Node
<1> QED BY <1>1, <1>3, <1>4 DEF IInv

(* Where it ends: the file system is g. *)
Ends(g) == names' = g.names /\ nodes' = g.nodes /\ ops' = ops + 1
Kept(base) == Within(base, Now, Now') /\ base \in {OwnBase.path, LinkerBase.path}

LEMMA EndIs ==
    ASSUME IInv, ops < MaxOps, NEW n \in Calls, NEW g \in FsSet, Sound(g), Ends(g),
           NEW base \in {OwnBase.path, LinkerBase.path}, Within(base, At(n), g),
           linker' \in {"none", "made"},
           linker' = "made" => ReadyIn(g) /\ ReadBase.path # Refused /\ WriteBase.path # Refused
    PROVE  IInv' /\ Kept(base)
<1>1. Now.names = names /\ Now.nodes = nodes /\ Now'.names = g.names /\ Now'.nodes = g.nodes
  BY DEF Now, Ends
<1>2. At(n).names = names /\ At(n).nodes = nodes
  BY AtIs
<1>3. g.names \in NamesSet /\ g.nodes \in NodesSet
  BY DEF FsSet
<1>4. Sound(Now)'
  BY <1>1 DEF Sound, IsKind, Node
<1>5. ReadyIn(g) => ReadyIn(Now)'
  BY <1>1 DEF ReadyIn, FixedIn, IsKind, Node
<1>6. ops' \in 0 .. MaxOps
  BY FileBaseAssumption DEF IInv, Ends
<1>7. IInv'
  BY <1>3, <1>4, <1>5, <1>6 DEF IInv, Ends
<1>8. Within(base, Now, Now')
  BY <1>1, <1>2 DEF Within, Linked
<1> QED BY <1>7, <1>8 DEF Kept

(* The linker's directories are outside the other base, and stay. *)
LEMMA OwnKeepsReady ==
    ASSUME IInv, NEW n \in Calls, NEW g, Within(OwnBase.path, At(n), g), linker = "made"
    PROVE  ReadyIn(g) /\ ReadBase.path # Refused /\ WriteBase.path # Refused
<1>1. Sound(At(n)) /\ ReadyIn(At(n)) /\ ReadBase.path # Refused /\ WriteBase.path # Refused
  BY AtIs
<1>2. ASSUME NEW q \in PathSet, IsPrefix(LinkerBase.path, q) PROVE ~IsPrefix(OwnBase.path, q)
  BY <1>2, BasesAre, PrefixesMeet, FileBaseAssumption
<1>3. ~IsPrefix(OwnBase.path, ReadBase.path) /\ ~IsPrefix(OwnBase.path, WriteBase.path)
  <2>1. /\ ReadBase.path \in PathSet /\ WriteBase.path \in PathSet
        /\ IsPrefix(LinkerBase.path, ReadBase.path) /\ IsPrefix(LinkerBase.path, WriteBase.path)
    BY <1>1, BasesAre DEF SubsAre
  <2> QED BY <1>2, <2>1
<1>4. FixedIn(g, ReadBase, ReadBase.path, "dir")
  BY <1>1, <1>3, DirsStay DEF ReadyIn
<1>5. FixedIn(g, WriteBase, WriteBase.path, "dir")
  BY <1>1, <1>3, DirsStay DEF ReadyIn
<1> QED BY <1>1, <1>4, <1>5 DEF ReadyIn

LEMMA OwnEnds ==
    ASSUME IInv, ops < MaxOps, NEW n \in Calls, NEW g \in FsSet, Sound(g), Ends(g), Within(OwnBase.path, At(n), g), UNCHANGED linker
    PROVE  IInv' /\ Kept(OwnBase.path)
<1>1. linker' \in {"none", "made"}
  BY DEF IInv
<1>2. linker' = "made" => ReadyIn(g) /\ ReadBase.path # Refused /\ WriteBase.path # Refused
  BY OwnKeepsReady
<1> QED BY <1>1, <1>2, EndIs

-----------------------------------------------------------------------------
(* The actions. *)
LEMMA DoneIs ==
    ASSUME NEW op, NEW fb, NEW p, NEW from, NEW g, Done(op, fb, p, from, g)
    PROVE  /\ Ends(g) /\ last'.op = op /\ last'.fb = fb /\ last'.path = p /\ last'.from = from
           /\ last'.ok => ~g.err
<1>1. last' = [op |-> op, fb |-> fb, path |-> p, from |-> from, ok |-> ~g.err] /\ Ends(g)
  BY DEF Done, Ends
<1>2. last'.ok => ~g.err
  <2> DEFINE ok == ~g.err
  <2>1. last' = [op |-> op, fb |-> fb, path |-> p, from |-> from, ok |-> ok]
    BY <1>1
  <2> HIDE DEF ok
  <2>2. last'.ok = ok
    BY <2>1
  <2> QED BY <2>2 DEF ok
<1> QED BY <1>1, <1>2

LEMMA FixedNow ==
    ASSUME NEW g, Ends(g), NEW fb, NEW p, NEW kind, FixedIn(g, fb, p, kind)
    PROVE  /\ IsKind(Now', p, kind) /\ Node(Now', p).gid = fb.gid
           /\ Node(Now', p).mode = IF kind = "dir" THEN ModeExec(fb) ELSE ModeFile(fb)
           /\ \A q : Node(Now', q) = Node(g, q)
<1>1. Now'.names = g.names /\ Now'.nodes = g.nodes
  BY DEF Ends, Now
<1> QED BY <1>1 DEF FixedIn, IsKind, Node, ModeOf

OwnIs(sub) == Own(sub) \in PathSet /\ (Own(sub) = Refused \/ IsPrefix(OwnBase.path, Own(sub)))

LEMMA OwnPaths == \A sub \in Subs : OwnIs(sub)
<1> TAKE sub \in Subs
<1>1. sub \in PathSet
  BY FileBaseAssumption, SeqMonotonic DEF PathSet, Strings
<1> QED BY <1>1, BasesAre, SubPaths DEF OwnIs, Own, SubsAre

(* What every action gives: the invariant, what it means, and where it was. *)
IsDone == last'.ok => AllIsDone
Goal == IInv' /\ IsDone /\ \E base : Kept(base)

LEMMA MkdirStep == IInv /\ ops < MaxOps /\ Mkdir => Goal
<1> SUFFICES ASSUME IInv, ops < MaxOps, Mkdir PROVE Goal
  OBVIOUS
<1>1. PICK n \in Calls, sub \in Subs :
          Done("mkdir", OwnBase, Own(sub), <<>>, MkdirOp(At(n), OwnBase, Own(sub))) /\ UNCHANGED linker
  BY Zenon DEF Mkdir
<1> DEFINE g == MkdirOp(At(n), OwnBase, Own(sub))
<1>2. /\ Ends(g) /\ last'.op = "mkdir" /\ last'.fb = OwnBase /\ last'.path = Own(sub) /\ (last'.ok => ~g.err)
  BY <1>1, DoneIs, Zenon
<1>3. Step(OwnBase, At(n), g) /\ (~g.err => FixedIn(g, OwnBase, Own(sub), "dir"))
  BY AtIs, OwnPaths, BasesAre, MkdirOpIs DEF OwnIs
<1> HIDE DEF g
<1>4. IInv' /\ Kept(OwnBase.path)
  <2>1. Spread(OwnBase.path, At(n), g)
    BY <1>3, StepSpreads
  <2>2. Within(OwnBase.path, At(n), g) /\ g \in FsSet /\ Sound(g)
    BY <2>1, AtIs, SpreadsWithin DEF Spread
  <2> QED BY <1>1, <1>2, <2>2, OwnEnds
<1>5. IsDone
  BY <1>2, <1>3, FixedNow DEF IsDone, AllIsDone, Fixed
<1> QED BY <1>4, <1>5 DEF Goal

LEMMA WriteFileStep == IInv /\ ops < MaxOps /\ WriteFile => Goal
<1> SUFFICES ASSUME IInv, ops < MaxOps, WriteFile PROVE Goal
  OBVIOUS
<1>1. PICK n \in Calls, sub \in Subs :
          Done("write", OwnBase, Own(sub), <<>>, WriteFileOp(At(n), OwnBase, Own(sub), "new")) /\ UNCHANGED linker
  BY Zenon DEF WriteFile
<1> DEFINE g == WriteFileOp(At(n), OwnBase, Own(sub), "new")
<1>2. /\ Ends(g) /\ last'.op = "write" /\ last'.fb = OwnBase /\ last'.path = Own(sub) /\ (last'.ok => ~g.err)
  BY <1>1, DoneIs, Zenon
<1>3. Step(OwnBase, At(n), g) /\ (~g.err => FixedIn(g, OwnBase, Own(sub), "file") /\ Node(g, Own(sub)).data = "new")
  <2>1. "new" \in Values
    BY DEF Values
  <2> QED BY <2>1, AtIs, OwnPaths, BasesAre, WriteFileOpIs DEF OwnIs
<1> HIDE DEF g
<1>4. IInv' /\ Kept(OwnBase.path)
  <2>1. Spread(OwnBase.path, At(n), g)
    BY <1>3, StepSpreads
  <2>2. Within(OwnBase.path, At(n), g) /\ g \in FsSet /\ Sound(g)
    BY <2>1, AtIs, SpreadsWithin DEF Spread
  <2> QED BY <1>1, <1>2, <2>2, OwnEnds
<1>5. IsDone
  BY <1>2, <1>3, FixedNow DEF IsDone, AllIsDone, Fixed
<1> QED BY <1>4, <1>5 DEF Goal

LEMMA CopyStep == IInv /\ ops < MaxOps /\ Copy => Goal
<1> SUFFICES ASSUME IInv, ops < MaxOps, Copy PROVE Goal
  OBVIOUS
<1>1. PICK n \in Calls, sub \in Subs, from \in Outside :
          Done("copy", OwnBase, Own(sub), from, CopyOp(At(n), OwnBase, from, Own(sub))) /\ UNCHANGED linker
  BY Zenon DEF Copy
<1> DEFINE g == CopyOp(At(n), OwnBase, from, Own(sub))
<1>2. /\ Ends(g) /\ last'.op = "copy" /\ last'.fb = OwnBase /\ last'.path = Own(sub) /\ last'.from = from
      /\ last'.ok => ~g.err
  BY <1>1, DoneIs, Zenon
<1>3. /\ Step(OwnBase, At(n), g)
      /\ ~g.err => FixedIn(g, OwnBase, Own(sub), "file") /\ CopyMade(At(n), from, Own(sub), g)
  BY AtIs, OwnPaths, BasesAre, CopyOpIs DEF OwnIs
<1> HIDE DEF g
<1>4. IInv' /\ Kept(OwnBase.path)
  <2>1. Spread(OwnBase.path, At(n), g)
    BY <1>3, StepSpreads
  <2>2. Within(OwnBase.path, At(n), g) /\ g \in FsSet /\ Sound(g)
    BY <2>1, AtIs, SpreadsWithin DEF Spread
  <2> QED BY <1>1, <1>2, <2>2, OwnEnds
<1>5. IsDone
  <2>1. names' = g.names /\ Node(At(n), from) = Node(Now, from)
    BY <1>2, AtIs DEF Ends, Node, Now
  <2>2. ASSUME last'.ok PROVE AllIsDone
    <3>1. Fixed(OwnBase, Own(sub), "file")'
      BY <1>2, <1>3, <2>2, FixedNow DEF Fixed
    <3>2. Node(Now', Own(sub)) = Node(g, Own(sub))
      BY <1>2, <1>3, <2>2, FixedNow
    <3>3. Node(Now', Own(sub)).data = IF names'[Own(sub)] = names'[from] THEN "nothing" ELSE Node(Now, from).data
      BY <1>2, <1>3, <2>1, <2>2, <3>2 DEF CopyMade
    <3> QED BY <1>2, <3>1, <3>3 DEF AllIsDone
  <2> QED BY <2>2 DEF IsDone
<1> QED BY <1>4, <1>5 DEF Goal

LEMMA CopyIntoStep == IInv /\ ops < MaxOps /\ CopyInto => Goal
<1> SUFFICES ASSUME IInv, ops < MaxOps, CopyInto PROVE Goal
  OBVIOUS
<1>1. PICK n \in Calls :
          Done("into", OwnBase, OwnBase.path, SourceDir, CopyIntoOp(At(n), OwnBase)) /\ UNCHANGED linker
  BY Zenon DEF CopyInto
<1> DEFINE g == CopyIntoOp(At(n), OwnBase)
<1>2. /\ Ends(g) /\ last'.op = "into" /\ last'.fb = OwnBase /\ last'.path = OwnBase.path /\ (last'.ok => ~g.err)
  <2>1. Done("into", OwnBase, OwnBase.path, SourceDir, g)
    BY <1>1
  <2> HIDE DEF g
  <2> QED BY <2>1, DoneIs
<1>3. /\ Step(OwnBase, At(n), g)
      /\ ~g.err => Filled(OwnBase, At(n), Len(Source), g) /\ \A i \in DOMAIN Source : Copied(g, OwnBase, Source[i])
  BY AtIs, BasesAre, CopyIntoOpIs
<1> HIDE DEF g
<1>4. IInv' /\ Kept(OwnBase.path)
  <2>1. Spread(OwnBase.path, At(n), g)
    BY <1>3, StepSpreads
  <2>2. Within(OwnBase.path, At(n), g) /\ g \in FsSet /\ Sound(g)
    BY <2>1, AtIs, SpreadsWithin DEF Spread
  <2> QED BY <1>1, <1>2, <2>2, OwnEnds
<1>5. IsDone
  <2> SUFFICES ASSUME last'.ok, NEW i \in DOMAIN Source
      PROVE  /\ Fixed(OwnBase, Target(i), Source[i].kind)'
             /\ Source[i].kind = "file" /\ Original(i) \in DOMAIN names /\ Apart(i)' =>
                 Node(Now', Target(i)).data = Node(Now, Original(i)).data
    BY <1>2 DEF IsDone, AllIsDone
  <2>1. ~g.err /\ FixedIn(g, OwnBase, Target(i), Source[i].kind)
    BY <1>2, <1>3 DEF Copied, Target
  <2>2. Fixed(OwnBase, Target(i), Source[i].kind)'
    BY <1>2, <2>1, FixedNow DEF Fixed
  <2>3. ASSUME Source[i].kind = "file", Original(i) \in DOMAIN names, Apart(i)'
        PROVE  Node(Now', Target(i)).data = Node(Now, Original(i)).data
    <3>1. /\ names' = g.names /\ Node(At(n), Original(i)) = Node(Now, Original(i)) /\ At(n).names = names
      BY <1>2, AtIs DEF Ends, Node, Now
    <3>2. g.names[Original(i)] = names[Original(i)]
      BY <1>3, <2>3, <3>1 DEF Step, Grown
    <3>3. DOMAIN Source = 1 .. Len(Source) /\ \A j \in 1 .. Len(Source) : PathOf(OwnBase, j) = Target(j)
      BY SourceIs DEF PathOf, Target
    <3>4. Untouched(OwnBase, Len(Source), g, names[Original(i)]) /\ Alone(OwnBase, Len(Source), g, i)
      BY <2>3, <3>1, <3>2, <3>3 DEF Apart, Untouched, Alone
    <3>5. Node(g, Target(i)).data = Node(Now, Original(i)).data
      BY <1>3, <2>1, <2>3, <3>1, <3>3, <3>4 DEF Filled
    <3>6. Node(Now', Target(i)) = Node(g, Target(i))
      BY <1>2, <2>1, FixedNow
    <3> QED BY <3>5, <3>6
  <2> QED BY <2>2, <2>3
<1> QED BY <1>4, <1>5 DEF Goal

LEMMA LinkIntoStep == IInv /\ ops < MaxOps /\ LinkInto => Goal
<1> SUFFICES ASSUME IInv, ops < MaxOps, LinkInto PROVE Goal
  OBVIOUS
<1>1. PICK n \in Calls, sub \in Subs, from \in Outside :
          Done("link", OwnBase, Own(sub), from, LinkIntoOp(At(n), from, Own(sub))) /\ UNCHANGED linker
  BY Zenon DEF LinkInto
<1> DEFINE g == LinkIntoOp(At(n), from, Own(sub))
<1>2. Ends(g) /\ last'.op = "link" /\ last'.path = Own(sub) /\ last'.from = from /\ (last'.ok => ~g.err)
  BY <1>1, DoneIs, Zenon
<1>3. Named(OwnBase.path, At(n), g) /\ (~g.err => g.names[Own(sub)] = g.names[from])
  BY AtIs, OwnPaths, BasesAre, LinkIntoOpIs DEF OwnIs
<1> HIDE DEF g
<1>4. IInv' /\ Kept(OwnBase.path)
  <2>1. IsPrefix(OwnBase.path, OwnBase.path)
    BY BasesAre, PrefixOfItself
  <2>2. Within(OwnBase.path, At(n), g)
    BY <1>3, <2>1, AtIs, BasesAre, NamesWithin
  <2>3. g \in FsSet /\ Sound(g)
    BY <1>3 DEF Named
  <2> QED BY <1>1, <1>2, <2>2, <2>3, OwnEnds
<1>5. IsDone
  BY <1>2, <1>3 DEF IsDone, AllIsDone, Ends
<1> QED BY <1>4, <1>5 DEF Goal

LEMMA RemoveFileStep == IInv /\ ops < MaxOps /\ RemoveFile => Goal
<1> SUFFICES ASSUME IInv, ops < MaxOps, RemoveFile PROVE Goal
  OBVIOUS
<1>1. PICK n \in Calls, sub \in Subs :
          Done("remove", OwnBase, Own(sub), <<>>, RemoveOp(At(n), Own(sub))) /\ UNCHANGED linker
  BY Zenon DEF RemoveFile
<1> DEFINE g == RemoveOp(At(n), Own(sub))
<1>2. Ends(g) /\ last'.op = "remove" /\ last'.path = Own(sub) /\ (last'.ok => ~g.err)
  BY <1>1, DoneIs, Zenon
<1>3. Trimmed(OwnBase.path, At(n), g) /\ (~g.err => Own(sub) \notin DOMAIN g.names)
  BY AtIs, OwnPaths, BasesAre, RemoveOpIs DEF OwnIs
<1> HIDE DEF g
<1>4. IInv' /\ Kept(OwnBase.path)
  <2>1. IsPrefix(OwnBase.path, OwnBase.path)
    BY BasesAre, PrefixOfItself
  <2>2. Within(OwnBase.path, At(n), g)
    BY <1>3, <2>1, AtIs, BasesAre, TrimsWithin
  <2>3. g \in FsSet /\ Sound(g)
    BY <1>3 DEF Trimmed
  <2> QED BY <1>1, <1>2, <2>2, <2>3, OwnEnds
<1>5. IsDone
  BY <1>2, <1>3 DEF IsDone, AllIsDone, Ends
<1> QED BY <1>4, <1>5 DEF Goal

LEMMA BelowNow ==
    ASSUME NEW g, Ends(g), NEW p, Below(p, g) = {}
    PROVE  Below(p, Now') = {}
<1>1. Now'.names = g.names
  BY DEF Ends, Now
<1> QED BY <1>1 DEF Below

LEMMA RemoveContentsStep == IInv /\ ops < MaxOps /\ RemoveContents => Goal
<1> SUFFICES ASSUME IInv, ops < MaxOps, RemoveContents PROVE Goal
  OBVIOUS
<1>1. PICK sub \in Subs : \E kept \in Stays(Now, Own(sub)), n \in Calls :
          Done("empty", OwnBase, Own(sub), <<>>, RemoveContentsOp(At(n), Own(sub), kept)) /\ UNCHANGED linker
  BY Zenon DEF RemoveContents
<1>2. PICK kept \in Stays(Now, Own(sub)), n \in Calls :
          Done("empty", OwnBase, Own(sub), <<>>, RemoveContentsOp(At(n), Own(sub), kept)) /\ UNCHANGED linker
  BY <1>1
<1> DEFINE g == RemoveContentsOp(At(n), Own(sub), kept)
<1>3. Ends(g) /\ last'.op = "empty" /\ last'.path = Own(sub) /\ (last'.ok => ~g.err)
  BY <1>2, DoneIs, Zenon
<1>4. Own(sub) \in PathSet /\ (Own(sub) = Refused \/ IsPrefix(OwnBase.path, Own(sub)))
  BY OwnPaths DEF OwnIs
<1>5. /\ Trimmed(Own(sub), At(n), g) /\ (At(n).err => g.err)
      /\ ~g.err => Below(Own(sub), g) = {}
  BY <1>4, AtIs, StaysIsClosed, RemoveContentsOpIs
<1>6. Own(sub) = Refused => g = [At(n) EXCEPT !.err = TRUE]
  <2> SUFFICES ASSUME Own(sub) = Refused PROVE g = [At(n) EXCEPT !.err = TRUE]
    OBVIOUS
  <2> DEFINE a == [At(n) EXCEPT !.err = TRUE]
             b == Do(a, IsKind(At(n), Own(sub), "dir"), At(n))
  <2>1. Checked(At(n), Own(sub)) = a
    BY Zenon DEF Checked
  <2>2. a.err = TRUE
    BY AtIs DEF FsSet
  <2> HIDE DEF a
  <2>3. b = a
    BY <2>2, Zenon DEF Do
  <2>4. g = IF b.err THEN b ELSE [Without(b, Below(Own(sub), b) \ kept) EXCEPT !.err = Below(Own(sub), b) \cap kept # {}]
    BY <2>1, Zenon DEF RemoveContentsOp
  <2> HIDE DEF b, g
  <2> QED BY <2>2, <2>3, <2>4 DEF a
<1> HIDE DEF g
<1>7. IInv' /\ Kept(OwnBase.path)
  <2>1. Within(OwnBase.path, At(n), g)
    <3>1. CASE Own(sub) = Refused
      <4>1. g.names = At(n).names /\ g.nodes = At(n).nodes
        BY <1>6, <3>1, AtIs DEF FsSet
      <4> QED BY <4>1 DEF Within
    <3>2. CASE Own(sub) # Refused
      BY <1>4, <1>5, <3>2, AtIs, BasesAre, TrimsWithin
    <3> QED BY <3>1, <3>2
  <2>2. g \in FsSet /\ Sound(g)
    BY <1>5 DEF Trimmed
  <2> QED BY <1>2, <1>3, <2>1, <2>2, OwnEnds
<1>8. IsDone
  <2>1. last'.ok => Below(Own(sub), Now') = {}
    BY <1>3, <1>5, BelowNow
  <2> QED BY <1>3, <2>1 DEF IsDone, AllIsDone
<1> QED BY <1>7, <1>8 DEF Goal

LEMMA NewFileLinkerStep == IInv /\ ops < MaxOps /\ NewFileLinker => Goal
<1> SUFFICES ASSUME IInv, ops < MaxOps, NewFileLinker PROVE Goal
  OBVIOUS
<1>1. PICK n \in Calls : Done("linker", LinkerBase, LinkerBase.path, <<>>, NewFileLinkerOp(At(n)))
  BY Zenon DEF NewFileLinker
<1> DEFINE g == NewFileLinkerOp(At(n))
<1>2. Ends(g) /\ last'.op = "linker" /\ (last'.ok => ~g.err)
  <2>1. Done("linker", LinkerBase, LinkerBase.path, <<>>, g)
    BY <1>1
  <2> HIDE DEF g
  <2> QED BY <2>1, DoneIs
<1>3. /\ Spread(LinkerBase.path, At(n), g)
      /\ ~g.err => ReadyIn(g) /\ ReadBase.path # Refused /\ WriteBase.path # Refused
  BY AtIs, NewFileLinkerOpIs
<1> HIDE DEF g
<1>4. linker' = IF last'.ok THEN "made" ELSE "none"
  BY Zenon DEF NewFileLinker
<1>5. /\ linker' \in {"none", "made"}
      /\ linker' = "made" => ReadyIn(g) /\ ReadBase.path # Refused /\ WriteBase.path # Refused
  BY <1>2, <1>3, <1>4
<1>6. Within(LinkerBase.path, At(n), g) /\ g \in FsSet /\ Sound(g)
  BY <1>3, AtIs, SpreadsWithin DEF Spread
<1>7. IInv' /\ Kept(LinkerBase.path)
  BY <1>2, <1>5, <1>6, EndIs
<1>8. IsDone
  BY <1>2 DEF IsDone, AllIsDone
<1> QED BY <1>7, <1>8 DEF Goal

LEMMA LinkFileStep == IInv /\ ops < MaxOps /\ LinkFile => Goal
<1> SUFFICES ASSUME IInv, ops < MaxOps, LinkFile PROVE Goal
  OBVIOUS
<1> DEFINE sub == <<"f">>
<1>1. PICK n \in Calls, from \in Outside, fb \in {ReadBase, WriteBase} :
          /\ linker = "made" /\ UNCHANGED linker
          /\ Done("link", fb, FullPath(fb.path, sub), from, LinkIntoOp(At(n), from, FullPath(fb.path, sub)))
  BY Zenon DEF LinkFile
<1>2. sub \in PathSet
  BY Literals
<1> HIDE DEF sub
<1> DEFINE p == FullPath(fb.path, sub)
           g == LinkIntoOp(At(n), from, p)
<1>3. Ends(g) /\ last'.op = "link" /\ last'.path = p /\ last'.from = from /\ (last'.ok => ~g.err)
  <2>1. Done("link", fb, p, from, g)
    BY <1>1
  <2> HIDE DEF g, p
  <2> QED BY <2>1, DoneIs
<1>4. ReadBase.path # Refused /\ WriteBase.path # Refused /\ ReadyIn(At(n))
  BY <1>1, AtIs
<1>5. fb.path \in PathSet /\ IsPrefix(LinkerBase.path, fb.path)
  BY <1>4, BasesAre DEF SubsAre
<1>6. p \in PathSet /\ (p = Refused \/ IsPrefix(fb.path, p))
  BY <1>2, <1>5, SubPaths DEF SubsAre
<1> HIDE DEF p
<1>7. Named(fb.path, At(n), g) /\ (~g.err => g.names[p] = g.names[from])
  BY <1>5, <1>6, AtIs, LinkIntoOpIs
<1> HIDE DEF g
<1>8. Within(LinkerBase.path, At(n), g) /\ g \in FsSet /\ Sound(g)
  BY <1>5, <1>7, AtIs, BasesAre, NamesWithin DEF Named
<1>9. ReadyIn(g)
  BY <1>4, <1>7 DEF Named, ReadyIn, FixedIn, IsKind, Node
<1>10. IInv' /\ Kept(LinkerBase.path)
  <2>1. linker' \in {"none", "made"}
    BY <1>1
  <2> QED BY <1>3, <1>4, <1>8, <1>9, <2>1, EndIs
<1>11. IsDone
  BY <1>3, <1>7 DEF IsDone, AllIsDone, Ends
<1> QED BY <1>10, <1>11 DEF Goal

LEMMA ClearStep == IInv /\ ops < MaxOps /\ Clear => Goal
<1> SUFFICES ASSUME IInv, ops < MaxOps, Clear PROVE Goal
  OBVIOUS
<1>1. PICK inRead \in Stays(Now, ReadBase.path), inWrite \in Stays(Now, WriteBase.path), n \in Calls :
          Done("clear", ReadBase, ReadBase.path, <<>>, ClearOp(At(n), inRead, inWrite))
  BY Zenon DEF Clear
<1>2. linker = "made" /\ UNCHANGED linker
  BY Zenon DEF Clear
<1> DEFINE g == ClearOp(At(n), inRead, inWrite)
<1>3. Ends(g) /\ last'.op = "clear" /\ (last'.ok => ~g.err)
  <2>1. Done("clear", ReadBase, ReadBase.path, <<>>, g)
    BY <1>1
  <2> HIDE DEF g
  <2> QED BY <2>1, DoneIs
<1>4. ReadBase.path # Refused /\ WriteBase.path # Refused /\ ReadyIn(At(n))
  BY <1>2, AtIs
<1>5. Closed(ReadBase.path, inRead) /\ Closed(WriteBase.path, inWrite)
  BY StaysIsClosed
<1>6. /\ Trimmed(LinkerBase.path, At(n), g)
      /\ ReadyIn(At(n)) => ReadyIn(g)
      /\ ~g.err => Below(ReadBase.path, g) = {} /\ Below(WriteBase.path, g) = {}
  BY <1>4, <1>5, AtIs, ClearOpIs
<1> HIDE DEF g
<1>7. Within(LinkerBase.path, At(n), g) /\ g \in FsSet /\ Sound(g)
  <2>1. IsPrefix(LinkerBase.path, LinkerBase.path)
    BY BasesAre, PrefixOfItself
  <2> QED BY <1>6, <2>1, AtIs, BasesAre, TrimsWithin DEF Trimmed
<1>8. IInv' /\ Kept(LinkerBase.path)
  <2>1. linker' \in {"none", "made"}
    BY <1>2
  <2> QED BY <1>3, <1>4, <1>6, <1>7, <2>1, EndIs
<1>9. IsDone
  <2>1. last'.ok => Below(ReadBase.path, Now') = {} /\ Below(WriteBase.path, Now') = {}
    BY <1>3, <1>6, BelowNow
  <2> QED BY <1>3, <2>1 DEF IsDone, AllIsDone
<1> QED BY <1>8, <1>9 DEF Goal

LEMMA NextStep == IInv /\ Next => Goal
<1> SUFFICES ASSUME IInv, Next PROVE Goal
  OBVIOUS
<1>1. ops < MaxOps /\ (Mkdir \/ WriteFile \/ Copy \/ LinkInto \/ RemoveFile \/ RemoveContents \/ CopyInto
                       \/ NewFileLinker \/ LinkFile \/ Clear)
  BY Zenon DEF Next
<1> QED BY <1>1, MkdirStep, WriteFileStep, CopyStep, LinkIntoStep, RemoveFileStep, RemoveContentsStep, CopyIntoStep,
           NewFileLinkerStep, LinkFileStep, ClearStep, Zenon

-----------------------------------------------------------------------------
(* The theorems. *)
LEMMA InvHolds == IInv => Inv
<1> SUFFICES ASSUME IInv PROVE Inv
  OBVIOUS
<1>1. TypeOK
  <2>1. PICK k \in Nat : DOMAIN nodes = 1 .. k
    BY DEF IInv, NodesSet
  <2>2. Cardinality(1 .. k) = k
    <3>1. Cardinality(1 .. k) = IF 1 > k THEN 0 ELSE k - 1 + 1
      BY FS_Interval
    <3> QED BY <3>1
  <2>3. DOMAIN nodes = 1 .. Cardinality(DOMAIN nodes)
    BY <2>1, <2>2
  <2>4. Now.names = names /\ Now.nodes = nodes
    BY DEF Now
  <2>5. \A p \in DOMAIN names :
            /\ names[p] \in DOMAIN nodes
            /\ Len(p) > 1 => IsKind(Now, Parent(p), "dir")
            /\ \A q \in DOMAIN names : names[q] = names[p] /\ Node(Now, p).kind = "dir" => q = p
    BY <2>4 DEF IInv, Sound
  <2> QED BY <2>3, <2>5 DEF IInv, TypeOK
<1>2. LinkerReady
  <2> SUFFICES ASSUME linker = "made"
      PROVE  /\ Fixed(ReadBase, ReadBase.path, "dir") /\ Node(Now, ReadBase.path).mode = "750"
             /\ Fixed(WriteBase, WriteBase.path, "dir") /\ Node(Now, WriteBase.path).mode = "770"
    BY DEF LinkerReady
  <2>1. ReadyIn(Now)
    BY DEF IInv
  <2>2. ModeExec(ReadBase) = "750" /\ ModeExec(WriteBase) = "770"
    BY BasesAre DEF ModeExec
  <2> QED BY <2>1, <2>2 DEF ReadyIn, FixedIn, Fixed, ModeOf
<1> QED BY <1>1, <1>2 DEF Inv

LEMMA Stutters == IInv /\ UNCHANGED vars => IInv'
<1> SUFFICES ASSUME IInv, UNCHANGED vars PROVE IInv'
  OBVIOUS
<1>1. names' = names /\ nodes' = nodes /\ linker' = linker /\ ops' = ops
  BY DEF vars
<1>2. Now' = Now
  BY <1>1 DEF Now
<1> QED BY <1>1, <1>2 DEF IInv

(* In every state the entries are a tree of directories, each with its node  *)
(* and a directory with one name, and a linker that was made has its two     *)
(* directories, which the sandboxes' group reaches, and writes only in the   *)
(* second; whatever fails, and whatever the other base does.                 *)
THEOREM FileBaseInv == Spec => []Inv
<1>1. Init => IInv
  BY InitIsGood
<1>2. IInv /\ [Next]_vars => IInv'
  BY NextStep, Stutters DEF Goal
<1>3. IInv => Inv
  BY InvHolds
<1> QED BY <1>1, <1>2, <1>3, PTL DEF Spec

(* An operation that returns no error has done all of what it promises:      *)
(* every system call of it, on every file of a copied directory, owner and   *)
(* mode included, and a copy holds what its source held before.  A copy onto *)
(* a hard link of its source is the exception that the property names: it    *)
(* empties the file and returns no error (files.go 130-142).                 *)
THEOREM FileBaseOkMeansDone == Spec => OkMeansDone
<1>1. Init => IInv
  BY InitIsGood
<1>2. IInv /\ [Next]_vars => IInv'
  BY NextStep, Stutters DEF Goal
<1>3. IInv /\ [Next]_vars => [last'.ok => AllIsDone]_vars
  BY NextStep DEF Goal, IsDone
<1> QED BY <1>1, <1>2, <1>3, PTL DEF Spec, OkMeansDone

(* The step of OutsideKept. *)
Outer ==
    /\ \A p \in DOMAIN names : ~Inside(p) =>
        /\ p \in DOMAIN names' /\ names'[p] = names[p]
        /\ nodes'[names[p]] = nodes[names[p]] \/ LinkedInside(names[p])
    /\ \A p \in DOMAIN names' \ DOMAIN names :
        ~Inside(p) => \E fb \in {OwnBase, LinkerBase} : IsStrictPrefix(p, fb.path)

LEMMA OuterKept == \A base : Kept(base) => Outer
<1> SUFFICES ASSUME NEW base, Kept(base) PROVE Outer
  OBVIOUS
<1>1. Now.names = names /\ Now.nodes = nodes /\ Now'.names = names' /\ Now'.nodes = nodes'
  BY DEF Now
<1>2. PICK fb \in {OwnBase, LinkerBase} : base = fb.path
  BY DEF Kept
<1>3. \A p : IsPrefix(base, p) => Inside(p)
  BY <1>2 DEF Inside
<1>4. \A n : Linked(base, Now, n) => LinkedInside(n)
  BY <1>1, <1>3 DEF Linked, LinkedInside
<1>5. Within(base, Now, Now')
  BY DEF Kept
<1> QED BY <1>1, <1>2, <1>3, <1>4, <1>5 DEF Within, Outer

(* Outside the bases nothing is lost, replaced or made, save the way to a    *)
(* base, and no file changes that is not linked into one.                    *)
THEOREM FileBaseOutsideKept == Spec => OutsideKept
<1>1. Init => IInv
  BY InitIsGood
<1>2. IInv /\ [Next]_vars => IInv'
  BY NextStep, Stutters DEF Goal
<1>3. IInv /\ [Next]_vars => [Outer]_vars
  BY NextStep, OuterKept DEF Goal
<1>4. [][Outer]_vars => OutsideKept
  BY DEF Outer, OutsideKept
<1> QED BY <1>1, <1>2, <1>3, <1>4, PTL DEF Spec

=============================================================================

----------------------------- MODULE DiffProofs -----------------------------
(* Proofs about Diff, for files of any length and any flags: that the rules  *)
(* are those the flags ask for, that the positions reported are real, and    *)
(* that the loop over the tokens accepts exactly the outputs that have the   *)
(* reference's. Scanning is what every scanner has read, Flagging what the   *)
(* flags so far mean, Matching how many tokens have been compared.           *)
EXTENDS Diff, FiniteSetTheorems, SequenceTheorems, WellFoundedInduction, TLAPS

(* The least number of a set of numbers: induction on the bytes of a file   *)
(* and on its flags. *)
LEMMA LeastNumber ==
    ASSUME NEW T, T \subseteq Nat, T # {}
    PROVE  \E m \in T : \A k \in T : m <= k
<1> DEFINE R == {ss \in Nat \X Nat : ss[1] < ss[2]}
<1>1. IsWellFoundedOn(R, Nat)
  BY NatLessThanWellFounded DEF OpToRel
<1>2. \A i, j \in Nat : i < j => <<i, j>> \in R
  OBVIOUS
<1> HIDE DEF R
<1>3. PICK m \in T : \A k \in T : ~ (<<k, m>> \in R)
  BY <1>1, WFMin
<1>4. ASSUME NEW k \in T PROVE m <= k
  <2>1. ~ (k < m)
    BY <1>2, <1>3
  <2>2. k \in Nat /\ m \in Nat
    OBVIOUS
  <2> QED BY <2>1, <2>2
<1> QED BY <1>4

LEMMA FromZeroOn ==
    ASSUME NEW n \in Nat, NEW Good, 0 \in Good,
           \A k \in 1 .. n : k - 1 \in Good => k \in Good
    PROVE  \A k \in 0 .. n : k \in Good
<1> DEFINE Bad == {k \in 0 .. n : k \notin Good}
<1>1. SUFFICES ASSUME Bad # {} PROVE FALSE
  OBVIOUS
<1>2. PICK m \in Bad : \A k \in Bad : m <= k
  <2>1. Bad \subseteq Nat
    OBVIOUS
  <2> HIDE DEF Bad
  <2> QED BY <1>1, <2>1, LeastNumber
<1>3. m \in 1 .. n /\ m - 1 \in 0 .. n /\ m - 1 \notin Bad
  BY <1>2
<1> QED BY <1>2, <1>3

-----------------------------------------------------------------------------
(* Lines and columns. *)
LEMMA SpaceIs == \A c \in Chars : isSpace[c] = (c \in {"sp", "nl"}) /\ isSpace[c] \in BOOLEAN
BY DEF isSpace

LEMMA MaxIs ==
    ASSUME NEW T, T \subseteq Int, NEW m \in T, \A y \in T : m >= y
    PROVE  Max(T) = m
<1>1. \A x \in T : (\A y \in T : x >= y) => x = m
  BY SMT
<1> QED BY <1>1 DEF Max

Newlines(t, p) == {i \in 1 .. p : t[i] = "nl"}
LastNewline(t, p) == Max(Newlines(t, p) \cup {0})
Pos(t, p) == <<1 + Cardinality(Newlines(t, p)), 1 + p - LastNewline(t, p)>>

LEMMA NewlinesNext ==
    ASSUME NEW t \in Seq(Chars), NEW p \in Nat
    PROVE  /\ Newlines(t, p + 1) = Newlines(t, p) \cup (IF t[p + 1] = "nl" THEN {p + 1} ELSE {})
           /\ p + 1 \notin Newlines(t, p)
           /\ IsFiniteSet(Newlines(t, p)) /\ Cardinality(Newlines(t, p)) \in Nat
           /\ Newlines(t, p) \subseteq 1 .. p
<1>1. Newlines(t, p) \subseteq 1 .. p
  BY DEF Newlines
<1>2. IsFiniteSet(1 .. p)
  BY FS_Interval
<1>3. IsFiniteSet(Newlines(t, p)) /\ Cardinality(Newlines(t, p)) \in Nat
  BY <1>1, <1>2, FS_Subset, FS_CardinalityType
<1>4. \A i : i \in 1 .. p + 1 <=> (i \in 1 .. p \/ i = p + 1)
  OBVIOUS
<1>5. Newlines(t, p + 1) = Newlines(t, p) \cup (IF t[p + 1] = "nl" THEN {p + 1} ELSE {})
  BY <1>4 DEF Newlines
<1>6. p + 1 \notin Newlines(t, p)
  BY <1>1
<1> QED BY <1>1, <1>3, <1>5, <1>6

LEMMA LastNewlineIs ==
    ASSUME NEW t \in Seq(Chars), NEW p \in Nat
    PROVE  LastNewline(t, p) \in Nat
<1> DEFINE Good == {q \in Nat : LastNewline(t, q) \in Nat}
<1>1. 0 \in Good
  <2>1. Newlines(t, 0) = {}
    BY DEF Newlines
  <2>2. Max({0}) = 0
    BY MaxIs
  <2>3. Newlines(t, 0) \cup {0} = {0}
    BY <2>1
  <2>4. LastNewline(t, 0) = 0
    BY <2>2, <2>3 DEF LastNewline
  <2> QED BY <2>4
<1>2. ASSUME NEW q \in 1 .. p, q - 1 \in Good PROVE q \in Good
  <2> DEFINE T == Newlines(t, q) \cup {0}
  <2>1. q - 1 \in Nat /\ (q - 1) + 1 = q
    OBVIOUS
  <2>2. /\ Newlines(t, q) = Newlines(t, q - 1) \cup (IF t[q] = "nl" THEN {q} ELSE {})
        /\ Newlines(t, q - 1) \subseteq 1 .. q - 1
    BY <2>1, NewlinesNext
  <2>3. CASE t[q] = "nl"
    <3>1. T \subseteq Int /\ q \in T /\ \A y \in T : q >= y
      BY <2>2, <2>3
    <3> HIDE DEF T
    <3>2. Max(T) = q
      BY <3>1, MaxIs
    <3> QED BY <3>2 DEF LastNewline, T
  <2>4. CASE t[q] # "nl"
    <3>1. Newlines(t, q) = Newlines(t, q - 1)
      BY <2>2, <2>4
    <3> QED BY <1>2, <3>1 DEF LastNewline
  <2> QED BY <2>3, <2>4
<1> HIDE DEF Good
<1>3. p \in 0 .. p
  OBVIOUS
<1>4. p \in Good
  BY <1>1, <1>2, <1>3, FromZeroOn
<1> QED BY <1>4 DEF Good

LEMMA PosStart == \A t : Pos(t, 0) = <<1, 1>>
<1> TAKE t
<1>1. Newlines(t, 0) = {}
  BY DEF Newlines
<1>2. Max({0}) = 0
  BY MaxIs
<1>3. LastNewline(t, 0) = 0
  BY <1>1, <1>2 DEF LastNewline
<1>4. Cardinality(Newlines(t, 0)) = 0
  BY <1>1, FS_EmptySet
<1> QED BY <1>3, <1>4 DEF Pos

LEMMA PosNext ==
    ASSUME NEW t \in Seq(Chars), NEW p \in Nat, NEW line, NEW col, <<line, col>> = Pos(t, p)
    PROVE  Pos(t, p + 1) = IF t[p + 1] = "nl" THEN <<line + 1, 1>> ELSE <<line, col + 1>>
<1>1. line = 1 + Cardinality(Newlines(t, p)) /\ col = 1 + p - LastNewline(t, p)
  BY DEF Pos
<1>2. /\ Newlines(t, p + 1) = Newlines(t, p) \cup (IF t[p + 1] = "nl" THEN {p + 1} ELSE {})
      /\ p + 1 \notin Newlines(t, p) /\ IsFiniteSet(Newlines(t, p)) /\ Cardinality(Newlines(t, p)) \in Nat
      /\ Newlines(t, p) \subseteq 1 .. p
  BY NewlinesNext
<1>3. LastNewline(t, p) \in Nat
  BY LastNewlineIs
<1>4. CASE t[p + 1] = "nl"
  <2> DEFINE T == Newlines(t, p + 1) \cup {0}
  <2>1. T \subseteq Int /\ p + 1 \in T /\ \A y \in T : p + 1 >= y
    BY <1>2, <1>4
  <2> HIDE DEF T
  <2>2. Max(T) = p + 1
    BY <2>1, MaxIs
  <2>3. LastNewline(t, p + 1) = p + 1
    BY <2>2 DEF LastNewline, T
  <2>4. Cardinality(Newlines(t, p + 1)) = Cardinality(Newlines(t, p)) + 1
    BY <1>2, <1>4, FS_AddElement
  <2>5. 1 + Cardinality(Newlines(t, p + 1)) = line + 1
    BY <1>1, <1>2, <2>4
  <2>6. 1 + (p + 1) - LastNewline(t, p + 1) = 1
    BY <2>3
  <2> QED BY <1>4, <2>5, <2>6 DEF Pos
<1>5. CASE t[p + 1] # "nl"
  <2>1. Newlines(t, p + 1) = Newlines(t, p)
    BY <1>2, <1>5
  <2>2. LastNewline(t, p + 1) = LastNewline(t, p)
    BY <2>1 DEF LastNewline
  <2>3. 1 + (p + 1) - LastNewline(t, p + 1) = col + 1
    BY <1>1, <1>3, <2>2
  <2> QED BY <1>1, <1>5, <2>1, <2>3 DEF Pos
<1> QED BY <1>4, <1>5

-----------------------------------------------------------------------------
(* The tokens of a text, counted: how many begin up to a place, which is the *)
(* k-th, and where it ends. *)
Count(t, space, p) == Cardinality(Upto(t, space, p))

LEMMA StartsAre ==
    ASSUME NEW t \in Seq(Chars), NEW space, NEW p \in Nat
    PROVE  /\ Starts(t, space) \subseteq 1 .. Len(t) /\ IsFiniteSet(Starts(t, space))
           /\ IsFiniteSet(Upto(t, space, p)) /\ Count(t, space, p) \in Nat
           /\ Upto(t, space, p + 1) = Upto(t, space, p) \cup (IF p + 1 \in Starts(t, space) THEN {p + 1} ELSE {})
           /\ p + 1 \notin Upto(t, space, p)
<1>1. Starts(t, space) \subseteq 1 .. Len(t)
  <2>1. DOMAIN t = 1 .. Len(t)
    OBVIOUS
  <2> QED BY <2>1 DEF Starts
<1>2. IsFiniteSet(1 .. Len(t))
  <2>1. Len(t) \in Nat
    OBVIOUS
  <2> QED BY <2>1, FS_Interval
<1>3. IsFiniteSet(Starts(t, space))
  BY <1>1, <1>2, FS_Subset
<1>4. Upto(t, space, p) \subseteq Starts(t, space)
  BY DEF Upto
<1>5. IsFiniteSet(Upto(t, space, p)) /\ Count(t, space, p) \in Nat
  BY <1>3, <1>4, FS_Subset, FS_CardinalityType DEF Count
<1>6. \A j \in Starts(t, space) : j <= p + 1 <=> (j <= p \/ j = p + 1)
  BY <1>1
<1>7. Upto(t, space, p + 1) = Upto(t, space, p) \cup (IF p + 1 \in Starts(t, space) THEN {p + 1} ELSE {})
  BY <1>6 DEF Upto
<1>8. p + 1 \notin Upto(t, space, p)
  BY <1>1 DEF Upto
<1> QED BY <1>1, <1>3, <1>5, <1>7, <1>8

LEMMA CountNext ==
    ASSUME NEW t \in Seq(Chars), NEW space, NEW p \in Nat
    PROVE  /\ Count(t, space, p) \in Nat
           /\ Count(t, space, p + 1) = IF p + 1 \in Starts(t, space) THEN Count(t, space, p) + 1 ELSE Count(t, space, p)
<1>1. CASE p + 1 \in Starts(t, space)
  <2>1. Upto(t, space, p + 1) = Upto(t, space, p) \cup {p + 1}
    BY <1>1, StartsAre
  <2>2. IsFiniteSet(Upto(t, space, p)) /\ p + 1 \notin Upto(t, space, p) /\ Count(t, space, p) \in Nat
    BY StartsAre
  <2>3. Cardinality(Upto(t, space, p) \cup {p + 1}) = Cardinality(Upto(t, space, p)) + 1
    BY <2>2, FS_AddElement
  <2> QED BY <1>1, <2>1, <2>2, <2>3 DEF Count
<1>2. CASE p + 1 \notin Starts(t, space)
  <2>1. Upto(t, space, p + 1) = Upto(t, space, p) \cup (IF p + 1 \in Starts(t, space) THEN {p + 1} ELSE {})
    BY StartsAre
  <2>2. Upto(t, space, p + 1) = Upto(t, space, p) \cup {}
    BY <1>2, <2>1, Zenon
  <2>3. Upto(t, space, p + 1) = Upto(t, space, p)
    BY <2>2
  <2>4. Count(t, space, p) \in Nat
    BY StartsAre
  <2> QED BY <1>2, <2>3, <2>4, Zenon DEF Count
<1> QED BY <1>1, <1>2

LEMMA CountEnds ==
    ASSUME NEW t \in Seq(Chars), NEW space
    PROVE  /\ Count(t, space, 0) = 0
           /\ Count(t, space, Len(t)) = Len(Tokens(t, space))
           /\ Len(Tokens(t, space)) = Cardinality(Starts(t, space)) /\ Len(Tokens(t, space)) \in Nat
<1>0. Len(t) \in Nat /\ 0 \in Nat
  OBVIOUS
<1>1. Starts(t, space) \subseteq 1 .. Len(t) /\ IsFiniteSet(Starts(t, space))
  BY <1>0, StartsAre
<1>2. Upto(t, space, 0) = {}
  BY <1>1 DEF Upto
<1>3. Upto(t, space, Len(t)) = Starts(t, space)
  BY <1>0, <1>1 DEF Upto
<1>4. Count(t, space, 0) = 0
  BY <1>2, FS_EmptySet DEF Count
<1>5. Cardinality(Starts(t, space)) \in Nat
  BY <1>1, FS_CardinalityType
<1>6. Len(Tokens(t, space)) = Cardinality(Starts(t, space))
  BY <1>5 DEF Tokens
<1> QED BY <1>3, <1>4, <1>5, <1>6 DEF Count

(* A token that begins at a place is the one of that number. *)
LEMMA NthIs ==
    ASSUME NEW t \in Seq(Chars), NEW space, NEW i \in Starts(t, space)
    PROVE  /\ Count(t, space, i) \in 1 .. Len(Tokens(t, space))
           /\ Tokens(t, space)[Count(t, space, i)] = TokenAt(t, i)
<1> DEFINE st == Starts(t, space)
           c(j) == Cardinality(Upto(t, space, j))
<1>1. st \subseteq 1 .. Len(t) /\ IsFiniteSet(st) /\ st \subseteq Nat
  <2>1. 0 \in Nat /\ Len(t) \in Nat
    OBVIOUS
  <2>2. st \subseteq 1 .. Len(t) /\ IsFiniteSet(st)
    BY <2>1, StartsAre
  <2> QED BY <2>1, <2>2
<1>2. ASSUME NEW j \in st PROVE /\ j \in Upto(t, space, j) /\ Upto(t, space, j) \subseteq st
                               /\ IsFiniteSet(Upto(t, space, j)) /\ c(j) \in Nat
  <2>1. j \in Nat
    BY <1>1
  <2>2. j \in Upto(t, space, j) /\ Upto(t, space, j) \subseteq st
    BY <2>1 DEF Upto
  <2>3. IsFiniteSet(Upto(t, space, j)) /\ c(j) \in Nat
    BY <1>1, <2>2, FS_Subset, FS_CardinalityType
  <2> QED BY <2>2, <2>3
<1>3. ASSUME NEW j \in st, NEW k \in st, j < k PROVE c(j) < c(k)
  <2>1. Upto(t, space, j) \subseteq Upto(t, space, k)
    BY <1>1, <1>3 DEF Upto
  <2>2. k \notin Upto(t, space, j)
    BY <1>1, <1>3 DEF Upto
  <2>3. k \in Upto(t, space, k) /\ IsFiniteSet(Upto(t, space, k)) /\ c(j) \in Nat /\ c(k) \in Nat
    BY <1>2
  <2>4. c(j) <= c(k) /\ (c(j) = c(k) => Upto(t, space, k) = Upto(t, space, j))
    BY <2>1, <2>3, FS_Subset
  <2> QED BY <2>2, <2>3, <2>4
<1>4. \A j \in st : c(j) = c(i) => j = i
  <2> TAKE j \in st
  <2>1. c(j) \in Nat /\ c(i) \in Nat /\ j \in Nat /\ i \in Nat
    BY <1>1, <1>2
  <2>2. (j < i => c(j) < c(i)) /\ (i < j => c(i) < c(j))
    BY <1>3
  <2> QED BY <2>1, <2>2
<1>5. Nth(t, space, c(i)) = i
  BY <1>4 DEF Nth
<1>6. c(i) \in 1 .. Cardinality(st)
  <2>1. c(i) <= Cardinality(st) /\ c(i) \in Nat
    BY <1>1, <1>2, FS_Subset
  <2>2. c(i) # 0
    BY <1>2, FS_EmptySet
  <2>3. Cardinality(st) \in Nat
    BY <1>1, FS_CardinalityType
  <2> QED BY <2>1, <2>2, <2>3
<1>7. Len(Tokens(t, space)) = Cardinality(st)
  BY CountEnds
<1>8. Tokens(t, space)[c(i)] = TokenAt(t, Nth(t, space, c(i)))
  BY <1>6 DEF Tokens
<1> QED BY <1>5, <1>6, <1>7, <1>8 DEF Count

(* Where a word ends. *)
LEMMA WordIs ==
    ASSUME NEW t \in Seq(Chars), NEW i \in 1 .. Len(t), NEW e \in i .. Len(t),
           \A k \in i .. e : ~isSpace[t[k]], e = Len(t) \/ isSpace[t[e + 1]]
    PROVE  TokenAt(t, i) = SubSeq(t, i, e)
<1> DEFINE T == {j \in i .. Len(t) : \A k \in i .. j : ~isSpace[t[k]]}
<1>0. Len(t) \in Nat /\ i \in Nat /\ e \in Nat /\ i <= e /\ e <= Len(t) /\ i \in i .. e
  OBVIOUS
<1>1. e \in T /\ T \subseteq Int
  BY <1>0
<1>2. ASSUME NEW y \in T PROVE e >= y
  <2>1. SUFFICES ASSUME e < y PROVE FALSE
    BY <1>0
  <2>2. e + 1 \in i .. y /\ e # Len(t)
    BY <1>0, <2>1
  <2> QED BY <2>2
<1>3. Max(T) = e
  <2> HIDE DEF T
  <2> QED BY <1>1, <1>2, MaxIs
<1>4. ~isSpace[t[i]]
  BY <1>0
<1> QED BY <1>3, <1>4 DEF TokenAt

-----------------------------------------------------------------------------
(* A scanner: where it is in its file, and its last token. *)
ScannerSet == [at : Nat, line : Nat, col : Nat, token : Seq(Chars), start : Nat \X Nat]

Reads(s, t) ==
    /\ s.at \in 0 .. Len(t)
    /\ <<s.line, s.col>> = Pos(t, s.at)

Begin(s) == s.at - Len(s.token)

Stands(s, t) ==
    /\ Begin(s) \in Nat
    /\ s.token = SubSeq(t, Begin(s) + 1, s.at)
    /\ s.start = Pos(t, Begin(s))

(* The scanner that skips is between tokens; one that takes knows where its *)
(* token began, and the others stand behind theirs.                         *)
Reading(f) ==
    /\ Reads(sc[f], text[f])
    /\ pc \in {"open", "flags"} => sc[f] = Scanner
    /\ sc[f].token # <<>> /\ ~(pc = "skip" /\ File = f) /\ result # "error" => Stands(sc[f], text[f])
    /\ pc = "take" /\ File = f => Stands(sc[f], text[f])

RuleSet == [floats : BOOLEAN, rel : Nat, abs : Nat, case : BOOLEAN, space : BOOLEAN]

Scanning ==
    /\ text \in [Files -> Seq(Chars)]
    /\ sc \in [Files -> ScannerSet]
    /\ given \in Seq(STRING)
    /\ pc \in {"open", "flags", "skip", "take", "compare", "done"}
    /\ turn \in {"ref", "out", "end"}
    /\ pc \in {"open", "flags"} => turn = "ref"
    /\ pc = "compare" => turn = "out"
    /\ result \in {"none", "match", "differ", "error"}
    /\ result # "none" <=> pc = "done"
    /\ rules \in RuleSet
    /\ pc = "take" /\ S.token = <<>> /\ ~rules.space => ~AtEnd /\ ~isSpace[Next1]
    /\ \A f \in Files : Reading(f)

LEMMA ScanStart == Init => Scanning
<1> SUFFICES ASSUME Init PROVE Scanning
  OBVIOUS
<1>1. PICK i \in Inputs : text = [f \in Files |-> i[f]] /\ given = i.args
  BY DEF Init
<1>2. i \in [ref : Seq(Chars), out : Seq(Chars), args : Seq(STRING)]
  BY DiffAssumption
<1>3. text \in [Files -> Seq(Chars)] /\ given \in Seq(STRING)
  BY <1>1, <1>2 DEF Files
<1>4. /\ sc = [f \in Files |-> Scanner] /\ pc = "open" /\ turn = "ref" /\ result = "none"
      /\ rules = [floats |-> FALSE, rel |-> 0, abs |-> 0, case |-> FALSE, space |-> FALSE]
  BY DEF Init
<1>5. Scanner \in ScannerSet /\ Scanner.token = <<>> /\ Scanner.at = 0 /\ <<Scanner.line, Scanner.col>> = <<1, 1>>
  BY EmptySeq DEF Scanner, ScannerSet
<1>6. ASSUME NEW f \in Files PROVE Reading(f)
  <2>1. sc[f] = Scanner /\ text[f] \in Seq(Chars)
    BY <1>3, <1>4
  <2>2. Len(text[f]) \in Nat
    BY <2>1
  <2>3. Reads(sc[f], text[f])
    BY <1>5, <2>1, <2>2, PosStart DEF Reads
  <2> QED BY <1>4, <1>5, <2>1, <2>3 DEF Reading
<1>7. rules \in RuleSet
  BY <1>4 DEF RuleSet
<1>8. sc \in [Files -> ScannerSet]
  BY <1>4, <1>5
<1> QED BY <1>3, <1>4, <1>6, <1>7, <1>8 DEF Scanning

(* Of the file that is read, one byte. *)
LEMMA FileIs == File \in Files
BY DEF File, Files

LEMMA EatIs ==
    ASSUME Scanning, ~AtEnd
    PROVE  LET e == Eat(S)
           IN  /\ e \in ScannerSet /\ e.at = S.at + 1 /\ e.token = S.token /\ e.start = S.start
               /\ Reads(e, text[File])
               /\ Next1 \in Chars /\ S \in ScannerSet /\ S.at + 1 \in 1 .. Len(text[File])
<1> DEFINE t == text[File]
           e == Eat(S)
<1>1. t \in Seq(Chars) /\ S \in ScannerSet /\ Reads(S, t)
  BY FileIs DEF Scanning, Reading, S
<1>2. S.at \in Nat /\ S.line \in Nat /\ S.col \in Nat /\ S.token \in Seq(Chars) /\ S.start \in Nat \X Nat
  BY <1>1 DEF ScannerSet
<1>3. S.at \in 0 .. Len(t) /\ S.at # Len(t) /\ Len(t) \in Nat /\ Next1 = t[S.at + 1]
  BY <1>1 DEF Reads, AtEnd, Next1
<1>4. S.at + 1 \in 1 .. Len(t)
  BY <1>2, <1>3
<1>5. Next1 \in Chars
  <2> HIDE DEF t
  <2> QED BY <1>1, <1>3, <1>4, ElementOfSeq
<1>6. S = [at |-> S.at, line |-> S.line, col |-> S.col, token |-> S.token, start |-> S.start]
  BY <1>1 DEF ScannerSet
<1>7. e = IF Next1 = "nl"
          THEN [at |-> S.at + 1, line |-> S.line + 1, col |-> 1, token |-> S.token, start |-> S.start]
          ELSE [at |-> S.at + 1, line |-> S.line, col |-> S.col + 1, token |-> S.token, start |-> S.start]
  <2> DEFINE a == S.at
             l == S.line
             c == S.col
             k == S.token
             b == S.start
             s == S
  <2>1. s = [at |-> a, line |-> l, col |-> c, token |-> k, start |-> b]
    BY <1>6
  <2> HIDE DEF a, l, c, k, b, s
  <2> DEFINE x == [s EXCEPT !.at = @ + 1, !.line = @ + 1, !.col = 1]
             y == [s EXCEPT !.at = @ + 1, !.col = @ + 1]
             X == [at |-> a + 1, line |-> l + 1, col |-> 1, token |-> k, start |-> b]
             Y == [at |-> a + 1, line |-> l, col |-> c + 1, token |-> k, start |-> b]
  <2>2. /\ x.at = a + 1 /\ x.line = l + 1 /\ x.col = 1 /\ x.token = k /\ x.start = b
        /\ DOMAIN x = {"at", "line", "col", "token", "start"}
    BY <2>1
  <2>3. /\ y.at = a + 1 /\ y.line = l /\ y.col = c + 1 /\ y.token = k /\ y.start = b
        /\ DOMAIN y = {"at", "line", "col", "token", "start"}
    BY <2>1
  <2>4. x = [q \in {"at", "line", "col", "token", "start"} |-> x[q]] /\ y = [q \in {"at", "line", "col", "token", "start"} |-> y[q]]
    BY <2>2, <2>3
  <2> HIDE DEF x, y
  <2>5. x = X
    BY <2>2, <2>4
  <2>6. y = Y
    BY <2>3, <2>4
  <2> HIDE DEF X, Y
  <2>7. e = IF Next1 = "nl" THEN x ELSE y
    BY DEF Eat, x, y, s
  <2> QED BY <2>5, <2>6, <2>7 DEF X, Y, a, l, c, k, b
<1>8. Pos(t, S.at + 1) = IF t[S.at + 1] = "nl" THEN <<S.line + 1, 1>> ELSE <<S.line, S.col + 1>>
  <2>1. <<S.line, S.col>> = Pos(t, S.at)
    BY <1>1 DEF Reads
  <2> HIDE DEF t
  <2> QED BY <1>1, <1>2, <2>1, PosNext
<1> HIDE DEF t, e
<1>9. e \in ScannerSet /\ e.at = S.at + 1 /\ e.token = S.token /\ e.start = S.start
  BY <1>2, <1>7 DEF ScannerSet
<1>10. <<e.line, e.col>> = Pos(t, S.at + 1)
  BY <1>3, <1>7, <1>8
<1>11. Reads(e, t)
  BY <1>3, <1>4, <1>9, <1>10 DEF Reads
<1> QED BY <1>1, <1>4, <1>5, <1>9, <1>11 DEF t, e

(* The flags change the rules only. *)
LEMMA RulesAre ==
    ASSUME rules \in RuleSet, NEW v \in Nat
    PROVE  /\ SetTolerances(v) \in RuleSet
           /\ [rules EXCEPT !.case = TRUE] \in RuleSet /\ [rules EXCEPT !.space = TRUE] \in RuleSet
           /\ SetTolerances(v).floats = TRUE
           /\ SetTolerances(v).rel = (IF args[1] # "float_absolute_tolerance" THEN v ELSE rules.rel)
           /\ SetTolerances(v).abs = (IF args[1] # "float_relative_tolerance" THEN v ELSE rules.abs)
           /\ SetTolerances(v).case = rules.case /\ SetTolerances(v).space = rules.space
<1> DEFINE x == SetTolerances(v)
           D == {"floats", "rel", "abs", "case", "space"}
<1>1. DOMAIN rules = D /\ rules.floats \in BOOLEAN /\ rules.rel \in Nat /\ rules.abs \in Nat /\ rules.case \in BOOLEAN /\ rules.space \in BOOLEAN
  BY DEF RuleSet
<1>2. DOMAIN x = D
  BY <1>1 DEF SetTolerances
<1>3. x.floats = TRUE
  BY <1>1 DEF SetTolerances
<1>4. x.rel = (IF args[1] # "float_absolute_tolerance" THEN v ELSE rules.rel)
  BY <1>1 DEF SetTolerances
<1>5. x.abs = (IF args[1] # "float_relative_tolerance" THEN v ELSE rules.abs)
  BY <1>1 DEF SetTolerances
<1>6. x.case = rules.case /\ x.space = rules.space
  BY <1>1 DEF SetTolerances
<1>7. x = [q \in D |-> x[q]]
  BY <1>2 DEF SetTolerances
<1> HIDE DEF x
<1>8. x.floats \in BOOLEAN /\ x.rel \in Nat /\ x.abs \in Nat /\ x.case \in BOOLEAN /\ x.space \in BOOLEAN
  BY <1>1, <1>3, <1>4, <1>5, <1>6
<1>9. x \in RuleSet
  BY <1>7, <1>8 DEF RuleSet
<1>10. [rules EXCEPT !.case = TRUE] \in RuleSet /\ [rules EXCEPT !.space = TRUE] \in RuleSet
  BY DEF RuleSet
<1> QED BY <1>3, <1>4, <1>5, <1>6, <1>9, <1>10 DEF x

LEMMA FlagsScan == Scanning /\ (Open \/ Switch \/ FloatFlag \/ UnknownFlag \/ FlagsDone) => Scanning'
<1> SUFFICES ASSUME Scanning, Open \/ Switch \/ FloatFlag \/ UnknownFlag \/ FlagsDone PROVE Scanning'
  OBVIOUS
<1>1. /\ pc \in {"open", "flags"} /\ turn = "ref" /\ result = "none"
      /\ text' = text /\ given' = given /\ sc' = sc /\ turn' = turn
  BY DEF Scanning, Open, Switch, FloatFlag, UnknownFlag, FlagsDone, scanVars, vars
<1>2. \/ pc' \in {"flags", "skip"} /\ result' = "none"
      \/ pc' = "done" /\ result' = "error"
  BY <1>1 DEF Open, Switch, FloatFlag, UnknownFlag, FlagsDone, scanVars, vars, Return
<1>3. rules' \in RuleSet
  <2>1. rules \in RuleSet
    BY DEF Scanning
  <2>2. CASE Open \/ UnknownFlag \/ FlagsDone
    BY <2>1, <2>2 DEF Open, UnknownFlag, FlagsDone, scanVars, vars
  <2>3. CASE Switch
    <3>1. rules' \in {[rules EXCEPT !.case = TRUE], [rules EXCEPT !.space = TRUE]}
      BY <2>3 DEF Switch
    <3>2. 0 \in Nat
      OBVIOUS
    <3> QED BY <2>1, <3>1, <3>2, RulesAre
  <2>4. CASE FloatFlag
    <3>1. rules' = rules \/ (rules' = SetTolerances(Tolerance[args[2]]) /\ args[2] \in DOMAIN Tolerance)
      BY <2>4 DEF FloatFlag
    <3>2. args[2] \in DOMAIN Tolerance => Tolerance[args[2]] \in Nat
      BY DEF Tolerance
    <3> QED BY <2>1, <3>1, <3>2, RulesAre
  <2> QED BY <2>2, <2>3, <2>4
<1>4. ASSUME NEW f \in Files PROVE Reading(f)'
  <2>1. sc[f] = Scanner /\ Reads(sc[f], text[f])
    BY <1>1 DEF Scanning, Reading
  <2>2. sc[f].token = <<>>
    BY <2>1 DEF Scanner
  <2> QED BY <1>1, <1>2, <2>1, <2>2 DEF Reading, File
<1> QED BY <1>1, <1>2, <1>3, <1>4 DEF Scanning, S, AtEnd, Next1

(* After any other step both scanners stand behind what they read. *)
LEMMA Settle ==
    ASSUME \A f \in Files : Reads(sc[f], text[f])', pc' \notin {"open", "flags"},
           \A f \in Files : sc'[f].token # <<>> => Stands(sc[f], text[f])',
           pc' = "take" => Stands(sc'[File'], text'[File'])
    PROVE  \A f \in Files : Reading(f)'
BY DEF Reading

LEMMA ScanSkip == Scanning /\ (SkipSpace \/ SkipDone) => Scanning'
<1> SUFFICES ASSUME Scanning, SkipSpace \/ SkipDone PROVE Scanning'
  OBVIOUS
<1>0. /\ pc = "skip" /\ text' = text /\ given' = given /\ rules' = rules /\ result = "none"
      /\ sc \in [Files -> ScannerSet] /\ text \in [Files -> Seq(Chars)] /\ rules.space \in BOOLEAN
  <2>1. pc = "skip" /\ text' = text /\ given' = given /\ rules' = rules
    BY DEF SkipSpace, SkipDone, scanVars
  <2> QED BY <2>1 DEF Scanning, RuleSet
<1>1. \A f \in Files : f # File => Reads(sc[f], text[f]) /\ (sc[f].token # <<>> => Stands(sc[f], text[f]))
  BY <1>0 DEF Scanning, Reading
<1>2. Reads(S, text[File]) /\ S \in ScannerSet /\ text[File] \in Seq(Chars)
  BY <1>0, FileIs DEF Scanning, Reading, S
<1>3. CASE SkipSpace
  <2>1. ~AtEnd /\ sc' = [sc EXCEPT ![File] = Eat(S)] /\ pc' = "skip" /\ turn' = turn /\ result' = result
    BY <1>0, <1>3 DEF SkipSpace, S
  <2>2. Eat(S) \in ScannerSet /\ Reads(Eat(S), text[File])
    BY <2>1, EatIs
  <2>3. sc' \in [Files -> ScannerSet] /\ sc'[File] = Eat(S) /\ \A f \in Files : f # File => sc'[f] = sc[f]
    BY <1>0, <2>1, <2>2, FileIs
  <2>4. File' = File
    BY <2>1 DEF File
  <2>5. ASSUME NEW f \in Files PROVE Reading(f)'
    <3>1. Reads(sc'[f], text[f])
      BY <1>1, <2>2, <2>3
    <3>2. f # File => (sc'[f].token # <<>> => Stands(sc'[f], text[f]))
      BY <1>1, <2>3
    <3> QED BY <1>0, <2>1, <2>4, <3>1, <3>2 DEF Reading
  <2> QED BY <1>0, <2>1, <2>3, <2>5 DEF Scanning
<1>4. CASE SkipDone
  <2> DEFINE n == [S EXCEPT !.token = <<>>, !.start = <<S.line, S.col>>]
  <2>1. sc' = [sc EXCEPT ![File] = n]
    BY <1>0, <1>4, FileIs DEF SkipDone, S
  <2>2. /\ n \in ScannerSet /\ n.at = S.at /\ n.line = S.line /\ n.col = S.col /\ n.token = <<>>
        /\ n.start = <<S.line, S.col>>
    <3> DEFINE D == {"at", "line", "col", "token", "start"}
               s == S
    <3>1. /\ DOMAIN s = D /\ s.at \in Nat /\ s.line \in Nat /\ s.col \in Nat
          /\ s = [q \in D |-> s[q]]
      BY <1>2 DEF ScannerSet
    <3> HIDE DEF s
    <3>2. /\ n.at = s.at /\ n.line = s.line /\ n.col = s.col /\ n.token = <<>> /\ n.start = <<s.line, s.col>>
          /\ DOMAIN n = D
      BY <3>1 DEF s
    <3>3. n = [q \in D |-> n[q]]
      BY <3>1 DEF s
    <3> HIDE DEF n
    <3>4. n.token \in Seq(Chars) /\ n.start \in Nat \X Nat
      BY <3>1, <3>2, EmptySeq
    <3>5. n \in ScannerSet
      BY <3>1, <3>2, <3>3, <3>4 DEF ScannerSet
    <3> QED BY <3>2, <3>5 DEF s
  <2> HIDE DEF n
  <2>3. Reads(n, text[File]) /\ Stands(n, text[File])
    <3>1. S.at \in Nat /\ Len(text[File]) \in Nat
      BY <1>2 DEF ScannerSet
    <3>2. Begin(n) = S.at
      BY <2>2, <3>1 DEF Begin
    <3>3. SubSeq(text[File], S.at + 1, S.at) = <<>>
      BY <1>2, <3>1
    <3> QED BY <1>2, <2>2, <3>1, <3>2, <3>3 DEF Reads, Stands
  <2>4. sc' \in [Files -> ScannerSet] /\ sc'[File] = n /\ \A f \in Files : f # File => sc'[f] = sc[f]
    BY <1>0, <2>1, <2>2, FileIs
  <2>5. \/ /\ pc' = "take" /\ turn' = turn /\ result' = result
           /\ rules.space \/ (~AtEnd /\ ~isSpace[Next1])
        \/ /\ turn = "ref" /\ turn' = "end" /\ pc' = "skip" /\ result' = result
        \/ /\ turn \in {"out", "end"} /\ turn' = turn /\ pc' = "done" /\ result' \in {"differ", "match"}
    <3>1. turn \in {"ref", "out", "end"}
      BY DEF Scanning
    <3>2. CASE ~rules.space /\ AtEnd /\ EndOfFile
      BY <3>1, <3>2 DEF EndOfFile, Return
    <3>3. CASE pc' = "take" /\ UNCHANGED <<turn, result>> /\ (rules.space \/ (~AtEnd /\ ~isSpace[Next1]))
      BY <3>3
    <3> QED BY <1>4, <3>2, <3>3 DEF SkipDone
  <2>6. \A f \in Files : Reading(f)'
    <3>1. \A f \in Files : Reads(sc[f], text[f])'
      BY <1>0, <1>1, <2>3, <2>4
    <3>2. \A f \in Files : sc'[f].token # <<>> => Stands(sc[f], text[f])'
      BY <1>0, <1>1, <2>3, <2>4
    <3>3. pc' = "take" => Stands(sc'[File'], text'[File'])
      BY <1>0, <2>3, <2>4, <2>5 DEF File
    <3>4. pc' \notin {"open", "flags"}
      BY <2>5
    <3> QED BY <3>1, <3>2, <3>3, <3>4, Settle
  <2>7. pc' = "take" /\ ~rules.space => ~AtEnd' /\ ~isSpace[Next1']
    <3>1. SUFFICES ASSUME pc' = "take", ~rules.space PROVE ~AtEnd' /\ ~isSpace[Next1']
      OBVIOUS
    <3>2. turn' = turn /\ ~AtEnd /\ ~isSpace[Next1]
      BY <2>5, <3>1
    <3>3. File' = File
      BY <3>2 DEF File
    <3>4. S'.at = S.at
      BY <2>2, <2>4, <3>3 DEF S
    <3> QED BY <1>0, <3>2, <3>3, <3>4 DEF AtEnd, Next1
  <2> QED BY <1>0, <2>4, <2>5, <2>6, <2>7 DEF Scanning
<1> QED BY <1>3, <1>4

LEMMA ScanTake == Scanning /\ TakeByte => Scanning'
<1> SUFFICES ASSUME Scanning, TakeByte PROVE Scanning'
  OBVIOUS
<1> DEFINE t == text[File]
           e == Eat(S)
           n == [Eat(S) EXCEPT !.token = Append(@, Next1)]
<1>0. /\ pc = "take" /\ text' = text /\ given' = given /\ rules' = rules /\ result = "none" /\ ~AtEnd
      /\ sc \in [Files -> ScannerSet] /\ text \in [Files -> Seq(Chars)] /\ t \in Seq(Chars)
  <2>1. pc = "take" /\ text' = text /\ given' = given /\ rules' = rules /\ ~AtEnd
    BY DEF TakeByte, scanVars, CanTake
  <2> QED BY <2>1, FileIs DEF Scanning
<1>1. /\ e \in ScannerSet /\ e.at = S.at + 1 /\ e.token = S.token /\ e.start = S.start
      /\ Reads(e, t) /\ Next1 \in Chars /\ S \in ScannerSet /\ S.at + 1 \in 1 .. Len(t)
  BY <1>0, EatIs
<1>2. \A f \in Files : Reads(sc[f], text[f]) /\ (sc[f].token # <<>> => Stands(sc[f], text[f]))
  BY <1>0 DEF Scanning, Reading
<1>3. Stands(S, t)
  BY <1>0, FileIs DEF Scanning, Reading, S
<1>4. /\ n \in ScannerSet /\ n.at = S.at + 1 /\ n.line = e.line /\ n.col = e.col
      /\ n.token = Append(S.token, Next1) /\ n.start = S.start
  <2> HIDE DEF e
  <2>1. Append(e.token, Next1) \in Seq(Chars)
    BY <1>1 DEF ScannerSet
  <2> DEFINE m == [e EXCEPT !.token = Append(@, Next1)]
  <2>2. /\ m \in ScannerSet /\ m.at = e.at /\ m.line = e.line /\ m.col = e.col
        /\ m.token = Append(e.token, Next1) /\ m.start = e.start
    BY <1>1, <2>1 DEF ScannerSet
  <2>3. n = m
    BY DEF e
  <2> HIDE DEF m, n
  <2> QED BY <1>1, <2>2, <2>3
<1>5. sc' = [sc EXCEPT ![File] = n]
  BY <1>0, FileIs DEF TakeByte, S
<1> HIDE DEF n, e
<1>6. sc' \in [Files -> ScannerSet] /\ sc'[File] = n /\ \A f \in Files : f # File => sc'[f] = sc[f]
  BY <1>0, <1>4, <1>5, FileIs
<1>7. Reads(n, t) /\ Stands(n, t) /\ n.token # <<>>
  <2>1. S.at \in Nat /\ S.token \in Seq(Chars) /\ Len(S.token) \in Nat /\ Len(t) \in Nat
    <3>1. S.at \in Nat /\ S.token \in Seq(Chars)
      BY <1>1 DEF ScannerSet
    <3>2. Len(t) \in Nat
      BY <1>0
    <3> HIDE DEF S
    <3> QED BY <3>1, <3>2
  <2>2. Len(n.token) = Len(S.token) + 1 /\ n.token # <<>>
    BY <1>1, <1>4, <2>1
  <2>3. Begin(n) = Begin(S) /\ Begin(S) \in Nat /\ Begin(S) <= S.at
    <3> DEFINE a == S.at
               l == Len(S.token)
    <3>1. a \in Nat /\ l \in Nat /\ a - l \in Nat /\ Begin(S) = a - l
      BY <1>3, <2>1 DEF Begin, Stands
    <3>2. n.at = a + 1 /\ Len(n.token) = l + 1 /\ Begin(n) = n.at - Len(n.token)
      BY <1>4, <2>2 DEF Begin
    <3> HIDE DEF a, l
    <3>3. Begin(n) = a - l /\ a - l <= a
      BY <3>1, <3>2
    <3> QED BY <3>1, <3>3 DEF a
  <2>4. Append(SubSeq(t, Begin(S) + 1, S.at), t[S.at + 1]) = SubSeq(t, Begin(S) + 1, S.at + 1)
    <3> DEFINE b == Begin(S)
               a == S.at
    <3>1. b \in Nat /\ a \in Nat /\ b <= a /\ a + 1 <= Len(t) /\ Len(t) \in Nat
      BY <1>1, <2>1, <2>3
    <3> HIDE DEF b, a, t
    <3>2. Append(SubSeq(t, b + 1, a), t[a + 1]) = SubSeq(t, b + 1, a + 1)
      BY <1>0, <3>1
    <3> QED BY <3>2 DEF b, a
  <2>5. S.token = SubSeq(t, Begin(S) + 1, S.at) /\ S.start = Pos(t, Begin(S))
    BY <1>3 DEF Stands
  <2>6. Next1 = t[S.at + 1]
    BY DEF Next1
  <2>7. n.token = SubSeq(t, Begin(n) + 1, n.at)
    BY <1>4, <2>3, <2>4, <2>5, <2>6
  <2>8. Stands(n, t)
    BY <1>4, <2>3, <2>5, <2>7 DEF Stands
  <2>9. Reads(n, t)
    BY <1>1, <1>4 DEF Reads
  <2> QED BY <2>2, <2>8, <2>9
<1>8. \/ pc' = "take" /\ turn' = turn /\ result' = result
      \/ turn = "ref" /\ turn' = "out" /\ pc' = "skip" /\ result' = result
      \/ turn = "out" /\ turn' = turn /\ pc' = "compare" /\ result' = result
      \/ turn = "end" /\ turn' = turn /\ pc' = "done" /\ result' = "differ"
  <2>1. turn \in {"ref", "out", "end"}
    BY DEF Scanning
  <2>2. CASE UNCHANGED <<pc, turn, result>>
    BY <1>0, <2>2
  <2>3. CASE GotToken
    BY <2>1, <2>3 DEF GotToken, Return
  <2> QED BY <2>2, <2>3 DEF TakeByte
<1>9. \A f \in Files : Reading(f)'
  <2>1. \A f \in Files : Reads(sc[f], text[f])'
    BY <1>0, <1>2, <1>6, <1>7
  <2>2. \A f \in Files : sc'[f].token # <<>> => Stands(sc[f], text[f])'
    BY <1>0, <1>2, <1>6, <1>7
  <2>3. pc' = "take" => Stands(sc'[File'], text'[File'])
    <3>1. pc' = "take" => File' = File
      BY <1>8 DEF File
    <3> QED BY <1>0, <1>6, <1>7, <3>1
  <2>4. pc' \notin {"open", "flags"}
    BY <1>8
  <2> QED BY <2>1, <2>2, <2>3, <2>4, Settle
<1>10. pc' = "take" => S'.token # <<>>
  <2>1. pc' = "take" => File' = File
    BY <1>8 DEF File
  <2> QED BY <1>6, <1>7, <2>1 DEF S
<1> QED BY <1>0, <1>6, <1>8, <1>9, <1>10 DEF Scanning

LEMMA ScanEnd == Scanning /\ (EndToken \/ Compare \/ ReadFails) => Scanning'
<1> SUFFICES ASSUME Scanning, EndToken \/ Compare \/ ReadFails PROVE Scanning'
  OBVIOUS
<1>0. /\ pc \in {"skip", "take", "compare"} /\ text' = text /\ given' = given /\ rules' = rules /\ sc' = sc /\ result = "none"
      /\ sc \in [Files -> ScannerSet] /\ text \in [Files -> Seq(Chars)] /\ turn \in {"ref", "out", "end"}
  BY DEF Scanning, EndToken, Compare, ReadFails, scanVars
<1>1. \A f \in Files : Reads(sc[f], text[f])
  BY DEF Scanning, Reading
<1>2. ReadFails => pc' = "done" /\ result' = "error" /\ turn' = turn
  BY DEF ReadFails, Return
<1>3. Compare => \/ pc' = "skip" /\ result' = result /\ turn' = "ref"
                 \/ pc' = "done" /\ result' = "differ" /\ turn' = turn
  BY DEF Compare, Return
<1>4. EndToken => \/ pc' = "skip" /\ result' = result /\ turn' \in {"out", "end"}
                  \/ pc' = "compare" /\ result' = result /\ turn' = "out"
                  \/ pc' = "done" /\ result' \in {"match", "differ"} /\ turn' = turn
  <2>1. SUFFICES ASSUME EndToken
                 PROVE  \/ pc' = "skip" /\ result' = result /\ turn' \in {"out", "end"}
                        \/ pc' = "compare" /\ result' = result /\ turn' = "out"
                        \/ pc' = "done" /\ result' \in {"match", "differ"} /\ turn' = turn
    OBVIOUS
  <2>2. CASE S.token # <<>>
    <3>1. GotToken
      BY <2>1, <2>2 DEF EndToken
    <3> QED BY <1>0, <3>1 DEF GotToken, Return
  <2>3. CASE S.token = <<>> /\ AtEnd
    <3>1. EndOfFile
      BY <2>1, <2>3 DEF EndToken
    <3> QED BY <1>0, <3>1 DEF EndOfFile, Return
  <2>4. CASE S.token = <<>> /\ ~AtEnd
    <3>1. pc = "take" /\ ~CanTake
      BY <2>1 DEF EndToken
    <3>2. isSpace[Next1] /\ ~rules.space
      BY <2>4, <3>1 DEF CanTake, TakesNext
    <3> QED BY <2>4, <3>1, <3>2 DEF Scanning
  <2> QED BY <2>2, <2>3, <2>4
<1>5. pc' \in {"skip", "compare", "done"}
  BY <1>2, <1>3, <1>4
<1>6. \A f \in Files : Reading(f)'
  <2>1. CASE pc = "skip"
    <3>1. pc' = "done"
      BY <1>2, <2>1 DEF EndToken, Compare
    <3>2. result' = "error"
      BY <1>2, <2>1 DEF EndToken, Compare
    <3> QED BY <1>0, <1>1, <3>1, <3>2 DEF Reading
  <2>2. CASE pc # "skip"
    <3>1. \A f \in Files : sc[f].token # <<>> => Stands(sc[f], text[f])
      BY <1>0, <2>2 DEF Scanning, Reading
    <3> QED BY <1>0, <1>1, <1>5, <3>1 DEF Reading
  <2> QED BY <2>1, <2>2
<1>7. turn' \in {"ref", "out", "end"} /\ (pc' = "compare" => turn' = "out") /\ result' \in {"none", "match", "differ", "error"}
      /\ (result' # "none" <=> pc' = "done") /\ pc' \in {"skip", "compare", "done"}
  BY <1>0, <1>2, <1>3, <1>4
<1> QED BY <1>0, <1>6, <1>7 DEF Scanning

LEMMA ScanStep == Scanning /\ [Next]_vars => Scanning'
<1> SUFFICES ASSUME Scanning, [Next]_vars PROVE Scanning'
  OBVIOUS
<1>1. CASE Over \/ UNCHANGED vars
  BY <1>1 DEF Over, vars, Scanning, Reading, File, S, AtEnd, Next1
<1> QED BY <1>1, FlagsScan, ScanSkip, ScanTake, ScanEnd DEF Next, DiffNext

(* The token a scanner reports is what stands in its file at the line and   *)
(* column it reports, across newlines (diff.go 137, 195-207).               *)
THEOREM ReportedPositionsAreReal == Spec => []PositionsAreReal
<1>1. Scanning => PositionsAreReal
  <2> SUFFICES ASSUME Scanning, NEW f \in Files, pc = "compare" \/ result = "differ", sc[f].token # <<>>
               PROVE  LET begin == sc[f].at - Len(sc[f].token)
                          newlines == {i \in 1 .. begin : text[f][i] = "nl"}
                      IN  /\ SubSeq(text[f], begin + 1, sc[f].at) = sc[f].token
                          /\ sc[f].start = <<1 + Cardinality(newlines), 1 + begin - Max(newlines \cup {0})>>
    BY DEF PositionsAreReal
  <2>1. pc # "skip"
    BY DEF Scanning
  <2>2. Stands(sc[f], text[f])
    BY <2>1 DEF Scanning, Reading
  <2> QED BY <2>2 DEF Stands, Begin, Pos, LastNewline, Newlines
<1> QED BY <1>1, ScanStart, ScanStep, PTL DEF Spec

-----------------------------------------------------------------------------
(* The flags: the places of those that stand for themselves, up to a place, *)
(* and what they ask for. *)
LEMMA IsFlagTurns ==
    ASSUME given \in Seq(STRING)
    PROVE  \A i \in 1 .. Len(given) : IsFlag[i] <=> i = 1 \/ ~(IsFlag[i - 1] /\ given[i - 1] \in Tolerances)
<1> DEFINE n == Len(given)
           IsLoop(f, m) == f = [i \in 1 .. m |-> i = 1 \/ ~(f[i - 1] /\ given[i - 1] \in Tolerances)]
           Good == {m \in Nat : \E f : IsLoop(f, m)}
<1>0. n \in Nat
  OBVIOUS
<1>1. 0 \in Good
  <2>1. 1 .. 0 = {}
    OBVIOUS
  <2>2. IsLoop([i \in 1 .. 0 |-> TRUE], 0)
    BY <2>1
  <2> QED BY <2>2
<1>2. ASSUME NEW m \in 1 .. n, m - 1 \in Good PROVE m \in Good
  <2>1. PICK f : IsLoop(f, m - 1)
    BY <1>2
  <2> DEFINE e(h, i) == i = 1 \/ ~(h[i - 1] /\ given[i - 1] \in Tolerances)
             g == [i \in 1 .. m |-> IF i = m THEN e(f, m) ELSE f[i]]
  <2>2. m \in Nat /\ m - 1 \in Nat /\ m >= 1
    BY <1>0
  <2>3. DOMAIN f = 1 .. m - 1 /\ \A i \in 1 .. m - 1 : f[i] = e(f, i)
    BY <2>1
  <2>4. \A i \in 1 .. m : (i = m \/ (i \in 1 .. m - 1 /\ i # m)) /\ (i # 1 => i - 1 \in 1 .. m - 1 /\ i - 1 \in 1 .. m /\ i - 1 # m)
    BY <2>2
  <2>5. \A i \in 1 .. m : i # 1 => g[i - 1] = f[i - 1]
    BY <2>4
  <2>6. \A i \in 1 .. m : e(g, i) = e(f, i)
    BY <2>5, Zenon
  <2>7. \A i \in 1 .. m : g[i] = e(f, i)
    BY <2>3, <2>4, Zenon
  <2>8. g = [i \in 1 .. m |-> g[i]]
    OBVIOUS
  <2> HIDE DEF g, e
  <2>9. g = [i \in 1 .. m |-> e(g, i)]
    BY <2>6, <2>7, <2>8, Zenon
  <2>10. IsLoop(g, m)
    BY <2>9, Zenon DEF e
  <2> QED BY <2>2, <2>10
<1>3. n \in Good
  <2> HIDE DEF Good, n
  <2>1. n \in 0 .. n /\ \A k \in 1 .. n : k - 1 \in Good => k \in Good
    BY <1>0, <1>2
  <2> QED BY <1>0, <1>1, <2>1, FromZeroOn
<1>4. \E f : IsLoop(f, n)
  BY <1>3
<1>5. IsLoop(IsFlag, n)
  BY <1>4 DEF IsFlag
<1> QED BY <1>5, Zenon

Places(p, set, flag, g) == {i \in 1 .. p : flag[i] /\ g[i] \in set}
LastOf(p, set, flag, g) ==
    IF Places(p, set, flag, g) = {} THEN 0 ELSE Tolerance[g[Max(Places(p, set, flag, g)) + 1]]

Relative == Tolerances \ {"float_absolute_tolerance"}
Absolute == Tolerances \ {"float_relative_tolerance"}

Mean(p, r, flag, g) ==
    /\ r.case <=> Places(p, {"case_sensitive"}, flag, g) # {}
    /\ r.space <=> Places(p, {"space_change_sensitive"}, flag, g) # {}
    /\ r.floats <=> Places(p, Tolerances, flag, g) # {}
    /\ r.rel = LastOf(p, Relative, flag, g)
    /\ r.abs = LastOf(p, Absolute, flag, g)

(* One more place. *)
LEMMA PlacesNext ==
    ASSUME NEW p \in Nat, NEW set, NEW flag, NEW g
    PROVE  /\ flag[p + 1] /\ g[p + 1] \in set =>
                /\ Places(p + 1, set, flag, g) # {}
                /\ LastOf(p + 1, set, flag, g) = Tolerance[g[(p + 1) + 1]]
           /\ ~(flag[p + 1] /\ g[p + 1] \in set) =>
                /\ Places(p + 1, set, flag, g) = Places(p, set, flag, g)
                /\ LastOf(p + 1, set, flag, g) = LastOf(p, set, flag, g)
<1> DEFINE P == Places(p, set, flag, g)
           Q == Places(p + 1, set, flag, g)
<1>1. \A i : i \in 1 .. p + 1 <=> (i \in 1 .. p \/ i = p + 1)
  OBVIOUS
<1>2. CASE flag[p + 1] /\ g[p + 1] \in set
  <2>1. p + 1 \in Q
    BY <1>1, <1>2 DEF Places
  <2>2. Q \subseteq Int /\ \A y \in Q : p + 1 >= y
    <3>1. \A y \in Q : y \in 1 .. p + 1
      BY DEF Places
    <3> QED BY <3>1
  <2> HIDE DEF Q
  <2>3. Max(Q) = p + 1
    BY <2>1, <2>2, MaxIs
  <2>4. Q # {}
    BY <2>1
  <2> QED BY <1>2, <2>3, <2>4, Zenon DEF LastOf, Q
<1>3. CASE ~(flag[p + 1] /\ g[p + 1] \in set)
  <2>1. Q = P
    BY <1>1, <1>3, Zenon DEF Places
  <2> QED BY <1>3, <2>1, Zenon DEF LastOf
<1> QED BY <1>2, <1>3, Zenon

LEMMA MeanStart ==
    ASSUME NEW flag, NEW g
    PROVE  Mean(0, [floats |-> FALSE, rel |-> 0, abs |-> 0, case |-> FALSE, space |-> FALSE], flag, g)
<1>1. \A set : Places(0, set, flag, g) = {}
  <2>1. 1 .. 0 = {}
    OBVIOUS
  <2> QED BY <2>1, Zenon DEF Places
<1> QED BY <1>1 DEF Mean, LastOf

(* The place in given that is looked at, and the rules so far. *)
At == Len(given) - Len(args)

Flagging ==
    /\ given \in Seq(STRING) /\ rules \in RuleSet
    /\ pc \in {"open", "flags"} =>
         /\ args \in Seq(STRING) /\ Len(args) <= Len(given)
         /\ \A j \in 1 .. Len(args) : args[j] = given[At + j]
         /\ args # <<>> => IsFlag[At + 1]
         /\ Mean(At, rules, IsFlag, given)
    /\ pc \in {"skip", "take", "compare"} => Mean(Len(given), rules, IsFlag, given)

LEMMA FlagStart == Init => Flagging
<1> SUFFICES ASSUME Init PROVE Flagging
  OBVIOUS
<1>1. /\ args = given /\ pc = "open" /\ given \in Seq(STRING) /\ rules \in RuleSet
      /\ rules = [floats |-> FALSE, rel |-> 0, abs |-> 0, case |-> FALSE, space |-> FALSE]
  <2>1. given \in Seq(STRING) /\ rules \in RuleSet
    BY ScanStart DEF Scanning
  <2> QED BY <2>1 DEF Init
<1>2. Len(given) \in Nat /\ At = 0
  BY <1>1 DEF At
<1>3. Mean(At, rules, IsFlag, given)
  BY <1>1, <1>2, MeanStart
<1>4. \A j \in 1 .. Len(args) : args[j] = given[At + j]
  BY <1>1, <1>2
<1>5. args # <<>> => IsFlag[At + 1]
  <2>1. SUFFICES ASSUME args # <<>> PROVE IsFlag[At + 1]
    OBVIOUS
  <2>2. 1 \in 1 .. Len(given) /\ At + 1 = 1
    BY <1>1, <1>2, <2>1
  <2>3. IsFlag[1]
    BY <1>1, <2>2, IsFlagTurns
  <2> QED BY <2>2, <2>3
<1> QED BY <1>1, <1>2, <1>3, <1>4, <1>5 DEF Flagging

LEMMA SwitchFlag == Flagging /\ Switch => Flagging'
<1> SUFFICES ASSUME Flagging, Switch PROVE Flagging'
  OBVIOUS
<1> DEFINE a == At
           f == given[a + 1]
<1>1. /\ pc = "flags" /\ args # <<>> /\ Head(args) \in Known /\ args' = Tail(args) /\ pc' = pc /\ given' = given
      /\ rules' = IF Head(args) = "case_sensitive" THEN [rules EXCEPT !.case = TRUE]
                   ELSE [rules EXCEPT !.space = TRUE]
  BY DEF Switch
<1>2. /\ args \in Seq(STRING) /\ given \in Seq(STRING) /\ rules \in RuleSet /\ Len(args) <= Len(given)
      /\ \A j \in 1 .. Len(args) : args[j] = given[a + j]
      /\ IsFlag[a + 1] /\ Mean(a, rules, IsFlag, given)
  BY <1>1 DEF Flagging
<1>3. /\ Len(args) \in Nat /\ Len(given) \in Nat /\ Len(args) >= 1 /\ 1 \in 1 .. Len(args) /\ a \in Nat
      /\ a + 1 \in 1 .. Len(given) /\ Head(args) = args[1]
  BY <1>1, <1>2 DEF At
<1>4. Head(args) = f
  BY <1>2, <1>3
<1>5. /\ args' \in Seq(STRING) /\ Len(args') = Len(args) - 1 /\ \A j \in 1 .. Len(args') : args'[j] = args[j + 1]
  BY <1>1, <1>2
<1>6. At' = a + 1 /\ Len(args') <= Len(given)
  BY <1>1, <1>3, <1>5 DEF At
<1>7. IsFlag' = IsFlag
  BY <1>1 DEF IsFlag
<1> HIDE DEF a
<1>8. \A j \in 1 .. Len(args') : args'[j] = given[(a + 1) + j]
  <2> TAKE j \in 1 .. Len(args')
  <2>1. j + 1 \in 1 .. Len(args) /\ a + (j + 1) = (a + 1) + j
    BY <1>3, <1>5
  <2> QED BY <1>2, <1>5, <2>1
<1>9. f \in {"case_sensitive", "space_change_sensitive"} /\ f \notin Tolerances
  BY <1>1, <1>4 DEF Known, Tolerances
<1>10. args' # <<>> => IsFlag[(a + 1) + 1]
  <2>1. SUFFICES ASSUME args' # <<>> PROVE IsFlag[(a + 1) + 1]
    OBVIOUS
  <2>2. (a + 1) + 1 \in 1 .. Len(given) /\ ((a + 1) + 1) - 1 = a + 1
    <3>1. Len(args') >= 1
      BY <1>5, <2>1
    <3> QED BY <1>3, <1>5, <3>1 DEF a, At
  <2> QED BY <1>2, <1>9, <2>2, IsFlagTurns
<1>11. Mean(a + 1, rules', IsFlag, given)
  <2> DEFINE P(set) == Places(a, set, IsFlag, given)
             Q(set) == Places(a + 1, set, IsFlag, given)
  <2>1. \A set : f \notin set => Q(set) = P(set) /\ LastOf(a + 1, set, IsFlag, given) = LastOf(a, set, IsFlag, given)
    BY <1>3, PlacesNext
  <2>2. \A set : f \in set => Q(set) # {}
    BY <1>2, <1>3, PlacesNext
  <2>3. f \notin Relative /\ f \notin Absolute
    BY <1>9 DEF Relative, Absolute
  <2>4. /\ rules'.floats = rules.floats /\ rules'.rel = rules.rel /\ rules'.abs = rules.abs
        /\ f = "case_sensitive" => rules'.case = TRUE /\ rules'.space = rules.space
        /\ f # "case_sensitive" => rules'.space = TRUE /\ rules'.case = rules.case
    BY <1>1, <1>2, <1>4 DEF RuleSet
  <2> HIDE DEF P, Q, f
  <2>5. /\ rules'.floats <=> Q(Tolerances) # {}
        /\ rules'.rel = LastOf(a + 1, Relative, IsFlag, given)
        /\ rules'.abs = LastOf(a + 1, Absolute, IsFlag, given)
    BY <1>2, <1>9, <2>1, <2>3, <2>4, Zenon DEF Mean, P, Q
  <2>6. (rules'.case <=> Q({"case_sensitive"}) # {}) /\ (rules'.space <=> Q({"space_change_sensitive"}) # {})
    <3>1. CASE f = "case_sensitive"
      <4>1. f \in {"case_sensitive"} /\ f \notin {"space_change_sensitive"}
        BY <3>1
      <4> QED BY <1>2, <2>1, <2>2, <2>4, <3>1, <4>1, Zenon DEF Mean, P
    <3>2. CASE f # "case_sensitive"
      <4>1. f \notin {"case_sensitive"} /\ f \in {"space_change_sensitive"}
        BY <1>9, <3>2
      <4> QED BY <1>2, <2>1, <2>2, <2>4, <3>2, <4>1, Zenon DEF Mean, P
    <3> QED BY <3>1, <3>2
  <2> QED BY <2>5, <2>6, Zenon DEF Mean, Q
<1>12. rules' \in RuleSet
  <2>1. 0 \in Nat
    OBVIOUS
  <2> QED BY <1>1, <1>2, <2>1, RulesAre
<1> QED BY <1>1, <1>2, <1>5, <1>6, <1>7, <1>8, <1>10, <1>11, <1>12 DEF Flagging

LEMMA DropTwo ==
    ASSUME NEW s \in Seq(STRING), Len(s) > 1
    PROVE  LET d == SubSeq(s, 3, Len(s))
           IN  d \in Seq(STRING) /\ Len(d) = Len(s) - 2 /\ \A j \in 1 .. Len(d) : d[j] = s[j + 2]
<1> DEFINE n == Len(s)
<1>1. n \in Nat /\ n > 1 /\ \A j \in 1 .. n : s[j] \in STRING
  OBVIOUS
<1> HIDE DEF n
<1> DEFINE d == SubSeq(s, 3, n)
<1>2. \A j \in 3 .. n : s[j] \in STRING
  BY <1>1
<1>3. /\ d \in Seq(STRING) /\ Len(d) = IF 3 <= n THEN n - 3 + 1 ELSE 0
      /\ \A j \in 1 .. n - 3 + 1 : d[j] = s[3 + j - 1]
  <2>1. 3 \in Int /\ n \in Int
    BY <1>1
  <2> QED BY <1>2, <2>1, SubSeqProperties
<1> HIDE DEF d
<1>4. Len(d) = n - 2 /\ n - 3 + 1 = n - 2 /\ \A j \in 1 .. n - 2 : 3 + j - 1 = j + 2
  BY <1>1, <1>3
<1>5. \A j \in 1 .. Len(d) : d[j] = s[j + 2]
  BY <1>3, <1>4
<1> QED BY <1>3, <1>4, <1>5 DEF n, d

LEMMA ValueFlag == Flagging /\ FloatFlag => Flagging'
<1> SUFFICES ASSUME Flagging, FloatFlag PROVE Flagging'
  OBVIOUS
<1> DEFINE a == At
           f == given[a + 1]
           v == Tolerance[args[2]]
<1>1. /\ pc = "flags" /\ Len(args) > 1 /\ Head(args) \in Tolerances /\ given' = given
      /\ \/ args[2] \in DOMAIN Tolerance /\ rules' = SetTolerances(v) /\ args' = SubSeq(args, 3, Len(args)) /\ pc' = pc
         \/ pc' = "done" /\ rules' = rules /\ args' = args
  BY DEF FloatFlag, TakesValue, Return
<1>2. /\ args \in Seq(STRING) /\ given \in Seq(STRING) /\ rules \in RuleSet /\ Len(args) <= Len(given)
      /\ \A j \in 1 .. Len(args) : args[j] = given[a + j]
      /\ args # <<>> => IsFlag[a + 1]
      /\ Mean(a, rules, IsFlag, given)
  BY <1>1 DEF Flagging
<1>3. /\ Len(args) \in Nat /\ Len(given) \in Nat /\ 1 \in 1 .. Len(args) /\ 2 \in 1 .. Len(args) /\ a \in Nat
      /\ a + 1 \in 1 .. Len(given) /\ a + 2 \in 1 .. Len(given) /\ args # <<>> /\ Head(args) = args[1]
      /\ (a + 1) + 1 = a + 2 /\ (a + 2) - 1 = a + 1 /\ Len(given) = a + Len(args)
  BY <1>1, <1>2 DEF At
<1>4. args[1] = f /\ args[2] = given[a + 2] /\ IsFlag[a + 1] /\ f \in Tolerances
  BY <1>1, <1>2, <1>3
<1>5. CASE pc' = "done" /\ rules' = rules /\ args' = args
  BY <1>1, <1>2, <1>5 DEF Flagging
<1>6. CASE args[2] \in DOMAIN Tolerance /\ rules' = SetTolerances(v) /\ args' = SubSeq(args, 3, Len(args)) /\ pc' = pc
  <2>1. /\ args' \in Seq(STRING) /\ Len(args') = Len(args) - 2 /\ \A j \in 1 .. Len(args') : args'[j] = args[j + 2]
    BY <1>1, <1>2, <1>6, DropTwo
  <2>2. At' = a + 2 /\ Len(args') <= Len(given)
    BY <1>1, <1>3, <2>1 DEF At
  <2>3. IsFlag' = IsFlag
    BY <1>1 DEF IsFlag
  <2> HIDE DEF a
  <2>4. \A j \in 1 .. Len(args') : args'[j] = given[(a + 2) + j]
    <3> TAKE j \in 1 .. Len(args')
    <3>1. j + 2 \in 1 .. Len(args) /\ a + (j + 2) = (a + 2) + j
      BY <1>3, <2>1
    <3> QED BY <1>2, <2>1, <3>1
  <2>5. ~IsFlag[a + 2]
    <3>1. a + 2 # 1
      BY <1>3
    <3> QED BY <1>2, <1>3, <1>4, <3>1, IsFlagTurns
  <2>6. args' # <<>> => IsFlag[(a + 2) + 1]
    <3>1. SUFFICES ASSUME args' # <<>> PROVE IsFlag[(a + 2) + 1]
      OBVIOUS
    <3>2. (a + 2) + 1 \in 1 .. Len(given) /\ ((a + 2) + 1) - 1 = a + 2
      <4>1. Len(args') >= 1
        BY <2>1, <3>1
      <4> QED BY <1>3, <2>1, <4>1
    <3> QED BY <1>2, <2>5, <3>2, IsFlagTurns
  <2>7. v \in Nat /\ v = Tolerance[given[a + 2]]
    BY <1>4, <1>6 DEF Tolerance
  <2>8. /\ rules' \in RuleSet
        /\ rules'.floats = TRUE
        /\ rules'.rel = (IF args[1] # "float_absolute_tolerance" THEN v ELSE rules.rel)
        /\ rules'.abs = (IF args[1] # "float_relative_tolerance" THEN v ELSE rules.abs)
        /\ rules'.case = rules.case /\ rules'.space = rules.space
    <3> HIDE DEF v
    <3> QED BY <1>2, <1>6, <2>7, RulesAre
  <2>9. \A set : Places(a + 2, set, IsFlag, given) = Places(a + 1, set, IsFlag, given)
                /\ LastOf(a + 2, set, IsFlag, given) = LastOf(a + 1, set, IsFlag, given)
    <3> TAKE set
    <3>1. a + 1 \in Nat
      BY <1>3
    <3>2. ~(IsFlag[(a + 1) + 1] /\ given[(a + 1) + 1] \in set) =>
                /\ Places((a + 1) + 1, set, IsFlag, given) = Places(a + 1, set, IsFlag, given)
                /\ LastOf((a + 1) + 1, set, IsFlag, given) = LastOf(a + 1, set, IsFlag, given)
      BY <3>1, PlacesNext
    <3> QED BY <1>3, <2>5, <3>2
  <2>10. \A set : f \notin set => /\ Places(a + 2, set, IsFlag, given) = Places(a, set, IsFlag, given)
                                  /\ LastOf(a + 2, set, IsFlag, given) = LastOf(a, set, IsFlag, given)
    <3> TAKE set
    <3>1. f \notin set => /\ Places(a + 1, set, IsFlag, given) = Places(a, set, IsFlag, given)
                          /\ LastOf(a + 1, set, IsFlag, given) = LastOf(a, set, IsFlag, given)
      BY <1>3, PlacesNext
    <3> QED BY <2>9, <3>1, Zenon
  <2>11. \A set : f \in set => /\ Places(a + 2, set, IsFlag, given) # {}
                               /\ LastOf(a + 2, set, IsFlag, given) = v
    <3> TAKE set
    <3>1. f \in set => /\ Places(a + 1, set, IsFlag, given) # {}
                       /\ LastOf(a + 1, set, IsFlag, given) = Tolerance[given[(a + 1) + 1]]
      BY <1>3, <1>4, PlacesNext, ZenonT(60)
    <3> QED BY <1>3, <2>7, <2>9, <3>1
  <2>12. Mean(a + 2, rules', IsFlag, given)
    <3>1. f \notin {"case_sensitive"} /\ f \notin {"space_change_sensitive"}
          /\ (f \in Relative <=> f # "float_absolute_tolerance")
          /\ (f \in Absolute <=> f # "float_relative_tolerance")
      BY <1>4 DEF Tolerances, Relative, Absolute
    <3> HIDE DEF f, v
    <3>2. /\ rules'.case <=> Places(a + 2, {"case_sensitive"}, IsFlag, given) # {}
          /\ rules'.space <=> Places(a + 2, {"space_change_sensitive"}, IsFlag, given) # {}
      BY <1>2, <2>8, <2>10, <3>1, Zenon DEF Mean
    <3>3. rules'.floats <=> Places(a + 2, Tolerances, IsFlag, given) # {}
      BY <1>4, <2>8, <2>11, Zenon
    <3>4. rules'.rel = LastOf(a + 2, Relative, IsFlag, given)
      <4>1. CASE f # "float_absolute_tolerance"
        BY <1>4, <2>8, <2>11, <3>1, <4>1, Zenon
      <4>2. CASE f = "float_absolute_tolerance"
        BY <1>2, <1>4, <2>8, <2>10, <3>1, <4>2, Zenon DEF Mean
      <4> QED BY <4>1, <4>2
    <3>5. rules'.abs = LastOf(a + 2, Absolute, IsFlag, given)
      <4>1. CASE f # "float_relative_tolerance"
        BY <1>4, <2>8, <2>11, <3>1, <4>1, Zenon
      <4>2. CASE f = "float_relative_tolerance"
        BY <1>2, <1>4, <2>8, <2>10, <3>1, <4>2, Zenon DEF Mean
      <4> QED BY <4>1, <4>2
    <3> QED BY <3>2, <3>3, <3>4, <3>5, Zenon DEF Mean
  <2> HIDE DEF v
  <2> QED BY <1>1, <1>2, <1>6, <2>1, <2>2, <2>3, <2>4, <2>6, <2>8, <2>12 DEF Flagging
<1> QED BY <1>1, <1>5, <1>6

LEMMA FlagStep == Scanning /\ Flagging /\ [Next]_vars => Flagging'
<1> SUFFICES ASSUME Scanning, Flagging, [Next]_vars PROVE Flagging'
  OBVIOUS
<1>1. CASE Open \/ UnknownFlag \/ Over \/ UNCHANGED vars
  <2>1. args' = args /\ given' = given /\ rules' = rules
        /\ (pc' = pc \/ (pc = "open" /\ pc' = "flags") \/ pc' = "done")
    BY <1>1 DEF Open, UnknownFlag, Over, vars, scanVars, Return
  <2>2. IsFlag' = IsFlag /\ At' = At
    BY <2>1 DEF IsFlag, At
  <2> QED BY <2>1, <2>2 DEF Flagging
<1>2. CASE FlagsDone
  <2>1. pc = "flags" /\ args = <<>> /\ pc' = "skip" /\ args' = args /\ given' = given /\ rules' = rules
    BY <1>2 DEF FlagsDone, scanVars
  <2>2. IsFlag' = IsFlag
    BY <2>1 DEF IsFlag
  <2>3. given \in Seq(STRING) /\ Mean(At, rules, IsFlag, given)
    BY <2>1 DEF Flagging
  <2>4. At = Len(given)
    BY <2>1, <2>3 DEF At
  <2> QED BY <2>1, <2>2, <2>3, <2>4 DEF Flagging
<1>3. CASE SkipSpace \/ SkipDone \/ TakeByte \/ EndToken \/ Compare \/ ReadFails
  <2>1. /\ pc \in {"skip", "take", "compare"} /\ args' = args /\ given' = given /\ rules' = rules
    BY <1>3 DEF SkipSpace, SkipDone, TakeByte, EndToken, Compare, ReadFails, scanVars
  <2>2. pc' \notin {"open", "flags"}
    <3>1. CASE SkipSpace \/ Compare \/ ReadFails
      BY <3>1 DEF SkipSpace, Compare, ReadFails, Return
    <3>2. CASE SkipDone \/ TakeByte \/ EndToken
      <4>1. turn \in {"ref", "out", "end"}
        BY DEF Scanning
      <4>2. EndOfFile => pc' \notin {"open", "flags"}
        BY <4>1 DEF EndOfFile, Return
      <4>3. GotToken => pc' \notin {"open", "flags"}
        BY <4>1 DEF GotToken, Return
      <4>4. SkipDone => EndOfFile \/ pc' = "take"
        BY DEF SkipDone
      <4>5. TakeByte \/ EndToken => GotToken \/ EndOfFile \/ pc' = pc \/ pc' = "fatal"
        BY DEF TakeByte, EndToken
      <4> QED BY <2>1, <3>2, <4>2, <4>3, <4>4, <4>5
    <3> QED BY <1>3, <3>1, <3>2
  <2>3. IsFlag' = IsFlag
    BY <2>1 DEF IsFlag
  <2> QED BY <2>1, <2>2, <2>3 DEF Flagging
<1> QED BY <1>1, <1>2, <1>3, SwitchFlag, ValueFlag DEF Next, DiffNext

(* No space ends an empty token (the logger.Fatal of diff.go 164 is not      *)
(* reached), and the rules the files are compared by are those the flags    *)
(* ask for, in any order (eval.go 705-731).                                 *)
THEOREM RulesAreAsAsked == Spec => []Inv
<1>1. Scanning => TypeOK
  <2> SUFFICES ASSUME Scanning PROVE TypeOK
    OBVIOUS
  <2>1. \A f \in Files : sc[f].at \in 0 .. Len(text[f]) /\ sc[f].token \in Seq(Chars)
    <3>1. \A f \in Files : sc[f] \in ScannerSet /\ Reads(sc[f], text[f])
      BY DEF Scanning, Reading
    <3> QED BY <3>1 DEF ScannerSet, Reads
  <2> QED BY <2>1 DEF Scanning, TypeOK
<1>2. Flagging => RulesMeanFlags
  BY DEF Flagging, Mean, LastOf, Places, Relative, Absolute, RulesMeanFlags
<1> QED BY <1>1, <1>2, ScanStart, ScanStep, FlagStart, FlagStep, PTL DEF Spec, Inv

-----------------------------------------------------------------------------
(* A scanner that has passed the first k tokens of its file: it stands       *)
(* between tokens, behind k of them; or within the next; or behind it, and  *)
(* holds it. *)
Passed(t, space, s, k) ==
    /\ s.at = 0 \/ s.at = Len(t) \/ isSpace[t[s.at]] \/ isSpace[t[s.at + 1]]
    /\ Count(t, space, s.at) = k

Within(t, space, s, k) ==
    /\ Begin(s) + 1 \in Starts(t, space)
    /\ Count(t, space, Begin(s) + 1) = k + 1 /\ Count(t, space, s.at) = k + 1
    /\ \A j \in Begin(s) + 1 .. s.at : ~isSpace[t[j]]

Scans(t, space, s, k, p) ==
    /\ p = "take" /\ s.token # <<>> => Within(t, space, s, k)
    /\ ~(p = "take" /\ s.token # <<>>) => Passed(t, space, s, k)

Holds(t, space, s, k) ==
    /\ Passed(t, space, s, k + 1)
    /\ k + 1 \in 1 .. Len(Tokens(t, space))
    /\ s.token = Tokens(t, space)[k + 1]

(* What the next byte is to the tokens. *)
LEMMA BeginsWord ==
    ASSUME NEW t \in Seq(Chars), NEW space, NEW s, s.at \in Nat, s.at + 1 \in 1 .. Len(t),
           NEW k, Passed(t, space, s, k), ~isSpace[t[s.at + 1]]
    PROVE  s.at + 1 \in Starts(t, space)
<1> DEFINE a == s.at
<1>1. a \in Nat /\ a + 1 \in 1 .. Len(t) /\ (a = 0 \/ isSpace[t[a]]) /\ (a + 1) - 1 = a
  BY DEF Passed
<1>2. DOMAIN t = 1 .. Len(t)
  OBVIOUS
<1>3. a = 0 => a + 1 = 1
  OBVIOUS
<1> HIDE DEF a
<1>4. a + 1 \in Starts(t, space)
  BY <1>1, <1>2, <1>3 DEF Starts, a
<1> QED BY <1>4 DEF a

(* A word that begins or goes on. *)
LEMMA WordGoesOn ==
    ASSUME NEW t \in Seq(Chars), NEW space, NEW s \in ScannerSet, NEW e \in ScannerSet, NEW k \in Nat,
           s.at + 1 \in 1 .. Len(t), Scans(t, space, s, k, "take"), Stands(s, t), ~isSpace[t[s.at + 1]],
           e.at = s.at + 1, Begin(e) = Begin(s), e.token # <<>>
    PROVE  Scans(t, space, e, k, "take")
<1> DEFINE a == s.at
           b == Begin(s)
<1>1. a \in Nat /\ b \in Nat /\ Len(t) \in Nat /\ Len(s.token) \in Nat /\ b = a - Len(s.token) /\ a + 1 \in 1 .. Len(t)
  <2>1. b \in Nat
    BY DEF Stands
  <2>2. a \in Nat /\ s.token \in Seq(Chars)
    BY DEF ScannerSet
  <2>3. Len(s.token) \in Nat /\ Len(t) \in Nat
    BY <2>2
  <2>4. b = a - Len(s.token)
    BY DEF Begin
  <2> QED BY <2>1, <2>2, <2>3, <2>4
<1>2. CASE s.token = <<>>
  <2>1. Passed(t, space, s, k)
    BY <1>2 DEF Scans
  <2>2. a + 1 \in Starts(t, space) /\ Count(t, space, a) = k
    BY <1>1, <2>1, BeginsWord DEF Passed
  <2>3. b = a
    BY <1>1, <1>2
  <2>4. Count(t, space, a + 1) = k + 1
    BY <1>1, <2>2, CountNext
  <2>5. \A j \in a + 1 .. a + 1 : j = a + 1
    BY <1>1
  <2>6. Within(t, space, e, k)
    <3>1. \A j \in Begin(e) + 1 .. e.at : ~isSpace[t[j]]
      BY <2>3, <2>5
    <3>2. Begin(e) + 1 = e.at /\ e.at = a + 1
      BY <2>3
    <3> HIDE DEF a, b
    <3> QED BY <2>2, <2>4, <3>1, <3>2 DEF Within
  <2> QED BY <2>6 DEF Scans
<1>3. CASE s.token # <<>>
  <2>1. Within(t, space, s, k)
    BY <1>3 DEF Scans
  <2>2. b + 1 <= a /\ a >= 1
    <3>1. Len(s.token) # 0
      BY <1>3 DEF ScannerSet
    <3> QED BY <1>1, <3>1
  <2>3. ~isSpace[t[a]] /\ a \in b + 1 .. a
    BY <1>1, <2>1, <2>2, SMTT(30) DEF Within
  <2>4. a + 1 \notin Starts(t, space)
    <3>1. a + 1 # 1 /\ (a + 1) - 1 = a
      BY <1>1, <2>2
    <3> HIDE DEF a
    <3> QED BY <2>3, <3>1 DEF Starts, a
  <2>5. Count(t, space, a + 1) = k + 1
    BY <1>1, <2>1, <2>4, CountNext DEF Within
  <2>6. \A j \in b + 1 .. a + 1 : ~isSpace[t[j]]
    <3> TAKE j \in b + 1 .. a + 1
    <3>1. j \in b + 1 .. a \/ j = a + 1
      BY <1>1
    <3> QED BY <2>1, <3>1 DEF Within
  <2>7. Within(t, space, e, k)
    BY <2>1, <2>5, <2>6 DEF Within
  <2> QED BY <2>7 DEF Scans
<1> QED BY <1>2, <1>3

(* A space that is skipped, and one that is a token. *)
LEMMA SpaceSkipped ==
    ASSUME NEW t \in Seq(Chars), NEW s, NEW e, NEW k, s.at \in Nat, s.at + 1 \in 1 .. Len(t),
           Passed(t, FALSE, s, k), isSpace[t[s.at + 1]], e.at = s.at + 1
    PROVE  Passed(t, FALSE, e, k)
<1>1. s.at + 1 \notin Starts(t, FALSE)
  BY DEF Starts
<1>2. Count(t, FALSE, s.at + 1) = k
  BY <1>1, CountNext DEF Passed
<1> QED BY <1>2 DEF Passed

LEMMA SpaceTaken ==
    ASSUME NEW t \in Seq(Chars), NEW s, NEW e, NEW k \in Nat, s.at \in Nat, s.at + 1 \in 1 .. Len(t),
           Passed(t, TRUE, s, k), isSpace[t[s.at + 1]], e.at = s.at + 1, e.token = <<t[s.at + 1]>>
    PROVE  Holds(t, TRUE, e, k)
<1> DEFINE i == s.at + 1
<1>1. DOMAIN t = 1 .. Len(t)
  OBVIOUS
<1>2. i \in Starts(t, TRUE)
  BY <1>1 DEF Starts
<1>3. Count(t, TRUE, i) = k + 1
  BY <1>2, CountNext DEF Passed
<1>4. k + 1 \in 1 .. Len(Tokens(t, TRUE)) /\ Tokens(t, TRUE)[k + 1] = TokenAt(t, i)
  BY <1>2, <1>3, NthIs, ZenonT(60)
<1>5. TokenAt(t, i) = <<t[i]>>
  BY DEF TokenAt
<1>6. Passed(t, TRUE, e, k + 1)
  BY <1>3 DEF Passed
<1> QED BY <1>4, <1>5, <1>6 DEF Holds

(* The end of a word, and of a file. *)
LEMMA WordEnds ==
    ASSUME NEW t \in Seq(Chars), NEW space, NEW s \in ScannerSet, NEW k \in Nat, s.at \in 0 .. Len(t),
           Within(t, space, s, k), Stands(s, t), s.token # <<>>,
           s.at = Len(t) \/ isSpace[t[s.at + 1]]
    PROVE  Holds(t, space, s, k)
<1> DEFINE i == Begin(s) + 1
           a == s.at
<1>1. a \in Nat /\ i \in Nat /\ Len(t) \in Nat /\ i = a - Len(s.token) + 1 /\ Len(s.token) \in Nat /\ Len(s.token) # 0
  <2>1. s.at \in Nat /\ s.token \in Seq(Chars) /\ s.at - Len(s.token) \in Nat /\ s.token # <<>>
    BY DEF ScannerSet, Stands, Begin
  <2>2. Len(s.token) \in Nat /\ Len(s.token) # 0 /\ Len(t) \in Nat
    BY <2>1
  <2> DEFINE l == Len(s.token)
  <2>3. a \in Nat /\ l \in Nat /\ a - l \in Nat /\ i = a - l + 1
    BY <2>1, <2>2 DEF Begin
  <2> HIDE DEF a, l, i
  <2>4. i \in Nat
    BY <2>3
  <2> QED BY <2>2, <2>3, <2>4 DEF l, a
<1>2. i \in 1 .. Len(t) /\ a \in i .. Len(t)
  <2> DEFINE l == Len(s.token)
  <2>1. i - 1 \in Nat
    BY <1>1 DEF Stands
  <2>2. a \in Nat /\ i \in Nat /\ l \in Nat /\ l # 0 /\ i = a - l + 1 /\ a <= Len(t) /\ Len(t) \in Nat
    BY <1>1
  <2> HIDE DEF a, i, l
  <2> QED BY <2>1, <2>2
<1>3. i \in Starts(t, space) /\ Count(t, space, i) = k + 1 /\ Count(t, space, a) = k + 1 /\ \A j \in i .. a : ~isSpace[t[j]]
  BY DEF Within
<1>4. k + 1 \in 1 .. Len(Tokens(t, space)) /\ Tokens(t, space)[k + 1] = TokenAt(t, i)
  <2> HIDE DEF i
  <2> QED BY <1>3, NthIs
<1>5. TokenAt(t, i) = SubSeq(t, i, a)
  <2> HIDE DEF i, a
  <2>1. a = Len(t) \/ isSpace[t[a + 1]]
    BY DEF a
  <2> QED BY <1>2, <1>3, <2>1, WordIs
<1>6. s.token = SubSeq(t, i, a)
  BY DEF Stands
<1>7. Passed(t, space, s, k + 1)
  BY <1>3 DEF Passed
<1> QED BY <1>4, <1>5, <1>6, <1>7 DEF Holds

LEMMA FileEnds ==
    ASSUME NEW t \in Seq(Chars), NEW space, NEW s, NEW k, Passed(t, space, s, k), s.at = Len(t)
    PROVE  Len(Tokens(t, space)) = k
BY CountEnds DEF Passed

-----------------------------------------------------------------------------
(* One step of the scanner that is running. *)
Toks(f) == Tokens(text[f], rules.space)

LEMMA ScanOn ==
    ASSUME Scanning, NEW k \in Nat, pc \in {"skip", "take"},
           Scans(text[File], rules.space, S, k, pc),
           SkipSpace \/ SkipDone \/ TakeByte \/ EndToken
    PROVE  /\ text' = text /\ rules' = rules
           /\ \A f \in Files : f # File => sc'[f] = sc[f]
           /\ \/ /\ pc' \in {"skip", "take"} /\ turn' = turn /\ result' = result
                 /\ Scans(text[File], rules.space, sc'[File], k, pc')
              \/ GotToken /\ Holds(text[File], rules.space, sc'[File], k)
              \/ EndOfFile /\ Len(Toks(File)) = k /\ Passed(text[File], rules.space, sc'[File], k)
<1> DEFINE t == text[File]
           space == rules.space
<1>0. /\ text' = text /\ rules' = rules /\ space \in BOOLEAN /\ sc \in [Files -> ScannerSet] /\ t \in Seq(Chars)
      /\ S \in ScannerSet /\ S.at \in 0 .. Len(t) /\ (pc = "take" => Stands(S, t))
  <2>1. text' = text /\ rules' = rules
    BY DEF SkipSpace, SkipDone, TakeByte, EndToken, scanVars
  <2>2. sc[File] \in ScannerSet /\ Reading(File)
    BY FileIs DEF Scanning
  <2>3. S \in ScannerSet /\ S.at \in 0 .. Len(t) /\ (pc = "take" => Stands(S, t))
    BY <2>2 DEF S, Reading, Reads
  <2> QED BY <2>1, <2>3, FileIs DEF Scanning, RuleSet
<1>1. ~AtEnd => /\ S.at + 1 \in 1 .. Len(t) /\ S.at \in Nat /\ Next1 = t[S.at + 1] /\ Next1 \in Chars
                /\ Eat(S).at = S.at + 1 /\ Eat(S).token = S.token /\ Eat(S) \in ScannerSet
  <2>1. SUFFICES ASSUME ~AtEnd
                 PROVE  /\ S.at + 1 \in 1 .. Len(t) /\ S.at \in Nat /\ Next1 = t[S.at + 1] /\ Next1 \in Chars
                        /\ Eat(S).at = S.at + 1 /\ Eat(S).token = S.token /\ Eat(S) \in ScannerSet
    OBVIOUS
  <2>2. /\ S.at + 1 \in 1 .. Len(t) /\ Next1 \in Chars
        /\ Eat(S).at = S.at + 1 /\ Eat(S).token = S.token /\ Eat(S) \in ScannerSet
    BY <2>1, EatIs
  <2>3. S.at \in Nat
    BY <1>0 DEF ScannerSet
  <2> QED BY <2>2, <2>3 DEF Next1
<1>2. AtEnd => S.at = Len(t)
  BY DEF AtEnd
<1>3. CASE SkipSpace
  <2>1. ~space /\ ~AtEnd /\ isSpace[Next1] /\ sc' = [sc EXCEPT ![File] = Eat(S)] /\ pc = "skip" /\ pc' = pc
        /\ turn' = turn /\ result' = result
    BY <1>3 DEF SkipSpace, S
  <2>2. sc'[File] = Eat(S) /\ \A f \in Files : f # File => sc'[f] = sc[f]
    BY <1>0, <2>1, FileIs
  <2>3. space = FALSE /\ Passed(t, FALSE, S, k)
    <3>1. space = FALSE
      BY <1>0, <2>1
    <3>2. Passed(t, space, S, k)
      BY <2>1 DEF Scans
    <3> QED BY <3>1, <3>2
  <2>4. Passed(t, FALSE, Eat(S), k)
    <3> HIDE DEF t
    <3> QED BY <1>0, <1>1, <2>1, <2>3, SpaceSkipped
  <2>5. Scans(t, space, sc'[File], k, pc')
    BY <2>1, <2>2, <2>3, <2>4 DEF Scans
  <2> QED BY <1>0, <2>1, <2>2, <2>5
<1>4. CASE SkipDone
  <2> DEFINE n == [S EXCEPT !.token = <<>>, !.start = <<S.line, S.col>>]
  <2>1. sc' = [sc EXCEPT ![File] = n] /\ pc = "skip"
    BY <1>0, <1>4, FileIs DEF SkipDone, S
  <2>2. n.at = S.at /\ n.token = <<>>
    BY <1>0 DEF ScannerSet
  <2> HIDE DEF n
  <2>3. sc'[File] = n /\ \A f \in Files : f # File => sc'[f] = sc[f]
    BY <1>0, <2>1, FileIs
  <2>4. Passed(t, space, S, k)
    BY <2>1 DEF Scans
  <2>5. Passed(t, space, n, k)
    BY <2>2, <2>4 DEF Passed
  <2>6. CASE pc' = "take" /\ UNCHANGED <<turn, result>>
    <3>1. Scans(t, space, sc'[File], k, pc')
      BY <2>2, <2>3, <2>5, <2>6 DEF Scans
    <3> QED BY <1>0, <2>3, <2>6, <3>1
  <2>7. CASE AtEnd /\ EndOfFile
    <3>1. Len(Tokens(t, space)) = k
      <4> HIDE DEF t
      <4> QED BY <1>0, <1>2, <2>4, <2>7, FileEnds
    <3> QED BY <1>0, <2>3, <2>5, <2>7, <3>1 DEF Toks
  <2> QED BY <1>4, <2>6, <2>7 DEF SkipDone
<1>5. CASE TakeByte
  <2> DEFINE n == [Eat(S) EXCEPT !.token = Append(@, Next1)]
  <2>1. /\ pc = "take" /\ ~AtEnd /\ TakesNext /\ sc' = [sc EXCEPT ![File] = n]
        /\ IF isSpace[Next1] THEN GotToken ELSE UNCHANGED <<pc, turn, result>>
    BY <1>5 DEF TakeByte, CanTake
  <2>2. n \in ScannerSet /\ n.at = S.at + 1 /\ n.token = Append(S.token, Next1) /\ n.token # <<>> /\ Begin(n) = Begin(S)
    <3> DEFINE e == Eat(S)
               m == [e EXCEPT !.token = Append(@, Next1)]
    <3>1. e \in ScannerSet /\ e.at = S.at + 1 /\ e.token = S.token /\ Next1 \in Chars /\ S.token \in Seq(Chars) /\ S.at \in Nat
      BY <1>0, <1>1, <2>1 DEF ScannerSet
    <3> HIDE DEF e
    <3>2. Append(e.token, Next1) \in Seq(Chars) /\ Append(e.token, Next1) # <<>> /\ Len(Append(e.token, Next1)) = Len(S.token) + 1
          /\ Len(S.token) \in Nat
      BY <3>1
    <3>3. m \in ScannerSet /\ m.at = S.at + 1 /\ m.token = Append(e.token, Next1)
      BY <3>1, <3>2 DEF ScannerSet
    <3>4. n = m
      BY DEF e
    <3> HIDE DEF m, n
    <3>5. Begin(n) = Begin(S)
      <4> DEFINE a == S.at
                 l == Len(S.token)
      <4>1. a \in Nat /\ l \in Nat /\ Begin(S) = a - l
        BY <3>1, <3>2 DEF Begin
      <4>2. n.at = a + 1 /\ Len(n.token) = l + 1 /\ Begin(n) = n.at - Len(n.token)
        BY <3>1, <3>2, <3>3, <3>4 DEF Begin
      <4> HIDE DEF a, l
      <4> QED BY <4>1, <4>2
    <3> QED BY <3>1, <3>2, <3>3, <3>4, <3>5
  <2> HIDE DEF n
  <2>3. sc'[File] = n /\ \A f \in Files : f # File => sc'[f] = sc[f]
    BY <1>0, <2>1, <2>2, FileIs
  <2>4. CASE ~isSpace[Next1]
    <3>1. Scans(t, space, n, k, "take")
      <4> HIDE DEF t
      <4>1. Scans(t, space, S, k, "take")
        BY <2>1 DEF t
      <4> QED BY <1>0, <1>1, <2>1, <2>2, <2>4, <4>1, WordGoesOn
    <3> QED BY <1>0, <2>1, <2>3, <2>4, <3>1
  <2>5. CASE isSpace[Next1]
    <3>1. space = TRUE /\ S.token = <<>> /\ Passed(t, space, S, k)
      BY <1>0, <2>1, <2>5 DEF TakesNext, Scans
    <3>2. n.token = <<Next1>>
      BY <1>1, <2>1, <2>2, <3>1
    <3>3. Holds(t, TRUE, n, k)
      <4> HIDE DEF t
      <4> QED BY <1>0, <1>1, <2>1, <2>2, <2>5, <3>1, <3>2, SpaceTaken
    <3> QED BY <1>0, <2>1, <2>3, <2>5, <3>1, <3>3
  <2> QED BY <2>4, <2>5
<1>6. CASE EndToken
  <2>1. pc = "take" /\ ~CanTake /\ sc' = sc /\ (S.token # <<>> => GotToken) /\ (S.token = <<>> /\ AtEnd => EndOfFile)
    BY <1>6 DEF EndToken
  <2>2. CASE S.token # <<>>
    <3>1. AtEnd \/ isSpace[Next1]
      BY <2>1 DEF CanTake, TakesNext
    <3>2. S.at = Len(t) \/ isSpace[t[S.at + 1]]
      BY <1>1, <1>2, <3>1
    <3>3. Within(t, space, S, k)
      BY <2>1, <2>2 DEF Scans
    <3>4. Holds(t, space, S, k)
      <4> HIDE DEF t
      <4> QED BY <1>0, <2>1, <2>2, <3>2, <3>3, WordEnds
    <3> QED BY <1>0, <2>1, <2>2, <3>4 DEF S
  <2>3. CASE S.token = <<>>
    <3>1. AtEnd
      <4>1. SUFFICES ASSUME ~AtEnd PROVE FALSE
        OBVIOUS
      <4>2. isSpace[Next1] /\ ~rules.space
        BY <2>1, <2>3, <4>1 DEF CanTake, TakesNext
      <4> QED BY <2>1, <2>3, <4>2 DEF Scanning
    <3>2. Passed(t, space, S, k)
      BY <2>3 DEF Scans
    <3>3. Len(Tokens(t, space)) = k
      <4> HIDE DEF t
      <4> QED BY <1>0, <1>2, <3>1, <3>2, FileEnds
    <3> QED BY <1>0, <2>1, <2>3, <3>1, <3>2, <3>3 DEF Toks, S
  <2> QED BY <2>2, <2>3
<1> QED BY <1>3, <1>4, <1>5, <1>6

-----------------------------------------------------------------------------
(* The loop of Diff has compared the first n tokens of both files, and the   *)
(* scanners are at the next. *)
Matched(n) == n <= Len(Toks("ref")) /\ n <= Len(Toks("out")) /\ \A k \in 1 .. n : Same(Toks("ref")[k], Toks("out")[k])

Agree == /\ Len(Toks("ref")) = Len(Toks("out"))
         /\ \A k \in DOMAIN Toks("ref") : Same(Toks("ref")[k], Toks("out")[k])

Passes(f, n) == Passed(text[f], rules.space, sc[f], n)
Goes(f, n) == pc \in {"skip", "take"} /\ Scans(text[f], rules.space, sc[f], n, pc)
Has(f, n) == Holds(text[f], rules.space, sc[f], n)

Compared(n) ==
    \/ turn = "ref" /\ Goes("ref", n) /\ Passes("out", n)
    \/ turn = "out" /\ Goes("out", n) /\ Has("ref", n)
    \/ turn = "out" /\ pc = "compare" /\ Has("out", n) /\ Has("ref", n)
    \/ turn = "end" /\ Goes("out", n) /\ Len(Toks("ref")) = n

Matching ==
    /\ pc \in {"skip", "take", "compare"} => \E n \in Nat : Matched(n) /\ Compared(n)
    /\ MatchMeansSame

LEMMA ToksLength == Scanning => Len(Toks("ref")) \in Nat /\ Len(Toks("out")) \in Nat
<1> SUFFICES ASSUME Scanning PROVE Len(Toks("ref")) \in Nat /\ Len(Toks("out")) \in Nat
  OBVIOUS
<1>1. text["ref"] \in Seq(Chars) /\ text["out"] \in Seq(Chars)
  BY DEF Scanning, Files
<1> QED BY <1>1, CountEnds DEF Toks

LEMMA SameIsMatch == \A r, o : matchToken(r, o) <=> Same(r, o)
<1> TAKE r, o
<1> DEFINE x == 10 * Distance(Value(r), Value(o))
<1>1. MatchFloat(r, o) <=> /\ <<"nan">> \notin {r, o}
                           /\ \/ Infinite(r) /\ r # o /\ rules.rel > 0
                              \/ /\ ~Infinite(r) /\ ~Infinite(o)
                                 /\ x <= rules.abs \/ x <= rules.rel * Value(r)
  BY Zenon DEF MatchFloat, MatchInfinite
<1>2. Same(r, o) <=> \/ /\ rules.floats /\ IsNumber(r) /\ IsNumber(o) /\ <<"nan">> \notin {r, o}
                        /\ \/ Infinite(r) /\ r # o /\ rules.rel > 0
                           \/ /\ ~Infinite(r) /\ ~Infinite(o)
                              /\ \E d \in {rules.abs, rules.rel * Value(r)} : x <= d
                     \/ ~(rules.floats /\ IsNumber(r)) /\ EqualFold(r, o) /\ (r = o \/ ~rules.case)
  <2>1. CASE Infinite(r)
    BY <2>1, Zenon DEF Same
  <2>2. CASE ~Infinite(r)
    BY <2>2, Zenon DEF Same
  <2> QED BY <2>1, <2>2
<1> HIDE DEF x
<1>3. (\E d \in {rules.abs, rules.rel * Value(r)} : x <= d) <=> (x <= rules.abs \/ x <= rules.rel * Value(r))
  BY Zenon
<1> QED BY <1>1, <1>2, <1>3, Zenon DEF matchToken

LEMMA MatchedNext ==
    ASSUME Scanning, NEW n \in Nat, Matched(n), Has("ref", n), Has("out", n)
    PROVE  /\ Same(sc["ref"].token, sc["out"].token) => Matched(n + 1)
           /\ ~Same(sc["ref"].token, sc["out"].token) =>
                ~Agree
<1> DEFINE R == Toks("ref")
           O == Toks("out")
<1>1. Len(R) \in Nat /\ Len(O) \in Nat
  BY ToksLength
<1>2. n + 1 \in 1 .. Len(R) /\ n + 1 \in 1 .. Len(O) /\ sc["ref"].token = R[n + 1] /\ sc["out"].token = O[n + 1]
  BY DEF Has, Holds, Toks
<1>3. DOMAIN R = 1 .. Len(R)
  <2>1. text["ref"] \in Seq(Chars)
    BY DEF Scanning, Files
  <2>2. Len(Tokens(text["ref"], rules.space)) = Cardinality(Starts(text["ref"], rules.space))
    BY <2>1, CountEnds
  <2> QED BY <2>2 DEF Toks, Tokens
<1>4. \A k \in 1 .. n : Same(R[k], O[k])
  BY DEF Matched
<1> HIDE DEF R, O
<1>5. ASSUME Same(sc["ref"].token, sc["out"].token) PROVE Matched(n + 1)
  <2>1. \A k \in 1 .. n + 1 : k \in 1 .. n \/ k = n + 1
    OBVIOUS
  <2>2. \A k \in 1 .. n + 1 : Same(R[k], O[k])
    BY <1>2, <1>4, <1>5, <2>1, Zenon
  <2> QED BY <1>1, <1>2, <2>2 DEF Matched, R, O
<1>6. ASSUME ~Same(sc["ref"].token, sc["out"].token) PROVE ~(\A k \in DOMAIN R : Same(R[k], O[k]))
  BY <1>2, <1>3, <1>6, Zenon
<1> QED BY <1>5, <1>6 DEF R, O, Agree

LEMMA MatchStart == Init => Matching
BY DEF Init, Matching, MatchMeansSame

(* The verdict, when the files differ in length. *)
LEMMA Verdicts ==
    ASSUME Scanning, NEW n \in Nat, Matched(n)
    PROVE  /\ Len(Toks("ref")) = n /\ Len(Toks("out")) = n => Agree
           /\ Len(Toks("ref")) = n /\ Has("out", n) => ~Agree
           /\ Len(Toks("out")) = n /\ Has("ref", n) => ~Agree
<1>1. Len(Toks("ref")) \in Nat /\ Len(Toks("out")) \in Nat
  BY ToksLength
<1>2. \A f : Has(f, n) => n + 1 <= Len(Toks(f))
  BY DEF Has, Holds, Toks
<1>3. DOMAIN Toks("ref") = 1 .. Len(Toks("ref"))
  <2>1. text["ref"] \in Seq(Chars)
    BY DEF Scanning, Files
  <2>2. Len(Tokens(text["ref"], rules.space)) = Cardinality(Starts(text["ref"], rules.space))
    BY <2>1, CountEnds
  <2> QED BY <2>2 DEF Toks, Tokens
<1>4. \A k \in 1 .. n : Same(Toks("ref")[k], Toks("out")[k])
  BY DEF Matched
<1>5. Len(Toks("ref")) = n => \A k \in DOMAIN Toks("ref") : Same(Toks("ref")[k], Toks("out")[k])
  BY <1>3, <1>4
<1>6. Has("out", n) => n + 1 <= Len(Toks("out"))
  BY <1>2
<1>7. Has("ref", n) => n + 1 <= Len(Toks("ref"))
  BY <1>2
<1> QED BY <1>1, <1>5, <1>6, <1>7 DEF Agree

LEMMA MeansAgree == MatchMeansSame <=> (result \in {"match", "differ"} => (result = "match" <=> Agree))
BY Zenon DEF MatchMeansSame, Agree, Toks

LEMMA Unchanged ==
    ASSUME text' = text, rules' = rules
    PROVE  (Agree' <=> Agree) /\ \A n : Matched(n)' <=> Matched(n)
<1>1. \A f : Toks(f)' = Toks(f)
  BY DEF Toks
<1>2. \A r, o : Same(r, o)' <=> Same(r, o)
  BY Zenon DEF Same
<1>3. Toks("ref")' = Toks("ref") /\ Toks("out")' = Toks("out")
  BY <1>1
<1> QED BY <1>2, <1>3, Zenon DEF Agree, Matched

LEMMA MatchFlags ==
    Scanning /\ Matching /\ (Open \/ Switch \/ FloatFlag \/ UnknownFlag \/ FlagsDone) => Matching'
<1> SUFFICES ASSUME Scanning, Matching, Open \/ Switch \/ FloatFlag \/ UnknownFlag \/ FlagsDone PROVE Matching'
  OBVIOUS
<1>1. /\ pc \in {"open", "flags"} /\ turn = "ref" /\ result = "none" /\ text \in [Files -> Seq(Chars)]
      /\ text' = text /\ sc' = sc /\ turn' = turn
  BY DEF Scanning, Open, Switch, FloatFlag, UnknownFlag, FlagsDone, scanVars, vars
<1>2. result' \in {"none", "error"}
  BY <1>1 DEF Open, Switch, FloatFlag, UnknownFlag, FlagsDone, scanVars, vars, Return
<1>3. MatchMeansSame'
  BY <1>2 DEF MatchMeansSame
<1>4. CASE Open \/ Switch \/ FloatFlag \/ UnknownFlag
  <2>1. pc' \in {"open", "flags", "done"}
    BY <1>1, <1>4 DEF Open, Switch, FloatFlag, UnknownFlag, Return, vars
  <2> QED BY <1>3, <2>1 DEF Matching
<1>5. CASE FlagsDone
  <2>1. pc' = "skip" /\ rules' = rules
    BY <1>5 DEF FlagsDone, scanVars
  <2>2. \A f \in Files : sc[f] = Scanner
    BY <1>1 DEF Scanning, Reading
  <2>3. \A f \in Files : Passed(text[f], rules.space, sc[f], 0)
    <3> TAKE f \in Files
    <3>1. sc[f].at = 0
      BY <2>2 DEF Scanner
    <3> QED BY <1>1, <3>1, CountEnds DEF Passed
  <2>4. Compared(0)'
    <3>1. Passed(text["ref"], rules.space, sc["ref"], 0) /\ Passed(text["out"], rules.space, sc["out"], 0)
      BY <2>3 DEF Files
    <3>2. Scans(text["ref"], rules.space, sc["ref"], 0, "skip")
      BY <3>1 DEF Scans
    <3> QED BY <1>1, <2>1, <3>1, <3>2 DEF Compared, Goes, Passes
  <2>5. Matched(0)
    BY ToksLength DEF Matched
  <2>6. Matched(0)'
    BY <1>1, <2>1, <2>5, Unchanged
  <2>7. 0 \in Nat
    OBVIOUS
  <2> QED BY <1>3, <2>4, <2>6, <2>7 DEF Matching
<1> QED BY <1>4, <1>5

LEMMA MatchScan ==
    Scanning /\ Matching /\ (SkipSpace \/ SkipDone \/ TakeByte \/ EndToken) => Matching'
<1> SUFFICES ASSUME Scanning, Matching, SkipSpace \/ SkipDone \/ TakeByte \/ EndToken PROVE Matching'
  OBVIOUS
<1>1. pc \in {"skip", "take"} /\ result = "none"
  BY DEF SkipSpace, SkipDone, TakeByte, EndToken, Scanning
<1>2. PICK n \in Nat : Matched(n) /\ Compared(n)
  BY <1>1 DEF Matching
<1>3. turn \in {"ref", "out", "end"} /\ Goes(File, n)
  <2>1. turn \in {"ref", "out", "end"} /\ pc # "compare"
    BY <1>1 DEF Scanning
  <2> QED BY <1>2, <2>1 DEF Compared, File
<1>4. /\ text' = text /\ rules' = rules
      /\ \A f \in Files : f # File => sc'[f] = sc[f]
      /\ \/ /\ pc' \in {"skip", "take"} /\ turn' = turn /\ result' = result
            /\ Scans(text[File], rules.space, sc'[File], n, pc')
         \/ GotToken /\ Holds(text[File], rules.space, sc'[File], n)
         \/ EndOfFile /\ Len(Toks(File)) = n /\ Passed(text[File], rules.space, sc'[File], n)
  <2>1. Scans(text[File], rules.space, S, n, pc)
    BY <1>3 DEF Goes, S
  <2> QED BY <1>1, <2>1, ScanOn
<1>5. (Agree' <=> Agree) /\ Matched(n)' /\ Toks("ref")' = Toks("ref")
  BY <1>2, <1>4, Unchanged DEF Toks
<1>6. "ref" \in Files /\ "out" \in Files
  BY DEF Files
<1>7. CASE turn = "ref"
  <2>1. File = "ref" /\ sc'["out"] = sc["out"] /\ Passes("out", n)
    <3>1. File = "ref"
      BY <1>7 DEF File
    <3> QED BY <1>2, <1>4, <1>6, <1>7, <3>1 DEF Compared
  <2>2. CASE pc' \in {"skip", "take"} /\ turn' = turn /\ result' = result /\ Scans(text["ref"], rules.space, sc'["ref"], n, pc')
    <3>1. Compared(n)'
      BY <1>4, <1>7, <2>1, <2>2 DEF Compared, Goes, Passes
    <3>2. MatchMeansSame'
      BY <1>1, <2>2 DEF MatchMeansSame
    <3> QED BY <1>5, <3>1, <3>2 DEF Matching
  <2>3. CASE GotToken /\ Holds(text["ref"], rules.space, sc'["ref"], n)
    <3>1. turn' = "out" /\ pc' = "skip" /\ result' = result
      BY <1>7, <2>3 DEF GotToken
    <3>2. Goes("out", n)'
      BY <1>4, <2>1, <3>1 DEF Goes, Passes, Scans
    <3>3. Compared(n)'
      BY <1>4, <2>3, <3>1, <3>2 DEF Compared, Has
    <3>4. MatchMeansSame'
      BY <1>1, <3>1 DEF MatchMeansSame
    <3> QED BY <1>5, <3>3, <3>4 DEF Matching
  <2>4. CASE EndOfFile /\ Len(Toks("ref")) = n
    <3>1. turn' = "end" /\ pc' = "skip" /\ result' = result
      BY <1>7, <2>4 DEF EndOfFile
    <3>2. Goes("out", n)'
      BY <1>4, <2>1, <3>1 DEF Goes, Passes, Scans
    <3>3. Compared(n)'
      BY <1>5, <2>4, <3>1, <3>2 DEF Compared
    <3>4. MatchMeansSame'
      BY <1>1, <3>1 DEF MatchMeansSame
    <3> QED BY <1>5, <3>3, <3>4 DEF Matching
  <2> QED BY <1>4, <2>1, <2>2, <2>3, <2>4
<1>8. CASE turn = "out"
  <2>1. File = "out" /\ sc'["ref"] = sc["ref"] /\ Has("ref", n)
    <3>1. File = "out"
      BY <1>8 DEF File
    <3> QED BY <1>2, <1>4, <1>6, <1>8, <3>1 DEF Compared
  <2>2. CASE pc' \in {"skip", "take"} /\ turn' = turn /\ result' = result /\ Scans(text["out"], rules.space, sc'["out"], n, pc')
    <3>1. Compared(n)'
      BY <1>4, <1>8, <2>1, <2>2 DEF Compared, Goes, Has
    <3>2. MatchMeansSame'
      BY <1>1, <2>2 DEF MatchMeansSame
    <3> QED BY <1>5, <3>1, <3>2 DEF Matching
  <2>3. CASE GotToken /\ Holds(text["out"], rules.space, sc'["out"], n)
    <3>1. turn' = "out" /\ pc' = "compare" /\ result' = result
      BY <1>8, <2>3 DEF GotToken
    <3>2. Compared(n)'
      BY <1>4, <2>1, <2>3, <3>1 DEF Compared, Has
    <3>3. MatchMeansSame'
      BY <1>1, <3>1 DEF MatchMeansSame
    <3> QED BY <1>5, <3>2, <3>3 DEF Matching
  <2>4. CASE EndOfFile /\ Len(Toks("out")) = n
    <3>1. pc' = "done" /\ result' = "differ"
      BY <1>8, <2>4 DEF EndOfFile, Return
    <3>2. ~Agree
      BY <1>2, <2>1, <2>4, Verdicts
    <3>3. MatchMeansSame'
      <4>1. result' # "match" /\ ~Agree'
        BY <1>5, <3>1, <3>2
      <4>2. MatchMeansSame' <=> (result' \in {"match", "differ"} => (result' = "match" <=> Agree'))
        BY Zenon DEF MatchMeansSame, Agree, Toks
      <4> QED BY <4>1, <4>2
    <3> QED BY <3>1, <3>3 DEF Matching
  <2> QED BY <1>4, <2>1, <2>2, <2>3, <2>4
<1>9. CASE turn = "end"
  <2>1. File = "out" /\ Len(Toks("ref")) = n
    <3>1. File = "out"
      BY <1>9 DEF File
    <3> QED BY <1>2, <1>9, <3>1 DEF Compared
  <2>2. CASE pc' \in {"skip", "take"} /\ turn' = turn /\ result' = result /\ Scans(text["out"], rules.space, sc'["out"], n, pc')
    <3>1. Compared(n)'
      BY <1>4, <1>5, <1>9, <2>1, <2>2 DEF Compared, Goes
    <3>2. MatchMeansSame'
      BY <1>1, <2>2 DEF MatchMeansSame
    <3> QED BY <1>5, <3>1, <3>2 DEF Matching
  <2>3. CASE GotToken /\ Holds(text["out"], rules.space, sc'["out"], n)
    <3>1. pc' = "done" /\ result' = "differ"
      BY <1>9, <2>3 DEF GotToken, Return
    <3>2. ~Agree
      <4>1. n + 1 \in 1 .. Len(Toks("out"))
        BY <2>3 DEF Holds, Toks
      <4>2. Len(Toks("out")) # n
        BY <4>1, ToksLength
      <4> QED BY <2>1, <4>2 DEF Agree
    <3>3. MatchMeansSame'
      <4>1. result' # "match" /\ ~Agree'
        BY <1>5, <3>1, <3>2
      <4>2. MatchMeansSame' <=> (result' \in {"match", "differ"} => (result' = "match" <=> Agree'))
        BY Zenon DEF MatchMeansSame, Agree, Toks
      <4> QED BY <4>1, <4>2
    <3> QED BY <3>1, <3>3 DEF Matching
  <2>4. CASE EndOfFile /\ Len(Toks("out")) = n
    <3>1. pc' = "done" /\ result' = "match"
      BY <1>9, <2>4 DEF EndOfFile, Return
    <3>2. Agree
      BY <1>2, <2>1, <2>4, Verdicts
    <3>3. MatchMeansSame'
      <4>1. result' = "match" /\ Agree'
        BY <1>5, <3>1, <3>2
      <4>2. MatchMeansSame' <=> (result' \in {"match", "differ"} => (result' = "match" <=> Agree'))
        BY Zenon DEF MatchMeansSame, Agree, Toks
      <4> QED BY <4>1, <4>2
    <3> QED BY <3>1, <3>3 DEF Matching
  <2> QED BY <1>4, <2>1, <2>2, <2>3, <2>4
<1> QED BY <1>3, <1>7, <1>8, <1>9

LEMMA MatchCompare == Scanning /\ Matching /\ Compare => Matching'
<1> SUFFICES ASSUME Scanning, Matching, Compare PROVE Matching'
  OBVIOUS
<1>1. pc = "compare" /\ turn = "out" /\ text' = text /\ rules' = rules /\ sc' = sc /\ result = "none"
  BY DEF Compare, Scanning, scanVars
<1>2. PICK n \in Nat : Matched(n) /\ Compared(n)
  BY <1>1 DEF Matching
<1>3. Has("ref", n) /\ Has("out", n)
  BY <1>1, <1>2 DEF Compared, Goes
<1>4. matchToken(sc["ref"].token, sc["out"].token) <=> Same(sc["ref"].token, sc["out"].token)
  BY SameIsMatch
<1>5. CASE Same(sc["ref"].token, sc["out"].token)
  <2>1. turn' = "ref" /\ pc' = "skip" /\ result' = result
    BY <1>4, <1>5 DEF Compare
  <2>2. Matched(n + 1)
    BY <1>2, <1>3, <1>5, MatchedNext
  <2>3. Matched(n + 1)'
    BY <1>1, <2>2, Unchanged
  <2>4. Compared(n + 1)'
    <3>1. \A f : Has(f, n) => Passes(f, n + 1)'
      BY <1>1 DEF Has, Holds, Passes
    <3>2. Goes("ref", n + 1)'
      BY <1>1, <1>3, <2>1 DEF Has, Holds, Goes, Scans
    <3> QED BY <1>3, <2>1, <3>1, <3>2 DEF Compared
  <2>5. MatchMeansSame'
    BY <1>1, <2>1 DEF MatchMeansSame
  <2>6. n + 1 \in Nat
    OBVIOUS
  <2> QED BY <2>3, <2>4, <2>5, <2>6 DEF Matching
<1>6. CASE ~Same(sc["ref"].token, sc["out"].token)
  <2>1. pc' = "done" /\ result' = "differ"
    BY <1>4, <1>6 DEF Compare, Return
  <2>2. ~Agree
    BY <1>2, <1>3, <1>6, MatchedNext
  <2>3. result' # "match" /\ ~Agree'
    BY <1>1, <2>1, <2>2, Unchanged
  <2>4. MatchMeansSame' <=> (result' \in {"match", "differ"} => (result' = "match" <=> Agree'))
    BY Zenon DEF MatchMeansSame, Agree, Toks
  <2> QED BY <2>1, <2>3, <2>4 DEF Matching
<1> QED BY <1>5, <1>6

LEMMA MatchStep == Scanning /\ Matching /\ [Next]_vars => Matching'
<1> SUFFICES ASSUME Scanning, Matching, [Next]_vars PROVE Matching'
  OBVIOUS
<1>1. CASE Over \/ UNCHANGED vars
  <2>1. /\ text' = text /\ rules' = rules /\ sc' = sc /\ pc' = pc /\ turn' = turn /\ result' = result
    BY <1>1 DEF Over, vars
  <2>2. (Agree' <=> Agree) /\ (\A n : Matched(n)' <=> Matched(n)) /\ \A n : Compared(n)' <=> Compared(n)
    <3>1. \A n : Compared(n)' <=> Compared(n)
      BY <2>1 DEF Compared, Goes, Passes, Has, Toks
    <3> QED BY <2>1, <3>1, Unchanged
  <2>3. MatchMeansSame' <=> (result' \in {"match", "differ"} => (result' = "match" <=> Agree'))
    BY Zenon DEF MatchMeansSame, Agree, Toks
  <2>4. MatchMeansSame'
    BY <2>1, <2>2, <2>3, MeansAgree DEF Matching
  <2> QED BY <2>1, <2>2, <2>4 DEF Matching
<1>2. CASE ReadFails
  <2>1. pc' = "done" /\ result' = "error"
    BY <1>2 DEF ReadFails, Return
  <2> QED BY <2>1 DEF Matching, MatchMeansSame
<1> QED BY <1>1, <1>2, MatchFlags, MatchScan, MatchCompare DEF Next, DiffNext

(* Whatever the files and the flags: an output is accepted exactly if it has *)
(* as many tokens as the reference and each matches the reference's (eval.go *)
(* 697-734, diff.go 38-69, 127-193).                                         *)
THEOREM AcceptsExactlyTheSame == Spec => []MatchMeansSame
<1>1. Matching => MatchMeansSame
  BY DEF Matching
<1> QED BY <1>1, ScanStart, ScanStep, MatchStart, MatchStep, PTL DEF Spec
=============================================================================

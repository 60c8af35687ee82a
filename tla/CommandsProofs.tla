--------------------------- MODULE CommandsProofs ---------------------------
(* Proofs about Commands, for commands of any fields and lengths, pieces and *)
(* chunks of any size: where in a message each byte is, that a reader that   *)
(* takes the message in any pieces has at every point exactly the fields     *)
(* that far, and from that what is executed.                                 *)
EXTENDS Commands, SequenceTheorems, WellFoundedInduction, TLAPS

(* The least number of a set of numbers: induction on the bytes of a field, *)
(* the fields of a command and the bytes of a chunk. *)
LEMMA LeastNumber ==
    ASSUME NEW T, T \subseteq Nat, T # {}
    PROVE  \E m \in T : \A k \in T : m <= k
<1> DEFINE R == {ss \in Nat \X Nat : ss[1] < ss[2]}
<1>1. IsWellFoundedOn(R, Nat)
  BY NatLessThanWellFounded DEF OpToRel
<1>2. \A i, j \in Nat : i < j => <<i, j>> \in R
  OBVIOUS
<1> HIDE DEF R
<1>3. PICK m \in T : \A k \in T : ~ (<<k, m>> \in R)
  BY <1>1, WFMin
<1>4. ASSUME NEW k \in T PROVE m <= k
  <2>1. ~ (k < m)
    BY <1>2, <1>3
  <2>2. k \in Nat /\ m \in Nat
    OBVIOUS
  <2> QED BY <2>1, <2>2
<1> QED BY <1>4

LEMMA FromZeroOn ==
    ASSUME NEW n \in Nat, NEW Good, 0 \in Good,
           \A k \in 1 .. n : k - 1 \in Good => k \in Good
    PROVE  \A k \in 0 .. n : k \in Good
<1> DEFINE Bad == {k \in 0 .. n : k \notin Good}
<1>1. SUFFICES ASSUME Bad # {} PROVE FALSE
  OBVIOUS
<1>2. PICK m \in Bad : \A k \in Bad : m <= k
  <2>1. Bad \subseteq Nat
    OBVIOUS
  <2> HIDE DEF Bad
  <2> QED BY <1>1, <2>1, LeastNumber
<1>3. m \in 1 .. n /\ m - 1 \in 0 .. n /\ m - 1 \notin Bad
  BY <1>2
<1> QED BY <1>2, <1>3

-----------------------------------------------------------------------------
(* What a command is in the sandbox: the characters of each field, in UTF-8. *)
Chars(field) ==
    LET chars[k \in 0 .. Len(field)] ==
            IF k = 0 THEN <<>> ELSE chars[k - 1] \o AsUtf8(field[k])
    IN  chars

Arrived(cmd) == [j \in 1 .. Len(cmd) |-> Chars(cmd[j])[Len(cmd[j])]]

Bytes == Seq(1 .. MaxByte)

LEMMA CharsTurns ==
    ASSUME NEW field \in Bytes
    PROVE  /\ Chars(field)[0] = <<>>
           /\ \A k \in 1 .. Len(field) : Chars(field)[k] = Chars(field)[k - 1] \o AsUtf8(field[k])
<1> DEFINE n == Len(field)
           IsLoop(f, m) == f = [k \in 0 .. m |-> IF k = 0 THEN <<>> ELSE f[k - 1] \o AsUtf8(field[k])]
           Good == {m \in Nat : \E f : IsLoop(f, m)}
<1>0. n \in Nat
  BY DEF Bytes
<1>1. 0 \in Good
  <2>1. IsLoop([k \in 0 .. 0 |-> <<>>], 0)
    OBVIOUS
  <2> QED BY <2>1
<1>2. ASSUME NEW m \in 1 .. n, m - 1 \in Good PROVE m \in Good
  <2>1. PICK f : IsLoop(f, m - 1)
    BY <1>2
  <2> DEFINE g == [k \in 0 .. m |-> IF k = m THEN f[m - 1] \o AsUtf8(field[m]) ELSE f[k]]
  <2>2. m \in Nat /\ m # 0 /\ m - 1 \in Nat
    BY <1>0
  <2>3. /\ DOMAIN f = 0 .. m - 1
        /\ \A k \in 0 .. m - 1 : f[k] = IF k = 0 THEN <<>> ELSE f[k - 1] \o AsUtf8(field[k])
    BY <2>1
  <2>4. \A k \in 0 .. m : (k = m \/ k \in 0 .. m - 1) /\ (k # 0 => k - 1 \in 0 .. m /\ k - 1 # m)
    BY <2>2
  <2>5. \A k \in 0 .. m : g[k] = IF k = 0 THEN <<>> ELSE g[k - 1] \o AsUtf8(field[k])
    BY <2>2, <2>3, <2>4
  <2>6. g = [k \in 0 .. m |-> g[k]]
    OBVIOUS
  <2> HIDE DEF g
  <2>7. IsLoop(g, m)
    BY <2>5, <2>6
  <2> QED BY <2>2, <2>7
<1>3. n \in Good
  <2> HIDE DEF Good, n
  <2>1. n \in 0 .. n /\ \A k \in 1 .. n : k - 1 \in Good => k \in Good
    BY <1>0, <1>2
  <2> QED BY <1>0, <1>1, <2>1, FromZeroOn
<1>4. \E f : IsLoop(f, n)
  BY <1>3
<1>5. IsLoop(Chars(field), n)
  BY <1>4 DEF Chars
<1> HIDE DEF n
<1>6. 0 \in 0 .. n /\ \A k \in 1 .. n : k \in 0 .. n /\ k # 0
  BY <1>0
<1> QED BY <1>5, <1>6 DEF n

LEMMA MessageTurns ==
    ASSUME NEW cmd \in Seq(Bytes)
    PROVE  /\ Message(cmd)[0] = <<Len(cmd) % (MaxByte + 1)>>
           /\ \A k \in 1 .. Len(cmd) : Message(cmd)[k] = Message(cmd)[k - 1] \o Append(cmd[k], 0)
<1> DEFINE n == Len(cmd)
           first == <<Len(cmd) % (MaxByte + 1)>>
           IsLoop(f, m) == f = [k \in 0 .. m |-> IF k = 0 THEN first ELSE f[k - 1] \o Append(cmd[k], 0)]
           Good == {m \in Nat : \E f : IsLoop(f, m)}
<1>0. n \in Nat
  OBVIOUS
<1> HIDE DEF first
<1>1. 0 \in Good
  <2>1. IsLoop([k \in 0 .. 0 |-> first], 0)
    OBVIOUS
  <2> QED BY <2>1
<1>2. ASSUME NEW m \in 1 .. n, m - 1 \in Good PROVE m \in Good
  <2>1. PICK f : IsLoop(f, m - 1)
    BY <1>2
  <2> DEFINE g == [k \in 0 .. m |-> IF k = m THEN f[m - 1] \o Append(cmd[m], 0) ELSE f[k]]
  <2>2. m \in Nat /\ m # 0 /\ m - 1 \in Nat
    BY <1>0
  <2>3. /\ DOMAIN f = 0 .. m - 1
        /\ \A k \in 0 .. m - 1 : f[k] = IF k = 0 THEN first ELSE f[k - 1] \o Append(cmd[k], 0)
    BY <2>1
  <2>4. \A k \in 0 .. m : (k = m \/ k \in 0 .. m - 1) /\ (k # 0 => k - 1 \in 0 .. m /\ k - 1 # m)
    BY <2>2
  <2>5. \A k \in 0 .. m : g[k] = IF k = 0 THEN first ELSE g[k - 1] \o Append(cmd[k], 0)
    BY <2>2, <2>3, <2>4
  <2>6. g = [k \in 0 .. m |-> g[k]]
    OBVIOUS
  <2> HIDE DEF g
  <2>7. IsLoop(g, m)
    BY <2>5, <2>6
  <2> QED BY <2>2, <2>7
<1>3. n \in Good
  <2> HIDE DEF Good, n
  <2>1. n \in 0 .. n /\ \A k \in 1 .. n : k - 1 \in Good => k \in Good
    BY <1>0, <1>2
  <2> QED BY <1>0, <1>1, <2>1, FromZeroOn
<1>4. \E f : IsLoop(f, n)
  BY <1>3
<1>5. IsLoop(Message(cmd), n)
  BY <1>4 DEF Message, first
<1> HIDE DEF n
<1>6. 0 \in 0 .. n /\ \A k \in 1 .. n : k \in 0 .. n /\ k # 0
  BY <1>0
<1> QED BY <1>5, <1>6 DEF n, first

LEMMA ConsumedTurns ==
    ASSUME NEW chunk \in Seq(0 .. MaxByte)
    PROVE  /\ Consumed(chunk)[0] = [at |-> at, fields |-> fields]
           /\ \A k \in 1 .. Len(chunk) : Consumed(chunk)[k] = Consume(Consumed(chunk)[k - 1], chunk[k])
<1> DEFINE n == Len(chunk)
           first == [at |-> at, fields |-> fields]
           IsLoop(f, m) == f = [k \in 0 .. m |-> IF k = 0 THEN first ELSE Consume(f[k - 1], chunk[k])]
           Good == {m \in Nat : \E f : IsLoop(f, m)}
<1>0. n \in Nat
  OBVIOUS
<1> HIDE DEF first
<1>1. 0 \in Good
  <2>1. IsLoop([k \in 0 .. 0 |-> first], 0)
    OBVIOUS
  <2> QED BY <2>1
<1>2. ASSUME NEW m \in 1 .. n, m - 1 \in Good PROVE m \in Good
  <2>1. PICK f : IsLoop(f, m - 1)
    BY <1>2
  <2> DEFINE g == [k \in 0 .. m |-> IF k = m THEN Consume(f[m - 1], chunk[m]) ELSE f[k]]
  <2>2. m \in Nat /\ m # 0 /\ m - 1 \in Nat
    BY <1>0
  <2>3. /\ DOMAIN f = 0 .. m - 1
        /\ \A k \in 0 .. m - 1 : f[k] = IF k = 0 THEN first ELSE Consume(f[k - 1], chunk[k])
    BY <2>1
  <2>4. \A k \in 0 .. m : (k = m \/ k \in 0 .. m - 1) /\ (k # 0 => k - 1 \in 0 .. m /\ k - 1 # m)
    BY <2>2
  <2>5. \A k \in 0 .. m : g[k] = IF k = 0 THEN first ELSE Consume(g[k - 1], chunk[k])
    BY <2>2, <2>3, <2>4
  <2>6. g = [k \in 0 .. m |-> g[k]]
    OBVIOUS
  <2> HIDE DEF g
  <2>7. IsLoop(g, m)
    BY <2>5, <2>6
  <2> QED BY <2>2, <2>7
<1>3. n \in Good
  <2> HIDE DEF Good, n
  <2>1. n \in 0 .. n /\ \A k \in 1 .. n : k - 1 \in Good => k \in Good
    BY <1>0, <1>2
  <2> QED BY <1>0, <1>1, <2>1, FromZeroOn
<1>4. \E f : IsLoop(f, n)
  BY <1>3
<1>5. IsLoop(Consumed(chunk), n)
  BY <1>4 DEF Consumed, first
<1> HIDE DEF n
<1>6. 0 \in 0 .. n /\ \A k \in 1 .. n : k \in 0 .. n /\ k # 0
  BY <1>0
<1> QED BY <1>5, <1>6 DEF n, first

-----------------------------------------------------------------------------
(* The characters of a field are a text; of plain bytes, the same bytes. *)
LEMMA CharsTypes ==
    ASSUME NEW field \in Bytes
    PROVE  \A k \in 0 .. Len(field) : Chars(field)[k] \in Seq(Nat)
<1> DEFINE n == Len(field)
           c == Chars(field)
           Good == {k \in 0 .. n : c[k] \in Seq(Nat)}
<1>0. n \in Nat
  BY DEF Bytes
<1>1. c[0] = <<>> /\ \A k \in 1 .. n : c[k] = c[k - 1] \o AsUtf8(field[k])
  BY CharsTurns
<1>2. ASSUME NEW k \in 1 .. n PROVE AsUtf8(field[k]) \in Seq(Nat)
  <2>1. field[k] \in Nat
    BY CommandsAssumption DEF Bytes
  <2>2. 192 + (field[k] \div 64) \in Nat /\ 128 + (field[k] % 64) \in Nat
    BY <2>1
  <2> QED BY <2>1, <2>2 DEF AsUtf8
<1> HIDE DEF n, c
<1>3. 0 \in Good
  <2>1. c[0] \in Seq(Nat)
    BY <1>1, EmptySeq
  <2> QED BY <1>0, <2>1
<1>4. ASSUME NEW k \in 1 .. n, k - 1 \in Good PROVE k \in Good
  <2>1. c[k - 1] \in Seq(Nat) /\ AsUtf8(field[k]) \in Seq(Nat)
    BY <1>2, <1>4
  <2>2. c[k - 1] \o AsUtf8(field[k]) \in Seq(Nat)
    BY <2>1, ConcatProperties
  <2>3. c[k] \in Seq(Nat)
    BY <1>1, <2>2
  <2> QED BY <1>0, <2>3
<1> HIDE DEF Good
<1>5. \A k \in 0 .. n : k \in Good
  BY <1>0, <1>3, <1>4, FromZeroOn
<1> QED BY <1>5 DEF Good, n, c

LEMMA PlainChars ==
    ASSUME NEW field \in Bytes, field \in Seq(1 .. 127)
    PROVE  Chars(field)[Len(field)] = field
<1> DEFINE n == Len(field)
           c == Chars(field)
           Good == {k \in 0 .. n : c[k] = SubSeq(field, 1, k)}
<1>0. n \in Nat
  OBVIOUS
<1>1. c[0] = <<>> /\ \A k \in 1 .. n : c[k] = c[k - 1] \o AsUtf8(field[k])
  BY CharsTurns
<1>2. ASSUME NEW k \in 1 .. n PROVE AsUtf8(field[k]) = <<field[k]>>
  <2>1. field[k] \in 1 .. 127
    BY ElementOfSeq
  <2>2. \A b \in 1 .. 127 : AsUtf8(b) = <<b>>
    BY DEF AsUtf8
  <2> QED BY <2>1, <2>2, Zenon
<1>3. ASSUME NEW k \in 1 .. n PROVE SubSeq(field, 1, k) = SubSeq(field, 1, k - 1) \o <<field[k]>>
  <2>1. k \in Nat /\ k - 1 \in 0 .. n /\ k \in 0 .. n
    BY <1>0
  <2> QED BY <2>1
<1> HIDE DEF c
<1>4. 0 \in Good
  <2>1. SubSeq(field, 1, 0) = <<>>
    OBVIOUS
  <2>2. c[0] = SubSeq(field, 1, 0)
    BY <1>1, <2>1
  <2> QED BY <1>0, <2>2
<1>5. ASSUME NEW k \in 1 .. n, k - 1 \in Good PROVE k \in Good
  <2>1. c[k - 1] = SubSeq(field, 1, k - 1) /\ k \in 0 .. n
    BY <1>0, <1>5
  <2> HIDE DEF n, Good
  <2>2. c[k] = SubSeq(field, 1, k)
    BY <1>1, <1>2, <1>3, <2>1
  <2> QED BY <2>1, <2>2 DEF Good
<1>6. n \in Good
  <2> HIDE DEF Good, n
  <2>1. n \in 0 .. n
    BY <1>0
  <2> QED BY <1>0, <1>4, <1>5, <2>1, FromZeroOn
<1>7. SubSeq(field, 1, n) = field
  BY SubSeqFull
<1> QED BY <1>6, <1>7 DEF n, c

-----------------------------------------------------------------------------
(* Where the bytes of a message are: each field follows the ones before it, *)
(* its bytes in order, then its zero. *)
LEMMA MessageTypes ==
    ASSUME NEW cmd \in Seq(Bytes)
    PROVE  /\ \A k \in 0 .. Len(cmd) : Message(cmd)[k] \in Seq(0 .. MaxByte)
           /\ \A k \in 1 .. Len(cmd) : Append(cmd[k], 0) \in Seq(0 .. MaxByte)
<1> DEFINE n == Len(cmd)
           m == Message(cmd)
           Byte == 0 .. MaxByte
           Good == {k \in 0 .. n : m[k] \in Seq(Byte)}
<1>0. n \in Nat
  OBVIOUS
<1>1. m[0] = <<n % (MaxByte + 1)>> /\ \A k \in 1 .. n : m[k] = m[k - 1] \o Append(cmd[k], 0)
  BY MessageTurns
<1>2. n % (MaxByte + 1) \in Byte /\ 0 \in Byte /\ 1 .. MaxByte \subseteq Byte
  BY <1>0, CommandsAssumption
<1>3. ASSUME NEW k \in 1 .. n PROVE Append(cmd[k], 0) \in Seq(Byte)
  <2>1. cmd[k] \in Seq(1 .. MaxByte)
    BY ElementOfSeq DEF Bytes
  <2> HIDE DEF Byte
  <2>2. cmd[k] \in Seq(Byte)
    BY <1>2, <2>1, SeqMonotonic
  <2> QED BY <1>2, <2>2, AppendProperties
<1> HIDE DEF n, m, Byte
<1>4. 0 \in Good
  <2>1. m[0] \in Seq(Byte)
    BY <1>1, <1>2
  <2> QED BY <1>0, <2>1
<1>5. ASSUME NEW k \in 1 .. n, k - 1 \in Good PROVE k \in Good
  <2>1. m[k - 1] \in Seq(Byte) /\ Append(cmd[k], 0) \in Seq(Byte)
    BY <1>3, <1>5
  <2>2. m[k - 1] \o Append(cmd[k], 0) \in Seq(Byte)
    BY <2>1, ConcatProperties
  <2>3. m[k] \in Seq(Byte)
    BY <1>1, <2>2
  <2> QED BY <1>0, <2>3
<1> HIDE DEF Good
<1>6. \A k \in 0 .. n : k \in Good
  BY <1>0, <1>4, <1>5, FromZeroOn
<1>7. \A k \in 0 .. n : m[k] \in Seq(Byte)
  BY <1>6 DEF Good
<1> QED BY <1>3, <1>7 DEF n, m, Byte

LEMMA MessageGrows ==
    ASSUME NEW cmd \in Seq(Bytes), NEW k \in 1 .. Len(cmd)
    PROVE  LET m == Message(cmd)
           IN  /\ Len(m[k - 1]) \in Nat /\ Len(m[k]) = Len(m[k - 1]) + Len(cmd[k]) + 1
               /\ \A j \in 1 .. Len(m[k - 1]) : m[k][j] = m[k - 1][j]
               /\ \A q \in 0 .. Len(cmd[k]) :
                    m[k][Len(m[k - 1]) + q + 1] = IF q < Len(cmd[k]) THEN cmd[k][q + 1] ELSE 0
<1> DEFINE m == Message(cmd)
           old == m[k - 1]
           f == cmd[k]
           Byte == 0 .. MaxByte
<1>1. m[k] = old \o Append(f, 0)
  BY MessageTurns
<1>2. k - 1 \in 0 .. Len(cmd)
  OBVIOUS
<1>3. old \in Seq(Byte) /\ Append(f, 0) \in Seq(Byte)
  BY <1>2, MessageTypes
<1>4. f \in Seq(1 .. MaxByte)
  BY ElementOfSeq DEF Bytes
<1> HIDE DEF m, old, f, Byte
<1>5. /\ Len(f) \in Nat /\ Len(Append(f, 0)) = Len(f) + 1
      /\ \A q \in 0 .. Len(f) : Append(f, 0)[q + 1] = IF q < Len(f) THEN f[q + 1] ELSE 0
  <2> DEFINE B == 1 .. MaxByte
  <2> HIDE DEF B
  <2> QED BY <1>4 DEF B
<1>6. /\ Len(old) \in Nat /\ Len(m[k]) = Len(old) + Len(f) + 1
      /\ \A i \in 1 .. Len(old) + Len(f) + 1 :
           m[k][i] = IF i <= Len(old) THEN old[i] ELSE Append(f, 0)[i - Len(old)]
  <2>1. /\ Len(old \o Append(f, 0)) = Len(old) + Len(Append(f, 0))
        /\ \A i \in 1 .. Len(old) + Len(Append(f, 0)) :
              (old \o Append(f, 0))[i] = IF i <= Len(old) THEN old[i] ELSE Append(f, 0)[i - Len(old)]
    BY <1>3, ConcatProperties
  <2>2. Len(old) \in Nat
    BY <1>3
  <2> QED BY <1>1, <1>5, <2>1, <2>2
<1>7. ASSUME NEW j \in 1 .. Len(old) PROVE m[k][j] = old[j]
  <2>1. j \in 1 .. Len(old) + Len(f) + 1 /\ j <= Len(old)
    BY <1>5, <1>6
  <2> QED BY <1>6, <2>1, Zenon
<1>8. ASSUME NEW q \in 0 .. Len(f) PROVE m[k][Len(old) + q + 1] = IF q < Len(f) THEN f[q + 1] ELSE 0
  <2> DEFINE x == Len(old) + q + 1
  <2>1. x \in 1 .. Len(old) + Len(f) + 1 /\ ~ (x <= Len(old)) /\ x - Len(old) = q + 1
    BY <1>5, <1>6
  <2> HIDE DEF x
  <2>2. m[k][x] = Append(f, 0)[x - Len(old)]
    BY <1>6, <2>1
  <2>3. m[k][x] = Append(f, 0)[q + 1]
    BY <2>1, <2>2
  <2> QED BY <1>5, <2>3 DEF x
<1> QED BY <1>6, <1>7, <1>8 DEF m, old, f

LEMMA MessagePlaces ==
    ASSUME NEW cmd \in Seq(Bytes), NEW k \in 0 .. Len(cmd)
    PROVE  LET m == Message(cmd)
           IN  /\ Encode(cmd) \in Seq(0 .. MaxByte) /\ Len(m[k]) \in Nat \ {0} /\ Len(m[k]) <= Len(Encode(cmd))
               /\ k < Len(cmd) => Len(m[k]) < Len(Encode(cmd))
               /\ \A j \in 1 .. Len(m[k]) : Encode(cmd)[j] = m[k][j]
<1> DEFINE n == Len(cmd)
           m == Message(cmd)
           Good == {d \in 0 .. n - k :
                       /\ Len(m[k]) <= Len(m[k + d]) /\ (d > 0 => Len(m[k]) < Len(m[k + d]))
                       /\ \A j \in 1 .. Len(m[k]) : m[k + d][j] = m[k][j]}
           First == {i \in 0 .. n : Len(m[i]) > 0}
<1>0. n \in Nat /\ n - k \in Nat /\ k \in Nat /\ k \in 0 .. n /\ n \in 0 .. n
  OBVIOUS
<1>1. \A i \in 0 .. n : m[i] \in Seq(0 .. MaxByte) /\ Len(m[i]) \in Nat
  BY MessageTypes
<1>2. \A i \in 1 .. n : /\ Len(m[i]) > Len(m[i - 1])
                       /\ \A j \in 1 .. Len(m[i - 1]) : m[i][j] = m[i - 1][j]
  <2> TAKE i \in 1 .. n
  <2>1. Len(cmd[i]) \in Nat
    BY ElementOfSeq DEF Bytes
  <2>2. Len(m[i - 1]) \in Nat /\ Len(m[i]) = Len(m[i - 1]) + Len(cmd[i]) + 1
        /\ \A j \in 1 .. Len(m[i - 1]) : m[i][j] = m[i - 1][j]
    BY MessageGrows
  <2>3. Len(m[i]) > Len(m[i - 1])
    <3> DEFINE was == Len(m[i - 1])
               more == Len(cmd[i])
               is == Len(m[i])
    <3>1. was \in Nat /\ more \in Nat /\ is = was + more + 1
      BY <2>1, <2>2, Zenon
    <3> HIDE DEF was, more, is
    <3>2. is > was
      BY <3>1
    <3> QED BY <3>2 DEF is, was
  <2> QED BY <2>2, <2>3
<1>3. Len(m[0]) = 1
  <2>1. m[0] = <<n % (MaxByte + 1)>>
    BY MessageTurns
  <2> HIDE DEF m
  <2> QED BY <2>1
<1>4. Encode(cmd) = m[n]
  BY DEF Encode
<1> HIDE DEF n, m
<1>5. 0 \in Good
  BY <1>0, <1>1
<1>6. ASSUME NEW d \in 1 .. n - k, d - 1 \in Good PROVE d \in Good
  <2>1. /\ k + d \in 1 .. n /\ (k + d) - 1 = k + (d - 1) /\ d \in 0 .. n - k
        /\ k + (d - 1) \in 0 .. n /\ k + d \in 0 .. n
    BY <1>0
  <2>2. /\ Len(m[k + d]) > Len(m[k + (d - 1)])
        /\ \A j \in 1 .. Len(m[k + (d - 1)]) : m[k + d][j] = m[k + (d - 1)][j]
    BY <1>2, <2>1
  <2>3. /\ Len(m[k]) <= Len(m[k + (d - 1)])
        /\ \A j \in 1 .. Len(m[k]) : m[k + (d - 1)][j] = m[k][j]
    BY <1>6
  <2>4. Len(m[k]) \in Nat /\ Len(m[k + (d - 1)]) \in Nat /\ Len(m[k + d]) \in Nat
    BY <1>0, <1>1, <2>1
  <2>5. Len(m[k]) < Len(m[k + d])
    BY <2>2, <2>3, <2>4
  <2>6. \A j \in 1 .. Len(m[k]) : m[k + d][j] = m[k][j]
    BY <2>2, <2>3, <2>4
  <2>7. Len(m[k]) <= Len(m[k + d])
    BY <2>4, <2>5
  <2> QED BY <2>1, <2>5, <2>6, <2>7
<1>7. n - k \in Good
  <2> HIDE DEF Good
  <2>1. n - k \in 0 .. n - k
    BY <1>0
  <2> QED BY <1>0, <1>5, <1>6, <2>1, FromZeroOn
<1>8. n \in First /\ k \in First
  <2>1. 0 \in First
    <3>1. 0 \in 0 .. n /\ Len(m[0]) > 0
      BY <1>0, <1>3
    <3> QED BY <3>1
  <2>2. ASSUME NEW i \in 1 .. n, i - 1 \in First PROVE i \in First
    <3>1. i \in 0 .. n /\ i - 1 \in 0 .. n
      BY <1>0
    <3>2. Len(m[i]) > 0
      BY <1>1, <1>2, <2>2, <3>1
    <3> QED BY <3>1, <3>2
  <2> HIDE DEF First
  <2> QED BY <1>0, <2>1, <2>2, FromZeroOn
<1>9. k + (n - k) = n /\ (k < n => n - k > 0)
  BY <1>0
<1>10. /\ Len(m[k]) <= Len(m[n]) /\ (k < n => Len(m[k]) < Len(m[n]))
       /\ \A j \in 1 .. Len(m[k]) : m[n][j] = m[k][j]
  BY <1>7, <1>9
<1>11. Len(m[k]) > 0 /\ Len(m[k]) \in Nat /\ m[n] \in Seq(0 .. MaxByte)
  BY <1>0, <1>1, <1>8
<1> QED BY <1>4, <1>10, <1>11 DEF n, m

LEMMA NextByte ==
    ASSUME NEW cmd \in Seq(Bytes), NEW a \in 0 .. Len(cmd) - 1, NEW q \in 0 .. Len(cmd[a + 1])
    PROVE  Encode(cmd)[Len(Message(cmd)[a]) + q + 1] = IF q < Len(cmd[a + 1]) THEN cmd[a + 1][q + 1] ELSE 0
<1> DEFINE m == Message(cmd)
           k == a + 1
           p == Len(m[a]) + q + 1
<1>1. k \in 1 .. Len(cmd) /\ k \in 0 .. Len(cmd) /\ k - 1 = a
  OBVIOUS
<1>2. Len(cmd[k]) \in Nat
  BY <1>1, ElementOfSeq DEF Bytes
<1>3. /\ Len(m[a]) \in Nat /\ Len(m[k]) = Len(m[a]) + Len(cmd[k]) + 1
      /\ m[k][p] = IF q < Len(cmd[k]) THEN cmd[k][q + 1] ELSE 0
  <2> HIDE DEF k
  <2>1. LET mm == Message(cmd)
        IN  /\ Len(mm[k - 1]) \in Nat /\ Len(mm[k]) = Len(mm[k - 1]) + Len(cmd[k]) + 1
            /\ \A qq \in 0 .. Len(cmd[k]) :
                 mm[k][Len(mm[k - 1]) + qq + 1] = IF qq < Len(cmd[k]) THEN cmd[k][qq + 1] ELSE 0
    BY <1>1, MessageGrows
  <2>2. q \in 0 .. Len(cmd[k])
    BY DEF k
  <2> QED BY <1>1, <2>1, <2>2
<1>4. \A j \in 1 .. Len(m[k]) : Encode(cmd)[j] = m[k][j]
  <2> HIDE DEF k
  <2> QED BY <1>1, MessagePlaces
<1> HIDE DEF m, k
<1>5. p \in 1 .. Len(m[k]) /\ q \in 0 .. Len(cmd[k])
  <2>1. q \in 0 .. Len(cmd[k])
    BY DEF k
  <2> DEFINE was == Len(m[a])
             more == Len(cmd[k])
             is == Len(m[k])
  <2>2. was \in Nat /\ more \in Nat /\ is = was + more + 1 /\ q \in 0 .. more /\ p = was + q + 1
    BY <1>2, <1>3, <2>1, Zenon
  <2> HIDE DEF was, more, is, p
  <2>3. p \in 1 .. is
    BY <2>2
  <2> QED BY <2>1, <2>3 DEF is
<1>6. Encode(cmd)[p] = IF q < Len(cmd[k]) THEN cmd[k][q + 1] ELSE 0
  BY <1>3, <1>4, <1>5
<1> QED BY <1>6 DEF m, k

-----------------------------------------------------------------------------
(* What the sandbox has of a command when it has taken p bytes of its       *)
(* message: a fields, the characters so far of the next one, and nothing of *)
(* those after it. *)
Text == Seq(Nat)

HasRead(cmd, p, a, f) ==
    /\ a \in 0 .. Len(cmd)
    /\ f \in Seq(Text) /\ Len(f) = Len(cmd)
    /\ \E q \in Nat :
          /\ p = Len(Message(cmd)[a]) + q
          /\ a = Len(cmd) => q = 0
          /\ a < Len(cmd) => q <= Len(cmd[a + 1]) /\ f[a + 1] = Chars(cmd[a + 1])[q]
    /\ \A i \in 1 .. a : f[i] = Chars(cmd[i])[Len(cmd[i])]
    /\ \A i \in a + 2 .. Len(cmd) : f[i] = <<>>

LEMMA ConsumeIs ==
    ASSUME NEW a, NEW f, NEW b, a # count
    PROVE  Consume([at |-> a, fields |-> f], b) =
             IF b = 0 THEN [at |-> a + 1, fields |-> f]
             ELSE [at |-> a, fields |-> [f EXCEPT ![a + 1] = @ \o AsUtf8(b)]]
BY SMTT(30) DEF Consume

LEMMA OneByte ==
    ASSUME NEW cmd \in Seq(Bytes), NEW p \in Nat, p < Len(Encode(cmd)), count = Len(cmd),
           NEW a, NEW f, HasRead(cmd, p, a, f)
    PROVE  \E a2, f2 : /\ Consume([at |-> a, fields |-> f], Encode(cmd)[p + 1]) = [at |-> a2, fields |-> f2]
                      /\ HasRead(cmd, p + 1, a2, f2)
<1> DEFINE n == Len(cmd)
           m == Message(cmd)
           c(i) == Chars(cmd[i])
           b == Encode(cmd)[p + 1]
<1>0. n \in Nat /\ a \in 0 .. n /\ f \in Seq(Text) /\ Len(f) = n
  BY DEF HasRead
<1>1. PICK q \in Nat :
          /\ p = Len(m[a]) + q
          /\ a = n => q = 0
          /\ a < n => q <= Len(cmd[a + 1]) /\ f[a + 1] = c(a + 1)[q]
  BY DEF HasRead
<1>2. /\ \A i \in 1 .. a : f[i] = c(i)[Len(cmd[i])]
      /\ \A i \in a + 2 .. n : f[i] = <<>>
  BY DEF HasRead
<1>3. a < n
  <2>1. a # n
    <3>1. SUFFICES ASSUME a = n PROVE FALSE
      OBVIOUS
    <3>2. Len(m[n]) = Len(Encode(cmd))
      BY DEF Encode
    <3>3. n \in 0 .. n
      BY <1>0
    <3>4. Len(m[n]) \in Nat
      BY <3>3, MessagePlaces
    <3> QED BY <1>1, <3>1, <3>2, <3>4
  <2> QED BY <1>0, <2>1
<1>4. a \in 0 .. n - 1 /\ a + 1 \in 1 .. n
  BY <1>0, <1>3
<1>5. cmd[a + 1] \in Bytes /\ Len(cmd[a + 1]) \in Nat
  <2>1. cmd[a + 1] \in Bytes
    BY <1>4, ElementOfSeq
  <2> QED BY <2>1 DEF Bytes
<1>6. q \in 0 .. Len(cmd[a + 1])
  BY <1>1, <1>3, <1>5
<1>7. Len(m[a]) \in Nat
  <2>1. a \in 0 .. n
    BY <1>0
  <2> QED BY <2>1, MessagePlaces
<1>8. b = IF q < Len(cmd[a + 1]) THEN cmd[a + 1][q + 1] ELSE 0
  <2>1. Encode(cmd)[Len(m[a]) + q + 1] = IF q < Len(cmd[a + 1]) THEN cmd[a + 1][q + 1] ELSE 0
    BY <1>4, <1>6, NextByte
  <2>2. p + 1 = Len(m[a]) + q + 1
    BY <1>1, <1>7
  <2> QED BY <2>1, <2>2
<1>9. a # count
  BY <1>0, <1>3
<1> HIDE DEF b
<1>10. CASE q < Len(cmd[a + 1])
  <2> DEFINE f2 == [f EXCEPT ![a + 1] = @ \o AsUtf8(b)]
  <2>1. q + 1 \in 1 .. Len(cmd[a + 1]) /\ q + 1 \in 0 .. Len(cmd[a + 1]) /\ (q + 1) - 1 = q
    BY <1>5, <1>6, <1>10
  <2>2. b \in 1 .. MaxByte
    <3>1. cmd[a + 1][q + 1] \in 1 .. MaxByte
      BY <1>5, <2>1, ElementOfSeq DEF Bytes
    <3> QED BY <1>8, <1>10, <3>1
  <2>3. b # 0
    <3>1. \A x \in 1 .. MaxByte : x # 0
      OBVIOUS
    <3> QED BY <2>2, <3>1
  <2>4. Consume([at |-> a, fields |-> f], b) = [at |-> a, fields |-> f2]
    BY <1>9, <2>3, ConsumeIs
  <2>5. f[a + 1] \o AsUtf8(b) = c(a + 1)[q + 1]
    <3>1. c(a + 1)[q + 1] = c(a + 1)[q] \o AsUtf8(cmd[a + 1][q + 1])
      BY <1>5, <2>1, CharsTurns
    <3> QED BY <1>1, <1>3, <1>8, <1>10, <3>1
  <2>6. c(a + 1)[q + 1] \in Text
    BY <1>5, <2>1, CharsTypes DEF Text
  <2>7. /\ f2 \in Seq(Text) /\ Len(f2) = n
        /\ \A i \in 1 .. n : f2[i] = IF i = a + 1 THEN c(a + 1)[q + 1] ELSE f[i]
    <3> DEFINE e == c(a + 1)[q + 1]
    <3>1. f2 = [f EXCEPT ![a + 1] = e]
      BY <2>5
    <3> HIDE DEF e, f2
    <3>2. e \in Text
      BY <2>6 DEF e
    <3>3. /\ [f EXCEPT ![a + 1] = e] \in Seq(Text) /\ Len([f EXCEPT ![a + 1] = e]) = Len(f)
          /\ \A i \in 1 .. Len(f) : [f EXCEPT ![a + 1] = e][i] = IF i = a + 1 THEN e ELSE f[i]
      BY <1>0, <1>4, <3>2, ExceptSeq
    <3> QED BY <1>0, <3>1, <3>3 DEF e
  <2>8. HasRead(cmd, p + 1, a, f2)
    <3> HIDE DEF f2
    <3>1. /\ p + 1 = Len(m[a]) + (q + 1) /\ q + 1 \in Nat /\ ~ (a = n)
          /\ q + 1 <= Len(cmd[a + 1])
      <4> DEFINE was == Len(m[a])
      <4>1. was \in Nat /\ p = was + q
        BY <1>1, <1>7
      <4> HIDE DEF was, m, c
      <4>2. p + 1 = was + (q + 1) /\ q + 1 \in Nat
        BY <4>1
      <4>3. ~ (a = n)
        BY <1>0, <1>3
      <4>4. q + 1 <= Len(cmd[a + 1])
        BY <1>5, <1>6, <1>10
      <4> QED BY <4>2, <4>3, <4>4, Zenon DEF was
    <3>2. f2[a + 1] = c(a + 1)[q + 1]
      BY <1>4, <2>7
    <3>3. \A i \in 1 .. a : i \in 1 .. n /\ i # a + 1
      BY <1>0
    <3>4. \A i \in a + 2 .. n : i \in 1 .. n /\ i # a + 1
      BY <1>0
    <3>5. \A i \in 1 .. a : f2[i] = c(i)[Len(cmd[i])]
      BY <1>2, <2>7, <3>3
    <3>6. \A i \in a + 2 .. n : f2[i] = <<>>
      BY <1>2, <2>7, <3>4
    <3>7. \E r \in Nat :
              /\ p + 1 = Len(m[a]) + r
              /\ a = n => r = 0
              /\ a < n => r <= Len(cmd[a + 1]) /\ f2[a + 1] = c(a + 1)[r]
      BY <3>1, <3>2
    <3> HIDE DEF m, c
    <3> QED BY <1>0, <2>7, <3>5, <3>6, <3>7 DEF HasRead, m, c
  <2> QED BY <2>4, <2>8 DEF b
<1>11. CASE ~ (q < Len(cmd[a + 1]))
  <2>1. q = Len(cmd[a + 1]) /\ b = 0
    BY <1>5, <1>6, <1>8, <1>11
  <2>2. Consume([at |-> a, fields |-> f], b) = [at |-> a + 1, fields |-> f]
    BY <1>9, <2>1, ConsumeIs
  <2>3. p + 1 = Len(m[a + 1]) + 0
    <3>1. Len(m[a + 1]) = Len(m[a]) + Len(cmd[a + 1]) + 1
      <4> DEFINE k == a + 1
      <4>1. k - 1 = a
        BY <1>0
      <4> HIDE DEF k
      <4>2. Len(m[k]) = Len(m[k - 1]) + Len(cmd[k]) + 1
        BY <1>4, MessageGrows DEF k
      <4> QED BY <4>1, <4>2 DEF k
    <3> QED BY <1>1, <1>5, <1>7, <2>1, <3>1
  <2>4. f[a + 1] = c(a + 1)[Len(cmd[a + 1])]
    BY <1>1, <1>3, <2>1
  <2>5. \A i \in 1 .. a + 1 : f[i] = c(i)[Len(cmd[i])]
    <3>1. \A i \in 1 .. a + 1 : i \in 1 .. a \/ i = a + 1
      BY <1>0
    <3> HIDE DEF c
    <3> QED BY <1>2, <2>4, <3>1
  <2>6. \A i \in (a + 1) + 2 .. n : f[i] = <<>>
    <3>1. \A i \in (a + 1) + 2 .. n : i \in a + 2 .. n
      BY <1>0
    <3> QED BY <1>2, <3>1
  <2>7. a + 1 < n => 0 <= Len(cmd[(a + 1) + 1]) /\ f[(a + 1) + 1] = c((a + 1) + 1)[0]
    <3>1. SUFFICES ASSUME a + 1 < n PROVE 0 <= Len(cmd[(a + 1) + 1]) /\ f[(a + 1) + 1] = c((a + 1) + 1)[0]
      OBVIOUS
    <3> DEFINE k == (a + 1) + 1
    <3>2. k \in 1 .. n /\ k \in a + 2 .. n
      BY <1>0, <3>1
    <3>3. cmd[k] \in Bytes
      BY <3>2, ElementOfSeq
    <3>4. Len(cmd[k]) \in Nat
      BY <3>3 DEF Bytes
    <3> HIDE DEF k
    <3>5. c(k)[0] = <<>>
      BY <3>3, CharsTurns
    <3>6. f[k] = <<>>
      BY <1>2, <3>2
    <3>7. 0 <= Len(cmd[k])
      BY <3>4
    <3> QED BY <3>5, <3>6, <3>7 DEF k
  <2>8. HasRead(cmd, p + 1, a + 1, f)
    <3>1. \E r \in Nat :
              /\ p + 1 = Len(m[a + 1]) + r
              /\ a + 1 = n => r = 0
              /\ a + 1 < n => r <= Len(cmd[(a + 1) + 1]) /\ f[(a + 1) + 1] = c((a + 1) + 1)[r]
      BY <2>3, <2>7
    <3>2. a + 1 \in 0 .. n
      BY <1>0, <1>3
    <3> HIDE DEF m, c
    <3> QED BY <1>0, <2>5, <2>6, <3>1, <3>2 DEF HasRead, m, c
  <2> QED BY <2>2, <2>8 DEF b
<1> QED BY <1>10, <1>11

LEMMA OneChunk ==
    ASSUME NEW cmd \in Seq(Bytes), count = Len(cmd), NEW p \in Nat, HasRead(cmd, p, at, fields),
           NEW chunk \in Seq(0 .. MaxByte), p + Len(chunk) <= Len(Encode(cmd)),
           \A j \in 1 .. Len(chunk) : chunk[j] = Encode(cmd)[p + j]
    PROVE  LET st == Consumed(chunk)[Len(chunk)]
           IN  HasRead(cmd, p + Len(chunk), st.at, st.fields)
<1> DEFINE n == Len(chunk)
           st == Consumed(chunk)
           m == Encode(cmd)
           Good == {k \in 0 .. n : \E a, f : st[k] = [at |-> a, fields |-> f] /\ HasRead(cmd, p + k, a, f)}
<1>0. n \in Nat /\ p + n <= Len(m) /\ Len(m) \in Nat
  <2>1. Len(cmd) \in 0 .. Len(cmd)
    OBVIOUS
  <2>2. m \in Seq(0 .. MaxByte)
    BY <2>1, MessagePlaces
  <2> QED BY <2>2
<1>1. st[0] = [at |-> at, fields |-> fields] /\ \A k \in 1 .. n : st[k] = Consume(st[k - 1], chunk[k])
  BY ConsumedTurns
<1>2. \A j \in 1 .. n : chunk[j] = m[p + j]
  OBVIOUS
<1> HIDE DEF n, st, m
<1>3. 0 \in Good
  <2>1. p + 0 = p /\ 0 \in 0 .. n
    BY <1>0
  <2>2. HasRead(cmd, p + 0, at, fields)
    BY <2>1
  <2> QED BY <1>1, <2>1, <2>2
<1>4. ASSUME NEW k \in 1 .. n, k - 1 \in Good PROVE k \in Good
  <2> DEFINE pk == p + (k - 1)
  <2>1. PICK a : \E f : st[k - 1] = [at |-> a, fields |-> f] /\ HasRead(cmd, pk, a, f)
    BY <1>4
  <2>2. PICK f : st[k - 1] = [at |-> a, fields |-> f] /\ HasRead(cmd, pk, a, f)
    BY <2>1
  <2>3. pk \in Nat /\ pk < Len(m) /\ pk + 1 = p + k /\ k \in 0 .. n
    BY <1>0
  <2> HIDE DEF pk, Good
  <2>4. \E a2, f2 : /\ Consume([at |-> a, fields |-> f], m[pk + 1]) = [at |-> a2, fields |-> f2]
                   /\ HasRead(cmd, pk + 1, a2, f2)
    <3> DEFINE Does(pp, aa, ff) ==
                 \E a2, f2 : /\ Consume([at |-> aa, fields |-> ff], Encode(cmd)[pp + 1]) = [at |-> a2, fields |-> f2]
                            /\ HasRead(cmd, pp + 1, a2, f2)
    <3>1. ASSUME NEW pp \in Nat, pp < Len(Encode(cmd)), NEW aa, NEW ff, HasRead(cmd, pp, aa, ff) PROVE Does(pp, aa, ff)
      BY <3>1, OneByte
    <3>2. pk < Len(Encode(cmd))
      BY <2>3 DEF m
    <3> HIDE DEF Does
    <3>3. Does(pk, a, f)
      BY <2>2, <2>3, <3>1, <3>2, Zenon
    <3> QED BY <3>3 DEF Does, m
  <2>5. st[k] = Consume([at |-> a, fields |-> f], m[pk + 1])
    BY <1>1, <1>2, <2>2, <2>3
  <2>6. \E a2, f2 : st[k] = [at |-> a2, fields |-> f2] /\ HasRead(cmd, p + k, a2, f2)
    BY <2>3, <2>4, <2>5
  <2> QED BY <2>3, <2>6 DEF Good
<1>5. n \in Good
  <2> HIDE DEF Good
  <2>1. n \in 0 .. n
    BY <1>0
  <2> QED BY <1>0, <1>3, <1>4, <2>1, FromZeroOn
<1>6. PICK a : \E f : st[n] = [at |-> a, fields |-> f] /\ HasRead(cmd, p + n, a, f)
  BY <1>5
<1>7. PICK f : st[n] = [at |-> a, fields |-> f] /\ HasRead(cmd, p + n, a, f)
  BY <1>6
<1>8. st[n].at = a /\ st[n].fields = f
  BY <1>7
<1>9. HasRead(cmd, p + n, st[n].at, st[n].fields)
  BY <1>7, <1>8
<1> QED BY <1>9 DEF n, st

-----------------------------------------------------------------------------
(* What is yet to come of a message of which p bytes were taken: some of it *)
(* in the pipe, the rest not written. *)
Left(cmd, p, arrived, coming) ==
    /\ p + (Len(arrived) + Len(coming)) = Len(Encode(cmd))
    /\ \A j \in 1 .. Len(arrived) : arrived[j] = Encode(cmd)[p + j]
    /\ \A j \in 1 .. Len(coming) : coming[j] = Encode(cmd)[p + Len(arrived) + j]

Cmd == sent[Len(sent)]
Byte == 0 .. MaxByte
Outstanding == Len(sent) # Len(execd)

(* What was sent and executed. *)
History ==
    /\ sent \in Seq(Inputs) /\ (\A i \in 1 .. Len(sent) : Accepts(sent[i]))
    /\ execd \in Seq(Seq(Text)) /\ (\A i \in 1 .. Len(execd) : execd[i] = Arrived(sent[i]))
    /\ Len(sent) = Len(execd) \/ Len(sent) = Len(execd) + 1

(* Judge and sandbox in step: one message at a time. *)
Turns ==
    /\ wpc \in {"idle", "writing", "waiting", "closed", "fatal"}
    /\ rpc \in {"count", "fields", "runs", "dead"}
    /\ ~Outstanding => pipe = <<>> /\ unwritten = <<>> /\ rpc # "fields"
    /\ rpc = "runs" => ~Outstanding
    /\ wpc = "idle" => rpc = "count" /\ ~Outstanding
    /\ wpc = "writing" => unwritten # <<>> /\ rpc \in {"count", "fields"} /\ Outstanding
    /\ wpc = "waiting" => unwritten = <<>>

(* The message between them, and what the sandbox has of it. *)
Transfer ==
    /\ pipe \in Seq(Byte) /\ unwritten \in Seq(Byte)
    /\ rpc = "count" /\ Outstanding => Left(Cmd, 0, pipe, unwritten)
    /\ rpc = "fields" =>
         /\ count = Len(Cmd)
         /\ \E p \in Nat : Left(Cmd, p, pipe, unwritten) /\ HasRead(Cmd, p, at, fields)

CommandSync == History /\ Turns /\ Transfer

LEMMA Pieces ==
    ASSUME NEW S, NEW s \in Seq(S), NEW n \in 1 .. Len(s)
    PROVE  /\ SubSeq(s, 1, n) \in Seq(S) /\ Len(SubSeq(s, 1, n)) = n
           /\ \A j \in 1 .. n : SubSeq(s, 1, n)[j] = s[j]
           /\ SubSeq(s, n + 1, Len(s)) \in Seq(S) /\ Len(SubSeq(s, n + 1, Len(s))) = Len(s) - n
           /\ \A j \in 1 .. Len(s) - n : SubSeq(s, n + 1, Len(s))[j] = s[n + j]
OBVIOUS

LEMMA SmallRemainder ==
    ASSUME NEW n \in Nat, NEW d \in Nat, n < d
    PROVE  n % d = n
OBVIOUS

LEMMA CommandTypes ==
    ASSUME NEW cmd \in Inputs, Accepts(cmd)
    PROVE  /\ cmd \in Seq(Bytes) /\ Len(cmd) \in 1 .. MaxByte
           /\ Encode(cmd) \in Seq(Byte) /\ Len(Encode(cmd)) \in Nat \ {0}
           /\ Encode(cmd)[1] = Len(cmd)
           /\ Message(cmd)[0] = <<Len(cmd)>>
<1>1. cmd \in Seq(Bytes) /\ Len(cmd) \in 1 .. MaxByte
  BY CommandsAssumption DEF Accepts, Bytes
<1>2. 0 \in 0 .. Len(cmd) /\ Len(cmd) \in Nat
  BY <1>1
<1>3. /\ Encode(cmd) \in Seq(Byte) /\ Len(Message(cmd)[0]) <= Len(Encode(cmd))
      /\ \A j \in 1 .. Len(Message(cmd)[0]) : Encode(cmd)[j] = Message(cmd)[0][j]
  BY <1>1, <1>2, MessagePlaces DEF Byte
<1>4. Len(cmd) % (MaxByte + 1) = Len(cmd)
  <2> DEFINE n == Len(cmd)
  <2>1. n \in 1 .. MaxByte
    BY <1>1
  <2> HIDE DEF n
  <2>2. n \in Nat /\ MaxByte + 1 \in Nat /\ n < MaxByte + 1
    BY <2>1, CommandsAssumption
  <2>3. n % (MaxByte + 1) = n
    BY <2>2, SmallRemainder
  <2> QED BY <2>3 DEF n
<1>5. Message(cmd)[0] = <<Len(cmd)>>
  BY <1>1, <1>4, MessageTurns
<1>6. Len(Message(cmd)[0]) = 1 /\ Message(cmd)[0][1] = Len(cmd)
  BY <1>5
<1>7. 1 \in 1 .. 1 /\ Len(Encode(cmd)) \in Nat /\ 1 <= Len(Encode(cmd))
  BY <1>3, <1>6
<1>8. Encode(cmd)[1] = Len(cmd)
  BY <1>3, <1>6, <1>7
<1> QED BY <1>1, <1>3, <1>5, <1>7, <1>8

LEMMA CmdTypes ==
    ASSUME History, Outstanding
    PROVE  /\ Cmd \in Inputs /\ Accepts(Cmd)
           /\ Len(sent) \in Nat /\ Len(execd) \in Nat /\ Len(sent) = Len(execd) + 1
<1>1. Len(sent) \in Nat /\ Len(execd) \in Nat /\ Len(sent) = Len(execd) + 1
  BY DEF History, Outstanding
<1>2. Len(sent) \in 1 .. Len(sent)
  BY <1>1
<1>3. Cmd \in Inputs /\ Accepts(Cmd)
  BY <1>2, ElementOfSeq DEF History, Cmd
<1> QED BY <1>1, <1>3

LEMMA ArrivedTypes ==
    ASSUME NEW cmd \in Seq(Bytes)
    PROVE  Arrived(cmd) \in Seq(Text) /\ Len(Arrived(cmd)) = Len(cmd)
<1>1. ASSUME NEW j \in 1 .. Len(cmd) PROVE Chars(cmd[j])[Len(cmd[j])] \in Text
  <2>1. cmd[j] \in Bytes
    BY ElementOfSeq
  <2>2. Len(cmd[j]) \in 0 .. Len(cmd[j])
    BY <2>1 DEF Bytes
  <2> QED BY <2>1, <2>2, CharsTypes DEF Text
<1>2. Len(cmd) \in Nat
  OBVIOUS
<1>3. Arrived(cmd) \in [1 .. Len(cmd) -> Text]
  BY <1>1 DEF Arrived
<1> QED BY <1>2, <1>3

LEMMA SyncStart == Init => CommandSync
<1> SUFFICES ASSUME Init PROVE CommandSync
  OBVIOUS
<1>1. History /\ ~Outstanding
  BY DEF Init, History, Outstanding
<1>2. Turns
  BY <1>1 DEF Init, Turns
<1>3. Transfer
  BY <1>1 DEF Init, Transfer
<1> QED BY <1>1, <1>2, <1>3 DEF CommandSync

(* Without a step of history the last command stays the last. *)
LEMMA HistoryKept ==
    ASSUME UNCHANGED <<sent, execd>>
    PROVE  (History => History') /\ Cmd' = Cmd /\ (Outstanding' <=> Outstanding)
BY DEF History, Cmd, Outstanding

LEMMA SyncRunCall == CommandSync /\ RunCall => CommandSync'
<1> SUFFICES ASSUME CommandSync, RunCall PROVE CommandSync'
  OBVIOUS
<1>0. History /\ Turns /\ Transfer
  BY DEF CommandSync
<1>1. /\ wpc = "idle" /\ UNCHANGED <<pipe, rpc, count, at, fields, execd>>
      /\ rpc = "count" /\ ~Outstanding /\ pipe = <<>> /\ unwritten = <<>>
  BY <1>0 DEF RunCall, Turns, readerVars
<1>2. PICK cmd \in Inputs :
        IF Accepts(cmd)
        THEN sent' = Append(sent, cmd) /\ wpc' = "writing" /\ unwritten' = Encode(cmd)
        ELSE wpc' = "fatal" /\ UNCHANGED <<sent, unwritten>>
  BY DEF RunCall
<1>3. CASE ~Accepts(cmd)
  <2>1. wpc' = "fatal" /\ UNCHANGED <<sent, unwritten>>
    BY <1>2, <1>3
  <2>2. History' /\ Cmd' = Cmd /\ ~Outstanding'
    BY <1>0, <1>1, <2>1, HistoryKept
  <2> QED BY <1>0, <1>1, <2>1, <2>2 DEF CommandSync, Turns, Transfer
<1>4. CASE Accepts(cmd)
  <2>1. sent' = Append(sent, cmd) /\ wpc' = "writing" /\ unwritten' = Encode(cmd)
    BY <1>2, <1>4
  <2>2. /\ cmd \in Seq(Bytes) /\ Encode(cmd) \in Seq(Byte) /\ Len(Encode(cmd)) \in Nat \ {0}
    BY <1>4, CommandTypes
  <2>3. sent \in Seq(Inputs) /\ Len(sent) = Len(execd) /\ Len(sent) \in Nat
    BY <1>0, <1>1 DEF History, Outstanding
  <2>4. /\ sent' \in Seq(Inputs) /\ Len(sent') = Len(execd) + 1 /\ sent'[Len(sent')] = cmd
        /\ \A i \in 1 .. Len(sent) : sent'[i] = sent[i]
    BY <2>1, <2>3
  <2>5. \A i \in 1 .. Len(sent') : i \in 1 .. Len(sent) \/ i = Len(sent')
    BY <2>3, <2>4
  <2>6. \A i \in 1 .. Len(sent') : Accepts(sent'[i])
    BY <1>0, <1>4, <2>4, <2>5 DEF History
  <2>7. \A i \in 1 .. Len(execd) : execd[i] = Arrived(sent'[i])
    BY <1>0, <2>3, <2>4 DEF History
  <2>8. History' /\ Outstanding' /\ Cmd' = cmd
    <3>1. Outstanding'
      BY <1>1, <2>3, <2>4 DEF Outstanding
    <3> QED BY <1>0, <1>1, <2>4, <2>6, <2>7, <3>1 DEF History, Cmd
  <2>9. unwritten' # <<>> /\ unwritten' \in Seq(Byte) /\ pipe' = <<>> /\ rpc' = "count"
    <3>1. Encode(cmd) # <<>>
      BY <2>2
    <3> QED BY <1>1, <2>1, <2>2, <3>1
  <2>10. Left(cmd, 0, <<>>, Encode(cmd))
    <3> DEFINE e == Encode(cmd)
    <3>1. Len(e) \in Nat
      BY <2>2
    <3> HIDE DEF e
    <3>2. 0 + (0 + Len(e)) = Len(e) /\ \A j \in 1 .. Len(e) : 0 + 0 + j = j
      BY <3>1
    <3> QED BY <3>2 DEF Left, e
  <2>11. Transfer'
    <3>1. Left(Cmd, 0, pipe, unwritten)'
      BY <1>1, <2>1, <2>8, <2>10
    <3>2. rpc' # "fields" /\ pipe' \in Seq(Byte)
      BY <2>9
    <3> QED BY <2>8, <2>9, <3>1, <3>2 DEF Transfer
  <2>12. Turns'
    BY <2>1, <2>8, <2>9 DEF Turns
  <2> QED BY <2>8, <2>11, <2>12 DEF CommandSync
<1> QED BY <1>3, <1>4

LEMMA LeftMoves ==
    ASSUME NEW cmd, NEW p \in Nat, NEW arr \in Seq(Byte), NEW com \in Seq(Byte),
           Left(cmd, p, arr, com), NEW n \in 1 .. Len(com)
    PROVE  Left(cmd, p, arr \o SubSeq(com, 1, n), SubSeq(com, n + 1, Len(com)))
<1> DEFINE e == Encode(cmd)
           x == SubSeq(com, 1, n)
           y == SubSeq(com, n + 1, Len(com))
           z == arr \o x
           la == Len(arr)
           lc == Len(com)
<1>1. /\ x \in Seq(Byte) /\ Len(x) = n /\ \A j \in 1 .. n : x[j] = com[j]
      /\ y \in Seq(Byte) /\ Len(y) = lc - n /\ \A j \in 1 .. lc - n : y[j] = com[n + j]
  BY Pieces
<1>2. la \in Nat /\ lc \in Nat /\ n \in 1 .. lc
  OBVIOUS
<1>3. /\ p + (la + lc) = Len(e)
      /\ \A j \in 1 .. la : arr[j] = e[p + j]
      /\ \A j \in 1 .. lc : com[j] = e[p + la + j]
  BY DEF Left
<1> HIDE DEF x, y, e
<1>4. /\ Len(z) = la + n
      /\ \A j \in 1 .. la + n : z[j] = IF j <= la THEN arr[j] ELSE x[j - la]
  BY <1>1, ConcatProperties
<1> HIDE DEF z, la, lc
<1>5. p + (Len(z) + Len(y)) = Len(e)
  <2> DEFINE lz == Len(z)
             ly == Len(y)
             le == Len(e)
  <2>1. lz = la + n /\ ly = lc - n /\ p + (la + lc) = le
    BY <1>1, <1>3, <1>4
  <2> HIDE DEF lz, ly, le
  <2>2. p + (lz + ly) = le
    BY <1>2, <2>1
  <2> QED BY <2>2 DEF lz, ly, le
<1>6. ASSUME NEW j \in 1 .. Len(z) PROVE z[j] = e[p + j]
  <2>1. j \in 1 .. la + n
    BY <1>4
  <2>2. CASE j <= la
    <3>1. j \in 1 .. la
      BY <1>2, <2>1, <2>2
    <3> QED BY <1>3, <1>4, <2>1, <2>2, <3>1
  <2>3. CASE ~ (j <= la)
    <3>1. j - la \in 1 .. n /\ j - la \in 1 .. lc /\ p + la + (j - la) = p + j
      BY <1>2, <2>1, <2>3
    <3>2. z[j] = x[j - la] /\ x[j - la] = com[j - la] /\ com[j - la] = e[p + la + (j - la)]
      BY <1>1, <1>3, <1>4, <2>1, <2>3, <3>1
    <3> QED BY <3>1, <3>2
  <2> QED BY <2>2, <2>3
<1>7. ASSUME NEW j \in 1 .. Len(y) PROVE y[j] = e[p + Len(z) + j]
  <2>1. j \in 1 .. lc - n /\ n + j \in 1 .. lc
    BY <1>1, <1>2
  <2>2. p + la + (n + j) = p + Len(z) + j
    BY <1>2, <1>4, <2>1
  <2>3. y[j] = com[n + j] /\ com[n + j] = e[p + la + (n + j)]
    BY <1>1, <1>3, <2>1
  <2> QED BY <2>2, <2>3
<1>8. Left(cmd, p, z, y)
  BY <1>5, <1>6, <1>7 DEF Left, e
<1> QED BY <1>8 DEF x, y, z

LEMMA LeftTaken ==
    ASSUME NEW cmd, NEW p \in Nat, NEW arr \in Seq(Byte), NEW com \in Seq(Byte),
           Left(cmd, p, arr, com), NEW n \in 1 .. Len(arr)
    PROVE  /\ Left(cmd, p + n, SubSeq(arr, n + 1, Len(arr)), com)
           /\ p + n <= Len(Encode(cmd))
           /\ \A j \in 1 .. n : SubSeq(arr, 1, n)[j] = Encode(cmd)[p + j]
<1> DEFINE e == Encode(cmd)
           x == SubSeq(arr, 1, n)
           y == SubSeq(arr, n + 1, Len(arr))
           la == Len(arr)
           lc == Len(com)
<1>1. /\ x \in Seq(Byte) /\ Len(x) = n /\ \A j \in 1 .. n : x[j] = arr[j]
      /\ y \in Seq(Byte) /\ Len(y) = la - n /\ \A j \in 1 .. la - n : y[j] = arr[n + j]
  BY Pieces
<1>2. la \in Nat /\ lc \in Nat /\ n \in 1 .. la
  OBVIOUS
<1>3. /\ p + (la + lc) = Len(e)
      /\ \A j \in 1 .. la : arr[j] = e[p + j]
      /\ \A j \in 1 .. lc : com[j] = e[p + la + j]
  BY DEF Left
<1> HIDE DEF x, y, e, la
<1>5. p + n + (Len(y) + lc) = Len(e)
  BY <1>1, <1>2, <1>3
<1>6. ASSUME NEW j \in 1 .. Len(y) PROVE y[j] = e[p + n + j]
  <2>1. j \in 1 .. la - n /\ n + j \in 1 .. la /\ p + (n + j) = p + n + j
    BY <1>1, <1>2
  <2>2. y[j] = arr[n + j] /\ arr[n + j] = e[p + (n + j)]
    BY <1>1, <1>3, <2>1
  <2> QED BY <2>1, <2>2
<1>7. ASSUME NEW j \in 1 .. lc PROVE com[j] = e[p + n + Len(y) + j]
  <2>1. p + n + Len(y) + j = p + la + j
    BY <1>1, <1>2
  <2> QED BY <1>3, <2>1
<1>8. Left(cmd, p + n, y, com)
  BY <1>5, <1>6, <1>7 DEF Left, e
<1>9. \A j \in 1 .. n : x[j] = e[p + j]
  <2>1. \A j \in 1 .. n : j \in 1 .. la
    BY <1>2
  <2> QED BY <1>1, <1>3, <2>1
<1>10. p + n <= Len(e)
  BY <1>2, <1>3
<1> QED BY <1>8, <1>9, <1>10 DEF x, y, e, la

LEMMA SyncWrite == CommandSync /\ Write => CommandSync'
<1> SUFFICES ASSUME CommandSync, Write PROVE CommandSync'
  OBVIOUS
<1>0. History /\ Turns /\ Transfer
  BY DEF CommandSync
<1>1. /\ wpc = "writing" /\ UNCHANGED <<sent, rpc, count, at, fields, execd>>
      /\ wpc' = IF unwritten' = <<>> THEN "waiting" ELSE "writing"
  BY DEF Write, readerVars
<1>2. PICK n \in 1 .. Len(unwritten) :
        /\ pipe' = pipe \o SubSeq(unwritten, 1, n)
        /\ unwritten' = SubSeq(unwritten, n + 1, Len(unwritten))
  BY DEF Write
<1>3. /\ Outstanding /\ rpc \in {"count", "fields"} /\ pipe \in Seq(Byte) /\ unwritten \in Seq(Byte)
  BY <1>0, <1>1 DEF Turns, Transfer
<1>4. History' /\ Cmd' = Cmd /\ Outstanding'
  BY <1>0, <1>1, <1>3, HistoryKept
<1>5. pipe' \in Seq(Byte) /\ unwritten' \in Seq(Byte)
  <2>1. SubSeq(unwritten, 1, n) \in Seq(Byte) /\ SubSeq(unwritten, n + 1, Len(unwritten)) \in Seq(Byte)
    BY <1>3, Pieces
  <2> QED BY <1>2, <1>3, <2>1, ConcatProperties
<1>6. \A p \in Nat : Left(Cmd, p, pipe, unwritten) => Left(Cmd, p, pipe', unwritten')
  BY <1>2, <1>3, LeftMoves
<1>7. Transfer'
  <2>1. rpc = "count" => Left(Cmd, 0, pipe', unwritten')
    BY <1>0, <1>3, <1>6 DEF Transfer
  <2>2. rpc = "fields" => /\ count = Len(Cmd)
                          /\ \E p \in Nat : Left(Cmd, p, pipe', unwritten') /\ HasRead(Cmd, p, at, fields)
    BY <1>0, <1>6 DEF Transfer
  <2> QED BY <1>1, <1>4, <1>5, <2>1, <2>2 DEF Transfer
<1>8. Turns'
  BY <1>0, <1>1, <1>3, <1>4 DEF Turns
<1> QED BY <1>4, <1>7, <1>8 DEF CommandSync

LEMMA SyncRead == CommandSync /\ (ReadCount \/ ReadChunk) => CommandSync'
<1> SUFFICES ASSUME CommandSync, ReadCount \/ ReadChunk PROVE CommandSync'
  OBVIOUS
<1>0. History /\ Turns /\ Transfer
  BY DEF CommandSync
<1>1. UNCHANGED <<sent, wpc, unwritten, execd>> /\ rpc' = "fields" /\ rpc \in {"count", "fields"}
  BY DEF ReadCount, ReadChunk, judgeVars
<1>2. Outstanding
  BY <1>0 DEF ReadCount, ReadChunk, Turns
<1>3. History' /\ Cmd' = Cmd /\ Outstanding'
  BY <1>0, <1>1, <1>2, HistoryKept
<1>4. /\ Cmd \in Inputs /\ Accepts(Cmd)
  BY <1>0, <1>2, CmdTypes
<1>5. /\ Cmd \in Seq(Bytes) /\ Len(Cmd) \in 1 .. MaxByte
      /\ Encode(Cmd)[1] = Len(Cmd) /\ Message(Cmd)[0] = <<Len(Cmd)>>
  BY <1>4, CommandTypes
<1>6. pipe \in Seq(Byte) /\ unwritten \in Seq(Byte)
  BY <1>0 DEF Transfer
<1>7. Turns'
  BY <1>0, <1>1, <1>2, <1>3 DEF Turns
<1>8. CASE ReadCount
  <2>1. /\ rpc = "count" /\ pipe # <<>> /\ count' = Head(pipe) /\ pipe' = Tail(pipe)
        /\ at' = 0 /\ fields' = [i \in 1 .. Head(pipe) |-> <<>>]
    BY <1>8 DEF ReadCount
  <2>2. Left(Cmd, 0, pipe, unwritten)
    BY <1>0, <1>2, <2>1 DEF Transfer
  <2>3. /\ 1 \in 1 .. Len(pipe) /\ Head(pipe) = pipe[1] /\ Tail(pipe) = SubSeq(pipe, 1 + 1, Len(pipe))
    BY <1>6, <2>1
  <2>4. Head(pipe) = Len(Cmd)
    <3>1. pipe[1] = Encode(Cmd)[0 + 1]
      BY <2>2, <2>3 DEF Left
    <3> QED BY <1>5, <2>3, <3>1
  <2>5. Left(Cmd, 0 + 1, pipe', unwritten)
    BY <1>6, <2>1, <2>2, <2>3, LeftTaken, ZenonT(60)
  <2>6. HasRead(Cmd, 1, 0, fields')
    <3> DEFINE n == Len(Cmd)
    <3>1. n \in Nat /\ n >= 1 /\ fields' = [i \in 1 .. n |-> <<>>]
      BY <1>5, <2>1, <2>4
    <3> HIDE DEF n
    <3>2. fields' \in Seq(Text) /\ Len(fields') = n /\ (\A i \in 1 .. n : fields'[i] = <<>>)
      <4>1. <<>> \in Text
        BY EmptySeq DEF Text
      <4>2. fields' \in [1 .. n -> Text]
        BY <3>1, <4>1
      <4> QED BY <3>1, <4>2
    <3>3. Len(Message(Cmd)[0]) = 1
      BY <1>5
    <3>4. 0 <= Len(Cmd[0 + 1]) /\ Chars(Cmd[0 + 1])[0] = <<>>
      <4>1. 0 + 1 \in 1 .. Len(Cmd)
        BY <3>1 DEF n
      <4>2. Cmd[0 + 1] \in Bytes
        BY <1>5, <4>1, ElementOfSeq
      <4>3. Len(Cmd[0 + 1]) \in Nat
        BY <4>2 DEF Bytes
      <4> DEFINE f == Cmd[0 + 1]
      <4>4. f \in Bytes /\ Len(f) \in Nat
        BY <4>2, <4>3
      <4> HIDE DEF f
      <4>5. Chars(f)[0] = <<>>
        BY <4>4, CharsTurns
      <4>6. 0 <= Len(f)
        BY <4>4
      <4> QED BY <4>5, <4>6 DEF f
    <3>5. fields'[0 + 1] = <<>> /\ 1 .. 0 = {} /\ 1 = 1 + 0 /\ 0 \in 0 .. n /\ \A i \in 0 + 2 .. n : fields'[i] = <<>>
      BY <3>1, <3>2
    <3>6. \E q \in Nat :
              /\ 1 = Len(Message(Cmd)[0]) + q
              /\ 0 = n => q = 0
              /\ 0 < n => q <= Len(Cmd[0 + 1]) /\ fields'[0 + 1] = Chars(Cmd[0 + 1])[q]
      BY <3>3, <3>4, <3>5
    <3> QED BY <3>2, <3>5, <3>6 DEF HasRead, n
  <2>7. \E p \in Nat : Left(Cmd, p, pipe', unwritten) /\ HasRead(Cmd, p, 0, fields')
    <3>1. 0 + 1 = 1 /\ 1 \in Nat
      OBVIOUS
    <3> QED BY <2>5, <2>6, <3>1
  <2>8. pipe' \in Seq(Byte)
    BY <1>6, <2>1
  <2>9. Transfer'
    BY <1>1, <1>3, <1>6, <2>1, <2>4, <2>7, <2>8 DEF Transfer
  <2> QED BY <1>3, <1>7, <2>9 DEF CommandSync
<1>9. CASE ReadChunk
  <2>1. PICK n \in 1 .. Len(pipe) :
          LET st == Consumed(SubSeq(pipe, 1, n))[n]
          IN  /\ at' = st.at /\ fields' = st.fields
              /\ pipe' = SubSeq(pipe, n + 1, Len(pipe))
    BY <1>9 DEF ReadChunk
  <2>2. rpc = "fields" /\ count' = count
    BY <1>9 DEF ReadChunk
  <2>3. PICK p \in Nat : Left(Cmd, p, pipe, unwritten) /\ HasRead(Cmd, p, at, fields)
    BY <1>0, <2>2 DEF Transfer
  <2>4. count = Len(Cmd)
    BY <1>0, <2>2 DEF Transfer
  <2> DEFINE chunk == SubSeq(pipe, 1, n)
  <2>5. chunk \in Seq(Byte) /\ Len(chunk) = n /\ pipe' \in Seq(Byte)
    BY <1>6, <2>1, Pieces
  <2>6. /\ Left(Cmd, p + n, pipe', unwritten) /\ p + n <= Len(Encode(Cmd))
        /\ \A j \in 1 .. n : chunk[j] = Encode(Cmd)[p + j]
    <3>1. /\ p \in Nat /\ pipe \in Seq(Byte) /\ unwritten \in Seq(Byte) /\ Left(Cmd, p, pipe, unwritten)
          /\ n \in 1 .. Len(pipe)
      BY <1>6, <2>1, <2>3
    <3>2. /\ Left(Cmd, p + n, SubSeq(pipe, n + 1, Len(pipe)), unwritten)
          /\ p + n <= Len(Encode(Cmd))
          /\ \A j \in 1 .. n : SubSeq(pipe, 1, n)[j] = Encode(Cmd)[p + j]
      BY <3>1, LeftTaken, SMTT(30)
    <3> QED BY <2>1, <3>2, Zenon
  <2>7. at' = Consumed(chunk)[Len(chunk)].at /\ fields' = Consumed(chunk)[Len(chunk)].fields
    BY <2>1, <2>5
  <2> HIDE DEF chunk
  <2>8. HasRead(Cmd, p + n, at', fields')
    <3>1. chunk \in Seq(0 .. MaxByte)
      BY <2>5 DEF Byte
    <3> DEFINE c == Cmd
    <3>2. /\ c \in Seq(Bytes) /\ count = Len(c) /\ HasRead(c, p, at, fields)
          /\ p + Len(chunk) <= Len(Encode(c)) /\ \A j \in 1 .. Len(chunk) : chunk[j] = Encode(c)[p + j]
      BY <1>5, <2>3, <2>4, <2>5, <2>6
    <3> HIDE DEF c
    <3>3. HasRead(c, p + Len(chunk), Consumed(chunk)[Len(chunk)].at, Consumed(chunk)[Len(chunk)].fields)
      BY <3>1, <3>2, OneChunk
    <3> QED BY <2>5, <2>7, <3>3 DEF c
  <2>9. \E r \in Nat : Left(Cmd, r, pipe', unwritten) /\ HasRead(Cmd, r, at', fields')
    <3>1. p + n \in Nat
      BY <1>6
    <3> QED BY <2>6, <2>8, <3>1
  <2>10. Transfer'
    BY <1>1, <1>3, <1>6, <2>2, <2>4, <2>5, <2>9 DEF Transfer
  <2> QED BY <1>3, <1>7, <2>10 DEF CommandSync
<1> QED BY <1>8, <1>9

LEMMA SyncExec == CommandSync /\ Exec => CommandSync'
<1> SUFFICES ASSUME CommandSync, Exec PROVE CommandSync'
  OBVIOUS
<1>0. History /\ Turns /\ Transfer
  BY DEF CommandSync
<1>1. /\ rpc = "fields" /\ at = count /\ UNCHANGED <<sent, wpc, unwritten, pipe, count, at, fields>>
      /\ \/ rpc' = "dead" /\ UNCHANGED execd
         \/ rpc' = "runs" /\ execd' = Append(execd, fields)
  BY DEF Exec, judgeVars
<1>2. Outstanding
  BY <1>0, <1>1 DEF Turns
<1>3. /\ Cmd \in Inputs /\ Accepts(Cmd) /\ Len(sent) \in Nat /\ Len(execd) \in Nat /\ Len(sent) = Len(execd) + 1
  BY <1>0, <1>2, CmdTypes
<1>4. Cmd \in Seq(Bytes) /\ Len(Cmd) \in Nat
  BY <1>3, CommandTypes
<1>5. count = Len(Cmd)
  BY <1>0, <1>1 DEF Transfer
<1>6. PICK p \in Nat : Left(Cmd, p, pipe, unwritten) /\ HasRead(Cmd, p, at, fields)
  BY <1>0, <1>1 DEF Transfer
<1>7. /\ fields \in Seq(Text) /\ Len(fields) = Len(Cmd)
      /\ \A i \in 1 .. Len(Cmd) : fields[i] = Chars(Cmd[i])[Len(Cmd[i])]
      /\ \E q \in Nat : p = Len(Message(Cmd)[Len(Cmd)]) + q /\ q = 0
  BY <1>1, <1>5, <1>6 DEF HasRead
<1>8. pipe = <<>> /\ unwritten = <<>>
  <2> DEFINE le == Len(Encode(Cmd))
             lp == Len(pipe)
             lu == Len(unwritten)
  <2>1. Len(Cmd) \in 0 .. Len(Cmd)
    BY <1>4
  <2>2. Len(Message(Cmd)[Len(Cmd)]) \in Nat
    BY <1>4, <2>1, MessagePlaces
  <2>3. Encode(Cmd) = Message(Cmd)[Len(Cmd)]
    BY DEF Encode
  <2>4. le \in Nat /\ p = le + 0
    BY <1>7, <2>2, <2>3
  <2>5. p + (lp + lu) = le
    BY <1>6 DEF Left
  <2>6. pipe \in Seq(Byte) /\ unwritten \in Seq(Byte)
    BY <1>0 DEF Transfer
  <2>7. lp \in Nat /\ lu \in Nat
    BY <2>6
  <2> HIDE DEF le, lp, lu
  <2>8. lp = 0 /\ lu = 0
    BY <2>4, <2>5, <2>7
  <2>9. Len(pipe) = 0 /\ Len(unwritten) = 0
    BY <2>8 DEF lp, lu
  <2> QED BY <2>6, <2>9, EmptySeq
<1>9. wpc \notin {"writing", "idle"}
  BY <1>0, <1>1, <1>8 DEF Turns
<1>10. CASE rpc' = "dead" /\ UNCHANGED execd
  <2>1. History' /\ Cmd' = Cmd /\ Outstanding'
    BY <1>0, <1>1, <1>2, <1>10, HistoryKept
  <2> QED BY <1>0, <1>1, <1>9, <1>10, <2>1 DEF CommandSync, Turns, Transfer
<1>11. CASE rpc' = "runs" /\ execd' = Append(execd, fields)
  <2>1. fields = Arrived(Cmd)
    <3> DEFINE arr == Arrived(Cmd)
    <3>1. arr \in Seq(Text) /\ Len(arr) = Len(Cmd)
      BY <1>4, ArrivedTypes
    <3>2. \A i \in 1 .. Len(Cmd) : arr[i] = Chars(Cmd[i])[Len(Cmd[i])]
      BY DEF Arrived
    <3> HIDE DEF arr
    <3>3. \A i \in 1 .. Len(fields) : fields[i] = arr[i]
      BY <1>7, <3>2
    <3>4. fields = arr
      BY <1>7, <3>1, <3>3, SeqEqual
    <3> QED BY <3>4 DEF arr
  <2>2. execd \in Seq(Seq(Text)) /\ fields \in Seq(Text)
    BY <1>0, <1>7 DEF History
  <2>3. /\ execd' \in Seq(Seq(Text)) /\ Len(execd') = Len(execd) + 1
        /\ execd'[Len(execd')] = fields
        /\ \A i \in 1 .. Len(execd) : execd'[i] = execd[i]
    BY <1>11, <2>2
  <2>4. \A i \in 1 .. Len(execd') : i \in 1 .. Len(execd) \/ i = Len(execd')
    BY <1>3, <2>3
  <2>5. sent[Len(execd')] = Cmd
    BY <1>3, <2>3 DEF Cmd
  <2>6. \A i \in 1 .. Len(execd') : execd'[i] = Arrived(sent[i])
    BY <1>0, <2>1, <2>3, <2>4, <2>5 DEF History
  <2>7. sent' = sent
    BY <1>1
  <2>8. History' /\ ~Outstanding'
    BY <1>0, <1>3, <2>3, <2>6, <2>7 DEF History, Outstanding
  <2> QED BY <1>0, <1>1, <1>8, <1>9, <1>11, <2>8 DEF CommandSync, Turns, Transfer
<1> QED BY <1>1, <1>10, <1>11

LEMMA SyncStep == CommandSync /\ [Next]_vars => CommandSync'
<1> SUFFICES ASSUME CommandSync, [Next]_vars PROVE CommandSync'
  OBVIOUS
<1>0. History /\ Turns /\ Transfer
  BY DEF CommandSync
<1>1. CASE RunReturn
  <2>1. /\ UNCHANGED <<sent, unwritten, pipe, rpc, count, at, fields, execd>>
        /\ wpc = "waiting" /\ (wpc' = "fatal" \/ (wpc' = "idle" /\ rpc = "count" /\ ~Outstanding))
    BY <1>1 DEF RunReturn, readerVars, Outstanding
  <2>2. History' /\ Cmd' = Cmd /\ (Outstanding' <=> Outstanding)
    BY <1>0, <2>1, HistoryKept
  <2> QED BY <1>0, <2>1, <2>2 DEF CommandSync, Turns, Transfer
<1>2. CASE Close
  <2>1. /\ UNCHANGED <<sent, unwritten, pipe, rpc, count, at, fields, execd>>
        /\ wpc' \in {"closed", "fatal"}
    BY <1>2 DEF Close, readerVars
  <2>2. History' /\ Cmd' = Cmd /\ (Outstanding' <=> Outstanding)
    BY <1>0, <2>1, HistoryKept
  <2> QED BY <1>0, <2>1, <2>2 DEF CommandSync, Turns, Transfer
<1>3. CASE CommandDone
  <2>1. /\ UNCHANGED <<sent, wpc, unwritten, pipe, count, at, fields, execd>>
        /\ rpc = "runs" /\ rpc' = "count"
    BY <1>3 DEF CommandDone, judgeVars
  <2>2. History' /\ Cmd' = Cmd /\ (Outstanding' <=> Outstanding)
    BY <1>0, <2>1, HistoryKept
  <2>3. ~Outstanding
    BY <1>0, <2>1 DEF Turns
  <2> QED BY <1>0, <2>1, <2>2, <2>3 DEF CommandSync, Turns, Transfer
<1>4. CASE EndOfInput
  <2>1. /\ UNCHANGED <<sent, wpc, unwritten, pipe, count, at, fields, execd>>
        /\ wpc \in {"closed", "fatal"} /\ rpc' = "dead"
    BY <1>4 DEF EndOfInput, judgeVars, Closed
  <2>2. History' /\ Cmd' = Cmd /\ (Outstanding' <=> Outstanding)
    BY <1>0, <2>1, HistoryKept
  <2> QED BY <1>0, <2>1, <2>2 DEF CommandSync, Turns, Transfer
<1>5. CASE Over \/ UNCHANGED vars
  <2>1. UNCHANGED <<sent, wpc, unwritten, pipe, rpc, count, at, fields, execd>>
    BY <1>5 DEF Over, vars
  <2>2. History' /\ Cmd' = Cmd /\ (Outstanding' <=> Outstanding)
    BY <1>0, <2>1, HistoryKept
  <2> QED BY <1>0, <2>1, <2>2 DEF CommandSync, Turns, Transfer
<1> QED BY <1>1, <1>2, <1>3, <1>4, <1>5, SyncRunCall, SyncWrite, SyncRead, SyncExec DEF Next, Step

(* Judge and sandbox never lose step, whatever the commands hold and however *)
(* the pipe cuts them: the count read is a count, nothing is left over of a  *)
(* message when the next is sent, and no more is executed than was sent.     *)
THEOREM OneCommandAtATime == Spec => []Inv
<1>1. CommandSync => Inv
  <2> SUFFICES ASSUME CommandSync PROVE Inv
    OBVIOUS
  <2>0. History /\ Turns /\ Transfer
    BY DEF CommandSync
  <2>1. Len(execd) <= Len(sent)
    BY <2>0 DEF History
  <2>2. \A q \in {unwritten, pipe} : ToSet(q) \subseteq 0 .. MaxByte
    <3>1. \A q \in Seq(Byte) : ToSet(q) \subseteq Byte
      BY ElementOfSeq DEF ToSet
    <3> QED BY <2>0, <3>1 DEF Transfer, Byte
  <2>3. rpc = "fields" => count \in 1 .. MaxByte /\ at \in 0 .. count /\ Len(fields) = count
    <3>1. SUFFICES ASSUME rpc = "fields" PROVE count \in 1 .. MaxByte /\ at \in 0 .. count /\ Len(fields) = count
      OBVIOUS
    <3>2. Outstanding
      BY <2>0, <3>1 DEF Turns
    <3>3. Len(Cmd) \in 1 .. MaxByte
      BY <2>0, <3>2, CmdTypes, CommandTypes
    <3> QED BY <2>0, <3>1, <3>3 DEF Transfer, HasRead
  <2>4. OneAtATime
    BY <2>0 DEF Turns, OneAtATime
  <2> QED BY <2>0, <2>1, <2>2, <2>3, <2>4 DEF Inv, TypeOK, Turns
<1> QED BY <1>1, SyncStart, SyncStep, PTL DEF Spec

(* What is executed is what was sent, with each byte read as the character  *)
(* of that number. *)
ExecutedAsRead == \A i \in 1 .. Len(execd) : execd[i] = Arrived(sent[i])

THEOREM CommandsArriveAsCharacters == Spec => []ExecutedAsRead
<1>1. CommandSync => ExecutedAsRead
  BY DEF CommandSync, History, ExecutedAsRead
<1> QED BY <1>1, SyncStart, SyncStep, PTL DEF Spec

(* Of fields of ASCII, where a byte is the character of that number in UTF-8 *)
(* too, the command executed is byte for byte the one sent. *)
THEOREM PlainCommandsArrive ==
    ASSUME PlainInputs
    PROVE  Spec => []CommandsArrive
<1>1. ASSUME NEW cmd \in Inputs, Accepts(cmd) PROVE Arrived(cmd) = cmd
  <2>1. cmd \in Seq(Bytes) /\ cmd \in Seq(Seq(1 .. 127))
    BY <1>1, CommandTypes DEF PlainInputs
  <2>2. ASSUME NEW j \in 1 .. Len(cmd) PROVE Chars(cmd[j])[Len(cmd[j])] = cmd[j]
    <3>1. cmd[j] \in Bytes /\ cmd[j] \in Seq(1 .. 127)
      BY <2>1, ElementOfSeq
    <3> QED BY <3>1, PlainChars
  <2>3. cmd = [j \in 1 .. Len(cmd) |-> cmd[j]]
    BY <2>1
  <2> QED BY <2>2, <2>3 DEF Arrived
<1>2. CommandSync => CommandsArrive
  <2> SUFFICES ASSUME History, NEW i \in 1 .. Len(execd) PROVE execd[i] = sent[i]
    BY DEF CommandSync, CommandsArrive
  <2>1. i \in 1 .. Len(sent) /\ sent \in Seq(Inputs)
    BY DEF History
  <2>2. sent[i] \in Inputs /\ Accepts(sent[i])
    BY <2>1, ElementOfSeq DEF History
  <2>3. execd[i] = Arrived(sent[i])
    BY DEF History
  <2> QED BY <1>1, <2>2, <2>3
<1> QED BY <1>2, SyncStart, SyncStep, PTL DEF Spec
=============================================================================

-------------------------- MODULE ProxyRequestProofs --------------------------
(***************************************************************************)
(* Proofs about AddressCodec and ProxyRequest, for every length byte up to *)
(* a byte's range and all hosts, ports and data: the server reads from a   *)
(* first frame the address and the data that the client has packed, and    *)
(* dials what the application has named.                                   *)
(***************************************************************************)
EXTENDS ProxyRequest, SequenceTheorems, WellFoundedInduction, TLAPS

-----------------------------------------------------------------------------
(* Induction.  A set takes the place of the predicate that the library's   *)
(* theorems on induction have as a parameter.                              *)

\* A set of numbers that is not empty has a least one.
LEMMA LeastNumber ==
    ASSUME NEW T \in SUBSET Nat, T # {} PROVE \E m \in T : \A k \in T : m <= k
<1> DEFINE R == OpToRel(<, Nat)
<1>1. IsWellFoundedOn(R, Nat)
  BY NatLessThanWellFounded
<1>2. \A x \in Nat, y \in Nat : x < y => <<x, y>> \in R
  BY DEF OpToRel
<1> HIDE DEF R
<1>3. \E m \in T : \A k \in T : ~(<<k, m>> \in R)
  BY <1>1, WFMin
<1>4. PICK m \in T : \A k \in T : ~(<<k, m>> \in R)
  BY <1>3
<1>5. \A k \in T : ~(k < m)
  <2> SUFFICES ASSUME NEW k \in T, k < m PROVE FALSE
    OBVIOUS
  <2>0. k \in Nat /\ m \in Nat
    OBVIOUS
  <2>1. <<k, m>> \in R
    BY <1>2, <2>0, Zenon
  <2>2. QED BY <1>4, <2>1, Zenon
<1>6. QED BY <1>5

\* Numbers that hold zero and the successor of each of them are all numbers.
LEMMA SetInduction ==
    ASSUME NEW T \in SUBSET Nat, 0 \in T, \A n \in T : n + 1 \in T PROVE T = Nat
<1> SUFFICES ASSUME Nat \ T # {} PROVE FALSE
  OBVIOUS
<1>1. PICK m \in Nat \ T : \A k \in Nat \ T : m <= k
  BY LeastNumber
<1>2. m # 0 /\ m - 1 \in Nat /\ m - 1 \in T
  BY <1>1
<1>3. QED BY <1>1, <1>2

-----------------------------------------------------------------------------
(* FlattenSeq.                                                             *)

\* FlattenSeq joins its pieces one after the other.
Joins(g, u) ==
    g = [i \in 1..Len(u) |-> IF i = 1 THEN u[i] ELSE g[i - 1] \o u[i]]

\* The function that FlattenSeq chooses exists, and its values are sequences.
LEMMA FlattenJoins ==
    ASSUME NEW S, NEW u \in Seq(Seq(S)), Len(u) > 0
    PROVE  \E g : /\ Joins(g, u) /\ FlattenSeq(u) = g[Len(u)]
                  /\ g \in [1..Len(u) -> Seq(S)]
<1> DEFINE N == Len(u)
           Solves(f, n) ==
             /\ f \in [1..n -> Seq(S)]
             /\ \A i \in 1..n : f[i] = IF i = 1 THEN u[i] ELSE f[i - 1] \o u[i]
           T == {n \in Nat : n <= N => \E f : Solves(f, n)}
<1>1. N \in Nat /\ N > 0 /\ \A i \in 1..N : u[i] \in Seq(S)
  OBVIOUS
<1> HIDE DEF N
<1>2. 0 \in T
  <2>1. Solves([i \in 1..0 |-> <<>>], 0)
    OBVIOUS
  <2>2. QED BY <2>1
<1>3. ASSUME NEW n \in T PROVE n + 1 \in T
  <2>1. n \in Nat
    OBVIOUS
  <2> SUFFICES ASSUME n + 1 <= N PROVE \E f : Solves(f, n + 1)
    BY <2>1
  <2>2. PICK f : Solves(f, n)
    BY <1>1, <2>1
  <2> DEFINE h == [i \in 1..n + 1 |-> IF i <= n THEN f[i] ELSE IF n = 0 THEN u[1] ELSE f[n] \o u[i]]
  <2>3. \A i \in 1..n : h[i] = f[i] /\ i <= n /\ i \in 1..n + 1
    BY <2>1
  <2>4. h[n + 1] = IF n = 0 THEN u[1] ELSE f[n] \o u[n + 1]
    BY <2>1
  <2>5. h[n + 1] \in Seq(S)
    <3>1. CASE n = 0
      BY <1>1, <2>4, <3>1
    <3>2. CASE n # 0
      <4>1. n \in 1..n /\ n + 1 \in 1..N
        BY <1>1, <2>1, <3>2
      <4>2. f[n] \in Seq(S) /\ u[n + 1] \in Seq(S)
        BY <1>1, <2>2, <4>1
      <4>3. QED BY <2>4, <3>2, <4>2
    <3>3. QED BY <3>1, <3>2
  <2>6. h \in [1..n + 1 -> Seq(S)]
    <3>1. ASSUME NEW i \in 1..n + 1 PROVE h[i] \in Seq(S)
      <4>1. i \in 1..n \/ i = n + 1
        BY <2>1
      <4>2. QED BY <2>2, <2>3, <2>5, <4>1
    <3>2. QED BY <3>1
  <2> HIDE DEF h
  <2>7. ASSUME NEW i \in 1..n + 1
        PROVE  h[i] = IF i = 1 THEN u[i] ELSE h[i - 1] \o u[i]
    <3>1. CASE i \in 1..n
      <4>1. i = 1 \/ i - 1 \in 1..n
        BY <2>1
      <4>2. QED BY <2>2, <2>3, <3>1, <4>1
    <3>2. CASE i = n + 1
      <4>1. CASE n = 0
        BY <2>4, <3>2, <4>1
      <4>2. CASE n # 0
        <5>1. n \in 1..n /\ i # 1 /\ i - 1 = n
          BY <2>1, <3>2, <4>2
        <5>2. QED BY <2>3, <2>4, <3>2, <4>2, <5>1
      <4>3. QED BY <4>1, <4>2
    <3>3. QED BY <2>1, <3>1, <3>2
  <2>8. QED BY <2>6, <2>7
<1>4. T = Nat
  BY <1>2, <1>3, SetInduction
<1>5. PICK f : Solves(f, N)
  <2> HIDE DEF T, Solves
  <2>1. N \in T /\ N <= N
    BY <1>1, <1>4
  <2>2. QED BY <2>1 DEF T
<1>6. Joins(f, u)
  BY <1>5 DEF Joins, N
<1> DEFINE g == CHOOSE g : Joins(g, u)
<1>7. Joins(g, u)
  BY <1>6
<1>8. FlattenSeq(u) = g[N]
  BY <1>1 DEF FlattenSeq, Joins, N
<1> HIDE DEF g
<1> DEFINE U == {n \in Nat : n \in 1..N => g[n] \in Seq(S)}
<1>9. \A i \in 1..N : g[i] = IF i = 1 THEN u[i] ELSE g[i - 1] \o u[i]
  BY <1>7 DEF Joins, N
<1>10. 0 \in U
  OBVIOUS
<1>11. ASSUME NEW n \in U PROVE n + 1 \in U
  <2>0. n \in Nat
    OBVIOUS
  <2> SUFFICES ASSUME n + 1 \in 1..N PROVE g[n + 1] \in Seq(S)
    BY <2>0
  <2>1. CASE n = 0
    BY <1>1, <1>9, <2>1
  <2>2. CASE n # 0
    <3>1. n \in 1..N /\ n + 1 # 1 /\ (n + 1) - 1 = n
      BY <1>1, <2>0, <2>2
    <3>2. g[n] \in Seq(S) /\ u[n + 1] \in Seq(S)
      BY <1>1, <3>1
    <3>3. g[n + 1] = g[n] \o u[n + 1]
      BY <1>9, <3>1
    <3>4. QED BY <3>2, <3>3
  <2>3. QED BY <2>1, <2>2
<1>12. U = Nat
  BY <1>10, <1>11, SetInduction
<1>13. g \in [1..N -> Seq(S)]
  <2>1. \A i \in 1..N : g[i] \in Seq(S)
    BY <1>1, <1>12
  <2>2. QED BY <1>7, <2>1 DEF Joins, N
<1>14. QED BY <1>7, <1>8, <1>13 DEF N

\* What FlattenSeq makes of one more piece.
LEMMA FlattenAppend ==
    ASSUME NEW S, NEW u \in Seq(Seq(S)), NEW x \in Seq(S)
    PROVE  /\ FlattenSeq(u) \in Seq(S)
           /\ FlattenSeq(Append(u, x)) = FlattenSeq(u) \o x
           /\ FlattenSeq(<<>>) = <<>>
<1>0. FlattenSeq(<<>>) = <<>>
  BY DEF FlattenSeq
<1> DEFINE v == Append(u, x)
           N == Len(u)
<1>1. /\ v \in Seq(Seq(S)) /\ Len(v) = N + 1 /\ N \in Nat /\ v[N + 1] = x
      /\ \A i \in 1..N : v[i] = u[i]
  BY AppendProperties
<1> HIDE DEF v
<1>2. PICK h : Joins(h, v) /\ FlattenSeq(v) = h[N + 1] /\ h \in [1..N + 1 -> Seq(S)]
  BY <1>1, FlattenJoins
<1>3. \A i \in 1..N + 1 : h[i] = IF i = 1 THEN v[i] ELSE h[i - 1] \o v[i]
  BY <1>1, <1>2 DEF Joins
<1>4. CASE N = 0
  <2>1. u = <<>>
    BY <1>4
  <2>2. FlattenSeq(u) = <<>>
    BY <1>0, <2>1
  <2>3. FlattenSeq(v) = x
    BY <1>1, <1>2, <1>3, <1>4
  <2>4. QED BY <1>0, <2>2, <2>3, ConcatEmptySeq DEF v
<1>5. CASE N # 0
  <2>1. PICK g : Joins(g, u) /\ FlattenSeq(u) = g[N] /\ g \in [1..N -> Seq(S)]
    BY <1>1, <1>5, FlattenJoins
  <2>2. \A i \in 1..N : g[i] = IF i = 1 THEN u[i] ELSE g[i - 1] \o u[i]
    BY <2>1 DEF Joins
  <2> DEFINE T == {n \in Nat : n \in 1..N => h[n] = g[n]}
  <2>3. 0 \in T
    OBVIOUS
  <2>4. ASSUME NEW n \in T PROVE n + 1 \in T
    <3>0. n \in Nat
      OBVIOUS
    <3> SUFFICES ASSUME n + 1 \in 1..N PROVE h[n + 1] = g[n + 1]
      BY <3>0
    <3>1. CASE n = 0
      BY <1>1, <1>3, <2>2, <3>1
    <3>2. CASE n # 0
      <4>1. n \in 1..N /\ n + 1 # 1 /\ (n + 1) - 1 = n /\ n + 1 \in 1..N + 1
        BY <1>1, <3>0, <3>2
      <4>2. QED BY <1>1, <1>3, <2>2, <4>1
    <3>3. QED BY <3>1, <3>2
  <2>5. T = Nat
    BY <2>3, <2>4, SetInduction
  <2>6. N \in 1..N /\ N + 1 \in 1..N + 1 /\ N + 1 # 1 /\ (N + 1) - 1 = N
    BY <1>1, <1>5
  <2>7. h[N] = g[N] /\ g[N] \in Seq(S)
    BY <2>1, <2>5, <2>6
  <2>8. FlattenSeq(v) = h[N] \o x
    BY <1>1, <1>2, <1>3, <2>6
  <2>9. QED BY <1>0, <2>1, <2>7, <2>8 DEF v
<1>6. QED BY <1>4, <1>5

-----------------------------------------------------------------------------
(* String::from_utf8_lossy.                                                *)

\* At place j the replacement character begins.
Begins(b, j) == j >= 1 /\ j + 2 <= Len(b) /\ b[j] = 239 /\ b[j + 1] = 191 /\ b[j + 2] = 189

\* A byte of a replacement character, and a byte that stays as it is.
InWhole(b, i) == Begins(b, i) \/ Begins(b, i - 1) \/ Begins(b, i - 2)
Kept(b, i) == b[i] < 128 \/ InWhole(b, i)

\* What Lossy puts for one byte, and for the first n of them.
Piece(b, i) ==
    IF Kept(b, i) THEN <<b[i]>>
    ELSE IF i > 1 /\ b[i - 1] = 239 /\ b[i] = 191 THEN <<>> ELSE Replacement
Upto(b, n) == FlattenSeq([i \in 1..n |-> Piece(b, i)])

\* Every byte is text: nothing of it is replaced.
Clean(b) == \A i \in 1..Len(b) : Kept(b, i)

\* Short sequences of bytes.
LEMMA Bytes == /\ \A x \in Byte : x \in Int /\ <<x>> \in Seq(Byte) /\ Len(<<x>>) = 1 /\ <<x>>[1] = x
               /\ Replacement \in Seq(Byte) /\ Len(Replacement) = 3
               /\ Replacement[1] = 239 /\ Replacement[2] = 191 /\ Replacement[3] = 189
               /\ <<>> \in Seq(Byte)
  BY DEF Byte, Replacement

\* The places at which Lossy looks.
LEMMA Looks ==
    ASSUME NEW b \in Seq(Byte)
    PROVE  /\ \A j \in 1..Len(b) - 2 : SubSeq(b, j, j + 2) = Replacement <=> Begins(b, j)
           /\ \A i \in 2..Len(b) : SubSeq(b, i - 1, i) = <<239, 191>> <=> b[i - 1] = 239 /\ b[i] = 191
<1>1. Len(b) \in Nat
  OBVIOUS
<1>2. ASSUME NEW j \in 1..Len(b) - 2
      PROVE  SubSeq(b, j, j + 2) = Replacement <=> Begins(b, j)
  <2> DEFINE s == SubSeq(b, j, j + 2)
  <2>1. s \in Seq(Byte) /\ Len(s) = 3 /\ s[1] = b[j] /\ s[2] = b[j + 1] /\ s[3] = b[j + 2]
    <3>1. \A i \in j..j + 2 : b[i] \in Byte
      BY <1>1
    <3>2. /\ s \in Seq(Byte) /\ Len(s) = IF j <= j + 2 THEN (j + 2) - j + 1 ELSE 0
          /\ \A i \in 1..(j + 2) - j + 1 : s[i] = b[j + i - 1]
      BY <3>1, SubSeqProperties
    <3>3. QED BY <3>2
  <2> HIDE DEF s
  <2>2. s = Replacement <=> s[1] = 239 /\ s[2] = 191 /\ s[3] = 189
    <3>1. ASSUME s[1] = 239, s[2] = 191, s[3] = 189 PROVE s = Replacement
      <4>1. \A i \in 1..Len(s) : s[i] = Replacement[i]
        BY <2>1, <3>1, Bytes
      <4>2. s \in Seq(Byte) /\ Replacement \in Seq(Byte) /\ Len(s) = Len(Replacement)
        BY <2>1, Bytes
      <4>3. QED BY ONLY <4>1, <4>2, SeqEqual
    <3>2. QED BY <3>1, Bytes
  <2>3. QED BY <1>1, <2>1, <2>2 DEF Begins, s
<1>3. ASSUME NEW i \in 2..Len(b)
      PROVE  SubSeq(b, i - 1, i) = <<239, 191>> <=> b[i - 1] = 239 /\ b[i] = 191
  <2> DEFINE s == SubSeq(b, i - 1, i)
             t == <<239, 191>>
  <2>1. s \in Seq(Byte) /\ Len(s) = 2 /\ s[1] = b[i - 1] /\ s[2] = b[i]
    <3>1. \A k \in i - 1..i : b[k] \in Byte
      BY <1>1
    <3>2. /\ s \in Seq(Byte) /\ Len(s) = IF i - 1 <= i THEN i - (i - 1) + 1 ELSE 0
          /\ \A k \in 1..i - (i - 1) + 1 : s[k] = b[i - 1 + k - 1]
      BY <3>1, SubSeqProperties
    <3>3. QED BY <3>2
  <2>2. t \in Seq(Byte) /\ Len(t) = 2 /\ t[1] = 239 /\ t[2] = 191
    BY DEF Byte
  <2> HIDE DEF s, t
  <2>3. s = t <=> s[1] = 239 /\ s[2] = 191
    <3>1. ASSUME s[1] = 239, s[2] = 191 PROVE s = t
      <4>1. \A k \in 1..Len(s) : s[k] = t[k]
        BY <2>1, <2>2, <3>1
      <4>2. QED BY <2>1, <2>2, <4>1, SeqEqual
    <3>2. QED BY <2>2, <3>1
  <2>4. QED BY <2>1, <2>3 DEF s, t
<1>4. QED BY <1>2, <1>3

\* Lossy, piece by piece.
LEMMA LossyPieces ==
    ASSUME NEW b \in Seq(Byte)
    PROVE  Lossy(b) = Upto(b, Len(b))
<1> DEFINE Whole(i) == \E j \in {i - 2, i - 1, i} :
                          j \in 1..(Len(b) - 2) /\ SubSeq(b, j, j + 2) = Replacement
           Second(i) == i > 1 /\ SubSeq(b, i - 1, i) = <<239, 191>>
           P(i) == CASE b[i] < 128 \/ Whole(i) -> <<b[i]>>
                     [] Second(i) /\ ~Whole(i) -> <<>>
                     [] OTHER                  -> Replacement
<1>1. Lossy(b) = FlattenSeq([i \in DOMAIN b |-> P(i)])
  BY DEF Lossy
<1>2. Len(b) \in Nat /\ DOMAIN b = 1..Len(b) /\ \A i \in 1..Len(b) : b[i] \in Byte /\ b[i] \in Int
  BY Bytes
<1>3. ASSUME NEW i \in 1..Len(b) PROVE P(i) = Piece(b, i)
  <2>1. Whole(i) <=> InWhole(b, i)
    <3>1. \A j \in {i - 2, i - 1, i} :
             (j \in 1..(Len(b) - 2) /\ SubSeq(b, j, j + 2) = Replacement) <=> Begins(b, j)
      <4> SUFFICES ASSUME NEW j \in {i - 2, i - 1, i}
                   PROVE  (j \in 1..(Len(b) - 2) /\ SubSeq(b, j, j + 2) = Replacement)
                             <=> Begins(b, j)
        OBVIOUS
      <4>1. j \in Int
        BY <1>2
      <4>2. Begins(b, j) => j \in 1..(Len(b) - 2)
        BY <1>2, <4>1 DEF Begins
      <4>3. QED BY <4>2, Looks
    <3>2. QED BY <3>1 DEF InWhole
  <2>2. Second(i) <=> i > 1 /\ b[i - 1] = 239 /\ b[i] = 191
    BY <1>2, Looks
  <2> HIDE DEF Whole, Second
  <2>3. Second(i) => ~(b[i] < 128)
    BY <2>2
  <2>4. CASE b[i] < 128 \/ Whole(i)
    BY <2>1, <2>3, <2>4 DEF Piece, Kept
  <2>5. CASE ~(b[i] < 128 \/ Whole(i)) /\ Second(i)
    BY <2>1, <2>2, <2>5 DEF Piece, Kept
  <2>6. CASE ~(b[i] < 128 \/ Whole(i)) /\ ~Second(i)
    BY <2>1, <2>2, <2>6 DEF Piece, Kept
  <2>7. QED BY <2>4, <2>5, <2>6
<1> HIDE DEF P
<1>4. [i \in DOMAIN b |-> P(i)] = [i \in 1..Len(b) |-> Piece(b, i)]
  BY <1>2, <1>3
<1>5. QED BY <1>1, <1>4 DEF Upto

\* One place further.
LEMMA UptoNext ==
    ASSUME NEW b \in Seq(Byte), NEW n \in Nat, n <= Len(b)
    PROVE  /\ Upto(b, n) \in Seq(Byte)
           /\ Upto(b, 0) = <<>>
           /\ n < Len(b) => /\ Upto(b, n + 1) = Upto(b, n) \o Piece(b, n + 1)
                            /\ Piece(b, n + 1) \in Seq(Byte)
<1> DEFINE u == [i \in 1..n |-> Piece(b, i)]
<1>1. \A i \in 1..Len(b) : Piece(b, i) \in Seq(Byte)
  BY Bytes DEF Piece
<1>2. u \in Seq(Seq(Byte)) /\ Len(u) = n /\ \A i \in 1..n : u[i] = Piece(b, i)
  BY <1>1
<1>3. Upto(b, n) = FlattenSeq(u)
  BY DEF Upto
<1> HIDE DEF u
<1>4. Upto(b, n) \in Seq(Byte)
  BY <1>2, <1>3, Bytes, FlattenAppend
<1>5. Upto(b, 0) = <<>>
  <2>1. [i \in 1..0 |-> Piece(b, i)] = <<>>
    OBVIOUS
  <2>2. QED BY <1>2, <2>1, Bytes, FlattenAppend DEF Upto
<1>6. ASSUME n < Len(b)
      PROVE  /\ Upto(b, n + 1) = Upto(b, n) \o Piece(b, n + 1)
             /\ Piece(b, n + 1) \in Seq(Byte)
  <2> DEFINE x == Piece(b, n + 1)
             w == [i \in 1..n + 1 |-> Piece(b, i)]
  <2>1. x \in Seq(Byte)
    BY <1>1, <1>6
  <2>2. w \in Seq(Seq(Byte)) /\ Len(w) = n + 1 /\ \A i \in 1..n + 1 : w[i] = Piece(b, i)
    BY <1>1, <1>6
  <2>3. Upto(b, n + 1) = FlattenSeq(w)
    BY DEF Upto
  <2> HIDE DEF x, w
  <2>4. /\ Append(u, x) \in Seq(Seq(Byte)) /\ Len(Append(u, x)) = n + 1
        /\ \A i \in 1..n : Append(u, x)[i] = u[i]
        /\ Append(u, x)[n + 1] = x
    BY <1>2, <2>1, AppendProperties
  <2>5. w = Append(u, x)
    <3>1. \A i \in 1..n + 1 : w[i] = Append(u, x)[i]
      <4> SUFFICES ASSUME NEW i \in 1..n + 1 PROVE w[i] = Append(u, x)[i]
        OBVIOUS
      <4>1. i \in 1..n \/ i = n + 1
        OBVIOUS
      <4>2. QED BY <1>2, <2>2, <2>4, <4>1 DEF x
    <3>2. QED BY <2>2, <2>4, <3>1, SeqEqual
  <2>6. QED BY <1>2, <1>3, <2>1, <2>3, <2>5, FlattenAppend DEF x
<1>7. QED BY <1>4, <1>5, <1>6

\* A byte of a concatenation is one of its parts.
LEMMA Glued ==
    ASSUME NEW s \in Seq(Byte), NEW t \in Seq(Byte)
    PROVE  /\ s \o t \in Seq(Byte)
           /\ Len(s) \in Nat /\ Len(t) \in Nat
           /\ Len(s \o t) = Len(s) + Len(t)
           /\ \A i \in 1..Len(s) : (s \o t)[i] = s[i]
           /\ \A i \in 1..Len(t) : (s \o t)[Len(s) + i] = t[i]
<1>1. /\ s \o t \in Seq(Byte) /\ Len(s \o t) = Len(s) + Len(t)
      /\ \A i \in 1..Len(s) + Len(t) : (s \o t)[i] = IF i <= Len(s) THEN s[i] ELSE t[i - Len(s)]
  BY ConcatProperties
<1>2. Len(s) \in Nat /\ Len(t) \in Nat
  OBVIOUS
<1>3. \A i \in 1..Len(s) : (s \o t)[i] = s[i]
  BY <1>1, <1>2
<1>4. ASSUME NEW i \in 1..Len(t) PROVE (s \o t)[Len(s) + i] = t[i]
  <2>1. /\ Len(s) + i \in 1..Len(s) + Len(t) /\ ~(Len(s) + i <= Len(s))
        /\ (Len(s) + i) - Len(s) = i
    BY <1>2
  <2>2. QED BY <1>1, <2>1
<1>5. QED BY <1>1, <1>2, <1>3, <1>4

\* Short texts, byte by byte.
LEMMA Spelt ==
    ASSUME NEW x \in Byte, NEW y \in Byte, NEW z \in Byte
    PROVE  <<x>> \o <<y>> = <<x, y>> /\ <<x, y>> \o <<z>> = <<x, y, z>>
<1>1. /\ <<x>> \in Seq(Byte) /\ <<y>> \in Seq(Byte) /\ <<z>> \in Seq(Byte)
      /\ <<x, y>> \in Seq(Byte) /\ <<x, y, z>> \in Seq(Byte)
  OBVIOUS
<1>2. <<x>> \o <<y>> = <<x, y>>
  <2> DEFINE s == <<x>>
             t == <<y>>
             u == <<x, y>>
  <2>1. /\ s \in Seq(Byte) /\ t \in Seq(Byte) /\ u \in Seq(Byte)
        /\ Len(s) = 1 /\ Len(t) = 1 /\ Len(u) = 2 /\ s[1] = x /\ t[1] = y /\ u[1] = x /\ u[2] = y
    BY <1>1
  <2> HIDE DEF s, t, u
  <2>2. s \o t \in Seq(Byte) /\ Len(s \o t) = Len(s) + Len(t)
        /\ (\A i \in 1..Len(s) : (s \o t)[i] = s[i])
        /\ (\A i \in 1..Len(t) : (s \o t)[Len(s) + i] = t[i])
    BY <2>1, Glued
  <2>3. (s \o t)[1] = x /\ (s \o t)[2] = y /\ Len(s \o t) = 2
    BY <2>1, <2>2
  <2>4. \A i \in 1..Len(u) : u[i] = (s \o t)[i]
    BY <2>1, <2>3
  <2>5. u = s \o t
    BY <2>1, <2>2, <2>3, <2>4, SeqEqual
  <2>6. QED BY <2>5 DEF s, t, u
<1>3. <<x, y>> \o <<z>> = <<x, y, z>>
  <2> DEFINE s == <<x, y>>
             t == <<z>>
             u == <<x, y, z>>
  <2>1. /\ s \in Seq(Byte) /\ t \in Seq(Byte) /\ u \in Seq(Byte)
        /\ Len(s) = 2 /\ Len(t) = 1 /\ Len(u) = 3
        /\ s[1] = x /\ s[2] = y /\ t[1] = z /\ u[1] = x /\ u[2] = y /\ u[3] = z
    BY <1>1
  <2> HIDE DEF s, t, u
  <2>2. s \o t \in Seq(Byte) /\ Len(s \o t) = Len(s) + Len(t)
        /\ (\A i \in 1..Len(s) : (s \o t)[i] = s[i])
        /\ (\A i \in 1..Len(t) : (s \o t)[Len(s) + i] = t[i])
    BY <2>1, Glued
  <2>3. (s \o t)[1] = x /\ (s \o t)[2] = y /\ (s \o t)[3] = z /\ Len(s \o t) = 3
    BY <2>1, <2>2
  <2>4. \A i \in 1..Len(u) : u[i] = (s \o t)[i]
    BY <2>1, <2>3
  <2>5. u = s \o t
    BY <2>1, <2>2, <2>3, <2>4, SeqEqual
  <2>6. QED BY <2>5 DEF s, t, u
<1>4. QED BY <1>2, <1>3

\* A concatenation of clean texts is clean.
LEMMA CleanJoined ==
    ASSUME NEW s \in Seq(Byte), NEW t \in Seq(Byte), Clean(s), Clean(t)
    PROVE  Clean(s \o t)
<1> DEFINE r == s \o t
<1>1. /\ r \in Seq(Byte)
      /\ Len(s) \in Nat /\ Len(t) \in Nat
      /\ Len(r) = Len(s) + Len(t)
      /\ \A i \in 1..Len(s) : r[i] = s[i]
      /\ \A i \in 1..Len(t) : r[Len(s) + i] = t[i]
  BY Glued
<1> HIDE DEF r
<1>2. \A j \in Int : Begins(s, j) => Begins(r, j)
  <2> SUFFICES ASSUME NEW j \in Int, Begins(s, j) PROVE Begins(r, j)
    OBVIOUS
  <2>1. j \in 1..Len(s) /\ j + 1 \in 1..Len(s) /\ j + 2 \in 1..Len(s) /\ j + 2 <= Len(r)
    BY <1>1 DEF Begins
  <2>2. r[j] = s[j] /\ r[j + 1] = s[j + 1] /\ r[j + 2] = s[j + 2]
    BY <1>1, <2>1
  <2>3. QED BY <2>1, <2>2 DEF Begins
<1>3. \A j \in Int : Begins(t, j) => Begins(r, Len(s) + j)
  <2> SUFFICES ASSUME NEW j \in Int, Begins(t, j) PROVE Begins(r, Len(s) + j)
    OBVIOUS
  <2>1. j \in 1..Len(t) /\ j + 1 \in 1..Len(t) /\ j + 2 \in 1..Len(t) /\ Len(s) + j + 2 <= Len(r)
    BY <1>1 DEF Begins
  <2>2. r[Len(s) + j] = t[j] /\ r[Len(s) + (j + 1)] = t[j + 1] /\ r[Len(s) + (j + 2)] = t[j + 2]
    BY <1>1, <2>1
  <2>3. Len(s) + (j + 1) = Len(s) + j + 1 /\ Len(s) + (j + 2) = Len(s) + j + 2 /\ Len(s) + j >= 1
    BY <1>1, <2>1
  <2>4. QED BY <2>1, <2>2, <2>3 DEF Begins
<1>4. ASSUME NEW i \in 1..Len(r) PROVE Kept(r, i)
  <2>1. CASE i <= Len(s)
    <3>1. i \in 1..Len(s) /\ i - 1 \in Int /\ i - 2 \in Int /\ i \in Int
      BY <1>1, <2>1
    <3>2. Kept(s, i) /\ r[i] = s[i]
      BY <1>1, <3>1 DEF Clean
    <3>3. InWhole(s, i) => InWhole(r, i)
      BY <1>2, <3>1 DEF InWhole
    <3>4. QED BY <3>2, <3>3 DEF Kept
  <2>2. CASE i > Len(s)
    <3> DEFINE k == i - Len(s)
    <3>1. /\ k \in 1..Len(t) /\ k - 1 \in Int /\ k - 2 \in Int /\ k \in Int /\ i = Len(s) + k
          /\ i - 1 = Len(s) + (k - 1) /\ i - 2 = Len(s) + (k - 2)
      BY <1>1, <2>2
    <3> HIDE DEF k
    <3>2. Kept(t, k) /\ r[i] = t[k]
      BY <1>1, <3>1 DEF Clean
    <3>3. InWhole(t, k) => InWhole(r, i)
      BY <1>3, <3>1 DEF InWhole
    <3>4. QED BY <3>2, <3>3 DEF Kept
  <2>3. i <= Len(s) \/ i > Len(s)
    BY <1>1
  <2>4. QED BY <2>1, <2>2, <2>3
<1>5. QED BY <1>4 DEF Clean, r

\* Short texts that are clean.
LEMMA CleanOnes ==
    /\ Clean(Replacement) /\ Clean(<<>>)
    /\ \A x \in Byte : x < 128 => Clean(<<x>>)
<1>1. Clean(Replacement)
  <2>1. Begins(Replacement, 1)
    BY Bytes DEF Begins
  <2>2. \A i \in 1..3 : i = 1 \/ i - 1 = 1 \/ i - 2 = 1
    OBVIOUS
  <2>3. QED BY <2>1, <2>2, Bytes DEF Clean, Kept, InWhole
<1>2. \A x \in Byte : x < 128 => Clean(<<x>>)
  BY Bytes DEF Clean, Kept
<1>3. Clean(<<>>)
  BY DEF Clean
<1>4. QED BY <1>1, <1>2, <1>3

\* Inside a replacement character the text so far is a clean one and the character's beginning.
SoFar(b, n) ==
    LET s == Upto(b, n) IN
    IF n >= 1 /\ Begins(b, n) THEN \E c \in Seq(Byte) : Clean(c) /\ s = c \o <<239>>
    ELSE IF n >= 2 /\ Begins(b, n - 1)
         THEN \E c \in Seq(Byte) : Clean(c) /\ s = c \o <<239, 191>>
    ELSE Clean(s)

\* The text that Lossy makes is clean.
LEMMA LossyClean ==
    ASSUME NEW b \in Seq(Byte)
    PROVE  Lossy(b) \in Seq(Byte) /\ Clean(Lossy(b))
<1> DEFINE T == {n \in Nat : n <= Len(b) => SoFar(b, n)}
<1>1. Len(b) \in Nat /\ \A i \in 1..Len(b) : b[i] \in Byte /\ b[i] \in Int
  BY Bytes
<1>2. 0 \in T
  BY <1>1, UptoNext, CleanOnes DEF SoFar
<1>3. ASSUME NEW n \in T PROVE n + 1 \in T
  <2>0. n \in Nat
    OBVIOUS
  <2> SUFFICES ASSUME n + 1 <= Len(b) PROVE SoFar(b, n + 1)
    BY <2>0
  <2> DEFINE s == Upto(b, n)
             p == Piece(b, n + 1)
  <2>1. s \in Seq(Byte) /\ p \in Seq(Byte) /\ Upto(b, n + 1) = s \o p
    BY <1>1, <2>0, UptoNext
  <2>2. SoFar(b, n)
    BY <1>1, <2>0
  <2>3. n + 1 \in 1..Len(b) /\ b[n + 1] \in Byte /\ (n + 1) - 1 = n /\ (n + 1) - 2 = n - 1
    BY <1>1, <2>0
  <2>7. <<239>> \in Seq(Byte) /\ <<191>> \in Seq(Byte) /\ <<189>> \in Seq(Byte)
        /\ <<239>> \o <<191>> = <<239, 191>> /\ <<239, 191>> \o <<189>> = Replacement
        /\ <<239, 191>> \in Seq(Byte)
    <3>1. <<239>> \in Seq(Byte) /\ <<191>> \in Seq(Byte) /\ <<189>> \in Seq(Byte)
          /\ <<239, 191>> \in Seq(Byte)
      BY DEF Byte
    <3>2. <<239>> \o <<191>> = <<239, 191>>
      BY 239 \in Byte, 191 \in Byte, Spelt DEF Byte
    <3>3. <<239, 191>> \o <<189>> = Replacement
      <4>1. 239 \in Byte /\ 191 \in Byte /\ 189 \in Byte
        BY DEF Byte
      <4>2. <<239, 191>> \o <<189>> = <<239, 191, 189>>
        <5>1. \A x, y, z \in Byte : <<x, y>> \o <<z>> = <<x, y, z>>
          BY Spelt
        <5>2. QED BY <4>1, <5>1, Zenon
      <4>3. QED BY <4>2 DEF Replacement
    <3>4. QED BY <3>1, <3>2, <3>3
  <2>4. CASE n >= 1 /\ Begins(b, n)
    <3>1. PICK c \in Seq(Byte) : Clean(c) /\ s = c \o <<239>>
      BY <2>2, <2>4 DEF SoFar
    <3>2. b[n + 1] = 191 /\ ~Begins(b, n + 1)
      BY <2>0, <2>4 DEF Begins
    <3>3. p = <<191>>
      BY <2>3, <2>4, <3>2 DEF Piece, Kept, InWhole
    <3>4. s \o p = c \o <<239, 191>>
      <4>1. (c \o <<239>>) \o <<191>> = c \o (<<239>> \o <<191>>)
        BY ONLY <2>7, ConcatAssociative, <3>1
      <4>2. QED BY <2>7, <3>1, <3>3, <4>1
    <3>5. n + 1 >= 2
      BY <2>0, <2>4
    <3>6. QED BY <2>1, <2>3, <2>4, <3>1, <3>2, <3>4, <3>5 DEF SoFar
  <2>5. CASE ~(n >= 1 /\ Begins(b, n)) /\ n >= 2 /\ Begins(b, n - 1)
    <3>1. PICK c \in Seq(Byte) : Clean(c) /\ s = c \o <<239, 191>>
      BY <2>2, <2>5 DEF SoFar
    <3>2. b[n + 1] = 189 /\ ~Begins(b, n + 1)
      <4>1. (n - 1) + 2 = n + 1
        BY <2>0
      <4>2. QED BY <2>5, <4>1 DEF Begins
    <3>3. p = <<189>>
      BY <2>3, <2>5, <3>2 DEF Piece, Kept, InWhole
    <3>4. s \o p = c \o Replacement
      <4>1. (c \o <<239, 191>>) \o <<189>> = c \o (<<239, 191>> \o <<189>>)
        BY ONLY <2>7, ConcatAssociative, <3>1
      <4>2. QED BY <2>7, <3>1, <3>3, <4>1
    <3>5. Clean(s \o p)
      BY <3>1, <3>4, Bytes, CleanOnes, CleanJoined
    <3>6. ~Begins(b, n)
      BY <2>0, <2>5
    <3>7. QED BY <2>1, <2>3, <3>2, <3>5, <3>6 DEF SoFar
  <2>6. CASE ~(n >= 1 /\ Begins(b, n)) /\ ~(n >= 2 /\ Begins(b, n - 1))
    <3>1. Clean(s)
      BY <2>2, <2>6 DEF SoFar
    <3>2. ~Begins(b, n) /\ ~Begins(b, n - 1)
      <4>1. ~Begins(b, n)
        BY <2>0, <2>6 DEF Begins
      <4>2. ~Begins(b, n - 1)
        BY <2>0, <2>6 DEF Begins
      <4>3. QED BY <4>1, <4>2
    <3>3. CASE Begins(b, n + 1)
      <4>1. p = <<239>>
        BY <2>3, <3>3 DEF Piece, Kept, InWhole, Begins
      <4>2. n + 1 >= 1
        BY <2>0
      <4>3. QED BY <2>1, <3>1, <3>3, <4>1, <4>2 DEF SoFar
    <3>4. CASE ~Begins(b, n + 1)
      <4>1. ~InWhole(b, n + 1)
        BY <2>3, <3>2, <3>4 DEF InWhole
      <4>2. Clean(p)
        BY <2>3, <4>1, CleanOnes DEF Piece, Kept
      <4>3. Clean(s \o p)
        BY <2>1, <3>1, <4>2, CleanJoined
      <4>4. QED BY <2>1, <2>3, <3>2, <3>4, <4>3 DEF SoFar
    <3>5. QED BY <3>3, <3>4
  <2>8. QED BY <2>4, <2>5, <2>6
<1>4. T = Nat
  BY <1>2, <1>3, SetInduction
<1>5. SoFar(b, Len(b))
  BY <1>1, <1>4
<1>6. ~Begins(b, Len(b)) /\ ~Begins(b, Len(b) - 1)
  BY <1>1 DEF Begins
<1>7. Clean(Upto(b, Len(b)))
  BY <1>5, <1>6 DEF SoFar
<1>8. Upto(b, Len(b)) \in Seq(Byte)
  BY <1>1, UptoNext
<1>9. QED BY <1>7, <1>8, LossyPieces

\* Nothing is replaced in a clean text.
LEMMA CleanStays ==
    ASSUME NEW s \in Seq(Byte), Clean(s) PROVE Lossy(s) = s
<1> DEFINE T == {n \in Nat : n <= Len(s) =>
                    Len(Upto(s, n)) = n /\ \A i \in 1..n : Upto(s, n)[i] = s[i]}
<1>1. Len(s) \in Nat /\ \A i \in 1..Len(s) : s[i] \in Byte
  OBVIOUS
<1>2. 0 \in T
  BY <1>1, UptoNext
<1>3. ASSUME NEW n \in T PROVE n + 1 \in T
  <2>0. n \in Nat
    OBVIOUS
  <2> SUFFICES ASSUME n + 1 <= Len(s)
               PROVE  Len(Upto(s, n + 1)) = n + 1 /\ \A i \in 1..n + 1 : Upto(s, n + 1)[i] = s[i]
    BY <2>0
  <2> DEFINE a == Upto(s, n)
             x == <<s[n + 1]>>
  <2>1. Len(a) = n /\ \A i \in 1..n : a[i] = s[i]
    BY <1>1, <2>0
  <2>2. a \in Seq(Byte) /\ Upto(s, n + 1) = a \o Piece(s, n + 1)
    BY <1>1, <2>0, UptoNext
  <2>3. Piece(s, n + 1) = x
    BY <1>1, <2>0 DEF Clean, Piece
  <2>4. x \in Seq(Byte) /\ Len(x) = 1 /\ x[1] = s[n + 1]
    BY <1>1, <2>0, Bytes
  <2> HIDE DEF a, x
  <2>5. a \in Seq(Byte) /\ x \in Seq(Byte)
    BY <2>2, <2>4
  <2>6. /\ Len(a \o x) = Len(a) + Len(x)
        /\ \A i \in 1..Len(a) : (a \o x)[i] = a[i]
        /\ \A i \in 1..Len(x) : (a \o x)[Len(a) + i] = x[i]
    BY ONLY <2>5, Glued
  <2>7. \A i \in 1..n + 1 : i \in 1..n \/ i = n + 1
    BY <2>0
  <2>8. (a \o x)[n + 1] = s[n + 1]
    <3>1. 1 \in 1..Len(x)
      BY <2>4
    <3>2. QED BY <2>1, <2>4, <2>6, <3>1
  <2>9. QED BY <2>0, <2>1, <2>2, <2>3, <2>4, <2>6, <2>7, <2>8
<1>4. T = Nat
  BY <1>2, <1>3, SetInduction
<1>5. Len(Upto(s, Len(s))) = Len(s) /\ \A i \in 1..Len(s) : Upto(s, Len(s))[i] = s[i]
  <2>1. Len(s) \in T /\ Len(s) <= Len(s)
    <3> HIDE DEF T
    <3>1. QED BY <1>1, <1>4
  <2>2. QED BY <2>1
<1>6. Upto(s, Len(s)) \in Seq(Byte)
  BY <1>1, UptoNext
<1>7. Upto(s, Len(s)) = s
  BY <1>5, <1>6, SeqEqual
<1>8. QED BY <1>7, LossyPieces

\* from_utf8_lossy of a String changes nothing.
LEMMA LossyTwice ==
    ASSUME NEW b \in Seq(Byte)
    PROVE  Lossy(b) \in Seq(Byte) /\ Lossy(Lossy(b)) = Lossy(b)
  BY LossyClean, CleanStays

\* An ASCII character of the text was in the bytes.
LEMMA LossyInvents ==
    ASSUME NEW b \in Seq(Byte), NEW i \in 1..Len(Lossy(b))
    PROVE  (\E k \in 1..Len(b) : Lossy(b)[i] = b[k]) \/ Lossy(b)[i] \in {239, 191, 189}
<1> DEFINE Known(x) == (\E k \in 1..Len(b) : x = b[k]) \/ x \in {239, 191, 189}
           T == {n \in Nat : n <= Len(b) => \A j \in 1..Len(Upto(b, n)) : Known(Upto(b, n)[j])}
<1>1. Len(b) \in Nat /\ \A k \in 1..Len(b) : b[k] \in Byte
  OBVIOUS
<1>2. 0 \in T
  BY <1>1, UptoNext
<1>3. ASSUME NEW n \in T PROVE n + 1 \in T
  <2>0. n \in Nat
    OBVIOUS
  <2> SUFFICES ASSUME n + 1 <= Len(b)
               PROVE  \A j \in 1..Len(Upto(b, n + 1)) : Known(Upto(b, n + 1)[j])
    BY <2>0
  <2> DEFINE a == Upto(b, n)
             p == Piece(b, n + 1)
  <2>1. \A j \in 1..Len(a) : Known(a[j])
    BY <1>1, <2>0
  <2>2. a \in Seq(Byte) /\ p \in Seq(Byte) /\ Upto(b, n + 1) = a \o p
    BY <1>1, <2>0, UptoNext
  <2>3. \A j \in 1..Len(p) : Known(p[j])
    <3>1. n + 1 \in 1..Len(b)
      BY <1>1, <2>0
    <3>2. \/ p = <<b[n + 1]>> \/ p = <<>> \/ p = Replacement
      BY DEF Piece
    <3>3. CASE p = <<b[n + 1]>>
      BY <1>1, <3>1, <3>3, Bytes
    <3>4. CASE p = <<>>
      BY <3>4
    <3>5. CASE p = Replacement
      <4>1. \A j \in 1..3 : j = 1 \/ j = 2 \/ j = 3
        OBVIOUS
      <4>2. QED BY <3>5, <4>1, Bytes
    <3>6. QED BY <3>2, <3>3, <3>4, <3>5
  <2> HIDE DEF a, p, Known
  <2>4. a \in Seq(Byte) /\ p \in Seq(Byte)
    BY <2>2
  <2>5. /\ Len(a) \in Nat /\ Len(p) \in Nat
        /\ Len(a \o p) = Len(a) + Len(p)
        /\ \A j \in 1..Len(a) : (a \o p)[j] = a[j]
        /\ \A j \in 1..Len(p) : (a \o p)[Len(a) + j] = p[j]
    BY ONLY <2>4, Glued
  <2>6. ASSUME NEW j \in 1..Len(a) + Len(p) PROVE Known((a \o p)[j])
    <3>1. CASE j \in 1..Len(a)
      BY <2>1, <2>5, <3>1
    <3>2. CASE j - Len(a) \in 1..Len(p)
      <4>1. Len(a) + (j - Len(a)) = j
        BY <2>5
      <4>2. QED BY <2>3, <2>5, <3>2, <4>1
    <3>3. j \in 1..Len(a) \/ j - Len(a) \in 1..Len(p)
      BY <2>5
    <3>4. QED BY <3>1, <3>2, <3>3
  <2>7. QED BY <2>2, <2>5, <2>6
<1>4. T = Nat
  BY <1>2, <1>3, SetInduction
<1> HIDE DEF Known
<1>5. \A j \in 1..Len(Upto(b, Len(b))) : Known(Upto(b, Len(b))[j])
  <2>1. Len(b) \in T /\ Len(b) <= Len(b)
    <3> HIDE DEF T
    <3>1. QED BY <1>1, <1>4
  <2>2. QED BY <2>1
<1>6. QED BY <1>5, LossyPieces DEF Known

\* An ASCII character behind bytes is one behind their text.
LEMMA LossyAppend ==
    ASSUME NEW b \in Seq(Byte), NEW a \in 0..127
    PROVE  Lossy(Append(b, a)) = Append(Lossy(b), a)
<1> DEFINE c == Append(b, a)
           N == Len(b)
<1>1. a \in Byte /\ a < 128 /\ a # 239 /\ a # 191 /\ a # 189
  BY DEF Byte
<1>2. /\ N \in Nat /\ c \in Seq(Byte) /\ Len(c) = N + 1 /\ c[N + 1] = a
      /\ \A i \in 1..N : c[i] = b[i]
  BY <1>1, AppendProperties
<1> HIDE DEF c
<1>3. \A j \in Int : Begins(c, j) <=> Begins(b, j)
  <2> SUFFICES ASSUME NEW j \in Int PROVE Begins(c, j) <=> Begins(b, j)
    OBVIOUS
  <2>1. ASSUME Begins(b, j) PROVE Begins(c, j)
    <3>1. j \in 1..N /\ j + 1 \in 1..N /\ j + 2 \in 1..N
      BY <1>2, <2>1 DEF Begins
    <3>2. QED BY <1>2, <2>1, <3>1 DEF Begins
  <2>2. ASSUME Begins(c, j) PROVE Begins(b, j)
    <3>1. j >= 1 /\ j + 2 <= N + 1 /\ c[j + 2] = 189
      BY <1>2, <2>2 DEF Begins
    <3>2. j + 2 # N + 1
      BY <1>1, <1>2, <3>1
    <3>3. j \in 1..N /\ j + 1 \in 1..N /\ j + 2 \in 1..N
      BY <1>2, <3>1, <3>2
    <3>4. QED BY <1>2, <2>2, <3>3 DEF Begins
  <2>3. QED BY <2>1, <2>2
<1>4. ASSUME NEW i \in 1..N PROVE Piece(c, i) = Piece(b, i)
  <2>1. i \in Int /\ i - 1 \in Int /\ i - 2 \in Int /\ c[i] = b[i]
        /\ (i > 1 => c[i - 1] = b[i - 1])
    BY <1>2
  <2>2. Kept(c, i) <=> Kept(b, i)
    BY <1>3, <2>1 DEF Kept, InWhole
  <2>3. QED BY <2>1, <2>2 DEF Piece
<1>5. Upto(c, N) = Upto(b, N)
  <2>1. [i \in 1..N |-> Piece(c, i)] = [i \in 1..N |-> Piece(b, i)]
    BY <1>4
  <2>2. QED BY <2>1 DEF Upto
<1>6. Piece(c, N + 1) = <<a>>
  BY <1>1, <1>2 DEF Piece, Kept
<1>7. Upto(c, N + 1) = Upto(c, N) \o <<a>>
  <2>1. N < Len(c) /\ N <= Len(c)
    BY <1>2
  <2>2. QED BY <1>2, <1>6, <2>1, UptoNext
<1>8. Lossy(b) \in Seq(Byte) /\ Lossy(b) = Upto(b, N) /\ Lossy(c) = Upto(c, N + 1)
  BY <1>2, LossyPieces, LossyClean
<1>9. Lossy(c) = Lossy(b) \o <<a>>
  BY <1>5, <1>7, <1>8
<1>10. QED BY <1>1, <1>8, <1>9, AppendIsConcat DEF c

\* The same for several.
LEMMA LossyTail ==
    ASSUME NEW b \in Seq(Byte), NEW t \in Seq(0..127)
    PROVE  /\ t \in Seq(Byte) /\ b \o t \in Seq(Byte)
           /\ Lossy(b \o t) = Lossy(b) \o t
<1>0. /\ t \in Seq(Byte) /\ Len(t) \in Nat
      /\ \A i \in 1..Len(t) : t[i] \in 0..127 /\ t[i] \in Byte
  <2>1. \A i \in 1..Len(t) : t[i] \in 0..127 /\ t[i] \in Byte
    BY DEF Byte
  <2>2. QED BY <2>1
<1>1. Lossy(b) \in Seq(Byte)
  BY LossyClean
<1> DEFINE p(n) == SubSeq(t, 1, n)
           T == {n \in Nat : n <= Len(t) => Lossy(b \o p(n)) = Lossy(b) \o p(n)}
<1>2. p(0) = <<>> /\ p(Len(t)) = t
  <2>1. p(Len(t)) = t
    BY <1>0, SubSeqFull
  <2>2. p(0) = <<>>
    BY <1>0, SubSeqEmpty
  <2>3. QED BY <2>1, <2>2
<1>3. ASSUME NEW n \in Nat, n + 1 <= Len(t)
      PROVE  p(n) \in Seq(Byte) /\ p(n + 1) = Append(p(n), t[n + 1])
  <2>1. \A i \in 1..n + 1 : t[i] \in Byte
    BY <1>0, <1>3
  <2>2. p(n) \in Seq(Byte) /\ Len(p(n)) = n /\ \A i \in 1..n : p(n)[i] = t[i]
    BY <2>1, SubSeqProperties
  <2>3. p(n + 1) \in Seq(Byte) /\ Len(p(n + 1)) = n + 1 /\ \A i \in 1..n + 1 : p(n + 1)[i] = t[i]
    BY <2>1, SubSeqProperties
  <2> HIDE DEF p
  <2>4. t[n + 1] \in Byte
    BY <2>1
  <2>5. /\ Append(p(n), t[n + 1]) \in Seq(Byte) /\ Len(Append(p(n), t[n + 1])) = n + 1
        /\ \A i \in 1..n : Append(p(n), t[n + 1])[i] = p(n)[i]
        /\ Append(p(n), t[n + 1])[n + 1] = t[n + 1]
    BY <2>2, <2>4, AppendProperties
  <2>6. \A i \in 1..n + 1 : p(n + 1)[i] = Append(p(n), t[n + 1])[i]
    <3> SUFFICES ASSUME NEW i \in 1..n + 1 PROVE p(n + 1)[i] = Append(p(n), t[n + 1])[i]
      OBVIOUS
    <3>1. i \in 1..n \/ i = n + 1
      OBVIOUS
    <3>2. QED BY <2>2, <2>3, <2>5, <3>1
  <2>7. QED BY <2>2, <2>3, <2>5, <2>6, SeqEqual
<1> HIDE DEF p
<1>4. 0 \in T
  BY <1>1, <1>2, ConcatEmptySeq
<1>5. ASSUME NEW n \in T PROVE n + 1 \in T
  <2>0. n \in Nat
    OBVIOUS
  <2> SUFFICES ASSUME n + 1 <= Len(t) PROVE Lossy(b \o p(n + 1)) = Lossy(b) \o p(n + 1)
    BY <2>0
  <2> DEFINE a == t[n + 1]
             q == p(n)
  <2>1. q \in Seq(Byte) /\ p(n + 1) = Append(q, a) /\ a \in 0..127 /\ a \in Byte
    BY <1>0, <1>3, <2>0
  <2>2. Lossy(b \o q) = Lossy(b) \o q
    BY <1>0, <2>0
  <2> HIDE DEF a, q
  <2>3. <<a>> \in Seq(Byte) /\ Append(q, a) = q \o <<a>>
    BY <2>1, Bytes, AppendIsConcat
  <2>4. b \o q \in Seq(Byte) /\ Lossy(b) \o q \in Seq(Byte)
    BY <1>1, <2>1
  <2>5. b \o (q \o <<a>>) = (b \o q) \o <<a>>
    <3>1. <<a>> \in Seq(Byte) /\ q \in Seq(Byte)
      BY <2>1, <2>3
    <3>2. QED BY ONLY b \in Seq(Byte), <3>1, ConcatAssociative
  <2>6. Lossy(b) \o (q \o <<a>>) = (Lossy(b) \o q) \o <<a>>
    <3>1. <<a>> \in Seq(Byte) /\ q \in Seq(Byte)
      BY <2>1, <2>3
    <3>2. QED BY ONLY <1>1, <3>1, ConcatAssociative
  <2>7. (b \o q) \o <<a>> = Append(b \o q, a)
    BY <2>1, <2>4, AppendIsConcat
  <2>8. (Lossy(b) \o q) \o <<a>> = Append(Lossy(b) \o q, a)
    BY <2>1, <2>4, AppendIsConcat
  <2>9. Lossy(Append(b \o q, a)) = Append(Lossy(b \o q), a)
    BY <2>1, <2>4, LossyAppend
  <2>10. QED BY <2>1, <2>2, <2>3, <2>5, <2>6, <2>7, <2>8, <2>9
<1>6. T = Nat
  BY <1>4, <1>5, SetInduction
<1>7. Lossy(b \o t) = Lossy(b) \o t
  <2>1. Len(t) \in T /\ Len(t) <= Len(t)
    <3> HIDE DEF T
    <3>1. QED BY <1>0, <1>6
  <2>2. QED BY <1>2, <2>1
<1>8. QED BY <1>0, <1>7

-----------------------------------------------------------------------------
(* Socks5Addr and the first frame.                                         *)

\* What the first frame can carry: four or sixteen bytes, or a name whose length fits its byte.
Sendable(a) ==
    /\ a \in Address
    /\ a.type = "IPv4" => Len(a.host) = 4
    /\ a.type = "IPv6" => Len(a.host) = 16
    /\ a.type = "Domain" => Len(a.host) < LenModulus

\* What each variant of Socks5Addr holds: a domain is a String.
WellFormed(a) == Sendable(a) /\ (a.type = "Domain" => Lossy(a.host) = a.host)

\* What the server makes of an address.
Received(a) == [a EXCEPT !.host = IF a.type = "Domain" THEN Lossy(a.host) ELSE a.host]

\* to_be_bytes and from_be_bytes.
LEMMA PortBytes ==
    ASSUME NEW port \in Port
    PROVE  /\ BigEndian(port) \in Seq(Byte)
           /\ Len(BigEndian(port)) = 2
           /\ 256 * BigEndian(port)[1] + BigEndian(port)[2] = port
<1>1. port \in Nat /\ port <= 65535
  BY DEF Port
<1>2. PICK q \in Int : q = port \div 256
  BY <1>1
<1>3. PICK r \in 0..255 : r = port % 256
  BY <1>1
<1>4. 256 * q + r = port
  BY <1>1, <1>2, <1>3, Z3
<1>5. q \in 0..255
  BY <1>1, <1>3, <1>4
<1>6. BigEndian(port) = <<q, r>>
  BY <1>2, <1>3 DEF BigEndian
<1>7. QED
  BY <1>3, <1>4, <1>5, <1>6 DEF Byte

\* Where the elements of two sequences are in their concatenation.
LEMMA Joined ==
    ASSUME NEW s \in Seq(Byte), NEW t \in Seq(Byte)
    PROVE  /\ s \o t \in Seq(Byte)
           /\ Len(s \o t) = Len(s) + Len(t)
           /\ \A k \in 1..Len(s) + Len(t) :
                 (s \o t)[k] = IF k <= Len(s) THEN s[k] ELSE t[k - Len(s)]
  BY ConcatProperties

\* A first frame in its four pieces.
Joint(pre, host, port, data) == ((pre \o host) \o BigEndian(port)) \o data

\* The pieces are where the parser looks for them.
InPlace(bytes, pre, host, port, data) ==
    /\ Len(bytes) = Len(pre) + Len(host) + 2 + Len(data)
    /\ \A k \in 1..Len(pre) : bytes[k] = pre[k]
    /\ SubSeq(bytes, Len(pre) + 1, Len(pre) + Len(host)) = host
    /\ Word(bytes, Len(pre) + 1 + Len(host)) = port
    /\ SubSeq(bytes, Len(pre) + Len(host) + 3, Len(bytes)) = data

\* They are, in a first frame.
LEMMA Pieces ==
    ASSUME NEW pre \in Seq(Byte), NEW host \in Seq(Byte), NEW port \in Port,
           NEW data \in Seq(Byte)
    PROVE  InPlace(Joint(pre, host, port, data), pre, host, port, data)
<1> DEFINE bytes == Joint(pre, host, port, data)
           be == BigEndian(port)
           p == Len(pre)
           h == Len(host)
           d == Len(data)
<1>1. be \in Seq(Byte) /\ Len(be) = 2 /\ 256 * be[1] + be[2] = port
  BY PortBytes
<1> HIDE DEF be
<1>2. bytes = ((pre \o host) \o be) \o data
  BY DEF be, Joint
<1> HIDE DEF bytes
<1>3. p \in Nat /\ h \in Nat /\ d \in Nat
  OBVIOUS
<1> DEFINE one == pre \o host
           two == one \o be
<1>4. /\ one \in Seq(Byte) /\ Len(one) = p + h
      /\ \A k \in 1..p + h : one[k] = IF k <= p THEN pre[k] ELSE host[k - p]
  BY Joined
<1>5. two = one \o be /\ bytes = two \o data
  BY <1>2
<1> HIDE DEF one, two
<1>6. /\ two \in Seq(Byte) /\ Len(two) = p + h + 2
      /\ \A k \in 1..p + h + 2 : two[k] = IF k <= p + h THEN one[k] ELSE be[k - (p + h)]
  <2>1. one \in Seq(Byte) /\ be \in Seq(Byte) /\ Len(one) = p + h /\ Len(be) = 2
    BY <1>1, <1>4
  <2>2. one \o be \in Seq(Byte) /\ Len(one \o be) = Len(one) + Len(be)
    BY <2>1, Joined
  <2>3. \A k \in 1..Len(one) + Len(be) :
           (one \o be)[k] = IF k <= Len(one) THEN one[k] ELSE be[k - Len(one)]
    BY <2>1, Joined
  <2>4. QED BY <1>5, <2>1, <2>2, <2>3
<1>7. /\ bytes \in Seq(Byte) /\ Len(bytes) = p + h + 2 + d
      /\ \A k \in 1..p + h + 2 + d :
            bytes[k] = IF k <= p + h + 2 THEN two[k] ELSE data[k - (p + h + 2)]
  <2>1. two \in Seq(Byte) /\ Len(two) = p + h + 2
    BY <1>6
  <2>2. two \o data \in Seq(Byte) /\ Len(two \o data) = Len(two) + Len(data)
    BY <2>1, Joined
  <2>3. \A k \in 1..Len(two) + Len(data) :
           (two \o data)[k] = IF k <= Len(two) THEN two[k] ELSE data[k - Len(two)]
    BY <2>1, Joined
  <2>4. QED BY <1>5, <2>1, <2>2, <2>3 DEF d
<1> HIDE DEF p, h, d
<1>8. \A k \in 1..p : bytes[k] = pre[k]
  BY <1>3, <1>4, <1>6, <1>7
<1>9. \A k \in 1..h : bytes[p + k] = host[k]
  <2> SUFFICES ASSUME NEW k \in 1..h PROVE bytes[p + k] = host[k]
    OBVIOUS
  <2>1. p + k \in 1..p + h /\ ~(p + k <= p) /\ (p + k) - p = k
    BY <1>3
  <2>2. one[p + k] = host[k]
    BY <1>4, <2>1
  <2>3. two[p + k] = one[p + k]
    BY <1>3, <1>6, <2>1
  <2>4. bytes[p + k] = two[p + k]
    BY <1>3, <1>7, <2>1
  <2>5. QED BY <2>2, <2>3, <2>4
<1>10. bytes[p + h + 1] = be[1] /\ bytes[p + h + 2] = be[2]
  <2>1. two[p + h + 1] = be[1] /\ two[p + h + 2] = be[2]
    <3>1. (p + h + 1) - (p + h) = 1 /\ (p + h + 2) - (p + h) = 2
      BY <1>3
    <3>2. QED BY <1>3, <1>6, <3>1
  <2>2. QED BY <1>3, <1>7, <2>1
<1>11. \A k \in 1..d : bytes[p + h + 2 + k] = data[k]
  <2> SUFFICES ASSUME NEW k \in 1..d PROVE bytes[p + h + 2 + k] = data[k]
    OBVIOUS
  <2>1. p + h + 2 + k \in 1..p + h + 2 + d /\ ~(p + h + 2 + k <= p + h + 2)
        /\ (p + h + 2 + k) - (p + h + 2) = k
    BY <1>3
  <2>2. QED BY <1>7, <2>1
<1> HIDE DEF p, h, d
<1>12. SubSeq(bytes, p + 1, p + h) = host
  <2> DEFINE s == SubSeq(bytes, p + 1, p + h)
  <2>1. s \in Seq(Byte) /\ Len(s) = h
    BY <1>3, <1>7
  <2>2. \A k \in 1..h : s[k] = bytes[p + k]
    BY <1>3, <1>7
  <2> HIDE DEF s
  <2>3. QED BY <1>9, <2>1, <2>2, SeqEqual DEF s, h
<1>13. SubSeq(bytes, p + h + 3, Len(bytes)) = data
  <2> DEFINE s == SubSeq(bytes, p + h + 3, Len(bytes))
  <2>1. s \in Seq(Byte) /\ Len(s) = d
    BY <1>3, <1>7
  <2>2. \A k \in 1..d : s[k] = bytes[p + h + 2 + k]
    BY <1>3, <1>7
  <2> HIDE DEF s
  <2>3. QED BY <1>11, <2>1, <2>2, SeqEqual DEF s, d
<1>14. Word(bytes, p + 1 + h) = port
  <2>1. p + 1 + h = p + h + 1 /\ p + 1 + h + 1 = p + h + 2
    BY <1>3
  <2>2. QED BY <1>1, <1>10, <2>1 DEF Word
<1>15. QED
  BY <1>7, <1>8, <1>12, <1>13, <1>14 DEF p, h, d, InPlace, bytes

\* What the parser returns for pieces in their place; a domain becomes a String.
AsText(type, host) == IF type = "Domain" THEN Lossy(host) ELSE host
Understood(bytes, type, pre, host, port, data) ==
    LET end == Len(pre) + Len(host) + 2 IN
    /\ Parsed(type, bytes, Len(pre) + 1, Len(host)) =
          [address |-> [type |-> type, host |-> AsText(type, host), port |-> port], consumed |-> end]
    /\ DataBehind(bytes, end) = data

\* The parser, once it knows that a host of its length follows a prefix.
LEMMA ParsedPieces ==
    ASSUME NEW pre \in Seq(Byte), NEW host \in Seq(Byte), NEW port \in Port,
           NEW data \in Seq(Byte), NEW type
    PROVE  Understood(Joint(pre, host, port, data), type, pre, host, port, data)
<1> DEFINE bytes == Joint(pre, host, port, data)
           i == Len(pre) + 1
           n == Len(host)
<1>0. InPlace(bytes, pre, host, port, data)
  BY Pieces
<1> HIDE DEF bytes
<1>1. /\ Len(bytes) = Len(pre) + n + 2 + Len(data)
      /\ SubSeq(bytes, i, Len(pre) + n) = host
      /\ Word(bytes, i + n) = port
      /\ SubSeq(bytes, Len(pre) + n + 3, Len(bytes)) = data
  BY <1>0 DEF InPlace
<1>2. Len(pre) \in Nat /\ n \in Nat /\ Len(data) \in Nat
  OBVIOUS
<1> HIDE DEF n
<1>3. i + n - 1 = Len(pre) + n /\ i + n + 1 = Len(pre) + n + 2
      /\ (Len(pre) + n + 2) + 1 = Len(pre) + n + 3
  BY <1>2
<1>4. ~TooShort(bytes, i, n)
  BY <1>1, <1>2 DEF TooShort
<1>5. Parsed(type, bytes, i, n) =
         [address  |-> [type |-> type, host |-> AsText(type, host), port |-> port],
          consumed |-> Len(pre) + n + 2]
  BY <1>1, <1>3, <1>4 DEF Parsed, AsText
<1>6. DataBehind(bytes, Len(pre) + n + 2) = data
  BY <1>1, <1>3 DEF DataBehind
<1>7. QED
  BY <1>5, <1>6 DEF bytes, n, Understood

\* The cast of a length to its byte loses nothing below the modulus.
LEMMA LengthFits ==
    ASSUME NEW m \in 2..256, NEW n \in 0..m - 1
    PROVE  n % m = n /\ n \in 0..255
  BY Z3

\* The prefix tells which case of from_bytes the host takes, and how long the host is.
LEMMA PrefixRead ==
    ASSUME NEW a, Sendable(a)
    PROVE  /\ Prefix(a) \in Seq(Byte)
           /\ a.type = "IPv4" => Len(Prefix(a)) = 1 /\ Prefix(a)[1] = 1
           /\ a.type = "IPv6" => Len(Prefix(a)) = 1 /\ Prefix(a)[1] = 4
           /\ a.type = "Domain" =>
                 Len(Prefix(a)) = 2 /\ Prefix(a)[1] = 3 /\ Prefix(a)[2] = Len(a.host)
<1>1. a.host \in Seq(Byte) /\ a.type \in {"IPv4", "Domain", "IPv6"}
  BY DEF Sendable, Address
<1>2. CASE a.type \in {"IPv4", "IPv6"}
  <2>1. \A b \in Byte : <<b>> \in Seq(Byte) /\ Len(<<b>>) = 1 /\ <<b>>[1] = b
    OBVIOUS
  <2>2. 1 \in Byte /\ 4 \in Byte
    BY DEF Byte
  <2>3. Prefix(a) = IF a.type = "IPv4" THEN <<1>> ELSE <<4>>
    BY <1>2 DEF Prefix
  <2>4. QED BY <1>2, <2>1, <2>2, <2>3
<1>3. CASE a.type = "Domain"
  <2>1. Len(a.host) \in 0..LenModulus - 1 /\ LenModulus \in 2..256
    BY <1>1, <1>3, LenModulusAssumption DEF Sendable
  <2>2. Len(a.host) % LenModulus = Len(a.host) /\ Len(a.host) \in 0..255
    BY <2>1, LengthFits
  <2>3. Len(a.host) \in Byte
    BY <2>2 DEF Byte
  <2>4. Prefix(a) = <<3, Len(a.host)>>
    BY <1>3, <2>2 DEF Prefix
  <2>5. QED BY <1>3, <2>3, <2>4 DEF Byte
<1>4. QED
  BY <1>1, <1>2, <1>3

\* The server finds the address and the data where the client has put them, and the data
\* begins where the address ends.
LEMMA FirstFrameRead ==
    ASSUME NEW a, Sendable(a), NEW data \in Seq(Byte)
    PROVE  /\ Unpack(Pack(a, data)) = [address |-> Received(a), data |-> data]
           /\ Pack(a, data)[1] # 0
<1> DEFINE pre == Prefix(a)
           bytes == Pack(a, data)
<1>1. a \in Address /\ a.host \in Seq(Byte) /\ a.port \in Port
      /\ a.type \in {"IPv4", "Domain", "IPv6"}
  BY DEF Sendable, Address
<1>2. /\ pre \in Seq(Byte)
      /\ a.type = "IPv4" => Len(pre) = 1 /\ pre[1] = 1
      /\ a.type = "IPv6" => Len(pre) = 1 /\ pre[1] = 4
      /\ a.type = "Domain" => Len(pre) = 2 /\ pre[1] = 3 /\ pre[2] = Len(a.host)
  BY PrefixRead
<1>3. bytes = Joint(pre, a.host, a.port, data)
  BY DEF Pack, ToBytes, Joint
<1> HIDE DEF pre, bytes
<1>4. /\ Len(bytes) = Len(pre) + Len(a.host) + 2 + Len(data)
      /\ \A k \in 1..Len(pre) : bytes[k] = pre[k]
  <2>1. InPlace(bytes, pre, a.host, a.port, data)
    BY <1>1, <1>2, <1>3, Pieces
  <2>2. QED BY <2>1 DEF InPlace
<1> DEFINE c == Len(pre) + Len(a.host) + 2
           result == [address  |-> [type |-> a.type, host |-> AsText(a.type, a.host), port |-> a.port],
                      consumed |-> c]
<1>6. /\ Parsed(a.type, bytes, Len(pre) + 1, Len(a.host)) = result
      /\ DataBehind(bytes, c) = data
  <2>1. Understood(bytes, a.type, pre, a.host, a.port, data)
    BY <1>1, <1>2, <1>3, ParsedPieces
  <2>2. QED BY <2>1 DEF Understood
<1>7. /\ a.type = "IPv4" => Len(a.host) = 4
      /\ a.type = "IPv6" => Len(a.host) = 16
  BY DEF Sendable
<1> HIDE DEF c
<1>8. Len(bytes) >= 2 /\ bytes # <<>>
  <2>1. Len(data) \in Nat /\ Len(a.host) \in Nat /\ Len(pre) \in Nat
    BY <1>1, <1>2
  <2>2. Len(bytes) >= 2
    BY <1>4, <2>1
  <2>3. Len(<<>>) = 0
    OBVIOUS
  <2>4. QED BY <2>2, <2>3
<1>9. FromBytes(bytes) = result /\ bytes[1] # 0
  <2>1. CASE a.type = "IPv4"
    <3>1. Len(pre) = 1 /\ pre[1] = 1 /\ Len(a.host) = 4
      BY ONLY <1>2, <1>7, <2>1
    <3>2. 1 \in 1..Len(pre) /\ Len(pre) + 1 = 2
      BY ONLY <3>1
    <3>3. bytes[1] = 1
      BY ONLY <1>4, <3>1, <3>2
    <3>4. QED BY <1>6, <1>8, <2>1, <3>1, <3>2, <3>3 DEF FromBytes
  <2>2. CASE a.type = "IPv6"
    <3>1. Len(pre) = 1 /\ pre[1] = 4 /\ Len(a.host) = 16
      BY ONLY <1>2, <1>7, <2>2
    <3>2. 1 \in 1..Len(pre) /\ Len(pre) + 1 = 2
      BY ONLY <3>1
    <3>3. bytes[1] = 4
      BY ONLY <1>4, <3>1, <3>2
    <3>4. QED BY <1>6, <1>8, <2>2, <3>1, <3>2, <3>3 DEF FromBytes
  <2>3. CASE a.type = "Domain"
    <3>1. Len(pre) = 2 /\ pre[1] = 3 /\ pre[2] = Len(a.host)
      BY ONLY <1>2, <2>3
    <3>2. 1 \in 1..Len(pre) /\ 2 \in 1..Len(pre) /\ Len(pre) + 1 = 3
      BY ONLY <3>1
    <3>3. bytes[1] = 3 /\ bytes[2] = Len(a.host)
      BY ONLY <1>4, <3>1, <3>2
    <3>4. ~(Len(bytes) < 2)
      BY <1>4, <1>8, <1>1, <1>2
    <3>5. QED BY <1>6, <1>8, <2>3, <3>1, <3>2, <3>3, <3>4 DEF FromBytes
  <2>4. QED BY <1>1, <2>1, <2>2, <2>3
<1>10. result # Bad
  <2>1. "consumed" \in DOMAIN result
    OBVIOUS
  <2>2. "consumed" \notin DOMAIN Bad
    BY DEF Bad
  <2>3. QED BY <2>1, <2>2
<1>11. result.address = Received(a) /\ result.consumed = c
  BY <1>1 DEF result, Address, AsText, Received
<1> HIDE DEF result
<1>12. QED
  BY <1>6, <1>9, <1>10, <1>11 DEF Unpack, bytes

\* The server unpacks what the client has packed: any address that an application may name
\* by four or sixteen bytes or by a text that fits the length byte, and behind it any data
\* (pack_addr_payload, unpack_addr_payload, Socks5Addr).
THEOREM RoundTrip ==
    ASSUME NEW a, WellFormed(a), NEW data \in Seq(Byte)
    PROVE  Unpack(Pack(a, data)) = [address |-> a, data |-> data]
<1>1. Received(a) = a
  BY DEF WellFormed, Sendable, Address, Received
<1>2. QED BY <1>1, FirstFrameRead DEF WellFormed

-----------------------------------------------------------------------------
(* The target of a request.                                                *)

\* Where the last colon is.
LEMMA LastColon ==
    ASSUME NEW s \in Seq(Byte)
    PROVE  /\ SplitAt(s) \in 0..Len(s)
           /\ (\A i \in 1..Len(s) : s[i] # Colon) => SplitAt(s) = 0
           /\ \A k \in 1..Len(s) :
                 s[k] = Colon /\ (\A i \in k + 1..Len(s) : s[i] # Colon) => SplitAt(s) = k
<1> DEFINE I == {i \in 1..Len(s) : s[i] = Colon}
<1>1. SplitAt(s) = IF I # {} THEN Max(I) ELSE 0
  BY DEF SplitAt, SelectLastInSeq
<1>2. Len(s) \in Nat
  OBVIOUS
<1>3. Max(I) = CHOOSE x \in I : \A y \in I : x >= y
  BY DEF Max
<1>4. ASSUME I # {} PROVE \E x \in I : \A y \in I : x >= y
  <2> DEFINE T == {Len(s) - i : i \in I}
  <2>1. T \in SUBSET Nat /\ T # {}
    BY <1>2, <1>4
  <2>2. PICK m \in T : \A k \in T : m <= k
    BY <2>1, LeastNumber
  <2>3. PICK x \in I : m = Len(s) - x
    BY <2>2
  <2>4. \A y \in I : Len(s) - x <= Len(s) - y
    BY <2>2, <2>3
  <2>5. \A y \in I : x >= y
    BY <1>2, <2>4
  <2>6. QED BY <2>5
<1>5. I # {} => Max(I) \in I /\ \A y \in I : Max(I) >= y
  BY <1>3, <1>4
<1>6. ASSUME NEW k \in 1..Len(s), s[k] = Colon, \A i \in k + 1..Len(s) : s[i] # Colon
      PROVE  SplitAt(s) = k
  <2>1. k \in I
    BY <1>6
  <2>2. Max(I) \in I /\ Max(I) >= k
    BY <1>5, <2>1
  <2>3. ~(Max(I) > k)
    BY <1>2, <1>6, <2>2
  <2>4. SplitAt(s) = Max(I)
    BY <1>1, <2>1
  <2>5. QED BY <2>2, <2>3, <2>4
<1>7. SplitAt(s) \in 0..Len(s)
  BY <1>1, <1>2, <1>5
<1>8. (\A i \in 1..Len(s) : s[i] # Colon) => SplitAt(s) = 0
  BY <1>1
<1>9. QED BY <1>6, <1>7, <1>8

\* What a request is made of.
LEMMA RequestParts ==
    ASSUME NEW r \in Requests
    PROVE  /\ r.kind \in {"IPv4", "IPv6", "Domain", "connect", "plain"}
           /\ r.host \in Seq(Byte) /\ Len(r.host) \in Nat
           /\ r.kind = "IPv4" => Len(r.host) = 4
           /\ r.kind = "IPv6" => Len(r.host) = 16
           /\ r.kind \in {"IPv4", "IPv6", "Domain"} => r.port.port \in Port
           /\ r.kind \in {"connect", "plain"} /\ r.port.text = <<>> => r.port.port \in {80, 443}
           /\ r.kind \in {"connect", "plain"} /\ r.port.text # <<>> =>
                 /\ r.port.text \in Seq(48..57)
                 /\ Number(r.port.text) = r.port.port
<1>1. CASE r \in [kind : {"IPv4"}, host : {h \in Hosts : Len(h) = 4}, port : Binary]
  BY <1>1, ProxyRequestAssumption DEF Binary
<1>2. CASE r \in [kind : {"IPv6"}, host : {h \in Hosts : Len(h) = 16}, port : Binary]
  BY <1>2, ProxyRequestAssumption DEF Binary
<1>3. CASE r \in [kind : {"Domain"}, host : {h \in Hosts : Len(h) < LenModulus}, port : Binary]
  BY <1>3, ProxyRequestAssumption DEF Binary
<1>4. CASE r \in [kind : {"connect", "plain"}, host : Hosts, port : Ports \cup SchemePorts]
  <2>1. /\ r.kind \in {"connect", "plain"} /\ r.host \in Hosts
        /\ r.port \in Ports \/ r.port \in SchemePorts
    BY <1>4
  <2>2. r.host \in Seq(Byte) /\ Len(r.host) \in Nat
    BY <2>1, ProxyRequestAssumption
  <2>3. CASE r.port \in Ports
    BY <2>1, <2>2, <2>3, ProxyRequestAssumption, PortsAssumption
  <2>4. CASE r.port \in SchemePorts
    BY <2>1, <2>2, <2>4 DEF SchemePorts
  <2>5. QED BY <2>1, <2>3, <2>4
<1>5. QED
  BY <1>1, <1>2, <1>3, <1>4 DEF Requests

\* An authority with a port is cut at the colon in front of it, whatever the host holds.
LEMMA AuthorityWithPort ==
    ASSUME NEW r \in Requests, r.kind \in {"connect", "plain"}, r.port.text # <<>>
    PROVE  HttpTarget(r) =
              IF r.port.port \in Port
              THEN [type |-> "Domain", host |-> Lossy(r.host), port |-> r.port.port] ELSE Bad
<1> DEFINE L == Lossy(r.host)
           t == r.port.text
           c == <<Colon>>
           tail == c \o t
           text == L \o tail
<1>1. r.host \in Seq(Byte) /\ t \in Seq(48..57) /\ Number(t) = r.port.port
  BY RequestParts
<1>2. L \in Seq(Byte)
  BY <1>1, LossyClean
<1>3. /\ Len(t) \in Nat /\ t \in Seq(0..127) /\ Len(t) > 0
      /\ \A i \in 1..Len(t) : t[i] \in 48..57 /\ t[i] # Colon
  <2>1. \A i \in 1..Len(t) : t[i] \in 48..57
    BY <1>1
  <2>2. \A x \in 48..57 : x \in 0..127 /\ x # 58
    OBVIOUS
  <2>3. QED BY <1>1, <2>1, <2>2 DEF Colon
<1>4. c \in Seq(0..127) /\ c \in Seq(Byte) /\ Len(c) = 1 /\ c[1] = Colon
  BY DEF Colon, Byte
<1> HIDE DEF L, t, c
<1>5. tail \in Seq(0..127)
  BY <1>3, <1>4
<1>6. tail \in Seq(Byte) /\ t \in Seq(Byte)
  BY <1>2, <1>3, <1>5, LossyTail
<1>7. /\ Len(tail) = Len(t) + 1 /\ tail[1] = Colon
      /\ \A i \in 1..Len(t) : tail[i + 1] = t[i]
  <2>1. c \in Seq(Byte) /\ t \in Seq(Byte)
    BY <1>4, <1>6
  <2>2. /\ Len(c \o t) = Len(c) + Len(t)
        /\ \A i \in 1..Len(c) : (c \o t)[i] = c[i]
        /\ \A i \in 1..Len(t) : (c \o t)[Len(c) + i] = t[i]
    BY ONLY <2>1, Glued
  <2>3. \A i \in 1..Len(t) : (c \o t)[i + 1] = t[i]
    <3> SUFFICES ASSUME NEW i \in 1..Len(t) PROVE (c \o t)[i + 1] = t[i]
      OBVIOUS
    <3>1. i + 1 = Len(c) + i
      BY <1>4
    <3>2. QED BY <2>2, <3>1
  <2>4. QED BY <1>3, <1>4, <2>2, <2>3
<1> HIDE DEF tail
<1>8. /\ text \in Seq(Byte) /\ Len(L) \in Nat
      /\ Len(text) = Len(L) + Len(tail)
      /\ \A i \in 1..Len(L) : text[i] = L[i]
      /\ \A i \in 1..Len(tail) : text[Len(L) + i] = tail[i]
  <2>1. L \in Seq(Byte) /\ tail \in Seq(Byte)
    BY <1>2, <1>6
  <2>2. QED BY ONLY <2>1, Glued
<1>9. Authority(r) = text
  <2>1. Authority(r) = Lossy(r.host \o tail)
    BY DEF Authority, tail, c, t
  <2>2. Lossy(r.host \o tail) = L \o tail
    BY <1>1, <1>5, LossyTail DEF L
  <2>3. QED BY <2>1, <2>2
<1> HIDE DEF text
<1>10. SplitAt(text) = Len(L) + 1
  <2> DEFINE k == Len(L) + 1
  <2>1. k \in 1..Len(text) /\ text[k] = Colon
    BY <1>3, <1>7, <1>8
  <2>2. ASSUME NEW i \in k + 1..Len(text) PROVE text[i] # Colon
    <3> DEFINE j == i - k
    <3>1. j \in 1..Len(t) /\ j + 1 \in 1..Len(tail) /\ i = Len(L) + (j + 1)
      BY <1>3, <1>7, <1>8
    <3>2. text[i] = t[j]
      BY <1>7, <1>8, <3>1
    <3>3. QED BY <1>3, <3>1, <3>2
  <2>3. QED BY <1>8, <2>1, <2>2, LastColon
<1> DEFINE a == SubSeq(text, 1, Len(L))
           b == SubSeq(text, Len(L) + 2, Len(text))
<1>11. a = L
  <2>1. /\ a \in Seq(Byte) /\ Len(a) = Len(L) /\ \A i \in 1..Len(L) : a[i] = text[i]
    <3>1. \A i \in 1..Len(L) : text[i] \in Byte
      BY <1>3, <1>7, <1>8
    <3>2. QED BY <1>8, <3>1, SubSeqProperties
  <2> HIDE DEF a
  <2>2. QED BY <1>2, <1>8, <2>1, SeqEqual
<1>12. b = t
  <2>1. /\ b \in Seq(Byte) /\ Len(b) = Len(t)
        /\ \A i \in 1..Len(t) : b[i] = text[Len(L) + (i + 1)]
    <3> DEFINE lo == Len(L) + 2
               hi == Len(text)
    <3>1. /\ lo \in Int /\ hi \in Int /\ hi - lo + 1 = Len(t) /\ lo <= hi
          /\ \A i \in lo..hi : text[i] \in Byte
          /\ \A i \in 1..Len(t) : lo + i - 1 = Len(L) + (i + 1)
      BY <1>3, <1>7, <1>8
    <3>2. b = SubSeq(text, lo, hi)
      OBVIOUS
    <3> HIDE DEF lo, hi, b
    <3>3. /\ SubSeq(text, lo, hi) \in Seq(Byte)
          /\ Len(SubSeq(text, lo, hi)) = IF lo <= hi THEN hi - lo + 1 ELSE 0
          /\ \A i \in 1..hi - lo + 1 : SubSeq(text, lo, hi)[i] = text[lo + i - 1]
      BY ONLY <3>1, SubSeqProperties
    <3>4. QED BY <3>1, <3>2, <3>3
  <2> HIDE DEF b
  <2>2. \A i \in 1..Len(t) : b[i] = t[i]
    <3> SUFFICES ASSUME NEW i \in 1..Len(t) PROVE b[i] = t[i]
      OBVIOUS
    <3>1. i + 1 \in 1..Len(tail)
      BY <1>3, <1>7
    <3>2. QED BY <1>7, <1>8, <2>1, <3>1
  <2>3. QED BY <1>6, <2>1, <2>2, SeqEqual
<1>13. Digits(t)
  BY <1>3 DEF Digits
<1>14. /\ SubSeq(text, 1, SplitAt(text) - 1) = L
       /\ SubSeq(text, SplitAt(text) + 1, Len(text)) = t
       /\ SplitAt(text) > 0
  <2>1. SplitAt(text) - 1 = Len(L) /\ SplitAt(text) + 1 = Len(L) + 2 /\ SplitAt(text) > 0
    BY <1>8, <1>10
  <2>2. QED BY <1>11, <1>12, <2>1
<1>15. HttpTarget(r) = IF Number(t) \in Port
                       THEN [type |-> "Domain", host |-> L, port |-> Number(t)] ELSE Bad
  <2>1. ~(SplitAt(text) = 0)
    BY <1>14
  <2>2. QED BY <1>9, <1>13, <1>14, <2>1 DEF HttpTarget
<1>16. QED BY <1>1, <1>15 DEF L

\* One without a port is taken for a host, or cut at a colon of the host if there is one.
LEMMA AuthorityAlone ==
    ASSUME NEW r \in Requests, r.kind \in {"connect", "plain"}, r.port.text = <<>>
    PROVE  /\ \/ HttpTarget(r) = Bad
              \/ /\ HttpTarget(r) \in Address /\ HttpTarget(r).type = "Domain"
                 /\ Len(HttpTarget(r).host) <= Len(Lossy(r.host))
           /\ ~Ambiguous(r) =>
                 HttpTarget(r) = IF r.kind = "plain"
                                 THEN [type |-> "Domain", host |-> Lossy(r.host), port |-> r.port.port]
                                 ELSE Bad
<1> DEFINE L == Lossy(r.host)
           cut == SplitAt(L)
           host == SubSeq(L, 1, cut - 1)
           port == SubSeq(L, cut + 1, Len(L))
<1>1. r.host \in Seq(Byte) /\ r.port.port \in {80, 443}
  BY RequestParts
<1>2. L \in Seq(Byte) /\ Len(L) \in Nat
  BY <1>1, LossyClean
<1>3. Authority(r) = L
  BY <1>1, ConcatEmptySeq DEF Authority
<1>4. cut \in 0..Len(L)
  BY <1>2, LastColon
<1>5. r.port.port \in Port
  <2>1. 80 \in Port /\ 443 \in Port
    BY DEF Port
  <2>2. QED BY <1>1, <2>1
<1> HIDE DEF L
<1>6. CASE cut = 0
  <2>1. HttpTarget(r) = IF r.kind = "plain" THEN [type |-> "Domain", host |-> L, port |-> r.port.port]
                                            ELSE Bad
    BY <1>3, <1>6 DEF HttpTarget
  <2>2. [type |-> "Domain", host |-> L, port |-> r.port.port] \in Address
    BY <1>2, <1>5 DEF Address
  <2>3. QED BY <1>2, <2>1, <2>2 DEF L
<1>7. CASE cut > 0
  <2>1. host \in Seq(Byte) /\ Len(host) = cut - 1
    <3>1. \A i \in 1..cut - 1 : L[i] \in Byte
      BY <1>2, <1>4, <1>7
    <3>2. QED BY <1>2, <1>4, <1>7, <3>1, SubSeqProperties
  <2>2. \/ HttpTarget(r) = Bad
        \/ /\ HttpTarget(r) = [type |-> "Domain", host |-> host, port |-> Number(port)]
           /\ Number(port) \in Port
    <3>1. ~(cut = 0)
      BY <1>7
    <3> HIDE DEF host, port, cut
    <3>2. HttpTarget(r) = IF Digits(port) /\ Number(port) \in Port
                          THEN [type |-> "Domain", host |-> host, port |-> Number(port)] ELSE Bad
      BY <1>3, <1>7, <3>1 DEF HttpTarget, host, port, cut
    <3>3. QED BY <3>2
  <2>3. Ambiguous(r)
    <3>1. \E i \in 1..Len(L) : L[i] = Colon
      BY <1>2, <1>7, LastColon
    <3>2. PICK i \in 1..Len(L) : L[i] = Colon
      BY <3>1
    <3>3. (\E k \in 1..Len(r.host) : L[i] = r.host[k]) \/ L[i] \in {239, 191, 189}
      BY <1>1, LossyInvents DEF L
    <3>4. PICK k \in 1..Len(r.host) : r.host[k] = Colon
      BY <3>2, <3>3 DEF Colon
    <3>5. Colon \in ToSet(r.host)
      BY <1>1, <3>4 DEF ToSet
    <3>6. QED BY <3>5 DEF Ambiguous
  <2>4. Len(host) <= Len(L)
    BY <1>2, <1>4, <1>7, <2>1
  <2> HIDE DEF host, port, cut
  <2>5. Number(port) \in Port => [type |-> "Domain", host |-> host, port |-> Number(port)] \in Address
    BY <2>1 DEF Address
  <2>6. QED BY <2>2, <2>3, <2>4, <2>5 DEF L
<1>8. QED BY <1>4, <1>6, <1>7

\* What a request that fits asks for can be sent, and comes out as named.
LEMMA TargetRequested ==
    ASSUME NEW r \in Requests, Fits(r)
    PROVE  /\ RequestedTarget(r) = Bad =>
                 r.port.port \notin Port \/ (r.kind = "connect" /\ r.port.text = <<>>) \/ Ambiguous(r)
           /\ RequestedTarget(r) # Bad =>
                 /\ Sendable(RequestedTarget(r))
                 /\ RequestedTarget(r).type = "IPv6" <=> r.kind = "IPv6"
                 /\ ~Ambiguous(r) =>
                       /\ Received(RequestedTarget(r)).host = NamedHost(r)
                       /\ Received(RequestedTarget(r)).port = r.port.port
<1> DEFINE t == RequestedTarget(r)
           L == Lossy(r.host)
<1>1. r.host \in Seq(Byte) /\ L \in Seq(Byte) /\ Lossy(L) = L
  BY RequestParts, LossyTwice
<1>2. CASE r.kind \in {"IPv4", "IPv6"}
  <2>1. t = [type |-> r.kind, host |-> r.host, port |-> r.port.port]
    BY <1>2 DEF RequestedTarget
  <2>2. t \in Address /\ Sendable(t)
    BY <1>1, <1>2, <2>1, RequestParts DEF Address, Sendable
  <2>3. Received(t).host = r.host /\ Received(t).port = r.port.port
    BY <1>2, <2>1 DEF Received
  <2>4. t # Bad
    BY <2>1 DEF Bad
  <2>5. NamedHost(r) = r.host
    BY <1>2 DEF NamedHost
  <2>6. QED BY <1>2, <2>1, <2>2, <2>3, <2>4, <2>5
<1>3. ASSUME t = [type |-> "Domain", host |-> L, port |-> r.port.port], r.port.port \in Port,
             r.kind \notin {"IPv4", "IPv6"}
      PROVE  /\ t # Bad /\ Sendable(t) /\ t.type = "Domain"
             /\ Received(t).host = NamedHost(r) /\ Received(t).port = r.port.port
  <2>1. t # Bad
    BY <1>3 DEF Bad
  <2>2. t \in Address /\ t.host = L /\ t.type = "Domain" /\ t.port = r.port.port
    BY <1>1, <1>3 DEF Address
  <2>3. Len(L) < LenModulus /\ NamedHost(r) = L
    BY <1>3 DEF Fits, NamedHost
  <2> HIDE DEF t, L
  <2>4. Sendable(t)
    BY <2>2, <2>3 DEF Sendable
  <2>5. Received(t).host = L /\ Received(t).port = r.port.port
    BY <1>1, <2>2 DEF Received, Address
  <2>6. QED BY <2>1, <2>2, <2>3, <2>4, <2>5
<1>4. CASE r.kind = "Domain"
  <2>1. t = [type |-> "Domain", host |-> L, port |-> r.port.port] /\ r.port.port \in Port
    BY <1>4, RequestParts DEF RequestedTarget
  <2>2. QED BY <1>3, <1>4, <2>1
<1>5. CASE r.kind \in {"connect", "plain"}
  <2>1. t = HttpTarget(r)
    BY <1>5 DEF RequestedTarget
  <2>2. CASE r.port.text # <<>>
    <3>1. CASE r.port.port \in Port
      <4>1. t = [type |-> "Domain", host |-> L, port |-> r.port.port]
        BY <1>5, <2>1, <2>2, <3>1, AuthorityWithPort
      <4>2. QED BY <1>3, <1>5, <3>1, <4>1
    <3>2. CASE r.port.port \notin Port
      <4>1. t = Bad
        BY <1>5, <2>1, <2>2, <3>2, AuthorityWithPort
      <4>2. QED BY <3>2, <4>1
    <3>3. QED BY <3>1, <3>2
  <2>3. CASE r.port.text = <<>>
    <3>1. r.port.port \in Port
      <4>1. 80 \in Port /\ 443 \in Port
        BY DEF Port
      <4>2. r.port.port \in {80, 443}
        BY <1>5, <2>3, RequestParts
      <4>3. QED BY <4>1, <4>2
    <3>2. CASE Ambiguous(r)
      <4>1. CASE t = Bad
        BY <3>2, <4>1
      <4>2. CASE t # Bad
        <5>1. t \in Address /\ t.type = "Domain" /\ Len(t.host) <= Len(L)
          BY <1>5, <2>1, <2>3, <4>2, AuthorityAlone
        <5>2. Len(L) < LenModulus /\ LenModulus \in Int /\ Len(L) \in Nat
          BY <1>1, <1>5, LenModulusAssumption DEF Fits
        <5>3. Len(t.host) < LenModulus
          BY <5>1, <5>2 DEF Address
        <5> HIDE DEF t
        <5>4. Sendable(t)
          BY <5>1, <5>3 DEF Sendable
        <5>5. QED BY <1>5, <3>2, <4>2, <5>1, <5>4 DEF t
      <4>3. QED BY <4>1, <4>2
    <3>3. CASE ~Ambiguous(r)
      <4>1. t = IF r.kind = "plain" THEN [type |-> "Domain", host |-> L, port |-> r.port.port]
                                    ELSE Bad
        BY <1>5, <2>1, <2>3, <3>3, AuthorityAlone
      <4>2. CASE r.kind = "plain"
        <5>1. t = [type |-> "Domain", host |-> L, port |-> r.port.port]
          BY <4>1, <4>2
        <5>2. QED BY <1>3, <3>1, <4>2, <5>1
      <4>3. CASE r.kind = "connect"
        BY <2>3, <4>1, <4>3
      <4>4. QED BY <1>5, <4>2, <4>3
    <3>4. QED BY <3>2, <3>3
  <2>4. QED BY <2>2, <2>3
<1>6. QED BY <1>2, <1>4, <1>5, RequestParts

-----------------------------------------------------------------------------
(* The handlers.                                                           *)

\* Where a request is and what has become of it.
RequestInv ==
    /\ request \in Requests
    /\ stage \in {"client", "server", "dial", "dialled", "refused", "tun"}
    /\ stage = "server" =>
          /\ target = RequestedTarget(request) /\ target # Bad
          /\ plain = Pack(target, ClientData(request))
    /\ stage \in {"dial", "dialled"} /\ Fits(request) =>
          /\ RequestedTarget(request) # Bad
          /\ target = Received(RequestedTarget(request))
          /\ payload = ClientData(request)
    /\ GoodRequestDialled

\* Every step keeps it.
LEMMA RequestKept ==
    ASSUME RequestInv, [Next]_vars PROVE RequestInv'
<1> USE DEF RequestInv
<1>0. ClientData(request) \in Seq(Byte)
  BY Bytes, ProxyRequestAssumption DEF ClientData
<1>1. CASE Client
  <2>1. /\ stage = "client" /\ request' = request /\ payload' = payload
        /\ target' = RequestedTarget(request)
        /\ IF target' = Bad THEN stage' = "refused" /\ UNCHANGED plain
           ELSE stage' = "server" /\ plain' = Pack(target', ClientData(request))
    BY <1>1 DEF Client
  <2>2. CASE target' = Bad
    <3>1. Fits(request) =>
             \/ request.port.port \notin Port
             \/ request.kind = "connect" /\ request.port.text = <<>>
             \/ Ambiguous(request)
      BY <2>1, <2>2, TargetRequested
    <3>2. GoodRequestDialled'
      BY <2>1, <3>1 DEF GoodRequestDialled
    <3>3. QED BY <2>1, <2>2, <3>2
  <2>3. CASE target' # Bad
    BY <2>1, <2>3 DEF GoodRequestDialled
  <2>4. QED BY <2>2, <2>3
<1>2. CASE Server
  <2> DEFINE first == Unpack(plain)
  <2>1. /\ stage = "server" /\ request' = request /\ plain' = plain
        /\ CASE plain = <<TunMode>> -> stage' = "tun" /\ UNCHANGED <<target, payload>>
             [] plain # <<TunMode>> /\ first = Bad ->
                  stage' = "refused" /\ UNCHANGED <<target, payload>>
             [] OTHER -> /\ stage' = "dial"
                         /\ target' = first.address
                         /\ payload' = first.data
    BY <1>2 DEF Server
  <2> HIDE DEF first
  <2>2. stage' \in {"tun", "refused", "dial"}
    BY <2>1
  <2>3. CASE ~Fits(request)
    BY <2>1, <2>2, <2>3 DEF GoodRequestDialled
  <2>4. CASE Fits(request)
    <3>1. /\ Sendable(target) /\ target = RequestedTarget(request)
          /\ plain = Pack(target, ClientData(request))
      BY <2>1, <2>4, TargetRequested
    <3>2. first = [address |-> Received(target), data |-> ClientData(request)] /\ plain[1] # 0
      BY <1>0, <3>1, FirstFrameRead DEF first
    <3>3. plain # <<TunMode>>
      BY <3>2 DEF TunMode
    <3>4. first # Bad
      BY <3>2 DEF Bad
    <3>5. stage' = "dial" /\ target' = Received(target) /\ payload' = ClientData(request)
      BY <2>1, <3>2, <3>3, <3>4
    <3>6. QED BY <2>1, <3>1, <3>5 DEF GoodRequestDialled
  <2>5. QED BY <2>3, <2>4
<1>3. CASE Dial
  <2>1. /\ stage = "dial" /\ UNCHANGED <<request, target, plain, payload>>
        /\ stage' = IF Resolvable(target) THEN "dialled" ELSE "refused"
    BY <1>3 DEF Dial
  <2>2. CASE Resolvable(target) \/ ~Fits(request)
    BY <2>1, <2>2 DEF GoodRequestDialled
  <2>3. CASE ~Resolvable(target) /\ Fits(request)
    <3>1. target.type = "IPv6" /\ target = Received(RequestedTarget(request))
          /\ RequestedTarget(request) # Bad
      BY <2>1, <2>3 DEF Resolvable
    <3>2. RequestedTarget(request) \in Address
      BY <2>3, <3>1, TargetRequested DEF Sendable
    <3>3. RequestedTarget(request).type = "IPv6"
      BY <3>1, <3>2 DEF Received, Address
    <3>4. request.kind = "IPv6"
      BY <2>3, <3>1, <3>3, TargetRequested
    <3>5. QED BY <2>1, <2>3, <3>4 DEF GoodRequestDialled
  <2>4. QED BY <2>2, <2>3
<1>4. CASE UNCHANGED vars
  BY <1>4 DEF vars, GoodRequestDialled
<1>5. QED
  BY <1>1, <1>2, <1>3, <1>4 DEF Next

\* The frame holds the target and the data of the request until the server has read them.
THEOREM RequestInvariant == Spec => []RequestInv
<1>1. Init => RequestInv
  BY DEF Init, RequestInv, GoodRequestDialled
<1>2. RequestInv /\ [Next]_vars => RequestInv'
  BY RequestKept
<1>3. QED BY <1>1, <1>2, PTL DEF Spec

\* Whatever bytes an application names as host, with colons or without, UTF-8 or not, the
\* server connects to that host and port and to no other (handle_http_connect, Socks5Addr,
\* handle_connection).  The splits of a request line at whitespace, :// and / come before
\* HttpTarget, so a host of HTTP has none of these.
THEOREM TargetIsNamed == Spec => []TargetAsNamed
<1>1. RequestInv => TargetAsNamed
  <2> SUFFICES ASSUME RequestInv, stage = "dialled", Fits(request), ~Ambiguous(request)
               PROVE  target.host = NamedHost(request) /\ target.port = request.port.port
    BY DEF TargetAsNamed
  <2>1. RequestedTarget(request) # Bad /\ target = Received(RequestedTarget(request))
        /\ request \in Requests
    BY DEF RequestInv
  <2>2. QED BY <2>1, TargetRequested
<1>2. QED BY <1>1, RequestInvariant, PTL

\* The data of a first frame are never taken for a part of the address, nor the other way
\* round (pack_addr_payload, unpack_addr_payload).
THEOREM FirstDataIsKept == Spec => []FirstDataKept
<1>1. RequestInv => FirstDataKept
  BY DEF RequestInv, FirstDataKept
<1>2. QED BY <1>1, RequestInvariant, PTL

\* A request that fits is refused, or taken for TUN mode, for the listed reasons only.
THEOREM GoodRequestsDialled == Spec => []GoodRequestDialled
<1>1. RequestInv => GoodRequestDialled
  BY DEF RequestInv
<1>2. QED BY <1>1, RequestInvariant, PTL

===============================================================================

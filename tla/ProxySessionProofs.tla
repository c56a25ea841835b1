------------------------- MODULE ProxySessionProofs --------------------------
(***************************************************************************)
(* Proofs about ProxySession, for every length of header, buffer, socket   *)
(* and data, and every fault: its types, and that both directions deliver  *)
(* what was sent, in order and once.                                       *)
(***************************************************************************)
EXTENDS ProxySession, Integers, SequenceTheorems, TLAPS

-----------------------------------------------------------------------------
(* Parts of a sequence.                                                    *)

Words == {"greeting", "request", "method", "success", "established", "blank", "salt", "address"}
Item == {<<w>> : w \in Words} \cup ({"up", "down", "line"} \X Nat)

\* The items q are those of W behind place lo, up to place hi.
Part(W, q, lo, hi) ==
    /\ q \in Seq(Item)
    /\ lo \in Nat /\ hi \in Nat /\ lo <= hi /\ hi <= Len(W)
    /\ Len(q) = hi - lo
    /\ \A i \in 1..Len(q) : q[i] = W[lo + i]

\* The frames of X behind frame k are one part of W after the other, from lo to hi, none
\* longer than what a socket holds.
Chained(W, X, k, lo, hi, c) ==
    /\ c \in [k..Len(X) -> Nat]
    /\ c[k] = lo /\ c[Len(X)] = hi
    /\ \A i \in (k + 1)..Len(X) : Part(W, X[i], c[i - 1], c[i]) /\ Len(X[i]) <= Capacity
Chain(W, X, k, lo, hi) ==
    /\ X \in Seq(Seq(Item))
    /\ k \in 0..Len(X)
    /\ \E c : Chained(W, X, k, lo, hi, c)

\* What one sequence behind another is.
LEMMA Joined ==
    ASSUME NEW S, NEW p \in Seq(S), NEW q \in Seq(S)
    PROVE  /\ p \o q \in Seq(S) /\ Len(p \o q) = Len(p) + Len(q)
           /\ \A i \in 1..(Len(p) + Len(q)) : (p \o q)[i] = IF i <= Len(p) THEN p[i] ELSE q[i - Len(p)]
BY ConcatProperties

\* Nothing is a part anywhere.
LEMMA PartEmpty ==
    ASSUME NEW W \in Seq(Item), NEW lo \in Nat, lo <= Len(W) PROVE Part(W, <<>>, lo, lo)
BY DEF Part

\* A part goes on with the item that comes next.
LEMMA PartAdd ==
    ASSUME NEW W \in Seq(Item), NEW q, NEW lo, NEW hi, Part(W, q, lo, hi), hi < Len(W), NEW x, x = W[hi + 1]
    PROVE  Part(W, Append(q, x), lo, hi + 1) /\ Append(q, x) = q \o <<x>>
<1>1. q \in Seq(Item) /\ lo \in Nat /\ hi \in Nat /\ lo <= hi /\ Len(q) = hi - lo
  BY DEF Part
<1>2. hi + 1 <= Len(W) /\ hi + 1 \in 1..Len(W) /\ x \in Item
  BY <1>1
<1>3. q \in Seq(Item) /\ x \in Item
  BY <1>1, <1>2
<1>4. /\ Append(q, x) \in Seq(Item) /\ Len(Append(q, x)) = Len(q) + 1 /\ Append(q, x) = q \o <<x>>
      /\ Append(q, x)[Len(q) + 1] = x
      /\ \A i \in 1..Len(q) : Append(q, x)[i] = q[i]
  BY ONLY <1>3
<1> DEFINE r == Append(q, x)
<1> HIDE DEF r
<1>5. r \in Seq(Item) /\ Len(r) = Len(q) + 1 /\ r[Len(q) + 1] = x /\ \A i \in 1..Len(q) : r[i] = q[i]
  BY <1>4 DEF r
<1>6. \A i \in 1..Len(r) : r[i] = W[lo + i]
  <2> SUFFICES ASSUME NEW i \in 1..Len(r) PROVE r[i] = W[lo + i]
    OBVIOUS
  <2>1. CASE i = Len(q) + 1
    BY <1>1, <1>5, <2>1
  <2>2. CASE i \in 1..Len(q)
    <3>1. r[i] = q[i]
      BY <1>5, <2>2
    <3>2. q[i] = W[lo + i]
      <4>1. \A j \in 1..Len(q) : q[j] = W[lo + j]
        BY DEF Part
      <4>2. QED BY ONLY <2>2, <4>1
    <3>3. QED BY <3>1, <3>2
  <2>3. QED BY <1>1, <1>5, <2>1, <2>2
<1>7. Part(W, r, lo, hi + 1)
  BY <1>1, <1>2, <1>5, <1>6 DEF Part
<1>8. QED BY <1>4, <1>7 DEF r

\* Cut in two, a part is two parts.
LEMMA PartCut ==
    ASSUME NEW W \in Seq(Item), NEW q, NEW lo, NEW hi, Part(W, q, lo, hi), NEW k \in 0..Len(q)
    PROVE  /\ Part(W, SubSeq(q, 1, k), lo, lo + k)
           /\ Part(W, SubSeq(q, k + 1, Len(q)), lo + k, hi)
<1>1. q \in Seq(Item) /\ lo \in Nat /\ hi \in Nat /\ lo <= hi /\ Len(q) = hi - lo
      /\ hi <= Len(W) /\ \A i \in 1..Len(q) : q[i] = W[lo + i]
  BY DEF Part
<1>2. /\ SubSeq(q, 1, k) \in Seq(Item) /\ Len(SubSeq(q, 1, k)) = k
      /\ \A i \in 1..k : SubSeq(q, 1, k)[i] = q[i]
  BY <1>1
<1>3. /\ SubSeq(q, k + 1, Len(q)) \in Seq(Item) /\ Len(SubSeq(q, k + 1, Len(q))) = Len(q) - k
      /\ \A i \in 1..(Len(q) - k) : SubSeq(q, k + 1, Len(q))[i] = q[k + i]
  BY <1>1
<1>4. Part(W, SubSeq(q, 1, k), lo, lo + k)
  BY <1>1, <1>2 DEF Part
<1>5. Part(W, SubSeq(q, k + 1, Len(q)), lo + k, hi)
  <2> DEFINE r == SubSeq(q, k + 1, Len(q))
  <2> HIDE DEF r
  <2>1. r \in Seq(Item) /\ Len(r) = Len(q) - k /\ \A i \in 1..(Len(q) - k) : r[i] = q[k + i]
    BY <1>3 DEF r
  <2>2. Part(W, r, lo + k, hi)
    BY <1>1, <2>1 DEF Part
  <2>3. QED BY <2>2 DEF r
<1>6. QED BY <1>4, <1>5

\* Without its first item, a part begins one later.
LEMMA PartTail ==
    ASSUME NEW W \in Seq(Item), NEW q, NEW lo, NEW hi, Part(W, q, lo, hi), q # <<>>
    PROVE  /\ Head(q) = W[lo + 1] /\ lo + 1 <= hi
           /\ Part(W, Tail(q), lo + 1, hi) /\ Tail(q) = SubSeq(q, 2, Len(q))
<1>1. q \in Seq(Item) /\ lo \in Nat /\ hi \in Nat /\ Len(q) = hi - lo /\ Len(q) >= 1
  BY DEF Part
<1>2. Tail(q) = SubSeq(q, 2, Len(q))
  BY <1>1
<1>3. Part(W, SubSeq(q, 2, Len(q)), lo + 1, hi)
  <2>1. 1 \in 0..Len(q)
    BY <1>1
  <2> DEFINE k == 1
  <2> HIDE DEF k
  <2>2. Part(W, SubSeq(q, k + 1, Len(q)), lo + k, hi)
    BY <2>1, PartCut, Zenon DEF k
  <2>3. QED BY <2>2 DEF k
<1>4. QED BY <1>1, <1>2, <1>3 DEF Part

\* A part and the next one are one.
LEMMA PartJoin ==
    ASSUME NEW W \in Seq(Item), NEW p, NEW q, NEW lo, NEW mid, NEW hi,
           Part(W, p, lo, mid), Part(W, q, mid, hi)
    PROVE  Part(W, p \o q, lo, hi)
<1>1. /\ p \in Seq(Item) /\ lo \in Nat /\ mid \in Nat /\ lo <= mid /\ Len(p) = mid - lo
      /\ q \in Seq(Item) /\ hi \in Nat /\ mid <= hi /\ Len(q) = hi - mid /\ hi <= Len(W)
      /\ \A i \in 1..Len(p) : p[i] = W[lo + i]
      /\ \A i \in 1..Len(q) : q[i] = W[mid + i]
  BY DEF Part
<1>0. p \in Seq(Item) /\ q \in Seq(Item)
  BY <1>1
<1>2. /\ p \o q \in Seq(Item) /\ Len(p \o q) = Len(p) + Len(q)
      /\ \A i \in 1..(Len(p) + Len(q)) : (p \o q)[i] = IF i <= Len(p) THEN p[i] ELSE q[i - Len(p)]
  BY ONLY <1>0, Joined
<1> DEFINE r == p \o q
<1> HIDE DEF r
<1>3. /\ r \in Seq(Item) /\ Len(r) = Len(p) + Len(q)
      /\ \A i \in 1..(Len(p) + Len(q)) : r[i] = IF i <= Len(p) THEN p[i] ELSE q[i - Len(p)]
  BY <1>2 DEF r
<1>4. \A i \in 1..Len(r) : r[i] = W[lo + i]
  <2> SUFFICES ASSUME NEW i \in 1..Len(r) PROVE r[i] = W[lo + i]
    OBVIOUS
  <2>1. CASE i <= Len(p)
    BY <1>1, <1>3, <2>1
  <2>2. CASE i > Len(p)
    <3>1. i - Len(p) \in 1..Len(q) /\ mid + (i - Len(p)) = lo + i
      BY <1>1, <1>3, <2>2
    <3>2. q[i - Len(p)] = W[mid + (i - Len(p))]
      BY <1>1, <3>1
    <3>3. QED BY <1>1, <1>3, <2>2, <3>1, <3>2
  <2>3. QED BY <1>1, <1>3, <2>1, <2>2
<1>5. Part(W, r, lo, hi)
  BY <1>1, <1>3, <1>4 DEF Part
<1>6. QED BY <1>5 DEF r

\* A part from the beginning is a prefix.
LEMMA PartPrefix ==
    ASSUME NEW W \in Seq(Item), NEW q, NEW hi, Part(W, q, 0, hi)
    PROVE  IsPrefix(q, W)
<1>1. q \in Seq(Item) /\ Len(q) <= Len(W) /\ \A i \in 1..Len(q) : q[i] = W[i]
  BY DEF Part
<1>2. SubSeq(q, 1, Len(q)) \in Seq(Item) /\ SubSeq(W, 1, Len(q)) \in Seq(Item)
  BY <1>1
<1>3. /\ Len(SubSeq(q, 1, Len(q))) = Len(q) /\ Len(SubSeq(W, 1, Len(q))) = Len(q)
      /\ \A i \in 1..Len(q) : SubSeq(q, 1, Len(q))[i] = q[i] /\ SubSeq(W, 1, Len(q))[i] = W[i]
  BY <1>1
<1>4. SubSeq(q, 1, Len(q)) = SubSeq(W, 1, Len(q))
  BY <1>1, <1>2, <1>3, SeqEqual
<1>5. QED BY <1>1, <1>4 DEF IsPrefix

-----------------------------------------------------------------------------
(* Chains of frames.                                                       *)

\* Behind the last frame nothing follows yet.
LEMMA ChainNew ==
    ASSUME NEW W, NEW X \in Seq(Seq(Item)), NEW lo \in Nat
    PROVE  Chain(W, X, Len(X), lo, lo)
<1> DEFINE c == [i \in Len(X)..Len(X) |-> lo]
<1>0. Len(X) \in Nat
  OBVIOUS
<1>1. c \in [Len(X)..Len(X) -> Nat] /\ c[Len(X)] = lo
  BY <1>0
<1> HIDE DEF c
<1>2. Chained(W, X, Len(X), lo, lo, c)
  BY <1>0, <1>1 DEF Chained
<1>3. QED BY <1>0, <1>2 DEF Chain

\* A chain goes on with the part that comes next.
LEMMA ChainAdd ==
    ASSUME NEW W, NEW X, NEW k, NEW lo, NEW mid, NEW hi, NEW q,
           Chain(W, X, k, lo, mid), Part(W, q, mid, hi), Len(q) <= Capacity
    PROVE  Chain(W, Append(X, q), k, lo, hi) /\ X \o <<q>> = Append(X, q)
<1>1. X \in Seq(Seq(Item)) /\ k \in 0..Len(X) /\ q \in Seq(Item) /\ hi \in Nat
  BY DEF Chain, Part
<1>2. PICK c : Chained(W, X, k, lo, mid, c)
  BY DEF Chain
<1> DEFINE Y == Append(X, q)
           N == Len(X) + 1
           d == [i \in k..N |-> IF i = N THEN hi ELSE c[i]]
<1>3. /\ Y \in Seq(Seq(Item)) /\ Len(Y) = N /\ Y[N] = q /\ X \o <<q>> = Y
      /\ \A i \in 1..Len(X) : Y[i] = X[i]
  BY <1>1
<1>4. Len(X) \in Nat /\ N \in Nat /\ N > k /\ k \in Nat /\ N = Len(X) + 1
  BY <1>1
<1>5. /\ d \in [k..N -> Nat] /\ d[N] = hi
      /\ \A i \in k..Len(X) : d[i] = c[i]
  BY <1>1, <1>2, <1>4 DEF Chained
<1> HIDE DEF Y, N, d
<1>6. d[k] = lo
  BY <1>2, <1>4, <1>5 DEF Chained
<1>7. ASSUME NEW i \in (k + 1)..N
      PROVE  Part(W, Y[i], d[i - 1], d[i]) /\ Len(Y[i]) <= Capacity
  <2>1. CASE i = N
    <3>1. d[i - 1] = mid /\ d[i] = hi /\ Y[i] = q
      BY <2>1, <1>2, <1>3, <1>4, <1>5 DEF Chained
    <3>2. QED BY <3>1
  <2>2. CASE i # N
    <3>1. i \in (k + 1)..Len(X) /\ i \in 1..Len(X)
      BY <1>4, <2>2
    <3>2. i - 1 \in k..Len(X) /\ i \in k..Len(X)
      BY <1>4, <3>1
    <3>3. Y[i] = X[i] /\ d[i - 1] = c[i - 1] /\ d[i] = c[i]
      BY <1>3, <1>5, <3>1, <3>2
    <3>4. QED BY <1>2, <3>1, <3>3 DEF Chained
  <2>3. QED BY <2>1, <2>2
<1>8. Chained(W, Y, k, lo, hi, d)
  BY <1>3, <1>5, <1>6, <1>7 DEF Chained
<1>9. Chain(W, Y, k, lo, hi)
  BY <1>3, <1>4, <1>8 DEF Chain
<1>10. QED BY <1>3, <1>9 DEF Y

\* Without the first frame of all, the others move up.
LEMMA Moved ==
    ASSUME NEW X \in Seq(Seq(Item)), X # <<>>
    PROVE  /\ Tail(X) \in Seq(Seq(Item)) /\ Len(Tail(X)) = Len(X) - 1
           /\ Tail(X) = SubSeq(X, 2, Len(X)) /\ Head(X) = X[1] /\ Len(X) >= 1
           /\ \A i \in 1..(Len(X) - 1) : Tail(X)[i] = X[i + 1]
<1>1. Tail(X) = SubSeq(X, 2, Len(X)) /\ Head(X) = X[1] /\ Len(X) >= 1 /\ Len(X) \in Nat
  OBVIOUS
<1>2. Tail(X) \in Seq(Seq(Item)) /\ Len(Tail(X)) = Len(X) - 1
  OBVIOUS
<1>3. \A i \in 1..(Len(X) - 1) : Tail(X)[i] = X[i + 1]
  OBVIOUS
<1>4. QED BY <1>1, <1>2, <1>3

\* A frame before the chain is taken away.
LEMMA ChainShift ==
    ASSUME NEW W, NEW X, NEW k, NEW lo, NEW hi, Chain(W, X, k, lo, hi), k > 0
    PROVE  Chain(W, Tail(X), k - 1, lo, hi)
<1>1. X \in Seq(Seq(Item)) /\ k \in 0..Len(X) /\ X # <<>>
  BY DEF Chain
<1>2. PICK c : Chained(W, X, k, lo, hi, c)
  BY DEF Chain
<1> DEFINE Y == Tail(X)
           d == [i \in (k - 1)..(Len(X) - 1) |-> c[i + 1]]
<1>3. /\ Y \in Seq(Seq(Item)) /\ Len(Y) = Len(X) - 1
      /\ \A i \in 1..(Len(X) - 1) : Y[i] = X[i + 1]
  BY <1>1, Moved
<1>4. Len(X) \in Nat /\ k \in Nat /\ k <= Len(X)
  BY <1>1
<1>5. /\ d \in [(k - 1)..(Len(X) - 1) -> Nat]
      /\ \A i \in (k - 1)..(Len(X) - 1) : d[i] = c[i + 1]
  BY <1>2, <1>4 DEF Chained
<1> HIDE DEF Y, d
<1>6. d[k - 1] = lo /\ d[Len(Y)] = hi
  BY <1>2, <1>3, <1>4, <1>5 DEF Chained
<1>7. ASSUME NEW i \in ((k - 1) + 1)..Len(Y)
      PROVE  Part(W, Y[i], d[i - 1], d[i]) /\ Len(Y[i]) <= Capacity
  <2>1. /\ i + 1 \in (k + 1)..Len(X) /\ i \in 1..(Len(X) - 1)
        /\ i - 1 \in (k - 1)..(Len(X) - 1) /\ i \in (k - 1)..(Len(X) - 1)
    BY <1>3, <1>4
  <2>2. Y[i] = X[i + 1] /\ d[i - 1] = c[(i + 1) - 1] /\ d[i] = c[i + 1]
    BY <1>3, <1>5, <2>1
  <2>3. Part(W, X[i + 1], c[(i + 1) - 1], c[i + 1]) /\ Len(X[i + 1]) <= Capacity
    BY <1>2, <2>1 DEF Chained
  <2>4. QED BY <2>2, <2>3
<1>8. Chained(W, Y, k - 1, lo, hi, d)
  BY <1>3, <1>5, <1>6, <1>7 DEF Chained
<1>9. Chain(W, Y, k - 1, lo, hi)
  BY <1>3, <1>4, <1>8 DEF Chain
<1>10. QED BY <1>9 DEF Y

\* The first frame of the chain is taken away.
LEMMA ChainTake ==
    ASSUME NEW W, NEW X, NEW lo, NEW hi, Chain(W, X, 0, lo, hi), X # <<>>
    PROVE  \E mid : /\ Part(W, Head(X), lo, mid) /\ Len(Head(X)) <= Capacity
                    /\ Chain(W, Tail(X), 0, mid, hi)
<1>1. X \in Seq(Seq(Item))
  BY DEF Chain
<1>2. PICK c : Chained(W, X, 0, lo, hi, c)
  BY DEF Chain
<1>3. Len(X) \in Nat /\ Len(X) >= 1 /\ Head(X) = X[1]
  BY <1>1, Moved
<1>4. Part(W, X[1], c[0], c[1]) /\ Len(X[1]) <= Capacity /\ c[0] = lo
  <2>1. 1 \in (0 + 1)..Len(X) /\ 1 - 1 = 0
    BY <1>3
  <2>2. QED BY <1>2, <2>1 DEF Chained
<1> DEFINE d == [i \in 1..Len(X) |-> c[i]]
<1>5. d \in [1..Len(X) -> Nat] /\ \A i \in 1..Len(X) : d[i] = c[i]
  BY <1>2, <1>3 DEF Chained
<1> HIDE DEF d
<1>6. Chained(W, X, 1, c[1], hi, d)
  <2>1. ASSUME NEW i \in (1 + 1)..Len(X)
        PROVE  Part(W, X[i], d[i - 1], d[i]) /\ Len(X[i]) <= Capacity
    <3>1. i \in (0 + 1)..Len(X) /\ i - 1 \in 1..Len(X) /\ i \in 1..Len(X)
      BY <1>3
    <3>2. d[i - 1] = c[i - 1] /\ d[i] = c[i]
      BY <1>5, <3>1
    <3>3. QED BY <1>2, <3>1, <3>2 DEF Chained
  <2>2. d[1] = c[1] /\ d[Len(X)] = hi
    BY <1>2, <1>3, <1>5 DEF Chained
  <2>3. QED BY <1>5, <2>1, <2>2 DEF Chained
<1>7. Chain(W, X, 1, c[1], hi)
  BY <1>1, <1>3, <1>6 DEF Chain
<1>8. Chain(W, Tail(X), 0, c[1], hi)
  <2>1. 1 > 0 /\ 1 - 1 = 0
    OBVIOUS
  <2> DEFINE k == 1
  <2> HIDE DEF k
  <2>2. Chain(W, Tail(X), k - 1, c[1], hi)
    BY <1>7, <2>1, ChainShift, Zenon DEF k
  <2>3. QED BY <2>1, <2>2 DEF k
<1>9. QED BY <1>3, <1>4, <1>8

-----------------------------------------------------------------------------
(* What the application sends, waits for and receives.                     *)

\* What reaches the client's socket, when the script is carried out.
Asked == IF proto = "socks" THEN << <<"greeting">>, <<"request">> >> ELSE Header(headerLen)
Wire == Asked \o UpData
Total == Script(proto, headerLen)
Answer == Answers \o DownData

Kind == proto \in Protos /\ headerLen \in HeaderLens \cup {2}

\* The constants and kinds of request.
LEMMA Numbers ==
    /\ UpLen \in Nat /\ DownLen \in Nat /\ MaxFaults \in Nat
    /\ Capacity \in Nat /\ Capacity > 0 /\ BufLen \in Nat /\ BufLen > 0
    /\ Kind => /\ proto \in {"socks", "connect", "eager", "plain"}
               /\ headerLen \in Nat /\ headerLen >= 2
<1>1. UpLen \in Nat /\ DownLen \in Nat /\ MaxFaults \in Nat
  BY ProxySessionAssumption
<1>2. Capacity \in Nat /\ Capacity > 0 /\ BufLen \in Nat /\ BufLen > 0
  BY ProxySessionAssumption
<1>3. ASSUME Kind PROVE proto \in {"socks", "connect", "eager", "plain"}
  BY <1>3, ProxySessionAssumption DEF Kind
<1>4. ASSUME Kind PROVE headerLen \in Nat /\ headerLen >= 2
  BY <1>4, ProxySessionAssumption DEF Kind
<1>5. QED BY <1>1, <1>2, <1>3, <1>4

\* Items of different lengths are different, and so are the names of their kinds.
LEMMA Different ==
    /\ \A a, b, c : <<a, b>> # <<c>>
    /\ \A a, b : <<a>> = <<b>> => a = b
    /\ \A a, b, c, d : <<a, b>> = <<c, d>> => a = c /\ b = d
<1>1. \A a, b, c : Len(<<a, b>>) = 2 /\ Len(<<c>>) = 1
  OBVIOUS
<1>2. \A a, b : <<a>>[1] = a
  OBVIOUS
<1>3. \A a, b : <<a, b>>[1] = a /\ <<a, b>>[2] = b
  OBVIOUS
<1>4. \A a, b, c : <<a, b>> # <<c>>
  BY <1>1
<1>5. \A a, b : <<a>> = <<b>> => a = b
  OBVIOUS
<1>6. \A a, b, c, d : <<a, b>> = <<c, d>> => a = c /\ b = d
  OBVIOUS
<1>7. QED BY <1>4, <1>5, <1>6

LEMMA WordsAre == \A w \in Words : <<w>> \in Item
BY DEF Item

\* Numbered items.
LEMMA ItemsAre ==
    ASSUME NEW name \in {"up", "down", "line"}, NEW n \in Nat
    PROVE  /\ Items(name, n) \in Seq(Item) /\ Len(Items(name, n)) = n
           /\ \A i \in 1..n : Items(name, n)[i] = <<name, i>>
<1>1. \A i \in 1..n : <<name, i>> \in Item
  BY DEF Item
<1>2. QED BY <1>1 DEF Items

\* A header is lines, and then a blank one.
LEMMA HeaderIs ==
    ASSUME NEW n \in Nat, n >= 2
    PROVE  /\ Header(n) \in Seq(Item) /\ Len(Header(n)) = n /\ Header(n)[n] = <<"blank">>
           /\ \A i \in 1..(n - 1) : Header(n)[i] = <<"line", i>>
<1> DEFINE L == Items("line", n - 1)
<1>0. n - 1 \in Nat
  OBVIOUS
<1>1. L \in Seq(Item) /\ Len(L) = n - 1 /\ \A i \in 1..(n - 1) : L[i] = <<"line", i>>
  BY <1>0, ItemsAre
<1>2. <<"blank">> \in Item
  BY WordsAre DEF Words
<1> HIDE DEF L
<1>3. Header(n) = Append(L, <<"blank">>)
  BY DEF Header, L
<1>4. QED BY <1>1, <1>2, <1>3

\* The bytes for the client and the target.
LEMMA WireIs ==
    ASSUME Kind
    PROVE  /\ Wire \in Seq(Item) /\ Len(Wire) = Len(Asked) + UpLen
           /\ Len(Asked) = IF proto = "socks" THEN 2 ELSE headerLen
           /\ Asked \in Seq(Item)
           /\ \A i \in 1..Len(Asked) : Wire[i] = Asked[i]
           /\ \A i \in (Len(Asked) + 1)..Len(Wire) : Wire[i] = <<"up", i - Len(Asked)>>
<1>1. UpData \in Seq(Item) /\ Len(UpData) = UpLen /\ \A i \in 1..UpLen : UpData[i] = <<"up", i>>
  BY Numbers, ItemsAre DEF UpData
<1>2. Asked \in Seq(Item) /\ Len(Asked) = IF proto = "socks" THEN 2 ELSE headerLen
  <2>1. <<"greeting">> \in Item /\ <<"request">> \in Item
    BY WordsAre DEF Words
  <2>2. CASE proto = "socks"
    BY <2>1, <2>2 DEF Asked
  <2>3. CASE proto # "socks"
    BY <2>3, Numbers, HeaderIs DEF Asked
  <2>4. QED BY <2>2, <2>3
<1>3. Asked \in Seq(Item) /\ UpData \in Seq(Item)
  BY <1>1, <1>2
<1>4. /\ Wire \in Seq(Item) /\ Len(Wire) = Len(Asked) + Len(UpData)
      /\ \A i \in 1..(Len(Asked) + Len(UpData)) :
            Wire[i] = IF i <= Len(Asked) THEN Asked[i] ELSE UpData[i - Len(Asked)]
  BY ONLY <1>3, Joined DEF Wire
<1>5. Len(Asked) \in Nat
  BY <1>3
<1>6. \A i \in 1..Len(Asked) : Wire[i] = Asked[i]
  BY <1>1, <1>4, <1>5, Numbers
<1>7. \A i \in (Len(Asked) + 1)..Len(Wire) : Wire[i] = <<"up", i - Len(Asked)>>
  <2> SUFFICES ASSUME NEW i \in (Len(Asked) + 1)..Len(Wire) PROVE Wire[i] = <<"up", i - Len(Asked)>>
    OBVIOUS
  <2>1. /\ i \in 1..(Len(Asked) + Len(UpData)) /\ ~(i <= Len(Asked))
        /\ i - Len(Asked) \in 1..UpLen
    BY <1>1, <1>4, <1>5, Numbers
  <2>2. QED BY <1>1, <1>4, <2>1
<1>8. QED BY <1>1, <1>2, <1>4, <1>6, <1>7

\* No reply is among them, and the blank line ends the header.
LEMMA WireItems ==
    ASSUME Kind, NEW i \in 1..Len(Wire)
    PROVE  /\ Wire[i] \in Item /\ Wire[i] \notin Replies
           /\ Wire[i] = <<"blank">> => proto # "socks" /\ i = headerLen
           /\ \A j : Wire[i] # <<"down", j>>
<1>1. Wire \in Seq(Item) /\ Len(Asked) \in Nat /\ i \in Nat
  BY WireIs
<1>2. CASE i > Len(Asked)
  <2>1. Wire[i] = <<"up", i - Len(Asked)>>
    BY WireIs, <1>1, <1>2
  <2>2. QED BY <1>1, <2>1, Different DEF Replies
<1>3. CASE i <= Len(Asked) /\ proto = "socks"
  <2>0. Len(Asked) = 2
    BY WireIs, <1>3
  <2>1. i \in 1..2 /\ i \in 1..Len(Asked)
    BY <1>1, <1>3, <2>0
  <2>6. Wire[i] = Asked[i]
    BY WireIs, <2>1
  <2>2. Wire[i] \in {<<"greeting">>, <<"request">>}
    BY <2>1, <2>6, <1>3 DEF Asked
  <2>3. Wire[i] \in Item
    BY <1>1
  <2>4. /\ \A x \in {<<"greeting">>, <<"request">>} :
            x # <<"method">> /\ x # <<"success">> /\ x # <<"established">> /\ x # <<"blank">>
        /\ \A x \in {<<"greeting">>, <<"request">>} : \A j : x # <<"down", j>>
    BY Different
  <2>5. QED BY <2>2, <2>3, <2>4 DEF Replies
<1>4. CASE i <= Len(Asked) /\ proto # "socks"
  <2>0. headerLen \in Nat /\ headerLen >= 2
    BY Numbers
  <2>1. i \in 1..headerLen /\ Wire[i] = Header(headerLen)[i]
    BY WireIs, <1>1, <1>4 DEF Asked
  <2>2. i = headerLen \/ i \in 1..(headerLen - 1)
    BY <2>0, <2>1
  <2>3. CASE i = headerLen
    <3>1. Wire[i] = <<"blank">>
      BY <2>0, <2>1, <2>3, HeaderIs
    <3>2. QED BY <1>1, <1>4, <2>3, <3>1, Different DEF Replies
  <2>4. CASE i \in 1..(headerLen - 1)
    <3>1. Wire[i] = <<"line", i>>
      BY <2>0, <2>1, <2>4, HeaderIs
    <3>2. QED BY <1>1, <3>1, Different DEF Replies
  <2>5. QED BY <2>2, <2>3, <2>4
<1>5. QED BY <1>1, <1>2, <1>3, <1>4

\* The replies, and the data behind them.
LEMMA AnswersAre ==
    ASSUME Kind
    PROVE  /\ Answers \in Seq(Item)
           /\ proto = "socks" => /\ Len(Answers) = 2 /\ Answers[1] = <<"method">>
                                 /\ Answers[2] = <<"success">>
           /\ Answered => Len(Answers) = 1 /\ Answers[1] = <<"established">>
           /\ proto = "plain" => Answers = <<>> /\ Len(Answers) = 0
<1>1. <<"method">> \in Item /\ <<"success">> \in Item /\ <<"established">> \in Item
  BY WordsAre DEF Words
<1>2. CASE proto = "socks"
  <2>1. Answers = << <<"method">>, <<"success">> >> /\ ~Answered
    BY <1>2 DEF Answers, Answered
  <2>2. QED BY <1>1, <1>2, <2>1
<1>3. CASE Answered
  <2>1. Answers = << <<"established">> >> /\ proto # "socks" /\ proto # "plain"
    BY <1>3 DEF Answers, Answered
  <2>2. QED BY <1>1, <1>3, <2>1
<1>4. CASE proto = "plain"
  <2>1. Answers = <<>> /\ ~Answered
    BY <1>4 DEF Answers, Answered
  <2>2. QED BY <1>4, <2>1
<1>5. proto = "socks" \/ Answered \/ proto = "plain"
  BY Numbers DEF Answered
<1>6. QED BY <1>2, <1>3, <1>4, <1>5

LEMMA AnswerIs ==
    ASSUME Kind
    PROVE  /\ Answer \in Seq(Item) /\ Len(Answers) \in Nat /\ Len(Answer) = Len(Answers) + DownLen
           /\ \A i \in 1..Len(Answers) : Answer[i] = Answers[i]
           /\ \A i \in 1..DownLen : Answer[Len(Answers) + i] = DownData[i]
           /\ \A i \in 1..DownLen : DownData[i] = <<"down", i>> /\ DownData[i] \in Item
<1>1. /\ DownData \in Seq(Item) /\ Len(DownData) = DownLen
      /\ \A i \in 1..DownLen : DownData[i] = <<"down", i>>
  BY Numbers, ItemsAre DEF DownData
<1>2. Answers \in Seq(Item) /\ DownData \in Seq(Item)
  BY <1>1, AnswersAre
<1>3. /\ Answer \in Seq(Item) /\ Len(Answer) = Len(Answers) + Len(DownData)
      /\ \A i \in 1..(Len(Answers) + Len(DownData)) :
            Answer[i] = IF i <= Len(Answers) THEN Answers[i] ELSE DownData[i - Len(Answers)]
  BY ONLY <1>2, Joined DEF Answer
<1>4. Len(Answers) \in Nat
  BY <1>2
<1>5. \A i \in 1..Len(Answers) : Answer[i] = Answers[i]
  BY <1>1, <1>3, <1>4, Numbers
<1>6. ASSUME NEW i \in 1..DownLen PROVE Answer[Len(Answers) + i] = DownData[i]
  <2>1. /\ Len(Answers) + i \in 1..(Len(Answers) + Len(DownData)) /\ ~(Len(Answers) + i <= Len(Answers))
        /\ (Len(Answers) + i) - Len(Answers) = i
    BY <1>1, <1>4, Numbers
  <2>2. QED BY <1>3, <2>1
<1>7. \A i \in 1..DownLen : DownData[i] \in Item
  BY <1>1
<1>8. QED BY <1>1, <1>3, <1>4, <1>5, <1>6, <1>7

\* Two sequences with an item between them.
LEMMA Inserted ==
    ASSUME NEW p \in Seq(Item), NEW x \in Item, NEW q \in Seq(Item)
    PROVE  /\ p \o <<x>> \o q \in Seq(Item)
           /\ Len(p \o <<x>> \o q) = Len(p) + 1 + Len(q)
           /\ \A i \in 1..Len(p) : (p \o <<x>> \o q)[i] = p[i]
           /\ (p \o <<x>> \o q)[Len(p) + 1] = x
           /\ \A i \in 1..Len(q) : (p \o <<x>> \o q)[Len(p) + 1 + i] = q[i]
<1> DEFINE r == p \o <<x>>
<1>1. /\ r \in Seq(Item) /\ Len(r) = Len(p) + 1 /\ r[Len(p) + 1] = x
      /\ \A i \in 1..Len(p) : r[i] = p[i]
  BY DEF r
<1> HIDE DEF r
<1>2. r \in Seq(Item) /\ q \in Seq(Item)
  BY <1>1
<1>3. /\ r \o q \in Seq(Item) /\ Len(r \o q) = Len(r) + Len(q)
      /\ \A i \in 1..(Len(r) + Len(q)) : (r \o q)[i] = IF i <= Len(r) THEN r[i] ELSE q[i - Len(r)]
  BY ONLY <1>2, Joined
<1>4. Len(p) \in Nat /\ Len(q) \in Nat
  OBVIOUS
<1>5. \A i \in 1..(Len(p) + 1) : (r \o q)[i] = r[i]
  BY <1>1, <1>3, <1>4
<1>6. \A i \in 1..Len(p) : (r \o q)[i] = p[i]
  BY <1>1, <1>4, <1>5
<1>7. (r \o q)[Len(p) + 1] = x
  BY <1>1, <1>4, <1>5
<1>8. ASSUME NEW i \in 1..Len(q) PROVE (r \o q)[Len(p) + 1 + i] = q[i]
  <2>1. /\ Len(p) + 1 + i \in 1..(Len(r) + Len(q)) /\ ~(Len(p) + 1 + i <= Len(r))
        /\ (Len(p) + 1 + i) - Len(r) = i
    BY <1>1, <1>4
  <2>2. QED BY <1>3, <2>1
<1>9. QED BY <1>1, <1>3, <1>6, <1>7, <1>8 DEF r

\* Where in the script what is for the wire is, and where the application waits.
LEMMA TotalIs ==
    ASSUME Kind
    PROVE  /\ Total \in Seq(Item) /\ Len(Total) = Len(Wire) + Len(Answers)
           /\ proto = "plain" => Total = Wire
           /\ proto = "connect" => /\ Total[headerLen + 1] = <<"established">>
                                   /\ \A i \in 1..headerLen : Total[i] = Wire[i]
                                   /\ \A i \in (headerLen + 1)..Len(Wire) : Total[i + 1] = Wire[i]
           /\ proto = "eager" => /\ Total[Len(Wire) + 1] = <<"established">>
                                 /\ \A i \in 1..Len(Wire) : Total[i] = Wire[i]
           /\ proto = "socks" => /\ Total[1] = Wire[1] /\ Total[2] = <<"method">>
                                 /\ Total[3] = Wire[2] /\ Total[4] = <<"success">>
                                 /\ \A i \in 3..Len(Wire) : Total[i + 2] = Wire[i]
<1>1. UpData \in Seq(Item) /\ Len(UpData) = UpLen /\ \A i \in 1..UpLen : UpData[i] = <<"up", i>>
  BY Numbers, ItemsAre DEF UpData
<1>2. /\ <<"greeting">> \in Item /\ <<"request">> \in Item /\ <<"method">> \in Item
      /\ <<"success">> \in Item /\ <<"established">> \in Item
  BY WordsAre DEF Words
<1>3. Wire \in Seq(Item) /\ Asked \in Seq(Item) /\ Len(Asked) \in Nat /\ Len(Wire) = Len(Asked) + UpLen
  BY WireIs
<1>4. CASE proto = "plain"
  <2>1. Total = Wire
    BY <1>4 DEF Total, Script, Wire, Asked
  <2>2. QED BY <1>3, <1>4, <2>1, AnswersAre
<1>5. CASE proto = "connect"
  <2>0. Asked = Header(headerLen) /\ Len(Asked) = headerLen
    BY <1>5, WireIs DEF Asked
  <2>1. Total = Asked \o << <<"established">> >> \o UpData
    BY <1>5, <2>0 DEF Total, Script
  <2>2. /\ Total \in Seq(Item) /\ Len(Total) = Len(Asked) + 1 + Len(UpData)
        /\ \A i \in 1..Len(Asked) : Total[i] = Asked[i]
        /\ Total[Len(Asked) + 1] = <<"established">>
        /\ \A i \in 1..Len(UpData) : Total[Len(Asked) + 1 + i] = UpData[i]
    <3>1. Asked \in Seq(Item) /\ <<"established">> \in Item /\ UpData \in Seq(Item)
      BY <1>1, <1>2, <1>3
    <3> DEFINE E == <<"established">>
    <3> HIDE DEF E
    <3>2. E \in Item /\ Total = Asked \o <<E>> \o UpData
      BY <2>1, <3>1 DEF E
    <3>3. /\ Total \in Seq(Item) /\ Len(Total) = Len(Asked) + 1 + Len(UpData)
          /\ \A i \in 1..Len(Asked) : Total[i] = Asked[i]
          /\ Total[Len(Asked) + 1] = E
          /\ \A i \in 1..Len(UpData) : Total[Len(Asked) + 1 + i] = UpData[i]
      BY ONLY <3>1, <3>2, Inserted
    <3>4. QED BY <3>3 DEF E
  <2>3. Answered /\ Len(Answers) = 1
    BY <1>5, AnswersAre DEF Answered
  <2>4. ASSUME NEW i \in (headerLen + 1)..Len(Wire) PROVE Total[i + 1] = Wire[i]
    <3>1. /\ i - headerLen \in 1..UpLen /\ Len(Asked) + 1 + (i - headerLen) = i + 1
          /\ i \in (Len(Asked) + 1)..Len(Wire)
      BY <1>3, <2>0, Numbers
    <3>2. Total[i + 1] = UpData[i - headerLen]
      BY <1>1, <2>2, <3>1
    <3>3. QED BY <1>1, <2>0, <3>1, <3>2, WireIs
  <2>5. \A i \in 1..headerLen : Total[i] = Wire[i]
    BY <2>0, <2>2, WireIs
  <2>6. Len(Total) = Len(Wire) + Len(Answers)
    BY <1>1, <1>3, <2>2, <2>3, Numbers
  <2>7. QED BY <1>5, <2>0, <2>2, <2>4, <2>5, <2>6
<1>6. CASE proto = "eager"
  <2>0. Asked = Header(headerLen) /\ Len(Asked) = headerLen
    BY <1>6, WireIs DEF Asked
  <2>1. Total = Wire \o << <<"established">> >>
    BY <1>6, <2>0 DEF Total, Script, Wire
  <2>2. /\ Total \in Seq(Item) /\ Len(Total) = Len(Wire) + 1 /\ Total[Len(Wire) + 1] = <<"established">>
        /\ \A i \in 1..Len(Wire) : Total[i] = Wire[i]
    BY <1>2, <1>3, <2>1
  <2>3. Answered /\ Len(Answers) = 1
    BY <1>6, AnswersAre DEF Answered
  <2>4. QED BY <1>6, <2>2, <2>3
<1>7. CASE proto = "socks"
  <2> DEFINE H == << <<"greeting">>, <<"method">>, <<"request">>, <<"success">> >>
  <2>0. Asked = << <<"greeting">>, <<"request">> >> /\ Len(Asked) = 2
    BY <1>7 DEF Asked
  <2>1. Total = H \o UpData
    BY <1>7 DEF Total, Script
  <2>2. /\ H \in Seq(Item) /\ Len(H) = 4 /\ H[1] = <<"greeting">> /\ H[2] = <<"method">>
        /\ H[3] = <<"request">> /\ H[4] = <<"success">>
    BY <1>2
  <2> HIDE DEF H
  <2>3. H \in Seq(Item) /\ UpData \in Seq(Item)
    BY <1>1, <2>2
  <2>4. /\ H \o UpData \in Seq(Item) /\ Len(H \o UpData) = Len(H) + Len(UpData)
        /\ \A i \in 1..(Len(H) + Len(UpData)) :
              (H \o UpData)[i] = IF i <= Len(H) THEN H[i] ELSE UpData[i - Len(H)]
    BY ONLY <2>3, Joined
  <2>5. /\ Total \in Seq(Item) /\ Len(Total) = 4 + UpLen
        /\ \A i \in 1..(4 + UpLen) : Total[i] = IF i <= 4 THEN H[i] ELSE UpData[i - 4]
    BY <1>1, <2>1, <2>2, <2>4
  <2>6. Wire[1] = <<"greeting">> /\ Wire[2] = <<"request">> /\ Len(Wire) = 2 + UpLen
    BY <2>0, WireIs
  <2>7. Total[1] = Wire[1] /\ Total[2] = <<"method">> /\ Total[3] = Wire[2] /\ Total[4] = <<"success">>
    BY <2>2, <2>5, <2>6, Numbers
  <2>8. ASSUME NEW i \in 3..Len(Wire) PROVE Total[i + 2] = Wire[i]
    <3>1. /\ i + 2 \in 1..(4 + UpLen) /\ ~(i + 2 <= 4) /\ (i + 2) - 4 = i - 2 /\ i - 2 \in 1..UpLen
          /\ i \in (Len(Asked) + 1)..Len(Wire)
      BY <2>0, <2>6, Numbers
    <3>2. Total[i + 2] = UpData[i - 2]
      BY <2>5, <3>1
    <3>3. QED BY <1>1, <2>0, <3>1, <3>2, WireIs
  <2>9. Len(Answers) = 2
    BY <1>7, AnswersAre
  <2>10. QED BY <1>7, <2>5, <2>6, <2>7, <2>8, <2>9, Numbers
<1>8. QED BY <1>4, <1>5, <1>6, <1>7, Numbers

-----------------------------------------------------------------------------
(* The network.                                                            *)

\* What is unread in each direction of each connection.
ULocal == Unread(Up("local"))
DLocal == Unread(Down("local"))
UTunnel == Unread(Up("tunnel"))
DTunnel == Unread(Down("tunnel"))
URemote == Unread(Up("remote"))
DRemote == Unread(Down("remote"))

Queues == <<ULocal, DLocal, UTunnel, DTunnel, URemote, DRemote>>

Shape(n) ==
    /\ n = [s \in Streams |-> [data |-> n[s].data, fin |-> n[s].fin, gone |-> n[s].gone]]
    /\ \A s \in Streams : n[s].fin \in BOOLEAN /\ n[s].gone \in BOOLEAN

\* The streams are six.
LEMMA StreamNames ==
    /\ Streams = {Up("local"), Down("local"), Up("tunnel"), Down("tunnel"), Up("remote"), Down("remote")}
    /\ Up("local") # Down("local") /\ Up("local") # Up("tunnel") /\ Up("local") # Down("tunnel")
    /\ Up("local") # Up("remote") /\ Up("local") # Down("remote")
    /\ Down("local") # Up("tunnel") /\ Down("local") # Down("tunnel")
    /\ Down("local") # Up("remote") /\ Down("local") # Down("remote")
    /\ Up("tunnel") # Down("tunnel") /\ Up("tunnel") # Up("remote") /\ Up("tunnel") # Down("remote")
    /\ Down("tunnel") # Up("remote") /\ Down("tunnel") # Down("remote")
    /\ Up("remote") # Down("remote")
BY Different DEF Streams, Conns, Up, Down

\* A stream is replaced and the others stay.
LEMMA NewStream ==
    ASSUME NEW n, Shape(n), NEW s \in Streams, NEW d, NEW f \in BOOLEAN, NEW m,
           m = [r \in Streams |-> m[r]],
           m[s] = [data |-> d, fin |-> f, gone |-> n[s].gone],
           \A r \in Streams : r # s => m[r] = n[r]
    PROVE  /\ Shape(m)
           /\ \A r \in Streams : m[r].data = IF r = s THEN d ELSE n[r].data
<1>1. /\ n = [r \in Streams |-> [data |-> n[r].data, fin |-> n[r].fin, gone |-> n[r].gone]]
      /\ \A r \in Streams : n[r].fin \in BOOLEAN /\ n[r].gone \in BOOLEAN
  BY DEF Shape
<1>3. /\ m[s].data = d /\ m[s].fin = f /\ m[s].gone = n[s].gone
      /\ m[s] = [data |-> m[s].data, fin |-> m[s].fin, gone |-> m[s].gone]
  OBVIOUS
<1>4. ASSUME NEW r \in Streams, r # s
      PROVE  /\ m[r] = [data |-> m[r].data, fin |-> m[r].fin, gone |-> m[r].gone]
             /\ m[r].fin \in BOOLEAN /\ m[r].gone \in BOOLEAN /\ m[r].data = n[r].data
  <2>1. m[r] = n[r] /\ n[r] = [data |-> n[r].data, fin |-> n[r].fin, gone |-> n[r].gone]
    BY <1>1, <1>4
  <2>2. QED BY <1>1, <2>1
<1>5. \A r \in Streams : m[r] = [data |-> m[r].data, fin |-> m[r].fin, gone |-> m[r].gone]
  BY <1>3, <1>4
<1>6. \A r \in Streams : m[r].fin \in BOOLEAN /\ m[r].gone \in BOOLEAN
  BY <1>1, <1>3, <1>4
<1>7. Shape(m)
  BY <1>5, <1>6 DEF Shape
<1>8. QED BY <1>3, <1>4, <1>7

\* The fields of one stream.
LEMMA OneStream ==
    ASSUME NEW n, Shape(n), NEW s \in Streams, NEW v
    PROVE  /\ [n[s] EXCEPT !.data = v] = [data |-> v, fin |-> n[s].fin, gone |-> n[s].gone]
           /\ n[s].fin \in BOOLEAN
<1>1. n[s] = [data |-> n[s].data, fin |-> n[s].fin, gone |-> n[s].gone] /\ n[s].fin \in BOOLEAN
  BY DEF Shape
<1> DEFINE r == n[s]
<1> HIDE DEF r
<1>2. r = [data |-> r.data, fin |-> r.fin, gone |-> r.gone]
  BY <1>1 DEF r
<1>3. [r EXCEPT !.data = v] = [data |-> v, fin |-> r.fin, gone |-> r.gone]
  BY <1>2
<1>4. QED BY <1>1, <1>3 DEF r

\* One read is the first.
LEMMA OneLess ==
    ASSUME NEW S, NEW q \in Seq(S), q # <<>>
    PROVE  /\ Len(q) \in Nat /\ Len(q) >= 1 /\ SubSeq(q, 1 + 1, Len(q)) = Tail(q)
           /\ Tail(q) \in Seq(S) /\ Len(Tail(q)) = Len(q) - 1 /\ Head(q) = q[1]
OBVIOUS

\* What is written is unread behind what was, in its stream and in no other.
LEMMA PutEffect ==
    ASSUME NEW n, Shape(n), NEW s \in Streams, NEW items
    PROVE  /\ Shape(Put(n, s, items))
           /\ \A r \in Streams :
                Put(n, s, items)[r].data = IF r = s THEN n[s].data \o items ELSE n[r].data
<1> DEFINE d == n[s].data \o items
           m == Put(n, s, items)
           e == [n[s] EXCEPT !.data = d]
<1>1. m = [n EXCEPT ![s] = e]
  BY DEF Put, Shape
<1>2. e = [data |-> d, fin |-> n[s].fin, gone |-> n[s].gone] /\ n[s].fin \in BOOLEAN
  <2> HIDE DEF d
  <2>1. [n[s] EXCEPT !.data = d] = [data |-> d, fin |-> n[s].fin, gone |-> n[s].gone]
    BY OneStream
  <2>2. n[s].fin \in BOOLEAN
    BY OneStream
  <2>3. QED BY <2>1, <2>2
<1>3. n = [r \in Streams |-> n[r]]
  BY DEF Shape
<1> HIDE DEF d, m, e
<1>4. m = [r \in Streams |-> m[r]] /\ m[s] = e /\ \A r \in Streams : r # s => m[r] = n[r]
  BY <1>1, <1>3
<1>5. Shape(m) /\ \A r \in Streams : m[r].data = IF r = s THEN d ELSE n[r].data
  <2> DEFINE f == n[s].fin
  <2>1. m[s] = [data |-> d, fin |-> f, gone |-> n[s].gone] /\ f \in BOOLEAN
    BY <1>2, <1>4
  <2> HIDE DEF f
  <2>2. QED BY <1>4, <2>1, NewStream
<1>6. QED BY <1>5 DEF m, d

\* What is read is no longer unread, in its stream, and every other stays as it is.
LEMMA TookEffect ==
    ASSUME NEW n, Shape(n), NEW s \in Streams, NEW k
    PROVE  /\ Shape(Took(n, s, k))
           /\ \A r \in Streams :
                Took(n, s, k)[r].data =
                    IF r = s THEN SubSeq(n[s].data, k + 1, Len(n[s].data)) ELSE n[r].data
<1> DEFINE d == SubSeq(n[s].data, k + 1, Len(n[s].data))
           m == Took(n, s, k)
           e == [n[s] EXCEPT !.data = d]
<1>1. m = [n EXCEPT ![s] = e]
  BY DEF Took, Shape
<1>2. e = [data |-> d, fin |-> n[s].fin, gone |-> n[s].gone] /\ n[s].fin \in BOOLEAN
  <2> HIDE DEF d
  <2>1. [n[s] EXCEPT !.data = d] = [data |-> d, fin |-> n[s].fin, gone |-> n[s].gone]
    BY OneStream
  <2>2. n[s].fin \in BOOLEAN
    BY OneStream
  <2>3. QED BY <2>1, <2>2
<1>3. n = [r \in Streams |-> n[r]]
  BY DEF Shape
<1> HIDE DEF d, m, e
<1>4. m = [r \in Streams |-> m[r]] /\ m[s] = e /\ \A r \in Streams : r # s => m[r] = n[r]
  BY <1>1, <1>3
<1>5. Shape(m) /\ \A r \in Streams : m[r].data = IF r = s THEN d ELSE n[r].data
  <2> DEFINE f == n[s].fin
  <2>1. m[s] = [data |-> d, fin |-> f, gone |-> n[s].gone] /\ f \in BOOLEAN
    BY <1>2, <1>4
  <2> HIDE DEF f
  <2>2. QED BY <1>4, <2>1, NewStream
<1>6. QED BY <1>5 DEF m, d

\* Shutting a direction down and closing sockets leave what is unread as it is.
LEMMA ShutEffect ==
    ASSUME NEW n, Shape(n), NEW s \in Streams
    PROVE  /\ Shape(Shut(n, s))
           /\ \A r \in Streams : Shut(n, s)[r].data = n[r].data
<1> DEFINE d == n[s].data
           m == Shut(n, s)
           e == [n[s] EXCEPT !.fin = TRUE]
<1>1. m = [n EXCEPT ![s] = e]
  BY DEF Shut, Shape
<1>2. e = [data |-> d, fin |-> TRUE, gone |-> n[s].gone] /\ TRUE \in BOOLEAN
  <2> HIDE DEF d
  <2>1. [n[s] EXCEPT !.fin = TRUE] = [data |-> n[s].data, fin |-> TRUE, gone |-> n[s].gone]
    <3> DEFINE r == n[s]
    <3>1. r = [data |-> r.data, fin |-> r.fin, gone |-> r.gone]
      BY DEF Shape
    <3> HIDE DEF r
    <3> DEFINE v == TRUE
    <3> HIDE DEF v
    <3>2. [r EXCEPT !.fin = v] = [data |-> r.data, fin |-> v, gone |-> r.gone]
      BY <3>1
    <3>3. QED BY <3>2 DEF r, v
  <2>2. TRUE \in BOOLEAN
    BY OneStream
  <2>3. QED BY <2>1, <2>2 DEF d
<1>3. n = [r \in Streams |-> n[r]]
  BY DEF Shape
<1> HIDE DEF d, m, e
<1>4. m = [r \in Streams |-> m[r]] /\ m[s] = e /\ \A r \in Streams : r # s => m[r] = n[r]
  BY <1>1, <1>3
<1>5. Shape(m) /\ \A r \in Streams : m[r].data = IF r = s THEN d ELSE n[r].data
  <2> DEFINE f == TRUE
  <2>1. m[s] = [data |-> d, fin |-> f, gone |-> n[s].gone] /\ f \in BOOLEAN
    BY <1>2, <1>4
  <2> HIDE DEF f
  <2>2. QED BY <1>4, <2>1, NewStream
<1>6. QED BY <1>5 DEF m, d

LEMMA ClosedEffect ==
    ASSUME NEW n, Shape(n), NEW reads, NEW writes
    PROVE  /\ Shape(Closed(n, reads, writes))
           /\ \A r \in Streams : Closed(n, reads, writes)[r].data = n[r].data
BY DEF Closed, Shape

\* The same of the variable net.
LEMMA NetPut ==
    ASSUME Shape(net), NEW s \in Streams, NEW items, net' = Put(net, s, items)
    PROVE  /\ Shape(net')
           /\ \A r \in Streams : Unread(r)' = IF r = s THEN Unread(s) \o items ELSE Unread(r)
BY PutEffect DEF Unread

LEMMA NetTook ==
    ASSUME Shape(net), NEW s \in Streams, NEW k, net' = Took(net, s, k)
    PROVE  /\ Shape(net')
           /\ \A r \in Streams :
                Unread(r)' = IF r = s THEN SubSeq(Unread(s), k + 1, Len(Unread(s))) ELSE Unread(r)
BY TookEffect DEF Unread

LEMMA NetMoved ==
    ASSUME Shape(net), NEW s \in Streams, NEW t \in Streams, s # t, NEW k, NEW items,
           net' = Put(Took(net, s, k), t, items)
    PROVE  /\ Shape(net')
           /\ \A r \in Streams :
                Unread(r)' = IF r = s THEN SubSeq(Unread(s), k + 1, Len(Unread(s)))
                             ELSE IF r = t THEN Unread(t) \o items ELSE Unread(r)
<1> DEFINE n == Took(net, s, k)
<1>1. /\ Shape(n)
      /\ \A r \in Streams :
           n[r].data = IF r = s THEN SubSeq(net[s].data, k + 1, Len(net[s].data)) ELSE net[r].data
  BY TookEffect
<1> HIDE DEF n
<1>2. /\ Shape(Put(n, t, items))
      /\ \A r \in Streams :
           Put(n, t, items)[r].data = IF r = t THEN n[t].data \o items ELSE n[r].data
  BY <1>1, PutEffect
<1>3. net' = Put(n, t, items)
  BY DEF n
<1>4. QED BY <1>1, <1>2, <1>3 DEF Unread

-----------------------------------------------------------------------------
(* The inductive invariant.  It follows every item by its place: in Wire,  *)
(* what the application says to the client and through it to the target,   *)
(* and in Answer, what the application hears.  Each queue is the part of   *)
(* one of them between what its reader has taken and its writer has given. *)

\* How many replies the application has received, and how much of Wire it has sent.
Got == IF Len(appGot) < Len(Answers) THEN Len(appGot) ELSE Len(Answers)
Said == Len(Total) - Got - Len(toSend)

\* How much of Wire the client has read, and how much of Answer it has written.
Read == Said - Len(ULocal)
Told == Len(appGot) + Len(DLocal)

\* Where the first frame of the relay begins in Wire, and what the target gets.
Base == IF proto = "socks" THEN 2 ELSE Len(buf)
Start == IF proto = "plain" THEN 0 ELSE Base

\* How much of Wire the server has passed on, and how much of Answer it has fetched.
Passed == Start + Len(targetGot) + Len(URemote)
Fetched == Len(Answers) + targetSent - Len(DRemote)

Types ==
    /\ Kind
    /\ Shape(net)
    /\ opened \subseteq Conns /\ reset \subseteq opened
    /\ ULocal \in Seq(Item) /\ DLocal \in Seq(Item)
    /\ URemote \in Seq(Item) /\ DRemote \in Seq(Item)
    /\ UTunnel \in Seq(Seq(Item)) /\ DTunnel \in Seq(Seq(Item))
    /\ toSend \in Seq(Item) /\ appGot \in Seq(Item) /\ targetGot \in Seq(Item)
    /\ buf \in Seq(Item) /\ payload \in Seq(Item)
    /\ Len(buf) <= BufLen
    /\ cpc \in ClientStates /\ spc \in ServerStates
    /\ running \subseteq Tasks
    /\ cpc # "relay" => running \cap Client = {}
    /\ spc # "relay" => running \cap Server = {}
    /\ targetSent \in 0..DownLen

\* What is left of the script is what the application has not said and not received.
Sending ==
    /\ Said \in 0..Len(Wire)
    /\ IF proto = "eager" THEN Part(Total, toSend, Said, Len(Total) - Got)
                          ELSE Part(Total, toSend, Said + Got, Len(Total))
    /\ proto = "socks" => /\ Got = 0 => Said <= 1
                          /\ Got = 1 => Said \in {1, 2}
                          /\ Got = 2 => Said >= 2
    /\ proto = "connect" => /\ Got = 0 => Said <= headerLen
                            /\ Got = 1 => Said >= headerLen

\* The client's socket and its request buffer hold what was said, and the handshake is at
\* the place that its state names.
ClientReads ==
    /\ Part(Wire, ULocal, Read, Said)
    /\ cpc = "established" => Answered
    /\ proto = "socks" =>
         /\ cpc \notin {"header", "established"}
         /\ cpc = "greeting" => Read = 0
         /\ cpc \in {"method", "request"} => Read = 1
         /\ cpc \in {"success", "dial", "salt", "first"} => Read = 2
         /\ buf = <<>>
    /\ proto # "socks" =>
         /\ cpc \notin {"greeting", "method", "request", "success"}
         /\ Part(Wire, buf, 0, Len(buf))
         /\ cpc \in {"header", "dial", "salt", "first", "established"} => Read = Len(buf)
         /\ cpc \in {"dial", "salt", "first", "established", "relay"} => Len(buf) >= headerLen

\* The application hears the replies that the state names, and not before it said what
\* they answer.
Replying ==
    /\ Part(Answer, appGot, 0, Len(appGot))
    /\ Part(Answer, DLocal, Len(appGot), Told)
    /\ cpc = "relay" => Told >= Len(Answers)
    /\ proto = "socks" =>
         /\ cpc \in {"greeting", "method"} => Told = 0
         /\ cpc \in {"request", "success"} => Told = 1
         /\ cpc \in {"dial", "salt", "first"} => Told = 2
         /\ Told >= 1 => Read >= 1
         /\ Told >= 2 => Read >= 2
    /\ proto # "socks" => (cpc \in {"header", "dial", "salt", "first", "established"} => Told = 0)
    /\ proto = "connect" => (Told >= 1 => Read >= headerLen)

\* The tunnel carries the salt, the address with the first data, and then what the client
\* read behind its request; w of the first two are written, and ReadFrames of them read.
ReadFrames == CASE spc \in {"idle", "salt"} -> 0 [] spc = "first" -> 1 [] OTHER -> 2

First == << <<"address">> >> \o FirstData

Relayed ==
    /\ cpc \in {"established", "relay", "done"}
    /\ proto # "socks" => Len(buf) >= headerLen
    /\ Len(UTunnel) >= 2 - ReadFrames
    /\ ReadFrames < 2 => UTunnel[2 - ReadFrames] = First
    /\ \E hi \in Nat :
         /\ Chain(Wire, UTunnel, 2 - ReadFrames, IF spc = "relay" THEN Passed ELSE Base, hi)
         /\ cpc \in {"established", "relay"} => hi = Read

Written(w) ==
    /\ cpc \in {"established", "relay"} => w = 2
    /\ cpc = "first" => w = 1
    /\ cpc \notin {"first", "established", "relay", "done"} => w = 0
    /\ w < 2 => Len(UTunnel) = w - ReadFrames
    /\ w = 2 => Relayed

TunnelUp == spc # "done" => \E w \in ReadFrames..2 : Written(w)

\* What the target has and what is on its way to it is the part of Wire from Start on.
Delivered ==
    /\ cpc \in {"established", "relay", "done"}
    /\ proto # "socks" => Len(buf) >= headerLen
    /\ Part(Wire, targetGot, Start, Start + Len(targetGot))
    /\ Part(Wire, URemote, Start + Len(targetGot), Passed)
Nothing == targetGot = <<>> /\ URemote = <<>>

RemoteUp ==
    /\ spc \notin {"relay", "done"} => Nothing
    /\ spc \in {"dial", "payload"} => payload = FirstData
    /\ spc = "relay" => Delivered
    /\ spc = "done" => Delivered \/ Nothing

\* The tunnel carries back what the server has fetched and the client has not told.
TunnelDown ==
    cpc # "done" =>
       \E hi \in Nat :
         /\ Chain(Answer, DTunnel, 0, IF cpc = "relay" THEN Told ELSE Len(Answers), hi)
         /\ spc = "relay" => hi = Fetched
         /\ spc \notin {"relay", "done"} => hi = Len(Answers)

RemoteDown ==
    /\ Part(Answer, DRemote, Fetched, Len(Answers) + targetSent)
    /\ spc \notin {"relay", "done"} => Fetched = Len(Answers)

\* A connection carries nothing before it is there.
Opened ==
    /\ "local" \in opened
    /\ UTunnel # <<>> \/ DTunnel # <<>> => "tunnel" \in opened
    /\ URemote # <<>> \/ DRemote # <<>> => "remote" \in opened
    /\ cpc \in {"salt", "first", "established", "relay"} => "tunnel" \in opened
    /\ spc \notin {"idle", "done"} => "tunnel" \in opened
    /\ spc \in {"payload", "relay"} => "remote" \in opened

Lengths ==
    /\ Len(ULocal) <= Capacity /\ Len(DRemote) <= Capacity
    /\ Len(UTunnel) <= Capacity /\ Len(DTunnel) <= Capacity
    /\ Len(URemote) < Capacity + Longest /\ Len(DLocal) < Capacity + Longest

SessionInv ==
    /\ Types /\ Sending /\ ClientReads /\ Replying
    /\ TunnelUp /\ RemoteUp /\ TunnelDown /\ RemoteDown
    /\ Opened /\ Lengths

-----------------------------------------------------------------------------
(* What a step leaves alone it keeps.                                      *)

Kept == UNCHANGED <<proto, headerLen>>

LEMMA SameScript ==
    ASSUME Kept
    PROVE  /\ Wire' = Wire /\ Total' = Total /\ Answers' = Answers /\ Answer' = Answer
           /\ Answered' = Answered /\ Kind' = Kind /\ (Len(Answers))' = Len(Answers)
BY DEF Kept, Wire, Asked, Total, Answers, Answer, Answered, Kind

\* The handler's and the server's state stay, or it has returned.
Settled == cpc' \in {cpc, "done"} /\ spc' \in {spc, "done"}

\* The same, or the handler has answered a CONNECT.
Onward ==
    /\ cpc' \in {cpc, "done"} \/ (cpc = "established" /\ cpc' = "relay")
    /\ spc' \in {spc, "done"}

LEMMA SendingSame ==
    ASSUME Kept, Sending, UNCHANGED <<toSend, appGot>>
    PROVE  Sending' /\ Said' = Said /\ Got' = Got
BY SameScript DEF Kept, Sending, Said, Got

LEMMA ClientReadsSame ==
    ASSUME Kept, ClientReads, UNCHANGED buf, Said' = Said, Read' = Read, ULocal' = ULocal, cpc' \in {cpc, "done"}
    PROVE  ClientReads'
<1>1. Part(Wire', ULocal', Read', Said') /\ (proto' # "socks" => Part(Wire', buf', 0, Len(buf')))
  BY SameScript DEF ClientReads, Kept
<1>2. CASE cpc' = "done"
  BY <1>1, <1>2 DEF ClientReads, Kept
<1>3. CASE cpc' = cpc
  BY <1>1, <1>3, SameScript DEF ClientReads, Kept
<1>4. QED BY <1>2, <1>3

LEMMA ReplyingSame ==
    ASSUME Kept, Replying, UNCHANGED appGot, DLocal' = DLocal, Read' = Read, cpc' \in {cpc, "done"}
    PROVE  Replying' /\ Told' = Told
<1>0. Told' = Told
  BY DEF Told
<1>1. Part(Answer', appGot', 0, Len(appGot')) /\ Part(Answer', DLocal', Len(appGot'), Told')
  BY <1>0, SameScript DEF Replying, Kept
<1>2. CASE cpc' = "done"
  BY <1>0, <1>1, <1>2 DEF Replying, Kept
<1>3. CASE cpc' = cpc
  BY <1>0, <1>1, <1>3, SameScript DEF Replying, Kept
<1>4. QED BY <1>0, <1>2, <1>3

LEMMA TunnelUpOnward ==
    ASSUME Kept, TunnelUp, UNCHANGED buf, Onward, UTunnel' = UTunnel,
           cpc \in {"established", "relay"} => Read' = Read, spc = "relay" => Passed' = Passed
    PROVE  TunnelUp'
<1> SUFFICES ASSUME spc' # "done" PROVE \E w \in ReadFrames'..2 : Written(w)'
  BY DEF TunnelUp
<1>1. spc' = spc /\ spc # "done" /\ ReadFrames' = ReadFrames
  BY DEF Onward, ReadFrames
<1>2. PICK w \in ReadFrames..2 : Written(w)
  BY <1>1 DEF TunnelUp
<1>3. ASSUME Relayed PROVE Relayed'
  <2>1. First' = First /\ Base' = Base
    BY DEF First, FirstData, Base, Kept
  <2>2. PICK hi \in Nat :
         /\ Chain(Wire, UTunnel, 2 - ReadFrames, IF spc = "relay" THEN Passed ELSE Base, hi)
         /\ cpc \in {"established", "relay"} => hi = Read
    BY <1>3 DEF Relayed
  <2>3. Chain(Wire', UTunnel', 2 - ReadFrames', IF spc' = "relay" THEN Passed' ELSE Base', hi)
    BY <1>1, <2>1, <2>2, SameScript
  <2>4. cpc' \in {"established", "relay"} => hi = Read'
    BY <2>2 DEF Onward
  <2>5. cpc' \in {"established", "relay", "done"}
    BY <1>3 DEF Relayed, Onward
  <2>6. QED BY <1>1, <1>3, <2>1, <2>3, <2>4, <2>5 DEF Relayed, Kept
<1>4. CASE cpc' = "done"
  BY <1>1, <1>2, <1>3, <1>4 DEF Written
<1>5. CASE cpc' = cpc
  BY <1>1, <1>2, <1>3, <1>5 DEF Written
<1>6. CASE cpc = "established" /\ cpc' = "relay"
  BY <1>1, <1>2, <1>3, <1>6 DEF Written
<1>7. QED BY <1>4, <1>5, <1>6 DEF Onward

LEMMA TunnelUpSame ==
    ASSUME Kept, TunnelUp, UNCHANGED buf, Settled, UTunnel' = UTunnel,
           cpc \in {"established", "relay"} => Read' = Read, spc = "relay" => Passed' = Passed
    PROVE  TunnelUp'
<1>1. Onward
  BY DEF Settled, Onward
<1>2. QED BY <1>1, TunnelUpOnward

LEMMA RemoteUpOnward ==
    ASSUME Kept, RemoteUp, UNCHANGED <<buf, targetGot, payload>>, Onward, URemote' = URemote
    PROVE  RemoteUp' /\ Passed' = Passed
<1>1. FirstData' = FirstData /\ Start' = Start /\ Passed' = Passed /\ Nothing' = Nothing
  BY DEF FirstData, Start, Base, Passed, Nothing, Kept
<1>2. ASSUME Delivered PROVE Delivered'
  BY <1>1, <1>2, SameScript DEF Delivered, Onward, Kept
<1>3. CASE spc' = spc
  BY <1>1, <1>2, <1>3 DEF RemoteUp
<1>4. CASE spc' = "done"
  BY <1>1, <1>2, <1>4 DEF RemoteUp, ServerStates
<1>5. QED BY <1>1, <1>3, <1>4 DEF Onward

LEMMA RemoteUpSame ==
    ASSUME Kept, RemoteUp, UNCHANGED <<buf, targetGot, payload>>, Settled, URemote' = URemote
    PROVE  RemoteUp' /\ Passed' = Passed
<1>1. Onward
  BY DEF Settled, Onward
<1>2. QED BY <1>1, RemoteUpOnward

LEMMA TunnelDownSame ==
    ASSUME Kept, TunnelDown, Settled, DTunnel' = DTunnel,
           cpc = "relay" => Told' = Told, spc = "relay" => Fetched' = Fetched
    PROVE  TunnelDown'
<1> SUFFICES ASSUME cpc' # "done"
             PROVE  \E hi \in Nat :
                      /\ Chain(Answer', DTunnel', 0, IF cpc' = "relay" THEN Told' ELSE (Len(Answers))', hi)
                      /\ spc' = "relay" => hi = Fetched'
                      /\ spc' \notin {"relay", "done"} => hi = (Len(Answers))'
  BY DEF TunnelDown
<1>1. cpc' = cpc /\ cpc # "done"
  BY DEF Settled
<1>2. PICK hi \in Nat :
         /\ Chain(Answer, DTunnel, 0, IF cpc = "relay" THEN Told ELSE Len(Answers), hi)
         /\ spc = "relay" => hi = Fetched
         /\ spc \notin {"relay", "done"} => hi = Len(Answers)
  BY <1>1 DEF TunnelDown
<1>3. Chain(Answer', DTunnel', 0, IF cpc' = "relay" THEN Told' ELSE (Len(Answers))', hi)
  BY <1>1, <1>2, SameScript
<1>4. QED BY <1>2, <1>3, SameScript DEF Settled

LEMMA RemoteDownSame ==
    ASSUME Kept, RemoteDown, Settled, DRemote' = DRemote, UNCHANGED targetSent
    PROVE  RemoteDown' /\ Fetched' = Fetched
<1>1. Fetched' = Fetched
  BY SameScript DEF Fetched
<1>2. QED BY <1>1, SameScript DEF RemoteDown, Settled

LEMMA OpenedSame ==
    ASSUME Opened, Settled, UNCHANGED opened,
           UTunnel' # <<>> \/ DTunnel' # <<>> => "tunnel" \in opened,
           URemote' # <<>> \/ DRemote' # <<>> => "remote" \in opened
    PROVE  Opened'
BY DEF Opened, Settled

-----------------------------------------------------------------------------
(* Steps that carry nothing.                                               *)

Carried == <<toSend, appGot, buf, payload, targetGot, targetSent, opened>>

\* A step that only ends something, or changes what is not looked at here, keeps the invariant.
LEMMA QuietStep ==
    ASSUME SessionInv, Kept, Settled, Queues' = Queues, UNCHANGED Carried, Shape(net'),
           reset' \subseteq opened, running' \subseteq running,
           cpc' # cpc => running' \cap Client = {}, spc' # spc => running' \cap Server = {}
    PROVE  SessionInv'
<1>1. /\ ULocal' = ULocal /\ DLocal' = DLocal /\ UTunnel' = UTunnel /\ DTunnel' = DTunnel
      /\ URemote' = URemote /\ DRemote' = DRemote
  BY DEF Queues
<1>2. /\ UNCHANGED <<toSend, appGot>> /\ UNCHANGED buf /\ UNCHANGED appGot /\ UNCHANGED targetSent
      /\ UNCHANGED <<buf, targetGot, payload>> /\ UNCHANGED opened
  BY DEF Carried
<1>3. /\ Types /\ Sending /\ ClientReads /\ Replying /\ TunnelUp /\ RemoteUp /\ TunnelDown
      /\ RemoteDown /\ Opened /\ Lengths
  BY DEF SessionInv
<1>4. Types'
  <2>1. cpc' \in ClientStates /\ spc' \in ServerStates
    BY <1>3 DEF Types, Settled, ClientStates, ServerStates
  <2>2. running' \subseteq Tasks
    BY <1>3 DEF Types
  <2>3. cpc' # "relay" => running' \cap Client = {}
    BY <1>3 DEF Types, Settled
  <2>4. spc' # "relay" => running' \cap Server = {}
    BY <1>3 DEF Types, Settled
  <2>5. Kind'
    BY <1>3, SameScript DEF Types
  <2>6. QED BY <1>1, <1>2, <1>3, <2>1, <2>2, <2>3, <2>4, <2>5 DEF Types
<1>5. Sending' /\ Said' = Said
  BY <1>2, <1>3, SendingSame
<1>6. Read' = Read
  BY <1>1, <1>5 DEF Read
<1>7. cpc' \in {cpc, "done"}
  BY DEF Settled
<1>8. ClientReads'
  BY <1>1, <1>2, <1>3, <1>5, <1>6, <1>7, ClientReadsSame
<1>9. Replying' /\ Told' = Told
  BY <1>1, <1>2, <1>3, <1>6, <1>7, ReplyingSame
<1>10. RemoteUp' /\ Passed' = Passed
  BY <1>1, <1>2, <1>3, RemoteUpSame
<1>11. TunnelUp'
  BY <1>1, <1>2, <1>3, <1>6, <1>10, TunnelUpSame
<1>12. RemoteDown' /\ Fetched' = Fetched
  BY <1>1, <1>2, <1>3, RemoteDownSame
<1>13. TunnelDown'
  BY <1>1, <1>3, <1>9, <1>12, TunnelDownSame
<1>14. Opened'
  BY <1>1, <1>2, <1>3, OpenedSame DEF Opened
<1>15. Lengths'
  BY <1>1, <1>3 DEF Lengths
<1>16. QED BY <1>4, <1>5, <1>8, <1>9, <1>10, <1>11, <1>12, <1>13, <1>14, <1>15 DEF SessionInv

\* The queues stay when what is unread does.
LEMMA QueuesSame ==
    ASSUME \A s \in Streams : net'[s].data = net[s].data PROVE Queues' = Queues
BY StreamNames DEF Queues, ULocal, DLocal, UTunnel, DTunnel, URemote, DRemote, Unread

\* The application, the target and the network: shutting down, closing and resetting.
LEMMA EndingSteps ==
    ASSUME SessionInv,
           \/ AppShutdown \/ AppDrops \/ TargetShutdown \/ TargetDrops
           \/ \E s \in Streams : Refuse(s)
           \/ \E c \in Conns : Break(c)
    PROVE  SessionInv'
<1>0. Shape(net) /\ reset \subseteq opened /\ Opened
  BY DEF SessionInv, Types
<1>1. ASSUME NEW s \in Streams, net' = Shut(net, s), UNCHANGED <<opened, reset, appVars, clientVars, serverVars, running, targetVars>>
      PROVE  SessionInv'
  <2>1. Shape(net') /\ \A r \in Streams : net'[r].data = net[r].data
    BY <1>0, <1>1, ShutEffect
  <2>2. Queues' = Queues
    BY <2>1, QueuesSame
  <2>3. Kept /\ Settled /\ UNCHANGED Carried /\ reset' \subseteq opened /\ running' = running
        /\ cpc' = cpc /\ spc' = spc
    BY <1>0, <1>1 DEF Kept, Settled, Carried, appVars, clientVars, serverVars, targetVars
  <2>4. QED BY <2>1, <2>2, <2>3, QuietStep
<1>2. ASSUME NEW reads, NEW writes, net' = Closed(net, reads, writes), UNCHANGED <<opened, reset, appVars, clientVars, serverVars, running, targetVars>>
      PROVE  SessionInv'
  <2>1. Shape(net') /\ \A r \in Streams : net'[r].data = net[r].data
    BY <1>0, <1>2, ClosedEffect
  <2>2. Queues' = Queues
    BY <2>1, QueuesSame
  <2>3. Kept /\ Settled /\ UNCHANGED Carried /\ reset' \subseteq opened /\ running' = running
        /\ cpc' = cpc /\ spc' = spc
    BY <1>0, <1>2 DEF Kept, Settled, Carried, appVars, clientVars, serverVars, targetVars
  <2>4. QED BY <2>1, <2>2, <2>3, QuietStep
<1>3. ASSUME UNCHANGED <<opened, net, appVars, clientVars, serverVars, running, targetVars>>, reset' \subseteq opened
      PROVE  SessionInv'
  <2>1. Shape(net') /\ Queues' = Queues
    BY <1>0, <1>3, QueuesSame
  <2>2. Kept /\ Settled /\ UNCHANGED Carried /\ running' = running /\ cpc' = cpc /\ spc' = spc
    BY <1>3 DEF Kept, Settled, Carried, appVars, clientVars, serverVars, targetVars
  <2>3. QED BY <1>3, <2>1, <2>2, QuietStep
<1>4. Up("local") \in Streams /\ Down("remote") \in Streams
  BY StreamNames
<1>5. CASE AppShutdown
  BY <1>1, <1>4, <1>5 DEF AppShutdown
<1>6. CASE AppDrops
  BY <1>2, <1>6 DEF AppDrops
<1>7. CASE TargetShutdown
  BY <1>1, <1>4, <1>7 DEF TargetShutdown
<1>8. CASE TargetDrops
  BY <1>2, <1>8 DEF TargetDrops
<1>9. ASSUME NEW s \in Streams, Refuse(s) PROVE SessionInv'
  <2>1. Unread(s) # <<>> => s[1] \in opened
    <3>1. /\ Up("local")[1] = "local" /\ Down("local")[1] = "local" /\ Up("tunnel")[1] = "tunnel"
          /\ Down("tunnel")[1] = "tunnel" /\ Up("remote")[1] = "remote" /\ Down("remote")[1] = "remote"
      BY DEF Up, Down
    <3>2. s \in {Up("local"), Down("local"), Up("tunnel"), Down("tunnel"), Up("remote"), Down("remote")}
      BY StreamNames
    <3>3. QED BY <1>0, <3>1, <3>2 DEF Opened, UTunnel, DTunnel, URemote, DRemote
  <2>2. reset' \subseteq opened
    BY <1>0, <1>9, <2>1 DEF Refuse
  <2>3. QED BY <1>3, <1>9, <2>2 DEF Refuse
<1>10. ASSUME NEW c \in Conns, Break(c) PROVE SessionInv'
  BY <1>0, <1>3, <1>10 DEF Break
<1>11. QED BY <1>5, <1>6, <1>7, <1>8, <1>9, <1>10

\* The handler of the client or the server returns.
LEMMA ReturningSteps ==
    ASSUME SessionInv, ClientReturns \/ ServerReturns PROVE SessionInv'
<1>0. Shape(net) /\ reset \subseteq opened
  BY DEF SessionInv, Types
<1>1. CASE ClientReturns
  <2>1. Shape(net') /\ \A r \in Streams : net'[r].data = net[r].data
    BY <1>0, <1>1, ClosedEffect DEF ClientReturns
  <2>2. Queues' = Queues
    BY <2>1, QueuesSame
  <2>3. Kept /\ Settled /\ UNCHANGED Carried /\ reset' \subseteq opened /\ running' = running \ Client
        /\ spc' = spc
    BY <1>0, <1>1 DEF ClientReturns, Kept, Settled, Carried, appVars, serverVars, targetVars
  <2>4. QED BY <2>1, <2>2, <2>3, QuietStep
<1>2. CASE ServerReturns
  <2>1. Shape(net') /\ \A r \in Streams : net'[r].data = net[r].data
    BY <1>0, <1>2, ClosedEffect DEF ServerReturns
  <2>2. Queues' = Queues
    BY <2>1, QueuesSame
  <2>3. Kept /\ Settled /\ UNCHANGED Carried /\ reset' \subseteq opened /\ running' = running \ Server
        /\ cpc' = cpc
    BY <1>0, <1>2 DEF ServerReturns, Kept, Settled, Carried, appVars, clientVars, targetVars
  <2>4. QED BY <2>1, <2>2, <2>3, QuietStep
<1>3. QED BY <1>1, <1>2

\* A relay task ends.
LEMMA TaskEndsStep ==
    ASSUME SessionInv, NEW t \in Tasks, TaskEnds(t) PROVE SessionInv'
<1>0. Shape(net) /\ reset \subseteq opened
  BY DEF SessionInv, Types
<1>1. Kept /\ UNCHANGED Carried /\ reset' \subseteq opened /\ running' \subseteq running
  BY <1>0 DEF TaskEnds, Kept, Carried, appVars, targetVars
<1>2. CASE LastTask(t)
  <2>1. Shape(net') /\ \A r \in Streams : net'[r].data = net[r].data
    BY <1>0, <1>2, ClosedEffect DEF TaskEnds
  <2>2. Queues' = Queues
    BY <2>1, QueuesSame
  <2>3. /\ running' = running \ Side(t)
        /\ cpc' = IF t \in Client THEN "done" ELSE cpc
        /\ spc' = IF t \in Server THEN "done" ELSE spc
    BY <1>2 DEF TaskEnds
  <2>4. t \in Client => Side(t) = Client
    BY DEF Side
  <2>5. t \in Server => Side(t) = Server
    BY DEF Side, Client, Server
  <2>6. Settled /\ (cpc' # cpc => running' \cap Client = {}) /\ (spc' # spc => running' \cap Server = {})
    BY <2>3, <2>4, <2>5 DEF Settled
  <2>7. QED BY <1>1, <2>1, <2>2, <2>6, QuietStep
<1>3. CASE ~LastTask(t)
  <2>1. Out[t] \in Streams
    BY StreamNames DEF Out, Tasks, Client, Server
  <2>2. net' = Shut(net, Out[t]) /\ cpc' = cpc /\ spc' = spc
    BY <1>3 DEF TaskEnds, HalfClosed
  <2>3. Shape(net') /\ \A r \in Streams : net'[r].data = net[r].data
    BY <1>0, <2>1, <2>2, ShutEffect
  <2>4. Queues' = Queues
    BY <2>3, QueuesSame
  <2>5. Settled
    BY <2>2 DEF Settled
  <2>6. QED BY <1>1, <2>2, <2>3, <2>4, <2>5, QuietStep
<1>4. QED BY <1>2, <1>3

-----------------------------------------------------------------------------
(* The application speaks.                                                 *)

LEMMA Counted ==
    ASSUME Types
    PROVE  /\ Kind /\ Len(toSend) \in Nat /\ Len(appGot) \in Nat /\ Len(buf) \in Nat
           /\ Len(targetGot) \in Nat /\ Len(ULocal) \in Nat /\ Len(DLocal) \in Nat
           /\ Len(URemote) \in Nat /\ Len(DRemote) \in Nat /\ Len(UTunnel) \in Nat
           /\ Len(DTunnel) \in Nat /\ Len(Wire) \in Nat /\ Len(Answers) \in Nat
           /\ Len(Total) = Len(Wire) + Len(Answers) /\ Len(Answer) = Len(Answers) + DownLen
           /\ Got \in 0..Len(Answers) /\ Got <= Len(appGot)
           /\ Base \in Nat /\ Start \in Nat /\ Told \in Nat /\ targetSent \in Nat
<1>1. Kind /\ Len(toSend) \in Nat /\ Len(appGot) \in Nat /\ Len(buf) \in Nat
  BY DEF Types
<1>2. Len(targetGot) \in Nat /\ Len(ULocal) \in Nat /\ Len(DLocal) \in Nat
  BY DEF Types
<1>3. Len(URemote) \in Nat /\ Len(DRemote) \in Nat /\ Len(UTunnel) \in Nat /\ Len(DTunnel) \in Nat
  BY DEF Types
<1>4. Wire \in Seq(Item) /\ Answers \in Seq(Item) /\ Len(Total) = Len(Wire) + Len(Answers)
  BY <1>1, WireIs, AnswersAre, TotalIs
<1>5. Len(Wire) \in Nat /\ Len(Answers) \in Nat
  BY <1>4
<1>6. Got \in 0..Len(Answers) /\ Got <= Len(appGot)
  BY <1>1, <1>5 DEF Got
<1>7. Base \in Nat /\ Start \in Nat /\ Told \in Nat
  BY <1>1, <1>2 DEF Base, Start, Told
<1>8. targetSent \in Nat
  BY Numbers DEF Types
<1>9. Len(Answer) = Len(Answers) + DownLen
  BY <1>1, AnswerIs
<1>10. QED BY <1>1, <1>2, <1>3, <1>4, <1>5, <1>6, <1>7, <1>8, <1>9

\* What the application sends next is what comes next in Wire.
LEMMA SaysNext ==
    ASSUME Types, Sending, toSend # <<>>, Head(toSend) \notin Replies
    PROVE  /\ Said < Len(Wire) /\ Head(toSend) = Wire[Said + 1]
           /\ proto = "socks" => /\ Got = 0 => Said = 0
                                 /\ Got = 1 => Said = 1
           /\ proto = "connect" /\ Got = 0 => Said < headerLen
           /\ IF proto = "eager" THEN Part(Total, Tail(toSend), Said + 1, Len(Total) - Got)
                                 ELSE Part(Total, Tail(toSend), (Said + 1) + Got, Len(Total))
<1>1. /\ Kind /\ Len(toSend) \in Nat /\ Len(Wire) \in Nat /\ Got \in 0..Len(Answers)
      /\ Len(Total) = Len(Wire) + Len(Answers)
  BY Counted
<1>2. Said \in Nat /\ Said <= Len(Wire)
  BY <1>1 DEF Sending
<1>3. Total \in Seq(Item)
  BY <1>1, TotalIs
<1>4. Got \in Nat /\ Len(Answers) \in Nat
  BY Counted
<1>5. CASE proto = "eager"
  <2>1. Part(Total, toSend, Said, Len(Total) - Got)
    BY <1>5 DEF Sending
  <2>2. /\ Head(toSend) = Total[Said + 1] /\ Said + 1 <= Len(Total) - Got
        /\ Part(Total, Tail(toSend), Said + 1, Len(Total) - Got)
    BY <1>3, <2>1, PartTail
  <2>3. Total[Len(Wire) + 1] = <<"established">> /\ \A i \in 1..Len(Wire) : Total[i] = Wire[i]
    BY <1>1, <1>5, TotalIs
  <2>4. Said # Len(Wire)
    BY <2>2, <2>3 DEF Replies
  <2>5. Said + 1 \in 1..Len(Wire)
    BY <1>1, <1>2, <2>4
  <2>6. QED BY <1>1, <1>2, <1>5, <2>2, <2>3, <2>5
<1>6. ASSUME proto # "eager"
      PROVE  /\ Head(toSend) = Total[Said + Got + 1] /\ Said + Got + 1 <= Len(Total)
             /\ Part(Total, Tail(toSend), (Said + 1) + Got, Len(Total))
  <2>1. Part(Total, toSend, Said + Got, Len(Total))
    BY <1>6 DEF Sending
  <2> DEFINE lo == Said + Got
  <2> HIDE DEF lo
  <2>2. /\ Head(toSend) = Total[lo + 1] /\ lo + 1 <= Len(Total)
        /\ Part(Total, Tail(toSend), lo + 1, Len(Total))
    BY <1>3, <2>1, PartTail DEF lo
  <2>3. lo + 1 = (Said + 1) + Got /\ lo + 1 = Said + Got + 1
    BY <1>2, <1>4 DEF lo
  <2>4. QED BY <2>2, <2>3
<1>7. CASE proto = "plain"
  <2>1. Total = Wire /\ Len(Answers) = 0
    BY <1>1, <1>7, TotalIs, AnswersAre
  <2>2. Got = 0 /\ Said + Got + 1 = Said + 1
    BY <1>1, <1>2, <2>1
  <2>3. QED BY <1>1, <1>2, <1>6, <1>7, <2>1, <2>2
<1>8. CASE proto = "connect"
  <2>1. /\ Len(Answers) = 1 /\ Total[headerLen + 1] = <<"established">>
        /\ \A i \in 1..headerLen : Total[i] = Wire[i]
        /\ \A i \in (headerLen + 1)..Len(Wire) : Total[i + 1] = Wire[i]
    BY <1>1, <1>8, TotalIs, AnswersAre DEF Answered
  <2>2. headerLen \in Nat /\ headerLen >= 2 /\ Len(Wire) >= headerLen
    BY <1>1, <1>8, Numbers, WireIs
  <2>3. CASE Got = 0
    <3>1. Said <= headerLen
      BY <1>8, <2>3 DEF Sending
    <3>2. Said # headerLen
      <4> SUFFICES ASSUME Said = headerLen PROVE FALSE
        OBVIOUS
      <4>1. Said + Got + 1 = headerLen + 1
        BY <2>2, <2>3
      <4>2. Head(toSend) = <<"established">>
        BY <1>6, <1>8, <2>1, <4>1
      <4>3. QED BY <4>2 DEF Replies
    <3>3. Said + 1 \in 1..headerLen /\ Said + Got + 1 = Said + 1
      BY <1>2, <2>2, <2>3, <3>1, <3>2
    <3>4. QED BY <1>1, <1>2, <1>6, <1>8, <2>1, <2>2, <2>3, <3>3
  <2>4. CASE Got = 1
    <3>1. Said >= headerLen
      BY <1>8, <2>4 DEF Sending
    <3>2. Said + Got + 1 = (Said + 1) + 1 /\ Said + 1 \in (headerLen + 1)..Len(Wire)
      BY <1>1, <1>2, <1>6, <1>8, <2>1, <2>2, <2>4, <3>1
    <3>3. QED BY <1>1, <1>2, <1>6, <1>8, <2>1, <2>2, <2>4, <3>2
  <2>5. Got = 0 \/ Got = 1
    BY <1>1, <2>1
  <2>6. QED BY <2>3, <2>4, <2>5
<1>9. CASE proto = "socks"
  <2>1. /\ Len(Answers) = 2 /\ Total[1] = Wire[1] /\ Total[2] = <<"method">>
        /\ Total[3] = Wire[2] /\ Total[4] = <<"success">>
        /\ \A i \in 3..Len(Wire) : Total[i + 2] = Wire[i]
    BY <1>1, <1>9, TotalIs, AnswersAre
  <2>2. Len(Wire) >= 2
    <3>1. Len(Wire) = Len(Asked) + UpLen /\ Len(Asked) = 2
      BY <1>1, <1>9, WireIs
    <3>2. QED BY <3>1, Numbers
  <2>3. CASE Got = 0
    <3>1. Said \in {0, 1}
      BY <1>2, <1>9, <2>3 DEF Sending
    <3>2. Said # 1
      <4> SUFFICES ASSUME Said = 1 PROVE FALSE
        OBVIOUS
      <4>1. Said + Got + 1 = 2
        BY <2>3
      <4>2. Head(toSend) = <<"method">>
        BY <1>6, <1>9, <2>1, <4>1
      <4>3. QED BY <4>2 DEF Replies
    <3>3. Said = 0 /\ Said + 1 = 1 /\ Said + Got + 1 = 1
      BY <2>3, <3>1, <3>2
    <3>4. QED BY <1>1, <1>6, <1>9, <2>1, <2>2, <2>3, <3>3
  <2>4. CASE Got = 1
    <3>1. Said \in {1, 2}
      BY <1>9, <2>4 DEF Sending
    <3>2. Said # 2
      <4> SUFFICES ASSUME Said = 2 PROVE FALSE
        OBVIOUS
      <4>1. Said + Got + 1 = 4
        BY <2>4
      <4>2. Head(toSend) = <<"success">>
        BY <1>6, <1>9, <2>1, <4>1
      <4>3. QED BY <4>2 DEF Replies
    <3>3. Said = 1 /\ Said + 1 = 2 /\ Said + Got + 1 = 3
      BY <2>4, <3>1, <3>2
    <3>4. QED BY <1>1, <1>6, <1>9, <2>1, <2>2, <2>4, <3>3
  <2>5. CASE Got = 2
    <3>1. Said >= 2
      BY <1>9, <2>5 DEF Sending
    <3>2. Said + Got + 1 = (Said + 1) + 2 /\ Said + 1 \in 3..Len(Wire)
      BY <1>1, <1>2, <1>6, <1>9, <2>1, <2>2, <2>5, <3>1
    <3>3. QED BY <1>1, <1>2, <1>6, <1>9, <2>1, <2>5, <3>2
  <2>6. Got = 0 \/ Got = 1 \/ Got = 2
    BY <1>1, <2>1
  <2>7. QED BY <2>3, <2>4, <2>5, <2>6
<1>10. QED BY <1>1, <1>5, <1>7, <1>8, <1>9, Numbers

\* The application sends an item.
LEMMA AppSendStep ==
    ASSUME SessionInv, AppSend PROVE SessionInv'
<1> DEFINE x == Head(toSend)
<1>1. /\ Types /\ Sending /\ ClientReads /\ Replying /\ TunnelUp /\ RemoteUp /\ TunnelDown
      /\ RemoteDown /\ Opened /\ Lengths
  BY DEF SessionInv
<1>2. /\ toSend # <<>> /\ x \notin Replies /\ toSend' = Tail(toSend)
      /\ net' = Put(net, Up("local"), <<x>>) /\ Len(ULocal) < Capacity
  BY DEF AppSend, CanSend, Writable, ULocal
<1>3. /\ Kept /\ Settled /\ cpc' = cpc /\ spc' = spc
      /\ UNCHANGED <<buf, payload, targetGot, targetSent, appGot, opened, reset, running>>
  BY DEF AppSend, Kept, Settled, clientVars, serverVars, targetVars
<1>4. /\ Said < Len(Wire) /\ x = Wire[Said + 1]
      /\ proto = "socks" => /\ Got = 0 => Said = 0
                            /\ Got = 1 => Said = 1
      /\ proto = "connect" /\ Got = 0 => Said < headerLen
      /\ IF proto = "eager" THEN Part(Total, toSend', Said + 1, Len(Total) - Got)
                            ELSE Part(Total, toSend', (Said + 1) + Got, Len(Total))
  BY <1>1, <1>2, SaysNext
<1> HIDE DEF x
<1>5. /\ Shape(net') /\ ULocal' = ULocal \o <<x>> /\ DLocal' = DLocal /\ UTunnel' = UTunnel
      /\ DTunnel' = DTunnel /\ URemote' = URemote /\ DRemote' = DRemote
  BY <1>1, <1>2, NetPut, StreamNames DEF Types, ULocal, DLocal, UTunnel, DTunnel, URemote, DRemote
<1>6. Len(toSend') = Len(toSend) - 1 /\ toSend' \in Seq(Item)
  BY <1>1, <1>2 DEF Types
<1>7. /\ Kind /\ Len(toSend) \in Nat /\ Len(Total) \in Nat /\ Got \in Nat /\ Len(Wire) \in Nat
      /\ Len(ULocal) \in Nat /\ Wire \in Seq(Item) /\ Said \in Nat
  BY <1>1, Counted, WireIs, TotalIs DEF Sending
<1>8. Got' = Got /\ Said' = Said + 1
  <2>1. Got' = Got
    BY <1>3, SameScript DEF Got
  <2>2. (Len(Total))' = Len(Total)
    BY <1>3, SameScript
  <2>3. QED BY <1>6, <1>7, <2>1, <2>2 DEF Said
<1>9. Sending'
  <2>1. Said' \in 0..Len(Wire')
    BY <1>3, <1>4, <1>7, <1>8, SameScript
  <2>2. IF proto' = "eager" THEN Part(Total', toSend', Said', Len(Total') - Got')
                            ELSE Part(Total', toSend', Said' + Got', Len(Total'))
    BY <1>3, <1>4, <1>8, SameScript DEF Kept
  <2>3. proto' = "socks" => /\ Got' = 0 => Said' <= 1
                            /\ Got' = 1 => Said' \in {1, 2}
                            /\ Got' = 2 => Said' >= 2
    BY <1>1, <1>3, <1>4, <1>7, <1>8 DEF Kept, Sending
  <2>4. proto' = "connect" => /\ Got' = 0 => Said' <= headerLen'
                              /\ Got' = 1 => Said' >= headerLen'
    <3>1. proto = "connect" => headerLen \in Nat
      BY <1>7, Numbers
    <3>2. QED BY <1>1, <1>3, <1>4, <1>7, <1>8, <3>1 DEF Kept, Sending
  <2>5. QED BY <2>1, <2>2, <2>3, <2>4 DEF Sending
<1>10. Part(Wire, ULocal', Read, Said + 1) /\ Len(ULocal') = Len(ULocal) + 1
       /\ ULocal' \in Seq(Item)
  <2>1. Part(Wire, ULocal, Read, Said)
    BY <1>1 DEF ClientReads
  <2>2. Part(Wire, Append(ULocal, x), Read, Said + 1) /\ Append(ULocal, x) = ULocal \o <<x>>
    BY <1>4, <1>7, <2>1, PartAdd
  <2>3. ULocal' = Append(ULocal, x)
    BY <1>5, <2>2
  <2>4. x \in Item
    BY <1>4, <1>7
  <2>5. Append(ULocal, x) \in Seq(Item) /\ Len(Append(ULocal, x)) = Len(ULocal) + 1
    BY <1>1, <2>4 DEF Types
  <2>6. QED BY <2>2, <2>3, <2>5
<1>11. Read' = Read
  BY <1>7, <1>8, <1>10 DEF Read
<1>12. Types'
  <2>1. Kind'
    BY <1>1, <1>3, SameScript DEF Types
  <2>2. QED BY <1>1, <1>3, <1>5, <1>6, <1>10, <2>1 DEF Types
<1>13. ClientReads'
  BY <1>1, <1>3, <1>8, <1>10, <1>11, SameScript DEF ClientReads, Kept
<1>14. Replying' /\ Told' = Told
  BY <1>1, <1>3, <1>5, <1>11, ReplyingSame
<1>15. RemoteUp' /\ Passed' = Passed
  BY <1>1, <1>3, <1>5, RemoteUpSame
<1>16. TunnelUp'
  BY <1>1, <1>3, <1>5, <1>11, <1>15, TunnelUpSame
<1>17. RemoteDown' /\ Fetched' = Fetched
  BY <1>1, <1>3, <1>5, RemoteDownSame
<1>18. TunnelDown'
  BY <1>1, <1>3, <1>5, <1>14, <1>17, TunnelDownSame
<1>19. Opened'
  BY <1>1, <1>3, <1>5, OpenedSame DEF Opened
<1>20. Lengths'
  BY <1>1, <1>2, <1>5, <1>7, <1>10, Numbers DEF Lengths
<1>21. QED BY <1>9, <1>12, <1>13, <1>14, <1>15, <1>16, <1>17, <1>18, <1>19, <1>20 DEF SessionInv

-----------------------------------------------------------------------------
(* The application hears.                                                  *)

\* Taking an item out of a sequence that holds it once.
LEMMA RemovedAt ==
    ASSUME NEW s \in Seq(Item), NEW x, NEW k \in 1..Len(s), s[k] = x, \A i \in 1..(k - 1) : s[i] # x
    PROVE  RemoveFirst(s, x) = SubSeq(s, 1, k - 1) \o SubSeq(s, k + 1, Len(s))
<1> DEFINE I == {i \in 1..Len(s) : s[i] = x}
<1>1. k \in I /\ \A y \in I : k <= y /\ y \in Nat
  OBVIOUS
<1>2. Min(I) \in I /\ \A y \in I : Min(I) <= y
  BY <1>1 DEF Min
<1>3. Min(I) = k
  BY <1>1, <1>2
<1>4. SelectInSeq(s, LAMBDA v : v = x) = k
  BY <1>1, <1>3 DEF SelectInSeq
<1>5. \E i \in 1..Len(s) : s[i] = x
  OBVIOUS
<1>6. RemoveFirst(s, x) = RemoveAt(s, SelectInSeq(s, LAMBDA v : v = x))
  BY <1>5, Zenon DEF RemoveFirst
<1>7. QED BY <1>4, <1>6 DEF RemoveAt

LEMMA HeadRemoved ==
    ASSUME NEW s \in Seq(Item), NEW x, s # <<>>, s[1] = x
    PROVE  RemoveFirst(s, x) = Tail(s)
<1>1. 1 \in 1..Len(s) /\ \A i \in 1..(1 - 1) : s[i] # x
  OBVIOUS
<1> DEFINE k == 1
<1> HIDE DEF k
<1>2. RemoveFirst(s, x) = SubSeq(s, 1, k - 1) \o SubSeq(s, k + 1, Len(s))
  BY <1>1, RemovedAt DEF k
<1>3. SubSeq(s, 1, k - 1) = <<>> /\ SubSeq(s, k + 1, Len(s)) = Tail(s) /\ Tail(s) \in Seq(Item)
  BY DEF k
<1> DEFINE q == Tail(s)
<1>4. q \in Seq(Item)
  BY <1>3
<1> HIDE DEF q
<1>5. <<>> \o q = q
  BY <1>4
<1>6. QED BY <1>2, <1>3, <1>5 DEF q

LEMMA LastRemoved ==
    ASSUME NEW s \in Seq(Item), NEW x, s # <<>>, s[Len(s)] = x, \A i \in 1..(Len(s) - 1) : s[i] # x
    PROVE  RemoveFirst(s, x) = SubSeq(s, 1, Len(s) - 1)
<1>1. Len(s) \in 1..Len(s) /\ Len(s) \in Nat
  OBVIOUS
<1> DEFINE k == Len(s)
<1>2. SubSeq(s, k + 1, Len(s)) = <<>> /\ SubSeq(s, 1, k - 1) \in Seq(Item)
  BY <1>1
<1>3. RemoveFirst(s, x) = SubSeq(s, 1, k - 1) \o SubSeq(s, k + 1, Len(s))
  <2>1. k \in 1..Len(s) /\ s[k] = x /\ \A i \in 1..(k - 1) : s[i] # x
    BY <1>1
  <2> HIDE DEF k
  <2>2. QED BY <2>1, RemovedAt
<1> DEFINE q == SubSeq(s, 1, k - 1)
<1> HIDE DEF q
<1>4. q \o <<>> = q
  BY <1>2 DEF q
<1>5. QED BY <1>2, <1>3, <1>4 DEF q

LEMMA NoneRemoved ==
    ASSUME NEW s \in Seq(Item), NEW x, \A i \in 1..Len(s) : s[i] # x
    PROVE  RemoveFirst(s, x) = s
BY DEF RemoveFirst

\* No data of the target is in the script.
LEMMA TotalItems ==
    ASSUME Kind, NEW i \in 1..Len(Total), NEW j
    PROVE  Total[i] # <<"down", j>>
<1>1. /\ Len(Total) = Len(Wire) + Len(Answers) /\ Len(Wire) \in Nat /\ Len(Answers) \in Nat
      /\ \A k \in 1..Len(Wire) : Wire[k] # <<"down", j>>
  <2>1. Wire \in Seq(Item) /\ Answers \in Seq(Item) /\ Len(Total) = Len(Wire) + Len(Answers)
    BY WireIs, AnswersAre, TotalIs
  <2>2. \A k \in 1..Len(Wire) : Wire[k] # <<"down", j>>
    BY WireItems
  <2>3. QED BY <2>1, <2>2
<1>2. \A w : <<w>> # <<"down", j>>
  BY Different
<1>3. CASE proto = "plain"
  BY <1>1, <1>3, TotalIs, AnswersAre
<1>4. CASE proto = "connect"
  <2>1. /\ Len(Answers) = 1 /\ Total[headerLen + 1] = <<"established">>
        /\ \A k \in 1..headerLen : Total[k] = Wire[k]
        /\ \A k \in (headerLen + 1)..Len(Wire) : Total[k + 1] = Wire[k]
    BY <1>4, TotalIs, AnswersAre DEF Answered
  <2>2. headerLen \in Nat /\ Len(Wire) >= headerLen
    BY <1>4, Numbers, WireIs
  <2>3. CASE i <= headerLen
    BY <1>1, <2>1, <2>2, <2>3
  <2>4. CASE i = headerLen + 1
    BY <1>2, <2>1, <2>4
  <2>5. CASE i > headerLen + 1
    <3>1. i - 1 \in (headerLen + 1)..Len(Wire) /\ (i - 1) + 1 = i /\ i - 1 \in 1..Len(Wire)
      BY <1>1, <2>1, <2>2, <2>5
    <3>2. Total[i] = Wire[i - 1]
      BY <2>1, <3>1
    <3>3. QED BY <1>1, <3>1, <3>2
  <2>6. QED BY <2>2, <2>3, <2>4, <2>5
<1>5. CASE proto = "eager"
  <2>1. /\ Len(Answers) = 1 /\ Total[Len(Wire) + 1] = <<"established">>
        /\ \A k \in 1..Len(Wire) : Total[k] = Wire[k]
    BY <1>5, TotalIs, AnswersAre DEF Answered
  <2>2. i \in 1..Len(Wire) \/ i = Len(Wire) + 1
    BY <1>1, <2>1
  <2>3. QED BY <1>1, <1>2, <2>1, <2>2
<1>6. CASE proto = "socks"
  <2>1. /\ Len(Answers) = 2 /\ Total[1] = Wire[1] /\ Total[2] = <<"method">>
        /\ Total[3] = Wire[2] /\ Total[4] = <<"success">>
        /\ \A k \in 3..Len(Wire) : Total[k + 2] = Wire[k]
    BY <1>6, TotalIs, AnswersAre
  <2>2. Len(Wire) >= 2
    <3>1. Len(Wire) = Len(Asked) + UpLen /\ Len(Asked) = 2
      BY <1>6, WireIs
    <3>2. QED BY <3>1, Numbers
  <2>3. CASE i \in {1, 3}
    BY <1>1, <2>1, <2>2, <2>3
  <2>4. CASE i \in {2, 4}
    BY <1>2, <2>1, <2>4
  <2>5. CASE i > 4
    <3>1. i - 2 \in 3..Len(Wire) /\ (i - 2) + 2 = i /\ i - 2 \in 1..Len(Wire)
      BY <1>1, <2>1, <2>2, <2>5
    <3>2. Total[i] = Wire[i - 2]
      BY <2>1, <3>1
    <3>3. QED BY <1>1, <3>1, <3>2
  <2>6. i \in {1, 3} \/ i \in {2, 4} \/ i > 4
    OBVIOUS
  <2>7. QED BY <2>3, <2>4, <2>5, <2>6
<1>7. QED BY <1>3, <1>4, <1>5, <1>6, Numbers

\* A reply is the one that the application waits for, and it waits no more; data changes
\* nothing in what it has to say.
LEMMA HearsNext ==
    ASSUME Types, Sending, ClientReads, Replying, DLocal # <<>>, NEW x, x = Head(DLocal),
           NEW rest, rest = RemoveFirst(toSend, x)
    PROVE  /\ Len(appGot) + 1 <= Len(Answer) /\ x = Answer[Len(appGot) + 1]
           /\ Part(Answer, Tail(DLocal), Len(appGot) + 1, Told)
           /\ Len(appGot) < Len(Answers) =>
                /\ Got = Len(appGot) /\ Len(rest) = Len(toSend) - 1
                /\ IF proto = "eager" THEN Part(Total, rest, Said, Len(Total) - (Got + 1))
                                      ELSE Part(Total, rest, Said + (Got + 1), Len(Total))
                /\ proto = "socks" => (Got = 0 => Said = 1) /\ (Got = 1 => Said = 2)
                /\ proto = "connect" => Said = headerLen
           /\ Len(appGot) >= Len(Answers) => rest = toSend
<1>1. /\ Kind /\ Len(toSend) \in Nat /\ Len(Wire) \in Nat /\ Got \in 0..Len(Answers)
      /\ Len(Total) = Len(Wire) + Len(Answers) /\ Len(Answers) \in Nat /\ Len(appGot) \in Nat
      /\ Len(Answer) = Len(Answers) + DownLen /\ Told \in Nat /\ Len(ULocal) \in Nat
      /\ Len(DLocal) \in Nat
  BY Counted
<1>2. /\ Said \in Nat /\ Said <= Len(Wire) /\ Got \in Nat /\ Read \in Int /\ Read <= Said
  BY <1>1 DEF Sending, Read
<1>3. Total \in Seq(Item) /\ Answer \in Seq(Item) /\ toSend \in Seq(Item)
  BY <1>1, TotalIs, AnswerIs DEF Types
<1>4. /\ x = Answer[Len(appGot) + 1] /\ Len(appGot) + 1 <= Told
      /\ Part(Answer, Tail(DLocal), Len(appGot) + 1, Told) /\ Told <= Len(Answer)
  <2>1. Part(Answer, DLocal, Len(appGot), Told)
    BY DEF Replying
  <2>2. QED BY <1>3, <2>1, PartTail DEF Part
<1>5. ASSUME Len(appGot) < Len(Answers)
      PROVE  /\ Got = Len(appGot) /\ x = Answers[Got + 1] /\ Told >= Got + 1
             /\ Len(toSend) = Len(Total) - Got - Said /\ toSend # <<>>
  <2>1. Got = Len(appGot)
    BY <1>5 DEF Got
  <2>2. Got + 1 \in 1..Len(Answers)
    BY <1>1, <1>5, <2>1
  <2>3. x = Answers[Got + 1]
    BY <1>1, <1>4, <2>1, <2>2, AnswerIs
  <2>4. Len(toSend) = Len(Total) - Got - Said
    BY <1>1, <1>2 DEF Said
  <2>5. Len(toSend) > 0
    BY <1>1, <1>2, <1>5, <2>1, <2>4
  <2>6. QED BY <1>3, <1>4, <2>1, <2>3, <2>4, <2>5
<1>6. ASSUME Len(appGot) < Len(Answers), proto # "eager", x = Total[Said + Got + 1]
      PROVE  Part(Total, rest, Said + (Got + 1), Len(Total)) /\ Len(rest) = Len(toSend) - 1
  <2>1. Part(Total, toSend, Said + Got, Len(Total))
    BY <1>6 DEF Sending
  <2> DEFINE lo == Said + Got
  <2>2. lo + 1 = Said + (Got + 1) /\ lo + 1 = Said + Got + 1
    BY <1>2
  <2> HIDE DEF lo
  <2>3. toSend # <<>>
    BY <1>5, <1>6
  <2>4. /\ Head(toSend) = Total[lo + 1] /\ Part(Total, Tail(toSend), lo + 1, Len(Total))
    BY <1>3, <2>1, <2>3, PartTail DEF lo
  <2>5. toSend[1] = x
    BY <1>3, <1>6, <2>2, <2>3, <2>4
  <2>6. rest = Tail(toSend)
    BY <1>3, <2>3, <2>5, HeadRemoved
  <2>7. Len(Tail(toSend)) = Len(toSend) - 1
    BY <1>3, <2>3
  <2>8. QED BY <2>2, <2>4, <2>6, <2>7
<1>7. CASE Len(appGot) < Len(Answers) /\ proto = "socks"
  <2>1. /\ Len(Answers) = 2 /\ Answers[1] = <<"method">> /\ Answers[2] = <<"success">>
        /\ Total[2] = <<"method">> /\ Total[4] = <<"success">>
    BY <1>1, <1>7, AnswersAre, TotalIs
  <2>2. CASE Got = 0
    <3>1. Read >= 1
      BY <1>1, <1>5, <1>7, <2>2 DEF Replying
    <3>2. Said = 1
      BY <1>2, <1>7, <2>2, <3>1 DEF Sending
    <3>3. x = Total[Said + Got + 1]
      BY <1>5, <1>7, <2>1, <2>2, <3>2
    <3>4. QED BY <1>1, <1>4, <1>5, <1>6, <1>7, <2>2, <3>2, <3>3
  <2>3. CASE Got = 1
    <3>1. Read >= 2
      BY <1>1, <1>5, <1>7, <2>3 DEF Replying
    <3>2. Said = 2
      BY <1>2, <1>7, <2>3, <3>1 DEF Sending
    <3>3. x = Total[Said + Got + 1]
      BY <1>5, <1>7, <2>1, <2>3, <3>2
    <3>4. QED BY <1>1, <1>4, <1>5, <1>6, <1>7, <2>3, <3>2, <3>3
  <2>4. Got = 0 \/ Got = 1
    BY <1>1, <1>5, <1>7, <2>1
  <2>5. QED BY <2>2, <2>3, <2>4
<1>8. CASE Len(appGot) < Len(Answers) /\ proto = "connect"
  <2>1. /\ Len(Answers) = 1 /\ Answers[1] = <<"established">>
        /\ Total[headerLen + 1] = <<"established">> /\ headerLen \in Nat
    BY <1>1, <1>8, AnswersAre, TotalIs, Numbers DEF Answered
  <2>2. Got = 0
    BY <1>1, <1>5, <1>8, <2>1
  <2>3. Read >= headerLen
    BY <1>1, <1>5, <1>8, <2>2 DEF Replying
  <2>4. Said = headerLen
    BY <1>2, <1>8, <2>1, <2>2, <2>3 DEF Sending
  <2>5. x = Total[Said + Got + 1]
    <3>1. Said + Got + 1 = headerLen + 1
      BY <2>1, <2>2, <2>4
    <3>2. QED BY <1>5, <1>8, <2>1, <2>2, <3>1
  <2>6. QED BY <1>1, <1>4, <1>5, <1>6, <1>8, <2>2, <2>4, <2>5
<1>9. CASE Len(appGot) < Len(Answers) /\ proto = "eager"
  <2>1. /\ Len(Answers) = 1 /\ Answers[1] = <<"established">>
        /\ Total[Len(Wire) + 1] = <<"established">> /\ \A i \in 1..Len(Wire) : Total[i] = Wire[i]
    BY <1>1, <1>9, AnswersAre, TotalIs DEF Answered
  <2>2. Got = 0 /\ x = <<"established">> /\ toSend # <<>> /\ Len(toSend) = Len(Wire) + 1 - Said
    <3>1. Got = 0
      BY <1>1, <1>5, <1>9, <2>1
    <3>2. x = <<"established">>
      BY <1>5, <1>9, <2>1, <3>1
    <3>3. Len(toSend) = Len(Wire) + 1 - Said
      BY <1>1, <1>2, <1>5, <1>9, <2>1, <3>1
    <3>4. QED BY <1>5, <1>9, <3>1, <3>2, <3>3
  <2>3. Part(Total, toSend, Said, Len(Total))
    <3>1. Len(Total) - Got = Len(Total)
      BY <1>1, <2>2
    <3>2. QED BY <1>9, <3>1 DEF Sending
  <2>4. \A i \in 1..Len(toSend) : toSend[i] = Total[Said + i]
    BY <2>3 DEF Part
  <2>5. toSend[Len(toSend)] = x
    <3>1. Len(toSend) \in 1..Len(toSend) /\ Said + Len(toSend) = Len(Wire) + 1
      BY <1>1, <1>2, <1>3, <2>2
    <3>2. QED BY <2>1, <2>2, <2>4, <3>1
  <2>6. \A i \in 1..(Len(toSend) - 1) : toSend[i] # x
    <3> SUFFICES ASSUME NEW i \in 1..(Len(toSend) - 1) PROVE toSend[i] # x
      OBVIOUS
    <3>1. i \in 1..Len(toSend) /\ Said + i \in 1..Len(Wire)
      BY <1>1, <1>2, <2>2
    <3>2. toSend[i] = Wire[Said + i] /\ Wire[Said + i] \notin Replies
      BY <1>1, <2>1, <2>4, <3>1, WireItems
    <3>3. QED BY <2>2, <3>2 DEF Replies
  <2>7. rest = SubSeq(toSend, 1, Len(toSend) - 1)
    BY <1>3, <2>2, <2>5, <2>6, LastRemoved
  <2> DEFINE k == Len(toSend) - 1
  <2>8. k \in 0..Len(toSend) /\ Said + k = Len(Total) - (Got + 1) /\ k = Len(toSend) - 1
    BY <1>1, <1>2, <1>3, <2>1, <2>2
  <2> HIDE DEF k
  <2>9. Part(Total, SubSeq(toSend, 1, k), Said, Said + k)
    BY <1>3, <2>3, <2>8, PartCut
  <2>10. Part(Total, rest, Said, Len(Total) - (Got + 1))
    BY <2>7, <2>8, <2>9
  <2>11. Len(rest) = Len(toSend) - 1
    BY <1>1, <1>2, <2>2, <2>8, <2>10 DEF Part
  <2>12. QED BY <1>1, <1>4, <1>5, <1>9, <2>10, <2>11
<1>10. CASE Len(appGot) >= Len(Answers)
  <2> DEFINE j == Len(appGot) + 1 - Len(Answers)
  <2>1. j \in 1..DownLen /\ Len(Answers) + j = Len(appGot) + 1
    BY <1>1, <1>4, <1>10, Numbers
  <2> HIDE DEF j
  <2>2. x = <<"down", j>>
    BY <1>1, <1>4, <2>1, AnswerIs
  <2>3. \A i \in 1..Len(toSend) : toSend[i] # x
    <3> SUFFICES ASSUME NEW i \in 1..Len(toSend) PROVE toSend[i] # x
      OBVIOUS
    <3>1. \E k \in 1..Len(Total) : toSend[i] = Total[k]
      <4>1. CASE proto = "eager"
        <5>1. Part(Total, toSend, Said, Len(Total) - Got)
          BY <4>1 DEF Sending
        <5>2. Said + i \in 1..Len(Total) /\ toSend[i] = Total[Said + i]
          BY <1>1, <1>2, <5>1 DEF Part
        <5>3. QED BY <5>2
      <4>2. CASE proto # "eager"
        <5>1. Part(Total, toSend, Said + Got, Len(Total))
          BY <4>2 DEF Sending
        <5> DEFINE lo == Said + Got
        <5> HIDE DEF lo
        <5>2. lo \in Nat /\ Len(toSend) = Len(Total) - lo /\ toSend[i] = Total[lo + i]
          BY <5>1 DEF Part, lo
        <5>3. lo + i \in 1..Len(Total)
          BY <1>1, <5>2
        <5>4. QED BY <5>2, <5>3
      <4>3. QED BY <4>1, <4>2
    <3>2. QED BY <1>1, <2>2, <3>1, TotalItems
  <2>4. rest = toSend
    BY <1>3, <2>3, NoneRemoved
  <2>5. QED BY <1>1, <1>4, <1>10, <2>4
<1>11. Len(appGot) < Len(Answers) => Answered \/ proto = "socks"
  BY <1>1, AnswersAre, Numbers DEF Answered
<1>12. QED BY <1>1, <1>7, <1>8, <1>9, <1>10, <1>11 DEF Answered

\* The application receives an item.
LEMMA AppReceiveStep ==
    ASSUME SessionInv, AppReceive PROVE SessionInv'
<1> DEFINE x == Head(DLocal)
<1>1. /\ Types /\ Sending /\ ClientReads /\ Replying /\ TunnelUp /\ RemoteUp /\ TunnelDown
      /\ RemoteDown /\ Opened /\ Lengths
  BY DEF SessionInv
<1>2. /\ DLocal # <<>> /\ appGot' = Append(appGot, x) /\ toSend' = RemoveFirst(toSend, x)
      /\ net' = Took(net, Down("local"), 1)
  BY DEF AppReceive, DLocal
<1>3. /\ Kept /\ Settled /\ cpc' = cpc /\ spc' = spc
      /\ UNCHANGED <<buf, payload, targetGot, targetSent, opened, reset, running>>
  BY DEF AppReceive, Kept, Settled, clientVars, serverVars, targetVars
<1> DEFINE rest == toSend'
<1>4. x = Head(DLocal) /\ rest = RemoveFirst(toSend, x)
  BY <1>2
<1> HIDE DEF x, rest
<1>5. /\ Len(appGot) + 1 <= Len(Answer) /\ x = Answer[Len(appGot) + 1]
      /\ Part(Answer, Tail(DLocal), Len(appGot) + 1, Told)
      /\ Len(appGot) < Len(Answers) =>
           /\ Got = Len(appGot) /\ Len(rest) = Len(toSend) - 1
           /\ IF proto = "eager" THEN Part(Total, rest, Said, Len(Total) - (Got + 1))
                                 ELSE Part(Total, rest, Said + (Got + 1), Len(Total))
           /\ proto = "socks" => (Got = 0 => Said = 1) /\ (Got = 1 => Said = 2)
           /\ proto = "connect" => Said = headerLen
      /\ Len(appGot) >= Len(Answers) => rest = toSend
  BY <1>1, <1>2, <1>4, HearsNext
<1>6. /\ Kind /\ Len(toSend) \in Nat /\ Len(Wire) \in Nat /\ Got \in 0..Len(Answers)
      /\ Len(Total) = Len(Wire) + Len(Answers) /\ Len(Answers) \in Nat /\ Len(appGot) \in Nat
      /\ Len(Answer) = Len(Answers) + DownLen /\ Told \in Nat /\ Len(DLocal) \in Nat
      /\ Answer \in Seq(Item) /\ appGot \in Seq(Item) /\ DLocal \in Seq(Item) /\ Said \in Nat
  BY <1>1, Counted, AnswerIs DEF Types, Sending
<1>7. /\ Shape(net') /\ ULocal' = ULocal /\ DLocal' = SubSeq(DLocal, 1 + 1, Len(DLocal))
      /\ UTunnel' = UTunnel /\ DTunnel' = DTunnel /\ URemote' = URemote /\ DRemote' = DRemote
  BY <1>1, <1>2, NetTook, StreamNames DEF Types, ULocal, DLocal, UTunnel, DTunnel, URemote, DRemote
<1>8. DLocal' = Tail(DLocal) /\ DLocal' \in Seq(Item) /\ Len(DLocal') = Len(DLocal) - 1
  BY <1>2, <1>6, <1>7, OneLess
<1>9. x \in Item /\ appGot' \in Seq(Item) /\ Len(appGot') = Len(appGot) + 1
  <2>1. Len(appGot) + 1 \in 1..Len(Answer)
    BY <1>5, <1>6
  <2>2. x \in Item
    BY <1>5, <1>6, <2>1
  <2>3. QED BY <1>2, <1>6, <2>2
<1>10. Told' = Told
  BY <1>6, <1>8, <1>9 DEF Told
<1>11. (Len(Total))' = Len(Total) /\ (Len(Answers))' = Len(Answers)
  BY <1>3, SameScript
<1>12. Got' = (IF Len(appGot) < Len(Answers) THEN Got + 1 ELSE Got) /\ Said' = Said
  <2>1. CASE Len(appGot) < Len(Answers)
    <3>1. Got' = Got + 1
      BY <1>5, <1>6, <1>9, <1>11, <2>1 DEF Got
    <3>2. Len(toSend') = Len(toSend) - 1
      BY <1>5, <2>1 DEF rest
    <3>3. QED BY <1>6, <1>11, <2>1, <3>1, <3>2 DEF Said
  <2>2. CASE Len(appGot) >= Len(Answers)
    <3>1. Got' = Got
      BY <1>6, <1>9, <1>11, <2>2 DEF Got
    <3>2. toSend' = toSend
      BY <1>5, <2>2 DEF rest
    <3>3. QED BY <1>6, <1>11, <2>2, <3>1, <3>2 DEF Said
  <2>3. QED BY <1>6, <2>1, <2>2
<1>13. Sending' /\ toSend' \in Seq(Item)
  <2>1. Said' \in 0..Len(Wire')
    BY <1>1, <1>3, <1>12, SameScript DEF Sending
  <2>2. CASE Len(appGot) < Len(Answers)
    <3>0. Got' = Got + 1
      BY <1>12, <2>2
    <3>1. IF proto' = "eager" THEN Part(Total', toSend', Said', Len(Total') - Got')
                              ELSE Part(Total', toSend', Said' + Got', Len(Total'))
      BY <1>3, <1>5, <1>12, <2>2, <3>0, SameScript DEF Kept, rest
    <3>2. proto' = "socks" => /\ Got' = 0 => Said' <= 1
                              /\ Got' = 1 => Said' \in {1, 2}
                              /\ Got' = 2 => Said' >= 2
      BY <1>3, <1>5, <1>6, <1>12, <2>2, <3>0 DEF Kept
    <3>3. proto' = "connect" => /\ Got' = 0 => Said' <= headerLen'
                                /\ Got' = 1 => Said' >= headerLen'
      BY <1>3, <1>5, <1>6, <1>12, <2>2, <3>0 DEF Kept
    <3>4. toSend' \in Seq(Item)
      BY <3>1 DEF Part
    <3>5. QED BY <2>1, <3>1, <3>2, <3>3, <3>4 DEF Sending
  <2>3. CASE Len(appGot) >= Len(Answers)
    <3>0. Got' = Got /\ toSend' = toSend
      BY <1>5, <1>6, <1>12, <2>3 DEF rest
    <3>1. IF proto' = "eager" THEN Part(Total', toSend', Said', Len(Total') - Got')
                              ELSE Part(Total', toSend', Said' + Got', Len(Total'))
      BY <1>1, <1>3, <1>12, <3>0, SameScript DEF Kept, Sending
    <3>2. QED BY <1>1, <1>3, <1>12, <2>1, <3>0, <3>1 DEF Kept, Sending, Types
  <2>4. QED BY <1>6, <2>2, <2>3
<1>14. Types'
  <2>1. Kind'
    BY <1>1, <1>3, SameScript DEF Types
  <2>2. QED BY <1>1, <1>3, <1>7, <1>8, <1>9, <1>13, <2>1 DEF Types
<1>15. Read' = Read
  BY <1>7, <1>12 DEF Read
<1>16. ClientReads'
  BY <1>1, <1>3, <1>7, <1>12, <1>15, ClientReadsSame
<1>17. Replying'
  <2>1. Part(Answer, appGot', 0, Len(appGot'))
    <3>1. Part(Answer, appGot, 0, Len(appGot)) /\ Len(appGot) < Len(Answer)
      BY <1>1, <1>5, <1>6, Numbers DEF Replying
    <3>2. Part(Answer, Append(appGot, x), 0, Len(appGot) + 1)
      BY <1>5, <1>6, <3>1, PartAdd
    <3>3. QED BY <1>2, <1>9, <3>2
  <2>2. Part(Answer, DLocal', Len(appGot'), Told')
    BY <1>5, <1>8, <1>9, <1>10
  <2>3. Part(Answer', appGot', 0, Len(appGot')) /\ Part(Answer', DLocal', Len(appGot'), Told')
    BY <1>3, <2>1, <2>2, SameScript
  <2>4. QED BY <1>1, <1>3, <1>10, <1>11, <1>15, <2>3 DEF Replying, Kept
<1>18. RemoteUp' /\ Passed' = Passed
  BY <1>1, <1>3, <1>7, RemoteUpSame
<1>19. TunnelUp'
  BY <1>1, <1>3, <1>7, <1>15, <1>18, TunnelUpSame
<1>20. RemoteDown' /\ Fetched' = Fetched
  BY <1>1, <1>3, <1>7, RemoteDownSame
<1>21. TunnelDown'
  BY <1>1, <1>3, <1>7, <1>10, <1>20, TunnelDownSame
<1>22. Opened'
  BY <1>1, <1>3, <1>7, OpenedSame DEF Opened
<1>23. Lengths'
  <2>1. Len(DLocal') < Capacity + Longest
    BY <1>1, <1>6, <1>8, Numbers DEF Lengths, Longest
  <2>2. QED BY <1>1, <1>7, <2>1 DEF Lengths
<1>24. QED BY <1>13, <1>14, <1>16, <1>17, <1>18, <1>19, <1>20, <1>21, <1>22, <1>23 DEF SessionInv

-----------------------------------------------------------------------------
(* The target.                                                             *)

LEMMA TargetReceiveStep ==
    ASSUME SessionInv, TargetReceive PROVE SessionInv'
<1> DEFINE x == Head(URemote)
<1>1. /\ Types /\ Sending /\ ClientReads /\ Replying /\ TunnelUp /\ RemoteUp /\ TunnelDown
      /\ RemoteDown /\ Opened /\ Lengths
  BY DEF SessionInv
<1>2. /\ URemote # <<>> /\ targetGot' = Append(targetGot, x) /\ net' = Took(net, Up("remote"), 1)
  BY DEF TargetReceive, URemote
<1>3. /\ Kept /\ Settled /\ cpc' = cpc /\ spc' = spc
      /\ UNCHANGED <<toSend, appGot, buf, payload, targetSent, opened, reset, running>>
  BY DEF TargetReceive, Kept, Settled, appVars, clientVars, serverVars
<1>4. /\ Shape(net') /\ ULocal' = ULocal /\ DLocal' = DLocal /\ UTunnel' = UTunnel
      /\ DTunnel' = DTunnel /\ URemote' = SubSeq(URemote, 1 + 1, Len(URemote)) /\ DRemote' = DRemote
  BY <1>1, <1>2, NetTook, StreamNames DEF Types, ULocal, DLocal, UTunnel, DTunnel, URemote, DRemote
<1>5. URemote \in Seq(Item) /\ targetGot \in Seq(Item) /\ Wire \in Seq(Item) /\ Start \in Nat
      /\ Len(targetGot) \in Nat /\ Len(URemote) \in Nat /\ Kind
  BY <1>1, Counted, WireIs DEF Types
<1>6. URemote' = Tail(URemote) /\ URemote' \in Seq(Item) /\ Len(URemote') = Len(URemote) - 1
  BY <1>2, <1>4, <1>5, OneLess
<1>7. Delivered /\ spc \in {"relay", "done"}
  BY <1>1, <1>2 DEF RemoteUp, Nothing
<1>8. x \in Item /\ targetGot' \in Seq(Item) /\ Len(targetGot') = Len(targetGot) + 1
  BY <1>2, <1>5, OneLess
<1>9. Start' = Start
  BY <1>3 DEF Start, Base, Kept
<1>10. Passed' = Passed
  BY <1>5, <1>6, <1>8, <1>9 DEF Passed
<1>11. /\ x = Wire[Start + Len(targetGot) + 1] /\ Start + Len(targetGot) < Len(Wire)
       /\ Part(Wire, Tail(URemote), Start + Len(targetGot) + 1, Passed)
  <2> DEFINE mid == Start + Len(targetGot)
  <2>1. Part(Wire, URemote, mid, Passed)
    BY <1>7 DEF Delivered
  <2>2. mid \in Nat
    BY <1>5
  <2> HIDE DEF mid
  <2>3. x = Wire[mid + 1] /\ mid + 1 <= Passed /\ Part(Wire, Tail(URemote), mid + 1, Passed)
    BY <1>2, <1>5, <2>1, PartTail
  <2>4. Passed <= Len(Wire) /\ Passed \in Nat /\ Len(Wire) \in Nat
    BY <1>5, <2>1 DEF Part
  <2>5. QED BY <2>2, <2>3, <2>4 DEF mid
<1>12. Part(Wire, targetGot', Start, Start + Len(targetGot'))
  <2> DEFINE mid == Start + Len(targetGot)
  <2>1. Part(Wire, targetGot, Start, mid) /\ mid < Len(Wire) /\ x = Wire[mid + 1]
    BY <1>7, <1>11 DEF Delivered
  <2>2. mid + 1 = Start + Len(targetGot')
    BY <1>5, <1>8
  <2> HIDE DEF mid, x
  <2>3. Part(Wire, Append(targetGot, x), Start, mid + 1)
    BY <1>5, <2>1, PartAdd
  <2>4. QED BY <1>2, <2>2, <2>3
<1>13. Part(Wire, URemote', Start + Len(targetGot'), Passed)
  <2>1. Start + Len(targetGot') = Start + Len(targetGot) + 1
    BY <1>5, <1>8
  <2>2. QED BY <1>6, <1>11, <2>1
<1>14. Delivered'
  BY <1>3, <1>7, <1>9, <1>10, <1>12, <1>13, SameScript DEF Delivered, Kept
<1>15. RemoteUp'
  BY <1>3, <1>7, <1>14 DEF RemoteUp
<1>16. Types'
  <2>1. Kind'
    BY <1>1, <1>3, SameScript DEF Types
  <2>2. QED BY <1>1, <1>3, <1>4, <1>6, <1>8, <2>1 DEF Types
<1>17. Sending' /\ Said' = Said
  BY <1>1, <1>3, SendingSame
<1>18. Read' = Read
  BY <1>4, <1>17 DEF Read
<1>19. ClientReads'
  BY <1>1, <1>3, <1>4, <1>17, <1>18, ClientReadsSame
<1>20. Replying' /\ Told' = Told
  BY <1>1, <1>3, <1>4, <1>18, ReplyingSame
<1>21. TunnelUp'
  BY <1>1, <1>3, <1>4, <1>18, <1>10, TunnelUpSame
<1>22. RemoteDown' /\ Fetched' = Fetched
  BY <1>1, <1>3, <1>4, RemoteDownSame
<1>23. TunnelDown'
  BY <1>1, <1>3, <1>4, <1>20, <1>22, TunnelDownSame
<1>24. Opened'
  BY <1>1, <1>2, <1>3, <1>4, OpenedSame DEF Opened
<1>25. Lengths'
  <2>1. Len(URemote') < Capacity + Longest
    BY <1>1, <1>5, <1>6, Numbers DEF Lengths, Longest
  <2>2. QED BY <1>1, <1>4, <2>1 DEF Lengths
<1>26. QED BY <1>15, <1>16, <1>17, <1>19, <1>20, <1>21, <1>22, <1>23, <1>24, <1>25 DEF SessionInv

LEMMA TargetSendStep ==
    ASSUME SessionInv, TargetSend PROVE SessionInv'
<1> DEFINE x == DownData[targetSent + 1]
<1>1. /\ Types /\ Sending /\ ClientReads /\ Replying /\ TunnelUp /\ RemoteUp /\ TunnelDown
      /\ RemoteDown /\ Opened /\ Lengths
  BY DEF SessionInv
<1>2. /\ "remote" \in opened /\ targetSent < DownLen /\ targetSent' = targetSent + 1
      /\ net' = Put(net, Down("remote"), <<x>>) /\ Len(DRemote) < Capacity
  BY DEF TargetSend, Writable, DRemote
<1>3. /\ Kept /\ Settled /\ cpc' = cpc /\ spc' = spc
      /\ UNCHANGED <<toSend, appGot, buf, payload, targetGot, opened, reset, running>>
  BY DEF TargetSend, Kept, Settled, appVars, clientVars, serverVars
<1>4. /\ Kind /\ targetSent \in Nat /\ Len(Answers) \in Nat /\ Len(DRemote) \in Nat /\ Answer \in Seq(Item)
      /\ DRemote \in Seq(Item) /\ Len(Answer) = Len(Answers) + DownLen
  BY <1>1, Counted, AnswerIs DEF Types
<1>5. targetSent + 1 \in 1..DownLen /\ targetSent' \in 0..DownLen
  BY <1>2, <1>4, Numbers
<1>6. x \in Item /\ x = Answer[Len(Answers) + (targetSent + 1)]
  BY <1>4, <1>5, AnswerIs
<1> HIDE DEF x
<1>7. /\ Shape(net') /\ ULocal' = ULocal /\ DLocal' = DLocal /\ UTunnel' = UTunnel
      /\ DTunnel' = DTunnel /\ URemote' = URemote /\ DRemote' = DRemote \o <<x>>
  BY <1>1, <1>2, NetPut, StreamNames DEF Types, ULocal, DLocal, UTunnel, DTunnel, URemote, DRemote
<1>8. /\ Part(Answer, DRemote', Fetched, Len(Answers) + targetSent') /\ DRemote' \in Seq(Item)
      /\ Len(DRemote') = Len(DRemote) + 1
  <2> DEFINE mid == Len(Answers) + targetSent
  <2>1. Part(Answer, DRemote, Fetched, mid)
    BY <1>1 DEF RemoteDown
  <2>2. mid < Len(Answer) /\ mid + 1 = Len(Answers) + targetSent' /\ mid + 1 = Len(Answers) + (targetSent + 1)
    BY <1>2, <1>4, Numbers
  <2> HIDE DEF mid
  <2>3. Part(Answer, Append(DRemote, x), Fetched, mid + 1) /\ Append(DRemote, x) = DRemote \o <<x>>
    BY <1>4, <1>6, <2>1, <2>2, PartAdd
  <2>4. Append(DRemote, x) \in Seq(Item) /\ Len(Append(DRemote, x)) = Len(DRemote) + 1
    BY <1>4, <1>6
  <2>5. QED BY <1>7, <2>2, <2>3, <2>4
<1>9. Fetched' = Fetched
  <2>1. (Len(Answers))' = Len(Answers)
    BY <1>3, SameScript
  <2>2. QED BY <1>2, <1>4, <1>8, <2>1 DEF Fetched
<1>10. RemoteDown'
  BY <1>1, <1>3, <1>8, <1>9, SameScript DEF RemoteDown
<1>11. Types'
  <2>1. Kind'
    BY <1>1, <1>3, SameScript DEF Types
  <2>2. QED BY <1>1, <1>3, <1>5, <1>7, <1>8, <2>1 DEF Types
<1>12. Sending' /\ Said' = Said
  BY <1>1, <1>3, SendingSame
<1>13. Read' = Read
  BY <1>7, <1>12 DEF Read
<1>14. ClientReads'
  BY <1>1, <1>3, <1>7, <1>12, <1>13, ClientReadsSame
<1>15. Replying' /\ Told' = Told
  BY <1>1, <1>3, <1>7, <1>13, ReplyingSame
<1>16. RemoteUp' /\ Passed' = Passed
  BY <1>1, <1>3, <1>7, RemoteUpSame
<1>17. TunnelUp'
  BY <1>1, <1>3, <1>7, <1>13, <1>16, TunnelUpSame
<1>18. TunnelDown'
  BY <1>1, <1>3, <1>7, <1>15, <1>9, TunnelDownSame
<1>19. Opened'
  BY <1>1, <1>2, <1>3, <1>7, OpenedSame DEF Opened
<1>20. Lengths'
  BY <1>1, <1>2, <1>4, <1>7, <1>8, Numbers DEF Lengths
<1>21. QED BY <1>10, <1>11, <1>12, <1>14, <1>15, <1>16, <1>17, <1>18, <1>19, <1>20 DEF SessionInv

-----------------------------------------------------------------------------
(* The client up to its salt.                                              *)

Early == {"greeting", "method", "request", "success", "header", "dial", "salt"}

\* While the client has sent nothing, the server has got nothing.
LEMMA EarlyServer ==
    ASSUME SessionInv, cpc \in Early \cup {"first"}
    PROVE  /\ Nothing /\ spc \in {"idle", "salt", "first", "done"}
           /\ cpc \in Early => spc # "first"
<1>1. Types /\ TunnelUp /\ RemoteUp
  BY DEF SessionInv
<1>2. ~Delivered
  BY DEF Delivered, Early
<1>3. Nothing /\ spc # "relay"
  BY <1>1, <1>2 DEF RemoteUp
<1>4. CASE spc = "done"
  BY <1>3, <1>4
<1>5. CASE spc # "done"
  <2>1. PICK w \in ReadFrames..2 : Written(w)
    BY <1>1, <1>5 DEF TunnelUp
  <2>2. w = IF cpc = "first" THEN 1 ELSE 0
    BY <2>1 DEF Written, Early
  <2>3. ReadFrames \in {0, 1, 2}
    BY DEF ReadFrames
  <2>4. ReadFrames <= IF cpc = "first" THEN 1 ELSE 0
    BY <2>1, <2>2, <2>3
  <2>5. spc \in ServerStates
    BY <1>1 DEF Types
  <2>6. spc \in {"idle", "salt", "first"} /\ (cpc # "first" => spc # "first")
    BY <1>5, <2>4, <2>5 DEF ReadFrames, ServerStates
  <2>7. QED BY <1>3, <2>6 DEF Early
<1>6. QED BY <1>4, <1>5

\* Before it relays, the client takes nothing from the tunnel.
LEMMA EarlyDown ==
    ASSUME Kept, TunnelDown, cpc \notin {"relay", "done"}, cpc' \notin {"relay", "done"},
           spc \notin {"relay"} \/ Fetched' = Fetched, UNCHANGED spc, DTunnel' = DTunnel
    PROVE  TunnelDown'
<1> SUFFICES \E hi \in Nat :
               /\ Chain(Answer', DTunnel', 0, IF cpc' = "relay" THEN Told' ELSE (Len(Answers))', hi)
               /\ spc' = "relay" => hi = Fetched'
               /\ spc' \notin {"relay", "done"} => hi = (Len(Answers))'
  BY DEF TunnelDown
<1>1. PICK hi \in Nat :
        /\ Chain(Answer, DTunnel, 0, Len(Answers), hi)
        /\ spc = "relay" => hi = Fetched
        /\ spc \notin {"relay", "done"} => hi = Len(Answers)
  BY DEF TunnelDown
<1>2. Chain(Answer', DTunnel', 0, (Len(Answers))', hi)
  BY <1>1, SameScript
<1>3. QED BY <1>1, <1>2, SameScript

LEMMA EarlyStep ==
    ASSUME SessionInv, Kept, cpc \in Early, cpc' \in Early,
           UNCHANGED <<spc, payload, targetGot, targetSent>>,
           UTunnel' = UTunnel, DTunnel' = DTunnel, URemote' = URemote, DRemote' = DRemote
    PROVE  TunnelUp' /\ RemoteUp' /\ TunnelDown' /\ RemoteDown'
<1>1. /\ Types /\ TunnelUp /\ RemoteUp /\ TunnelDown /\ RemoteDown
  BY DEF SessionInv
<1>2. Nothing /\ spc \in {"idle", "salt", "done"}
  BY EarlyServer
<1>3. RemoteUp'
  BY <1>2 DEF RemoteUp, Nothing
<1>4. RemoteDown' /\ Fetched' = Fetched
  <2>1. Fetched' = Fetched
    BY SameScript DEF Fetched
  <2>2. QED BY <1>1, <2>1, SameScript DEF RemoteDown
<1>5. TunnelUp'
  <2> SUFFICES ASSUME spc' # "done" PROVE \E w \in ReadFrames'..2 : Written(w)'
    BY DEF TunnelUp
  <2>1. ReadFrames' = ReadFrames
    BY DEF ReadFrames
  <2>2. PICK w \in ReadFrames..2 : Written(w)
    BY <1>1 DEF TunnelUp
  <2>3. w = 0
    BY <2>2 DEF Written, Early
  <2>4. Written(w)'
    BY <2>1, <2>2, <2>3 DEF Written, Early
  <2>5. QED BY <2>1, <2>4
<1>6. TunnelDown'
  BY <1>1, <1>4, EarlyDown DEF Early
<1>7. QED BY <1>3, <1>4, <1>5, <1>6

\* The client reads a message of the SOCKS handshake.
LEMMA SocksReadsStep ==
    ASSUME SessionInv, NEW message, NEW next, SocksReads(message, next),
           \/ message = "greeting" /\ next = "method"
           \/ message = "request" /\ next = "success"
    PROVE  SessionInv'
<1>1. /\ Types /\ Sending /\ ClientReads /\ Replying /\ TunnelUp /\ RemoteUp /\ TunnelDown
      /\ RemoteDown /\ Opened /\ Lengths
  BY DEF SessionInv
<1>2. /\ ULocal # <<>> /\ cpc = message /\ cpc' = next /\ net' = Took(net, Up("local"), 1)
  BY DEF SocksReads, ULocal
<1>3. /\ Kept
      /\ UNCHANGED <<toSend, appGot, buf, spc, payload, targetGot, targetSent, opened, reset, running>>
  BY DEF SocksReads, Kept, appVars, serverVars, targetVars
<1>4. /\ Shape(net') /\ ULocal' = SubSeq(ULocal, 1 + 1, Len(ULocal)) /\ DLocal' = DLocal
      /\ UTunnel' = UTunnel /\ DTunnel' = DTunnel /\ URemote' = URemote /\ DRemote' = DRemote
  BY <1>1, <1>2, NetTook, StreamNames DEF Types, ULocal, DLocal, UTunnel, DTunnel, URemote, DRemote
<1>5. ULocal \in Seq(Item) /\ Len(ULocal) \in Nat /\ Wire \in Seq(Item) /\ Kind /\ Said \in Nat
  BY <1>1, Counted, WireIs DEF Types, Sending
<1>6. ULocal' = Tail(ULocal) /\ ULocal' \in Seq(Item) /\ Len(ULocal') = Len(ULocal) - 1
  BY <1>2, <1>4, <1>5, OneLess
<1>7. proto = "socks"
  BY <1>1, <1>2 DEF ClientReads
<1>8. Sending' /\ Said' = Said
  BY <1>1, <1>3, SendingSame
<1>9. Read' = Read + 1 /\ Read \in Int
  BY <1>5, <1>6, <1>8 DEF Read
<1>10. Part(Wire, ULocal', Read + 1, Said)
  <2>1. Part(Wire, ULocal, Read, Said)
    BY <1>1 DEF ClientReads
  <2>2. QED BY <1>2, <1>5, <1>6, <2>1, PartTail
<1>11. ClientReads'
  <2>1. Part(Wire', ULocal', Read', Said')
    BY <1>3, <1>8, <1>9, <1>10, SameScript
  <2>2. QED BY <1>1, <1>2, <1>3, <1>7, <1>9, <2>1 DEF ClientReads, Kept
<1>12. Replying'
  <2>1. Told' = Told
    BY <1>3, <1>4 DEF Told
  <2>2. Part(Answer', appGot', 0, Len(appGot')) /\ Part(Answer', DLocal', Len(appGot'), Told')
    BY <1>1, <1>3, <1>4, <2>1, SameScript DEF Replying
  <2>3. QED BY <1>1, <1>2, <1>3, <1>7, <1>9, <2>1, <2>2 DEF Replying, Kept
<1>13. Types'
  <2>1. Kind'
    BY <1>1, <1>3, SameScript DEF Types
  <2>2. cpc' \in ClientStates /\ running' \cap Client = {}
    BY <1>1, <1>2, <1>3 DEF Types, ClientStates
  <2>3. QED BY <1>1, <1>3, <1>4, <1>6, <2>1, <2>2 DEF Types
<1>14. TunnelUp' /\ RemoteUp' /\ TunnelDown' /\ RemoteDown'
  BY <1>2, <1>3, <1>4, EarlyStep DEF Early
<1>15. Opened'
  BY <1>1, <1>2, <1>3, <1>4 DEF Opened
<1>16. Lengths'
  BY <1>1, <1>4, <1>5, <1>6, Numbers DEF Lengths
<1>17. QED BY <1>8, <1>11, <1>12, <1>13, <1>14, <1>15, <1>16 DEF SessionInv

\* The client writes a reply of the SOCKS handshake.
LEMMA SocksWritesStep ==
    ASSUME SessionInv, NEW reply, NEW next, SocksWrites(reply, next),
           \/ reply = "method" /\ next = "request"
           \/ reply = "success" /\ next = "dial"
    PROVE  SessionInv'
<1> DEFINE x == <<reply>>
<1>1. /\ Types /\ Sending /\ ClientReads /\ Replying /\ TunnelUp /\ RemoteUp /\ TunnelDown
      /\ RemoteDown /\ Opened /\ Lengths
  BY DEF SessionInv
<1>2. /\ cpc = reply /\ cpc' = next /\ net' = Put(net, Down("local"), <<x>>) /\ Len(DLocal) < Capacity
  BY DEF SocksWrites, Writable, DLocal
<1>3. /\ Kept
      /\ UNCHANGED <<toSend, appGot, buf, spc, payload, targetGot, targetSent, opened, reset, running>>
  BY DEF SocksWrites, Kept, appVars, serverVars, targetVars
<1>4. /\ Shape(net') /\ ULocal' = ULocal /\ DLocal' = DLocal \o <<x>> /\ UTunnel' = UTunnel
      /\ DTunnel' = DTunnel /\ URemote' = URemote /\ DRemote' = DRemote
  BY <1>1, <1>2, NetPut, StreamNames DEF Types, ULocal, DLocal, UTunnel, DTunnel, URemote, DRemote
<1>5. /\ DLocal \in Seq(Item) /\ Len(DLocal) \in Nat /\ Answer \in Seq(Item) /\ Kind /\ Told \in Nat
      /\ Len(Answers) \in Nat /\ Len(Answer) = Len(Answers) + DownLen
  BY <1>1, Counted, AnswerIs DEF Types
<1>6. proto = "socks"
  BY <1>1, <1>2 DEF ClientReads
<1>7. /\ Len(Answers) = 2 /\ Answer[1] = <<"method">> /\ Answer[2] = <<"success">>
  <2>1. Len(Answers) = 2 /\ Answers[1] = <<"method">> /\ Answers[2] = <<"success">>
    BY <1>5, <1>6, AnswersAre
  <2>2. 1 \in 1..Len(Answers) /\ 2 \in 1..Len(Answers)
    BY <2>1
  <2>3. QED BY <1>5, <2>1, <2>2, AnswerIs
<1>8. x \in Item
  BY WordsAre DEF Words
<1>9. x = Answer[Told + 1] /\ Told < Len(Answer)
  <2>1. CASE reply = "method"
    <3>1. Told = 0
      BY <1>1, <1>2, <1>6, <2>1 DEF Replying
    <3>2. QED BY <1>5, <1>7, <2>1, <3>1, Numbers
  <2>2. CASE reply = "success"
    <3>1. Told = 1
      BY <1>1, <1>2, <1>6, <2>2 DEF Replying
    <3>2. QED BY <1>5, <1>7, <2>2, <3>1, Numbers
  <2>3. QED BY <2>1, <2>2
<1> HIDE DEF x
<1>10. /\ Part(Answer, DLocal', Len(appGot), Told + 1) /\ DLocal' \in Seq(Item)
       /\ Len(DLocal') = Len(DLocal) + 1
  <2>1. Part(Answer, DLocal, Len(appGot), Told)
    BY <1>1 DEF Replying
  <2>2. Part(Answer, Append(DLocal, x), Len(appGot), Told + 1) /\ Append(DLocal, x) = DLocal \o <<x>>
    BY <1>5, <1>9, <2>1, PartAdd
  <2>3. Append(DLocal, x) \in Seq(Item) /\ Len(Append(DLocal, x)) = Len(DLocal) + 1
    BY <1>5, <1>8
  <2>4. QED BY <1>4, <2>2, <2>3
<1>11. Told' = Told + 1
  <2>1. Len(appGot) \in Nat
    BY <1>1, Counted
  <2>2. QED BY <1>3, <1>5, <1>10, <2>1 DEF Told
<1>12. Sending' /\ Said' = Said
  BY <1>1, <1>3, SendingSame
<1>13. Read' = Read
  BY <1>4, <1>12 DEF Read
<1>14. ClientReads'
  <2>1. Part(Wire', ULocal', Read', Said')
    BY <1>1, <1>3, <1>4, <1>12, <1>13, SameScript DEF ClientReads
  <2>2. QED BY <1>1, <1>2, <1>3, <1>6, <1>13, <2>1 DEF ClientReads, Kept
<1>15. Replying'
  <2>1. Part(Answer', appGot', 0, Len(appGot')) /\ Part(Answer', DLocal', Len(appGot'), Told')
    BY <1>1, <1>3, <1>10, <1>11, SameScript DEF Replying
  <2>2. (Told = 0 /\ Read = 1) \/ (Told = 1 /\ Read = 2)
    <3>1. cpc = "method" => Told = 0 /\ Read = 1
      BY <1>1, <1>6 DEF Replying, ClientReads
    <3>2. cpc = "success" => Told = 1 /\ Read = 2
      BY <1>1, <1>6 DEF Replying, ClientReads
    <3>3. QED BY <1>2, <3>1, <3>2
  <2>3. QED BY <1>1, <1>2, <1>3, <1>6, <1>11, <1>13, <2>1, <2>2 DEF Replying, Kept
<1>16. Types'
  <2>1. Kind'
    BY <1>1, <1>3, SameScript DEF Types
  <2>2. cpc' \in ClientStates /\ running' \cap Client = {}
    BY <1>1, <1>2, <1>3 DEF Types, ClientStates
  <2>3. QED BY <1>1, <1>3, <1>4, <1>10, <2>1, <2>2 DEF Types
<1>17. TunnelUp' /\ RemoteUp' /\ TunnelDown' /\ RemoteDown'
  BY <1>2, <1>3, <1>4, EarlyStep DEF Early
<1>18. Opened'
  BY <1>1, <1>2, <1>3, <1>4 DEF Opened
<1>19. Lengths'
  <2>1. Len(DLocal') < Capacity + Longest
    BY <1>2, <1>5, <1>10, Numbers DEF Longest
  <2>2. QED BY <1>1, <1>4, <2>1 DEF Lengths
<1>20. QED BY <1>12, <1>14, <1>15, <1>16, <1>17, <1>18, <1>19 DEF SessionInv

\* The client reads some of an HTTP request.
LEMMA HttpReadsStep ==
    ASSUME SessionInv, HttpReads PROVE SessionInv'
<1>1. /\ Types /\ Sending /\ ClientReads /\ Replying /\ TunnelUp /\ RemoteUp /\ TunnelDown
      /\ RemoteDown /\ Opened /\ Lengths
  BY DEF SessionInv
<1>2. PICK k \in 1..Len(ULocal) :
        /\ Len(buf) + k <= BufLen
        /\ buf' = buf \o SubSeq(ULocal, 1, k)
        /\ net' = Took(net, Up("local"), k)
  BY DEF HttpReads, Fits, ULocal
<1>3. /\ cpc = "header" /\ cpc' = (IF <<"blank">> \in ToSet(buf') THEN "dial" ELSE "header")
      /\ Kept
      /\ UNCHANGED <<toSend, appGot, spc, payload, targetGot, targetSent, opened, reset, running>>
  BY DEF HttpReads, Kept, appVars, serverVars, targetVars
<1>4. /\ Shape(net') /\ ULocal' = SubSeq(ULocal, k + 1, Len(ULocal)) /\ DLocal' = DLocal
      /\ UTunnel' = UTunnel /\ DTunnel' = DTunnel /\ URemote' = URemote /\ DRemote' = DRemote
  BY <1>1, <1>2, NetTook, StreamNames DEF Types, ULocal, DLocal, UTunnel, DTunnel, URemote, DRemote
<1>5. /\ ULocal \in Seq(Item) /\ Len(ULocal) \in Nat /\ Wire \in Seq(Item) /\ Kind /\ Said \in Nat
      /\ buf \in Seq(Item) /\ Len(buf) \in Nat /\ k \in 0..Len(ULocal) /\ k \in Nat
  BY <1>1, <1>2, Counted, WireIs DEF Types, Sending
<1>6. proto # "socks" /\ Read = Len(buf) /\ Part(Wire, buf, 0, Read) /\ Part(Wire, ULocal, Read, Said)
  BY <1>1, <1>3 DEF ClientReads
<1>7. /\ Part(Wire, SubSeq(ULocal, 1, k), Read, Read + k)
      /\ Part(Wire, SubSeq(ULocal, k + 1, Len(ULocal)), Read + k, Said)
  BY <1>5, <1>6, PartCut
<1>8. Part(Wire, buf', 0, Read + k)
  BY <1>2, <1>5, <1>6, <1>7, PartJoin
<1>9. buf' \in Seq(Item) /\ Len(buf') = Read + k /\ Len(buf') <= BufLen
  BY <1>2, <1>5, <1>6, <1>8 DEF Part
<1>10. ULocal' \in Seq(Item) /\ Len(ULocal') = Len(ULocal) - k
  <2>1. Part(Wire, ULocal', Read + k, Said)
    BY <1>4, <1>7
  <2>2. ULocal' \in Seq(Item) /\ Len(ULocal') = Said - (Read + k)
    BY <2>1 DEF Part
  <2>3. Read = Said - Len(ULocal)
    BY DEF Read
  <2>4. QED BY <1>5, <2>2, <2>3
<1>11. Sending' /\ Said' = Said
  BY <1>1, <1>3, SendingSame
<1>12. Read' = Read + k /\ Read' = Len(buf')
  BY <1>5, <1>9, <1>10, <1>11 DEF Read
<1>13. cpc' = "dial" => Len(buf') >= headerLen
  <2> SUFFICES ASSUME cpc' = "dial" PROVE Len(buf') >= headerLen
    OBVIOUS
  <2>1. <<"blank">> \in ToSet(buf')
    BY <1>3
  <2>2. PICK i \in 1..Len(buf') : buf'[i] = <<"blank">>
    BY <1>9, <2>1 DEF ToSet
  <2>3. i \in 1..Len(Wire) /\ Wire[i] = <<"blank">>
    BY <1>5, <1>8, <1>9, <2>2 DEF Part
  <2>4. i = headerLen
    BY <1>5, <2>3, WireItems
  <2>5. QED BY <2>2, <2>4
<1>14. ClientReads'
  <2>1. Part(Wire', ULocal', Read', Said') /\ Part(Wire', buf', 0, Len(buf'))
    BY <1>3, <1>4, <1>7, <1>8, <1>9, <1>11, <1>12, SameScript
  <2>2. cpc' \in {"header", "dial"}
    BY <1>3
  <2>3. QED BY <1>3, <1>6, <1>12, <1>13, <2>1, <2>2 DEF ClientReads, Kept
<1>15. Replying'
  <2>1. Told' = Told
    BY <1>3, <1>4 DEF Told
  <2>2. Part(Answer', appGot', 0, Len(appGot')) /\ Part(Answer', DLocal', Len(appGot'), Told')
    BY <1>1, <1>3, <1>4, <2>1, SameScript DEF Replying
  <2>3. Told = 0
    BY <1>1, <1>3, <1>6 DEF Replying
  <2>4. cpc' \in {"header", "dial"}
    BY <1>3
  <2>5. QED BY <1>3, <1>6, <2>1, <2>2, <2>3, <2>4 DEF Replying, Kept
<1>16. Types'
  <2>1. Kind'
    BY <1>1, <1>3, SameScript DEF Types
  <2>2. cpc' \in ClientStates /\ running' \cap Client = {}
    BY <1>1, <1>3 DEF Types, ClientStates
  <2>3. QED BY <1>1, <1>3, <1>4, <1>9, <1>10, <2>1, <2>2 DEF Types
<1>17. TunnelUp' /\ RemoteUp' /\ TunnelDown' /\ RemoteDown'
  BY <1>3, <1>4, EarlyStep DEF Early
<1>18. Opened'
  BY <1>1, <1>3, <1>4 DEF Opened
<1>19. Lengths'
  BY <1>1, <1>4, <1>5, <1>10, Numbers DEF Lengths
<1>20. QED BY <1>11, <1>14, <1>15, <1>16, <1>17, <1>18, <1>19 DEF SessionInv

\* The client connects to the server.
LEMMA DialStep ==
    ASSUME SessionInv, Dial PROVE SessionInv'
<1>1. /\ Types /\ Sending /\ ClientReads /\ Replying /\ TunnelUp /\ RemoteUp /\ TunnelDown
      /\ RemoteDown /\ Opened /\ Lengths
  BY DEF SessionInv
<1>2. /\ cpc = "dial" /\ cpc' = "salt" /\ opened' = opened \cup {"tunnel"} /\ net' = net /\ Kept
      /\ UNCHANGED <<toSend, appGot, buf, spc, payload, targetGot, targetSent, reset, running>>
  BY DEF Dial, Kept, appVars, serverVars, targetVars
<1>3. /\ ULocal' = ULocal /\ DLocal' = DLocal
      /\ UTunnel' = UTunnel /\ DTunnel' = DTunnel /\ URemote' = URemote /\ DRemote' = DRemote
  BY <1>2 DEF ULocal, DLocal, UTunnel, DTunnel, URemote, DRemote, Unread
<1>4. Types'
  <2>1. Kind'
    BY <1>1, <1>2, SameScript DEF Types
  <2>2. cpc' \in ClientStates /\ running' \cap Client = {}
    BY <1>1, <1>2 DEF Types, ClientStates
  <2>3. opened' \subseteq Conns /\ reset' \subseteq opened'
    BY <1>1, <1>2 DEF Types, Conns
  <2>4. QED BY <1>1, <1>2, <1>3, <2>1, <2>2, <2>3 DEF Types
<1>5. Sending' /\ Said' = Said
  BY <1>1, <1>2, SendingSame
<1>6. Read' = Read /\ Told' = Told
  BY <1>2, <1>3, <1>5 DEF Read, Told
<1>7. ClientReads'
  <2>1. Part(Wire', ULocal', Read', Said') /\ (proto' # "socks" => Part(Wire', buf', 0, Len(buf')))
    BY <1>1, <1>2, <1>3, <1>5, <1>6, SameScript DEF ClientReads, Kept
  <2>2. QED BY <1>1, <1>2, <1>6, <2>1 DEF ClientReads, Kept
<1>8. Replying'
  <2>1. Part(Answer', appGot', 0, Len(appGot')) /\ Part(Answer', DLocal', Len(appGot'), Told')
    BY <1>1, <1>2, <1>3, <1>6, SameScript DEF Replying
  <2>2. QED BY <1>1, <1>2, <1>6, <2>1 DEF Replying, Kept
<1>9. TunnelUp' /\ RemoteUp' /\ TunnelDown' /\ RemoteDown'
  BY <1>2, <1>3, EarlyStep DEF Early
<1>10. Opened'
  BY <1>1, <1>2, <1>3 DEF Opened
<1>11. Lengths'
  BY <1>1, <1>3 DEF Lengths
<1>12. QED BY <1>4, <1>5, <1>7, <1>8, <1>9, <1>10, <1>11 DEF SessionInv

-----------------------------------------------------------------------------
(* The client's first frames.                                              *)

LEMMA SendSaltStep ==
    ASSUME SessionInv, SendSalt PROVE SessionInv'
<1> DEFINE f == << <<"salt">> >>
<1>1. /\ Types /\ Sending /\ ClientReads /\ Replying /\ TunnelUp /\ RemoteUp /\ TunnelDown
      /\ RemoteDown /\ Opened /\ Lengths
  BY DEF SessionInv
<1>2. /\ cpc = "salt" /\ cpc' = "first" /\ net' = Put(net, Up("tunnel"), <<f>>)
      /\ Len(UTunnel) < Capacity
  BY DEF SendSalt, Writable, UTunnel
<1>3. /\ Kept
      /\ UNCHANGED <<toSend, appGot, buf, spc, payload, targetGot, targetSent, opened, reset, running>>
  BY DEF SendSalt, Kept, appVars, serverVars, targetVars
<1>4. f \in Seq(Item)
  <2>1. <<"salt">> \in Item
    BY WordsAre DEF Words
  <2>2. QED BY <2>1
<1> HIDE DEF f
<1>5. /\ Shape(net') /\ ULocal' = ULocal /\ DLocal' = DLocal /\ UTunnel' = UTunnel \o <<f>>
      /\ DTunnel' = DTunnel /\ URemote' = URemote /\ DRemote' = DRemote
  BY <1>1, <1>2, NetPut, StreamNames DEF Types, ULocal, DLocal, UTunnel, DTunnel, URemote, DRemote
<1>6. UTunnel' \in Seq(Seq(Item)) /\ Len(UTunnel') = Len(UTunnel) + 1 /\ Len(UTunnel) \in Nat
  BY <1>1, <1>4, <1>5 DEF Types
<1>7. Nothing /\ spc \in {"idle", "salt", "done"}
  BY <1>2, EarlyServer DEF Early
<1>8. Types'
  <2>1. Kind'
    BY <1>1, <1>3, SameScript DEF Types
  <2>2. cpc' \in ClientStates /\ running' \cap Client = {}
    BY <1>1, <1>2, <1>3 DEF Types, ClientStates
  <2>3. QED BY <1>1, <1>3, <1>5, <1>6, <2>1, <2>2 DEF Types
<1>9. Sending' /\ Said' = Said
  BY <1>1, <1>3, SendingSame
<1>10. Read' = Read /\ Told' = Told
  BY <1>3, <1>5, <1>9 DEF Read, Told
<1>11. ClientReads'
  <2>1. Part(Wire', ULocal', Read', Said') /\ (proto' # "socks" => Part(Wire', buf', 0, Len(buf')))
    BY <1>1, <1>3, <1>5, <1>9, <1>10, SameScript DEF ClientReads, Kept
  <2>2. QED BY <1>1, <1>2, <1>3, <1>10, <2>1 DEF ClientReads, Kept
<1>12. Replying'
  <2>1. Part(Answer', appGot', 0, Len(appGot')) /\ Part(Answer', DLocal', Len(appGot'), Told')
    BY <1>1, <1>3, <1>5, <1>10, SameScript DEF Replying
  <2>2. QED BY <1>1, <1>2, <1>3, <1>10, <2>1 DEF Replying, Kept
<1>13. RemoteUp'
  BY <1>3, <1>5, <1>7 DEF RemoteUp, Nothing
<1>14. RemoteDown' /\ Fetched' = Fetched
  <2>1. Fetched' = Fetched
    BY <1>3, <1>5, SameScript DEF Fetched
  <2>2. QED BY <1>1, <1>3, <1>5, <2>1, SameScript DEF RemoteDown
<1>15. TunnelDown'
  BY <1>1, <1>2, <1>3, <1>5, <1>14, EarlyDown
<1>16. TunnelUp'
  <2> SUFFICES ASSUME spc' # "done" PROVE \E w \in ReadFrames'..2 : Written(w)'
    BY DEF TunnelUp
  <2>1. ReadFrames' = 0 /\ ReadFrames = 0
    BY <1>3, <1>7 DEF ReadFrames
  <2>2. PICK w \in ReadFrames..2 : Written(w)
    BY <1>1, <1>3 DEF TunnelUp
  <2>3. Len(UTunnel) = 0
    BY <1>2, <2>1, <2>2 DEF Written
  <2>4. Written(1)'
    BY <1>2, <1>6, <2>1, <2>3 DEF Written
  <2>5. QED BY <2>1, <2>4
<1>17. Opened'
  BY <1>1, <1>2, <1>3, <1>5 DEF Opened
<1>18. Lengths'
  BY <1>1, <1>2, <1>5, <1>6, Numbers DEF Lengths
<1>19. QED BY <1>8, <1>9, <1>11, <1>12, <1>13, <1>14, <1>15, <1>16, <1>17, <1>18 DEF SessionInv

LEMMA SendFirstStep ==
    ASSUME SessionInv, SendFirst PROVE SessionInv'
<1>1. /\ Types /\ Sending /\ ClientReads /\ Replying /\ TunnelUp /\ RemoteUp /\ TunnelDown
      /\ RemoteDown /\ Opened /\ Lengths
  BY DEF SessionInv
<1>2. /\ cpc = "first" /\ cpc' = (IF Answered THEN "established" ELSE "relay")
      /\ net' = Put(net, Up("tunnel"), <<First>>)
      /\ running' = running \cup Starts /\ Len(UTunnel) < Capacity
  BY DEF SendFirst, Writable, UTunnel, First
<1>3. /\ Kept
      /\ UNCHANGED <<toSend, appGot, buf, spc, payload, targetGot, targetSent, opened, reset>>
  BY DEF SendFirst, Kept, appVars, serverVars, targetVars
<1>4. First \in Seq(Item)
  <2>1. <<"address">> \in Item
    BY WordsAre DEF Words
  <2>2. << <<"address">> >> \in Seq(Item) /\ FirstData \in Seq(Item)
    BY <1>1, <2>1 DEF FirstData, Types
  <2>3. QED BY ONLY <2>2, Joined DEF First
<1>5. /\ Shape(net') /\ ULocal' = ULocal /\ DLocal' = DLocal /\ UTunnel' = UTunnel \o <<First>>
      /\ DTunnel' = DTunnel /\ URemote' = URemote /\ DRemote' = DRemote
  BY <1>1, <1>2, NetPut, StreamNames DEF Types, ULocal, DLocal, UTunnel, DTunnel, URemote, DRemote
<1>6. /\ UTunnel' \in Seq(Seq(Item)) /\ Len(UTunnel') = Len(UTunnel) + 1 /\ Len(UTunnel) \in Nat
      /\ UTunnel'[Len(UTunnel) + 1] = First
  BY <1>1, <1>4, <1>5 DEF Types
<1>7. Nothing /\ spc \in {"idle", "salt", "first", "done"}
  BY <1>2, EarlyServer
<1>8. Kind /\ Len(buf) \in Nat /\ Base \in Nat /\ proto \in {"socks", "connect", "eager", "plain"}
  BY <1>1, Counted, Numbers
<1>9. /\ Read = Base /\ (proto # "socks" => Len(buf) >= headerLen)
      /\ Told = (IF proto = "socks" THEN 2 ELSE 0)
  BY <1>1, <1>2 DEF Base, ClientReads, Replying
<1>10. Len(Answers) = IF proto = "socks" THEN 2 ELSE IF Answered THEN 1 ELSE 0
  BY <1>8, AnswersAre DEF Answered
<1>11. Sending' /\ Said' = Said
  BY <1>1, <1>3, SendingSame
<1>12. Read' = Read /\ Told' = Told /\ Base' = Base /\ First' = First /\ Answered' = Answered
  BY <1>3, <1>5, <1>11, SameScript DEF Read, Told, Base, First, FirstData, Kept
<1>13. Types'
  <2>1. Kind'
    BY <1>1, <1>3, SameScript DEF Types
  <2>2. cpc' \in ClientStates /\ running' \subseteq Tasks /\ running' \cap Server = running \cap Server
    BY <1>1, <1>2 DEF Types, ClientStates, Starts, Tasks, Client, Server
  <2>3. cpc' # "relay" => running' \cap Client = {}
    BY <1>1, <1>2 DEF Types, Starts
  <2>4. spc' # "relay" => running' \cap Server = {}
    BY <1>1, <1>3, <2>2 DEF Types
  <2>5. QED BY <1>1, <1>3, <1>5, <1>6, <2>1, <2>2, <2>3, <2>4 DEF Types
<1>14. ClientReads'
  <2>1. Part(Wire', ULocal', Read', Said') /\ (proto' # "socks" => Part(Wire', buf', 0, Len(buf')))
    BY <1>1, <1>3, <1>5, <1>11, <1>12, SameScript DEF ClientReads, Kept
  <2>2. CASE Answered
    <3>1. proto # "socks" /\ cpc' = "established"
      BY <1>2, <2>2 DEF Answered
    <3>2. QED BY <1>1, <1>2, <1>3, <1>12, <2>1, <2>2, <3>1 DEF ClientReads, Kept
  <2>3. CASE ~Answered
    <3>1. cpc' = "relay"
      BY <1>2, <2>3
    <3>2. QED BY <1>1, <1>2, <1>3, <1>12, <2>1, <3>1 DEF ClientReads, Kept
  <2>4. QED BY <2>2, <2>3
<1>15. Replying'
  <2>1. Part(Answer', appGot', 0, Len(appGot')) /\ Part(Answer', DLocal', Len(appGot'), Told')
    BY <1>1, <1>3, <1>5, <1>12, SameScript DEF Replying
  <2>2. cpc' = "relay" => Told' >= (Len(Answers))'
    <3>1. cpc' = "relay" => ~Answered
      BY <1>2
    <3>2. ~Answered => Told >= Len(Answers)
      BY <1>9, <1>10
    <3>3. (Len(Answers))' = Len(Answers)
      BY <1>3, SameScript
    <3>4. QED BY <1>12, <3>1, <3>2, <3>3
  <2>3. cpc' \in {"established", "relay"}
    BY <1>2
  <2>4. proto' = "socks" => (Told' >= 1 => Read' >= 1) /\ (Told' >= 2 => Read' >= 2)
    BY <1>1, <1>3, <1>12 DEF Replying, Kept
  <2>5. QED BY <1>3, <1>9, <1>12, <2>1, <2>2, <2>3, <2>4 DEF Replying, Kept
<1>16. RemoteUp'
  BY <1>3, <1>5, <1>7 DEF RemoteUp, Nothing
<1>17. RemoteDown' /\ Fetched' = Fetched
  <2>1. Fetched' = Fetched
    BY <1>3, <1>5, SameScript DEF Fetched
  <2>2. QED BY <1>1, <1>3, <1>5, <2>1, SameScript DEF RemoteDown
<1>18. TunnelDown'
  <2> SUFFICES \E hi \in Nat :
                 /\ Chain(Answer', DTunnel', 0, IF cpc' = "relay" THEN Told' ELSE (Len(Answers))', hi)
                 /\ spc' = "relay" => hi = Fetched'
                 /\ spc' \notin {"relay", "done"} => hi = (Len(Answers))'
    BY DEF TunnelDown
  <2>1. PICK hi \in Nat :
          /\ Chain(Answer, DTunnel, 0, Len(Answers), hi)
          /\ spc \notin {"relay", "done"} => hi = Len(Answers)
    BY <1>1, <1>2 DEF TunnelDown
  <2>2. cpc' = "relay" => Told' = (Len(Answers))'
    <3>1. cpc' = "relay" => ~Answered
      BY <1>2
    <3>2. QED BY <1>3, <1>9, <1>10, <1>12, <3>1, SameScript
  <2>3. Chain(Answer', DTunnel', 0, (Len(Answers))', hi)
    BY <1>3, <1>5, <2>1, SameScript
  <2>4. (IF cpc' = "relay" THEN Told' ELSE (Len(Answers))') = (Len(Answers))'
    BY <2>2
  <2>5. (spc' = "relay" => hi = Fetched') /\ (spc' \notin {"relay", "done"} => hi = (Len(Answers))')
    BY <1>3, <1>7, <2>1, SameScript
  <2>6. QED BY <2>3, <2>4, <2>5
<1>19. TunnelUp'
  <2> SUFFICES ASSUME spc' # "done" PROVE \E w \in ReadFrames'..2 : Written(w)'
    BY DEF TunnelUp
  <2>1. ReadFrames' = ReadFrames /\ ReadFrames \in {0, 1}
    BY <1>3, <1>7 DEF ReadFrames
  <2>2. PICK w \in ReadFrames..2 : Written(w)
    BY <1>1, <1>3 DEF TunnelUp
  <2>3. Len(UTunnel) = 1 - ReadFrames
    BY <1>2, <2>2 DEF Written
  <2>4. Len(UTunnel') = 2 - ReadFrames' /\ UTunnel'[2 - ReadFrames'] = First'
    BY <1>6, <1>12, <2>1, <2>3
  <2>5. Chain(Wire', UTunnel', 2 - ReadFrames', Base', Read')
    <3>1. Chain(Wire, UTunnel', Len(UTunnel'), Base, Base)
      BY <1>6, <1>8, ChainNew
    <3>2. QED BY <1>3, <1>9, <1>12, <2>4, <3>1, SameScript
  <2>6. Relayed'
    <3>1. cpc' \in {"established", "relay", "done"} /\ spc' # "relay" /\ Read' \in Nat
      BY <1>2, <1>3, <1>7, <1>8, <1>9, <1>12
    <3>2. proto' # "socks" => Len(buf') >= headerLen'
      BY <1>3, <1>9 DEF Kept
    <3>3. Len(UTunnel') >= 2 - ReadFrames'
      BY <1>6, <2>1, <2>4
    <3>4. QED BY <2>4, <2>5, <3>1, <3>2, <3>3 DEF Relayed
  <2>7. Written(2)'
    BY <1>2, <2>6 DEF Written
  <2>8. QED BY <2>1, <2>7
<1>20. Opened'
  BY <1>1, <1>2, <1>3, <1>5 DEF Opened
<1>21. Lengths'
  BY <1>1, <1>2, <1>5, <1>6, Numbers DEF Lengths
<1>22. QED BY <1>11, <1>13, <1>14, <1>15, <1>16, <1>17, <1>18, <1>19, <1>20, <1>21 DEF SessionInv

\* The client answers a CONNECT.
LEMMA EstablishStep ==
    ASSUME SessionInv, Establish PROVE SessionInv'
<1> DEFINE x == <<"established">>
<1>1. /\ Types /\ Sending /\ ClientReads /\ Replying /\ TunnelUp /\ RemoteUp /\ TunnelDown
      /\ RemoteDown /\ Opened /\ Lengths
  BY DEF SessionInv
<1>2. /\ cpc = "established" /\ cpc' = "relay" /\ net' = Put(net, Down("local"), <<x>>)
      /\ Len(DLocal) < Capacity /\ running' = running \cup Client
  BY DEF Establish, Writable, DLocal
<1>3. /\ Kept
      /\ UNCHANGED <<toSend, appGot, buf, spc, payload, targetGot, targetSent, opened, reset>>
  BY DEF Establish, Kept, appVars, serverVars, targetVars
<1>4. /\ Shape(net') /\ ULocal' = ULocal /\ DLocal' = DLocal \o <<x>> /\ UTunnel' = UTunnel
      /\ DTunnel' = DTunnel /\ URemote' = URemote /\ DRemote' = DRemote
  BY <1>1, <1>2, NetPut, StreamNames DEF Types, ULocal, DLocal, UTunnel, DTunnel, URemote, DRemote
<1>5. /\ DLocal \in Seq(Item) /\ Len(DLocal) \in Nat /\ Answer \in Seq(Item) /\ Kind /\ Told \in Nat
      /\ Len(Answers) \in Nat /\ Len(Answer) = Len(Answers) + DownLen /\ Len(appGot) \in Nat
  BY <1>1, Counted, AnswerIs DEF Types
<1>6. Answered /\ proto # "socks" /\ Len(Answers) = 1
  <2>1. Answered
    BY <1>1, <1>2 DEF ClientReads
  <2>2. QED BY <1>5, <2>1, AnswersAre DEF Answered
<1>7. x = Answer[1] /\ x \in Item
  <2>1. Answers[1] = x /\ 1 \in 1..Len(Answers)
    BY <1>5, <1>6, AnswersAre
  <2>2. x \in Item
    BY WordsAre DEF Words
  <2>3. QED BY <1>5, <2>1, <2>2, AnswerIs
<1> HIDE DEF x
<1>8. Told = 0 /\ Read = Len(buf) /\ Len(buf) >= headerLen
  BY <1>1, <1>2, <1>6 DEF Replying, ClientReads
<1>9. /\ Part(Answer, DLocal', Len(appGot), 1) /\ DLocal' \in Seq(Item) /\ Len(DLocal') = Len(DLocal) + 1
  <2>1. Part(Answer, DLocal, Len(appGot), 0)
    BY <1>1, <1>8 DEF Replying
  <2>2. 0 < Len(Answer)
    BY <1>5, <1>6, Numbers
  <2> DEFINE z == 0
  <2>3. Part(Answer, DLocal, Len(appGot), z) /\ z < Len(Answer) /\ x = Answer[z + 1]
    BY <1>7, <2>1, <2>2
  <2> HIDE DEF z
  <2>4. Part(Answer, Append(DLocal, x), Len(appGot), z + 1) /\ Append(DLocal, x) = DLocal \o <<x>>
    BY <1>5, <2>3, PartAdd
  <2>5. Append(DLocal, x) \in Seq(Item) /\ Len(Append(DLocal, x)) = Len(DLocal) + 1
    BY <1>5, <1>7
  <2>6. QED BY <1>4, <2>4, <2>5 DEF z
<1>10. Told' = 1
  BY <1>3, <1>5, <1>8, <1>9 DEF Told
<1>11. Sending' /\ Said' = Said
  BY <1>1, <1>3, SendingSame
<1>12. Read' = Read
  BY <1>4, <1>11 DEF Read
<1>13. Types'
  <2>1. Kind'
    BY <1>1, <1>3, SameScript DEF Types
  <2>2. cpc' \in ClientStates /\ running' \subseteq Tasks /\ running' \cap Server = running \cap Server
    BY <1>1, <1>2 DEF Types, ClientStates, Tasks, Client, Server
  <2>3. spc' # "relay" => running' \cap Server = {}
    BY <1>1, <1>3, <2>2 DEF Types
  <2>4. QED BY <1>1, <1>2, <1>3, <1>4, <1>9, <2>1, <2>2, <2>3 DEF Types
<1>14. ClientReads'
  <2>1. Part(Wire', ULocal', Read', Said') /\ Part(Wire', buf', 0, Len(buf'))
    BY <1>1, <1>3, <1>4, <1>6, <1>11, <1>12, SameScript DEF ClientReads, Kept
  <2>2. QED BY <1>2, <1>3, <1>6, <1>8, <2>1 DEF ClientReads, Kept
<1>15. Replying'
  <2>1. Part(Answer', appGot', 0, Len(appGot')) /\ Part(Answer', DLocal', Len(appGot'), Told')
    BY <1>1, <1>3, <1>9, <1>10, SameScript DEF Replying
  <2>2. Told' >= (Len(Answers))'
    <3>1. (Len(Answers))' = Len(Answers)
      BY <1>3, SameScript
    <3>2. QED BY <1>6, <1>10, <3>1
  <2>3. Read' >= headerLen'
    BY <1>3, <1>8, <1>12 DEF Kept
  <2>4. QED BY <1>2, <1>3, <1>6, <2>1, <2>2, <2>3 DEF Replying, Kept
<1>16. Onward
  BY <1>2, <1>3 DEF Onward
<1>17. RemoteUp' /\ Passed' = Passed
  BY <1>1, <1>3, <1>4, <1>16, RemoteUpOnward
<1>18. TunnelUp'
  BY <1>1, <1>3, <1>4, <1>12, <1>16, <1>17, TunnelUpOnward
<1>19. RemoteDown' /\ Fetched' = Fetched
  <2>1. Fetched' = Fetched
    BY <1>3, <1>4, SameScript DEF Fetched
  <2>2. QED BY <1>1, <1>3, <1>4, <2>1, SameScript DEF RemoteDown
<1>20. TunnelDown'
  <2> SUFFICES \E hi \in Nat :
                 /\ Chain(Answer', DTunnel', 0, IF cpc' = "relay" THEN Told' ELSE (Len(Answers))', hi)
                 /\ spc' = "relay" => hi = Fetched'
                 /\ spc' \notin {"relay", "done"} => hi = (Len(Answers))'
    BY DEF TunnelDown
  <2>1. PICK hi \in Nat :
          /\ Chain(Answer, DTunnel, 0, Len(Answers), hi)
          /\ spc = "relay" => hi = Fetched
          /\ spc \notin {"relay", "done"} => hi = Len(Answers)
    BY <1>1, <1>2 DEF TunnelDown
  <2>2. Chain(Answer', DTunnel', 0, Told', hi)
    BY <1>3, <1>4, <1>6, <1>10, <2>1, SameScript
  <2>3. QED BY <1>2, <1>3, <1>19, <2>1, <2>2, SameScript
<1>21. Opened'
  BY <1>1, <1>2, <1>3, <1>4 DEF Opened
<1>22. Lengths'
  <2>1. Len(DLocal') < Capacity + Longest
    BY <1>2, <1>5, <1>9, Numbers DEF Longest
  <2>2. QED BY <1>1, <1>4, <2>1 DEF Lengths
<1>23. QED BY <1>11, <1>13, <1>14, <1>15, <1>17, <1>18, <1>19, <1>20, <1>21, <1>22 DEF SessionInv

-----------------------------------------------------------------------------
(* The server up to its relay.                                             *)

\* Until the server relays, its steps leave the client and the answer alone.
LEMMA ServerEarly ==
    ASSUME SessionInv, Kept, spc \notin {"relay", "done"}, spc' \notin {"relay", "done"},
           UNCHANGED <<cpc, buf, toSend, appGot, targetGot, targetSent>>,
           ULocal' = ULocal, DLocal' = DLocal, DTunnel' = DTunnel, URemote' = URemote, DRemote' = DRemote
    PROVE  /\ Sending' /\ ClientReads' /\ Replying' /\ RemoteDown' /\ TunnelDown' /\ Nothing'
           /\ Nothing /\ Read' = Read /\ Base' = Base /\ First' = First /\ FirstData' = FirstData
<1>1. /\ Types /\ Sending /\ ClientReads /\ Replying /\ TunnelUp /\ RemoteUp /\ TunnelDown
      /\ RemoteDown /\ Opened /\ Lengths
  BY DEF SessionInv
<1>2. Sending' /\ Said' = Said
  BY <1>1, SendingSame
<1>3. Read' = Read
  BY <1>2 DEF Read
<1>4. ClientReads'
  BY <1>1, <1>2, <1>3, ClientReadsSame
<1>5. Replying' /\ Told' = Told
  BY <1>1, <1>3, ReplyingSame
<1>6. Base' = Base /\ FirstData' = FirstData /\ First' = First
  BY DEF Base, FirstData, First, Kept
<1>7. Nothing /\ Nothing'
  BY <1>1 DEF RemoteUp, Nothing
<1>8. Fetched' = Fetched
  BY SameScript DEF Fetched
<1>9. RemoteDown'
  BY <1>1, <1>8, SameScript DEF RemoteDown
<1>10. TunnelDown'
  <2> SUFFICES ASSUME cpc' # "done"
               PROVE \E hi \in Nat :
                 /\ Chain(Answer', DTunnel', 0, IF cpc' = "relay" THEN Told' ELSE (Len(Answers))', hi)
                 /\ spc' = "relay" => hi = Fetched'
                 /\ spc' \notin {"relay", "done"} => hi = (Len(Answers))'
    BY DEF TunnelDown
  <2>1. PICK hi \in Nat :
          /\ Chain(Answer, DTunnel, 0, IF cpc = "relay" THEN Told ELSE Len(Answers), hi)
          /\ hi = Len(Answers)
    BY <1>1 DEF TunnelDown
  <2>2. Chain(Answer', DTunnel', 0, IF cpc' = "relay" THEN Told' ELSE (Len(Answers))', hi)
    BY <1>5, <2>1, SameScript
  <2>3. hi = (Len(Answers))'
    BY <2>1, SameScript
  <2>4. QED BY <2>2, <2>3
<1>11. QED BY <1>2, <1>3, <1>4, <1>5, <1>6, <1>7, <1>9, <1>10

LEMMA AcceptStep ==
    ASSUME SessionInv, Accept PROVE SessionInv'
<1>1. /\ Types /\ Sending /\ ClientReads /\ Replying /\ TunnelUp /\ RemoteUp /\ TunnelDown
      /\ RemoteDown /\ Opened /\ Lengths
  BY DEF SessionInv
<1>2. /\ spc = "idle" /\ spc' = "salt" /\ "tunnel" \in opened /\ net' = net /\ Kept
      /\ UNCHANGED <<toSend, appGot, buf, cpc, payload, targetGot, targetSent, opened, reset, running>>
  BY DEF Accept, Kept, appVars, clientVars, targetVars
<1>3. /\ ULocal' = ULocal /\ DLocal' = DLocal
      /\ UTunnel' = UTunnel /\ DTunnel' = DTunnel /\ URemote' = URemote /\ DRemote' = DRemote
  BY <1>2 DEF ULocal, DLocal, UTunnel, DTunnel, URemote, DRemote, Unread
<1>4. /\ Sending' /\ ClientReads' /\ Replying' /\ RemoteDown' /\ TunnelDown' /\ Nothing'
      /\ Read' = Read /\ Base' = Base /\ First' = First
  BY <1>2, <1>3, ServerEarly
<1>5. Types'
  <2>1. Kind'
    BY <1>1, <1>2, SameScript DEF Types
  <2>2. spc' \in ServerStates /\ running' \cap Server = {}
    BY <1>1, <1>2 DEF Types, ServerStates
  <2>3. QED BY <1>1, <1>2, <1>3, <2>1, <2>2 DEF Types
<1>6. RemoteUp'
  BY <1>2, <1>4 DEF RemoteUp
<1>7. TunnelUp'
  <2>1. ReadFrames = 0 /\ ReadFrames' = 0
    BY <1>2 DEF ReadFrames
  <2>2. PICK w \in ReadFrames..2 : Written(w)
    BY <1>1, <1>2 DEF TunnelUp
  <2>3. ASSUME Relayed PROVE Relayed'
    <3>1. PICK hi \in Nat :
            /\ Chain(Wire, UTunnel, 2 - ReadFrames, Base, hi)
            /\ cpc \in {"established", "relay"} => hi = Read
      BY <1>2, <2>3 DEF Relayed
    <3>2. Chain(Wire', UTunnel', 2 - ReadFrames', Base', hi)
      BY <1>2, <1>3, <1>4, <2>1, <3>1, SameScript
    <3>3. spc' # "relay"
      BY <1>2
    <3>4. QED BY <1>2, <1>3, <1>4, <2>1, <2>3, <3>1, <3>2, <3>3 DEF Relayed, Kept
  <2>4. Written(w)'
    BY <1>2, <1>3, <2>1, <2>2, <2>3 DEF Written
  <2>5. QED BY <2>1, <2>2, <2>4 DEF TunnelUp
<1>8. Opened'
  BY <1>1, <1>2, <1>3 DEF Opened
<1>9. Lengths'
  BY <1>1, <1>3 DEF Lengths
<1>10. QED BY <1>4, <1>5, <1>6, <1>7, <1>8, <1>9 DEF SessionInv

\* The server takes the salt and then the first frame out of the tunnel.
LEMMA HandshakeTaken ==
    ASSUME SessionInv, spc \in {"salt", "first"}, UTunnel # <<>>
    PROVE  \/ spc = "salt" /\ Written(1) /\ Len(UTunnel) = 1
           \/ Written(2) /\ Relayed /\ Chain(Wire, Tail(UTunnel), 1 - ReadFrames, Base, Read)
           \/ /\ Written(2) /\ Relayed /\ cpc = "done"
              /\ \E hi \in Nat : Chain(Wire, Tail(UTunnel), 1 - ReadFrames, Base, hi)
<1>1. Types /\ TunnelUp
  BY DEF SessionInv
<1>2. ReadFrames = IF spc = "salt" THEN 0 ELSE 1
  BY DEF ReadFrames
<1>3. UTunnel \in Seq(Seq(Item)) /\ Len(UTunnel) \in Nat /\ Len(UTunnel) >= 1
  BY <1>1 DEF Types
<1>4. PICK w \in ReadFrames..2 : Written(w)
  BY <1>1 DEF TunnelUp
<1>5. CASE w < 2
  <2>1. Len(UTunnel) = w - ReadFrames
    BY <1>4, <1>5 DEF Written
  <2>2. w = 1 /\ spc = "salt" /\ Len(UTunnel) = 1
    BY <1>2, <1>3, <1>5, <2>1
  <2>3. QED BY <1>4, <2>2
<1>6. CASE w = 2
  <2>1. Relayed /\ Written(2)
    BY <1>4, <1>6 DEF Written
  <2>2. PICK hi \in Nat :
          /\ Chain(Wire, UTunnel, 2 - ReadFrames, Base, hi)
          /\ cpc \in {"established", "relay"} => hi = Read
    BY <2>1 DEF Relayed
  <2> DEFINE k == 2 - ReadFrames
  <2>3. k > 0 /\ k - 1 = 1 - ReadFrames
    BY <1>2
  <2>4. Chain(Wire, UTunnel, k, Base, hi)
    BY <2>2
  <2> HIDE DEF k
  <2>5. Chain(Wire, Tail(UTunnel), k - 1, Base, hi)
    BY <2>3, <2>4, ChainShift
  <2>6. Chain(Wire, Tail(UTunnel), 1 - ReadFrames, Base, hi)
    BY <2>3, <2>5
  <2>7. cpc \in {"established", "relay", "done"}
    BY <2>1 DEF Relayed
  <2>8. QED BY <2>1, <2>2, <2>6, <2>7
<1>7. w < 2 \/ w = 2
  BY <1>2
<1>8. QED BY <1>5, <1>6, <1>7

LEMMA ReadingSteps ==
    ASSUME SessionInv, ReadSalt \/ ReadFirst PROVE SessionInv'
<1>1. /\ Types /\ Sending /\ ClientReads /\ Replying /\ TunnelUp /\ RemoteUp /\ TunnelDown
      /\ RemoteDown /\ Opened /\ Lengths
  BY DEF SessionInv
<1>2. /\ \/ spc = "salt" /\ spc' = "first" /\ payload' = payload
         \/ spc = "first" /\ spc' = "dial" /\ payload' = Tail(Head(UTunnel))
      /\ UTunnel # <<>> /\ net' = Took(net, Up("tunnel"), 1)
  BY DEF ReadSalt, ReadFirst, UTunnel
<1>3. /\ Kept
      /\ UNCHANGED <<toSend, appGot, buf, cpc, targetGot, targetSent, opened, reset, running>>
  BY DEF ReadSalt, ReadFirst, Kept, appVars, clientVars, targetVars
<1>4. /\ Shape(net') /\ ULocal' = ULocal /\ DLocal' = DLocal
      /\ UTunnel' = SubSeq(UTunnel, 1 + 1, Len(UTunnel))
      /\ DTunnel' = DTunnel /\ URemote' = URemote /\ DRemote' = DRemote
  BY <1>1, <1>2, NetTook, StreamNames DEF Types, ULocal, DLocal, UTunnel, DTunnel, URemote, DRemote
<1>5. UTunnel \in Seq(Seq(Item)) /\ Len(UTunnel) \in Nat
  BY <1>1 DEF Types
<1>6. /\ UTunnel' = Tail(UTunnel) /\ UTunnel' \in Seq(Seq(Item)) /\ Len(UTunnel') = Len(UTunnel) - 1
      /\ Head(UTunnel) = UTunnel[1]
      /\ \A i \in 1..(Len(UTunnel) - 1) : UTunnel'[i] = UTunnel[i + 1]
  BY <1>2, <1>4, <1>5, OneLess, Moved
<1>7. spc \notin {"relay", "done"} /\ spc' \notin {"relay", "done"}
  BY <1>2
<1>8. /\ Sending' /\ ClientReads' /\ Replying' /\ RemoteDown' /\ TunnelDown' /\ Nothing'
      /\ Read' = Read /\ Base' = Base /\ First' = First /\ FirstData' = FirstData
  BY <1>3, <1>4, <1>7, ServerEarly
<1>9. /\ ReadFrames = IF spc = "salt" THEN 0 ELSE 1
      /\ ReadFrames' = ReadFrames + 1
  BY <1>2 DEF ReadFrames
<1>10. \/ spc = "salt" /\ Written(1) /\ Len(UTunnel) = 1
       \/ Written(2) /\ Relayed /\ Chain(Wire, Tail(UTunnel), 1 - ReadFrames, Base, Read)
       \/ /\ Written(2) /\ Relayed /\ cpc = "done"
          /\ \E hi \in Nat : Chain(Wire, Tail(UTunnel), 1 - ReadFrames, Base, hi)
  BY <1>2, HandshakeTaken
<1>11. ASSUME spc = "salt", Written(1), Len(UTunnel) = 1
       PROVE  TunnelUp' /\ RemoteUp' /\ payload' \in Seq(Item)
  <2>1. Written(1)'
    BY <1>3, <1>6, <1>9, <1>11 DEF Written
  <2>2. TunnelUp'
    BY <1>9, <1>11, <2>1 DEF TunnelUp
  <2>3. RemoteUp' /\ payload' \in Seq(Item)
    BY <1>1, <1>2, <1>8, <1>11 DEF RemoteUp, Types
  <2>4. QED BY <2>2, <2>3
<1>12. ASSUME Written(2), Relayed, NEW hi \in Nat, Chain(Wire, Tail(UTunnel), 1 - ReadFrames, Base, hi),
              cpc \in {"established", "relay"} => hi = Read
       PROVE  TunnelUp' /\ RemoteUp' /\ payload' \in Seq(Item)
  <2>1. UTunnel[2 - ReadFrames] = First /\ Len(UTunnel) >= 2 - ReadFrames
    BY <1>9, <1>12 DEF Relayed
  <2>2. Chain(Wire', UTunnel', 2 - ReadFrames', Base', hi)
    <3>1. 2 - ReadFrames' = 1 - ReadFrames
      BY <1>9
    <3>2. QED BY <1>3, <1>6, <1>8, <1>12, <3>1, SameScript
  <2>3. ReadFrames' < 2 => UTunnel'[2 - ReadFrames'] = First'
    <3> SUFFICES ASSUME ReadFrames' < 2 PROVE UTunnel'[2 - ReadFrames'] = First'
      OBVIOUS
    <3>1. ReadFrames = 0 /\ 2 - ReadFrames' = 1 /\ 1 \in 1..(Len(UTunnel) - 1)
      BY <1>5, <1>9, <2>1
    <3>2. UTunnel'[1] = UTunnel[2]
      BY <1>6, <3>1
    <3>3. QED BY <1>8, <2>1, <3>1, <3>2
  <2>4. Len(UTunnel') >= 2 - ReadFrames'
    BY <1>5, <1>6, <1>9, <2>1
  <2>5. cpc' \in {"established", "relay", "done"} /\ (proto' # "socks" => Len(buf') >= headerLen')
    BY <1>3, <1>12 DEF Relayed, Kept
  <2>6. Relayed'
    BY <1>3, <1>7, <1>8, <1>12, <2>2, <2>3, <2>4, <2>5 DEF Relayed
  <2>7. Written(2)'
    BY <2>5, <2>6, <1>3, <1>12 DEF Written
  <2>8. TunnelUp'
    BY <1>9, <2>7 DEF TunnelUp
  <2>9. spc = "first" => payload' = FirstData
    <3> SUFFICES ASSUME spc = "first" PROVE Tail(Head(UTunnel)) = FirstData
      BY <1>2
    <3>1. Head(UTunnel) = << <<"address">> >> \o FirstData
      BY <1>6, <1>9, <2>1 DEF First
    <3> DEFINE a == <<"address">>
               d == FirstData
    <3>2. a \in Item /\ d \in Seq(Item)
      BY <1>1, WordsAre DEF Words, FirstData, Types
    <3> HIDE DEF a, d
    <3>3. Tail(<<a>> \o d) = d
      BY <3>2
    <3>4. QED BY <3>1, <3>3 DEF a, d
  <2>10. FirstData \in Seq(Item)
    BY <1>1 DEF FirstData, Types
  <2>11. RemoteUp'
    BY <1>2, <1>8, <2>9 DEF RemoteUp
  <2>12. payload' \in Seq(Item)
    BY <1>1, <1>2, <2>9, <2>10 DEF Types
  <2>13. QED BY <2>8, <2>11, <2>12
<1>13. TunnelUp' /\ RemoteUp' /\ payload' \in Seq(Item)
  <2>1. CASE Written(2) /\ Relayed /\ Chain(Wire, Tail(UTunnel), 1 - ReadFrames, Base, Read)
    <3>1. Read \in Nat
      BY <1>1 DEF ClientReads, Part
    <3>2. QED BY <1>12, <2>1, <3>1
  <2>2. CASE /\ Written(2) /\ Relayed /\ cpc = "done"
             /\ \E hi \in Nat : Chain(Wire, Tail(UTunnel), 1 - ReadFrames, Base, hi)
    <3>1. PICK hi \in Nat : Chain(Wire, Tail(UTunnel), 1 - ReadFrames, Base, hi)
      BY <2>2
    <3>2. cpc \in {"established", "relay"} => hi = Read
      BY <2>2
    <3>3. QED BY <1>12, <2>2, <3>1, <3>2
  <2>3. QED BY <1>10, <1>11, <2>1, <2>2
<1>14. Types'
  <2>1. Kind'
    BY <1>1, <1>3, SameScript DEF Types
  <2>2. spc' \in ServerStates /\ running' \cap Server = {}
    BY <1>1, <1>2, <1>3 DEF Types, ServerStates
  <2>3. QED BY <1>1, <1>3, <1>4, <1>6, <1>13, <2>1, <2>2 DEF Types
<1>15. Opened'
  BY <1>1, <1>2, <1>3, <1>4 DEF Opened
<1>16. Lengths'
  BY <1>1, <1>4, <1>5, <1>6, Numbers DEF Lengths
<1>17. QED BY <1>8, <1>13, <1>14, <1>15, <1>16 DEF SessionInv

\* When the server begins to relay, what it passes on is what the first frame held, and
\* that is what comes before the second.
LEMMA RelayStarts ==
    ASSUME SessionInv, Kept, spc \in {"dial", "payload"}, spc' = "relay",
           UNCHANGED <<cpc, buf, toSend, appGot, payload, targetGot, targetSent>>,
           ULocal' = ULocal, DLocal' = DLocal, UTunnel' = UTunnel, DTunnel' = DTunnel,
           URemote' = URemote \o payload, DRemote' = DRemote
    PROVE  /\ Sending' /\ ClientReads' /\ Replying'
           /\ TunnelUp' /\ RemoteUp' /\ TunnelDown' /\ RemoteDown'
           /\ URemote' \in Seq(Item) /\ Len(URemote') <= BufLen
<1>1. /\ Types /\ Sending /\ ClientReads /\ Replying /\ TunnelUp /\ RemoteUp /\ TunnelDown
      /\ RemoteDown /\ Opened /\ Lengths
  BY DEF SessionInv
<1>2. Sending' /\ Said' = Said
  BY <1>1, SendingSame
<1>3. Read' = Read
  BY <1>2 DEF Read
<1>4. ClientReads'
  BY <1>1, <1>2, <1>3, ClientReadsSame
<1>5. Replying' /\ Told' = Told
  BY <1>1, <1>3, ReplyingSame
<1>6. Base' = Base /\ Start' = Start
  BY DEF Base, Start, Kept
<1>7. Fetched' = Fetched /\ Fetched = Len(Answers)
  BY <1>1, SameScript DEF Fetched, RemoteDown
<1>8. RemoteDown'
  BY <1>1, <1>7, SameScript DEF RemoteDown
<1>9. /\ targetGot = <<>> /\ URemote = <<>> /\ payload = FirstData
  BY <1>1 DEF RemoteUp, Nothing
<1>10. /\ payload \in Seq(Item) /\ buf \in Seq(Item) /\ Len(buf) <= BufLen /\ Len(buf) \in Nat
       /\ Len(Wire) \in Nat /\ Base \in Nat /\ Start \in Nat /\ Kind
       /\ BufLen \in Nat
  BY <1>1, Counted, Numbers DEF Types
<1>11. URemote' = FirstData
  <2> DEFINE p == payload
  <2>1. p \in Seq(Item)
    BY <1>10
  <2> HIDE DEF p
  <2>2. <<>> \o p = p
    BY <2>1
  <2>3. QED BY <1>9, <2>2 DEF p
<1>12. ReadFrames = 2 /\ ReadFrames' = 2
  BY DEF ReadFrames
<1>13. Written(2)
  <2>1. PICK w \in ReadFrames..2 : Written(w)
    BY <1>1 DEF TunnelUp
  <2>2. w = 2
    BY <1>12
  <2>3. QED BY <2>1, <2>2
<1>14. Relayed
  BY <1>13 DEF Written
<1>15. PICK hi \in Nat :
         /\ Chain(Wire, UTunnel, 0, Base, hi)
         /\ cpc \in {"established", "relay"} => hi = Read
  <2>1. 2 - ReadFrames = 0
    BY <1>12
  <2>2. QED BY <1>14, <2>1 DEF Relayed
<1>16. Wire \in Seq(Item) /\ Base <= Len(Wire)
  <2>1. CASE proto = "socks"
    <3>1. Len(Asked) = 2 /\ Len(Wire) = Len(Asked) + UpLen /\ Wire \in Seq(Item)
      BY <1>10, <2>1, WireIs
    <3>2. QED BY <2>1, <3>1, Numbers DEF Base
  <2>2. CASE proto # "socks"
    BY <1>1, <1>10, <2>2, WireIs DEF Base, ClientReads, Part
  <2>3. QED BY <2>1, <2>2
<1>17. Part(Wire, FirstData, Start, Base) /\ Len(FirstData) <= BufLen /\ FirstData \in Seq(Item)
  <2>1. CASE proto = "plain"
    <3>1. FirstData = buf /\ Start = 0 /\ Base = Len(buf) /\ proto # "socks"
      BY <2>1 DEF FirstData, Start, Base
    <3>2. Part(Wire, buf, 0, Len(buf))
      BY <1>1, <3>1 DEF ClientReads
    <3>3. QED BY <1>10, <3>1, <3>2
  <2>2. CASE proto # "plain"
    <3>1. FirstData = <<>> /\ Start = Base
      BY <2>2 DEF FirstData, Start
    <3>2. Part(Wire, <<>>, Base, Base)
      BY <1>10, <1>16, PartEmpty
    <3>3. QED BY <1>10, <3>1, <3>2
  <2>3. QED BY <2>1, <2>2
<1>18. Start + Len(targetGot) = Start /\ Passed' = Base
  <2>1. Len(FirstData) = Base - Start
    BY <1>17 DEF Part
  <2>2. Len(URemote') = Base - Start
    BY <1>11, <2>1
  <2>3. Len(targetGot) = 0 /\ Len(targetGot') = 0
    BY <1>9
  <2>4. Passed' = Start' + Len(targetGot') + Len(URemote')
    BY DEF Passed
  <2>5. QED BY <1>6, <1>10, <2>2, <2>3, <2>4
<1>19. Delivered'
  <2>1. Part(Wire', targetGot', Start', Start' + Len(targetGot'))
    <3>1. Part(Wire, <<>>, Start, Start)
      BY <1>10, <1>16, <1>17, PartEmpty DEF Part
    <3>2. QED BY <1>6, <1>9, <1>18, <3>1, SameScript
  <2>2. Part(Wire', URemote', Start' + Len(targetGot'), Passed')
    BY <1>6, <1>11, <1>17, <1>18, SameScript
  <2>3. QED BY <1>14, <2>1, <2>2 DEF Delivered, Relayed, Kept
<1>20. RemoteUp'
  BY <1>19 DEF RemoteUp
<1>21. TunnelUp'
  <2>1. Chain(Wire', UTunnel', 2 - ReadFrames', IF spc' = "relay" THEN Passed' ELSE Base', hi)
    <3>1. 2 - ReadFrames' = 0
      BY <1>12
    <3>2. QED BY <1>15, <1>18, <3>1, SameScript
  <2>2. Len(UTunnel') >= 2 - ReadFrames'
    BY <1>12, <1>14 DEF Relayed
  <2>3. Relayed'
    BY <1>3, <1>12, <1>14, <1>15, <2>1, <2>2 DEF Relayed, Kept
  <2>4. Written(2)'
    BY <1>13, <2>3 DEF Written
  <2>5. QED BY <1>12, <2>4 DEF TunnelUp
<1>22. TunnelDown'
  <2> SUFFICES ASSUME cpc' # "done"
               PROVE \E top \in Nat :
                 /\ Chain(Answer', DTunnel', 0, IF cpc' = "relay" THEN Told' ELSE (Len(Answers))', top)
                 /\ top = Fetched'
    BY DEF TunnelDown
  <2>1. PICK top \in Nat :
          /\ Chain(Answer, DTunnel, 0, IF cpc = "relay" THEN Told ELSE Len(Answers), top)
          /\ top = Len(Answers)
    BY <1>1 DEF TunnelDown
  <2>2. Chain(Answer', DTunnel', 0, IF cpc' = "relay" THEN Told' ELSE (Len(Answers))', top)
    BY <1>5, <2>1, SameScript
  <2>3. QED BY <1>7, <2>1, <2>2
<1>23. QED BY <1>2, <1>4, <1>5, <1>8, <1>11, <1>17, <1>20, <1>21, <1>22

LEMMA DialTargetStep ==
    ASSUME SessionInv, DialTarget PROVE SessionInv'
<1>1. /\ Types /\ Sending /\ ClientReads /\ Replying /\ TunnelUp /\ RemoteUp /\ TunnelDown
      /\ RemoteDown /\ Opened /\ Lengths
  BY DEF SessionInv
<1>2. /\ spc = "dial" /\ opened' = opened \cup {"remote"} /\ net' = net /\ Kept
      /\ \/ payload = <<>> /\ spc' = "relay" /\ running' = running \cup Server
         \/ spc' = "payload" /\ running' = running
      /\ UNCHANGED <<toSend, appGot, buf, cpc, payload, targetGot, targetSent, reset>>
  BY DEF DialTarget, Kept, appVars, clientVars, targetVars
<1>3. /\ ULocal' = ULocal /\ DLocal' = DLocal
      /\ UTunnel' = UTunnel /\ DTunnel' = DTunnel /\ URemote' = URemote /\ DRemote' = DRemote
  BY <1>2 DEF ULocal, DLocal, UTunnel, DTunnel, URemote, DRemote, Unread
<1>4. Types'
  <2>1. Kind'
    BY <1>1, <1>2, SameScript DEF Types
  <2>2. spc' \in ServerStates
    BY <1>2 DEF ServerStates
  <2>3. running' \subseteq Tasks /\ (spc' # "relay" => running' \cap Server = {})
    BY <1>1, <1>2 DEF Types, Tasks
  <2>4. cpc' # "relay" => running' \cap Client = {}
    BY <1>1, <1>2 DEF Types, Client, Server
  <2>5. opened' \subseteq Conns /\ reset' \subseteq opened'
    BY <1>1, <1>2 DEF Types, Conns
  <2>6. QED BY <1>1, <1>2, <1>3, <2>1, <2>2, <2>3, <2>4, <2>5 DEF Types
<1>5. Opened'
  BY <1>1, <1>2, <1>3 DEF Opened
<1>6. Lengths'
  BY <1>1, <1>3 DEF Lengths
<1>7. CASE payload = <<>> /\ spc' = "relay"
  <2>1. URemote = <<>>
    BY <1>1, <1>2 DEF RemoteUp, Nothing
  <2>2. URemote' = URemote \o payload
    BY <1>3, <1>7, <2>1
  <2>3. Sending' /\ ClientReads' /\ Replying' /\ TunnelUp' /\ RemoteUp' /\ TunnelDown' /\ RemoteDown'
    BY <1>2, <1>3, <1>7, <2>2, RelayStarts
  <2>4. QED BY <1>4, <1>5, <1>6, <2>3 DEF SessionInv
<1>8. CASE spc' = "payload"
  <2>1. spc \notin {"relay", "done"} /\ spc' \notin {"relay", "done"}
    BY <1>2, <1>8
  <2>2. /\ Sending' /\ ClientReads' /\ Replying' /\ RemoteDown' /\ TunnelDown' /\ Nothing'
        /\ Read' = Read /\ Base' = Base /\ First' = First /\ FirstData' = FirstData
    BY <1>2, <1>3, <2>1, ServerEarly
  <2>3. RemoteUp'
    BY <1>1, <1>2, <1>8, <2>2 DEF RemoteUp
  <2>4. ReadFrames = 2 /\ ReadFrames' = 2
    BY <1>2, <1>8 DEF ReadFrames
  <2>5. PICK w \in ReadFrames..2 : Written(w)
    BY <1>1, <1>2 DEF TunnelUp
  <2>6. ASSUME Relayed PROVE Relayed'
    <3>1. PICK hi \in Nat :
            /\ Chain(Wire, UTunnel, 2 - ReadFrames, Base, hi)
            /\ cpc \in {"established", "relay"} => hi = Read
      BY <1>2, <2>6 DEF Relayed
    <3>2. Chain(Wire', UTunnel', 2 - ReadFrames', Base', hi)
      BY <1>2, <1>3, <2>2, <2>4, <3>1, SameScript
    <3>3. QED BY <1>2, <1>3, <2>1, <2>2, <2>4, <2>6, <3>1, <3>2 DEF Relayed, Kept
  <2>7. Written(w)'
    BY <1>2, <1>3, <2>4, <2>5, <2>6 DEF Written
  <2>8. TunnelUp'
    BY <2>4, <2>5, <2>7 DEF TunnelUp
  <2>9. QED BY <1>4, <1>5, <1>6, <2>2, <2>3, <2>8 DEF SessionInv
<1>9. QED BY <1>2, <1>7, <1>8

LEMMA SendPayloadStep ==
    ASSUME SessionInv, SendPayload PROVE SessionInv'
<1>1. Types /\ Opened /\ Lengths /\ RemoteUp
  BY DEF SessionInv
<1>2. /\ spc = "payload" /\ spc' = "relay" /\ net' = Put(net, Up("remote"), payload)
      /\ running' = running \cup Server /\ Kept
      /\ UNCHANGED <<toSend, appGot, buf, cpc, payload, targetGot, targetSent, opened, reset>>
  BY DEF SendPayload, Kept, appVars, clientVars, targetVars
<1>3. /\ Shape(net') /\ ULocal' = ULocal /\ DLocal' = DLocal
      /\ UTunnel' = UTunnel /\ DTunnel' = DTunnel
      /\ URemote' = URemote \o payload /\ DRemote' = DRemote
  BY <1>1, <1>2, NetPut, StreamNames DEF Types, ULocal, DLocal, UTunnel, DTunnel, URemote, DRemote
<1>4. /\ Sending' /\ ClientReads' /\ Replying'
      /\ TunnelUp' /\ RemoteUp' /\ TunnelDown' /\ RemoteDown'
      /\ URemote' \in Seq(Item) /\ Len(URemote') <= BufLen
  BY <1>2, <1>3, RelayStarts
<1>5. Types'
  <2>1. Kind'
    BY <1>1, <1>2, SameScript DEF Types
  <2>2. spc' \in ServerStates /\ running' \subseteq Tasks
    BY <1>1, <1>2 DEF Types, ServerStates, Tasks
  <2>3. cpc' # "relay" => running' \cap Client = {}
    BY <1>1, <1>2 DEF Types, Client, Server
  <2>4. QED BY <1>1, <1>2, <1>3, <1>4, <2>1, <2>2, <2>3 DEF Types
<1>6. Opened'
  BY <1>1, <1>2, <1>3 DEF Opened
<1>7. Lengths'
  <2>1. Len(URemote') < Capacity + Longest
    <3>1. Len(URemote') \in Nat
      BY <1>4
    <3>2. QED BY <1>4, <3>1, Numbers DEF Longest
  <2>2. QED BY <1>1, <1>3, <2>1 DEF Lengths
<1>8. QED BY <1>4, <1>5, <1>6, <1>7 DEF SessionInv

-----------------------------------------------------------------------------
(* The relay tasks.                                                        *)

\* Which streams the tasks join.
LEMMA Routes ==
    /\ In["clientUp"] = Up("local") /\ Out["clientUp"] = Up("tunnel")
    /\ In["clientDown"] = Down("tunnel") /\ Out["clientDown"] = Down("local")
    /\ In["serverUp"] = Up("tunnel") /\ Out["serverUp"] = Up("remote")
    /\ In["serverDown"] = Down("remote") /\ Out["serverDown"] = Down("tunnel")
BY DEF In, Out

\* What a task leaves alone, and which handler it runs in.
LEMMA Copying ==
    ASSUME Types, NEW t \in Tasks, Copy(t)
    PROVE  /\ Kept /\ Settled /\ cpc' = cpc /\ spc' = spc
           /\ UNCHANGED <<toSend, appGot, buf, payload, targetGot, targetSent, opened, reset, running>>
           /\ t \in Client => cpc = "relay"
           /\ t \in Server => spc = "relay"
           /\ Len(Unread(Out[t])) < Capacity
<1>1. /\ Kept /\ Settled /\ cpc' = cpc /\ spc' = spc
      /\ UNCHANGED <<toSend, appGot, buf, payload, targetGot, targetSent, opened, reset, running>>
  BY DEF Copy, Kept, Settled, appVars, clientVars, serverVars, targetVars
<1>2. t \in running /\ Len(Unread(Out[t])) < Capacity
  BY DEF Copy, Writable
<1>3. (t \in Client => cpc = "relay") /\ (t \in Server => spc = "relay")
  BY <1>2 DEF Types
<1>4. QED BY <1>1, <1>2, <1>3

\* The first k unread items go as one frame.
LEMMA FrameMade ==
    ASSUME NEW W \in Seq(Item), NEW q, NEW lo, NEW hi, Part(W, q, lo, hi), NEW k \in 1..Len(q)
    PROVE  /\ Part(W, SubSeq(q, 1, k), lo, lo + k) /\ Len(SubSeq(q, 1, k)) = k
           /\ Part(W, SubSeq(q, k + 1, Len(q)), lo + k, hi)
           /\ Len(SubSeq(q, k + 1, Len(q))) = Len(q) - k
<1>1. /\ q \in Seq(Item) /\ Len(q) \in Nat /\ k \in 0..Len(q)
      /\ lo \in Nat /\ hi \in Nat /\ Len(q) = hi - lo
  BY DEF Part
<1>2. /\ Part(W, SubSeq(q, 1, k), lo, lo + k)
      /\ Part(W, SubSeq(q, k + 1, Len(q)), lo + k, hi)
  BY <1>1, PartCut
<1>3. Len(SubSeq(q, 1, k)) = k /\ Len(SubSeq(q, k + 1, Len(q))) = Len(q) - k
  BY <1>1
<1>4. QED BY <1>2, <1>3

\* A frame behind others.
LEMMA FrameAdded ==
    ASSUME NEW X \in Seq(Seq(Item)), NEW q \in Seq(Item)
    PROVE  /\ X \o <<q>> \in Seq(Seq(Item)) /\ Len(X \o <<q>>) = Len(X) + 1 /\ Len(X) \in Nat
           /\ \A i \in 1..Len(X) : (X \o <<q>>)[i] = X[i]
OBVIOUS

LEMMA ClientUpStep ==
    ASSUME SessionInv, Copy("clientUp") PROVE SessionInv'
<1>1. /\ Types /\ Sending /\ ClientReads /\ Replying /\ TunnelUp /\ RemoteUp /\ TunnelDown
      /\ RemoteDown /\ Opened /\ Lengths
  BY DEF SessionInv
<1>2. /\ Kept /\ Settled /\ cpc' = cpc /\ spc' = spc /\ cpc = "relay" /\ Len(UTunnel) < Capacity
      /\ UNCHANGED <<toSend, appGot, buf, payload, targetGot, targetSent, opened, reset, running>>
  <2>1. "clientUp" \in Tasks /\ "clientUp" \in Client
    BY DEF Tasks, Client
  <2>2. QED BY <1>1, <2>1, Copying, Routes DEF UTunnel
<1>3. PICK k \in 1..Len(ULocal) :
        net' = Put(Took(net, Up("local"), k), Up("tunnel"), <<SubSeq(ULocal, 1, k)>>)
  BY Routes DEF Copy, ULocal
<1> DEFINE q == SubSeq(ULocal, 1, k)
           frames == <<q>>
<1>4. /\ Shape(net') /\ ULocal' = SubSeq(ULocal, k + 1, Len(ULocal)) /\ DLocal' = DLocal
      /\ UTunnel' = UTunnel \o frames /\ DTunnel' = DTunnel /\ URemote' = URemote /\ DRemote' = DRemote
  <2>1. Shape(net) /\ net' = Put(Took(net, Up("local"), k), Up("tunnel"), frames)
    BY <1>1, <1>3 DEF Types
  <2> HIDE DEF q, frames
  <2>2. /\ Shape(net')
        /\ \A r \in Streams :
             Unread(r)' = IF r = Up("local") THEN SubSeq(Unread(Up("local")), k + 1, Len(Unread(Up("local"))))
                          ELSE IF r = Up("tunnel") THEN Unread(Up("tunnel")) \o frames ELSE Unread(r)
    BY <2>1, NetMoved, StreamNames
  <2>3. QED BY <2>2, StreamNames DEF ULocal, DLocal, UTunnel, DTunnel, URemote, DRemote
<1> HIDE DEF q
<1>5. /\ Wire \in Seq(Item) /\ Part(Wire, ULocal, Read, Said)
      /\ Len(ULocal) \in Nat /\ Read \in Nat /\ Said \in Nat
  BY <1>1, Counted, WireIs DEF ClientReads, Part
<1>6. /\ Part(Wire, q, Read, Read + k) /\ Len(q) = k
      /\ Part(Wire, ULocal', Read + k, Said) /\ Len(ULocal') = Len(ULocal) - k
  BY <1>4, <1>5, FrameMade DEF q
<1>7. q \in Seq(Item) /\ ULocal' \in Seq(Item) /\ UTunnel \in Seq(Seq(Item)) /\ Len(q) <= Capacity
  <2>1. q \in Seq(Item) /\ ULocal' \in Seq(Item)
    BY <1>6 DEF Part
  <2>2. Len(ULocal) <= Capacity /\ UTunnel \in Seq(Seq(Item))
    BY <1>1 DEF Types, Lengths
  <2>3. QED BY <1>5, <1>6, <2>1, <2>2, Numbers
<1>8. /\ UTunnel' \in Seq(Seq(Item)) /\ Len(UTunnel') = Len(UTunnel) + 1 /\ Len(UTunnel) \in Nat
      /\ \A i \in 1..Len(UTunnel) : UTunnel'[i] = UTunnel[i]
  BY <1>4, <1>7, FrameAdded
<1>9. Sending' /\ Said' = Said
  BY <1>1, <1>2, SendingSame
<1>10. Read' = Read + k /\ Told' = Told /\ k \in Nat
  <2>1. k \in Nat
    BY <1>5
  <2>2. Told' = Told
    BY <1>2, <1>4 DEF Told
  <2>3. Said - (Len(ULocal) - k) = (Said - Len(ULocal)) + k
    BY <1>5, <2>1
  <2>4. QED BY <1>6, <1>9, <2>1, <2>2, <2>3 DEF Read
<1>11. ClientReads'
  <2>1. Part(Wire', ULocal', Read', Said')
    BY <1>2, <1>6, <1>9, <1>10, SameScript
  <2>2. proto' # "socks" => Part(Wire', buf', 0, Len(buf')) /\ Len(buf') >= headerLen'
    BY <1>1, <1>2, SameScript DEF ClientReads, Kept
  <2>3. QED BY <1>1, <1>2, <2>1, <2>2 DEF ClientReads, Kept
<1>12. Replying'
  <2>1. Part(Answer', appGot', 0, Len(appGot')) /\ Part(Answer', DLocal', Len(appGot'), Told')
    BY <1>1, <1>2, <1>4, <1>10, SameScript DEF Replying
  <2>2. Told' >= Len(Answers')
    BY <1>1, <1>2, <1>10, SameScript DEF Replying
  <2>3. headerLen \in Nat
    BY <1>1, Numbers DEF Types
  <2>4. QED BY <1>1, <1>2, <1>5, <1>10, <2>1, <2>2, <2>3 DEF Replying, Kept
<1>13. RemoteUp' /\ Passed' = Passed
  BY <1>1, <1>2, <1>4, RemoteUpSame
<1>14. RemoteDown' /\ Fetched' = Fetched
  BY <1>1, <1>2, <1>4, RemoteDownSame
<1>15. TunnelDown'
  BY <1>1, <1>2, <1>4, <1>10, <1>14, TunnelDownSame
<1>16. TunnelUp'
  <2> SUFFICES ASSUME spc' # "done" PROVE \E w \in ReadFrames'..2 : Written(w)'
    BY DEF TunnelUp
  <2>1. ReadFrames' = ReadFrames /\ ReadFrames \in 0..2
    BY <1>2 DEF ReadFrames
  <2>2. PICK w \in ReadFrames..2 : Written(w)
    BY <1>1, <1>2 DEF TunnelUp
  <2>3. w = 2 /\ Relayed
    BY <1>2, <2>2 DEF Written
  <2> DEFINE lo == IF spc = "relay" THEN Passed ELSE Base
             n == 2 - ReadFrames
  <2>4. Chain(Wire, UTunnel, n, lo, Read)
    BY <1>2, <2>3 DEF Relayed
  <2>5. lo' = lo
    BY <1>2, <1>13 DEF Base, Kept
  <2>6. n' = n
    BY <2>1
  <2>7. n <= Len(UTunnel) /\ n \in Nat
    BY <2>1, <2>3 DEF Relayed
  <2> HIDE DEF lo, n
  <2>8. Chain(Wire, UTunnel', n, lo, Read + k)
    <3> DEFINE top == Read + k
    <3>1. Part(Wire, q, Read, top) /\ Len(q) <= Capacity
      BY <1>6, <1>7
    <3> HIDE DEF top
    <3>2. Chain(Wire, Append(UTunnel, q), n, lo, top) /\ UTunnel \o <<q>> = Append(UTunnel, q)
      BY <2>4, <3>1, ChainAdd
    <3>3. QED BY <1>4, <3>2 DEF top, frames
  <2>9. Chain(Wire', UTunnel', n', lo', Read')
    BY <1>2, <1>10, <2>5, <2>6, <2>8, SameScript
  <2>10. Len(UTunnel') >= n'
    BY <1>8, <2>6, <2>7
  <2>11. ReadFrames' < 2 => UTunnel'[n'] = First'
    <3> SUFFICES ASSUME ReadFrames' < 2 PROVE UTunnel'[n'] = First'
      OBVIOUS
    <3>1. n \in 1..Len(UTunnel)
      BY <2>1, <2>7 DEF n
    <3>2. UTunnel[n] = First
      BY <2>1, <2>3 DEF Relayed, n
    <3>3. First' = First
      BY <1>2 DEF First, FirstData, Kept
    <3>4. QED BY <1>8, <2>6, <3>1, <3>2, <3>3
  <2>12. Read' \in Nat
    BY <1>5, <1>10
  <2>13. Relayed'
    BY <1>2, <2>3, <2>9, <2>10, <2>11, <2>12 DEF Relayed, Kept, lo, n
  <2>14. Written(2)'
    BY <1>2, <2>13 DEF Written
  <2>15. QED BY <2>1, <2>14
<1>17. Types'
  <2>1. Kind'
    BY <1>1, <1>2, SameScript DEF Types
  <2>2. QED BY <1>1, <1>2, <1>4, <1>7, <1>8, <2>1 DEF Types
<1>18. Opened'
  BY <1>1, <1>2, <1>4 DEF Opened
<1>19. Lengths'
  BY <1>1, <1>2, <1>4, <1>5, <1>6, <1>8, <1>10, Numbers DEF Lengths
<1>20. QED BY <1>9, <1>11, <1>12, <1>13, <1>14, <1>15, <1>16, <1>17, <1>18, <1>19 DEF SessionInv

LEMMA ServerUpStep ==
    ASSUME SessionInv, Copy("serverUp") PROVE SessionInv'
<1>1. /\ Types /\ Sending /\ ClientReads /\ Replying /\ TunnelUp /\ RemoteUp /\ TunnelDown
      /\ RemoteDown /\ Opened /\ Lengths
  BY DEF SessionInv
<1>2. /\ Kept /\ Settled /\ cpc' = cpc /\ spc' = spc /\ spc = "relay" /\ Len(URemote) < Capacity
      /\ UNCHANGED <<toSend, appGot, buf, payload, targetGot, targetSent, opened, reset, running>>
  <2>1. "serverUp" \in Tasks /\ "serverUp" \in Server
    BY DEF Tasks, Server
  <2>2. QED BY <1>1, <2>1, Copying, Routes DEF URemote
<1> DEFINE q == Head(UTunnel)
<1>3. Len(UTunnel) \in Nat /\ UTunnel # <<>> /\ net' = Put(Took(net, Up("tunnel"), 1), Up("remote"), q)
  <2>1. PICK k \in 1..Len(UTunnel) :
          k = 1 /\ net' = Put(Took(net, Up("tunnel"), k), Up("remote"), q)
    BY Routes DEF Copy, UTunnel
  <2>2. UTunnel \in Seq(Seq(Item))
    BY <1>1 DEF Types
  <2>3. QED BY <2>1, <2>2
<1> HIDE DEF q
<1>4. /\ Shape(net') /\ ULocal' = ULocal /\ DLocal' = DLocal
      /\ UTunnel' = SubSeq(UTunnel, 1 + 1, Len(UTunnel))
      /\ DTunnel' = DTunnel /\ URemote' = URemote \o q /\ DRemote' = DRemote
  <2>1. /\ Shape(net')
        /\ \A r \in Streams :
             Unread(r)' = IF r = Up("tunnel") THEN SubSeq(Unread(Up("tunnel")), 1 + 1, Len(Unread(Up("tunnel"))))
                          ELSE IF r = Up("remote") THEN Unread(Up("remote")) \o q ELSE Unread(r)
    BY <1>1, <1>3, NetMoved, StreamNames DEF Types
  <2>2. QED BY <2>1, StreamNames DEF ULocal, DLocal, UTunnel, DTunnel, URemote, DRemote
<1>5. UTunnel' = Tail(UTunnel) /\ UTunnel' \in Seq(Seq(Item)) /\ Len(UTunnel') = Len(UTunnel) - 1
  <2>1. UTunnel \in Seq(Seq(Item))
    BY <1>1 DEF Types
  <2>2. QED BY <1>3, <1>4, <2>1, OneLess
<1>6. /\ Wire \in Seq(Item) /\ Len(URemote) \in Nat /\ Len(targetGot) \in Nat /\ Start \in Nat
      /\ Kind
  BY <1>1, Counted, WireIs
<1>7. ReadFrames = 2 /\ ReadFrames' = 2 /\ 2 - 2 = 0
  BY <1>2 DEF ReadFrames
<1>8. Written(2) /\ Relayed
  <2>1. PICK w \in ReadFrames..2 : Written(w)
    BY <1>1, <1>2 DEF TunnelUp
  <2>2. w = 2
    BY <1>7
  <2>3. QED BY <2>1, <2>2 DEF Written
<1>9. PICK hi \in Nat :
        /\ Chain(Wire, UTunnel, 0, Passed, hi)
        /\ cpc \in {"established", "relay"} => hi = Read
  BY <1>2, <1>7, <1>8 DEF Relayed
<1>10. PICK mid : /\ Part(Wire, q, Passed, mid) /\ Len(q) <= Capacity
                  /\ Chain(Wire, Tail(UTunnel), 0, mid, hi)
  BY <1>3, <1>9, ChainTake DEF q
<1>11. Delivered /\ Part(Wire, URemote, Start + Len(targetGot), Passed)
  BY <1>1, <1>2 DEF RemoteUp, Delivered
<1>12. Part(Wire, URemote', Start + Len(targetGot), mid)
  <2> DEFINE at == Start + Len(targetGot)
             here == Passed
  <2>1. Part(Wire, URemote, at, here) /\ Part(Wire, q, here, mid)
    BY <1>10, <1>11
  <2> HIDE DEF at, here
  <2>2. Part(Wire, URemote \o q, at, mid)
    BY <1>6, <2>1, PartJoin
  <2>3. QED BY <1>4, <2>2 DEF at
<1>13. Passed' = mid /\ Start' = Start
  <2>1. Start' = Start
    BY <1>2 DEF Start, Base, Kept
  <2>2. Len(URemote') = mid - (Start + Len(targetGot)) /\ mid \in Nat
    BY <1>12 DEF Part
  <2>3. Passed' = Start' + Len(targetGot') + Len(URemote')
    BY DEF Passed
  <2>4. QED BY <1>2, <1>6, <2>1, <2>2, <2>3
<1>14. Delivered'
  <2>1. Part(Wire', targetGot', Start', Start' + Len(targetGot'))
    BY <1>2, <1>11, <1>13, SameScript DEF Delivered
  <2>2. Part(Wire', URemote', Start' + Len(targetGot'), Passed')
    BY <1>2, <1>12, <1>13, SameScript
  <2>3. QED BY <1>2, <1>11, <2>1, <2>2 DEF Delivered, Kept
<1>15. RemoteUp'
  BY <1>2, <1>14 DEF RemoteUp
<1>16. Sending' /\ Said' = Said
  BY <1>1, <1>2, SendingSame
<1>17. Read' = Read
  BY <1>4, <1>16 DEF Read
<1>18. ClientReads'
  BY <1>1, <1>2, <1>4, <1>16, <1>17, ClientReadsSame
<1>19. Replying' /\ Told' = Told
  BY <1>1, <1>2, <1>4, <1>17, ReplyingSame
<1>20. TunnelUp'
  <2>1. Chain(Wire', UTunnel', 2 - ReadFrames', IF spc' = "relay" THEN Passed' ELSE Base', hi)
    BY <1>2, <1>5, <1>7, <1>10, <1>13, SameScript
  <2>2. Len(UTunnel') \in Nat
    BY <1>5
  <2>3. Len(UTunnel') >= 2 - ReadFrames'
    BY <1>7, <2>2
  <2>4. Relayed'
    BY <1>2, <1>7, <1>8, <1>9, <1>17, <2>1, <2>3 DEF Relayed, Kept
  <2>5. Written(2)'
    BY <1>2, <1>8, <2>4 DEF Written
  <2>6. QED BY <1>7, <2>5 DEF TunnelUp
<1>21. RemoteDown' /\ Fetched' = Fetched
  BY <1>1, <1>2, <1>4, RemoteDownSame
<1>22. TunnelDown'
  BY <1>1, <1>2, <1>4, <1>19, <1>21, TunnelDownSame
<1>23. URemote' \in Seq(Item) /\ Len(URemote') = Len(URemote) + Len(q) /\ Len(q) \in Nat
  <2>1. URemote \in Seq(Item) /\ q \in Seq(Item)
    BY <1>1, <1>10 DEF Types, Part
  <2>2. QED BY <1>4, <2>1
<1>24. Types'
  <2>1. Kind'
    BY <1>1, <1>2, SameScript DEF Types
  <2>2. QED BY <1>1, <1>2, <1>4, <1>5, <1>23, <2>1 DEF Types
<1>25. Opened'
  <2>1. UTunnel' # <<>> => UTunnel # <<>>
    BY <1>3
  <2>2. QED BY <1>1, <1>2, <1>4, <2>1 DEF Opened
<1>26. Lengths'
  <2>1. Len(URemote') < Capacity + Longest
    BY <1>2, <1>6, <1>10, <1>23, Numbers DEF Longest
  <2>2. Len(UTunnel') <= Capacity
    BY <1>1, <1>3, <1>5, Numbers DEF Lengths
  <2>3. QED BY <1>1, <1>4, <2>1, <2>2 DEF Lengths
<1>27. QED BY <1>15, <1>16, <1>18, <1>19, <1>20, <1>21, <1>22, <1>24, <1>25, <1>26 DEF SessionInv

LEMMA ServerDownStep ==
    ASSUME SessionInv, Copy("serverDown") PROVE SessionInv'
<1>1. /\ Types /\ Sending /\ ClientReads /\ Replying /\ TunnelUp /\ RemoteUp /\ TunnelDown
      /\ RemoteDown /\ Opened /\ Lengths
  BY DEF SessionInv
<1>2. /\ Kept /\ Settled /\ cpc' = cpc /\ spc' = spc /\ spc = "relay" /\ Len(DTunnel) < Capacity
      /\ UNCHANGED <<toSend, appGot, buf, payload, targetGot, targetSent, opened, reset, running>>
  <2>1. "serverDown" \in Tasks /\ "serverDown" \in Server
    BY DEF Tasks, Server
  <2>2. QED BY <1>1, <2>1, Copying, Routes DEF DTunnel
<1>3. PICK k \in 1..Len(DRemote) :
        net' = Put(Took(net, Down("remote"), k), Down("tunnel"), <<SubSeq(DRemote, 1, k)>>)
  BY Routes DEF Copy, DRemote
<1> DEFINE q == SubSeq(DRemote, 1, k)
           frames == <<q>>
<1>4. /\ Shape(net') /\ ULocal' = ULocal /\ DLocal' = DLocal /\ UTunnel' = UTunnel
      /\ DTunnel' = DTunnel \o frames /\ URemote' = URemote
      /\ DRemote' = SubSeq(DRemote, k + 1, Len(DRemote))
  <2>1. Shape(net) /\ net' = Put(Took(net, Down("remote"), k), Down("tunnel"), frames)
    BY <1>1, <1>3 DEF Types
  <2> HIDE DEF q, frames
  <2>2. /\ Shape(net')
        /\ \A r \in Streams :
             Unread(r)' = IF r = Down("remote") THEN SubSeq(Unread(Down("remote")), k + 1, Len(Unread(Down("remote"))))
                          ELSE IF r = Down("tunnel") THEN Unread(Down("tunnel")) \o frames ELSE Unread(r)
    BY <2>1, NetMoved, StreamNames
  <2>3. QED BY <2>2, StreamNames DEF ULocal, DLocal, UTunnel, DTunnel, URemote, DRemote
<1> HIDE DEF q
<1> DEFINE end == Len(Answers) + targetSent
<1>5. /\ Answer \in Seq(Item) /\ Part(Answer, DRemote, Fetched, end)
      /\ Len(DRemote) \in Nat /\ Fetched \in Nat /\ end \in Nat
  BY <1>1, Counted, AnswerIs DEF RemoteDown, Part
<1> HIDE DEF end
<1>6. /\ Part(Answer, q, Fetched, Fetched + k) /\ Len(q) = k
      /\ Part(Answer, DRemote', Fetched + k, end) /\ Len(DRemote') = Len(DRemote) - k
  BY <1>4, <1>5, FrameMade DEF q
<1>7. /\ q \in Seq(Item) /\ DRemote' \in Seq(Item) /\ DTunnel \in Seq(Seq(Item))
      /\ Len(q) <= Capacity /\ k \in Nat
  <2>1. q \in Seq(Item) /\ DRemote' \in Seq(Item)
    BY <1>6 DEF Part
  <2>2. Len(DRemote) <= Capacity /\ DTunnel \in Seq(Seq(Item))
    BY <1>1 DEF Types, Lengths
  <2>3. QED BY <1>5, <1>6, <2>1, <2>2, Numbers
<1>8. DTunnel' \in Seq(Seq(Item)) /\ Len(DTunnel') = Len(DTunnel) + 1 /\ Len(DTunnel) \in Nat
  BY <1>4, <1>7, FrameAdded
<1>9. Sending' /\ Said' = Said
  BY <1>1, <1>2, SendingSame
<1>10. Read' = Read
  BY <1>4, <1>9 DEF Read
<1>11. ClientReads'
  BY <1>1, <1>2, <1>4, <1>9, <1>10, ClientReadsSame
<1>12. Replying' /\ Told' = Told
  BY <1>1, <1>2, <1>4, <1>10, ReplyingSame
<1>13. RemoteUp' /\ Passed' = Passed
  BY <1>1, <1>2, <1>4, RemoteUpSame
<1>14. TunnelUp'
  BY <1>1, <1>2, <1>4, <1>10, <1>13, TunnelUpSame
<1>15. Fetched' = Fetched + k /\ end' = end /\ (Len(Answers))' = Len(Answers)
  <2>1. end' = end /\ (Len(Answers))' = Len(Answers)
    BY <1>2, SameScript DEF end
  <2>2. end = Len(Answers) + targetSent
    BY DEF end
  <2>3. Fetched = Len(Answers) + targetSent - Len(DRemote)
    BY DEF Fetched
  <2>4. Fetched' = (Len(Answers))' + targetSent' - Len(DRemote')
    BY DEF Fetched
  <2> HIDE DEF end
  <2>5. Len(Answers) \in Nat /\ targetSent \in Nat
    BY <1>1, Counted
  <2>6. QED BY <1>2, <1>5, <1>6, <1>7, <2>1, <2>2, <2>3, <2>4, <2>5
<1>16. RemoteDown'
  <2>1. Part(Answer', DRemote', Fetched', end')
    BY <1>2, <1>6, <1>15, SameScript
  <2>2. QED BY <1>2, <2>1 DEF RemoteDown, end
<1>17. TunnelDown'
  <2> SUFFICES ASSUME cpc # "done"
               PROVE Chain(Answer', DTunnel', 0, IF cpc' = "relay" THEN Told' ELSE (Len(Answers))', Fetched')
                     /\ Fetched' \in Nat
    BY <1>2 DEF TunnelDown
  <2> DEFINE lo == IF cpc = "relay" THEN Told ELSE Len(Answers)
             top == Fetched + k
  <2>1. Chain(Answer, DTunnel, 0, lo, Fetched)
    BY <1>1, <1>2 DEF TunnelDown
  <2>2. lo' = lo
    BY <1>2, <1>12, <1>15
  <2>3. Part(Answer, q, Fetched, top) /\ top \in Nat
    BY <1>5, <1>6, <1>7
  <2> HIDE DEF lo, top
  <2>4. Chain(Answer, Append(DTunnel, q), 0, lo, top) /\ DTunnel \o <<q>> = Append(DTunnel, q)
    BY <1>7, <2>1, <2>3, ChainAdd
  <2>5. Chain(Answer', DTunnel', 0, lo', top)
    BY <1>2, <1>4, <2>2, <2>4, SameScript DEF frames
  <2>6. QED BY <1>15, <2>3, <2>5 DEF lo, top
<1>18. Types'
  <2>1. Kind'
    BY <1>1, <1>2, SameScript DEF Types
  <2>2. QED BY <1>1, <1>2, <1>4, <1>7, <1>8, <2>1 DEF Types
<1>19. Opened'
  BY <1>1, <1>2, <1>4 DEF Opened
<1>20. Lengths'
  BY <1>1, <1>2, <1>4, <1>5, <1>6, <1>7, <1>8, Numbers DEF Lengths
<1>21. QED BY <1>9, <1>11, <1>12, <1>13, <1>14, <1>16, <1>17, <1>18, <1>19, <1>20 DEF SessionInv

LEMMA ClientDownStep ==
    ASSUME SessionInv, Copy("clientDown") PROVE SessionInv'
<1>1. /\ Types /\ Sending /\ ClientReads /\ Replying /\ TunnelUp /\ RemoteUp /\ TunnelDown
      /\ RemoteDown /\ Opened /\ Lengths
  BY DEF SessionInv
<1>2. /\ Kept /\ Settled /\ cpc' = cpc /\ spc' = spc /\ cpc = "relay" /\ Len(DLocal) < Capacity
      /\ UNCHANGED <<toSend, appGot, buf, payload, targetGot, targetSent, opened, reset, running>>
  <2>1. "clientDown" \in Tasks /\ "clientDown" \in Client
    BY DEF Tasks, Client
  <2>2. QED BY <1>1, <2>1, Copying, Routes DEF DLocal
<1> DEFINE q == Head(DTunnel)
<1>3. Len(DTunnel) \in Nat /\ DTunnel # <<>> /\ net' = Put(Took(net, Down("tunnel"), 1), Down("local"), q)
  <2>1. PICK k \in 1..Len(DTunnel) :
          k = 1 /\ net' = Put(Took(net, Down("tunnel"), k), Down("local"), q)
    BY Routes DEF Copy, DTunnel
  <2>2. DTunnel \in Seq(Seq(Item))
    BY <1>1 DEF Types
  <2>3. QED BY <2>1, <2>2
<1> HIDE DEF q
<1>4. /\ Shape(net') /\ ULocal' = ULocal /\ DLocal' = DLocal \o q /\ UTunnel' = UTunnel
      /\ DTunnel' = SubSeq(DTunnel, 1 + 1, Len(DTunnel))
      /\ URemote' = URemote /\ DRemote' = DRemote
  <2>1. /\ Shape(net')
        /\ \A r \in Streams :
             Unread(r)' = IF r = Down("tunnel") THEN SubSeq(Unread(Down("tunnel")), 1 + 1, Len(Unread(Down("tunnel"))))
                          ELSE IF r = Down("local") THEN Unread(Down("local")) \o q ELSE Unread(r)
    BY <1>1, <1>3, NetMoved, StreamNames DEF Types
  <2>2. QED BY <2>1, StreamNames DEF ULocal, DLocal, UTunnel, DTunnel, URemote, DRemote
<1>5. DTunnel' = Tail(DTunnel) /\ DTunnel' \in Seq(Seq(Item)) /\ Len(DTunnel') = Len(DTunnel) - 1
  <2>1. DTunnel \in Seq(Seq(Item))
    BY <1>1 DEF Types
  <2>2. QED BY <1>3, <1>4, <2>1, OneLess
<1>6. /\ Answer \in Seq(Item) /\ Len(DLocal) \in Nat /\ Len(appGot) \in Nat /\ Kind
      /\ Len(Answers) \in Nat /\ Told \in Nat
  BY <1>1, Counted, AnswerIs
<1>7. PICK hi \in Nat :
        /\ Chain(Answer, DTunnel, 0, Told, hi)
        /\ spc = "relay" => hi = Fetched
        /\ spc \notin {"relay", "done"} => hi = Len(Answers)
  BY <1>1, <1>2 DEF TunnelDown
<1>8. PICK mid : /\ Part(Answer, q, Told, mid) /\ Len(q) <= Capacity
                 /\ Chain(Answer, Tail(DTunnel), 0, mid, hi)
  BY <1>3, <1>7, ChainTake DEF q
<1>9. Part(Answer, DLocal', Len(appGot), mid)
  <2> DEFINE at == Len(appGot)
             here == Told
  <2>1. Part(Answer, DLocal, at, here) /\ Part(Answer, q, here, mid)
    BY <1>1, <1>8 DEF Replying
  <2> HIDE DEF at, here
  <2>2. Part(Answer, DLocal \o q, at, mid)
    BY <1>6, <2>1, PartJoin
  <2>3. QED BY <1>4, <2>2 DEF at
<1>10. Told' = mid /\ mid >= Told /\ mid \in Nat
  <2>1. Len(DLocal') = mid - Len(appGot)
    BY <1>9 DEF Part
  <2>2. mid \in Nat /\ mid >= Told
    BY <1>8 DEF Part
  <2>3. Told' = Len(appGot') + Len(DLocal')
    BY DEF Told
  <2>4. QED BY <1>2, <1>6, <2>1, <2>2, <2>3
<1>11. Sending' /\ Said' = Said
  BY <1>1, <1>2, SendingSame
<1>12. Read' = Read
  BY <1>4, <1>11 DEF Read
<1>13. ClientReads'
  BY <1>1, <1>2, <1>4, <1>11, <1>12, ClientReadsSame
<1>14. Told >= Len(Answers) /\ (Len(Answers))' = Len(Answers)
  BY <1>1, <1>2, SameScript DEF Replying
<1>15. Replying'
  <2>1. Part(Answer', appGot', 0, Len(appGot')) /\ Part(Answer', DLocal', Len(appGot'), Told')
    BY <1>1, <1>2, <1>9, <1>10, SameScript DEF Replying
  <2>2. Told' >= (Len(Answers))'
    BY <1>6, <1>10, <1>14
  <2>3. proto = "socks" => (Told' >= 1 => Read >= 1) /\ (Told' >= 2 => Read >= 2)
    <3> SUFFICES ASSUME proto = "socks" PROVE Read >= 2 /\ Read \in Nat
      OBVIOUS
    <3>1. Len(Answers) = 2
      BY <1>6, AnswersAre
    <3>2. Read >= 2
      BY <1>1, <1>6, <1>14, <3>1 DEF Replying
    <3>3. QED BY <1>1, <3>2 DEF ClientReads, Part
  <2>4. proto = "connect" => Read >= headerLen
    <3> SUFFICES ASSUME proto = "connect" PROVE Read >= headerLen
      OBVIOUS
    <3>1. Len(Answers) = 1
      BY <1>6, AnswersAre DEF Answered
    <3>2. QED BY <1>1, <1>6, <1>14, <3>1 DEF Replying
  <2>5. QED BY <1>2, <1>12, <2>1, <2>2, <2>3, <2>4 DEF Replying, Kept
<1>16. RemoteUp' /\ Passed' = Passed
  BY <1>1, <1>2, <1>4, RemoteUpSame
<1>17. TunnelUp'
  BY <1>1, <1>2, <1>4, <1>12, <1>16, TunnelUpSame
<1>18. RemoteDown' /\ Fetched' = Fetched
  BY <1>1, <1>2, <1>4, RemoteDownSame
<1>19. TunnelDown'
  <2>1. Chain(Answer', DTunnel', 0, IF cpc' = "relay" THEN Told' ELSE (Len(Answers))', hi)
    BY <1>2, <1>5, <1>8, <1>10, SameScript
  <2>2. QED BY <1>2, <1>7, <1>14, <1>18, <2>1 DEF TunnelDown
<1>20. DLocal' \in Seq(Item) /\ Len(DLocal') = Len(DLocal) + Len(q) /\ Len(q) \in Nat
  <2>1. DLocal \in Seq(Item) /\ q \in Seq(Item)
    BY <1>1, <1>8 DEF Types, Part
  <2>2. QED BY <1>4, <2>1
<1>21. Types'
  <2>1. Kind'
    BY <1>1, <1>2, SameScript DEF Types
  <2>2. QED BY <1>1, <1>2, <1>4, <1>5, <1>20, <2>1 DEF Types
<1>22. Opened'
  <2>1. DTunnel' # <<>> => DTunnel # <<>>
    BY <1>3
  <2>2. QED BY <1>1, <1>2, <1>4, <2>1 DEF Opened
<1>23. Lengths'
  <2>1. Len(DLocal') < Capacity + Longest
    BY <1>2, <1>6, <1>8, <1>20, Numbers DEF Longest
  <2>2. Len(DTunnel') <= Capacity
    BY <1>1, <1>3, <1>5, Numbers DEF Lengths
  <2>3. QED BY <1>1, <1>4, <2>1, <2>2 DEF Lengths
<1>24. QED BY <1>11, <1>13, <1>15, <1>16, <1>17, <1>18, <1>19, <1>21, <1>22, <1>23 DEF SessionInv

-----------------------------------------------------------------------------
(* The invariant holds.                                                    *)

LEMMA InitSession ==
    ASSUME Init PROVE SessionInv
<1>1. /\ proto \in Protos /\ headerLen \in HeaderLens \cup {2} /\ (proto = "socks" => headerLen = 2)
      /\ opened = {"local"} /\ reset = {} /\ toSend = Total /\ appGot = <<>> /\ buf = <<>>
      /\ spc = "idle" /\ payload = <<>> /\ running = {} /\ targetGot = <<>> /\ targetSent = 0
      /\ cpc = IF proto = "socks" THEN "greeting" ELSE "header"
  BY DEF Init, Total
<1>2. net = [s \in Streams |-> [data |-> <<>>, fin |-> FALSE, gone |-> FALSE]]
  BY DEF Init
<1>3. /\ Shape(net) /\ ULocal = <<>> /\ DLocal = <<>> /\ UTunnel = <<>> /\ DTunnel = <<>>
      /\ URemote = <<>> /\ DRemote = <<>>
  <2>1. \A s \in Streams : net[s] = [data |-> <<>>, fin |-> FALSE, gone |-> FALSE]
    BY <1>2
  <2>2. \A s \in Streams : net[s].data = <<>> /\ net[s].fin = FALSE /\ net[s].gone = FALSE
    BY <2>1
  <2>3. net = [s \in Streams |-> [data |-> net[s].data, fin |-> net[s].fin, gone |-> net[s].gone]]
    BY <1>2, <2>2
  <2>4. \A s \in Streams : net[s].fin \in BOOLEAN /\ net[s].gone \in BOOLEAN
    BY <2>2
  <2>5. Shape(net)
    BY <2>3, <2>4 DEF Shape
  <2>6. QED BY <2>2, <2>5, StreamNames DEF ULocal, DLocal, UTunnel, DTunnel, URemote, DRemote, Unread
<1>4. Kind
  BY <1>1 DEF Kind
<1>5. /\ Wire \in Seq(Item) /\ Total \in Seq(Item) /\ Answer \in Seq(Item)
      /\ Len(Wire) \in Nat /\ Len(Total) \in Nat /\ Len(Answers) \in Nat
      /\ Len(Answers) <= Len(Answer) /\ headerLen \in Nat
  BY <1>4, WireIs, TotalIs, AnswerIs, Numbers
<1>6. /\ <<>> \in Seq(Item) /\ <<>> \in Seq(Seq(Item)) /\ Len(<<>>) = 0
  OBVIOUS
<1>7. Types
  <2>1. cpc \in ClientStates /\ spc \in ServerStates
    BY <1>1 DEF ClientStates, ServerStates
  <2>2. targetSent \in 0..DownLen /\ Len(buf) <= BufLen
    BY <1>1, <1>6, Numbers
  <2>3. opened \subseteq Conns
    BY <1>1 DEF Conns
  <2>4. QED BY <1>1, <1>3, <1>4, <1>5, <1>6, <2>1, <2>2, <2>3 DEF Types
<1>8. Got = 0 /\ Said = 0 /\ Read = 0 /\ Told = 0
  <2>1. Got = 0
    BY <1>1, <1>5, <1>6 DEF Got
  <2>2. Said = 0
    BY <1>1, <1>5, <2>1 DEF Said
  <2>3. Len(ULocal) = 0 /\ Len(DLocal) = 0 /\ Len(appGot) = 0
    BY <1>1, <1>3, <1>6
  <2>4. Read = 0
    BY <2>2, <2>3 DEF Read
  <2>5. Told = 0
    BY <2>3 DEF Told
  <2>6. QED BY <2>1, <2>2, <2>4, <2>5
<1>9. Sending
  <2>1. Part(Total, Total, 0, Len(Total))
    BY <1>5 DEF Part
  <2>2. Len(Total) - 0 = Len(Total) /\ 0 + 0 = 0
    BY <1>5
  <2>3. IF proto = "eager" THEN Part(Total, toSend, Said, Len(Total) - Got)
                           ELSE Part(Total, toSend, Said + Got, Len(Total))
    BY <1>1, <1>8, <2>1, <2>2
  <2>4. Said \in 0..Len(Wire)
    BY <1>5, <1>8
  <2>5. QED BY <1>5, <1>8, <2>3, <2>4 DEF Sending
<1>10. Part(Wire, <<>>, 0, 0) /\ Part(Answer, <<>>, 0, 0)
  BY <1>5, PartEmpty
<1>11. ClientReads
  BY <1>1, <1>3, <1>6, <1>8, <1>10 DEF ClientReads
<1>12. Replying
  BY <1>1, <1>3, <1>6, <1>8, <1>10 DEF Replying
<1>13. TunnelUp
  <2>1. ReadFrames = 0 /\ 0 \in 0..2
    BY <1>1 DEF ReadFrames
  <2>2. Written(0)
    BY <1>1, <1>3, <1>6, <2>1 DEF Written
  <2>3. QED BY <2>1, <2>2 DEF TunnelUp
<1>14. RemoteUp
  BY <1>1, <1>3 DEF RemoteUp, Nothing
<1>15. TunnelDown
  <2> DEFINE n == Len(Answers)
             X == DTunnel
  <2>1. X \in Seq(Seq(Item)) /\ n \in Nat /\ Len(X) = 0
    BY <1>3, <1>5, <1>6
  <2> HIDE DEF n, X
  <2>2. Chain(Answer, X, Len(X), n, n)
    BY <2>1, ChainNew
  <2>3. Chain(Answer, DTunnel, 0, Len(Answers), Len(Answers))
    BY <2>1, <2>2 DEF n, X
  <2>4. QED BY <1>1, <1>5, <2>3 DEF TunnelDown
<1>16. RemoteDown
  <2>1. Fetched = Len(Answers) /\ Len(Answers) + targetSent = Len(Answers)
    BY <1>1, <1>3, <1>5, <1>6 DEF Fetched
  <2>2. Part(Answer, <<>>, Len(Answers), Len(Answers))
    BY <1>5, PartEmpty
  <2>3. QED BY <1>3, <2>1, <2>2 DEF RemoteDown
<1>17. Opened
  BY <1>1, <1>3 DEF Opened
<1>18. Lengths
  BY <1>3, <1>6, Numbers DEF Lengths, Longest
<1>19. QED BY <1>7, <1>9, <1>11, <1>12, <1>13, <1>14, <1>15, <1>16, <1>17, <1>18 DEF SessionInv

LEMMA CopySteps ==
    ASSUME SessionInv, NEW t \in Tasks, Copy(t) PROVE SessionInv'
<1>1. t \in {"clientUp", "clientDown", "serverUp", "serverDown"}
  BY DEF Tasks, Client, Server
<1>2. CASE t = "clientUp"
  BY <1>2, ClientUpStep
<1>3. CASE t = "clientDown"
  BY <1>3, ClientDownStep
<1>4. CASE t = "serverUp"
  BY <1>4, ServerUpStep
<1>5. CASE t = "serverDown"
  BY <1>5, ServerDownStep
<1>6. QED BY <1>1, <1>2, <1>3, <1>4, <1>5

LEMMA AppTargetSteps ==
    ASSUME SessionInv, App \/ Target \/ AppLeaves \/ TargetLeaves PROVE SessionInv'
<1>1. \/ AppSend \/ AppReceive \/ AppShutdown \/ AppDrops
      \/ TargetReceive \/ TargetSend \/ TargetShutdown \/ TargetDrops
  BY DEF App, Target, AppLeaves, TargetLeaves, AppClose, TargetClose
<1>2. CASE AppSend
  BY <1>2, AppSendStep
<1>3. CASE AppReceive
  BY <1>3, AppReceiveStep
<1>4. CASE TargetReceive
  BY <1>4, TargetReceiveStep
<1>5. CASE TargetSend
  BY <1>5, TargetSendStep
<1>6. CASE AppShutdown \/ AppDrops \/ TargetShutdown \/ TargetDrops
  BY <1>6, EndingSteps
<1>7. QED BY <1>1, <1>2, <1>3, <1>4, <1>5, <1>6

LEMMA ClientSteps ==
    ASSUME SessionInv, ClientSetup \/ BadRequest \/ ServerUnreachable \/ ClientKilled PROVE SessionInv'
<1>1. \/ Handshake \/ HttpReads \/ Dial \/ SendSalt \/ SendFirst \/ Establish \/ ClientReturns
  BY DEF ClientSetup, SetupFails, BadRequest, ServerUnreachable, ClientKilled
<1>2. CASE Handshake
  <2>1. CASE SocksReads("greeting", "method")
    BY <2>1, SocksReadsStep
  <2>2. CASE SocksReads("request", "success")
    BY <2>2, SocksReadsStep
  <2>3. CASE SocksWrites("method", "request")
    BY <2>3, SocksWritesStep
  <2>4. CASE SocksWrites("success", "dial")
    BY <2>4, SocksWritesStep
  <2>5. QED BY <1>2, <2>1, <2>2, <2>3, <2>4 DEF Handshake
<1>3. CASE HttpReads
  BY <1>3, HttpReadsStep
<1>4. CASE Dial
  BY <1>4, DialStep
<1>5. CASE SendSalt
  BY <1>5, SendSaltStep
<1>6. CASE SendFirst
  BY <1>6, SendFirstStep
<1>7. CASE Establish
  BY <1>7, EstablishStep
<1>8. CASE ClientReturns
  BY <1>8, ReturningSteps
<1>9. QED BY <1>1, <1>2, <1>3, <1>4, <1>5, <1>6, <1>7, <1>8

LEMMA ServerSteps ==
    ASSUME SessionInv, ServerSetup \/ BadFirst \/ TargetUnreachable \/ ServerKilled PROVE SessionInv'
<1>1. Accept \/ ReadSalt \/ ReadFirst \/ DialTarget \/ SendPayload \/ ServerReturns
  BY DEF ServerSetup, FirstFails, BadFirst, TargetUnreachable, ServerKilled
<1>2. CASE Accept
  BY <1>2, AcceptStep
<1>3. CASE ReadSalt \/ ReadFirst
  BY <1>3, ReadingSteps
<1>4. CASE DialTarget
  BY <1>4, DialTargetStep
<1>5. CASE SendPayload
  BY <1>5, SendPayloadStep
<1>6. CASE ServerReturns
  BY <1>6, ReturningSteps
<1>7. QED BY <1>1, <1>2, <1>3, <1>4, <1>5, <1>6

LEMMA NextSession ==
    ASSUME SessionInv, [Next]_vars PROVE SessionInv'
<1>1. CASE App \/ Target \/ AppLeaves \/ TargetLeaves
  BY <1>1, AppTargetSteps
<1>2. CASE ClientSetup \/ BadRequest \/ ServerUnreachable \/ ClientKilled
  BY <1>2, ClientSteps
<1>3. CASE ServerSetup \/ BadFirst \/ TargetUnreachable \/ ServerKilled
  BY <1>3, ServerSteps
<1>4. CASE \E t \in Tasks : Task(t)
  <2>1. PICK t \in Tasks : Task(t)
    BY <1>4
  <2>2. Copy(t) \/ TaskEnds(t)
    BY <2>1 DEF Task, TaskStops
  <2>3. QED BY <2>2, CopySteps, TaskEndsStep
<1>5. CASE \E t \in Tasks : Undecodable(t)
  <2>1. PICK t \in Tasks : TaskEnds(t)
    BY <1>5 DEF Undecodable
  <2>2. QED BY <2>1, TaskEndsStep
<1>6. CASE (\E s \in Streams : Refuse(s)) \/ (\E c \in Conns : Break(c))
  BY <1>6, EndingSteps
<1>7. CASE UNCHANGED vars
  <2>1. /\ Types
        /\ UNCHANGED <<net, reset, running, cpc, spc, proto, headerLen>> /\ UNCHANGED Carried
    BY <1>7 DEF SessionInv, vars, appVars, clientVars, serverVars, targetVars, Carried
  <2>2. Kept /\ Settled /\ Queues' = Queues
    BY <2>1 DEF Kept, Settled, Queues, ULocal, DLocal, UTunnel, DTunnel, URemote, DRemote, Unread
  <2>3. Shape(net') /\ reset' \subseteq opened /\ running' \subseteq running
    BY <2>1 DEF Types
  <2>4. QED BY <2>1, <2>2, <2>3, QuietStep
<1>8. Orderly \/ Fault \/ UNCHANGED vars
  BY DEF Next
<1>9. QED BY <1>1, <1>2, <1>3, <1>4, <1>5, <1>6, <1>7, <1>8 DEF Orderly, Fault

\* Whatever the lengths and whatever fails: every item is in one place, and in its order.
THEOREM SessionInvariant == Spec => []SessionInv
<1>1. Init => SessionInv
  BY InitSession
<1>2. SessionInv /\ [Next]_vars => SessionInv'
  BY NextSession
<1>3. QED BY <1>1, <1>2, PTL DEF Spec

\* TypeOK: every variable has its type, no socket holds more than Capacity and one write
\* more, the script only shrinks, and a task runs only in the relay of its handler.
THEOREM SessionTypes == Spec => []TypeOK
<1> DEFINE Bounded == faults \in 0..MaxFaults
<1>1. Init => Bounded
  BY Numbers DEF Init
<1>2. Bounded /\ [Next]_vars => Bounded'
  <2> SUFFICES ASSUME Bounded, [Next]_vars PROVE Bounded'
    OBVIOUS
  <2>1. faults' = faults \/ (faults < MaxFaults /\ faults' = faults + 1)
    BY DEF Next, vars
  <2>2. QED BY <2>1, Numbers
<1>3. SessionInv /\ Bounded => TypeOK
  <2> SUFFICES ASSUME SessionInv, Bounded PROVE TypeOK
    OBVIOUS
  <2>1. Types /\ Sending /\ Lengths
    BY DEF SessionInv
  <2>2. \A s \in Streams : Len(Unread(s)) < Capacity + Longest
    <3>1. /\ Len(ULocal) < Capacity + Longest /\ Len(DRemote) < Capacity + Longest
          /\ Len(UTunnel) < Capacity + Longest /\ Len(DTunnel) < Capacity + Longest
          /\ Len(URemote) < Capacity + Longest /\ Len(DLocal) < Capacity + Longest
      <4>1. Capacity < Capacity + Longest /\ Capacity \in Nat /\ Longest \in Nat
        BY Numbers DEF Longest
      <4>2. /\ Len(ULocal) \in Nat /\ Len(DRemote) \in Nat /\ Len(UTunnel) \in Nat
            /\ Len(DTunnel) \in Nat
        BY <2>1, Counted
      <4>3. QED BY <2>1, <4>1, <4>2 DEF Lengths
    <3>2. QED BY <3>1, StreamNames DEF ULocal, DLocal, UTunnel, DTunnel, URemote, DRemote
  <2>3. \A s \in Streams : net[s].fin \in BOOLEAN /\ net[s].gone \in BOOLEAN
    BY <2>1 DEF Types, Shape
  <2>4. ToSet(toSend) \subseteq ToSet(Script(proto, headerLen))
    <3>1. PICK lo, hi : Part(Total, toSend, lo, hi)
      BY <2>1 DEF Sending
    <3>2. /\ toSend \in Seq(Item) /\ lo \in Nat /\ Len(toSend) \in Nat /\ lo + Len(toSend) <= Len(Total)
          /\ \A i \in 1..Len(toSend) : toSend[i] = Total[lo + i]
      BY <3>1 DEF Part
    <3>3. Total \in Seq(Item)
      BY <2>1, TotalIs DEF Types
    <3>4. ASSUME NEW i \in DOMAIN toSend PROVE toSend[i] \in ToSet(Total)
      <4>1. i \in 1..Len(toSend) /\ lo + i \in DOMAIN Total
        BY <3>2, <3>3
      <4>2. QED BY <3>2, <4>1 DEF ToSet
    <3>5. QED BY <3>4 DEF ToSet, Total
  <2>5. QED BY <2>1, <2>2, <2>3, <2>4 DEF TypeOK, Types, Kind
<1>4. QED BY <1>1, <1>2, <1>3, SessionInvariant, PTL DEF Spec

\* What is meant for the target is Wire from the item on where Delivered begins.
LEMMA MeantIs ==
    ASSUME Types, ClientReads
    PROVE  /\ Meant \in Seq(Item)
           /\ (proto # "socks" => Len(buf) >= headerLen) =>
                /\ Len(Meant) = Len(Wire) - Start
                /\ \A i \in 1..Len(Meant) : Meant[i] = Wire[Start + i]
<1>1. /\ Kind /\ Wire \in Seq(Item) /\ Len(Wire) = Len(Asked) + UpLen
      /\ Len(Asked) = (IF proto = "socks" THEN 2 ELSE headerLen)
      /\ \A i \in (Len(Asked) + 1)..Len(Wire) : Wire[i] = <<"up", i - Len(Asked)>>
  BY WireIs DEF Types
<1>2. /\ Len(buf) \in Nat /\ headerLen \in Nat /\ UpLen \in Nat /\ Len(Wire) \in Nat
      /\ proto \in {"socks", "connect", "eager", "plain"}
  BY <1>1, Counted, Numbers
<1>3. CASE proto = "plain"
  <2>1. Meant = Wire /\ Start = 0
    BY <1>1, <1>3, TotalIs DEF Meant, Total, Start
  <2>2. \A i \in 1..Len(Wire) : 0 + i = i
    BY <1>2
  <2>3. QED BY <1>1, <1>2, <2>1, <2>2
<1>4. CASE proto # "plain"
  <2>1. Meant = SubSeq(UpData, Lost + 1, UpLen) /\ Start = Base
    BY <1>4 DEF Meant, Start
  <2>2. UpData \in Seq(Item) /\ Len(UpData) = UpLen /\ \A i \in 1..UpLen : UpData[i] = <<"up", i>>
    BY <1>2, ItemsAre DEF UpData
  <2>3. /\ Lost \in Nat /\ Lost <= UpLen
        /\ (proto # "socks" => Len(buf) >= headerLen) => Base = Len(Asked) + Lost
    <3>1. CASE proto = "socks"
      BY <1>1, <1>2, <3>1 DEF Lost, Answered, Base
    <3>2. CASE proto # "socks"
      <4>1. Len(buf) <= Len(Wire)
        BY <3>2 DEF ClientReads, Part
      <4>2. Answered
        BY <1>2, <1>4, <3>2 DEF Answered
      <4>3. QED BY <1>1, <1>2, <3>2, <4>1, <4>2 DEF Lost, Base
    <3>3. QED BY <3>1, <3>2
  <2> DEFINE from == Lost
             M == SubSeq(UpData, from + 1, UpLen)
  <2>4. from \in Nat /\ from <= UpLen /\ Meant = M
    BY <2>1, <2>3
  <2> HIDE DEF from
  <2>5. /\ M \in Seq(Item) /\ Len(M) = UpLen - from
        /\ \A i \in 1..(UpLen - from) : M[i] = UpData[from + i]
    BY <1>2, <2>2, <2>4
  <2> HIDE DEF M
  <2>6. ASSUME proto # "socks" => Len(buf) >= headerLen
        PROVE  /\ Len(M) = Len(Wire) - Start
               /\ \A i \in 1..Len(M) : M[i] = Wire[Start + i]
    <3>1. Start = Len(Asked) + from /\ Len(Asked) \in Nat
      BY <1>1, <1>2, <2>1, <2>3, <2>6 DEF from
    <3>2. Len(M) = Len(Wire) - Start
      BY <1>1, <1>2, <2>4, <2>5, <3>1
    <3>3. ASSUME NEW i \in 1..Len(M) PROVE M[i] = Wire[Start + i]
      <4>1. /\ i \in 1..(UpLen - from) /\ from + i \in 1..UpLen
            /\ Start + i \in (Len(Asked) + 1)..Len(Wire) /\ (Start + i) - Len(Asked) = from + i
        BY <1>1, <1>2, <2>4, <2>5, <3>1
      <4>2. Wire[Start + i] = <<"up", from + i>>
        BY <1>1, <4>1
      <4>3. M[i] = <<"up", from + i>>
        BY <2>2, <2>5, <4>1
      <4>4. QED BY <4>2, <4>3
    <3>4. QED BY <3>2, <3>3
  <2>7. QED BY <2>4, <2>5, <2>6
<1>5. QED BY <1>3, <1>4

\* UploadFaithful: through the header buffer, the first frame and both relays of the way
\* up, the target receives what the application meant for it, in order and once.
THEOREM UploadDelivers == Spec => []UploadFaithful
<1>1. SessionInv => UploadFaithful
  <2> SUFFICES ASSUME SessionInv PROVE UploadFaithful
    OBVIOUS
  <2>1. Types /\ ClientReads /\ RemoteUp
    BY DEF SessionInv
  <2>2. Meant \in Seq(Item) /\ Start \in Nat /\ Len(targetGot) \in Nat
    BY <2>1, MeantIs, Counted
  <2>3. Nothing \/ Delivered
    BY <2>1 DEF RemoteUp
  <2>4. Part(Meant, targetGot, 0, Len(targetGot))
    <3>1. CASE Nothing
      BY <2>2, <3>1, PartEmpty DEF Nothing
    <3>2. CASE Delivered
      <4>1. /\ Len(Meant) = Len(Wire) - Start
            /\ \A i \in 1..Len(Meant) : Meant[i] = Wire[Start + i]
        BY <2>1, <3>2, MeantIs DEF Delivered
      <4>2. /\ targetGot \in Seq(Item) /\ Start + Len(targetGot) <= Len(Wire)
            /\ \A i \in 1..Len(targetGot) : targetGot[i] = Wire[Start + i]
        BY <3>2 DEF Delivered, Part
      <4>3. Len(Wire) \in Nat
        BY <2>1, Counted
      <4>4. QED BY <2>2, <4>1, <4>2, <4>3 DEF Part
    <3>3. QED BY <2>3, <3>1, <3>2
  <2>5. QED BY <2>2, <2>4, PartPrefix DEF UploadFaithful
<1>2. QED BY <1>1, SessionInvariant, PTL

\* DownloadFaithful: the application receives its handler's replies and then what the
\* target sent, in order and once: no item of the target overtakes a reply.
THEOREM DownloadDelivers == Spec => []DownloadFaithful
<1>1. SessionInv => DownloadFaithful
  <2> SUFFICES ASSUME SessionInv PROVE DownloadFaithful
    OBVIOUS
  <2>1. Types /\ Replying
    BY DEF SessionInv
  <2>2. Answer \in Seq(Item)
    BY <2>1, AnswerIs DEF Types
  <2>3. Part(Answer, appGot, 0, Len(appGot))
    BY <2>1 DEF Replying
  <2>4. QED BY <2>2, <2>3, PartPrefix DEF DownloadFaithful, Answer
<1>2. QED BY <1>1, SessionInvariant, PTL

=============================================================================

-------------------------- MODULE FrameRelayProofs ---------------------------
(***************************************************************************)
(* Proofs about FrameRelay, for every length of headers, tags, buffers and *)
(* frames, and every fault: its types, that no task fails by itself, and   *)
(* that it implements ByteStream.                                          *)
(***************************************************************************)
EXTENDS FrameRelay, Integers, SequenceTheorems, TLAPS

-----------------------------------------------------------------------------
(* A sequence of cells as frames.  Where its frames begin is nowhere in    *)
(* the state; the invariant says that there are such places.               *)

\* A frame is known by how many bytes it holds and which byte of the source comes first.
Frame == [from : Nat, len : 1..MaxPayload]
FrameLen(f) == HeaderLen + f.len + TagLen

FrameCell(f, i) ==
    IF i <= HeaderLen THEN [part |-> "header", value |-> f.len + TagLen]
    ELSE IF i <= HeaderLen + f.len THEN [part |-> "body", value |-> f.from + (i - HeaderLen)]
    ELSE [part |-> "tag", value |-> 0]

\* Behind place b comes the frame f, or as much of it as is there.
FrameAt(s, b, f) ==
    \A i \in 1..FrameLen(f) : b + i <= Len(s) => s[b + i] = FrameCell(f, i)

\* The cells s are frames at the places B, one behind the other, the last of them perhaps
\* cut; the first holds byte n + 1 of the source, and none a byte behind m.
Framing(s, n, m, B, fr) ==
    /\ B \subseteq 0..Len(s)
    /\ 0 \in B
    /\ fr \in [Nat -> Frame]
    /\ fr[0].from = n
    /\ \A b \in B : b < Len(s) =>
         /\ FrameAt(s, b, fr[b])
         /\ fr[b].from + fr[b].len <= m
         /\ \A c \in B : b < c => b + FrameLen(fr[b]) <= c
         /\ b + FrameLen(fr[b]) <= Len(s) =>
              /\ b + FrameLen(fr[b]) \in B
              /\ fr[b + FrameLen(fr[b])].from = fr[b].from + fr[b].len

-----------------------------------------------------------------------------
(* Lemmas about frames.                                                    *)

\* Numbers that the arithmetic of frames needs.
LEMMA Sizes ==
    /\ HeaderLen \in Nat /\ HeaderLen > 0 /\ TagLen \in Nat /\ TagLen > 0
    /\ MaxPayload \in Nat /\ MaxPayload > 0 /\ MaxBytes \in Nat
    /\ \A f \in Frame : /\ f.from \in Nat /\ f.len \in Nat /\ f.len > 0 /\ f.len <= MaxPayload
                        /\ FrameLen(f) \in Nat /\ FrameLen(f) = HeaderLen + f.len + TagLen
<1>1. /\ HeaderLen \in Nat /\ HeaderLen > 0 /\ TagLen \in Nat /\ TagLen > 0
      /\ MaxPayload \in Nat /\ MaxPayload > 0 /\ MaxBytes \in Nat
  BY RelayAssumption DEF MaxPayload
<1>2. \A f \in Frame : f.from \in Nat /\ f.len \in Nat /\ f.len > 0 /\ f.len <= MaxPayload
  BY <1>1 DEF Frame
<1>3. QED
  BY <1>1, <1>2 DEF FrameLen

\* No cells are no frames, whatever comes next.
LEMMA NoFrames ==
    ASSUME NEW n \in Nat, NEW m \in Nat
    PROVE  \E fr : Framing(<<>>, n, m, {0}, fr) /\ fr[0].from = n
<1> DEFINE fr == [i \in Nat |-> [from |-> n, len |-> 1]]
<1>1. fr \in [Nat -> Frame] /\ fr[0].from = n
  BY Sizes DEF Frame
<1> HIDE DEF fr
<1>2. Len(<<>>) = 0
  OBVIOUS
<1>3. Framing(<<>>, n, m, {0}, fr)
  BY <1>1, <1>2 DEF Framing
<1>4. QED BY <1>1, <1>3

\* What is cut off at the end cuts the last frame.
LEMMA FramesOfPrefix ==
    ASSUME NEW s, NEW t, NEW n, NEW m, NEW B, NEW fr, Framing(s, n, m, B, fr),
           Len(s) \in Nat, Len(t) \in Nat, Len(t) <= Len(s),
           \A i \in 1..Len(t) : t[i] = s[i]
    PROVE  Framing(t, n, m, B \cap 0..Len(t), fr)
<1> DEFINE C == B \cap 0..Len(t)
<1>1. C \subseteq 0..Len(t) /\ 0 \in C /\ fr \in [Nat -> Frame] /\ fr[0].from = n
  BY DEF Framing
<1>2. ASSUME NEW b \in C, b < Len(t)
      PROVE  /\ FrameAt(t, b, fr[b])
             /\ fr[b].from + fr[b].len <= m
             /\ \A c \in C : b < c => b + FrameLen(fr[b]) <= c
             /\ b + FrameLen(fr[b]) <= Len(t) =>
                  /\ b + FrameLen(fr[b]) \in C
                  /\ fr[b + FrameLen(fr[b])].from = fr[b].from + fr[b].len
  <2>1. /\ b \in Nat /\ b \in B /\ b < Len(s) /\ fr[b] \in Frame
        /\ FrameLen(fr[b]) \in Nat
    BY <1>1, <1>2, Sizes
  <2>2. FrameAt(t, b, fr[b])
    <3> SUFFICES ASSUME NEW i \in 1..FrameLen(fr[b]), b + i <= Len(t)
                 PROVE  t[b + i] = FrameCell(fr[b], i)
      BY DEF FrameAt
    <3>1. b + i \in 1..Len(t) /\ b + i <= Len(s)
      BY <2>1
    <3>2. s[b + i] = FrameCell(fr[b], i)
      BY <2>1, <3>1 DEF Framing, FrameAt
    <3>3. QED BY <3>1, <3>2
  <2>3. QED BY <2>1, <2>2 DEF Framing
<1>3. QED
  BY <1>1, <1>2 DEF Framing

\* The source may have gone on since.
LEMMA FramesGrow ==
    ASSUME NEW s, NEW n, NEW m \in Nat, NEW p \in Nat, m <= p, NEW B, NEW fr,
           Framing(s, n, m, B, fr), Len(s) \in Nat
    PROVE  Framing(s, n, p, B, fr)
<1>1. \A b \in B : fr[b].from + fr[b].len \in Nat
  <2> SUFFICES ASSUME NEW b \in B PROVE fr[b].from + fr[b].len \in Nat
    OBVIOUS
  <2>1. b \in Nat /\ fr[b] \in Frame
    BY DEF Framing
  <2>2. QED BY <2>1, Sizes
<1>2. QED
  BY <1>1 DEF Framing

\* A frame behind whole frames.
LEMMA FrameAppended ==
    ASSUME NEW s, NEW t, NEW f \in Frame, NEW n, NEW m \in Nat, NEW B, NEW fr,
           Framing(s, n, m, B, fr),
           Len(s) \in Nat, Len(s) \in B, fr[Len(s)].from = m, f.from = m,
           Len(t) = Len(s) + FrameLen(f),
           \A i \in 1..Len(s) : t[i] = s[i],
           \A i \in 1..FrameLen(f) : t[Len(s) + i] = FrameCell(f, i)
    PROVE  \E C, gr : /\ Framing(t, n, m + f.len, C, gr)
                      /\ Len(t) \in C /\ gr[Len(t)].from = m + f.len
<1> DEFINE e == Len(s)
           C == B \cup {Len(t)}
           last == [from |-> m + f.len, len |-> 1]
           gr == [i \in Nat |-> IF i = e THEN f ELSE IF i = Len(t) THEN last ELSE fr[i]]
<1>1. /\ f.len \in Nat /\ f.len > 0 /\ FrameLen(f) \in Nat /\ FrameLen(f) > 0
      /\ Len(t) \in Nat /\ e < Len(t) /\ m + f.len \in Nat
  BY Sizes
<1>2. last \in Frame
  BY <1>1, Sizes DEF Frame
<1> HIDE DEF last
<1>3. /\ B \subseteq 0..e /\ 0 \in B /\ fr \in [Nat -> Frame] /\ fr[0].from = n
  BY DEF Framing
<1>4. gr \in [Nat -> Frame]
  BY <1>2, <1>3
<1>5. /\ \A b \in B : b # e => gr[b] = fr[b]
      /\ gr[e] = f /\ gr[Len(t)] = last
  BY <1>1, <1>3
<1> HIDE DEF gr
<1>6. gr[0].from = n
  BY <1>3, <1>5
<1>7. last.from = m + f.len
  BY DEF last
<1>8. ASSUME NEW b \in C, b < Len(t)
      PROVE  /\ FrameAt(t, b, gr[b])
             /\ gr[b].from + gr[b].len <= m + f.len
             /\ \A c \in C : b < c => b + FrameLen(gr[b]) <= c
             /\ b + FrameLen(gr[b]) <= Len(t) =>
                  /\ b + FrameLen(gr[b]) \in C
                  /\ gr[b + FrameLen(gr[b])].from = gr[b].from + gr[b].len
  <2>1. CASE b = e
    <3>1. FrameAt(t, b, gr[b])
      BY <1>5, <2>1 DEF FrameAt
    <3>2. \A c \in C : b < c => c = Len(t)
      BY <1>3, <2>1
    <3>3. QED BY <1>1, <1>5, <1>7, <2>1, <3>1, <3>2
  <2>2. CASE b # e
    <3>1. b \in B /\ b \in Nat /\ b < e /\ gr[b] = fr[b] /\ fr[b] \in Frame
      <4>1. b \in B /\ b \in 0..e
        BY <1>3, <1>8
      <4>2. b \in Nat /\ b < e
        BY <1>1, <2>2, <4>1
      <4>3. QED BY <1>3, <1>5, <2>2, <4>1, <4>2
    <3>2. /\ FrameAt(s, b, fr[b])
          /\ fr[b].from + fr[b].len <= m
          /\ \A c \in B : b < c => b + FrameLen(fr[b]) <= c
          /\ b + FrameLen(fr[b]) <= e =>
               /\ b + FrameLen(fr[b]) \in B
               /\ fr[b + FrameLen(fr[b])].from = fr[b].from + fr[b].len
      BY <3>1 DEF Framing
    <3>3. /\ b + FrameLen(fr[b]) <= e /\ FrameLen(fr[b]) \in Nat
          /\ fr[b].from \in Nat /\ fr[b].len \in Nat
      BY <3>1, <3>2, Sizes
    <3>4. FrameAt(t, b, fr[b])
      <4> SUFFICES ASSUME NEW i \in 1..FrameLen(fr[b]) PROVE t[b + i] = FrameCell(fr[b], i)
        BY DEF FrameAt
      <4>1. b + i \in 1..e
        BY <3>1, <3>3
      <4>2. QED BY <3>2, <4>1 DEF FrameAt
    <3>5. gr[b + FrameLen(fr[b])].from = fr[b].from + fr[b].len
      <4>1. CASE b + FrameLen(fr[b]) = e
        <5>1. fr[e].from = fr[b].from + fr[b].len
          BY <3>2, <3>3, <4>1
        <5>2. QED BY <1>5, <4>1, <5>1
      <4>2. CASE b + FrameLen(fr[b]) # e
        BY <1>5, <3>2, <3>3, <4>2
      <4>3. QED BY <4>1, <4>2
    <3>6. \A c \in C : b < c => b + FrameLen(fr[b]) <= c
      BY <1>1, <3>1, <3>2, <3>3
    <3>7. fr[b].from + fr[b].len <= m + f.len
      BY <1>1, <3>2, <3>3
    <3>8. QED BY <3>1, <3>2, <3>3, <3>4, <3>5, <3>6, <3>7
  <2>3. QED BY <2>1, <2>2
<1>9. C \subseteq 0..Len(t) /\ 0 \in C
  <2>1. 0..e \subseteq 0..Len(t) /\ Len(t) \in 0..Len(t)
    BY <1>1
  <2>2. QED BY <1>3, <2>1
<1>10. Framing(t, n, m + f.len, C, gr)
  BY <1>4, <1>6, <1>8, <1>9 DEF Framing
<1>11. QED
  BY <1>5, <1>7, <1>10

\* What is left when the first frame is taken away.
LEMMA FrameRemoved ==
    ASSUME NEW s, NEW t, NEW n, NEW m, NEW B, NEW fr, Framing(s, n, m, B, fr),
           Len(s) \in Nat, NEW k \in Nat, k = FrameLen(fr[0]), k <= Len(s),
           Len(t) = Len(s) - k, \A i \in 1..Len(t) : t[i] = s[k + i]
    PROVE  \E C, gr : /\ Framing(t, n + fr[0].len, m, C, gr)
                      /\ Len(s) \in B => Len(t) \in C /\ gr[Len(t)].from = fr[Len(s)].from
<1> DEFINE C == {c \in 0..Len(t) : c + k \in B}
           gr == [i \in Nat |-> fr[i + k]]
<1>1. /\ B \subseteq 0..Len(s) /\ 0 \in B /\ fr \in [Nat -> Frame] /\ fr[0].from = n
      /\ fr[0] \in Frame /\ k > 0 /\ 0 < Len(s) /\ Len(t) \in Nat
  <2>1. /\ B \subseteq 0..Len(s) /\ 0 \in B /\ fr \in [Nat -> Frame] /\ fr[0].from = n
    BY DEF Framing
  <2>2. fr[0] \in Frame
    BY <2>1
  <2>3. k > 0
    BY <2>2, Sizes
  <2>4. QED BY <2>1, <2>2, <2>3
<1>2. k \in B /\ fr[k].from = n + fr[0].len
  <2>1. 0 + FrameLen(fr[0]) = k
    OBVIOUS
  <2>2. QED BY <1>1, <2>1 DEF Framing
<1>3. gr \in [Nat -> Frame] /\ \A i \in Nat : gr[i] = fr[i + k]
  BY <1>1
<1> HIDE DEF gr
<1>4. C \subseteq 0..Len(t) /\ 0 \in C /\ gr[0].from = n + fr[0].len
  BY <1>1, <1>2, <1>3
<1>5. ASSUME NEW b \in C, b < Len(t)
      PROVE  /\ FrameAt(t, b, gr[b])
             /\ gr[b].from + gr[b].len <= m
             /\ \A c \in C : b < c => b + FrameLen(gr[b]) <= c
             /\ b + FrameLen(gr[b]) <= Len(t) =>
                  /\ b + FrameLen(gr[b]) \in C
                  /\ gr[b + FrameLen(gr[b])].from = gr[b].from + gr[b].len
  <2> DEFINE a == b + k
  <2>1. /\ b \in Nat /\ a \in Nat /\ a \in B /\ a < Len(s) /\ gr[b] = fr[a]
        /\ fr[a] \in Frame /\ FrameLen(fr[a]) \in Nat
    <3>1. b \in 0..Len(t) /\ a \in B
      BY <1>5
    <3>2. b \in Nat /\ a \in Nat /\ a < Len(s)
      BY <1>1, <1>5, <3>1
    <3>3. gr[b] = fr[a] /\ fr[a] \in Frame
      BY <1>1, <1>3, <3>2
    <3>4. QED BY <3>1, <3>2, <3>3, Sizes
  <2>2. /\ FrameAt(s, a, fr[a])
        /\ fr[a].from + fr[a].len <= m
        /\ \A c \in B : a < c => a + FrameLen(fr[a]) <= c
        /\ a + FrameLen(fr[a]) <= Len(s) =>
             /\ a + FrameLen(fr[a]) \in B
             /\ fr[a + FrameLen(fr[a])].from = fr[a].from + fr[a].len
    BY <2>1 DEF Framing
  <2>3. FrameAt(t, b, fr[a])
    <3> SUFFICES ASSUME NEW i \in 1..FrameLen(fr[a]), b + i <= Len(t)
                 PROVE  t[b + i] = FrameCell(fr[a], i)
      BY DEF FrameAt
    <3>1. b + i \in 1..Len(t) /\ k + (b + i) = a + i /\ a + i <= Len(s)
      BY <1>1, <2>1
    <3>2. QED BY <2>2, <3>1 DEF FrameAt
  <2>4. ASSUME NEW c \in C, b < c PROVE b + FrameLen(fr[a]) <= c
    <3>1. c \in Nat /\ c + k \in B /\ a < c + k
      BY <1>1, <2>1, <2>4
    <3>2. a + FrameLen(fr[a]) <= c + k
      BY <2>2, <3>1
    <3>3. QED BY <2>1, <3>1, <3>2
  <2>5. ASSUME b + FrameLen(fr[a]) <= Len(t)
        PROVE  /\ b + FrameLen(fr[a]) \in C
               /\ gr[b + FrameLen(fr[a])].from = fr[a].from + fr[a].len
    <3>1. /\ b + FrameLen(fr[a]) \in Nat /\ (b + FrameLen(fr[a])) + k = a + FrameLen(fr[a])
          /\ a + FrameLen(fr[a]) <= Len(s)
      BY <1>1, <2>1, <2>5
    <3>2. /\ a + FrameLen(fr[a]) \in B
          /\ fr[a + FrameLen(fr[a])].from = fr[a].from + fr[a].len
      BY <2>2, <3>1
    <3>3. b + FrameLen(fr[a]) \in 0..Len(t)
      BY <1>1, <2>5, <3>1
    <3>4. QED BY <1>3, <3>1, <3>2, <3>3
  <2>6. QED BY <2>1, <2>2, <2>3, <2>4, <2>5
<1>6. Framing(t, n + fr[0].len, m, C, gr)
  BY <1>3, <1>4, <1>5 DEF Framing
<1>7. Len(s) \in B => Len(t) \in C /\ gr[Len(t)].from = fr[Len(s)].from
  <2>1. Len(t) + k = Len(s)
    BY <1>1
  <2>2. QED BY <1>1, <1>3, <2>1
<1>8. QED BY <1>6, <1>7

-----------------------------------------------------------------------------
(* Lemmas about sequences.                                                 *)

\* A cell of a concatenation is one of its parts.
LEMMA Joined ==
    ASSUME NEW S, NEW s \in Seq(S), NEW t \in Seq(S)
    PROVE  /\ s \o t \in Seq(S)
           /\ Len(s) \in Nat /\ Len(t) \in Nat
           /\ Len(s \o t) = Len(s) + Len(t)
           /\ \A i \in 1..Len(s) : (s \o t)[i] = s[i]
           /\ \A i \in 1..Len(t) : (s \o t)[Len(s) + i] = t[i]
<1>1. /\ s \o t \in Seq(S) /\ Len(s \o t) = Len(s) + Len(t)
      /\ \A i \in 1..Len(s) + Len(t) : (s \o t)[i] = IF i <= Len(s) THEN s[i] ELSE t[i - Len(s)]
  BY ConcatProperties
<1>2. Len(s) \in Nat /\ Len(t) \in Nat
  OBVIOUS
<1>3. \A i \in 1..Len(s) : (s \o t)[i] = s[i]
  BY <1>1, <1>2
<1>4. ASSUME NEW i \in 1..Len(t) PROVE (s \o t)[Len(s) + i] = t[i]
  <2>1. /\ Len(s) + i \in 1..Len(s) + Len(t) /\ ~(Len(s) + i <= Len(s))
        /\ (Len(s) + i) - Len(s) = i
    BY <1>2
  <2>2. QED BY <1>1, <2>1
<1>5. QED BY <1>1, <1>2, <1>3, <1>4

\* What is taken from the front of a queue, and what stays.
LEMMA Divided ==
    ASSUME NEW S, NEW s \in Seq(S), NEW n \in 0..Len(s)
    PROVE  /\ SubSeq(s, 1, n) \in Seq(S) /\ Len(SubSeq(s, 1, n)) = n
           /\ SubSeq(s, n + 1, Len(s)) \in Seq(S)
           /\ Len(SubSeq(s, n + 1, Len(s))) = Len(s) - n
           /\ \A i \in 1..n : SubSeq(s, 1, n)[i] = s[i]
           /\ \A i \in 1..Len(s) - n : SubSeq(s, n + 1, Len(s))[i] = s[n + i]
           /\ SubSeq(s, 1, n) \o SubSeq(s, n + 1, Len(s)) = s
<1> DEFINE a == SubSeq(s, 1, n)
           b == SubSeq(s, n + 1, Len(s))
<1>0. Len(s) \in Nat /\ n \in Nat /\ n <= Len(s)
  OBVIOUS
<1>1. a \in Seq(S) /\ Len(a) = n /\ \A i \in 1..n : a[i] = s[i]
  <2>1. \A i \in 1..n : s[i] \in S
    BY <1>0
  <2>2. QED BY <1>0, <2>1, SubSeqProperties
<1>2. b \in Seq(S) /\ Len(b) = Len(s) - n /\ \A i \in 1..Len(s) - n : b[i] = s[n + i]
  <2>1. \A i \in n + 1 .. Len(s) : s[i] \in S
    BY <1>0
  <2>2. /\ b \in Seq(S) /\ Len(b) = IF n + 1 <= Len(s) THEN Len(s) - (n + 1) + 1 ELSE 0
        /\ \A i \in 1 .. Len(s) - (n + 1) + 1 : b[i] = s[n + 1 + i - 1]
    BY <1>0, <2>1, SubSeqProperties
  <2>3. QED BY <1>0, <2>2
<1> HIDE DEF a, b
<1>3. a \o b = s
  <2>1. /\ a \o b \in Seq(S) /\ Len(a \o b) = Len(s)
        /\ \A i \in 1..n : (a \o b)[i] = s[i]
        /\ \A i \in 1..Len(s) - n : (a \o b)[n + i] = s[n + i]
    BY <1>0, <1>1, <1>2, Joined
  <2>2. ASSUME NEW i \in 1..Len(s) PROVE (a \o b)[i] = s[i]
    <3>1. CASE i <= n
      BY <2>1, <3>1
    <3>2. CASE i > n
      <4>1. i - n \in 1..Len(s) - n /\ n + (i - n) = i
        BY <1>0, <3>2
      <4>2. QED BY <2>1, <4>1
    <3>3. i <= n \/ i > n
      BY <1>0
    <3>4. QED BY <3>1, <3>2, <3>3, Zenon
  <2>3. QED BY <2>1, <2>2, SeqEqual
<1>4. QED BY <1>1, <1>2, <1>3 DEF a, b

-----------------------------------------------------------------------------
(* Frame::encode and Frame::decode.                                        *)

\* encode makes one frame.
LEMMA Encoded ==
    ASSUME NEW f \in Frame, NEW payload \in Seq(Byte), Len(payload) = f.len,
           \A i \in 1..f.len : payload[i] = f.from + i
    PROVE  /\ Encode(payload) \in Seq(Cell)
           /\ Len(Encode(payload)) = FrameLen(f)
           /\ \A i \in 1..FrameLen(f) : Encode(payload)[i] = FrameCell(f, i)
<1> DEFINE h == Run("header", HeaderLen, Len(payload) + TagLen)
           b == Body(payload)
           t == Run("tag", TagLen, 0)
           one == h \o b
<1>1. /\ HeaderLen \in Nat /\ TagLen \in Nat /\ f.len \in Nat /\ f.from \in Nat
      /\ FrameLen(f) = HeaderLen + f.len + TagLen
  BY Sizes
<1>2. /\ h \in Seq(Cell) /\ Len(h) = HeaderLen
      /\ \A i \in 1..HeaderLen : h[i] = [part |-> "header", value |-> f.len + TagLen]
  BY <1>1 DEF Run, Cell
<1>3. /\ b \in Seq(Cell) /\ Len(b) = f.len
      /\ \A i \in 1..f.len : b[i] = [part |-> "body", value |-> f.from + i]
  <2>1. DOMAIN payload = 1..f.len /\ \A i \in 1..f.len : payload[i] \in Nat
    BY <1>1 DEF Byte
  <2>2. b = [i \in 1..f.len |-> [part |-> "body", value |-> payload[i]]]
    BY <2>1 DEF Body
  <2>3. \A i \in 1..f.len : [part |-> "body", value |-> payload[i]] \in Cell
    BY <2>1 DEF Cell
  <2>4. b \in Seq(Cell) /\ Len(b) = f.len
    BY <1>1, <2>2, <2>3, SMTT(20)
  <2>5. \A i \in 1..f.len : b[i] = [part |-> "body", value |-> f.from + i]
    BY <2>2
  <2>6. QED BY <2>4, <2>5
<1>4. /\ t \in Seq(Cell) /\ Len(t) = TagLen
      /\ \A i \in 1..TagLen : t[i] = [part |-> "tag", value |-> 0]
  BY <1>1 DEF Run, Cell
<1>5. Encode(payload) = one \o t
  BY DEF Encode
<1> HIDE DEF h, b, t
<1>6. /\ one \in Seq(Cell) /\ Len(one) = HeaderLen + f.len
      /\ \A i \in 1..HeaderLen : one[i] = h[i]
      /\ \A i \in 1..f.len : one[HeaderLen + i] = b[i]
  <2>1. h \in Seq(Cell) /\ b \in Seq(Cell)
    BY <1>2, <1>3
  <2>2. /\ h \o b \in Seq(Cell) /\ Len(h \o b) = Len(h) + Len(b)
        /\ \A i \in 1..Len(h) : (h \o b)[i] = h[i]
        /\ \A i \in 1..Len(b) : (h \o b)[Len(h) + i] = b[i]
    BY ONLY <2>1, Joined
  <2>3. QED BY <1>2, <1>3, <2>2
<1> HIDE DEF one
<1>7. /\ one \o t \in Seq(Cell) /\ Len(one \o t) = FrameLen(f)
      /\ \A i \in 1..HeaderLen + f.len : (one \o t)[i] = one[i]
      /\ \A i \in 1..TagLen : (one \o t)[HeaderLen + f.len + i] = t[i]
  <2>1. one \in Seq(Cell) /\ t \in Seq(Cell)
    BY <1>4, <1>6
  <2>2. /\ one \o t \in Seq(Cell) /\ Len(one \o t) = Len(one) + Len(t)
        /\ \A i \in 1..Len(one) : (one \o t)[i] = one[i]
        /\ \A i \in 1..Len(t) : (one \o t)[Len(one) + i] = t[i]
    BY ONLY <2>1, Joined
  <2>3. QED BY <1>1, <1>4, <1>6, <2>2
<1>8. ASSUME NEW i \in 1..FrameLen(f) PROVE (one \o t)[i] = FrameCell(f, i)
  <2>1. CASE i <= HeaderLen
    BY <1>1, <1>2, <1>6, <1>7, <2>1 DEF FrameCell
  <2>2. CASE HeaderLen < i /\ i <= HeaderLen + f.len
    <3>1. i - HeaderLen \in 1..f.len /\ HeaderLen + (i - HeaderLen) = i
          /\ i \in 1..HeaderLen + f.len
      BY <1>1, <2>2
    <3>2. one[i] = [part |-> "body", value |-> f.from + (i - HeaderLen)]
      BY <1>3, <1>6, <3>1
    <3>3. (one \o t)[i] = one[i] /\ ~(i <= HeaderLen)
      BY <1>1, <1>7, <2>2, <3>1
    <3>4. QED BY <2>2, <3>2, <3>3 DEF FrameCell
  <2>3. CASE HeaderLen + f.len < i
    <3>1. i - (HeaderLen + f.len) \in 1..TagLen
          /\ HeaderLen + f.len + (i - (HeaderLen + f.len)) = i
      BY <1>1, <2>3
    <3>2. (one \o t)[i] = [part |-> "tag", value |-> 0]
      BY <1>4, <1>7, <3>1
    <3>3. ~(i <= HeaderLen) /\ ~(i <= HeaderLen + f.len)
      BY <1>1, <2>3
    <3>4. QED BY <3>2, <3>3 DEF FrameCell
  <2>4. \/ i <= HeaderLen
        \/ HeaderLen < i /\ i <= HeaderLen + f.len
        \/ HeaderLen + f.len < i
    BY <1>1
  <2>5. QED BY <2>1, <2>2, <2>3, <2>4, Zenon
<1>9. QED BY <1>5, <1>7, <1>8

\* decode accepts a frame and returns its bytes.
LEMMA Decoded ==
    ASSUME NEW f \in Frame, NEW bytes \in Seq(Cell), Len(bytes) = FrameLen(f),
           \A i \in 1..FrameLen(f) : bytes[i] = FrameCell(f, i)
    PROVE  /\ Decodable(bytes)
           /\ Len(Decode(bytes)) = f.len
           /\ \A i \in 1..f.len : Decode(bytes)[i] = f.from + i
           /\ f.from + f.len <= MaxBytes => Decode(bytes) \in Seq(Byte)
<1>1. /\ HeaderLen \in Nat /\ TagLen \in Nat /\ f.len \in Nat /\ f.from \in Nat
      /\ FrameLen(f) = HeaderLen + f.len + TagLen /\ MaxBytes \in Nat
  BY Sizes
<1>2. Len(bytes) - HeaderLen - TagLen = f.len /\ DOMAIN bytes = 1..FrameLen(f)
  BY <1>1
<1>3. \A i \in 1..FrameLen(f) : bytes[i].part = IF i <= HeaderLen THEN "header"
                                  ELSE IF i <= HeaderLen + f.len THEN "body" ELSE "tag"
  BY DEF FrameCell
<1>4. Decodable(bytes)
  BY <1>1, <1>2, <1>3 DEF Decodable
<1>5. Decode(bytes) = [i \in 1..f.len |-> bytes[HeaderLen + i].value]
  BY <1>2 DEF Decode
<1>6. ASSUME NEW i \in 1..f.len PROVE bytes[HeaderLen + i].value = f.from + i
  <2>1. /\ HeaderLen + i \in 1..FrameLen(f) /\ ~(HeaderLen + i <= HeaderLen)
        /\ HeaderLen + i <= HeaderLen + f.len /\ (HeaderLen + i) - HeaderLen = i
    BY <1>1
  <2>2. bytes[HeaderLen + i] = [part |-> "body", value |-> f.from + i]
    BY <2>1 DEF FrameCell
  <2>3. QED BY <2>2
<1>7. Decode(bytes) = [i \in 1..f.len |-> f.from + i]
  BY <1>5, <1>6
<1>8. f.from + f.len <= MaxBytes => Decode(bytes) \in Seq(Byte)
  BY <1>1, <1>7 DEF Byte
<1>9. QED BY <1>1, <1>4, <1>7, <1>8

-----------------------------------------------------------------------------
(* The invariant.                                                          *)

\* The cells between the two tasks: what a reset has not taken away.
Transit == leftover \o wire \o (IF wireEnd = "rst" THEN <<>> ELSE out)

\* How many bytes the encoder has read.
Taken == Len(produced) - Len(source)

\* Every byte is the number of its place, at the source, before the encoder and at the sink.
InOrder ==
    /\ Len(produced) <= MaxBytes
    /\ \A i \in DOMAIN produced : produced[i] = i
    /\ Len(source) <= Len(produced)
    /\ \A i \in DOMAIN source : source[i] = Taken + i
    /\ Len(sink) <= Len(produced)
    /\ \A i \in DOMAIN sink : sink[i] = i

\* While nothing is lost the cells in transit end with a frame's end, and the encoder goes
\* on with the next byte.
Whole == wireEnd # "rst" /\ enc # "failed"

\* They are frames; the first one continues what the sink has.
Framed ==
    \E n \in Nat, B \in SUBSET Nat, fr \in [Nat -> Frame] :
        /\ dec # "failed" => n = Len(sink)
        /\ Framing(Transit, n, Taken, B, fr)
        /\ Whole => Len(Transit) \in B /\ fr[Len(Transit)].from = Taken

\* The payload that is being written is that of the first frame, which is all there.
Delivering ==
    dec = "deliver" =>
        /\ ~Incomplete
        /\ Len(plain) = CipherLen(leftover) - TagLen
        /\ \A i \in DOMAIN plain : plain[i] = Len(sink) + i

\* How the places of the tasks, the connection's end and the faults fit together.
Control ==
    /\ enc \in {"read", "done"} => out = <<>>
    /\ enc \in {"read", "write"} => wireEnd # "fin"
    /\ enc \in {"done", "failed"} => wireEnd # "open"
    /\ enc = "done" => closed /\ source = <<>>
    /\ enc = "failed" /\ wireEnd = "fin" => out = <<>>
    /\ wireEnd = "rst" => wire = <<>>
    /\ ~broken => enc # "failed" /\ dec # "failed" /\ wireEnd # "rst"
    /\ dec = "read" => Incomplete
    /\ dec \in {"read", "parse", "deliver"} => ~ended
    /\ dec = "done" => ended

RelayInv == TypeOK /\ InOrder /\ Framed /\ Delivering /\ Control

-----------------------------------------------------------------------------
(* Lemmas about the invariant.                                             *)

\* The cells of Transit are those of its three parts.
LEMMA TransitCells ==
    ASSUME TypeOK
    PROVE  /\ Transit \in Seq(Cell)
           /\ Len(Transit) \in Nat /\ Len(leftover) \in Nat /\ Len(leftover) <= Len(Transit)
           /\ \A i \in 1..Len(leftover) : Transit[i] = leftover[i]
           /\ leftover \o wire \in Seq(Cell)
           /\ Len(leftover \o wire) <= Len(Transit)
           /\ \A i \in 1..Len(leftover \o wire) : Transit[i] = (leftover \o wire)[i]
<1> DEFINE rest == IF wireEnd = "rst" THEN <<>> ELSE out
           one == leftover \o wire
<1>1. leftover \in Seq(Cell) /\ wire \in Seq(Cell) /\ rest \in Seq(Cell)
  BY DEF TypeOK
<1>2. Transit = one \o rest
  BY DEF Transit
<1> HIDE DEF rest
<1>3. /\ one \in Seq(Cell) /\ Len(one) = Len(leftover) + Len(wire)
      /\ Len(leftover) \in Nat /\ Len(wire) \in Nat
      /\ \A i \in 1..Len(leftover) : one[i] = leftover[i]
  BY <1>1, Joined
<1> HIDE DEF one
<1>4. one \in Seq(Cell) /\ rest \in Seq(Cell)
  BY <1>1, <1>3
<1>5. /\ one \o rest \in Seq(Cell) /\ Len(one \o rest) = Len(one) + Len(rest)
      /\ Len(one) \in Nat /\ Len(rest) \in Nat
      /\ \A i \in 1..Len(one) : (one \o rest)[i] = one[i]
  BY ONLY <1>4, Joined
<1>6. /\ Transit \in Seq(Cell) /\ Len(Transit) = Len(one) + Len(rest)
      /\ \A i \in 1..Len(one) : Transit[i] = one[i]
  BY <1>2, <1>5
<1>7. Len(Transit) \in Nat /\ Len(one) <= Len(Transit) /\ Len(leftover) <= Len(one)
  BY <1>3, <1>5, <1>6
<1>8. \A i \in 1..Len(leftover) : Transit[i] = leftover[i]
  BY <1>3, <1>5, <1>6, <1>7
<1>9. QED BY <1>3, <1>4, <1>6, <1>7, <1>8 DEF one

\* The numbers of the invariant.
LEMMA Counts ==
    ASSUME TypeOK, InOrder
    PROVE  /\ Len(produced) \in Nat /\ Len(source) \in Nat /\ Len(sink) \in Nat
           /\ Taken \in Nat /\ Taken <= Len(produced) /\ Len(produced) <= MaxBytes
  BY DEF TypeOK, InOrder, Taken

\* What the parser finds at the front of its buffer is the first frame: its header tells how
\* long it is, and its last byte is one that the encoder has read.
LEMMA FirstFrame ==
    ASSUME TypeOK, InOrder, NEW n \in Nat, NEW B, NEW fr \in [Nat -> Frame],
           Framing(Transit, n, Taken, B, fr), Len(leftover) > 0
    PROVE  /\ \A i \in 1..Len(leftover) : i <= FrameLen(fr[0]) => leftover[i] = FrameCell(fr[0], i)
           /\ Len(leftover) >= HeaderLen =>
                CipherLen(leftover) = fr[0].len + TagLen /\ FrameEnd = FrameLen(fr[0])
           /\ fr[0].from = n /\ n + fr[0].len <= Taken
<1>1. /\ Len(Transit) \in Nat /\ Len(leftover) \in Nat /\ Len(leftover) <= Len(Transit)
      /\ \A i \in 1..Len(leftover) : Transit[i] = leftover[i]
  BY TransitCells
<1>2. /\ fr[0] \in Frame /\ HeaderLen \in Nat /\ HeaderLen > 0 /\ FrameLen(fr[0]) \in Nat
      /\ FrameLen(fr[0]) = HeaderLen + fr[0].len + TagLen /\ fr[0].len \in Nat /\ TagLen \in Nat
  BY Sizes
<1>3. 0 \in B /\ fr[0].from = n /\ 0 < Len(Transit)
  BY <1>1 DEF Framing
<1>4. FrameAt(Transit, 0, fr[0]) /\ fr[0].from + fr[0].len <= Taken
  BY <1>3 DEF Framing
<1>5. ASSUME NEW i \in 1..Len(leftover), i <= FrameLen(fr[0])
      PROVE  leftover[i] = FrameCell(fr[0], i)
  <2>1. i \in 1..FrameLen(fr[0]) /\ 0 + i = i /\ i <= Len(Transit)
    BY <1>1, <1>2, <1>5
  <2>2. Transit[i] = FrameCell(fr[0], i)
    BY <1>4, <2>1 DEF FrameAt
  <2>3. QED BY <1>1, <2>2
<1>6. ASSUME Len(leftover) >= HeaderLen
      PROVE  CipherLen(leftover) = fr[0].len + TagLen /\ FrameEnd = FrameLen(fr[0])
  <2>1. HeaderLen \in 1..Len(leftover) /\ HeaderLen <= FrameLen(fr[0])
    BY <1>1, <1>2, <1>6
  <2>2. leftover[HeaderLen] = [part |-> "header", value |-> fr[0].len + TagLen]
    <3>1. leftover[HeaderLen] = FrameCell(fr[0], HeaderLen)
      BY <1>5, <2>1
    <3>2. HeaderLen <= HeaderLen
      BY <1>2
    <3>3. QED BY <3>1, <3>2 DEF FrameCell
  <2>3. CipherLen(leftover) = fr[0].len + TagLen
    BY <2>2 DEF CipherLen
  <2>4. QED BY <1>2, <2>3 DEF FrameEnd
<1>7. QED BY <1>3, <1>4, <1>5, <1>6

\* A step that leaves the cells in transit and the sink alone keeps their frames.
LEMMA StillFramed ==
    ASSUME TypeOK, InOrder, Framed, Transit' = Transit, Taken' \in Nat, Taken <= Taken',
           dec' # "failed" => dec # "failed" /\ Len(sink') = Len(sink),
           Whole' => Whole /\ Taken' = Taken
    PROVE  Framed'
<1>1. PICK n \in Nat, B \in SUBSET Nat, fr \in [Nat -> Frame] :
        /\ dec # "failed" => n = Len(sink)
        /\ Framing(Transit, n, Taken, B, fr)
        /\ Whole => Len(Transit) \in B /\ fr[Len(Transit)].from = Taken
  BY DEF Framed
<1>2. Framing(Transit, n, Taken', B, fr)
  BY <1>1, TransitCells, Counts, FramesGrow
<1>3. QED BY <1>1, <1>2 DEF Framed

\* A step that cuts off the end keeps the frames of what is left.
LEMMA PrefixFramed ==
    ASSUME TypeOK, InOrder, Framed, NEW t, Transit' = t, Len(t) \in Nat,
           Len(t) <= Len(Transit), \A i \in 1..Len(t) : t[i] = Transit[i],
           Taken' = Taken, dec' = dec, sink' = sink, ~Whole'
    PROVE  Framed'
<1>1. PICK n \in Nat, B \in SUBSET Nat, fr \in [Nat -> Frame] :
        /\ dec # "failed" => n = Len(sink)
        /\ Framing(Transit, n, Taken, B, fr)
  BY DEF Framed
<1>2. Framing(t, n, Taken, B \cap 0..Len(t), fr)
  BY <1>1, TransitCells, FramesOfPrefix
<1>3. QED BY <1>1, <1>2 DEF Framed

-----------------------------------------------------------------------------
(* The steps.                                                              *)

\* Nothing is under way at first.
LEMMA InitRelay == Init => RelayInv
<1> SUFFICES ASSUME Init PROVE RelayInv
  OBVIOUS
<1> USE DEF Init
<1>1. TypeOK
  <2>1. <<>> \in Seq(Byte) /\ <<>> \in Seq(Cell)
    OBVIOUS
  <2>2. QED BY <2>1 DEF TypeOK
<1>2. InOrder
  BY Sizes DEF InOrder
<1>3. Transit = <<>> /\ Taken = 0 /\ Len(sink) = 0
  BY DEF Transit, Taken
<1>4. Framed
  <2>1. PICK fr : Framing(<<>>, 0, 0, {0}, fr) /\ fr[0].from = 0
    BY NoFrames
  <2>2. fr \in [Nat -> Frame] /\ {0} \in SUBSET Nat /\ Len(<<>>) = 0
    BY <2>1 DEF Framing
  <2>3. QED BY <1>3, <2>1, <2>2 DEF Framed
<1>5. Delivering /\ Control
  <2>1. Incomplete
    BY Sizes DEF Incomplete
  <2>2. QED BY <2>1 DEF Delivering, Control
<1>6. QED BY <1>1, <1>2, <1>4, <1>5 DEF RelayInv

\* The application sends a byte or ends its stream.
LEMMA SourceSteps ==
    ASSUME RelayInv, SourceWrites \/ SourceCloses PROVE RelayInv'
<1> USE DEF RelayInv
<1>1. /\ UNCHANGED <<enc, out, wire, wireEnd, dec, leftover, plain, sink, ended, broken>>
      /\ closed' \in {closed, TRUE}
  BY DEF SourceWrites, SourceCloses, decVars, TypeOK
<1>2. CASE SourceCloses
  <2>1. produced' = produced /\ source' = source
    BY <1>2 DEF SourceCloses
  <2>2. Transit' = Transit /\ Taken' = Taken /\ (Whole' <=> Whole)
    BY <1>1, <2>1 DEF Transit, Taken, Whole
  <2>3. Framed'
    BY <1>1, <2>2, Counts, StillFramed
  <2>4. TypeOK' /\ InOrder' /\ Delivering' /\ Control'
    BY <1>1, <2>1 DEF TypeOK, InOrder, Taken, Delivering, Control, Incomplete, FrameEnd, CipherLen
  <2>5. QED BY <2>3, <2>4
<1>3. CASE SourceWrites
  <2> DEFINE k == Len(produced) + 1
  <2>1. /\ produced' = Append(produced, k) /\ source' = Append(source, k) /\ closed' = closed
        /\ ~closed /\ Len(produced) < MaxBytes
    BY <1>3 DEF SourceWrites
  <2>2. /\ Len(produced) \in Nat /\ Len(source) \in Nat /\ Len(sink) \in Nat /\ Taken \in Nat
        /\ Len(source) <= Len(produced) /\ Len(sink) <= Len(produced) /\ MaxBytes \in Nat
    BY Counts, Sizes DEF InOrder
  <2>3. k \in Byte
    BY <2>1, <2>2 DEF Byte
  <2>4. /\ produced' \in Seq(Byte) /\ Len(produced') = k /\ source' \in Seq(Byte)
        /\ Len(source') = Len(source) + 1
        /\ \A i \in 1..Len(produced) : produced'[i] = produced[i]
        /\ \A i \in 1..Len(source) : source'[i] = source[i]
        /\ produced'[k] = k /\ source'[Len(source) + 1] = k
    BY <2>1, <2>3, AppendProperties DEF TypeOK
  <2>5. TypeOK'
    BY <1>1, <2>1, <2>4 DEF TypeOK
  <2>6. Taken' = Taken
    BY <2>2, <2>4 DEF Taken
  <2>7. InOrder'
    <3>1. \A i \in DOMAIN produced' : produced'[i] = i
      <4> SUFFICES ASSUME NEW i \in 1..k PROVE produced'[i] = i
        BY <2>4
      <4>1. CASE i \in 1..Len(produced)
        BY <2>4, <4>1 DEF InOrder, TypeOK
      <4>2. CASE i = k
        BY <2>4, <4>2
      <4>3. QED BY <2>2, <4>1, <4>2
    <3>2. \A i \in DOMAIN source' : source'[i] = Taken + i
      <4> SUFFICES ASSUME NEW i \in 1..Len(source) + 1 PROVE source'[i] = Taken + i
        BY <2>4
      <4>1. CASE i \in 1..Len(source)
        BY <2>4, <4>1 DEF InOrder, TypeOK
      <4>2. CASE i = Len(source) + 1
        BY <2>2, <2>4, <4>2 DEF Taken
      <4>3. QED BY <2>2, <4>1, <4>2
    <3>3. QED BY <1>1, <2>1, <2>2, <2>4, <2>6, <3>1, <3>2 DEF InOrder
  <2>8. Transit' = Transit /\ (Whole' <=> Whole)
    BY <1>1 DEF Transit, Whole
  <2>9. Framed'
    BY <1>1, <2>2, <2>6, <2>8, StillFramed
  <2>10. Delivering' /\ Control'
    BY <1>1, <2>1 DEF Delivering, Control, Incomplete, FrameEnd, CipherLen
  <2>11. QED BY <2>5, <2>7, <2>9, <2>10
<1>4. QED BY <1>2, <1>3

\* The encoding task reads and encodes: one more frame is in transit.
LEMMA EncReadStep ==
    ASSUME RelayInv, EncRead PROVE RelayInv'
<1> USE DEF RelayInv
<1>1. PICK n \in 1..ReadLimit :
        /\ n <= Len(source)
        /\ source' = SubSeq(source, n + 1, Len(source))
        /\ IF Encodable(SubSeq(source, 1, n))
           THEN /\ out' = Encode(SubSeq(source, 1, n))
                /\ enc' = "write"
                /\ UNCHANGED wireEnd
           ELSE /\ enc' = "failed"
                /\ wireEnd' = IF wireEnd = "open" THEN "fin" ELSE wireEnd
                /\ UNCHANGED out
  BY DEF EncRead
<1>2. /\ enc = "read"
      /\ UNCHANGED <<produced, closed, wire, dec, leftover, plain, sink, ended, broken>>
  BY DEF EncRead, decVars
<1> DEFINE payload == SubSeq(source, 1, n)
           f == [from |-> Taken, len |-> n]
<1>3. /\ n \in Nat /\ n > 0 /\ n <= MaxPayload /\ n <= Len(source) /\ n \in 0..Len(source)
      /\ Len(source) \in Nat /\ Taken \in Nat /\ Len(produced) \in Nat /\ Len(sink) \in Nat
      /\ Len(produced) <= MaxBytes /\ Len(source) <= Len(produced)
  BY <1>1, Counts, Sizes DEF ReadLimit, InOrder
<1>4. /\ payload \in Seq(Byte) /\ Len(payload) = n
      /\ \A i \in 1..n : payload[i] = source[i]
      /\ source' \in Seq(Byte) /\ Len(source') = Len(source) - n
      /\ \A i \in 1..Len(source) - n : source'[i] = source[n + i]
  <2>1. source \in Seq(Byte) /\ n \in 0..Len(source)
    BY <1>3 DEF TypeOK
  <2>2. QED BY <1>1, <2>1, Divided
<1>5. f \in Frame /\ f.from = Taken /\ f.len = n
  BY <1>3 DEF Frame
<1> HIDE DEF f
<1>6. \A i \in 1..n : payload[i] = f.from + i
  <2> SUFFICES ASSUME NEW i \in 1..n PROVE payload[i] = Taken + i
    BY <1>5
  <2>1. i \in DOMAIN source
    BY <1>3 DEF TypeOK
  <2>2. QED BY <1>4, <2>1 DEF InOrder
<1>7. Encodable(payload)
  BY <1>3, <1>4 DEF Encodable
<1>8. out' = Encode(payload) /\ enc' = "write" /\ wireEnd' = wireEnd
  BY <1>1, <1>7
<1>9. /\ out' \in Seq(Cell) /\ Len(out') = FrameLen(f)
      /\ \A i \in 1..FrameLen(f) : out'[i] = FrameCell(f, i)
  <2>1. Len(payload) = f.len
    BY <1>4, <1>5
  <2>2. QED BY <1>4, <1>5, <1>6, <1>8, <2>1, Encoded
<1> HIDE DEF payload
<1>10. TypeOK'
  BY <1>2, <1>4, <1>8, <1>9 DEF TypeOK
<1>11. Taken' = Taken + n
  BY <1>2, <1>3, <1>4 DEF Taken
<1>12. InOrder'
  <2>1. \A i \in DOMAIN source' : source'[i] = Taken' + i
    <3> SUFFICES ASSUME NEW i \in 1..Len(source) - n PROVE source'[i] = Taken + n + i
      BY <1>4, <1>11
    <3>1. n + i \in DOMAIN source
      BY <1>3 DEF TypeOK
    <3>2. source'[i] = Taken + (n + i)
      BY <1>4, <3>1 DEF InOrder
    <3>3. QED BY <1>3, <3>2
  <2>2. Len(source') <= Len(produced')
    BY <1>2, <1>3, <1>4
  <2>3. QED BY <1>2, <2>1, <2>2 DEF InOrder
<1>13. Delivering' /\ Control'
  BY <1>2, <1>8 DEF Delivering, Control, Incomplete, FrameEnd, CipherLen
<1>14. wireEnd \in {"open", "rst"} /\ out = <<>>
  BY <1>2 DEF Control, TypeOK
<1>15. Framed'
  <2>1. CASE wireEnd = "rst"
    <3>1. Transit' = Transit /\ ~Whole'
      BY <1>2, <1>8, <2>1 DEF Transit, Whole
    <3>2. Taken' \in Nat /\ Taken <= Taken'
      BY <1>3, <1>11
    <3>3. QED BY <1>2, <3>1, <3>2, StillFramed
  <2>2. CASE wireEnd = "open"
    <3>1. Whole
      BY <1>2, <2>2 DEF Whole
    <3>2. PICK k \in Nat, B \in SUBSET Nat, fr \in [Nat -> Frame] :
            /\ dec # "failed" => k = Len(sink)
            /\ Framing(Transit, k, Taken, B, fr)
            /\ Len(Transit) \in B /\ fr[Len(Transit)].from = Taken
      BY <3>1 DEF Framed
    <3>3. leftover \o wire \in Seq(Cell) /\ Transit \in Seq(Cell)
      BY TransitCells
    <3>4. Transit = leftover \o wire
      BY <1>14, <2>2, <3>3, ConcatEmptySeq DEF Transit
    <3>5. Transit' = Transit \o out'
      BY <1>2, <1>8, <2>2, <3>4 DEF Transit
    <3>6. /\ Len(Transit \o out') = Len(Transit) + Len(out') /\ Len(Transit) \in Nat
          /\ \A i \in 1..Len(Transit) : (Transit \o out')[i] = Transit[i]
          /\ \A i \in 1..Len(out') : (Transit \o out')[Len(Transit) + i] = out'[i]
      <4>1. Transit \in Seq(Cell) /\ out' \in Seq(Cell)
        BY <1>9, <3>3
      <4>2. QED BY ONLY <4>1, Joined
    <3>7. /\ Len(Transit') = Len(Transit) + FrameLen(f)
          /\ \A i \in 1..Len(Transit) : Transit'[i] = Transit[i]
          /\ \A i \in 1..FrameLen(f) : Transit'[Len(Transit) + i] = FrameCell(f, i)
      BY <1>9, <3>5, <3>6
    <3>8. PICK C, gr : /\ Framing(Transit', k, Taken + f.len, C, gr)
                       /\ Len(Transit') \in C /\ gr[Len(Transit')].from = Taken + f.len
      <4>1. /\ f \in Frame /\ f.from = Taken /\ Taken \in Nat
            /\ Framing(Transit, k, Taken, B, fr) /\ Len(Transit) \in Nat
            /\ Len(Transit) \in B /\ fr[Len(Transit)].from = Taken
        BY <1>3, <1>5, <3>2, <3>6
      <4>2. QED BY ONLY <4>1, <3>7, FrameAppended
    <3>9. gr \in [Nat -> Frame] /\ C \in SUBSET Nat
      BY <3>8 DEF Framing
    <3>10. /\ Framing(Transit', k, Taken', C, gr)
           /\ Len(Transit') \in C /\ gr[Len(Transit')].from = Taken'
      BY <1>5, <1>11, <3>8
    <3>11. dec' # "failed" => k = Len(sink')
      BY <1>2, <3>2
    <3>12. QED BY <3>9, <3>10, <3>11 DEF Framed
  <2>3. QED BY <1>14, <2>1, <2>2
<1>16. QED BY <1>10, <1>12, <1>13, <1>15

\* A step that moves no byte at either end keeps the places of the bytes.
LEMMA StillInOrder ==
    ASSUME InOrder, produced' = produced, source' = source, sink' = sink
    PROVE  InOrder' /\ Taken' = Taken
  BY DEF InOrder, Taken

\* write_all moves cells from the frame to the connection.
LEMMA EncWriteStep ==
    ASSUME RelayInv, EncWrite PROVE RelayInv'
<1> USE DEF RelayInv
<1>1. PICK n \in 1..Len(out) :
        /\ wire' = wire \o SubSeq(out, 1, n)
        /\ out' = SubSeq(out, n + 1, Len(out))
        /\ enc' = IF n = Len(out) THEN "read" ELSE "write"
  BY DEF EncWrite
<1>2. /\ enc = "write" /\ wireEnd = "open"
      /\ UNCHANGED <<produced, closed, source, wireEnd, dec, leftover, plain, sink, ended, broken>>
  BY DEF EncWrite, decVars
<1>3. /\ leftover \in Seq(Cell) /\ wire \in Seq(Cell) /\ out \in Seq(Cell)
  BY DEF TypeOK
<1> DEFINE a == SubSeq(out, 1, n)
           b == SubSeq(out, n + 1, Len(out))
<1>4. /\ a \in Seq(Cell) /\ b \in Seq(Cell) /\ a \o b = out /\ Len(b) = Len(out) - n
  BY <1>3, Divided
<1>5. out' = b /\ wire' = wire \o a
  BY <1>1
<1> HIDE DEF a, b
<1>6. wire \o a \in Seq(Cell)
  BY <1>3, <1>4
<1>7. TypeOK'
  BY <1>1, <1>2, <1>4, <1>5, <1>6 DEF TypeOK
<1>8. InOrder' /\ Taken' = Taken
  BY <1>2, StillInOrder
<1>9. Transit' = Transit
  <2> DEFINE one == leftover \o wire
  <2>1. Transit' = (leftover \o (wire \o a)) \o b /\ Transit = one \o out
    BY <1>2, <1>5 DEF Transit
  <2>2. one \in Seq(Cell)
    BY <1>3
  <2>3. leftover \o (wire \o a) = one \o a
    <3>1. leftover \in Seq(Cell) /\ wire \in Seq(Cell) /\ a \in Seq(Cell)
      BY <1>3, <1>4
    <3>2. QED BY ONLY <3>1, ConcatAssociative
  <2> HIDE DEF one
  <2>4. (one \o a) \o b = one \o (a \o b)
    <3>1. one \in Seq(Cell) /\ a \in Seq(Cell) /\ b \in Seq(Cell)
      BY <1>4, <2>2
    <3>2. QED BY ONLY <3>1, ConcatAssociative
  <2>5. QED BY <1>4, <2>1, <2>3, <2>4
<1>10. Framed'
  <2>1. Whole' => Whole
    BY <1>2 DEF Whole
  <2>2. Taken' \in Nat /\ Taken <= Taken'
    BY <1>8, Counts
  <2>3. QED BY <1>2, <1>8, <1>9, <2>1, <2>2, StillFramed
<1>11. enc' = "read" => out' = <<>>
  <2>1. CASE enc' = "read"
    <3>1. Len(b) = 0
      BY <1>1, <1>3, <1>4, <2>1
    <3>2. QED BY <1>4, <1>5, <3>1
  <2>2. QED BY <2>1
<1>12. Delivering' /\ Control'
  <2>1. enc' \in {"read", "write"} /\ ~(wireEnd = "rst") /\ ~(wireEnd = "fin")
    BY <1>1, <1>2
  <2>2. QED BY <1>2, <1>11, <2>1 DEF Delivering, Control, Incomplete, FrameEnd, CipherLen
<1>13. QED BY <1>7, <1>8, <1>10, <1>12

\* The encoding task ends, and leaves the cells in transit as they are.
LEMMA EncEndSteps ==
    ASSUME RelayInv, EncShutdown \/ EncReadFails \/ EncWriteFails PROVE RelayInv'
<1> USE DEF RelayInv
<1>1. /\ UNCHANGED <<produced, closed, source, out, wire, dec, leftover, plain, sink, ended>>
      /\ enc' \in {"done", "failed"}
      /\ wireEnd' = IF wireEnd = "open" THEN "fin" ELSE wireEnd
      /\ broken' \in {broken, TRUE}
      /\ enc' = "failed" => broken'
      /\ enc' = "done" => closed /\ source = <<>> /\ enc = "read" /\ wireEnd = "open"
      /\ enc = "read" \/ wireEnd = "rst"
  BY DEF EncShutdown, EncReadFails, EncWriteFails, decVars, Control, TypeOK
<1>2. TypeOK'
  BY <1>1 DEF TypeOK
<1>3. InOrder' /\ Taken' = Taken
  BY <1>1, StillInOrder
<1>4. wireEnd \in {"open", "fin", "rst"} /\ (wireEnd # "rst" => out = <<>>)
  BY <1>1 DEF Control, TypeOK
<1>5. Transit' = Transit
  BY <1>1, <1>4 DEF Transit
<1>6. Framed'
  <2>1. Whole' => Whole
    BY <1>1, <1>4 DEF Whole
  <2>2. Taken' \in Nat /\ Taken <= Taken'
    BY <1>3, Counts
  <2>3. QED BY <1>1, <1>3, <1>5, <2>1, <2>2, StillFramed
<1>7. Delivering'
  BY <1>1 DEF Delivering, Incomplete, FrameEnd, CipherLen
<1>8. Control'
  <2>1. Incomplete' <=> Incomplete
    BY <1>1 DEF Incomplete, FrameEnd, CipherLen
  <2>2. wireEnd' \in {"fin", "rst"} /\ (wireEnd' = "rst" <=> wireEnd = "rst")
    BY <1>1, <1>4
  <2>3. enc' = "done" => wireEnd' = "fin"
    BY <1>1
  <2>4. wireEnd' = "fin" => out' = <<>>
    BY <1>1, <1>4, <2>2
  <2>5. CASE enc' = "done"
    <3>1. ~broken' => ~broken
      BY <1>1
    <3>2. wireEnd' = "fin" /\ enc' # "failed" /\ closed' /\ source' = <<>> /\ out' = <<>>
      BY <1>1, <2>3, <2>4, <2>5
    <3>3. /\ ~broken => dec' # "failed" /\ wireEnd' # "rst"
          /\ wireEnd' # "rst"
          /\ dec' = "read" => Incomplete'
          /\ dec' \in {"read", "parse", "deliver"} => ~ended'
          /\ dec' = "done" => ended'
      BY <1>1, <2>1, <3>2 DEF Control
    <3>4. QED BY <2>5, <3>1, <3>2, <3>3 DEF Control
  <2>6. CASE enc' = "failed"
    BY <1>1, <2>1, <2>2, <2>4, <2>6 DEF Control
  <2>7. QED BY <1>1, <2>5, <2>6
<1>9. QED BY <1>2, <1>3, <1>6, <1>7, <1>8

\* The encoder's process ends, or the connection is reset: the end of what is in transit is
\* lost.
LEMMA LosingSteps ==
    ASSUME RelayInv, SenderDies \/ WireReset PROVE RelayInv'
<1> USE DEF RelayInv
<1>1. /\ UNCHANGED <<produced, closed, source, dec, leftover, plain, sink, ended>>
      /\ broken' = TRUE
  BY DEF SenderDies, WireReset, decVars, encVars
<1>2. InOrder' /\ Taken' = Taken
  BY <1>1, StillInOrder
<1>3. Delivering' /\ (Incomplete' <=> Incomplete)
  BY <1>1 DEF Delivering, Incomplete, FrameEnd, CipherLen
<1>4. leftover \in Seq(Cell) /\ leftover \o wire \in Seq(Cell) /\ <<>> \in Seq(Cell)
  BY TransitCells DEF TypeOK
<1>5. CASE SenderDies
  <2>1. /\ enc' = "failed" /\ out' = <<>> /\ wire' = wire /\ enc \in {"read", "write"}
        /\ wireEnd' = IF wireEnd = "open" THEN "fin" ELSE wireEnd
    BY <1>5 DEF SenderDies
  <2>2. TypeOK'
    BY <1>1, <1>4, <2>1 DEF TypeOK
  <2>3. Control'
    BY <1>1, <1>3, <2>1 DEF Control, TypeOK
  <2>4. Transit' = leftover \o wire
    BY <1>1, <1>4, <2>1, ConcatEmptySeq DEF Transit
  <2>5. Framed'
    <3>1. ~Whole'
      BY <2>1 DEF Whole
    <3>2. Len(leftover \o wire) \in Nat
      BY <1>4
    <3>3. QED BY <1>1, <1>2, <2>4, <3>1, <3>2, TransitCells, PrefixFramed
  <2>6. QED BY <1>2, <1>3, <2>2, <2>3, <2>5
<1>6. CASE WireReset
  <2>1. enc' = enc /\ out' = out /\ wire' = <<>> /\ wireEnd' = "rst"
    BY <1>6 DEF WireReset, encVars
  <2>2. TypeOK'
    BY <1>1, <1>4, <2>1 DEF TypeOK
  <2>3. Control'
    BY <1>1, <1>3, <2>1 DEF Control, TypeOK
  <2>4. Transit' = leftover
    <3>1. Transit' = (leftover \o <<>>) \o <<>>
      BY <1>1, <2>1 DEF Transit
    <3>2. leftover \o <<>> = leftover
      BY <1>4, ConcatEmptySeq
    <3>3. QED BY <3>1, <3>2
  <2>5. Framed'
    <3>1. ~Whole'
      BY <2>1 DEF Whole
    <3>2. /\ Len(leftover) \in Nat /\ Len(leftover) <= Len(Transit)
          /\ \A i \in 1..Len(leftover) : leftover[i] = Transit[i]
      BY TransitCells
    <3>3. QED BY <1>1, <1>2, <2>4, <3>1, <3>2, PrefixFramed
  <2>6. QED BY <1>2, <1>3, <2>2, <2>3, <2>5
<1>7. QED BY <1>5, <1>6

\* The decoding task reads: cells move from the connection into its buffer.
LEMMA DecReadStep ==
    ASSUME RelayInv, DecRead PROVE RelayInv'
<1> USE DEF RelayInv
<1>1. PICK n \in 1..ReadLen :
        /\ n <= Len(wire)
        /\ leftover' = leftover \o SubSeq(wire, 1, n)
        /\ wire' = SubSeq(wire, n + 1, Len(wire))
  BY DEF DecRead
<1>2. /\ dec = "read" /\ dec' = "parse"
      /\ UNCHANGED <<produced, closed, source, enc, out, wireEnd, plain, sink, ended, broken>>
  BY DEF DecRead, encVars
<1>3. /\ leftover \in Seq(Cell) /\ wire \in Seq(Cell) /\ out \in Seq(Cell)
  BY DEF TypeOK
<1>4. n \in 0..Len(wire)
  BY <1>1, <1>3, RelayAssumption
<1> DEFINE a == SubSeq(wire, 1, n)
           b == SubSeq(wire, n + 1, Len(wire))
<1>5. /\ a \in Seq(Cell) /\ b \in Seq(Cell) /\ a \o b = wire
  BY <1>3, <1>4, Divided
<1>6. leftover' = leftover \o a /\ wire' = b
  BY <1>1
<1> HIDE DEF a, b
<1>7. leftover \o a \in Seq(Cell)
  BY <1>3, <1>5
<1>8. TypeOK'
  BY <1>2, <1>5, <1>6, <1>7 DEF TypeOK
<1>9. InOrder' /\ Taken' = Taken
  BY <1>2, StillInOrder
<1>10. (leftover \o a) \o b = leftover \o wire
  <2>1. leftover \in Seq(Cell) /\ a \in Seq(Cell) /\ b \in Seq(Cell)
    BY <1>3, <1>5
  <2>2. (leftover \o a) \o b = leftover \o (a \o b)
    BY ONLY <2>1, ConcatAssociative
  <2>3. QED BY <1>5, <2>2
<1>11. Transit' = Transit
  BY <1>2, <1>6, <1>10 DEF Transit
<1>12. Framed'
  <2>1. Whole' => Whole
    BY <1>2 DEF Whole
  <2>2. Taken' \in Nat /\ Taken <= Taken'
    BY <1>9, Counts
  <2>3. QED BY <1>2, <1>9, <1>11, <2>1, <2>2, StillFramed
<1>13. wireEnd # "rst"
  <2>1. Len(wire) > 0
    BY <1>1, <1>3, RelayAssumption
  <2>2. wire # <<>>
    BY <2>1
  <2>3. QED BY <2>2 DEF Control
<1>14. Delivering' /\ Control'
  BY <1>2, <1>13 DEF Delivering, Control
<1>15. QED BY <1>8, <1>9, <1>12, <1>14

\* A whole frame is parsed: it is the first one, and decode accepts it.
LEMMA DecParseStep ==
    ASSUME RelayInv, DecParse PROVE RelayInv'
<1> USE DEF RelayInv
<1>1. /\ dec = "parse" /\ ~Incomplete
      /\ UNCHANGED <<produced, closed, source, enc, out, wire, wireEnd, leftover, sink, ended, broken>>
  BY DEF DecParse, encVars
<1> DEFINE bytes == SubSeq(leftover, 1, FrameEnd)
<1>2. IF Decodable(bytes) THEN plain' = Decode(bytes) /\ dec' = "deliver"
                          ELSE dec' = "failed" /\ UNCHANGED plain
  BY DEF DecParse
<1>3. PICK k \in Nat, B \in SUBSET Nat, fr \in [Nat -> Frame] :
        /\ k = Len(sink)
        /\ Framing(Transit, k, Taken, B, fr)
  BY <1>1 DEF Framed
<1>4. leftover \in Seq(Cell) /\ Len(leftover) \in Nat
  BY DEF TypeOK
<1>5. fr[0] \in Frame /\ FrameLen(fr[0]) \in Nat /\ HeaderLen \in Nat /\ HeaderLen > 0
      /\ FrameLen(fr[0]) = HeaderLen + fr[0].len + TagLen /\ fr[0].len \in Nat /\ TagLen \in Nat
      /\ MaxBytes \in Nat
  BY Sizes
<1>6. /\ Len(leftover) >= HeaderLen /\ ~(Len(leftover) < FrameEnd)
  BY <1>1 DEF Incomplete
<1>7. /\ \A i \in 1..Len(leftover) : i <= FrameLen(fr[0]) => leftover[i] = FrameCell(fr[0], i)
      /\ CipherLen(leftover) = fr[0].len + TagLen /\ FrameEnd = FrameLen(fr[0])
      /\ fr[0].from = k /\ k + fr[0].len <= Taken
  BY <1>3, <1>4, <1>5, <1>6, FirstFrame
<1>8. FrameEnd \in 0..Len(leftover)
  BY <1>4, <1>5, <1>6, <1>7
<1>9. /\ bytes \in Seq(Cell) /\ Len(bytes) = FrameEnd
      /\ \A i \in 1..FrameEnd : bytes[i] = leftover[i]
  BY <1>4, <1>8, Divided
<1> HIDE DEF bytes
<1>10. \A i \in 1..FrameLen(fr[0]) : bytes[i] = FrameCell(fr[0], i)
  <2> SUFFICES ASSUME NEW i \in 1..FrameLen(fr[0]) PROVE bytes[i] = FrameCell(fr[0], i)
    OBVIOUS
  <2>1. i \in 1..Len(leftover) /\ i <= FrameLen(fr[0]) /\ i \in 1..FrameEnd
    BY <1>4, <1>5, <1>7, <1>8
  <2>2. QED BY <1>7, <1>9, <2>1
<1>11. fr[0].from + fr[0].len <= MaxBytes
  BY <1>3, <1>5, <1>7, Counts
<1>12. /\ Decodable(bytes) /\ Len(Decode(bytes)) = fr[0].len
       /\ \A i \in 1..fr[0].len : Decode(bytes)[i] = fr[0].from + i
       /\ Decode(bytes) \in Seq(Byte)
  BY <1>5, <1>7, <1>9, <1>10, <1>11, Decoded
<1>13. plain' = Decode(bytes) /\ dec' = "deliver"
  BY <1>2, <1>12
<1>14. TypeOK'
  BY <1>1, <1>12, <1>13 DEF TypeOK
<1>15. InOrder' /\ Taken' = Taken
  BY <1>1, StillInOrder
<1>16. Framed'
  <2>1. Transit' = Transit /\ (Whole' => Whole)
    BY <1>1 DEF Transit, Whole
  <2>2. Taken' \in Nat /\ Taken <= Taken'
    BY <1>15, Counts
  <2>3. QED BY <1>1, <1>15, <2>1, <2>2, StillFramed
<1>17. Delivering'
  <2>1. ~Incomplete' /\ CipherLen(leftover)' = CipherLen(leftover)
    BY <1>1 DEF Incomplete, FrameEnd, CipherLen
  <2>2. Len(plain') = CipherLen(leftover) - TagLen
    BY <1>5, <1>7, <1>12, <1>13
  <2>3. \A i \in DOMAIN plain' : plain'[i] = Len(sink) + i
    <3>1. DOMAIN plain' = 1..fr[0].len
      BY <1>12, <1>13
    <3>2. QED BY <1>3, <1>7, <1>12, <1>13, <3>1
  <2>4. QED BY <1>1, <2>1, <2>2, <2>3 DEF Delivering
<1>18. Control'
  BY <1>1, <1>13 DEF Control
<1>19. QED BY <1>14, <1>15, <1>16, <1>17, <1>18

\* What a payload that is being written is: the bytes after those of the sink, up to one the
\* encoder has read; and the frame it came from is all at the front of the buffer.
LEMMA PayloadNext ==
    ASSUME RelayInv, dec = "deliver",
           NEW k \in Nat, NEW B, NEW fr \in [Nat -> Frame], k = Len(sink),
           Framing(Transit, k, Taken, B, fr)
    PROVE  /\ plain \in Seq(Byte) /\ Len(plain) = fr[0].len
           /\ \A i \in 1..Len(plain) : plain[i] = Len(sink) + i
           /\ Len(sink) + Len(plain) <= Len(produced)
           /\ FrameEnd = FrameLen(fr[0]) /\ FrameEnd \in Nat /\ FrameEnd <= Len(leftover)
<1> USE DEF RelayInv
<1>1. leftover \in Seq(Cell) /\ Len(leftover) \in Nat /\ plain \in Seq(Byte)
  BY DEF TypeOK
<1>2. fr[0] \in Frame /\ FrameLen(fr[0]) \in Nat /\ HeaderLen \in Nat /\ HeaderLen > 0
      /\ fr[0].len \in Nat /\ TagLen \in Nat
  BY Sizes
<1>3. Len(leftover) >= HeaderLen /\ ~(Len(leftover) < FrameEnd)
  BY DEF Delivering, Incomplete
<1>4. /\ CipherLen(leftover) = fr[0].len + TagLen /\ FrameEnd = FrameLen(fr[0])
      /\ k + fr[0].len <= Taken
  BY <1>1, <1>2, <1>3, FirstFrame
<1>5. Len(plain) = fr[0].len
  BY <1>2, <1>4 DEF Delivering
<1>6. \A i \in 1..Len(plain) : plain[i] = Len(sink) + i
  <2>1. DOMAIN plain = 1..Len(plain)
    BY <1>1
  <2>2. \A i \in DOMAIN plain : plain[i] = Len(sink) + i
    BY DEF Delivering
  <2>3. QED BY <2>1, <2>2, Zenon
<1>7. Len(sink) + Len(plain) <= Len(produced)
  BY <1>2, <1>4, <1>5, Counts
<1>8. QED BY <1>1, <1>2, <1>3, <1>4, <1>5, <1>6, <1>7

\* The sink receives the first n bytes of a payload.
LEMMA SinkGrows ==
    ASSUME TypeOK, InOrder, NEW p \in Seq(Byte), sink' = sink \o p,
           \A i \in 1..Len(p) : p[i] = Len(sink) + i,
           Len(sink) + Len(p) <= Len(produced),
           produced' = produced, source' = source
    PROVE  /\ InOrder' /\ Taken' = Taken /\ sink' \in Seq(Byte)
           /\ Len(sink') = Len(sink) + Len(p)
<1>1. sink \in Seq(Byte) /\ p \in Seq(Byte)
  BY DEF TypeOK
<1>2. /\ sink \o p \in Seq(Byte) /\ Len(sink \o p) = Len(sink) + Len(p)
      /\ Len(sink) \in Nat /\ Len(p) \in Nat
      /\ \A i \in 1..Len(sink) : (sink \o p)[i] = sink[i]
      /\ \A i \in 1..Len(p) : (sink \o p)[Len(sink) + i] = p[i]
  BY ONLY <1>1, Joined
<1>3. \A i \in DOMAIN sink' : sink'[i] = i
  <2> SUFFICES ASSUME NEW i \in 1..Len(sink) + Len(p) PROVE (sink \o p)[i] = i
    BY <1>2
  <2>1. CASE i \in 1..Len(sink)
    <3>1. sink[i] = i
      BY <1>1, <2>1 DEF InOrder
    <3>2. QED BY <1>2, <2>1, <3>1
  <2>2. CASE i > Len(sink)
    <3>1. i - Len(sink) \in 1..Len(p) /\ Len(sink) + (i - Len(sink)) = i
      BY <1>2, <2>2
    <3>2. QED BY <1>2, <3>1
  <2>3. i \in 1..Len(sink) \/ i > Len(sink)
    BY <1>2
  <2>4. QED BY <2>1, <2>2, <2>3, Zenon
<1>4. InOrder' /\ Taken' = Taken
  BY <1>2, <1>3 DEF InOrder, Taken
<1>5. QED BY <1>2, <1>4

\* A payload is written and its frame taken off the buffer.
LEMMA DecDeliverStep ==
    ASSUME RelayInv, DecDeliver PROVE RelayInv'
<1> USE DEF RelayInv
<1>1. /\ dec = "deliver" /\ dec' = "parse" /\ sink' = sink \o plain /\ plain' = <<>>
      /\ leftover' = SubSeq(leftover, FrameEnd + 1, Len(leftover))
      /\ UNCHANGED <<produced, closed, source, enc, out, wire, wireEnd, ended, broken>>
  BY DEF DecDeliver, encVars
<1>2. PICK k \in Nat, B \in SUBSET Nat, fr \in [Nat -> Frame] :
        /\ k = Len(sink)
        /\ Framing(Transit, k, Taken, B, fr)
        /\ Whole => Len(Transit) \in B /\ fr[Len(Transit)].from = Taken
  BY <1>1 DEF Framed
<1>3. /\ plain \in Seq(Byte) /\ Len(plain) = fr[0].len
      /\ \A i \in 1..Len(plain) : plain[i] = Len(sink) + i
      /\ Len(sink) + Len(plain) <= Len(produced)
      /\ FrameEnd = FrameLen(fr[0]) /\ FrameEnd \in Nat /\ FrameEnd <= Len(leftover)
  BY <1>1, <1>2, PayloadNext
<1>4. /\ InOrder' /\ Taken' = Taken /\ sink' \in Seq(Byte)
      /\ Len(sink') = Len(sink) + Len(plain)
  BY <1>1, <1>3, SinkGrows
<1> DEFINE front == SubSeq(leftover, 1, FrameEnd)
           back == SubSeq(leftover, FrameEnd + 1, Len(leftover))
           rest == IF wireEnd = "rst" THEN <<>> ELSE out
<1>5. leftover \in Seq(Cell) /\ wire \in Seq(Cell) /\ rest \in Seq(Cell) /\ Len(leftover) \in Nat
  BY DEF TypeOK
<1>6. /\ front \in Seq(Cell) /\ Len(front) = FrameEnd
      /\ back \in Seq(Cell) /\ front \o back = leftover
  <2>1. FrameEnd \in 0..Len(leftover)
    BY <1>3, <1>5
  <2>2. QED BY <1>5, <2>1, Divided
<1>7. leftover' = back /\ Transit = (leftover \o wire) \o rest /\ Transit' = (back \o wire) \o rest
  BY <1>1 DEF Transit
<1> HIDE DEF front, back, rest
<1>8. TypeOK'
  <2>1. plain' \in Seq(Byte) /\ leftover' \in Seq(Cell)
    BY <1>1, <1>6, <1>7
  <2>2. QED BY <1>1, <1>4, <2>1 DEF TypeOK
<1>9. Transit = front \o Transit' /\ Transit' \in Seq(Cell)
  <2> DEFINE bw == back \o wire
  <2>1. bw \in Seq(Cell)
    BY <1>5, <1>6
  <2>2. leftover \o wire = front \o bw
    <3>1. front \in Seq(Cell) /\ back \in Seq(Cell) /\ wire \in Seq(Cell)
      BY <1>5, <1>6
    <3>2. (front \o back) \o wire = front \o (back \o wire)
      BY ONLY <3>1, ConcatAssociative
    <3>3. QED BY <1>6, <3>2
  <2>3. Transit' = bw \o rest
    BY <1>7
  <2> HIDE DEF bw
  <2>4. (front \o bw) \o rest = front \o (bw \o rest)
    <3>1. front \in Seq(Cell) /\ bw \in Seq(Cell) /\ rest \in Seq(Cell)
      BY <1>5, <1>6, <2>1
    <3>2. QED BY ONLY <3>1, ConcatAssociative
  <2>5. bw \o rest \in Seq(Cell)
    BY <1>5, <2>1
  <2>6. QED BY <1>7, <2>2, <2>3, <2>4, <2>5
<1>10. /\ Len(Transit) = FrameEnd + Len(Transit') /\ Len(Transit') \in Nat
       /\ \A i \in 1..Len(Transit') : Transit[FrameEnd + i] = Transit'[i]
  <2> DEFINE t == Transit'
  <2>1. front \in Seq(Cell) /\ t \in Seq(Cell)
    BY <1>6, <1>9
  <2>2. Transit = front \o t
    BY <1>9
  <2> HIDE DEF t
  <2>3. /\ Len(front \o t) = Len(front) + Len(t) /\ Len(t) \in Nat
        /\ \A i \in 1..Len(t) : (front \o t)[Len(front) + i] = t[i]
    BY ONLY <2>1, Joined
  <2>4. QED BY <1>6, <2>2, <2>3 DEF t
<1>11. PICK C, gr : /\ Framing(Transit', k + fr[0].len, Taken, C, gr)
                    /\ Len(Transit) \in B =>
                         Len(Transit') \in C /\ gr[Len(Transit')].from = fr[Len(Transit)].from
  <2>1. /\ Framing(Transit, k, Taken, B, fr) /\ Len(Transit) \in Nat /\ FrameEnd \in Nat
        /\ FrameEnd = FrameLen(fr[0]) /\ FrameEnd <= Len(Transit)
        /\ Len(Transit') = Len(Transit) - FrameEnd
        /\ \A i \in 1..Len(Transit') : Transit'[i] = Transit[FrameEnd + i]
    BY <1>2, <1>3, <1>10
  <2>2. QED BY ONLY <2>1, FrameRemoved
<1>12. Framed'
  <2>1. gr \in [Nat -> Frame] /\ C \in SUBSET Nat
    BY <1>10, <1>11 DEF Framing
  <2>2. k + fr[0].len \in Nat /\ k + fr[0].len = Len(sink')
    BY <1>2, <1>3, <1>4
  <2>3. Framing(Transit', k + fr[0].len, Taken', C, gr)
    BY <1>4, <1>11
  <2>4. Whole' => Len(Transit') \in C /\ gr[Len(Transit')].from = Taken'
    BY <1>1, <1>2, <1>4, <1>11 DEF Whole
  <2>5. QED BY <2>1, <2>2, <2>3, <2>4 DEF Framed
<1>13. Delivering' /\ Control'
  BY <1>1 DEF Delivering, Control
<1>14. QED BY <1>4, <1>8, <1>12, <1>13

\* The sink closes under a write: it has part of the payload.
LEMMA DecWriteFailsStep ==
    ASSUME RelayInv, DecWriteFails PROVE RelayInv'
<1> USE DEF RelayInv
<1>1. PICK n \in 0..Len(plain) : sink' = sink \o SubSeq(plain, 1, n)
  BY DEF DecWriteFails
<1>2. /\ dec = "deliver" /\ dec' = "failed" /\ broken' = TRUE
      /\ UNCHANGED <<produced, closed, source, enc, out, wire, wireEnd, leftover, plain, ended>>
  BY DEF DecWriteFails, encVars
<1>3. PICK k \in Nat, B \in SUBSET Nat, fr \in [Nat -> Frame] :
        /\ k = Len(sink)
        /\ Framing(Transit, k, Taken, B, fr)
        /\ Whole => Len(Transit) \in B /\ fr[Len(Transit)].from = Taken
  BY <1>2 DEF Framed
<1>4. /\ plain \in Seq(Byte) /\ Len(plain) \in Nat
      /\ \A i \in 1..Len(plain) : plain[i] = Len(sink) + i
      /\ Len(sink) + Len(plain) <= Len(produced)
  BY <1>2, <1>3, PayloadNext
<1> DEFINE p == SubSeq(plain, 1, n)
<1>5. p \in Seq(Byte) /\ Len(p) = n /\ \A i \in 1..n : p[i] = plain[i]
  BY <1>4, Divided
<1>6. sink' = sink \o p
  BY <1>1
<1> HIDE DEF p
<1>7. InOrder' /\ Taken' = Taken /\ sink' \in Seq(Byte)
  <2>1. \A i \in 1..Len(p) : p[i] = Len(sink) + i
    BY <1>4, <1>5
  <2>2. Len(sink) + Len(p) <= Len(produced)
    BY <1>4, <1>5, Counts
  <2>3. QED BY <1>2, <1>5, <1>6, <2>1, <2>2, SinkGrows
<1>8. TypeOK'
  BY <1>2, <1>7 DEF TypeOK
<1>9. Framed'
  <2>1. Transit' = Transit /\ (Whole' => Whole)
    BY <1>2 DEF Transit, Whole
  <2>2. Taken' \in Nat /\ Taken <= Taken'
    BY <1>7, Counts
  <2>3. QED BY <1>2, <1>7, <2>1, <2>2, StillFramed
<1>10. Delivering' /\ Control'
  BY <1>2 DEF Delivering, Control
<1>11. QED BY <1>7, <1>8, <1>9, <1>10

\* The decoding task goes on reading or ends; no byte moves.
LEMMA DecOtherSteps ==
    ASSUME RelayInv, DecNeedsMore \/ DecShutdown \/ DecReadFails \/ DecDrops PROVE RelayInv'
<1> USE DEF RelayInv
<1>1. /\ UNCHANGED <<produced, closed, source, enc, out, wire, wireEnd, leftover, plain, sink, broken>>
      /\ dec' \in {"read", "done", "failed"}
  BY DEF DecNeedsMore, DecShutdown, DecReadFails, DecDrops, encVars
<1>2. TypeOK'
  <2>1. ended' \in BOOLEAN
    BY DEF DecNeedsMore, DecShutdown, DecReadFails, DecDrops, TypeOK
  <2>2. QED BY <1>1, <2>1 DEF TypeOK
<1>3. InOrder' /\ Taken' = Taken
  BY <1>1, StillInOrder
<1>4. Framed'
  <2>1. Transit' = Transit /\ (Whole' => Whole)
    BY <1>1 DEF Transit, Whole
  <2>2. dec' # "failed" => dec # "failed"
    BY DEF DecNeedsMore, DecShutdown, DecReadFails, DecDrops
  <2>3. Taken' \in Nat /\ Taken <= Taken'
    BY <1>3, Counts
  <2>4. QED BY <1>1, <1>3, <2>1, <2>2, <2>3, StillFramed
<1>5. Delivering'
  BY <1>1 DEF Delivering
<1>6. Control'
  <2>1. Incomplete' <=> Incomplete
    BY <1>1 DEF Incomplete, FrameEnd, CipherLen
  <2>2. CASE DecNeedsMore
    BY <1>1, <2>1, <2>2 DEF DecNeedsMore, Control
  <2>3. CASE DecShutdown
    BY <1>1, <2>3 DEF DecShutdown, Control
  <2>4. CASE DecReadFails
    BY <1>1, <2>4 DEF DecReadFails, Control
  <2>5. CASE DecDrops
    BY <1>1, <2>5 DEF DecDrops, Control
  <2>6. QED BY <2>2, <2>3, <2>4, <2>5
<1>7. QED BY <1>2, <1>3, <1>4, <1>5, <1>6

\* Every step keeps the invariant.
LEMMA NextRelay ==
    ASSUME RelayInv, [Next]_vars PROVE RelayInv'
<1>1. CASE SourceWrites \/ SourceCloses
  BY <1>1, SourceSteps
<1>2. CASE EncRead
  BY <1>2, EncReadStep
<1>3. CASE EncWrite
  BY <1>3, EncWriteStep
<1>4. CASE EncShutdown \/ EncReadFails \/ EncWriteFails
  BY <1>4, EncEndSteps
<1>5. CASE SenderDies \/ WireReset
  BY <1>5, LosingSteps
<1>6. CASE DecRead
  BY <1>6, DecReadStep
<1>7. CASE DecParse
  BY <1>7, DecParseStep
<1>8. CASE DecDeliver
  BY <1>8, DecDeliverStep
<1>9. CASE DecWriteFails
  BY <1>9, DecWriteFailsStep
<1>10. CASE DecNeedsMore \/ DecShutdown \/ DecReadFails \/ DecDrops
  BY <1>10, DecOtherSteps
<1>11. CASE UNCHANGED vars
  <2> USE <1>11 DEF vars, encVars, decVars, RelayInv
  <2>1. TypeOK'
    BY DEF TypeOK
  <2>2. InOrder' /\ Taken' = Taken
    BY StillInOrder
  <2>3. Framed'
    <3>1. Transit' = Transit /\ (Whole' => Whole)
      BY DEF Transit, Whole
    <3>2. Taken' \in Nat /\ Taken <= Taken'
      BY <2>2, Counts
    <3>3. QED BY <2>2, <3>1, <3>2, StillFramed
  <2>4. Incomplete' <=> Incomplete
    BY DEF Incomplete, FrameEnd, CipherLen
  <2>5. Delivering'
    BY <2>4 DEF Delivering, CipherLen
  <2>6. Control'
    BY <2>4 DEF Control
  <2>7. QED BY <2>1, <2>2, <2>3, <2>5, <2>6
<1>12. QED
  BY <1>1, <1>2, <1>3, <1>4, <1>5, <1>6, <1>7, <1>8, <1>9, <1>10, <1>11
  DEF Next, Encoder, Decoder, Fault

-----------------------------------------------------------------------------
(* The results.                                                            *)

\* Wherever reads, writes and segments cut the frames, the cells between the two tasks are
\* frames, the first of which continues what the sink has.
THEOREM RelayInvariant == Spec => []RelayInv
<1>1. Init => RelayInv
  BY InitRelay
<1>2. RelayInv /\ [Next]_vars => RelayInv'
  BY NextRelay
<1>3. QED BY <1>1, <1>2, PTL DEF Spec

\* Every variable keeps its type: no payload holds a byte that is none.
THEOREM RelayTypes == Spec => []TypeOK
<1>1. RelayInv => TypeOK
  BY DEF RelayInv
<1>2. QED BY <1>1, RelayInvariant, PTL

\* A read never gives more than encode accepts and the parser never looks inside a frame:
\* only a fault ends one of the loops of relay_upload and relay_download with an error.
THEOREM NoTaskFailsByItself == Spec => []NoSpuriousFailure
<1>1. RelayInv => NoSpuriousFailure
  BY DEF RelayInv, Control, NoSpuriousFailure
<1>2. QED BY <1>1, RelayInvariant, PTL

\* When every byte is the number of its place, the shorter sequence begins the longer one.
LEMMA Beginning ==
    ASSUME NEW s \in Seq(Byte), NEW p \in Seq(Byte), Len(s) <= Len(p),
           \A i \in DOMAIN s : s[i] = i, \A i \in DOMAIN p : p[i] = i
    PROVE  s = SubSeq(p, 1, Len(s)) /\ (Len(s) = Len(p) => s = p)
<1>1. Len(s) \in Nat /\ Len(p) \in Nat /\ Len(s) \in 0..Len(p)
  OBVIOUS
<1> DEFINE q == SubSeq(p, 1, Len(s))
<1>2. q \in Seq(Byte) /\ Len(q) = Len(s) /\ \A i \in 1..Len(s) : q[i] = p[i]
  BY <1>1, Divided
<1> HIDE DEF q
<1>3. \A i \in 1..Len(s) : s[i] = p[i]
  BY <1>1
<1>4. s = q
  BY <1>2, <1>3, SeqEqual
<1>5. Len(s) = Len(p) => s = p
  BY <1>3, SeqEqual
<1>6. QED BY <1>4, <1>5 DEF q

\* At the end of a connection that nothing broke no frame is left over.
LEMMA EndIsLast ==
    ASSUME RelayInv, DecShutdown, ~broken PROVE closed /\ sink = produced
<1> USE DEF RelayInv
<1>1. dec = "read" /\ wire = <<>> /\ wireEnd = "fin"
  BY DEF DecShutdown
<1>2. enc = "done" /\ closed /\ source = <<>> /\ out = <<>> /\ Incomplete
  BY <1>1 DEF Control, TypeOK
<1>3. Whole
  BY <1>1, <1>2 DEF Whole
<1>4. PICK k \in Nat, B \in SUBSET Nat, fr \in [Nat -> Frame] :
        /\ k = Len(sink)
        /\ Framing(Transit, k, Taken, B, fr)
        /\ Len(Transit) \in B /\ fr[Len(Transit)].from = Taken
  BY <1>1, <1>3 DEF Framed
<1>5. leftover \in Seq(Cell) /\ Len(leftover) \in Nat
  BY DEF TypeOK
<1>6. Transit = leftover
  <2>1. Transit = (leftover \o <<>>) \o <<>>
    BY <1>1, <1>2 DEF Transit
  <2>2. leftover \o <<>> = leftover
    BY <1>5, ConcatEmptySeq
  <2>3. QED BY <2>1, <2>2
<1>7. Len(leftover) = 0
  <2> SUFFICES ASSUME Len(leftover) > 0 PROVE FALSE
    BY <1>5
  <2>1. fr[0] \in Frame /\ FrameLen(fr[0]) \in Nat /\ FrameLen(fr[0]) >= HeaderLen
        /\ HeaderLen \in Nat
    BY Sizes
  <2>2. 0 \in B /\ 0 < Len(Transit) /\ Len(Transit) \in B
    BY <1>4, <1>6 DEF Framing
  <2>3. \A c \in B : 0 < c => 0 + FrameLen(fr[0]) <= c
    BY <1>4, <2>2 DEF Framing
  <2>4. FrameLen(fr[0]) <= Len(leftover)
    BY <1>6, <2>1, <2>2, <2>3
  <2>5. Len(leftover) >= HeaderLen
    BY <1>5, <2>1, <2>4
  <2>6. FrameEnd = FrameLen(fr[0])
    BY <1>4, <2>5, FirstFrame
  <2>7. QED BY <1>2, <1>5, <2>1, <2>4, <2>5, <2>6 DEF Incomplete
<1>8. Len(sink) = Len(produced)
  <2>1. fr[0].from = k /\ fr[0].from = Taken
    BY <1>4, <1>6, <1>7 DEF Framing
  <2>2. Taken = Len(produced)
    BY <1>2, Counts DEF Taken
  <2>3. QED BY <1>4, <2>1, <2>2
<1>9. sink = produced
  BY <1>8, Beginning DEF TypeOK, InOrder
<1>10. QED BY <1>2, <1>9

\* A step of the relay is one of the byte stream, or none.
LEMMA RelayStep ==
    ASSUME RelayInv, RelayInv', [Next]_vars
    PROVE  [Stream!Next]_(Stream!vars)
<1> USE DEF Stream!vars
<1>1. sink' = SubSeq(produced', 1, Len(sink'))
  BY Beginning DEF RelayInv, TypeOK, InOrder
<1>2. CASE SourceWrites
  <2>1. /\ produced' = Append(produced, Len(produced) + 1) /\ ~closed /\ Len(produced) < MaxBytes
        /\ UNCHANGED <<closed, sink, ended, broken>>
    BY <1>2 DEF SourceWrites, decVars
  <2>2. Len(produced) + 1 \in Byte
    BY <2>1, Counts, Sizes DEF Byte, RelayInv
  <2>3. Stream!Produce
    BY <2>1, <2>2 DEF Stream!Produce
  <2>4. QED BY <2>3 DEF Stream!Next
<1>3. CASE SourceCloses
  BY <1>3 DEF SourceCloses, decVars, Stream!Next, Stream!Close
<1>4. CASE DecDeliver \/ DecWriteFails
  <2>1. UNCHANGED <<produced, closed, ended>> /\ broken' \in {broken, TRUE} /\ ~ended
    BY <1>4 DEF DecDeliver, DecWriteFails, encVars, RelayInv, Control
  <2>2. Len(sink) \in Nat /\ Len(sink') \in Nat /\ Len(produced) \in Nat
        /\ Len(sink') <= Len(produced)
    BY <2>1 DEF RelayInv, TypeOK, InOrder
  <2>3. Len(sink') >= Len(sink)
    <3>1. PICK p \in Seq(Byte) : sink' = sink \o p
      <4>1. CASE DecDeliver
        BY <4>1 DEF DecDeliver, RelayInv, TypeOK
      <4>2. CASE DecWriteFails
        <5>1. PICK n \in 0..Len(plain) : sink' = sink \o SubSeq(plain, 1, n)
          BY <4>2 DEF DecWriteFails
        <5>2. SubSeq(plain, 1, n) \in Seq(Byte)
          BY Divided DEF RelayInv, TypeOK
        <5>3. QED BY <5>1, <5>2
      <4>3. QED BY <1>4, <4>1, <4>2
    <3>2. sink \in Seq(Byte) /\ p \in Seq(Byte)
      BY DEF RelayInv, TypeOK
    <3>3. Len(sink \o p) = Len(sink) + Len(p) /\ Len(p) \in Nat
      BY ONLY <3>2, Joined
    <3>4. QED BY <2>2, <3>1, <3>3
  <2>4. CASE Len(sink') > Len(sink)
    <3>1. Len(sink') \in Len(sink) + 1 .. Len(produced)
      BY <2>2, <2>4
    <3>2. Stream!Consume
      BY <1>1, <2>1, <3>1 DEF Stream!Consume
    <3>3. QED BY <3>2 DEF Stream!Next
  <2>5. CASE Len(sink') = Len(sink)
    <3>1. sink' = sink
      <4>1. sink = SubSeq(produced, 1, Len(sink))
        BY Beginning DEF RelayInv, TypeOK, InOrder
      <4>2. QED BY <1>1, <2>1, <2>5, <4>1
    <3>2. CASE broken' = broken
      BY <2>1, <3>1, <3>2
    <3>3. CASE broken' = TRUE
      BY <2>1, <3>1, <3>3 DEF Stream!Next, Stream!Break
    <3>4. QED BY <2>1, <3>2, <3>3
  <2>6. QED BY <2>2, <2>3, <2>4, <2>5
<1>5. CASE EncReadFails \/ SenderDies \/ WireReset
  <2>1. Stream!Break
    BY <1>5 DEF EncReadFails, SenderDies, WireReset, encVars, decVars, Stream!Break
  <2>2. QED BY <2>1 DEF Stream!Next
<1>6. CASE DecShutdown
  <2>1. ~ended /\ ended' = TRUE /\ UNCHANGED <<produced, closed, sink, broken>>
    BY <1>6 DEF DecShutdown, encVars, RelayInv, Control
  <2>2. broken \/ (closed /\ sink = produced)
    BY <1>6, EndIsLast
  <2>3. QED BY <2>1, <2>2 DEF Stream!Next, Stream!End
<1>7. CASE DecDrops
  <2>1. ~ended /\ ended' = TRUE /\ broken /\ UNCHANGED <<produced, closed, sink, broken>>
    BY <1>7 DEF DecDrops, encVars, RelayInv, Control
  <2>2. QED BY <2>1 DEF Stream!Next, Stream!End
<1>8. CASE \/ EncRead \/ EncWrite \/ EncShutdown \/ EncWriteFails
           \/ DecRead \/ DecParse \/ DecNeedsMore \/ DecReadFails
  BY <1>8 DEF EncRead, EncWrite, EncShutdown, EncWriteFails, DecRead, DecParse, DecNeedsMore,
              DecReadFails, encVars, decVars
<1>9. CASE UNCHANGED vars
  BY <1>9 DEF vars, encVars, decVars
<1>10. QED
  BY <1>2, <1>3, <1>4, <1>5, <1>6, <1>7, <1>8, <1>9 DEF Next, Encoder, Decoder, Fault

\* No cutting of reads, frames or segments loses, repeats or reorders a byte, and the end
\* of the stream comes last unless a fault came before it: the relay implements the stream.
THEOREM RelayImplementsStream == Spec => ImplementsByteStream
<1>1. Init => Stream!Init
  BY DEF Init, Stream!Init
<1>2. RelayInv /\ RelayInv' /\ [Next]_vars => [Stream!Next]_(Stream!vars)
  BY RelayStep
<1>3. QED
  BY <1>1, <1>2, RelayInvariant, PTL DEF Spec, Stream!Spec, ImplementsByteStream

=============================================================================

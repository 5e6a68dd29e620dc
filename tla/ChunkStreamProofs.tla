--------------------------- MODULE ChunkStreamProofs ---------------------------
(***************************************************************************)
(* Proofs about the re-signing of uploads, for frames of any number and    *)
(* size, cut into any pieces, broken off anywhere and sent again any       *)
(* number of times.                                                        *)
(***************************************************************************)
EXTENDS ChunkStream, SequenceTheorems, FiniteSetTheorems, WellFoundedInduction, TLAPS

(* Counting up, and down                                                   *)

LEMMA LeastOf ==
  ASSUME NEW n \in Nat, NEW S \in SUBSET (0..n), S # {}
  PROVE  \E m \in S : \A i \in S : m <= i
  <1> DEFINE T == {0..i : i \in S}
  <1>1. IsWellFoundedOn(StrictSubsetOrdering(0..n), SUBSET (0..n))
    <2>1. IsFiniteSet(0..n)
      BY FS_Interval
    <2>2. IsWellFoundedOn(StrictSubsetOrdering(0..n), FiniteSubsetsOf(0..n))
      BY FS_StrictSubsetOrderingWellFounded
    <2>3. FiniteSubsetsOf(0..n) = SUBSET (0..n)
      BY <2>1, FS_FiniteSubsetsOfFinite
    <2> QED BY <2>2, <2>3
  <1>2. T \subseteq SUBSET (0..n) /\ T # {}
    <2>1. ASSUME NEW i \in S PROVE 0..i \subseteq 0..n
      OBVIOUS
    <2>2. PICK s \in S : TRUE
      OBVIOUS
    <2>3. 0..s \in T
      OBVIOUS
    <2> QED BY <2>1, <2>3
  <1>3. PICK top \in T : \A X \in T : <<X, top>> \notin StrictSubsetOrdering(0..n)
    BY <1>1, <1>2, WFMin
  <1>4. PICK m \in S : top = 0..m
    OBVIOUS
  <1>5. ASSUME NEW i \in S, i < m PROVE FALSE
    <2>1. 0..i \in T /\ 0..i \subseteq 0..m /\ m \notin 0..i /\ m \in 0..m
      BY <1>5
    <2> QED BY <1>2, <1>3, <1>4, <2>1 DEF StrictSubsetOrdering
  <1> QED BY <1>5

LEMMA MinIsLeast ==
  ASSUME NEW n \in Nat, NEW S \in SUBSET (0..n), S # {}
  PROVE  Min(S) \in S /\ \A i \in S : Min(S) <= i
  BY LeastOf DEF Min

\* Induction, for the members of a set.
LEMMA Climb ==
  ASSUME NEW n \in Nat, NEW S, 0 \in S,
         \A k \in 0..n : k \in S /\ k < n => k + 1 \in S
  PROVE  0..n \subseteq S
  <1> SUFFICES ASSUME (0..n) \ S # {} PROVE FALSE
    OBVIOUS
  <1>1. PICK k \in (0..n) \ S : \A j \in (0..n) \ S : k <= j
    BY LeastOf
  <1>2. k # 0 /\ k - 1 \in 0..n /\ k - 1 < n /\ (k - 1) + 1 = k /\ ~(k <= k - 1)
    BY <1>1
  <1>3. k - 1 \in S
    BY <1>1, <1>2
  <1> QED BY <1>1, <1>2, <1>3

--------------------------------------------------------------------------------
(* The two recursive functions have the values their definitions give      *)

\* Up to m frames.
AreBytes(frames, b, m) ==
    /\ DOMAIN b = 0..m /\ b[0] = <<>>
    /\ \A k \in 1..m : b[k] = b[k - 1] \o Encode(frames[k])

LEMMA BytesExist ==
  ASSUME NEW frames, NEW n \in Nat
  PROVE  \E b : b = [k \in 0..n |-> IF k = 0 THEN <<>> ELSE b[k - 1] \o Encode(frames[k])]
  <1> DEFINE S == {m \in 0..n : \E b : AreBytes(frames, b, m)}
  <1>1. 0 \in S
    <2> DEFINE b == [k \in 0..0 |-> <<>>]
    <2>1. AreBytes(frames, b, 0)
      BY DEF AreBytes
    <2> HIDE DEF b
    <2> QED BY <2>1
  <1>2. ASSUME NEW m \in 0..n, m \in S, m < n PROVE m + 1 \in S
    <2>1. PICK b : AreBytes(frames, b, m)
      BY <1>2
    <2> DEFINE next == b[m] \o Encode(frames[m + 1])
               c == [k \in 0..(m + 1) |-> IF k = m + 1 THEN next ELSE b[k]]
    <2> HIDE DEF next
    <2>2. /\ c[0] = b[0] /\ c[m + 1] = next /\ c[m] = b[m]
          /\ \A k \in 1..m : c[k] = b[k] /\ c[k - 1] = b[k - 1]
          /\ DOMAIN c = 0..(m + 1) /\ (m + 1) - 1 = m
      OBVIOUS
    <2>3. \A k \in 1..(m + 1) : k \in 1..m \/ k = m + 1
      OBVIOUS
    <2> HIDE DEF c
    <2>4. AreBytes(frames, c, m + 1)
      BY <2>1, <2>2, <2>3 DEF AreBytes, next
    <2>5. m + 1 \in 0..n
      BY <1>2
    <2> QED BY <2>4, <2>5
  <1>3. n \in S
    <2> HIDE DEF S
    <2>1. 0..n \subseteq S
      BY <1>1, <1>2, Climb
    <2> QED BY <2>1
  <1>4. PICK b : AreBytes(frames, b, n)
    BY <1>3
  <1> QED BY <1>4 DEF AreBytes

LEMMA BytesValues ==
  ASSUME NEW frames, Len(frames) \in Nat
  PROVE  AreBytes(frames, BytesOf(frames), Len(frames))
  <1> DEFINE n == Len(frames)
             IsFn(b) == b = [k \in 0..n |-> IF k = 0 THEN <<>> ELSE b[k - 1] \o Encode(frames[k])]
  <1>1. \E b : IsFn(b)
    BY BytesExist
  <1>2. BytesOf(frames) = CHOOSE b : IsFn(b)
    BY DEF BytesOf
  <1>3. IsFn(BytesOf(frames))
    <2> HIDE DEF IsFn
    <2> QED BY <1>1, <1>2
  <1> QED BY <1>3 DEF AreBytes

\* The turns of the loop, up to the m-th.
AreTurns(buf, t, m) ==
    /\ DOMAIN t = 0..m
    /\ t[0] = NoTurn(buf)
    /\ \A k \in 1..m : t[k] = Turn(t[k - 1])

LEMMA TurnsExist ==
  ASSUME NEW buf, NEW n \in Nat
  PROVE  \E t : t = [k \in 0..n |-> IF k = 0 THEN NoTurn(buf) ELSE Turn(t[k - 1])]
  <1> DEFINE S == {m \in 0..n : \E t : AreTurns(buf, t, m)}
  <1>1. 0 \in S
    <2> DEFINE t == [k \in 0..0 |-> NoTurn(buf)]
    <2>1. AreTurns(buf, t, 0)
      BY DEF AreTurns
    <2> HIDE DEF t
    <2> QED BY <2>1
  <1>2. ASSUME NEW m \in 0..n, m \in S, m < n PROVE m + 1 \in S
    <2>1. PICK t : AreTurns(buf, t, m)
      BY <1>2
    <2> DEFINE next == Turn(t[m])
               c == [k \in 0..(m + 1) |-> IF k = m + 1 THEN next ELSE t[k]]
    <2> HIDE DEF next
    <2>2. /\ c[0] = t[0] /\ c[m + 1] = next /\ c[m] = t[m]
          /\ \A k \in 1..m : c[k] = t[k] /\ c[k - 1] = t[k - 1]
          /\ DOMAIN c = 0..(m + 1) /\ (m + 1) - 1 = m
      OBVIOUS
    <2>3. \A k \in 1..(m + 1) : k \in 1..m \/ k = m + 1
      OBVIOUS
    <2> HIDE DEF c
    <2>4. AreTurns(buf, c, m + 1)
      BY <2>1, <2>2, <2>3 DEF AreTurns, next
    <2>5. m + 1 \in 0..n
      BY <1>2
    <2> QED BY <2>4, <2>5
  <1>3. n \in S
    <2> HIDE DEF S
    <2>1. 0..n \subseteq S
      BY <1>1, <1>2, Climb
    <2> QED BY <2>1
  <1>4. PICK t : AreTurns(buf, t, n)
    BY <1>3
  <1> DEFINE f == [k \in 0..n |-> t[k]]
  <1>5. f[0] = NoTurn(buf) /\ \A k \in 1..n : f[k] = Turn(f[k - 1])
    <2>1. \A k \in 1..n : f[k] = t[k] /\ f[k - 1] = t[k - 1]
      OBVIOUS
    <2> QED BY <1>4, <2>1 DEF AreTurns
  <1>6. f = [k \in 0..n |-> f[k]]
    OBVIOUS
  <1> HIDE DEF f
  <1>7. f = [k \in 0..n |-> IF k = 0 THEN NoTurn(buf) ELSE Turn(f[k - 1])]
    <2>1. \A k \in 0..n : f[k] = IF k = 0 THEN NoTurn(buf) ELSE Turn(f[k - 1])
      BY <1>5
    <2> QED BY <1>6, <2>1
  <1> QED BY <1>7

LEMMA TurnsValues ==
  ASSUME NEW buf, Len(buf) \in Nat
  PROVE  AreTurns(buf, Turns(buf), Len(buf))
  <1> DEFINE n == Len(buf)
             IsFn(t) == t = [k \in 0..n |-> IF k = 0 THEN NoTurn(buf) ELSE Turn(t[k - 1])]
  <1>1. \E t : IsFn(t)
    BY TurnsExist
  <1>2. Turns(buf) = CHOOSE t : IsFn(t)
    BY DEF Turns
  <1>3. IsFn(Turns(buf))
    <2> HIDE DEF IsFn
    <2> QED BY <1>1, <1>2
  <1> QED BY <1>3 DEF AreTurns

--------------------------------------------------------------------------------
(* Where the frames are in the bytes of an upload                          *)

\* c is a and b behind it.
AreJoined(S, a, b, c) ==
    /\ c \in Seq(S) /\ Len(c) = Len(a) + Len(b)
    /\ \A i \in 1..Len(a) : c[i] = a[i]
    /\ \A i \in 1..Len(b) : c[Len(a) + i] = b[i]

LEMMA Joined ==
  ASSUME NEW S, NEW a, a \in Seq(S), NEW b, b \in Seq(S)
  PROVE  AreJoined(S, a, b, a \o b)
  <1> DEFINE m == Len(a)
             n == Len(b)
  <1>1. m \in Nat /\ n \in Nat
    BY LenProperties
  <1>2. /\ a \o b \in Seq(S) /\ Len(a \o b) = m + n
        /\ \A i \in 1..(m + n) : (a \o b)[i] = IF i <= m THEN a[i] ELSE b[i - m]
    BY ConcatProperties
  <1>3. \A i \in 1..m : i \in 1..(m + n) /\ i <= m
    BY <1>1
  <1>4. \A i \in 1..n : m + i \in 1..(m + n) /\ ~(m + i <= m) /\ (m + i) - m = i
    BY <1>1
  <1> QED BY <1>2, <1>3, <1>4 DEF AreJoined

LEMMA PairProperties ==
  ASSUME NEW S, NEW a \in S, NEW b \in S
  PROVE  <<a, b>> \in Seq(S) /\ Len(<<a, b>>) = 2 /\ <<a, b>>[1] = a /\ <<a, b>>[2] = b
  OBVIOUS

\* The bytes of frame f are in s behind the p-th.
HasFrame(s, p, f) ==
    /\ p + (Len(f.payload) + 6) <= Len(s)
    /\ s[p + 1] = f.size /\ s[p + 2] = ";" /\ s[p + 3] = "cr" /\ s[p + 4] = "lf"
    /\ \A j \in 1..Len(f.payload) : s[(p + 4) + j] = f.payload[j]

IsEncoded(e, f) ==
    /\ e \in Seq(Symbols) /\ Len(e) = Len(f.payload) + 6
    /\ e[1] = f.size /\ e[2] = ";" /\ e[3] = "cr" /\ e[4] = "lf"
    /\ \A j \in 1..Len(f.payload) : e[4 + j] = f.payload[j]

LEMMA EncodedFrame ==
  ASSUME NEW f, f \in Frame
  PROVE  Len(f.payload) \in Nat /\ IsEncoded(Encode(f), f)
  <1> DEFINE head == <<f.size, ";">>
             line == head \o CRLF
             body == line \o f.payload
             e == body \o CRLF
             n == Len(f.payload)
  <1>1. f.payload \in Seq(Symbols) /\ n \in Nat /\ f.size \in Symbols
    BY LenProperties DEF Frame
  <1>2. head \in Seq(Symbols) /\ Len(head) = 2 /\ head[1] = f.size /\ head[2] = ";"
    <2>1. ";" \in Symbols
      BY ChunkAssumption
    <2> QED BY <1>1, <2>1, PairProperties
  <1>3. CRLF \in Seq(Symbols) /\ Len(CRLF) = 2 /\ CRLF[1] = "cr" /\ CRLF[2] = "lf"
    <2>1. "cr" \in Symbols /\ "lf" \in Symbols
      BY ChunkAssumption
    <2> QED BY <2>1, PairProperties DEF CRLF
  <1> HIDE DEF head
  <1>4. AreJoined(Symbols, head, CRLF, line)
    BY <1>2, <1>3, Joined
  <1> HIDE DEF line
  <1>5. line \in Seq(Symbols)
    BY <1>4 DEF AreJoined
  <1>6. AreJoined(Symbols, line, f.payload, body)
    BY <1>1, <1>5, Joined
  <1> HIDE DEF body
  <1>7. body \in Seq(Symbols)
    BY <1>6 DEF AreJoined
  <1>8. AreJoined(Symbols, body, CRLF, e)
    BY <1>3, <1>7, Joined
  <1>9. Encode(f) = e
    BY DEF Encode, e, body, line, head
  <1> HIDE DEF e, n
  <1>10. /\ Len(line) = 4
         /\ line[1] = f.size /\ line[2] = ";" /\ line[3] = "cr" /\ line[4] = "lf"
    <2>1. Len(line) = Len(head) + Len(CRLF)
      BY <1>4 DEF AreJoined
    <2>2. \A i \in 1..2 : line[i] = head[i]
      BY <1>2, <1>4 DEF AreJoined
    <2>3. \A i \in 1..2 : line[2 + i] = CRLF[i]
      BY <1>2, <1>3, <1>4 DEF AreJoined
    <2>4. Len(line) = 4
      <3>1. Len(line) = 2 + 2
        BY <1>2, <1>3, <2>1, Zenon
      <3> QED BY <3>1
    <2>5. line[1] = head[1] /\ line[2] = head[2]
      BY <2>2
    <2>6. line[3] = CRLF[1] /\ line[4] = CRLF[2]
      <3>1. 1 \in 1..2 /\ 2 \in 1..2 /\ 2 + 1 = 3 /\ 2 + 2 = 4
        OBVIOUS
      <3>2. line[2 + 1] = CRLF[1] /\ line[2 + 2] = CRLF[2]
        BY <2>3, <3>1
      <3> QED BY <3>1, <3>2
    <2> QED BY <1>2, <1>3, <2>4, <2>5, <2>6
  <1>11. /\ Len(body) = 4 + n
         /\ \A i \in 1..4 : body[i] = line[i]
         /\ \A i \in 1..n : body[4 + i] = f.payload[i]
    BY <1>1, <1>6, <1>10 DEF AreJoined, n
  <1>12. e \in Seq(Symbols) /\ Len(e) = n + 6 /\ \A i \in 1..(4 + n) : e[i] = body[i]
    BY <1>1, <1>3, <1>8, <1>11 DEF AreJoined
  <1>13. /\ e[1] = f.size /\ e[2] = ";" /\ e[3] = "cr" /\ e[4] = "lf"
         /\ \A i \in 1..n : e[4 + i] = f.payload[i]
    <2>1. \A i \in 1..4 : i \in 1..(4 + n)
      BY <1>1
    <2>2. \A i \in 1..n : 4 + i \in 1..(4 + n)
      BY <1>1 DEF n
    <2>3. \A i \in 1..4 : e[i] = line[i]
      BY <1>11, <1>12, <2>1
    <2>4. \A i \in 1..n : e[4 + i] = f.payload[i]
      BY <1>11, <1>12, <2>2
    <2>5. e[1] = line[1] /\ e[2] = line[2] /\ e[3] = line[3] /\ e[4] = line[4]
      BY <2>3
    <2> QED BY <1>10, <2>4, <2>5
  <1>14. IsEncoded(e, f)
    BY <1>12, <1>13 DEF IsEncoded, n
  <1> QED BY <1>1, <1>9, <1>14 DEF n

\* A frame stays where it is when others are written behind it.
LEMMA FrameStays ==
  ASSUME NEW S, NEW a, a \in Seq(S), NEW b, b \in Seq(S), NEW c, AreJoined(S, a, b, c),
         NEW f, f \in Frame, NEW p \in Nat, HasFrame(a, p, f)
  PROVE  HasFrame(c, p, f)
  <1> DEFINE n == Len(f.payload)
             m == Len(a)
  <1>1. n \in Nat /\ m \in Nat /\ Len(b) \in Nat
    BY LenProperties DEF Frame
  <1>2. Len(c) = m + Len(b) /\ \A i \in 1..m : c[i] = a[i]
    BY DEF AreJoined
  <1>3. p + (n + 6) <= m
    BY DEF HasFrame
  <1> HIDE DEF n, m
  <1>4. p + 1 \in 1..m /\ p + 2 \in 1..m /\ p + 3 \in 1..m /\ p + 4 \in 1..m
    BY <1>1, <1>3
  <1>5. \A j \in 1..n : (p + 4) + j \in 1..m
    BY <1>1, <1>3
  <1>6. p + (n + 6) <= Len(c)
    BY <1>1, <1>2, <1>3
  <1>7. /\ c[p + 1] = f.size /\ c[p + 2] = ";" /\ c[p + 3] = "cr" /\ c[p + 4] = "lf"
    BY <1>2, <1>4 DEF HasFrame
  <1>8. \A j \in 1..n : c[(p + 4) + j] = f.payload[j]
    BY <1>2, <1>5 DEF HasFrame, n
  <1> QED BY <1>6, <1>7, <1>8 DEF HasFrame, n

\* A frame that is written behind others.
LEMMA FrameBehind ==
  ASSUME NEW a, a \in Seq(Symbols), NEW f, f \in Frame,
         NEW c, AreJoined(Symbols, a, Encode(f), c)
  PROVE  /\ Len(c) = Len(a) + (Len(f.payload) + 6)
         /\ HasFrame(c, Len(a), f)
  <1> DEFINE e == Encode(f)
             n == Len(f.payload)
             m == Len(a)
  <1>1. n \in Nat /\ IsEncoded(e, f)
    BY EncodedFrame
  <1>2. m \in Nat
    BY LenProperties
  <1>3. Len(c) = m + Len(e) /\ \A i \in 1..Len(e) : c[m + i] = e[i]
    BY DEF AreJoined
  <1> HIDE DEF e, n, m
  <1>4. Len(e) = n + 6
    BY <1>1 DEF IsEncoded, n
  <1> DEFINE l == Len(e)
  <1> HIDE DEF l
  <1>5. (\A i \in 1..4 : i \in 1..l) /\ \A j \in 1..n : 4 + j \in 1..l
    <2>1. n \in Nat /\ l = n + 6
      BY <1>1, <1>4 DEF l
    <2> QED BY <2>1
  <1>6. /\ c[m + 1] = f.size /\ c[m + 2] = ";" /\ c[m + 3] = "cr" /\ c[m + 4] = "lf"
    <2>1. c[m + 1] = e[1] /\ c[m + 2] = e[2] /\ c[m + 3] = e[3] /\ c[m + 4] = e[4]
      BY <1>3, <1>5 DEF l
    <2> QED BY <1>1, <2>1 DEF IsEncoded
  <1>7. \A j \in 1..n : c[(m + 4) + j] = f.payload[j]
    <2>1. \A j \in 1..n : m + (4 + j) = (m + 4) + j
      BY <1>1, <1>2
    <2>2. \A j \in 1..n : c[m + (4 + j)] = e[4 + j]
      BY <1>3, <1>5 DEF l
    <2>3. \A j \in 1..n : e[4 + j] = f.payload[j]
      BY <1>1 DEF IsEncoded, n
    <2> QED BY <2>1, <2>2, <2>3
  <1>8. Len(c) = m + (n + 6)
    BY <1>3, <1>4
  <1>9. HasFrame(c, m, f)
    <2>1. m + (n + 6) <= Len(c)
      BY <1>1, <1>2, <1>8
    <2> QED BY <1>6, <1>7, <2>1 DEF HasFrame, n
  <1> QED BY <1>8, <1>9 DEF m, n

\* Where the k-th frame of an upload ends.
End(u, k) == Len(BytesOf(u)[k])

LEMMA BytesTyped ==
  ASSUME NEW u, u \in Seq(Frame)
  PROVE  \A k \in 0..Len(u) : BytesOf(u)[k] \in Seq(Symbols)
  <1> DEFINE n == Len(u)
             b == BytesOf(u)
             S == {k \in 0..n : b[k] \in Seq(Symbols)}
  <1>1. n \in Nat
    BY LenProperties
  <1>2. AreBytes(u, b, n)
    BY <1>1, BytesValues
  <1> HIDE DEF b, n
  <1>3. 0 \in S
    BY <1>1, <1>2, EmptySeq DEF AreBytes
  <1>4. ASSUME NEW k \in 0..n, k \in S, k < n PROVE k + 1 \in S
    <2>1. k + 1 \in 1..n /\ k + 1 \in 0..n /\ (k + 1) - 1 = k
      BY <1>1, <1>4
    <2>2. b[k + 1] = b[k] \o Encode(u[k + 1])
      BY <1>2, <2>1 DEF AreBytes
    <2>3. Encode(u[k + 1]) \in Seq(Symbols)
      <3>1. u[k + 1] \in Frame
        BY <2>1, ElementOfSeq DEF n
      <3> QED BY <3>1, EncodedFrame DEF IsEncoded
    <2>4. AreJoined(Symbols, b[k], Encode(u[k + 1]), b[k + 1])
      BY <1>4, <2>2, <2>3, Joined
    <2> QED BY <2>1, <2>4 DEF AreJoined
  <1>5. 0..n \subseteq S
    <2> HIDE DEF S
    <2> QED BY <1>1, <1>3, <1>4, Climb
  <1> QED BY <1>5 DEF b, n

LEMMA BytesGrow ==
  ASSUME NEW u, u \in Seq(Frame), NEW k \in 1..Len(u)
  PROVE  AreJoined(Symbols, BytesOf(u)[k - 1], Encode(u[k]), BytesOf(u)[k])
  <1> DEFINE n == Len(u)
             b == BytesOf(u)
  <1>1. n \in Nat
    BY LenProperties
  <1>2. b[k] = b[k - 1] \o Encode(u[k])
    <2>1. AreBytes(u, b, n)
      BY <1>1, BytesValues
    <2> HIDE DEF b
    <2> QED BY <2>1 DEF AreBytes
  <1>3. Encode(u[k]) \in Seq(Symbols)
    BY ElementOfSeq, EncodedFrame DEF IsEncoded
  <1>4. b[k - 1] \in Seq(Symbols)
    <2>1. k - 1 \in 0..n
      BY <1>1
    <2> QED BY <2>1, BytesTyped
  <1> HIDE DEF b
  <1>5. AreJoined(Symbols, b[k - 1], Encode(u[k]), b[k])
    BY <1>2, <1>3, <1>4, Joined
  <1> QED BY <1>5 DEF b

LEMMA FramePlace ==
  ASSUME NEW u, u \in Seq(Frame), NEW k \in 1..Len(u)
  PROVE  /\ End(u, k - 1) \in Nat /\ Len(u[k].payload) \in Nat
         /\ End(u, k) = End(u, k - 1) + (Len(u[k].payload) + 6)
         /\ HasFrame(EncodeAll(u), End(u, k - 1), u[k])
  <1> DEFINE n == Len(u)
             b == BytesOf(u)
             p == Len(b[k - 1])
             S == {m \in 0..n : m >= k => HasFrame(b[m], p, u[k])}
  <1>1. n \in Nat /\ k \in 1..n
    BY LenProperties
  <1>2. \A m \in 0..n : b[m] \in Seq(Symbols)
    BY BytesTyped
  <1>3. \A m \in 1..n : AreJoined(Symbols, b[m - 1], Encode(u[m]), b[m])
    BY BytesGrow
  <1>4. \A m \in 1..n : u[m] \in Frame
    BY ElementOfSeq
  <1>5. \A m \in 1..n : Encode(u[m]) \in Seq(Symbols) /\ Len(u[m].payload) \in Nat
    BY <1>4, EncodedFrame DEF IsEncoded
  <1> HIDE DEF b, n
  <1>6. k - 1 \in 0..n
    BY <1>1
  <1>7. p \in Nat
    BY <1>2, <1>6, LenProperties
  <1>8. Len(b[k]) = p + (Len(u[k].payload) + 6) /\ HasFrame(b[k], p, u[k])
    BY <1>1, <1>2, <1>3, <1>4, <1>6, FrameBehind
  <1> HIDE DEF p
  <1>9. 0 \in S
    BY <1>1
  <1>10. ASSUME NEW m \in 0..n, m \in S, m < n PROVE m + 1 \in S
    <2>1. m + 1 \in 1..n /\ m + 1 \in 0..n /\ (m + 1) - 1 = m
      BY <1>1, <1>10
    <2>2. CASE m + 1 < k
      BY <2>1, <2>2
    <2>3. CASE m + 1 = k
      BY <1>8, <2>1, <2>3
    <2>4. CASE m + 1 > k
      <3>1. m >= k
        BY <1>1, <2>1, <2>4
      <3>2. HasFrame(b[m], p, u[k])
        BY <1>10, <3>1
      <3>3. AreJoined(Symbols, b[m], Encode(u[m + 1]), b[m + 1])
        BY <1>3, <2>1
      <3>4. HasFrame(b[m + 1], p, u[k])
        BY <1>1, <1>2, <1>4, <1>5, <1>7, <2>1, <3>2, <3>3, FrameStays
      <3> QED BY <2>1, <3>4
    <2> QED BY <1>1, <2>1, <2>2, <2>3, <2>4
  <1>11. n \in S
    <2> HIDE DEF S
    <2>1. 0..n \subseteq S
      BY <1>1, <1>9, <1>10, Climb
    <2> QED BY <1>1, <2>1
  <1>12. HasFrame(b[n], p, u[k])
    BY <1>1, <1>11
  <1> QED BY <1>1, <1>5, <1>7, <1>8, <1>12 DEF End, EncodeAll, b, n, p

--------------------------------------------------------------------------------
(* A frame in the buffer                                                   *)

\* buf is what s has behind its c-th byte, as far as it goes.
IsPart(buf, s, c) ==
    /\ buf \in Seq(Symbols) /\ Len(buf) \in Nat /\ c + Len(buf) <= Len(s)
    /\ \A i \in 1..Len(buf) : buf[i] = s[c + i]

LEMMA CutOut ==
  ASSUME NEW buf, buf \in Seq(Symbols), NEW a \in Nat, NEW b \in Nat, a <= b, b <= Len(buf)
  PROVE  /\ SubSeq(buf, a + 1, b) \in Seq(Symbols)
         /\ Len(SubSeq(buf, a + 1, b)) = b - a
         /\ \A i \in 1..(b - a) : SubSeq(buf, a + 1, b)[i] = buf[a + i]
  <1> DEFINE t == SubSeq(buf, a + 1, b)
  <1>1. \A i \in (a + 1)..b : buf[i] \in Symbols
    <2>1. Len(buf) \in Nat
      BY LenProperties
    <2>2. \A i \in (a + 1)..b : i \in 1..Len(buf)
      BY <2>1
    <2> QED BY <2>2, ElementOfSeq
  <1>2. /\ t \in Seq(Symbols)
        /\ Len(t) = IF a + 1 <= b THEN (b - (a + 1)) + 1 ELSE 0
        /\ \A i \in 1..((b - (a + 1)) + 1) : t[i] = buf[(a + 1) + (i - 1)]
    BY <1>1, SubSeqProperties
  <1> HIDE DEF t
  <1>3. Len(t) = b - a
    BY <1>2
  <1>4. \A i \in 1..(b - a) : i \in 1..((b - (a + 1)) + 1) /\ (a + 1) + (i - 1) = a + i
    OBVIOUS
  <1>5. \A i \in 1..(b - a) : t[i] = buf[a + i]
    BY <1>2, <1>4
  <1> QED BY <1>2, <1>3, <1>5 DEF t

LEMMA LineEnds ==
  ASSUME NEW buf, buf \in Seq(Symbols)
  PROVE  CrlfAt(buf) = {i \in 1..(Len(buf) - 1) : buf[i] = "cr" /\ buf[i + 1] = "lf"}
  <1> DEFINE n == Len(buf)
  <1>1. n \in Nat
    BY LenProperties
  <1>2. ASSUME NEW i \in 1..(n - 1)
        PROVE  SubSeq(buf, i, i + 1) = CRLF <=> buf[i] = "cr" /\ buf[i + 1] = "lf"
    <2> DEFINE t == SubSeq(buf, i, i + 1)
    <2>1. /\ t \in Seq(Symbols) /\ Len(t) = 2 /\ t[1] = buf[i] /\ t[2] = buf[i + 1]
      <3>1. i - 1 \in Nat /\ i + 1 \in Nat /\ i - 1 <= i + 1 /\ i + 1 <= n
        BY <1>1
      <3>2. (i - 1) + 1 = i /\ (i + 1) - (i - 1) = 2 /\ (i - 1) + 2 = i + 1
        BY <1>1
      <3>3. /\ SubSeq(buf, (i - 1) + 1, i + 1) \in Seq(Symbols)
            /\ Len(SubSeq(buf, (i - 1) + 1, i + 1)) = (i + 1) - (i - 1)
            /\ \A j \in 1..((i + 1) - (i - 1)) :
                 SubSeq(buf, (i - 1) + 1, i + 1)[j] = buf[(i - 1) + j]
        BY <3>1, CutOut
      <3>4. /\ t \in Seq(Symbols) /\ Len(t) = 2 /\ \A j \in 1..2 : t[j] = buf[(i - 1) + j]
        BY <3>2, <3>3
      <3> HIDE DEF t
      <3>5. t[1] = buf[(i - 1) + 1] /\ t[2] = buf[(i - 1) + 2]
        BY <3>4
      <3> QED BY <3>2, <3>4, <3>5
    <2>2. CRLF \in Seq(Symbols) /\ Len(CRLF) = 2 /\ CRLF[1] = "cr" /\ CRLF[2] = "lf"
      <3>1. "cr" \in Symbols /\ "lf" \in Symbols
        BY ChunkAssumption
      <3> QED BY <3>1, PairProperties DEF CRLF
    <2> HIDE DEF t
    <2>3. ASSUME t[1] = "cr", t[2] = "lf" PROVE t = CRLF
      <3>1. \A j \in 1..2 : t[j] = CRLF[j]
        BY <2>2, <2>3
      <3> QED BY <2>1, <2>2, <3>1, SeqEqual
    <2>4. t = CRLF <=> buf[i] = "cr" /\ buf[i + 1] = "lf"
      BY <2>1, <2>2, <2>3
    <2> QED BY <2>4 DEF t
  <1> QED BY <1>2 DEF CrlfAt

\* The loop finds the frame when its size is a number and all of it is there.
LEMMA FirstFrame ==
  ASSUME NEW s, NEW c \in Nat, NEW f, f \in Frame, HasFrame(s, c, f),
         IsNumbered(f) => SizeOf[f.size] = Len(f.payload),
         NEW buf, IsPart(buf, s, c)
  PROVE  WholeFrame(buf) =
           IF IsNumbered(f) /\ Len(f.payload) + 6 <= Len(buf)
             THEN {[header_len |-> 4, payload_len |-> Len(f.payload)]} ELSE {}
  <1> DEFINE n == Len(f.payload)
             l == Len(buf)
             line == {i \in CrlfAt(buf) : \A j \in CrlfAt(buf) : i <= j}
  <1>1. n \in Nat /\ l \in Nat /\ buf \in Seq(Symbols)
    BY EncodedFrame DEF IsPart
  <1>2. CrlfAt(buf) = {i \in 1..(l - 1) : buf[i] = "cr" /\ buf[i + 1] = "lf"}
    BY <1>1, LineEnds
  <1>3. \A i \in 1..l : buf[i] = s[c + i]
    BY DEF IsPart
  <1>4. f.size # "cr" /\ f.size # ";"
    BY DEF Frame
  <1>5. s[c + 1] = f.size /\ s[c + 2] = ";" /\ s[c + 3] = "cr" /\ s[c + 4] = "lf"
    BY DEF HasFrame
  <1> HIDE DEF n, l
  <1>6. 1 \notin CrlfAt(buf) /\ 2 \notin CrlfAt(buf)
    <2>1. \A i \in 1..(l - 1) : i \in 1..l
      BY <1>1
    <2>2. ASSUME 1 \in 1..l PROVE buf[1] # "cr"
      BY <1>3, <1>4, <1>5, <2>2
    <2>3. ASSUME 2 \in 1..l PROVE buf[2] # "cr"
      BY <1>3, <1>5, <2>3
    <2> QED BY <1>2, <2>1, <2>2, <2>3
  <1>7. CASE l < 4
    <2>1. \A i \in 1..(l - 1) : i = 1 \/ i = 2
      BY <1>1, <1>7
    <2>2. CrlfAt(buf) = {}
      BY <1>2, <1>6, <2>1
    <2>3. ParseHeader(buf) = {}
      BY <2>2 DEF ParseHeader
    <2>4. ~(n + 6 <= l)
      BY <1>1, <1>7
    <2> QED BY <2>3, <2>4 DEF WholeFrame, n, l
  <1>8. CASE l >= 4
    <2>1. 1 \in 1..l /\ 2 \in 1..l /\ 3 \in 1..l /\ 4 \in 1..l /\ 3 \in 1..(l - 1) /\ 3 + 1 = 4
      BY <1>1, <1>8
    <2>2. buf[1] = f.size /\ buf[2] = ";" /\ buf[3] = "cr" /\ buf[4] = "lf"
      BY <1>3, <1>5, <2>1
    <2>3. 3 \in CrlfAt(buf)
      BY <1>2, <2>1, <2>2
    <2>4. \A i \in CrlfAt(buf) : 3 <= i
      <3>1. \A i \in 1..(l - 1) : i # 1 /\ i # 2 => 3 <= i
        BY <1>1
      <3> QED BY <1>2, <1>6, <3>1
    <2>5. line = {3}
      <3>1. \A i \in CrlfAt(buf) : i <= 3 => i = 3
        <4>1. \A i \in 1..(l - 1) : i <= 3 /\ 3 <= i => i = 3
          BY <1>1
        <4> QED BY <1>2, <2>4, <4>1
      <3> QED BY <2>3, <2>4, <3>1
    <2> HIDE DEF line
    <2>6. ParseHeader(buf) = {[header_len |-> i + 1, payload_len |-> SizeOf[buf[1]]] :
                                i \in {i \in line : /\ i > 1 /\ buf[1] \in DOMAIN SizeOf
                                                    /\ i = 2 \/ buf[2] = ";"}}
      BY DEF ParseHeader, line
    <2>7. CASE ~IsNumbered(f)
      <3>1. ParseHeader(buf) = {}
        BY <2>2, <2>6, <2>7 DEF IsNumbered
      <3> QED BY <2>7, <3>1 DEF WholeFrame
    <2>8. CASE IsNumbered(f)
      <3> DEFINE h == [header_len |-> 4, payload_len |-> n]
      <3> DEFINE header(i) == [header_len |-> i + 1, payload_len |-> SizeOf[buf[1]]]
                 good == {i \in line : /\ i > 1 /\ buf[1] \in DOMAIN SizeOf
                                       /\ i = 2 \/ buf[2] = ";"}
      <3>1. good = {3}
        <4>1. buf[1] \in DOMAIN SizeOf
          BY <2>2, <2>8 DEF IsNumbered
        <4>2. good = {i \in line : i > 1}
          BY <2>2, <4>1
        <4>3. {i \in line : i > 1} = {3}
          BY <2>5
        <4> HIDE DEF good
        <4> QED BY <4>2, <4>3
      <3>2. SizeOf[buf[1]] = n
        BY <2>2, <2>8 DEF n
      <3>3. ParseHeader(buf) = {h}
        <4>1. ParseHeader(buf) = {header(i) : i \in good}
          BY <2>6
        <4>2. header(3) = h
          BY <3>2
        <4> HIDE DEF header, good, h
        <4> QED BY <3>1, <4>1, <4>2
      <3>4. h.header_len + h.payload_len + 2 = n + 6
        BY <1>1
      <3> HIDE DEF h
      <3>5. WholeFrame(buf) = IF n + 6 <= l THEN {h} ELSE {}
        BY <3>3, <3>4 DEF WholeFrame, l
      <3> QED BY <2>8, <3>5 DEF h, n, l
    <2> QED BY <2>7, <2>8
  <1> QED BY <1>1, <1>7, <1>8

LEMMA NothingLeft ==
  ASSUME NEW buf, buf \in Seq(Symbols), Len(buf) = 0
  PROVE  WholeFrame(buf) = {}
  <1>1. CrlfAt(buf) = {}
    <2>1. 1..(Len(buf) - 1) = {}
      OBVIOUS
    <2> QED BY <2>1 DEF CrlfAt
  <1> QED BY <1>1 DEF WholeFrame, ParseHeader

\* What the loop gets for frame f with header h, and what it leaves.
IsTaken(buf, h, f, s, c) ==
    /\ Payload(buf, h) = f.payload
    /\ IsPart(Behind(buf, h), s, c + (Len(f.payload) + 6))
    /\ Len(Behind(buf, h)) = Len(buf) - (Len(f.payload) + 6)

LEMMA TakeFrame ==
  ASSUME NEW s, NEW c \in Nat, NEW f, f \in Frame, HasFrame(s, c, f),
         NEW buf, IsPart(buf, s, c), Len(f.payload) + 6 <= Len(buf),
         NEW h, h = [header_len |-> 4, payload_len |-> Len(f.payload)]
  PROVE  IsTaken(buf, h, f, s, c)
  <1> DEFINE n == Len(f.payload)
             l == Len(buf)
             x == SubSeq(buf, 4 + 1, 4 + n)
             y == SubSeq(buf, (n + 6) + 1, l)
  <1>1. n \in Nat /\ l \in Nat /\ buf \in Seq(Symbols) /\ f.payload \in Seq(Symbols)
    BY EncodedFrame DEF IsPart, Frame
  <1>2. \A i \in 1..l : buf[i] = s[c + i]
    BY DEF IsPart
  <1>3. \A j \in 1..n : s[(c + 4) + j] = f.payload[j]
    BY DEF HasFrame
  <1>4. c + l <= Len(s) /\ n + 6 <= l
    BY DEF IsPart
  <1>5. h.header_len = 4 /\ h.payload_len = n
    OBVIOUS
  <1>6. Payload(buf, h) = x
    BY <1>5 DEF Payload
  <1>7. Behind(buf, h) = y
    <2>1. h.header_len + h.payload_len + 3 = (n + 6) + 1
      BY <1>1, <1>5
    <2> QED BY <2>1 DEF Behind
  <1>8. x \in Seq(Symbols) /\ Len(x) = n /\ \A i \in 1..n : x[i] = buf[4 + i]
    <2>1. 4 \in Nat /\ 4 + n \in Nat /\ 4 <= 4 + n /\ 4 + n <= l /\ (4 + n) - 4 = n
      BY <1>1, <1>4
    <2>2. /\ x \in Seq(Symbols) /\ Len(x) = (4 + n) - 4
          /\ \A i \in 1..((4 + n) - 4) : x[i] = buf[4 + i]
      BY <1>1, <2>1, CutOut
    <2> HIDE DEF x, n
    <2> QED BY <2>1, <2>2
  <1>9. y \in Seq(Symbols) /\ Len(y) = l - (n + 6) /\ \A i \in 1..(l - (n + 6)) : y[i] = buf[(n + 6) + i]
    <2>1. n + 6 \in Nat
      BY <1>1
    <2> HIDE DEF n
    <2> QED BY <1>1, <1>4, <2>1, CutOut
  <1> HIDE DEF x, y, n, l
  <1>10. x = f.payload
    <2>1. \A i \in 1..n : 4 + i \in 1..l /\ c + (4 + i) = (c + 4) + i
      BY <1>1, <1>4
    <2>2. \A i \in 1..n : x[i] = f.payload[i]
      BY <1>2, <1>3, <1>8, <2>1
    <2> QED BY <1>1, <1>8, <2>2, SeqEqual DEF n
  <1>11. IsPart(y, s, c + (n + 6))
    <2>1. Len(y) \in Nat
      BY <1>1, <1>4, <1>9
    <2>2. (c + (n + 6)) + Len(y) <= Len(s)
      <3>1. (c + (n + 6)) + Len(y) = c + l
        BY <1>1, <1>4, <1>9
      <3> QED BY <1>4, <3>1
    <2>3. \A i \in 1..Len(y) : (n + 6) + i \in 1..l /\ c + ((n + 6) + i) = (c + (n + 6)) + i
      BY <1>1, <1>4, <1>9
    <2>4. \A i \in 1..Len(y) : y[i] = s[(c + (n + 6)) + i]
      BY <1>2, <1>9, <2>3
    <2> QED BY <1>9, <2>1, <2>2, <2>4 DEF IsPart
  <1> QED BY <1>6, <1>7, <1>9, <1>10, <1>11 DEF IsTaken, n, l


\* What a turn does with the frame in front, by its kind.
LEMMA TurnStays ==
  ASSUME NEW l, l.done \/ WholeFrame(l.rest) = {}
  PROVE  Turn(l) = l
  BY DEF Turn

Takes(l, t, f, s, c) ==
    /\ t.payloads = IF Len(f.payload) = 0 THEN l.payloads ELSE Append(l.payloads, f.payload)
    /\ IsPart(t.rest, s, c + (Len(f.payload) + 6))
    /\ Len(t.rest) = Len(l.rest) - (Len(f.payload) + 6)
    /\ t.done = (Len(f.payload) = 0)

LEMMA TurnTakes ==
  ASSUME NEW l, ~l.done, NEW s, NEW c \in Nat, NEW f, f \in Frame, HasFrame(s, c, f),
         IsNumbered(f), SizeOf[f.size] = Len(f.payload),
         IsPart(l.rest, s, c), Len(f.payload) + 6 <= Len(l.rest)
  PROVE  Takes(l, Turn(l), f, s, c)
  <1> DEFINE h == [header_len |-> 4, payload_len |-> Len(f.payload)]
  <1>1. WholeFrame(l.rest) = {h}
    BY FirstFrame
  <1>2. h = [header_len |-> 4, payload_len |-> Len(f.payload)] /\ h.payload_len = Len(f.payload)
    OBVIOUS
  <1> HIDE DEF h
  <1>3. /\ Payload(l.rest, h) = f.payload
        /\ IsPart(Behind(l.rest, h), s, c + (Len(f.payload) + 6))
        /\ Len(Behind(l.rest, h)) = Len(l.rest) - (Len(f.payload) + 6)
    <2>1. IsTaken(l.rest, h, f, s, c)
      BY <1>2, TakeFrame
    <2> QED BY <2>1 DEF IsTaken
  <1>4. WholeFrame(l.rest) # {} /\ (CHOOSE g \in WholeFrame(l.rest) : TRUE) = h
    BY <1>1
  <1> DEFINE next == [payloads |-> IF h.payload_len = 0 THEN l.payloads
                                   ELSE Append(l.payloads, Payload(l.rest, h)),
                      rest |-> Behind(l.rest, h),
                      done |-> h.payload_len = 0]
  <1>5. Turn(l) = next
    BY <1>4 DEF Turn
  <1>6. /\ next.payloads = IF h.payload_len = 0 THEN l.payloads
                           ELSE Append(l.payloads, Payload(l.rest, h))
        /\ next.rest = Behind(l.rest, h)
        /\ next.done = (h.payload_len = 0)
    OBVIOUS
  <1> HIDE DEF next
  <1>7. Turn(l).payloads = IF Len(f.payload) = 0 THEN l.payloads ELSE Append(l.payloads, f.payload)
    BY <1>2, <1>3, <1>5, <1>6
  <1>8. Turn(l).rest = Behind(l.rest, h)
    BY <1>5, <1>6
  <1>9. Turn(l).done = (Len(f.payload) = 0)
    BY <1>2, <1>5, <1>6
  <1> QED BY <1>3, <1>7, <1>8, <1>9 DEF Takes

--------------------------------------------------------------------------------
(* How far the loop gets                                                   *)

LEMMA EndsGrow ==
  ASSUME NEW u, u \in Seq(Frame), NEW k \in 0..Len(u)
  PROVE  /\ End(u, k) \in Nat
         /\ \A i \in 0..k : End(u, i) \in Nat /\ End(u, i) <= End(u, k)
  <1> DEFINE n == Len(u)
             S == {m \in 0..n : /\ End(u, m) \in Nat
                                /\ \A i \in 0..m : End(u, i) \in Nat /\ End(u, i) <= End(u, m)}
  <1>1. n \in Nat /\ k \in 0..n
    BY LenProperties
  <1>2. End(u, 0) = 0
    <2>1. BytesOf(u)[0] = <<>>
      BY <1>1, BytesValues DEF AreBytes
    <2> QED BY <2>1 DEF End
  <1>3. \A m \in 1..n : /\ End(u, m - 1) \in Nat /\ Len(u[m].payload) \in Nat
                        /\ End(u, m) = End(u, m - 1) + (Len(u[m].payload) + 6)
    BY FramePlace
  <1> HIDE DEF n
  <1>4. 0 \in S
    BY <1>1, <1>2
  <1>5. ASSUME NEW m \in 0..n, m \in S, m < n PROVE m + 1 \in S
    <2>1. m + 1 \in 1..n /\ m + 1 \in 0..n /\ (m + 1) - 1 = m
      BY <1>1, <1>5
    <2>2. End(u, m) \in Nat /\ End(u, m + 1) \in Nat /\ End(u, m) <= End(u, m + 1)
      <3> DEFINE p == Len(u[m + 1].payload)
      <3>1. /\ End(u, (m + 1) - 1) \in Nat /\ p \in Nat
            /\ End(u, m + 1) = End(u, (m + 1) - 1) + (p + 6)
        BY <1>3, <2>1
      <3> HIDE DEF p
      <3>2. End(u, m) \in Nat /\ End(u, m + 1) = End(u, m) + (p + 6)
        BY <2>1, <3>1
      <3> QED BY <3>1, <3>2
    <2>3. \A i \in 0..(m + 1) : i \in 0..m \/ i = m + 1
      BY <2>1
    <2>4. \A i \in 0..m : End(u, i) \in Nat /\ End(u, i) <= End(u, m)
      BY <1>5
    <2>5. \A i \in 0..(m + 1) : End(u, i) \in Nat /\ End(u, i) <= End(u, m + 1)
      BY <2>2, <2>3, <2>4
    <2> QED BY <2>1, <2>2, <2>5
  <1>6. 0..n \subseteq S
    <2> HIDE DEF S
    <2> QED BY <1>1, <1>4, <1>5, Climb
  <1> QED BY <1>1, <1>6

\* Of the first r bytes of upload u, the loop has taken m frames, k of them
\* with a payload, and has left the rest.
Taken(u, rest, k, m, r) ==
    /\ k \in 0..Len(u) /\ m \in 0..Len(u)
    /\ m = k \/ (m = k + 1 /\ IsNumbered(u[m]) /\ Len(u[m].payload) = 0)
    /\ \A i \in 1..k : IsNumbered(u[i]) /\ Len(u[i].payload) # 0
    /\ IsPart(rest, EncodeAll(u), End(u, m)) /\ End(u, m) + Len(rest) = r

\* The loop began behind frame b and has got to frame k.
LoopAt(u, b, l, k, m, r) ==
    /\ Taken(u, l.rest, k, m, r)
    /\ l.done \in BOOLEAN /\ (l.done => m = k + 1)
    /\ b <= k
    /\ l.payloads \in Seq(Seq(Symbols)) /\ Len(l.payloads) = k - b
    /\ \A i \in 1..(k - b) : l.payloads[i] = u[b + i].payload

IsStopped(l) == l.done \/ WholeFrame(l.rest) = {}

LEMMA UploadProperties ==
  ASSUME NEW u, u \in Uploads
  PROVE  /\ u \in Seq(Frame) /\ Len(u) \in Nat
         /\ \A i \in 1..Len(u) :
              /\ u[i] \in Frame /\ u[i].payload \in Seq(Symbols) /\ Len(u[i].payload) \in Nat
              /\ IsNumbered(u[i]) => SizeOf[u[i].size] = Len(u[i].payload)
         /\ \A i, j \in 1..Len(u) :
              i < j /\ IsNumbered(u[i]) /\ Len(u[i].payload) = 0 => ~IsNumbered(u[j])
  <1> DEFINE n == Len(u)
  <1>1. u \in Seq(Frame)
    BY ChunkAssumption
  <1>2. n \in Nat /\ DOMAIN u = 1..n
    BY <1>1, LenProperties
  <1>3. \A i \in 1..n : u[i] \in Frame
    BY <1>1, ElementOfSeq
  <1>4. \A i \in 1..n : u[i].payload \in Seq(Symbols) /\ Len(u[i].payload) \in Nat
    BY <1>3, EncodedFrame DEF Frame
  <1>5. \A i \in 1..n : Len(u[i].payload) = 0 => u[i].payload = <<>>
    BY <1>4, EmptySeq
  <1> HIDE DEF n
  <1>6. \A i \in 1..n : IsNumbered(u[i]) => SizeOf[u[i].size] = Len(u[i].payload)
    BY <1>2, ChunkAssumption
  <1>7. \A i, j \in 1..n :
          i < j /\ IsNumbered(u[i]) /\ u[i].payload = <<>> => ~IsNumbered(u[j])
    BY <1>2, ChunkAssumption
  <1> QED BY <1>1, <1>2, <1>3, <1>4, <1>5, <1>6, <1>7 DEF n

\* Behind the client's own last frame the loop finds no other.
LEMMA NothingBehind ==
  ASSUME NEW u, u \in Uploads, NEW rest, NEW k, NEW m, NEW r, Taken(u, rest, k, m, r),
         m = k + 1
  PROVE  WholeFrame(rest) = {}
  <1> DEFINE n == Len(u)
             s == EncodeAll(u)
             e == End(u, m)
  <1>1. u \in Seq(Frame) /\ n \in Nat /\ m \in 1..n
    <2>1. n \in Nat /\ k \in 0..n /\ m \in 0..n
      BY UploadProperties DEF Taken
    <2> QED BY <2>1, UploadProperties
  <1>2. IsPart(rest, s, e) /\ IsNumbered(u[m]) /\ Len(u[m].payload) = 0
    <2>1. k \in 0..n
      BY DEF Taken
    <2>2. m # k
      BY <1>1, <2>1
    <2> QED BY <2>2 DEF Taken
  <1>3. e \in Nat
    <2>1. m \in 0..n
      BY <1>1
    <2> QED BY <1>1, <2>1, EndsGrow
  <1> HIDE DEF n
  <1>4. CASE m = n
    <2>1. e = Len(s)
      BY <1>4 DEF End, EncodeAll, n
    <2>2. rest \in Seq(Symbols) /\ Len(rest) \in Nat /\ e + Len(rest) <= Len(s)
      BY <1>2 DEF IsPart
    <2> HIDE DEF e, s
    <2>3. Len(rest) = 0
      BY <1>3, <2>1, <2>2
    <2> QED BY <2>2, <2>3, NothingLeft
  <1>5. CASE m < n
    <2> DEFINE f == u[m + 1]
    <2>1. m + 1 \in 1..n /\ (m + 1) - 1 = m /\ m < m + 1
      BY <1>1, <1>5
    <2>2. f \in Frame /\ ~IsNumbered(f)
      BY <1>1, <1>2, <2>1, UploadProperties DEF n
    <2>3. HasFrame(s, e, f)
      BY <1>1, <2>1, FramePlace DEF n
    <2> HIDE DEF f, e, s
    <2> QED BY <1>2, <1>3, <2>2, <2>3, FirstFrame
  <1> QED BY <1>1, <1>4, <1>5

\* The frame the loop stands before, when it takes one.
LEMMA FrameInFront ==
  ASSUME NEW u, u \in Uploads, NEW rest, NEW k, NEW m, NEW r, Taken(u, rest, k, m, r),
         WholeFrame(rest) # {}
  PROVE  /\ m = k /\ k + 1 \in 1..Len(u)
         /\ IsNumbered(u[k + 1]) /\ Len(u[k + 1].payload) + 6 <= Len(rest)
         /\ HasFrame(EncodeAll(u), End(u, k), u[k + 1])
  <1> DEFINE n == Len(u)
             s == EncodeAll(u)
             e == End(u, k)
  <1>1. u \in Seq(Frame) /\ n \in Nat /\ k \in 0..n
    BY UploadProperties DEF Taken
  <1>2. m = k
    BY NothingBehind DEF Taken
  <1>3. IsPart(rest, s, e) /\ e \in Nat
    <2>1. IsPart(rest, s, e)
      BY <1>2 DEF Taken
    <2>2. e \in Nat
      BY <1>1, EndsGrow
    <2> QED BY <2>1, <2>2
  <1>4. k # n
    <2> SUFFICES ASSUME k = n PROVE FALSE
      OBVIOUS
    <2>1. e = Len(s)
      BY DEF End, EncodeAll
    <2>2. rest \in Seq(Symbols) /\ Len(rest) \in Nat /\ e + Len(rest) <= Len(s)
      BY <1>3 DEF IsPart
    <2> HIDE DEF e, s, n
    <2>3. Len(rest) = 0
      BY <1>3, <2>1, <2>2
    <2> QED BY <2>2, <2>3, NothingLeft
  <1>5. k + 1 \in 1..n /\ (k + 1) - 1 = k
    BY <1>1, <1>4
  <1> DEFINE f == u[k + 1]
  <1>6. f \in Frame /\ (IsNumbered(f) => SizeOf[f.size] = Len(f.payload))
    BY <1>5, UploadProperties
  <1>7. HasFrame(s, e, f)
    <2> HIDE DEF s
    <2>1. HasFrame(EncodeAll(u), End(u, (k + 1) - 1), u[k + 1])
      BY <1>1, <1>5, FramePlace
    <2> QED BY <1>5, <2>1 DEF s
  <1> HIDE DEF f, s, e
  <1>8. IsNumbered(f) /\ Len(f.payload) + 6 <= Len(rest)
    BY <1>3, <1>6, <1>7, FirstFrame
  <1> QED BY <1>2, <1>5, <1>7, <1>8 DEF f, s, e

LEMMA OneTurn ==
  ASSUME NEW u, u \in Uploads, NEW b \in Nat, NEW l, NEW k, NEW m, NEW r, LoopAt(u, b, l, k, m, r)
  PROVE  /\ \E i, j \in 0..Len(u) : LoopAt(u, b, Turn(l), i, j, r)
         /\ IsStopped(Turn(l)) \/ Len(Turn(l).rest) < Len(l.rest)
  <1> DEFINE n == Len(u)
             s == EncodeAll(u)
  <1>1. u \in Seq(Frame) /\ n \in Nat /\ k \in 0..n /\ m \in 0..n /\ Taken(u, l.rest, k, m, r)
    BY UploadProperties DEF Taken, LoopAt
  <1>2. CASE IsStopped(l)
    <2>1. Turn(l) = l
      BY <1>2, TurnStays DEF IsStopped
    <2> QED BY <1>1, <1>2, <2>1
  <1>3. CASE ~IsStopped(l)
    <2> DEFINE f == u[k + 1]
               p == Len(f.payload)
               e == End(u, k)
               t == Turn(l)
    <2>1. ~l.done /\ WholeFrame(l.rest) # {}
      BY <1>3 DEF IsStopped
    <2>2. m = k /\ k + 1 \in 1..n /\ IsNumbered(f) /\ p + 6 <= Len(l.rest) /\ HasFrame(s, e, f)
      BY <1>1, <2>1, FrameInFront
    <2>3. f \in Frame /\ p \in Nat /\ SizeOf[f.size] = p /\ f.payload \in Seq(Symbols)
      BY <2>2, UploadProperties
    <2>4. e \in Nat /\ End(u, k + 1) = e + (p + 6) /\ k + 1 \in 0..n
      <3>1. (k + 1) - 1 = k /\ k + 1 \in 0..n
        BY <1>1, <2>2
      <3>2. End(u, (k + 1) - 1) \in Nat /\ End(u, k + 1) = End(u, (k + 1) - 1) + (p + 6)
        BY <1>1, <2>2, FramePlace
      <3> QED BY <3>1, <3>2
    <2>5. IsPart(l.rest, s, e) /\ e + Len(l.rest) = r
      BY <1>1, <2>2 DEF Taken
    <2> HIDE DEF f, s, e, n
    <2>6. /\ t.payloads = IF p = 0 THEN l.payloads ELSE Append(l.payloads, f.payload)
          /\ IsPart(t.rest, s, e + (p + 6))
          /\ Len(t.rest) = Len(l.rest) - (p + 6)
          /\ t.done = (p = 0)
      <3>1. Takes(l, Turn(l), f, s, e)
        BY <2>1, <2>2, <2>3, <2>4, <2>5, TurnTakes
      <3> QED BY <3>1 DEF Takes
    <2> HIDE DEF t, p
    <2>7. Len(l.rest) \in Nat /\ Len(t.rest) \in Nat
      BY <2>5, <2>6 DEF IsPart
    <2>8. Len(t.rest) < Len(l.rest)
      BY <2>3, <2>6, <2>7
    <2>9. IsPart(t.rest, s, End(u, k + 1)) /\ End(u, k + 1) + Len(t.rest) = r
      <3>1. End(u, k + 1) + Len(t.rest) = r
        BY <2>3, <2>4, <2>5, <2>6, <2>7
      <3> QED BY <2>4, <2>6, <3>1
    <2>10. /\ b <= k /\ l.payloads \in Seq(Seq(Symbols)) /\ Len(l.payloads) = k - b
           /\ \A i \in 1..(k - b) : l.payloads[i] = u[b + i].payload
      BY DEF LoopAt
    <2>11. \A i \in 1..k : IsNumbered(u[i]) /\ Len(u[i].payload) # 0
      BY <1>1 DEF Taken
    <2>12. CASE p = 0
      <3>1. Taken(u, t.rest, k, k + 1, r)
        BY <1>1, <2>2, <2>4, <2>9, <2>11, <2>12 DEF Taken, n, s, p, f
      <3>2. t.payloads = l.payloads /\ t.done = TRUE
        BY <2>6, <2>12
      <3>3. LoopAt(u, b, t, k, k + 1, r)
        BY <2>10, <3>1, <3>2 DEF LoopAt
      <3> QED BY <1>1, <2>4, <2>8, <3>3 DEF t, n
    <2>13. CASE p # 0
      <3>1. \A i \in 1..(k + 1) : IsNumbered(u[i]) /\ Len(u[i].payload) # 0
        <4>1. \A i \in 1..(k + 1) : i \in 1..k \/ i = k + 1
          BY <1>1
        <4> QED BY <2>2, <2>11, <2>13, <4>1 DEF p, f
      <3>2. Taken(u, t.rest, k + 1, k + 1, r)
        BY <2>4, <2>9, <3>1 DEF Taken, n, s
      <3>3. t.payloads = Append(l.payloads, f.payload) /\ t.done = FALSE
        BY <2>6, <2>13
      <3>4. /\ t.payloads \in Seq(Seq(Symbols)) /\ Len(t.payloads) = (k - b) + 1
            /\ \A i \in 1..(k - b) : t.payloads[i] = l.payloads[i]
            /\ t.payloads[(k - b) + 1] = f.payload
        BY <2>3, <2>10, <3>3, AppendProperties
      <3>5. /\ Len(t.payloads) = (k + 1) - b /\ b <= k + 1
            /\ \A i \in 1..((k + 1) - b) : i \in 1..(k - b) \/ (i = (k - b) + 1 /\ b + i = k + 1)
        BY <1>1, <2>10, <3>4
      <3>6. \A i \in 1..((k + 1) - b) : t.payloads[i] = u[b + i].payload
        BY <2>10, <3>4, <3>5 DEF f
      <3>7. LoopAt(u, b, t, k + 1, k + 1, r)
        BY <3>2, <3>3, <3>4, <3>5, <3>6 DEF LoopAt
      <3> QED BY <2>4, <2>8, <3>7 DEF t, n
    <2> QED BY <2>12, <2>13
  <1> QED BY <1>2, <1>3


\* The loop goes on until it stops, and takes what it finds until then.
LEMMA AllTurns ==
  ASSUME NEW u, u \in Uploads, NEW buf, NEW b, NEW m, NEW r, Taken(u, buf, b, m, r)
  PROVE  /\ \E i, j \in 0..Len(u) : LoopAt(u, b, Decode(buf), i, j, r)
         /\ IsStopped(Decode(buf))
  <1> DEFINE n == Len(u)
             w == Len(buf)
             t == Turns(buf)
             S == {q \in 0..w : /\ \E i, j \in 0..n : LoopAt(u, b, t[q], i, j, r)
                                /\ IsStopped(t[q]) \/ Len(t[q].rest) + q <= w}
  <1>1. w \in Nat /\ b \in Nat /\ b \in 0..n /\ m \in 0..n /\ n \in Nat
    <2>1. w \in Nat /\ b \in 0..n /\ m \in 0..n /\ n \in Nat
      BY UploadProperties DEF Taken, IsPart
    <2> QED BY <2>1
  <1>2. AreTurns(buf, t, w)
    BY <1>1, TurnsValues
  <1>3. t[0] = NoTurn(buf) /\ \A q \in 1..w : t[q] = Turn(t[q - 1])
    BY <1>2 DEF AreTurns
  <1>4. Decode(buf) = t[w]
    BY DEF Decode
  <1> HIDE DEF t
  <1>5. 0 \in S
    <2>1. t[0].payloads = <<>> /\ t[0].rest = buf /\ t[0].done = FALSE
      BY <1>3 DEF NoTurn
    <2>2. <<>> \in Seq(Seq(Symbols)) /\ Len(<<>>) = b - b /\ \A i \in 1..(b - b) : FALSE
      BY <1>1, EmptySeq
    <2>3. LoopAt(u, b, t[0], b, m, r)
      <3>1. Taken(u, t[0].rest, b, m, r)
        BY <2>1
      <3>2. t[0].payloads \in Seq(Seq(Symbols)) /\ Len(t[0].payloads) = b - b
        BY <2>1, <2>2
      <3>3. \A i \in 1..(b - b) : t[0].payloads[i] = u[b + i].payload
        BY <2>2
      <3>4. b <= b
        BY <1>1
      <3>5. t[0].done \in BOOLEAN /\ ~t[0].done
        BY <2>1
      <3> QED BY <3>1, <3>2, <3>3, <3>4, <3>5 DEF LoopAt
    <2>4. Len(t[0].rest) + 0 <= w
      BY <1>1, <2>1
    <2> QED BY <1>1, <2>3, <2>4
  <1>6. ASSUME NEW q \in 0..w, q \in S, q < w PROVE q + 1 \in S
    <2>1. q + 1 \in 1..w /\ q + 1 \in 0..w /\ (q + 1) - 1 = q
      BY <1>1, <1>6
    <2>2. t[q + 1] = Turn(t[q])
      BY <1>3, <2>1
    <2>3. PICK i \in 0..n, j \in 0..n : LoopAt(u, b, t[q], i, j, r)
      BY <1>6
    <2>4. \E i2, j2 \in 0..n : LoopAt(u, b, t[q + 1], i2, j2, r)
      BY <1>1, <2>2, <2>3, OneTurn
    <2>5. IsStopped(t[q + 1]) \/ Len(t[q + 1].rest) + (q + 1) <= w
      <3>1. CASE IsStopped(t[q])
        BY <2>2, <3>1, TurnStays DEF IsStopped
      <3>2. CASE ~IsStopped(t[q])
        <4>1. Len(t[q].rest) + q <= w
          BY <1>6, <3>2
        <4>2. IsStopped(t[q + 1]) \/ Len(t[q + 1].rest) < Len(t[q].rest)
          BY <1>1, <2>2, <2>3, OneTurn
        <4>3. Len(t[q].rest) \in Nat /\ Len(t[q + 1].rest) \in Nat
          BY <2>3, <2>4 DEF LoopAt, Taken, IsPart
        <4> DEFINE x == Len(t[q].rest)
                   y == Len(t[q + 1].rest)
        <4> HIDE DEF x, y, w
        <4>4. x \in Nat /\ y \in Nat /\ x + q <= w
          BY <4>1, <4>3 DEF x, y
        <4>5. ASSUME y < x PROVE y + (q + 1) <= w
          BY <1>1, <4>4, <4>5
        <4>6. IsStopped(t[q + 1]) \/ y < x
          BY <4>2 DEF x, y
        <4> QED BY <4>5, <4>6 DEF y
      <3> QED BY <3>1, <3>2
    <2> QED BY <2>1, <2>4, <2>5
  <1>7. w \in S
    <2> HIDE DEF S
    <2>1. 0..w \subseteq S
      BY <1>1, <1>5, <1>6, Climb
    <2> QED BY <1>1, <2>1
  <1>8. IsStopped(t[w])
    <2>1. PICK i \in 0..n, j \in 0..n : LoopAt(u, b, t[w], i, j, r)
      BY <1>7
    <2>2. t[w].rest \in Seq(Symbols) /\ Len(t[w].rest) \in Nat
      BY <2>1 DEF LoopAt, Taken, IsPart
    <2>3. CASE Len(t[w].rest) + w <= w
      <3>1. Len(t[w].rest) = 0
        BY <1>1, <2>2, <2>3
      <3> QED BY <2>2, <3>1, NothingLeft DEF IsStopped
    <2> QED BY <1>7, <2>3
  <1> QED BY <1>4, <1>7, <1>8

--------------------------------------------------------------------------------
(* A piece of the body                                                     *)

IsPartUpTo(buf, s, c, r) == IsPart(buf, s, c) /\ c + Len(buf) = r

\* The next n bytes, put behind what the loop has left.
LEMMA PieceArrives ==
  ASSUME NEW s, NEW wire0, IsPart(wire0, s, 0), NEW rest, NEW e \in Nat, IsPart(rest, s, e),
         NEW r \in Nat, e + Len(rest) = r, NEW n \in Nat, r + n <= Len(wire0)
  PROVE  IsPartUpTo(rest \o SubSeq(wire0, r + 1, r + n), s, e, r + n)
  <1> DEFINE piece == SubSeq(wire0, r + 1, r + n)
             buf == rest \o piece
             l == Len(rest)
  <1>1. /\ wire0 \in Seq(Symbols) /\ Len(wire0) \in Nat /\ 0 + Len(wire0) <= Len(s)
        /\ \A i \in 1..Len(wire0) : wire0[i] = s[0 + i]
    BY DEF IsPart
  <1>2. /\ rest \in Seq(Symbols) /\ l \in Nat /\ \A i \in 1..l : rest[i] = s[e + i]
    BY DEF IsPart
  <1>3. piece \in Seq(Symbols) /\ Len(piece) = n /\ \A i \in 1..n : piece[i] = wire0[r + i]
    <2>1. r + n \in Nat /\ r <= r + n /\ (r + n) - r = n
      OBVIOUS
    <2>2. /\ piece \in Seq(Symbols) /\ Len(piece) = (r + n) - r
          /\ \A i \in 1..((r + n) - r) : piece[i] = wire0[r + i]
      BY <1>1, <2>1, CutOut
    <2> QED BY <2>1, <2>2
  <1> HIDE DEF piece
  <1>4. AreJoined(Symbols, rest, piece, buf)
    BY <1>2, <1>3, Joined
  <1> HIDE DEF buf, l
  <1>5. buf \in Seq(Symbols) /\ Len(buf) = l + n
    BY <1>3, <1>4 DEF AreJoined, l
  <1>6. e + Len(buf) = r + n /\ Len(buf) \in Nat
    BY <1>2, <1>5 DEF l
  <1>7. e + Len(buf) <= Len(s)
    BY <1>1, <1>6
  <1>8. \A i \in 1..Len(buf) : buf[i] = s[e + i]
    <2>1. \A i \in 1..l : buf[i] = s[e + i]
      BY <1>2, <1>4 DEF AreJoined, l
    <2>2. \A i \in 1..n : buf[l + i] = s[e + (l + i)]
      <3>1. \A i \in 1..n : buf[l + i] = piece[i]
        BY <1>3, <1>4 DEF AreJoined, l
      <3>2. \A i \in 1..n : r + i \in 1..Len(wire0) /\ r + i = e + (l + i) /\ 0 + (r + i) = r + i
        BY <1>1, <1>2 DEF l
      <3> QED BY <1>1, <1>3, <3>1, <3>2
    <2>3. \A i \in 1..Len(buf) : i \in 1..l \/ (i - l \in 1..n /\ l + (i - l) = i)
      BY <1>2, <1>5
    <2> QED BY <2>1, <2>2, <2>3
  <1> QED BY <1>5, <1>6, <1>7, <1>8 DEF IsPart, IsPartUpTo, buf, piece

--------------------------------------------------------------------------------
(* The chain of signatures                                                 *)

Links == Nat \cup Seq(Symbols)
SignedFrame == [payload : Seq(Symbols), sig : Seq(Links)]

\* The frames c carry the payloads, each signed over the one before it, and
\* the next frame is to be chained to last.
IsChain(c, prior, payloads, last) ==
    /\ c \in Seq(SignedFrame) /\ Len(c) = Len(payloads)
    /\ \A i \in 1..Len(payloads) :
         /\ c[i].payload = payloads[i]
         /\ c[i].sig = Signature(IF i = 1 THEN prior ELSE c[i - 1].sig, payloads[i])
    /\ last = IF Len(payloads) = 0 THEN prior ELSE c[Len(payloads)].sig

LEMMA SignedChain ==
  ASSUME NEW prior, prior \in Seq(Links), NEW payloads, payloads \in Seq(Seq(Symbols))
  PROVE  /\ prior \o payloads \in Seq(Links)
         /\ IsChain(SignChunks(prior, payloads), prior, payloads, prior \o payloads)
  <1> DEFINE n == Len(payloads)
             part(i) == SubSeq(payloads, 1, i)
             acc(i) == prior \o part(i)
             c == SignChunks(prior, payloads)
  <1>1. n \in Nat /\ DOMAIN payloads = 1..n
    BY LenProperties
  <1>2. \A i \in 1..n : payloads[i] \in Seq(Symbols) /\ payloads[i] \in Links
    BY ElementOfSeq DEF Links
  <1>3. payloads \in Seq(Links)
    <2>1. SubSeq(payloads, 1, n) \in Seq(Links)
      BY <1>1, <1>2, SubSeqProperties
    <2>2. SubSeq(payloads, 1, n) = payloads
      BY SubSeqFull
    <2> QED BY <2>1, <2>2
  <1>4. part(0) = <<>> /\ part(n) = payloads
    <2>1. part(0) = <<>>
      BY SubSeqEmpty
    <2> QED BY <2>1, SubSeqFull
  <1>5. \A i \in 0..n : part(i) \in Seq(Links)
    <2>1. \A i \in 0..n : \A j \in 1..i : j \in 1..n
      BY <1>1
    <2>2. ASSUME NEW i \in 0..n PROVE part(i) \in Seq(Links)
      BY <1>1, <1>2, <2>1, SubSeqProperties
    <2> QED BY <2>2
  <1>6. \A i \in 1..n : part(i) = part(i - 1) \o <<payloads[i]>>
    <2>1. ASSUME NEW i \in 1..n PROVE part(i) = part(i - 1) \o <<payloads[i]>>
      <3>1. 1 \in 1..n /\ i \in 1..n
        BY <1>1
      <3> QED BY <3>1, SubSeqRecursiveSecond
    <2> QED BY <2>1
  <1> HIDE DEF part, n
  <1>7. \A i \in 0..n : acc(i) \in Seq(Links)
    BY <1>5, ConcatProperties
  <1>8. acc(0) = prior /\ acc(n) = prior \o payloads
    BY <1>4, ConcatEmptySeq
  <1>9. \A i \in 1..n : acc(i) = Append(acc(i - 1), payloads[i])
    <2>1. ASSUME NEW i \in 1..n PROVE acc(i) = Append(acc(i - 1), payloads[i])
      <3> DEFINE x == part(i - 1)
                 q == <<payloads[i]>>
      <3>1. i - 1 \in 0..n
        BY <1>1
      <3>2. x \in Seq(Links)
        BY <1>5, <3>1
      <3>3. q \in Seq(Links)
        BY <1>2
      <3>4. acc(i) = prior \o (x \o q)
        BY <1>6
      <3> HIDE DEF x, q
      <3>5. prior \o (x \o q) = (prior \o x) \o q
        BY <3>2, <3>3, ConcatAssociative
      <3>6. prior \o x \in Seq(Links)
        BY <3>2, ConcatProperties
      <3>7. (prior \o x) \o q = Append(prior \o x, payloads[i])
        <4> DEFINE y == prior \o x
        <4> HIDE DEF y
        <4>1. Append(y, payloads[i]) = y \o <<payloads[i]>>
          BY <1>2, <3>6, AppendIsConcat DEF y
        <4> QED BY <4>1 DEF y, q
      <3> QED BY <3>4, <3>5, <3>7 DEF x
    <2> QED BY <2>1
  <1>10. c = [i \in 1..n |-> [payload |-> payloads[i], sig |-> acc(i)]]
    BY <1>1 DEF SignChunks, part, n
  <1> HIDE DEF acc, c
  <1>11. \A i \in 1..n : c[i].payload = payloads[i] /\ c[i].sig = acc(i)
    BY <1>10
  <1>12. c \in Seq(SignedFrame) /\ Len(c) = n
    <2>1. \A i \in 1..n : [payload |-> payloads[i], sig |-> acc(i)] \in SignedFrame
      <3>1. \A i \in 1..n : i \in 0..n
        BY <1>1
      <3> QED BY <1>2, <1>7, <3>1 DEF SignedFrame
    <2>2. c \in [1..n -> SignedFrame]
      BY <1>10, <2>1
    <2> QED BY <1>1, <2>2
  <1>13. \A i \in 1..n : c[i].sig = Signature(IF i = 1 THEN prior ELSE c[i - 1].sig, payloads[i])
    <2>1. ASSUME NEW i \in 1..n
          PROVE  acc(i - 1) = IF i = 1 THEN prior ELSE c[i - 1].sig
      <3>1. CASE i = 1
        BY <1>8, <3>1
      <3>2. CASE i # 1
        <4>1. i - 1 \in 1..n
          BY <1>1, <3>2
        <4> QED BY <1>11, <3>2, <4>1
      <3> QED BY <3>1, <3>2
    <2>2. \A i \in 1..n : c[i].sig = Append(acc(i - 1), payloads[i])
      BY <1>9, <1>11
    <2> QED BY <2>1, <2>2 DEF Signature
  <1>14. prior \o payloads = IF n = 0 THEN prior ELSE c[n].sig
    <2>1. n # 0 => n \in 1..n
      BY <1>1
    <2> QED BY <1>8, <1>11, <2>1
  <1>15. IsChain(c, prior, payloads, prior \o payloads)
    BY <1>11, <1>12, <1>13, <1>14 DEF IsChain, n
  <1>16. prior \o payloads \in Seq(Links)
    BY <1>3, ConcatProperties
  <1> QED BY <1>15, <1>16 DEF c

LastSig(a, seed) == IF Len(a) = 0 THEN seed ELSE a[Len(a)].sig

IsSigned(a, seed) ==
    \A i \in 1..Len(a) :
        a[i].sig = Signature(IF i = 1 THEN seed ELSE a[i - 1].sig, a[i].payload)

LEMMA ChainExtends ==
  ASSUME NEW a, a \in Seq(SignedFrame), NEW seed, IsSigned(a, seed), NEW prior,
         prior = LastSig(a, seed), NEW c, NEW p, NEW last, IsChain(c, prior, p, last),
         NEW d, AreJoined(SignedFrame, a, c, d)
  PROVE  IsSigned(d, seed) /\ last = LastSig(d, seed)
  <1> DEFINE m == Len(a)
             n == Len(c)
  <1>1. c \in Seq(SignedFrame) /\ m \in Nat /\ n \in Nat /\ Len(p) = n
    BY LenProperties DEF IsChain
  <1>2. /\ Len(d) = m + n /\ \A i \in 1..m : d[i] = a[i]
        /\ \A i \in 1..n : d[m + i] = c[i]
    BY DEF AreJoined
  <1>3. /\ \A i \in 1..n : c[i].payload = p[i]
        /\ \A i \in 1..n : c[i].sig = Signature(IF i = 1 THEN prior ELSE c[i - 1].sig, p[i])
        /\ last = IF n = 0 THEN prior ELSE c[n].sig
    BY <1>1 DEF IsChain
  <1>4. prior = IF m = 0 THEN seed ELSE a[m].sig
    BY DEF LastSig
  <1>5. \A i \in 1..m : a[i].sig = Signature(IF i = 1 THEN seed ELSE a[i - 1].sig, a[i].payload)
    BY DEF IsSigned
  <1> HIDE DEF m, n
  <1>6. ASSUME NEW i \in 1..m
        PROVE  d[i].sig = Signature(IF i = 1 THEN seed ELSE d[i - 1].sig, d[i].payload)
    <2>1. i # 1 => i - 1 \in 1..m
      BY <1>1
    <2> QED BY <1>2, <1>5, <2>1
  <1>7. ASSUME NEW i \in 1..n
        PROVE  d[m + i].sig =
                 Signature(IF m + i = 1 THEN seed ELSE d[(m + i) - 1].sig, d[m + i].payload)
    <2>1. d[m + i].payload = p[i] /\ d[m + i].sig = c[i].sig
      BY <1>2, <1>3
    <2>2. CASE i = 1
      <3>1. prior = IF m + 1 = 1 THEN seed ELSE d[(m + 1) - 1].sig
        <4>1. m # 0 => m \in 1..m
          BY <1>1
        <4>2. (m + 1) - 1 = m /\ (m + 1 = 1 <=> m = 0)
          BY <1>1
        <4> QED BY <1>2, <1>4, <4>1, <4>2
      <3>2. c[1].sig = Signature(prior, p[1])
        BY <1>3, <2>2
      <3> QED BY <2>1, <2>2, <3>1, <3>2
    <2>3. CASE i # 1
      <3>1. i - 1 \in 1..n /\ m + (i - 1) = (m + i) - 1 /\ m + i # 1
        BY <1>1, <2>3
      <3>2. d[(m + i) - 1] = c[i - 1]
        BY <1>2, <3>1
      <3>3. c[i].sig = Signature(c[i - 1].sig, p[i])
        BY <1>3, <2>3
      <3> QED BY <2>1, <3>1, <3>2, <3>3
    <2> QED BY <2>2, <2>3
  <1>8. IsSigned(d, seed)
    <2>1. \A i \in 1..(m + n) : i \in 1..m \/ (i - m \in 1..n /\ m + (i - m) = i)
      BY <1>1
    <2>2. ASSUME NEW i \in 1..(m + n), i \notin 1..m
          PROVE  d[i].sig = Signature(IF i = 1 THEN seed ELSE d[i - 1].sig, d[i].payload)
      <3>1. i - m \in 1..n /\ m + (i - m) = i
        BY <2>1, <2>2
      <3>2. d[m + (i - m)].sig =
              Signature(IF m + (i - m) = 1 THEN seed ELSE d[(m + (i - m)) - 1].sig,
                        d[m + (i - m)].payload)
        BY <1>7, <3>1
      <3> QED BY <3>1, <3>2
    <2> QED BY <1>2, <1>6, <2>2 DEF IsSigned
  <1>9. last = LastSig(d, seed)
    <2>1. CASE n = 0
      <3>1. Len(d) = m /\ (m # 0 => m \in 1..m)
        BY <1>1, <1>2, <2>1
      <3> QED BY <1>2, <1>3, <1>4, <2>1, <3>1 DEF LastSig
    <2>2. CASE n # 0
      <3>1. n \in 1..n /\ m + n # 0
        BY <1>1, <2>2
      <3> QED BY <1>2, <1>3, <2>2, <3>1 DEF LastSig
    <2> QED BY <2>1, <2>2
  <1> QED BY <1>8, <1>9

--------------------------------------------------------------------------------
(* The invariant                                                           *)

\* The backend got the payloads of the first k frames, and the end of the
\* upload only when there is no chunk behind them.
SentUpTo(k) ==
    /\ Len(sent) = IF active THEN k ELSE k + 1
    /\ \A i \in 1..k : sent[i].payload = upload[i].payload
    /\ ~active => /\ sent[k + 1].payload = <<>>
                  /\ k < Len(upload) => ~IsAcross(k + 1)

StreamInv ==
    /\ upload \in Uploads
    /\ IsPart(wire, EncodeAll(upload), 0)
    /\ received \in 0..Len(wire)
    /\ ended \in BOOLEAN
    /\ active \in BOOLEAN
    /\ attempt \in 1..MaxAttempts
    /\ \E k, m \in 0..Len(upload) :
         Taken(upload, decode_buf, k, m, received) /\ SentUpTo(k)

ChainInv ==
    /\ sent \in Seq(SignedFrame)
    /\ prior_sig \in Seq(Links)
    /\ IsSigned(sent, Seed(attempt))
    /\ active => prior_sig = LastSig(sent, Seed(attempt))

\* No chunk that got across is left when the loop stops.
LEMMA StoppedBefore ==
  ASSUME NEW u, u \in Uploads, NEW b, NEW l, NEW k, NEW m, NEW r, LoopAt(u, b, l, k, m, r),
         IsStopped(l), k < Len(u), IsNumbered(u[k + 1]), Len(u[k + 1].payload) # 0
  PROVE  ~(End(u, k + 1) <= r)
  <1> DEFINE n == Len(u)
             s == EncodeAll(u)
             e == End(u, k)
             f == u[k + 1]
             p == Len(f.payload)
  <1>1. u \in Seq(Frame) /\ n \in Nat /\ k \in 0..n /\ Taken(u, l.rest, k, m, r)
    BY UploadProperties DEF Taken, LoopAt
  <1>2. k + 1 \in 1..n /\ (k + 1) - 1 = k /\ k + 1 # k
    BY <1>1
  <1>3. m = k
    BY <1>1 DEF Taken
  <1>4. WholeFrame(l.rest) = {}
    BY <1>2, <1>3 DEF LoopAt, IsStopped
  <1>5. f \in Frame /\ p \in Nat /\ (IsNumbered(f) => SizeOf[f.size] = Len(f.payload))
    BY <1>2, UploadProperties
  <1>6. e \in Nat /\ End(u, k + 1) = e + (p + 6) /\ HasFrame(s, e, f)
    <2>1. /\ End(u, (k + 1) - 1) \in Nat /\ End(u, k + 1) = End(u, (k + 1) - 1) + (p + 6)
          /\ HasFrame(EncodeAll(u), End(u, (k + 1) - 1), u[k + 1])
      BY <1>1, <1>2, FramePlace
    <2> QED BY <1>2, <2>1
  <1>7. IsPart(l.rest, s, e) /\ e + Len(l.rest) = r
    BY <1>1, <1>3 DEF Taken
  <1>8. IsNumbered(f)
    OBVIOUS
  <1> HIDE DEF n, s, e, f
  <1>9. ~(p + 6 <= Len(l.rest))
    BY <1>4, <1>5, <1>6, <1>7, <1>8, FirstFrame
  <1> HIDE DEF p
  <1>10. Len(l.rest) \in Nat
    BY <1>7 DEF IsPart
  <1> QED BY <1>5, <1>6, <1>7, <1>9, <1>10

LEMMA ReceiveKeeps ==
  ASSUME StreamInv, ChainInv, NEW n \in 0..(Len(wire) - received),
         NEW end_of_stream \in BOOLEAN, Receive(n, end_of_stream),
         NEW k, NEW m, Taken(upload, decode_buf, k, m, received), SentUpTo(k)
  PROVE  /\ StreamInv' /\ ChainInv'
         /\ k \in Nat
         /\ \E i \in k..Len(upload), j \in 0..Len(upload) :
              Taken(upload', decode_buf', i, j, received') /\ SentUpTo(i)'
  <1> DEFINE u == upload
             s == EncodeAll(u)
             e == End(u, m)
             buf == decode_buf \o SubSeq(wire, received + 1, received + n)
             l == Decode(buf)
             last == prior_sig \o l.payloads
             terminal == [payload |-> <<>>, sig |-> Signature(last, <<>>)]
             c == SignChunks(prior_sig, l.payloads)
             mid == sent \o c
             tail == IF end_of_stream THEN <<terminal>> ELSE <<>>
             seed == Seed(attempt)
  <1>1. /\ u \in Uploads /\ u \in Seq(Frame) /\ Len(u) \in Nat
        /\ k \in 0..Len(u) /\ m \in 0..Len(u) /\ k \in Nat
    BY UploadProperties DEF StreamInv, Taken
  <1>2. /\ IsPart(wire, s, 0) /\ Len(wire) \in Nat /\ received \in Nat /\ n \in Nat
        /\ received + n <= Len(wire)
    <2>1. IsPart(wire, s, 0) /\ Len(wire) \in Nat /\ received \in 0..Len(wire)
      BY DEF StreamInv, IsPart
    <2> QED BY <2>1
  <1>3. active /\ (end_of_stream => received + n = Len(wire)) /\ received' = received + n
    BY DEF Receive
  <1>4. /\ decode_buf' = l.rest /\ prior_sig' = last /\ sent' = mid \o tail
        /\ active' = ~end_of_stream /\ ended' = end_of_stream
        /\ upload' = u /\ wire' = wire /\ attempt' = attempt
    BY DEF Receive
  <1>5. Taken(u, buf, k, m, received + n)
    <2>1. e \in Nat
      BY <1>1, EndsGrow
    <2>2. IsPart(decode_buf, s, e) /\ e + Len(decode_buf) = received
      BY DEF Taken
    <2> HIDE DEF e, s
    <2>3. IsPartUpTo(buf, s, e, received + n)
      BY <1>2, <2>1, <2>2, PieceArrives
    <2>4. IsPart(buf, s, e) /\ e + Len(buf) = received + n
      BY <2>3 DEF IsPartUpTo
    <2> HIDE DEF buf
    <2> QED BY <2>4 DEF Taken, e, s
  <1> HIDE DEF buf
  <1>6. /\ \E i, j \in 0..Len(u) : LoopAt(u, k, l, i, j, received + n)
        /\ IsStopped(l)
    BY <1>1, <1>5, AllTurns
  <1>7. PICK i \in 0..Len(u), j \in 0..Len(u) : LoopAt(u, k, l, i, j, received + n)
    BY <1>6
  <1> HIDE DEF l
  <1>8. /\ k <= i /\ i \in Nat /\ i - k \in Nat
        /\ l.payloads \in Seq(Seq(Symbols)) /\ Len(l.payloads) = i - k
        /\ \A x \in 1..(i - k) : l.payloads[x] = u[k + x].payload
    <2>1. /\ k <= i
          /\ l.payloads \in Seq(Seq(Symbols)) /\ Len(l.payloads) = i - k
          /\ \A x \in 1..(i - k) : l.payloads[x] = u[k + x].payload
      BY <1>7 DEF LoopAt
    <2>2. i \in Nat /\ i - k \in Nat
      BY <1>1, <2>1
    <2> QED BY <2>1, <2>2
  <1>9. last \in Seq(Links) /\ IsChain(c, prior_sig, l.payloads, last)
    BY <1>8, SignedChain DEF ChainInv
  <1> HIDE DEF c, last
  <1>10. c \in Seq(SignedFrame) /\ Len(c) = i - k /\ \A x \in 1..(i - k) : c[x].payload = l.payloads[x]
    BY <1>8, <1>9 DEF IsChain
  <1>11. sent \in Seq(SignedFrame) /\ Len(sent) = k /\ \A x \in 1..k : sent[x].payload = u[x].payload
    BY <1>3 DEF ChainInv, SentUpTo
  <1>12. AreJoined(SignedFrame, sent, c, mid)
    BY <1>10, <1>11, Joined
  <1> HIDE DEF mid
  <1>13. mid \in Seq(SignedFrame) /\ Len(mid) = i
    BY <1>1, <1>8, <1>10, <1>11, <1>12 DEF AreJoined
  <1>14. \A x \in 1..i : mid[x].payload = u[x].payload
    <2>1. \A x \in 1..k : mid[x] = sent[x]
      BY <1>11, <1>12 DEF AreJoined
    <2>2. \A x \in 1..(i - k) : mid[k + x] = c[x]
      BY <1>10, <1>11, <1>12 DEF AreJoined
    <2>3. \A x \in 1..(i - k) : mid[k + x].payload = u[k + x].payload
      BY <1>8, <1>10, <2>2
    <2>4. \A x \in 1..i : x \in 1..k \/ (x - k \in 1..(i - k) /\ k + (x - k) = x)
      BY <1>1, <1>8
    <2> QED BY <1>11, <2>1, <2>3, <2>4
  <1>15. IsSigned(mid, seed) /\ last = LastSig(mid, seed)
    <2>1. IsSigned(sent, seed) /\ prior_sig = LastSig(sent, seed)
      BY <1>3 DEF ChainInv
    <2> HIDE DEF seed
    <2> QED BY <1>9, <1>11, <1>12, <2>1, ChainExtends
  <1>16. terminal \in SignedFrame /\ <<terminal>> \in Seq(SignedFrame) /\ Len(<<terminal>>) = 1
    <2>1. <<>> \in Seq(Symbols) /\ <<>> \in Links
      BY EmptySeq DEF Links
    <2>2. Signature(last, <<>>) \in Seq(Links)
      BY <1>9, <2>1, AppendProperties DEF Signature
    <2>3. terminal \in SignedFrame
      BY <2>1, <2>2 DEF SignedFrame
    <2> HIDE DEF terminal
    <2> QED BY <2>3
  <1>17. /\ sent' \in Seq(SignedFrame) /\ Len(sent') = (IF end_of_stream THEN i + 1 ELSE i)
         /\ \A x \in 1..i : sent'[x].payload = u[x].payload
         /\ end_of_stream => sent'[i + 1].payload = <<>>
         /\ IsSigned(sent', seed) /\ (~end_of_stream => sent' = mid)
    <2>1. CASE ~end_of_stream
      <3>1. tail = <<>>
        BY <2>1
      <3>2. sent' = mid
        BY <1>4, <1>13, <3>1, ConcatEmptySeq
      <3> QED BY <1>13, <1>14, <1>15, <2>1, <3>2
    <2>2. CASE end_of_stream
      <3> DEFINE t == <<terminal>>
      <3>1. tail = t
        BY <2>2
      <3>2. /\ t[1] = terminal /\ t[1].payload = <<>> /\ t[1].sig = Signature(last, <<>>)
        OBVIOUS
      <3>3. t \in Seq(SignedFrame) /\ Len(t) = 1
        BY <1>16
      <3> HIDE DEF t, terminal, tail
      <3>4. AreJoined(SignedFrame, mid, t, sent')
        BY <1>4, <1>13, <3>1, <3>3, Joined
      <3>5. /\ sent' \in Seq(SignedFrame) /\ Len(sent') = i + 1
            /\ \A x \in 1..i : sent'[x] = mid[x]
            /\ sent'[i + 1] = t[1]
        <4>1. 1 \in 1..1
          OBVIOUS
        <4> QED BY <1>8, <1>13, <3>3, <3>4, <4>1 DEF AreJoined
      <3>6. IsChain(t, last, << <<>> >>, t[1].sig)
        <4> DEFINE p == << <<>> >>
        <4>1. Len(p) = 1 /\ p[1] = <<>> /\ \A x \in 1..1 : x = 1
          OBVIOUS
        <4> HIDE DEF p
        <4> QED BY <3>2, <3>3, <4>1 DEF IsChain, p
      <3>7. IsSigned(sent', seed)
        <4> HIDE DEF seed
        <4> QED BY <1>13, <1>15, <3>4, <3>6, ChainExtends
      <3> QED BY <1>14, <2>2, <3>2, <3>5, <3>7
    <2> QED BY <2>1, <2>2
  <1>18. ChainInv'
    <2>1. prior_sig' \in Seq(Links)
      BY <1>4, <1>9
    <2>2. active' => prior_sig' = LastSig(sent', seed)
      BY <1>4, <1>15, <1>17
    <2>3. Seed(attempt)' = seed
      BY <1>4 DEF Seed
    <2> HIDE DEF seed
    <2> QED BY <1>17, <2>1, <2>2, <2>3 DEF ChainInv
  <1>19. SentUpTo(i)'
    <2>1. \A x \in 1..i : sent'[x].payload = upload'[x].payload
      BY <1>4, <1>17
    <2>2. Len(sent') = IF active' THEN i ELSE i + 1
      BY <1>4, <1>17
    <2>3. ~active' => sent'[i + 1].payload = <<>>
      BY <1>4, <1>17
    <2>4. ASSUME ~active', i < Len(u) PROVE ~IsAcross(i + 1)
      <3>1. received + n = Len(wire)
        BY <1>3, <1>4, <2>4
      <3>2. i + 1 \in 1..Len(u)
        BY <1>1, <2>4
      <3>3. u[i + 1].payload # <<>> => Len(u[i + 1].payload) # 0
        BY <1>1, <3>2, UploadProperties, EmptySeq
      <3>4. IsNumbered(u[i + 1]) /\ Len(u[i + 1].payload) # 0 => ~(End(u, i + 1) <= received + n)
        BY <1>1, <1>6, <1>7, <2>4, StoppedBefore
      <3> QED BY <3>1, <3>3, <3>4 DEF IsAcross, End
    <2>5. IsAcross(i + 1)' = IsAcross(i + 1)
      BY <1>4 DEF IsAcross
    <2> QED BY <1>4, <2>1, <2>2, <2>3, <2>4, <2>5 DEF SentUpTo
  <1>20. Taken(upload', decode_buf', i, j, received')
    BY <1>3, <1>4, <1>7 DEF LoopAt
  <1>21. StreamInv'
    <2>1. upload' \in Uploads /\ Len(upload') = Len(u)
      BY <1>1, <1>4
    <2>2. IsPart(wire', EncodeAll(upload'), 0)
      BY <1>2, <1>4
    <2>3. received' \in 0..Len(wire')
      BY <1>2, <1>3, <1>4
    <2>4. ended' \in BOOLEAN /\ active' \in BOOLEAN /\ attempt' \in 1..MaxAttempts
      BY <1>4 DEF StreamInv
    <2> QED BY <1>7, <1>19, <1>20, <2>1, <2>2, <2>3, <2>4 DEF StreamInv
  <1>22. i \in k..Len(u)
    BY <1>1, <1>8
  <1> QED BY <1>1, <1>7, <1>18, <1>19, <1>20, <1>21, <1>22

LEMMA StreamStart ==
  Init => StreamInv /\ ChainInv
  <1> SUFFICES ASSUME Init PROVE StreamInv /\ ChainInv
    OBVIOUS
  <1> DEFINE s == EncodeAll(upload)
  <1>1. upload \in Uploads /\ upload \in Seq(Frame) /\ Len(upload) \in Nat
    BY UploadProperties DEF Init
  <1>2. received = 0 /\ ended = FALSE /\ attempt = 1 /\ active = TRUE
    BY DEF Init
  <1>3. decode_buf = <<>> /\ sent = <<>> /\ prior_sig = Seed(1)
    BY DEF Init
  <1>4. s \in Seq(Symbols) /\ Len(s) \in Nat
    <2>1. s \in Seq(Symbols)
      BY <1>1, BytesTyped DEF EncodeAll
    <2> QED BY <2>1, LenProperties
  <1>5. PICK n \in 0..Len(s) : wire = SubSeq(s, 1, n)
    BY DEF Init
  <1> HIDE DEF s
  <1>6. IsPart(wire, s, 0)
    <2>1. n \in Nat /\ 0 <= n /\ n <= Len(s) /\ n - 0 = n /\ 0 + 1 = 1
      BY <1>4
    <2>2. /\ SubSeq(s, 0 + 1, n) \in Seq(Symbols) /\ Len(SubSeq(s, 0 + 1, n)) = n - 0
          /\ \A i \in 1..(n - 0) : SubSeq(s, 0 + 1, n)[i] = s[0 + i]
      BY <1>4, <2>1, CutOut
    <2>3. wire \in Seq(Symbols) /\ Len(wire) = n /\ \A i \in 1..n : wire[i] = s[0 + i]
      BY <1>5, <2>1, <2>2
    <2> QED BY <2>1, <2>3 DEF IsPart
  <1>7. Taken(upload, decode_buf, 0, 0, received)
    <2>1. End(upload, 0) = 0
      <3>1. BytesOf(upload)[0] = <<>>
        BY <1>1, BytesValues DEF AreBytes
      <3> QED BY <3>1 DEF End
    <2>2. decode_buf \in Seq(Symbols) /\ Len(decode_buf) = 0
      BY <1>3, EmptySeq
    <2>3. IsPart(decode_buf, s, 0)
      BY <1>4, <2>2 DEF IsPart
    <2> QED BY <1>1, <1>2, <2>1, <2>2, <2>3 DEF Taken, s
  <1>8. SentUpTo(0)
    BY <1>2, <1>3 DEF SentUpTo
  <1>9. StreamInv
    <2>1. received \in 0..Len(wire)
      BY <1>2, <1>6 DEF IsPart
    <2>2. attempt \in 1..MaxAttempts
      <3>1. MaxAttempts \in Nat \ {0}
        BY ChunkAssumption
      <3> QED BY <1>2, <3>1
    <2>3. 0 \in 0..Len(upload)
      BY <1>1
    <2> QED BY <1>1, <1>2, <1>6, <1>7, <1>8, <2>1, <2>2, <2>3 DEF StreamInv, s
  <1>10. ChainInv
    <2>1. sent \in Seq(SignedFrame) /\ Len(sent) = 0
      BY <1>3, EmptySeq
    <2>2. Seed(1) \in Seq(Links)
      <3>1. 1 \in Links
        BY DEF Links
      <3> QED BY <3>1 DEF Seed
    <2> QED BY <1>2, <1>3, <2>1, <2>2 DEF ChainInv, IsSigned, LastSig
  <1> QED BY <1>9, <1>10

LEMMA RetryKeeps ==
  ASSUME StreamInv, ChainInv, Retry
  PROVE  StreamInv' /\ ChainInv'
  <1> DEFINE s == EncodeAll(upload)
  <1>1. upload \in Uploads /\ upload \in Seq(Frame) /\ Len(upload) \in Nat
    BY UploadProperties DEF StreamInv
  <1>2. /\ received' = 0 /\ ended' = FALSE /\ attempt' = attempt + 1 /\ active' = TRUE
        /\ upload' = upload /\ wire' = wire /\ attempt < MaxAttempts
    BY DEF Retry
  <1>3. decode_buf' = <<>> /\ sent' = <<>> /\ prior_sig' = Seed(attempt + 1)
    BY DEF Retry
  <1>4. IsPart(wire, s, 0)
    BY DEF StreamInv
  <1> HIDE DEF s
  <1>5. Taken(upload', decode_buf', 0, 0, received')
    <2>1. End(upload, 0) = 0
      <3>1. BytesOf(upload)[0] = <<>>
        BY <1>1, BytesValues DEF AreBytes
      <3> QED BY <3>1 DEF End
    <2>2. decode_buf' \in Seq(Symbols) /\ Len(decode_buf') = 0
      BY <1>3, EmptySeq
    <2>3. IsPart(decode_buf', s, 0)
      <3>1. Len(s) \in Nat
        <4>1. s \in Seq(Symbols)
          BY <1>1, BytesTyped DEF EncodeAll, s
        <4> QED BY <4>1, LenProperties
      <3> QED BY <2>2, <3>1 DEF IsPart
    <2> QED BY <1>1, <1>2, <2>1, <2>2, <2>3 DEF Taken, s
  <1>6. SentUpTo(0)'
    BY <1>2, <1>3 DEF SentUpTo
  <1>7. attempt \in Nat /\ attempt' \in 1..MaxAttempts
    <2>1. attempt \in 1..MaxAttempts /\ MaxAttempts \in Nat
      BY ChunkAssumption DEF StreamInv
    <2> QED BY <1>2, <2>1
  <1>8. StreamInv'
    <2>1. received' \in 0..Len(wire')
      BY <1>2, <1>4 DEF IsPart
    <2>2. 0 \in 0..Len(upload')
      BY <1>1, <1>2
    <2>3. IsPart(wire', EncodeAll(upload'), 0)
      BY <1>2, <1>4 DEF s
    <2> QED BY <1>1, <1>2, <1>5, <1>6, <1>7, <2>1, <2>2, <2>3 DEF StreamInv
  <1>9. ChainInv'
    <2>1. sent' \in Seq(SignedFrame) /\ Len(sent') = 0
      BY <1>3, EmptySeq
    <2>2. Seed(attempt + 1) \in Seq(Links)
      <3>1. attempt + 1 \in Links
        BY <1>7 DEF Links
      <3> QED BY <3>1 DEF Seed
    <2> QED BY <1>2, <1>3, <2>1, <2>2 DEF ChainInv, IsSigned, LastSig
  <1> QED BY <1>8, <1>9

LEMMA SameStays ==
  ASSUME StreamInv, ChainInv, UNCHANGED <<upload, wire, received, attempt, state, sent>>,
         ended' \in BOOLEAN
  PROVE  StreamInv' /\ ChainInv'
  <1>1. StreamInv'
    <2>1. PICK k \in 0..Len(upload), m \in 0..Len(upload) :
            Taken(upload, decode_buf, k, m, received) /\ SentUpTo(k)
      BY DEF StreamInv
    <2>2. SentUpTo(k)'
      BY <2>1 DEF SentUpTo, IsAcross, state
    <2>3. Taken(upload', decode_buf', k, m, received')
      BY <2>1 DEF state
    <2> QED BY <2>2, <2>3 DEF StreamInv, state
  <1>2. ChainInv'
    BY DEF ChainInv, state
  <1> QED BY <1>1, <1>2

\* Whatever the pieces and however often it is sent again.
LEMMA StreamInvariant == Spec => [](StreamInv /\ ChainInv)
  <1>1. Init => StreamInv /\ ChainInv
    BY StreamStart
  <1>2. StreamInv /\ ChainInv /\ [Next]_vars => StreamInv' /\ ChainInv'
    <2> SUFFICES ASSUME StreamInv, ChainInv, [Next]_vars
                 PROVE  StreamInv' /\ ChainInv'
      OBVIOUS
    <2>1. ASSUME NEW n \in 0..(Len(wire) - received), NEW end_of_stream \in BOOLEAN,
                 Receive(n, end_of_stream)
          PROVE  StreamInv' /\ ChainInv'
      <3>1. PICK k \in 0..Len(upload), m \in 0..Len(upload) :
              Taken(upload, decode_buf, k, m, received) /\ SentUpTo(k)
        BY DEF StreamInv
      <3> QED BY <2>1, <3>1, ReceiveKeeps
    <2>2. CASE ReceiveNone
      BY <2>2, SameStays DEF ReceiveNone
    <2>3. CASE Retry
      BY <2>3, RetryKeeps
    <2>4. CASE UNCHANGED vars
      BY <2>4, SameStays DEF vars, StreamInv
    <2> QED BY <2>1, <2>2, <2>3, <2>4 DEF Next
  <1> QED BY <1>1, <1>2, PTL DEF Spec

--------------------------------------------------------------------------------
(* What the backend sees                                                   *)

\* What UploadRelay sees when the backend got k chunks.
RelayedUpTo(k) ==
    /\ k <= Len(Chunks) /\ Closed \in BOOLEAN /\ Closed = ~active
    /\ Relayed = SubSeq(Chunks, 1, k) /\ Len(Relayed) = k
    /\ Len(Chunks) \in Nat
    /\ ~active => Relayed = Chunks

SoFar ==
    \A k, m \in 0..Len(upload) :
        Taken(upload, decode_buf, k, m, received) /\ SentUpTo(k) => RelayedUpTo(k)

LEMMA RelayedSoFar == StreamInv /\ ChainInv => SoFar
  <1> SUFFICES ASSUME StreamInv, ChainInv, NEW k \in 0..Len(upload), NEW m \in 0..Len(upload),
                      Taken(upload, decode_buf, k, m, received), SentUpTo(k)
               PROVE  RelayedUpTo(k)
    BY DEF SoFar
  <1> DEFINE n == Len(upload)
             payloads == [i \in 1..k |-> upload[i].payload]
  <1>1. /\ upload \in Uploads /\ upload \in Seq(Frame) /\ n \in Nat /\ k \in 0..n /\ k \in Nat
        /\ \A i \in 1..n : upload[i].payload \in Seq(Symbols) /\ Len(upload[i].payload) \in Nat
    BY UploadProperties DEF StreamInv
  <1>2. active \in BOOLEAN
    BY DEF StreamInv
  <1>3. \A i \in 1..k : IsNumbered(upload[i]) /\ upload[i].payload # <<>>
    <2>1. \A i \in 1..k : IsNumbered(upload[i]) /\ Len(upload[i].payload) # 0
      BY DEF Taken
    <2> QED BY <2>1, EmptySeq
  <1>4. \A i \in 1..k : IsAcross(i)
    <2>1. End(upload, m) + Len(decode_buf) = received /\ Len(decode_buf) \in Nat
      BY DEF Taken, IsPart
    <2>2. received \in Nat /\ received <= Len(wire)
      <3>1. received \in 0..Len(wire) /\ Len(wire) \in Nat
        BY DEF StreamInv, IsPart
      <3> QED BY <3>1
    <2>3. End(upload, k) \in Nat /\ End(upload, m) \in Nat /\ End(upload, k) <= End(upload, m)
      <3>1. m = k \/ m = k + 1
        BY DEF Taken
      <3>2. k \in 0..m
        BY <1>1, <3>1
      <3> QED BY <1>1, <3>2, EndsGrow
    <2>4. \A i \in 1..k : End(upload, i) \in Nat /\ End(upload, i) <= End(upload, k)
      <3>1. \A i \in 1..k : i \in 0..k
        BY <1>1
      <3> QED BY <1>1, <3>1, EndsGrow
    <2>5. \A i \in 1..k : End(upload, i) <= Len(wire)
      <3>1. Len(wire) \in Nat
        BY DEF StreamInv, IsPart
      <3> QED BY <2>1, <2>2, <2>3, <2>4, <3>1
    <2> QED BY <1>3, <2>5 DEF IsAcross, End
  <1>5. Stops \in SUBSET (0..n) /\ Stops # {}
    <2>1. n \in Stops
      BY <1>1 DEF Stops
    <2> QED BY <2>1 DEF Stops
  <1>6. Min(Stops) \in Stops /\ Min(Stops) \in 0..n /\ \A i \in Stops : Min(Stops) <= i
    BY <1>1, <1>5, MinIsLeast
  <1>7. k <= Min(Stops)
    <2> SUFFICES ASSUME ~(k <= Min(Stops)) PROVE FALSE
      OBVIOUS
    <2>1. Min(Stops) < n /\ Min(Stops) + 1 \in 1..k
      BY <1>1, <1>6
    <2>2. ~IsAcross(Min(Stops) + 1)
      BY <1>6, <2>1 DEF Stops
    <2> QED BY <1>4, <2>1, <2>2
  <1>8. ~active => k = Min(Stops)
    <2> SUFFICES ASSUME ~active PROVE k = Min(Stops)
      OBVIOUS
    <2>1. k \in Stops
      BY <1>1 DEF SentUpTo, Stops
    <2> QED BY <1>1, <1>6, <1>7, <2>1
  <1>9. /\ Chunks \in Seq(Seq(Symbols)) /\ Len(Chunks) = Min(Stops)
        /\ \A i \in 1..Min(Stops) : Chunks[i] = upload[i].payload
    <2> DEFINE top == Min(Stops)
    <2>1. top \in Nat /\ \A i \in 1..top : i \in 1..n
      BY <1>1, <1>6
    <2>2. Chunks = [i \in 1..top |-> upload[i].payload]
      BY DEF Chunks
    <2> HIDE DEF top
    <2>3. Chunks \in [1..top -> Seq(Symbols)]
      BY <1>1, <2>1, <2>2
    <2>4. Chunks \in Seq(Seq(Symbols)) /\ Len(Chunks) = top
      BY <2>1, <2>3
    <2> QED BY <2>2, <2>4 DEF top
  <1>10. SubSeq(Chunks, 1, k) = payloads
    <2> DEFINE t == SubSeq(Chunks, 1, k)
    <2>1. /\ t \in Seq(Seq(Symbols)) /\ Len(t) = IF 1 <= k THEN (k - 1) + 1 ELSE 0
          /\ \A i \in 1..((k - 1) + 1) : t[i] = Chunks[(1 + i) - 1]
      <3>1. \A i \in 1..k : Chunks[i] \in Seq(Symbols)
        <4>1. \A i \in 1..k : i \in 1..Len(Chunks)
          BY <1>1, <1>6, <1>7, <1>9
        <4> QED BY <1>9, <4>1, ElementOfSeq
      <3> QED BY <1>1, <3>1, SubSeqProperties
    <2> HIDE DEF t
    <2>2. Len(t) = k
      BY <1>1, <2>1
    <2>3. \A i \in 1..k : i \in 1..((k - 1) + 1) /\ (1 + i) - 1 = i /\ i \in 1..Min(Stops)
      BY <1>1, <1>6, <1>7
    <2>4. \A i \in 1..k : t[i] = payloads[i]
      BY <1>9, <2>1, <2>3
    <2>5. payloads \in Seq(Seq(Symbols)) /\ Len(payloads) = k
      <3>1. payloads \in [1..k -> Seq(Symbols)]
        <4>1. \A i \in 1..k : i \in 1..n
          BY <1>1
        <4> QED BY <1>1, <4>1
      <3> HIDE DEF payloads
      <3> QED BY <1>1, <3>1
    <2> HIDE DEF payloads
    <2>6. t = payloads
      BY <2>1, <2>2, <2>4, <2>5, SeqEqual
    <2> QED BY <2>6 DEF t
  <1>11. Len(payloads) = k /\ (~active => payloads = Chunks) /\ Len(Chunks) \in Nat
    <2>1. Len(Chunks) \in Nat
      BY <1>1, <1>6, <1>9
    <2>2. ~active => payloads = Chunks
      BY <1>8, <1>9, <1>10, SubSeqFull
    <2>3. Len(payloads) = k
      OBVIOUS
    <2> QED BY <2>1, <2>2, <2>3
  <1>12. /\ DOMAIN sent = 1..Len(sent)
         /\ \A i \in 1..k : sent[i].payload = upload[i].payload
         /\ Len(sent) = IF active THEN k ELSE k + 1
         /\ ~active => sent[k + 1].payload = <<>>
    <2>1. DOMAIN sent = 1..Len(sent)
      BY LenProperties DEF ChainInv
    <2> QED BY <2>1 DEF SentUpTo
  <1> HIDE DEF payloads
  <1>13. payloads = [i \in 1..k |-> sent[i].payload]
    BY <1>12 DEF payloads
  <1>14. CASE active
    <2>1. DOMAIN sent = 1..k /\ Len(sent) = k
      BY <1>12, <1>14
    <2>2. Closed = FALSE
      BY <1>3, <1>12, <2>1 DEF Closed, IsClosing
    <2>3. Relayed = payloads
      BY <1>13, <2>1, <2>2 DEF Relayed
    <2> QED BY <1>7, <1>9, <1>10, <1>14, <1>11, <2>2, <2>3 DEF RelayedUpTo
  <1>15. CASE ~active
    <2>1. /\ DOMAIN sent = 1..(k + 1) /\ Len(sent) = k + 1 /\ k + 1 \in 1..(k + 1)
          /\ (k + 1) - 1 = k
      BY <1>1, <1>12, <1>15
    <2>2. Closed = TRUE
      BY <1>12, <1>15, <2>1 DEF Closed, IsClosing
    <2>3. IsClosing(Last(sent))
      BY <1>12, <1>15, <2>1 DEF IsClosing, Last
    <2>4. Relayed = payloads
      BY <1>13, <2>1, <2>2, <2>3 DEF Relayed
    <2> QED BY <1>2, <1>7, <1>9, <1>10, <1>15, <1>11, <2>2, <2>4 DEF RelayedUpTo
  <1> QED BY <1>14, <1>15

--------------------------------------------------------------------------------
(* The theorems                                                            *)

\* What the loop holds is never more than it was given, and every payload that
\* goes out is made of the client's bytes.
THEOREM TypeCorrect == Spec => []TypeOK
  <1>1. StreamInv /\ ChainInv => TypeOK
    <2> SUFFICES ASSUME StreamInv, ChainInv PROVE TypeOK
      OBVIOUS
    <2> DEFINE s == EncodeAll(upload)
    <2>1. s \in Seq(Symbols)
      <3>1. upload \in Seq(Frame) /\ Len(upload) \in 0..Len(upload)
        BY UploadProperties DEF StreamInv
      <3> QED BY <3>1, BytesTyped DEF EncodeAll
    <2>2. IsPart(wire, s, 0)
      BY DEF StreamInv
    <2> HIDE DEF s
    <2>3. IsPrefix(wire, s)
      <3> DEFINE w == Len(wire)
                 t == SubSeq(s, 1, w)
      <3>1. /\ wire \in Seq(Symbols) /\ w \in Nat /\ 0 + w <= Len(s) /\ Len(s) \in Nat
            /\ \A i \in 1..w : wire[i] = s[0 + i]
        BY <2>1, <2>2, LenProperties DEF IsPart
      <3>2. 0 + 1 = 1 /\ w - 0 = w /\ 0 <= w /\ w <= Len(s)
        BY <3>1
      <3>3. /\ SubSeq(s, 0 + 1, w) \in Seq(Symbols) /\ Len(SubSeq(s, 0 + 1, w)) = w - 0
            /\ \A i \in 1..(w - 0) : SubSeq(s, 0 + 1, w)[i] = s[0 + i]
        BY <2>1, <3>1, <3>2, CutOut
      <3>4. t \in Seq(Symbols) /\ Len(t) = w /\ \A i \in 1..w : t[i] = s[0 + i]
        BY <3>2, <3>3
      <3> HIDE DEF t
      <3>5. wire = t
        <4>1. \A i \in 1..w : wire[i] = t[i]
          BY <3>1, <3>4
        <4> QED BY <3>1, <3>4, <4>1, SeqEqual
      <3>6. SubSeq(wire, 1, w) = wire
        BY <3>1, SubSeqFull
      <3> QED BY <3>2, <3>5, <3>6 DEF IsPrefix, t
    <2>4. decode_buf \in Seq(Symbols) /\ Len(decode_buf) <= received
      <3>1. PICK k \in 0..Len(upload), m \in 0..Len(upload) :
              Taken(upload, decode_buf, k, m, received) /\ SentUpTo(k)
        BY DEF StreamInv
      <3>2. End(upload, m) \in Nat
        <4>1. upload \in Seq(Frame)
          BY UploadProperties DEF StreamInv
        <4> QED BY <4>1, EndsGrow
      <3>3. /\ decode_buf \in Seq(Symbols) /\ Len(decode_buf) \in Nat
            /\ End(upload, m) + Len(decode_buf) = received
        BY <3>1 DEF Taken, IsPart
      <3> QED BY <3>2, <3>3
    <2>5. \A i \in DOMAIN sent : sent[i].payload \in Seq(Symbols)
      <3>1. sent \in Seq(SignedFrame) /\ DOMAIN sent = 1..Len(sent)
        BY LenProperties DEF ChainInv
      <3>2. \A i \in 1..Len(sent) : sent[i] \in SignedFrame
        BY <3>1, ElementOfSeq
      <3> QED BY <3>1, <3>2 DEF SignedFrame
    <2> QED BY <2>3, <2>4, <2>5 DEF TypeOK, StreamInv, s
  <1> QED BY <1>1, StreamInvariant, PTL

\* Every frame is signed over the frame before it, the first over the seed of
\* its attempt, wherever the pieces and the attempts begin.
THEOREM ChainIsIntact == Spec => []ChainIntact
  <1>1. ChainInv => ChainIntact
    <2> SUFFICES ASSUME ChainInv PROVE ChainIntact
      OBVIOUS
    <2>1. DOMAIN sent = 1..Len(sent)
      BY LenProperties DEF ChainInv
    <2> QED BY <2>1 DEF ChainInv, IsSigned, ChainIntact
  <1> QED BY <1>1, StreamInvariant, PTL

\* The backend gets the client's chunks, in order, none twice, and the end of
\* the upload only behind the last of those that got across.
THEOREM StreamImplementsRelay == Spec => ImplementsRelay
  <1>1. Init => Relay!Init
    <2> SUFFICES ASSUME Init PROVE Relay!Init
      OBVIOUS
    <2>1. sent = <<>> /\ DOMAIN sent = {} /\ Len(sent) = 0
      BY DEF Init
    <2>2. Closed = FALSE
      BY <2>1 DEF Closed
    <2>3. Relayed = <<>>
      BY <2>1, <2>2 DEF Relayed
    <2> QED BY <2>2, <2>3 DEF Relay!Init
  <1>2. StreamInv /\ ChainInv /\ (StreamInv /\ ChainInv)' /\ [Next]_vars
          => [Relay!Next]_<<Chunks, Relayed, Closed>>
    <2> SUFFICES ASSUME StreamInv, ChainInv, (StreamInv /\ ChainInv)', [Next]_vars
                 PROVE  [Relay!Next]_<<Chunks, Relayed, Closed>>
      OBVIOUS
    <2>1. ASSUME NEW n \in 0..(Len(wire) - received), NEW end_of_stream \in BOOLEAN,
                 Receive(n, end_of_stream)
          PROVE  Relay!Relay
      <3>1. PICK k \in 0..Len(upload), m \in 0..Len(upload) :
              Taken(upload, decode_buf, k, m, received) /\ SentUpTo(k)
        BY DEF StreamInv
      <3>2. RelayedUpTo(k) /\ k \in Nat
        BY <2>1, <3>1, ReceiveKeeps, RelayedSoFar DEF SoFar
      <3>3. upload' = upload /\ wire' = wire /\ active = TRUE /\ active' \in BOOLEAN
        BY <2>1 DEF Receive
      <3>4. Chunks' = Chunks
        BY <3>3 DEF Chunks, Stops, IsAcross
      <3>5. PICK i \in k..Len(upload), j \in 0..Len(upload) :
              Taken(upload', decode_buf', i, j, received') /\ SentUpTo(i)'
        BY <2>1, <3>1, ReceiveKeeps
      <3>6. RelayedUpTo(i)'
        <4>1. SoFar'
          BY RelayedSoFar, PTL
        <4>2. i \in 0..Len(upload')
          BY <3>2, <3>3
        <4> QED BY <3>3, <3>5, <4>1, <4>2 DEF SoFar
      <3>7. /\ k \in Nat /\ i \in Nat /\ k <= i /\ i <= Len(Chunks) /\ Len(Chunks) \in Nat
            /\ Len(Relayed) = k /\ Relayed' = SubSeq(Chunks, 1, i)
            /\ Closed = FALSE /\ Closed' \in BOOLEAN
            /\ Closed' => Relayed' = Chunks
        <4>1. i \in Nat /\ k <= i
          BY <3>2, <3>5
        <4> QED BY <3>2, <3>3, <3>4, <3>6, <4>1 DEF RelayedUpTo
      <3>8. i \in Len(Relayed)..Len(Chunks)
        BY <3>7
      <3> QED BY <3>4, <3>7, <3>8 DEF Relay!Relay
    <2>2. CASE ReceiveNone
      <3>1. Chunks' = Chunks
        BY <2>2 DEF ReceiveNone, Chunks, Stops, IsAcross
      <3>2. Relayed' = Relayed /\ Closed' = Closed
        BY <2>2 DEF ReceiveNone, Relayed, Closed
      <3> QED BY <3>1, <3>2
    <2>3. CASE Retry
      <3>1. Chunks' = Chunks
        BY <2>3 DEF Retry, Chunks, Stops, IsAcross
      <3>2. sent' = <<>> /\ DOMAIN sent' = {} /\ Len(sent') = 0
        BY <2>3 DEF Retry
      <3>3. Closed' = FALSE
        BY <3>2 DEF Closed
      <3>4. Relayed' = <<>>
        BY <3>2, <3>3 DEF Relayed
      <3> QED BY <3>1, <3>3, <3>4 DEF Relay!Next, Relay!Restart
    <2>4. CASE UNCHANGED vars
      <3>1. Chunks' = Chunks
        BY <2>4 DEF vars, Chunks, Stops, IsAcross
      <3>2. Relayed' = Relayed /\ Closed' = Closed
        BY <2>4 DEF vars, Relayed, Closed
      <3> QED BY <3>1, <3>2
    <2> QED BY <2>1, <2>2, <2>3, <2>4 DEF Next, Relay!Next
  <1>3. Spec => [](StreamInv /\ ChainInv)
    BY StreamInvariant
  <1>4. ImplementsRelay <=> Relay!Init /\ [][Relay!Next]_<<Chunks, Relayed, Closed>>
    BY DEF ImplementsRelay, Relay!Spec
  <1> QED BY <1>1, <1>2, <1>3, <1>4, PTL DEF Spec

================================================================================

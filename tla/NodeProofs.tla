------------------------------ MODULE NodeProofs ------------------------------
(***************************************************************************)
(* Proofs about Node and its contract, for any packets of frames, cut      *)
(* anywhere and claiming any count, any service keys and any unique ids:   *)
(* identifiers are read as they were built; the parser returns the frames  *)
(* that arrived whole; and every request is answered once, so that who     *)
(* asked knows the answer.                                                 *)
(***************************************************************************)
EXTENDS NodeAnswers, FiniteSetTheorems, SequenceTheorems, WellFoundedInduction, TLAPS

(* -------------------------- CAN identifiers ---------------------------- *)

(* The fields of a service identifier do not overlap (can_utils.py:37-66). *)
LEMMA ServiceIdRoundTrip ==
  ASSUME NEW p \in Priorities, NEW s \in 0 .. 255, NEW r \in BOOLEAN,
         NEW d \in NodeIds, NEW n \in NodeIds
  PROVE  LET id == BuildServiceId(p, s, r, d, n) IN
         /\ id \in Nat
         /\ IsService(id) /\ (IsRequest(id) <=> r)
         /\ Priority(id) = p /\ ServiceType(id) = s /\ Dest(id) = d /\ Source(id) = n
<1> DEFINE b == Bit(r)
           id == BuildServiceId(p, s, r, d, n)
<1>1. p \in 0 .. 31 /\ d \in 0 .. 127 /\ n \in 0 .. 127
  BY DEF Priorities, NodeIds
<1>2. b \in 0 .. 1 /\ (b = 1) = r
  BY DEF Bit
<1>3. p % 32 = p /\ s % 256 = s /\ d % 128 = d /\ n % 128 = n
  BY <1>1, SMT
<1>4. id = (p * 16777216) + (s * 65536) + (b * 32768) + (d * 256) + 128 + n
  BY <1>3, SMT DEF BuildServiceId
<1> HIDE DEF b, id
<1>5. id \in Nat
  BY <1>1, <1>2, <1>4, SMT
<1>6. /\ id \div 128 = (p * 131072) + (s * 512) + (b * 256) + (d * 2) + 1
      /\ id \div 256 = (p * 65536) + (s * 256) + (b * 128) + d
      /\ id \div 32768 = (p * 512) + (s * 2) + b
      /\ id \div 65536 = (p * 256) + s
      /\ id \div 16777216 = p
      /\ id % 128 = n
  BY <1>1, <1>2, <1>4, <1>5, SMTT(30)
<1>7. /\ ((p * 131072) + (s * 512) + (b * 256) + (d * 2) + 1) % 2 = 1
      /\ ((p * 65536) + (s * 256) + (b * 128) + d) % 128 = d
      /\ ((p * 512) + (s * 2) + b) % 2 = b
      /\ ((p * 256) + s) % 256 = s
      /\ p % 32 = p
  BY <1>1, <1>2, SMTT(30)
<1>8. /\ IsService(id) /\ Priority(id) = p /\ ServiceType(id) = s
      /\ Dest(id) = d /\ Source(id) = n
  BY <1>6, <1>7, SMT DEF IsService, Priority, ServiceType, Dest, Source
<1>9. (IsRequest(id) <=> r)
  BY <1>2, <1>6, <1>7, SMT DEF IsRequest
<1> QED
  BY <1>5, <1>8, <1>9, SMT DEF id

(* Neither do those of a message identifier, except that an anonymous one  *)
(* keeps two bits of its type (can_utils.py:33-34, 67-81).                 *)
LEMMA MessageIdRoundTrip ==
  ASSUME NEW p \in Priorities, NEW t \in Nat, t < 65536, NEW n \in NodeIds
  PROVE  LET id == BuildMessageId(p, t, n) IN
         /\ id \in Nat
         /\ ~IsService(id)
         /\ Priority(id) = p /\ Source(id) = n
         /\ MessageType(id) = IF n = 0 THEN t % 4 ELSE t
<1> DEFINE id == BuildMessageId(p, t, n)
<1>1. p \in 0 .. 31 /\ n \in 0 .. 127
  BY DEF Priorities, NodeIds
<1>2. p % 32 = p /\ t % 65536 = t /\ n % 128 = n
  BY <1>1, SMT
<1>3. id = (p * 16777216) + (t * 256) + n
  BY <1>2, SMT DEF BuildMessageId
<1> HIDE DEF id
<1>4. id \in Nat
  BY <1>1, <1>3, SMT
<1>5. /\ id \div 128 = (p * 131072) + (t * 2)
      /\ id \div 256 = (p * 65536) + t
      /\ id \div 16777216 = p
      /\ id % 128 = n
  BY <1>1, <1>3, <1>4, SMTT(30)
<1>6. /\ ((p * 131072) + (t * 2)) % 2 = 0
      /\ ((p * 65536) + t) % 65536 = t
      /\ ((p * 65536) + t) % 4 = t % 4
  BY <1>1, SMTT(30)
<1>7. /\ ~IsService(id) /\ Priority(id) = p /\ Source(id) = n
      /\ MessageType(id) = IF n = 0 THEN t % 4 ELSE t
  BY <1>2, <1>5, <1>6, SMT DEF IsService, Priority, MessageType, Source
<1> QED
  BY <1>4, <1>7, SMT DEF id

(* Nor those of a tail byte (dronecan.py:8-16).                           *)
LEMMA TailRoundTrip ==
  ASSUME NEW a \in BOOLEAN, NEW b \in BOOLEAN, NEW c \in BOOLEAN, NEW t \in 0 .. 31
  PROVE  LET tail == BuildTail(a, b, c, t) IN
         /\ tail \in 0 .. 255
         /\ StartBit(tail) = a /\ EndBit(tail) = b /\ ToggleBit(tail) = c /\ TailTid(tail) = t
  BY SMTT(30) DEF BuildTail, StartBit, EndBit, ToggleBit, TailTid, Bit
(* The answer to a request for info is a response of that service, from    *)
(* this node to the one that asked, of the priority and transfer id of the *)
(* request: whoever asked can tell that it is its own                      *)
(* (node_info.py:27-41).                                                   *)
THEOREM AskerKnowsAnswer ==
  ASSUME NEW f, f.id \in Nat
  PROVE  LET a == InfoAnswer(f) IN
         /\ IsService(a.id) /\ ~IsRequest(a.id) /\ ServiceType(a.id) = GetNodeInfo
         /\ Source(a.id) = NodeId /\ Dest(a.id) = Source(f.id)
         /\ Priority(a.id) = Priority(f.id) /\ a.tid = TailTid(Tl(f))
<1> DEFINE p == Priority(f.id)
           n == Source(f.id)
<1>1. p \in Priorities
  BY SMT DEF Priority, Priorities
<1>2. n \in NodeIds
  BY SMT DEF Source, NodeIds
<1>3. NodeId \in NodeIds
  BY NodeAssumption
<1> HIDE DEF p, n
<1>4. PICK s \in 0 .. 255, r \in BOOLEAN : s = 1 /\ r = FALSE
  <2>1. 1 \in 0 .. 255 /\ FALSE \in BOOLEAN
    OBVIOUS
  <2> QED
    BY <2>1, Zenon
<1>5. LET id == BuildServiceId(p, s, r, n, NodeId) IN
      /\ IsService(id) /\ (IsRequest(id) <=> r)
      /\ Priority(id) = p /\ ServiceType(id) = s /\ Dest(id) = n /\ Source(id) = NodeId
  BY ONLY <1>1, <1>2, <1>3, <1>4, ServiceIdRoundTrip
<1>6. BuildServiceId(p, s, r, n, NodeId) = BuildServiceId(p, 1, FALSE, n, NodeId)
  BY ONLY <1>4, Zenon
<1> QED
  BY <1>4, <1>5, <1>6 DEF InfoAnswer, Answer, GetNodeInfo, p, n

-----------------------------------------------------------------------------
(* ------------------------------- Packets ------------------------------- *)

(* A set of naturals has a least element: every induction below is the     *)
(* search for a least counterexample.                                      *)
LEMMA LeastNumber ==
  ASSUME NEW S, \A x \in S : x \in Nat, S # {}
  PROVE  \E m \in S : \A x \in S : m <= x
<1> DEFINE less == OpToRel(<, Nat)
<1>1. PICK m \in S : \A y \in S : <<y, m>> \notin less
  <2>1. S \subseteq Nat
    OBVIOUS
  <2> HIDE DEF less
  <2> QED BY <2>1, NatLessThanWellFounded, WFMin DEF less
<1>2. \A y \in S : ~ (y < m)
  BY <1>1 DEF OpToRel
<1> QED BY <1>2

(* FlattenSeq joins the sequences from the first on.                       *)
Joined(s, n) == CHOOSE g : g = [i \in 1 .. n |-> IF i = 1 THEN s[i] ELSE g[i - 1] \o s[i]]

(* That recursion has a solution.                                          *)
LEMMA JoinedDefined ==
  ASSUME NEW s, NEW n \in Nat
  PROVE  Joined(s, n) =
           [i \in 1 .. n |-> IF i = 1 THEN s[i] ELSE Joined(s, n)[i - 1] \o s[i]]
<1> DEFINE Good(k) == \E g : g = [i \in 1 .. k |-> IF i = 1 THEN s[i] ELSE g[i - 1] \o s[i]]
           bad == {k \in Nat : ~Good(k)}
<1>1. ASSUME NEW k \in Nat, Good(k) PROVE Good(k + 1)
  <2> PICK g : g = [i \in 1 .. k |-> IF i = 1 THEN s[i] ELSE g[i - 1] \o s[i]]
    BY <1>1
  <2> DEFINE h == [i \in 1 .. k + 1 |-> IF i = 1 THEN s[i] ELSE g[i - 1] \o s[i]]
  <2>1. ASSUME NEW i \in 1 .. k + 1, i # 1 PROVE h[i - 1] = g[i - 1]
    <3>1. i - 1 \in 1 .. k /\ i - 1 \in 1 .. k + 1
      BY <2>1
    <3> QED BY <3>1
  <2>2. h = [i \in 1 .. k + 1 |-> IF i = 1 THEN s[i] ELSE h[i - 1] \o s[i]]
    BY <2>1
  <2> HIDE DEF h
  <2> QED BY <2>2
<1>2. Good(0)
  <2>1. <<>> = [i \in 1 .. 0 |-> IF i = 1 THEN s[i] ELSE <<>>[i - 1] \o s[i]]
    OBVIOUS
  <2> QED BY <2>1
<1>3. bad = {}
  <2> SUFFICES ASSUME bad # {} PROVE FALSE
    OBVIOUS
  <2>1. PICK k \in bad : \A x \in bad : k <= x
    <3>1. \A x \in bad : x \in Nat
      OBVIOUS
    <3> HIDE DEF bad
    <3> QED BY <3>1, LeastNumber
  <2>2. k \in Nat /\ ~Good(k)
    OBVIOUS
  <2> HIDE DEF Good
  <2>3. k # 0
    BY <1>2, <2>2
  <2>4. k - 1 \in Nat /\ ~(k <= k - 1) /\ (k - 1) + 1 = k
    BY <2>2, <2>3
  <2>5. Good(k - 1)
    BY <2>1, <2>4
  <2> QED BY <1>1, <2>2, <2>4, <2>5
<1>4. Good(n)
  BY <1>3
<1> QED BY <1>4 DEF Joined

LEMMA JoinedAt ==
  ASSUME NEW s, NEW n \in Nat, NEW i \in 1 .. n
  PROVE  Joined(s, n)[i] = IF i = 1 THEN s[i] ELSE Joined(s, n)[i - 1] \o s[i]
<1> DEFINE g == Joined(s, n)
<1>1. g = [j \in 1 .. n |-> IF j = 1 THEN s[j] ELSE g[j - 1] \o s[j]]
  BY JoinedDefined
<1> HIDE DEF g
<1>2. g[i] = IF i = 1 THEN s[i] ELSE g[i - 1] \o s[i]
  BY <1>1
<1> QED BY <1>2 DEF g

(* What is joined first does not depend on what comes after.               *)
LEMMA JoinedPrefix ==
  ASSUME NEW S, NEW s \in Seq(Seq(S)), NEW e
  PROVE  \A i \in 1 .. Len(s) :
           /\ Joined(s, Len(s))[i] \in Seq(S)
           /\ Joined(Append(s, e), Len(s) + 1)[i] = Joined(s, Len(s))[i]
<1> DEFINE n == Len(s)
           t == Append(s, e)
           f == Joined(s, n)
           g == Joined(t, n + 1)
           bad == {i \in 1 .. n : ~(f[i] \in Seq(S) /\ g[i] = f[i])}
<1>1. n \in Nat /\ \A i \in 1 .. n : t[i] = s[i] /\ s[i] \in Seq(S)
  OBVIOUS
<1> HIDE DEF n, t
<1>3. ASSUME NEW i \in 1 .. n
      PROVE  /\ f[i] = IF i = 1 THEN s[i] ELSE f[i - 1] \o s[i]
             /\ g[i] = IF i = 1 THEN s[i] ELSE g[i - 1] \o s[i]
  <2>1. i \in 1 .. n + 1 /\ n + 1 \in Nat /\ t[i] = s[i]
    BY <1>1
  <2>2. f[i] = IF i = 1 THEN s[i] ELSE f[i - 1] \o s[i]
    BY <1>1, JoinedAt
  <2>3. g[i] = IF i = 1 THEN t[i] ELSE g[i - 1] \o t[i]
    BY <2>1, JoinedAt
  <2> QED BY <2>1, <2>2, <2>3
<1> HIDE DEF f, g
<1>4. bad = {}
  <2> SUFFICES ASSUME bad # {} PROVE FALSE
    OBVIOUS
  <2>1. PICK i \in bad : \A x \in bad : i <= x
    <3>1. \A x \in bad : x \in Nat
      BY <1>1
    <3> HIDE DEF bad
    <3> QED BY <3>1, LeastNumber
  <2>2. i \in 1 .. n /\ ~(f[i] \in Seq(S) /\ g[i] = f[i])
    OBVIOUS
  <2>3. i # 1
    BY <1>1, <1>3, <2>2
  <2>4. i - 1 \in 1 .. n /\ ~(i <= i - 1)
    BY <1>1, <2>2, <2>3
  <2>5. f[i - 1] \in Seq(S) /\ g[i - 1] = f[i - 1]
    BY <2>1, <2>4
  <2>6. f[i] = f[i - 1] \o s[i] /\ g[i] = f[i - 1] \o s[i] /\ s[i] \in Seq(S)
    BY <1>1, <1>3, <2>2, <2>3, <2>5
  <2>7. f[i - 1] \o s[i] \in Seq(S)
    BY <2>5, <2>6
  <2> QED BY <2>2, <2>6, <2>7
<1> QED BY <1>4 DEF n, t, f, g

(* One sequence more is joined at the end.                                 *)
LEMMA FlattenAppend ==
  ASSUME NEW S, NEW s \in Seq(Seq(S)), NEW e \in Seq(S)
  PROVE  /\ FlattenSeq(s) \in Seq(S)
         /\ FlattenSeq(Append(s, e)) = FlattenSeq(s) \o e
<1> DEFINE n == Len(s)
           t == Append(s, e)
<1>1. n \in Nat /\ Len(t) = n + 1 /\ t[n + 1] = e /\ n + 1 # 0
  OBVIOUS
<1>2. /\ FlattenSeq(s) = IF n = 0 THEN s ELSE Joined(s, n)[n]
      /\ FlattenSeq(t) = Joined(t, n + 1)[n + 1]
  <2>1. \A r : FlattenSeq(r) = IF Len(r) = 0 THEN r ELSE Joined(r, Len(r))[Len(r)]
    BY DEF FlattenSeq, Joined
  <2> HIDE DEF t
  <2> QED BY <1>1, <2>1
<1>3. Joined(t, n + 1)[n + 1] =
        IF n + 1 = 1 THEN t[n + 1] ELSE Joined(t, n + 1)[(n + 1) - 1] \o t[n + 1]
  <2>1. n + 1 \in 1 .. n + 1 /\ n + 1 \in Nat
    BY <1>1
  <2>2. \A k \in Nat : \A i \in 1 .. k :
           Joined(t, k)[i] = IF i = 1 THEN t[i] ELSE Joined(t, k)[i - 1] \o t[i]
    BY JoinedAt
  <2> HIDE DEF t, n
  <2> QED BY <2>1, <2>2
<1>4. CASE n = 0
  <2>1. s = <<>> /\ FlattenSeq(t) = e
    BY <1>1, <1>2, <1>3, <1>4
  <2> QED BY <1>2, <1>4, <2>1
<1>5. CASE n # 0
  <2>1. n \in 1 .. n /\ (n + 1) - 1 = n /\ n + 1 # 1
    BY <1>1, <1>5
  <2>2. Joined(s, n)[n] \in Seq(S) /\ Joined(t, n + 1)[n] = Joined(s, n)[n]
    BY <2>1, JoinedPrefix
  <2> HIDE DEF t, n
  <2>3. FlattenSeq(t) = Joined(s, n)[n] \o e
    BY <1>1, <1>2, <1>3, <2>1, <2>2
  <2> QED BY <1>2, <1>5, <2>2, <2>3 DEF t
<1> QED BY <1>4, <1>5

(* ------------------------ Packets, as they are built ------------------- *)

Byte == 0 .. 255

(* Bytes of an identifier.                                                 *)
IdSize == 4

Wire(frames) == [i \in DOMAIN frames |-> FrameBytes(frames[i])]

(* What follows the header, and where it ends.                             *)
Body(frames) == FlattenSeq(Wire(frames))

End(frames) == HeaderSize + Len(Body(frames))

(* Where the elements of two joined sequences stand.                       *)
LEMMA ConcatAt ==
  ASSUME NEW S, NEW s \in Seq(S), NEW t \in Seq(S), NEW n, Len(s) = n
  PROVE  /\ s \o t \in Seq(S) /\ Len(s \o t) = n + Len(t)
         /\ \A i \in 1 .. n : (s \o t)[i] = s[i]
         /\ \A i \in 1 .. Len(t) : (s \o t)[n + i] = t[i]
<1> DEFINE u == s \o t
<1>1. Len(s) \in Nat /\ Len(t) \in Nat
  BY LenProperties
<1>2. /\ u \in Seq(S) /\ Len(u) = Len(s) + Len(t)
      /\ \A i \in 1 .. Len(s) + Len(t) : u[i] = IF i <= Len(s) THEN s[i] ELSE t[i - Len(s)]
  BY ConcatProperties
<1> HIDE DEF u
<1>3. \A i \in 1 .. Len(s) : u[i] = s[i]
  BY <1>1, <1>2
<1>4. ASSUME NEW i \in 1 .. Len(t) PROVE u[Len(s) + i] = t[i]
  <2>1. /\ Len(s) + i \in 1 .. Len(s) + Len(t) /\ ~(Len(s) + i <= Len(s))
        /\ (Len(s) + i) - Len(s) = i
    BY <1>1
  <2> QED BY <1>2, <2>1
<1> QED BY <1>2, <1>3, <1>4 DEF u

LEMMA IdBytesType ==
  ASSUME NEW f \in WireFrame
  PROVE  /\ IdBytes(f.id) \in Seq(Byte) /\ Len(IdBytes(f.id)) = IdSize
         /\ f.data \in Seq(Byte) /\ Len(f.data) \in Nat /\ Len(f.data) <= 255
<1> DEFINE id == f.id
           a == 128 + (id \div 16777216)
           b == (id \div 65536) % 256
           c == (id \div 256) % 256
           e == id % 256
<1>0. f \in CanFrame /\ f.id < 536870912 /\ Len(f.data) <= 255
  BY SMT DEF WireFrame
<1>1. id \in Nat /\ id < 536870912
  BY <1>0, SMT DEF CanFrame
<1>2. f.data \in Seq(Byte) /\ Len(f.data) \in Nat /\ Len(f.data) <= 255
  BY <1>0, SMT DEF CanFrame, Byte
<1> HIDE DEF id
<1>3. a \in Byte /\ b \in Byte /\ c \in Byte /\ e \in Byte
  <2>1. a \in Byte
    BY <1>1, SMTT(30) DEF Byte
  <2>2. b \in Byte
    BY <1>1, SMTT(30) DEF Byte
  <2>3. c \in Byte
    BY <1>1, SMTT(30) DEF Byte
  <2>4. e \in Byte
    BY <1>1, SMTT(30) DEF Byte
  <2> QED BY <2>1, <2>2, <2>3, <2>4, SMT
<1>4. IdBytes(f.id) = <<a, b, c, e>>
  BY SMT DEF IdBytes, id
<1> HIDE DEF a, b, c, e
<1>5. <<a, b, c, e>> \in Seq(Byte) /\ Len(<<a, b, c, e>>) = 4
  BY <1>3, SMT
<1> QED BY <1>2, <1>4, <1>5 DEF IdSize

LEMMA ByteType ==
  ASSUME NEW n \in Nat, n <= 255
  PROVE  n \in Byte
BY DEF Byte

(* The parts of a frame on the wire.                                       *)
LEMMA FrameBytesType ==
  ASSUME NEW f \in WireFrame
  PROVE  /\ FrameBytes(f) \in Seq(Byte)
         /\ Len(FrameBytes(f)) = FrameHeader + Len(f.data)
         /\ \A i \in 1 .. IdSize : FrameBytes(f)[i] = IdBytes(f.id)[i]
         /\ FrameBytes(f)[FrameHeader] = Len(f.data)
         /\ \A i \in 1 .. Len(f.data) : FrameBytes(f)[FrameHeader + i] = f.data[i]
<1> DEFINE d == f.data
           n == Len(d)
           a == IdBytes(f.id)
<1>0. d \in Seq(Byte) /\ a \in Seq(Byte) /\ Len(a) = IdSize
  BY IdBytesType
<1>1. n \in Nat /\ n <= 255
  BY IdBytesType
<1>2. FrameBytes(f) = (a \o <<n>>) \o d
  BY DEF FrameBytes
<1> DEFINE l == <<n>>
<1>3. l \in Seq(Byte) /\ Len(l) = 1 /\ l[1] = n
  <2>1. n \in Byte
    BY <1>1, ByteType, Zenon
  <2> HIDE DEF n
  <2> QED BY <2>1
<1> DEFINE b == a \o l
<1>4. IdSize \in Nat /\ IdSize + 1 = FrameHeader /\ FrameHeader \in Nat
  BY DEF IdSize, FrameHeader
<1> HIDE DEF d, n, a, l
<1>5. /\ b \in Seq(Byte) /\ Len(b) = FrameHeader
      /\ \A i \in 1 .. IdSize : b[i] = a[i]
      /\ b[FrameHeader] = n
  <2>0. a \in Seq(Byte) /\ Len(a) = IdSize /\ l \in Seq(Byte)
    BY <1>0, <1>3
  <2>1. /\ b \in Seq(Byte) /\ Len(b) = IdSize + Len(l)
        /\ \A i \in 1 .. IdSize : b[i] = a[i]
        /\ \A i \in 1 .. Len(l) : b[IdSize + i] = l[i]
    BY <2>0, ConcatAt
  <2> HIDE DEF b
  <2> QED BY <1>3, <1>4, <2>1
<1>6. FrameBytes(f) = b \o d
  BY <1>2 DEF l
<1> HIDE DEF b
<1>7. /\ b \o d \in Seq(Byte) /\ Len(b \o d) = FrameHeader + Len(d)
      /\ \A i \in 1 .. FrameHeader : (b \o d)[i] = b[i]
      /\ \A i \in 1 .. Len(d) : (b \o d)[FrameHeader + i] = d[i]
  <2>1. b \in Seq(Byte) /\ Len(b) = FrameHeader
    BY <1>5
  <2> QED BY <1>0, <2>1, ConcatAt
<1>8. (b \o d)[FrameHeader] = n /\ \A i \in 1 .. IdSize : (b \o d)[i] = a[i]
  BY <1>4, <1>5, <1>7
<1> QED BY <1>6, <1>7, <1>8 DEF n, d, a

LEMMA WireType ==
  ASSUME NEW frames \in Seq(WireFrame)
  PROVE  Wire(frames) \in Seq(Seq(Byte)) /\ Len(Wire(frames)) = Len(frames)
<1>1. \A i \in 1 .. Len(frames) : FrameBytes(frames[i]) \in Seq(Byte)
  BY FrameBytesType
<1> QED BY <1>1 DEF Wire

LEMMA BodyType ==
  ASSUME NEW frames \in Seq(WireFrame)
  PROVE  Body(frames) \in Seq(Byte) /\ Len(Body(frames)) \in Nat
<1>1. Body(frames) \in Seq(Byte)
  <2>1. <<>> \in Seq(Byte)
    OBVIOUS
  <2> QED BY <2>1, WireType, FlattenAppend DEF Body
<1> QED BY <1>1

LEMMA BodyAppend ==
  ASSUME NEW frames \in Seq(WireFrame), NEW f \in WireFrame
  PROVE  /\ Body(frames) \in Seq(Byte)
         /\ Body(Append(frames, f)) = Body(frames) \o FrameBytes(f)
<1>1. Wire(frames) \in Seq(Seq(Byte)) /\ Len(Wire(frames)) = Len(frames)
  BY WireType
<1>2. FrameBytes(f) \in Seq(Byte)
  BY FrameBytesType
<1>3. Wire(Append(frames, f)) = Append(Wire(frames), FrameBytes(f))
  BY <1>1 DEF Wire
<1> QED BY <1>1, <1>2, <1>3, FlattenAppend DEF Body

(* The first n frames.                                                     *)
First(frames, n) == SubSeq(frames, 1, n)

LEMMA FirstProperties ==
  ASSUME NEW frames \in Seq(WireFrame)
  PROVE  /\ First(frames, 0) = <<>> /\ First(frames, Len(frames)) = frames
         /\ \A n \in 0 .. Len(frames) : First(frames, n) \in Seq(WireFrame)
         /\ \A n \in 1 .. Len(frames) :
              /\ frames[n] \in WireFrame
              /\ First(frames, n) = Append(First(frames, n - 1), frames[n])
BY DEF First

LEMMA BodyGrows ==
  ASSUME NEW frames \in Seq(WireFrame), NEW n \in 1 .. Len(frames)
  PROVE  /\ Body(First(frames, n - 1)) \in Seq(Byte) /\ Body(First(frames, n)) \in Seq(Byte)
         /\ frames[n] \in WireFrame
         /\ Body(First(frames, n)) = Body(First(frames, n - 1)) \o FrameBytes(frames[n])
<1>1. n - 1 \in 0 .. Len(frames) /\ n \in 0 .. Len(frames)
  OBVIOUS
<1>2. /\ First(frames, n - 1) \in Seq(WireFrame) /\ First(frames, n) \in Seq(WireFrame)
      /\ frames[n] \in WireFrame
      /\ First(frames, n) = Append(First(frames, n - 1), frames[n])
  BY <1>1, FirstProperties
<1> QED BY <1>2, BodyAppend

(* The body of the first frames is the beginning of the whole body.        *)
LEMMA BodyPrefix ==
  ASSUME NEW frames \in Seq(WireFrame), NEW n \in 0 .. Len(frames)
  PROVE  /\ Body(frames) \in Seq(Byte)
         /\ Body(First(frames, n)) \in Seq(Byte)
         /\ Len(Body(First(frames, n))) <= Len(Body(frames))
         /\ \A j \in 1 .. Len(Body(First(frames, n))) :
              Body(frames)[j] = Body(First(frames, n))[j]
<1> DEFINE B(m) == Body(First(frames, m))
           Extends(m) == /\ Len(B(n)) <= Len(B(m))
                         /\ \A j \in 1 .. Len(B(n)) : B(m)[j] = B(n)[j]
           bad == {m \in n .. Len(frames) : ~Extends(m)}
<1>1. Len(frames) \in Nat /\ n \in Nat /\ n <= Len(frames)
  OBVIOUS
<1>2. \A m \in 0 .. Len(frames) : B(m) \in Seq(Byte) /\ Len(B(m)) \in Nat
  <2> SUFFICES ASSUME NEW m \in 0 .. Len(frames) PROVE B(m) \in Seq(Byte)
    OBVIOUS
  <2>1. First(frames, m) \in Seq(WireFrame)
    BY FirstProperties
  <2> QED BY <2>1, BodyType
<1>3. ASSUME NEW m \in n + 1 .. Len(frames), Extends(m - 1) PROVE Extends(m)
  <2>1. m \in 1 .. Len(frames) /\ m - 1 \in 0 .. Len(frames) /\ m \in 0 .. Len(frames)
    BY <1>1
  <2>2. B(m) = B(m - 1) \o FrameBytes(frames[m]) /\ FrameBytes(frames[m]) \in Seq(Byte)
    BY <2>1, BodyGrows, FrameBytesType
  <2>3. B(m - 1) \in Seq(Byte) /\ Len(B(n)) \in Nat
    BY <1>1, <1>2, <2>1
  <2> HIDE DEF B
  <2>4. /\ Len(B(m - 1)) <= Len(B(m))
        /\ \A j \in 1 .. Len(B(m - 1)) : B(m)[j] = B(m - 1)[j]
    BY <2>2, <2>3
  <2>5. Len(B(m - 1)) \in Nat /\ Len(B(m)) \in Nat
    BY <1>2, <2>1
  <2> QED BY <1>3, <2>3, <2>4, <2>5
<1>4. Extends(n)
  BY <1>1, <1>2
<1> HIDE DEF Extends
<1>5. bad = {}
  <2> SUFFICES ASSUME bad # {} PROVE FALSE
    OBVIOUS
  <2>1. PICK m \in bad : \A x \in bad : m <= x
    <3>1. \A x \in bad : x \in Nat
      BY <1>1
    <3> HIDE DEF bad
    <3> QED BY <3>1, LeastNumber
  <2>2. m \in n .. Len(frames) /\ ~Extends(m)
    OBVIOUS
  <2>3. m # n
    BY <1>4, <2>2
  <2>4. m \in n + 1 .. Len(frames) /\ m - 1 \in n .. Len(frames) /\ ~(m <= m - 1)
    BY <1>1, <2>2, <2>3
  <2>5. Extends(m - 1)
    BY <2>1, <2>4
  <2> QED BY <1>3, <2>2, <2>4, <2>5
<1>6. Extends(Len(frames))
  BY <1>1, <1>5
<1>7. B(Len(frames)) = Body(frames) /\ Len(frames) \in 0 .. Len(frames)
  BY <1>1, FirstProperties
<1> QED BY <1>2, <1>6, <1>7 DEF Extends

(* ------------------------ Packets, as they are parsed ------------------ *)

(* A packet is its header and its body.                                    *)
LEMMA PacketShape ==
  ASSUME NEW frames \in Seq(WireFrame), NEW s \in Nat
  PROVE  /\ BuildPacket(s, frames) \in Seq(Nat)
         /\ Len(BuildPacket(s, frames)) = End(frames)
         /\ BuildPacket(s, frames)[1] = Version /\ BuildPacket(s, frames)[2] = OpData
         /\ \A j \in 1 .. Len(Body(frames)) :
              BuildPacket(s, frames)[HeaderSize + j] = Body(frames)[j]
<1> DEFINE n == Len(frames)
           h == <<Version, OpData, s % 256, n \div 256, n % 256>>
           b == Body(frames)
<1>1. BuildPacket(s, frames) = h \o b
  BY DEF BuildPacket, Body, Wire
<1>2. b \in Seq(Nat)
  <2>1. b \in Seq(Byte)
    BY BodyType
  <2>2. \A i \in Byte : i \in Nat
    BY DEF Byte
  <2> HIDE DEF b
  <2> QED BY <2>1, <2>2
<1>3. h \in Seq(Nat) /\ h[1] = Version /\ h[2] = OpData
  <2>1. n \in Nat
    OBVIOUS
  <2>2. n \div 256 \in Nat /\ n % 256 \in Nat /\ s % 256 \in Nat
    BY <2>1
  <2>3. Version \in Nat /\ OpData \in Nat
    BY DEF Version, OpData
  <2> HIDE DEF n
  <2> QED BY <2>2, <2>3
<1>4. Len(h) = HeaderSize
  BY DEF HeaderSize
<1>5. 1 \in 1 .. HeaderSize /\ 2 \in 1 .. HeaderSize
  BY DEF HeaderSize
<1> HIDE DEF h, b
<1>6. /\ h \o b \in Seq(Nat) /\ Len(h \o b) = HeaderSize + Len(b)
      /\ \A i \in 1 .. HeaderSize : (h \o b)[i] = h[i]
      /\ \A i \in 1 .. Len(b) : (h \o b)[HeaderSize + i] = b[i]
  <2>1. h \in Seq(Nat)
    BY <1>3
  <2> QED BY <1>2, <1>4, <2>1, ConcatAt
<1>7. (h \o b)[1] = h[1] /\ (h \o b)[2] = h[2]
  BY <1>5, <1>6
<1> QED BY <1>1, <1>3, <1>6, <1>7, Zenon DEF End, b

(* The count in the header is the one claimed; all else is as built.       *)
LEMMA ClaimingShape ==
  ASSUME NEW frames \in Seq(WireFrame), NEW count \in Nat
  PROVE  LET q == Claiming(frames, count) IN
         /\ q \in Seq(Nat) /\ Len(q) = End(frames)
         /\ q[1] = Version /\ q[2] = OpData /\ q[4] * 256 + q[5] = count
         /\ \A j \in 1 .. Len(Body(frames)) : q[HeaderSize + j] = Body(frames)[j]
<1> DEFINE p == BuildPacket(0, frames)
           q == Claiming(frames, count)
           a == count \div 256
           c == count % 256
<1>1. /\ p \in Seq(Nat) /\ Len(p) = End(frames)
      /\ p[1] = Version /\ p[2] = OpData
      /\ \A j \in 1 .. Len(Body(frames)) : p[HeaderSize + j] = Body(frames)[j]
  BY PacketShape
<1>2. a \in Nat /\ c \in Nat /\ a * 256 + c = count
  BY SMT
<1>3. Len(Body(frames)) \in Nat
  BY BodyType
<1>4. q = [p EXCEPT ![4] = a, ![5] = c]
  BY DEF Claiming
<1> HIDE DEF p, a, c, q
<1>5. Len(p) \in Nat /\ Len(p) = Len(Body(frames)) + HeaderSize /\ HeaderSize = 5
  BY <1>1, <1>3 DEF End, HeaderSize
<1>6. DOMAIN p = 1 .. Len(p) /\ 4 \in 1 .. Len(p) /\ 5 \in 1 .. Len(p)
  BY <1>1, <1>3, <1>5
<1>7. DOMAIN q = 1 .. Len(p) /\ \A i \in 1 .. Len(p) : q[i] \in Nat
  <2>1. \A i \in 1 .. Len(p) : p[i] \in Nat
    BY <1>1
  <2>2. q = [i \in 1 .. Len(p) |-> IF i = 5 THEN c ELSE IF i = 4 THEN a ELSE p[i]]
    BY <1>4, <1>6
  <2>3. \A i \in 1 .. Len(p) : q[i] = c \/ q[i] = a \/ q[i] = p[i]
    BY <2>2
  <2> QED BY <1>2, <2>1, <2>2, <2>3
<1>8. q \in Seq(Nat) /\ Len(q) = Len(p)
  <2>1. q = [i \in 1 .. Len(p) |-> q[i]]
    BY <1>4, <1>7
  <2> QED BY <1>5, <1>7, <2>1
<1>9. \A i \in 1 .. Len(p) : i # 4 /\ i # 5 => q[i] = p[i]
  BY <1>4, <1>6
<1>10. q[4] = a /\ q[5] = c
  BY <1>4, <1>6
<1>11. 1 \in 1 .. Len(p) /\ 2 \in 1 .. Len(p)
  BY <1>3, <1>5
<1>12. ASSUME NEW j \in 1 .. Len(Body(frames)) PROVE q[HeaderSize + j] = p[HeaderSize + j]
  <2>1. HeaderSize + j \in 1 .. Len(p) /\ HeaderSize + j # 4 /\ HeaderSize + j # 5
    BY <1>3, <1>5
  <2> QED BY <1>9, <2>1
<1> QED BY <1>1, <1>2, <1>8, <1>9, <1>10, <1>11, <1>12 DEF q

(* Where frame n stands in the body.                                       *)
LEMMA FramePlaced ==
  ASSUME NEW frames \in Seq(WireFrame), NEW n \in 1 .. Len(frames)
  PROVE  LET at == Len(Body(First(frames, n - 1)))
             f == frames[n]
         IN /\ f \in WireFrame
            /\ at \in Nat /\ Len(f.data) \in Nat
            /\ Len(Body(First(frames, n))) = at + (FrameHeader + Len(f.data))
            /\ Len(Body(First(frames, n))) <= Len(Body(frames))
            /\ \A i \in 1 .. IdSize : Body(frames)[at + i] = IdBytes(f.id)[i]
            /\ Body(frames)[at + FrameHeader] = Len(f.data)
            /\ \A i \in 1 .. Len(f.data) : Body(frames)[at + (FrameHeader + i)] = f.data[i]
<1> DEFINE a == Body(First(frames, n - 1))
           b == Body(First(frames, n))
           c == Body(frames)
           f == frames[n]
           g == FrameBytes(f)
           d == f.data
           id == IdBytes(f.id)
           at == Len(a)
<1>1. a \in Seq(Byte) /\ b \in Seq(Byte) /\ f \in WireFrame /\ b = a \o g
  BY BodyGrows
<1>2. /\ g \in Seq(Byte) /\ Len(g) = FrameHeader + Len(d)
      /\ \A i \in 1 .. IdSize : g[i] = id[i]
      /\ g[FrameHeader] = Len(d)
      /\ \A i \in 1 .. Len(d) : g[FrameHeader + i] = d[i]
  BY <1>1, FrameBytesType
<1>3. Len(d) \in Nat
  BY <1>1, IdBytesType
<1>4. /\ Len(b) <= Len(c)
      /\ \A j \in 1 .. Len(b) : c[j] = b[j]
  <2>1. n \in 0 .. Len(frames)
    OBVIOUS
  <2> QED BY <2>1, BodyPrefix
<1>5. FrameHeader \in Nat /\ IdSize \in 1 .. FrameHeader /\ FrameHeader # 0
  BY DEF FrameHeader, IdSize
<1> HIDE DEF a, b, c, f, g, d, id
<1>6. at \in Nat
  BY <1>1
<1> HIDE DEF at
<1>7. /\ Len(b) = at + Len(g)
      /\ \A i \in 1 .. Len(g) : b[at + i] = g[i]
  BY <1>1, <1>2, ConcatAt DEF at
<1>8. ASSUME NEW i \in 1 .. Len(g) PROVE c[at + i] = g[i]
  <2>1. at + i \in 1 .. Len(b)
    BY <1>2, <1>3, <1>5, <1>6, <1>7
  <2> QED BY <1>4, <1>7, <2>1
<1>9. /\ \A i \in 1 .. IdSize : i \in 1 .. Len(g)
      /\ FrameHeader \in 1 .. Len(g)
      /\ \A i \in 1 .. Len(d) : FrameHeader + i \in 1 .. Len(g)
  BY <1>2, <1>3, <1>5
<1>10. /\ \A i \in 1 .. IdSize : c[at + i] = id[i]
       /\ c[at + FrameHeader] = Len(d)
       /\ \A i \in 1 .. Len(d) : c[at + (FrameHeader + i)] = d[i]
  BY <1>2, <1>8, <1>9
<1>11. Len(b) = at + (FrameHeader + Len(d))
  BY <1>2, <1>7
<1> QED BY <1>1, <1>3, <1>4, <1>6, <1>10, <1>11 DEF a, b, c, f, d, id, at

(* The parser reads the identifier that was written (cannelloni.py).       *)
LEMMA IdReadBack ==
  ASSUME NEW f \in WireFrame, NEW p, NEW at \in Nat,
         \A i \in 1 .. IdSize : p[at + i] = IdBytes(f.id)[i]
  PROVE  IdAt(p, at) = f.id
<1> DEFINE id == f.id
           a == 128 + (id \div 16777216)
           b == (id \div 65536) % 256
           c == (id \div 256) % 256
           e == id % 256
<1>1. id \in Nat /\ id < 536870912
  <2>1. f \in CanFrame /\ f.id < 536870912
    BY SMT DEF WireFrame
  <2> QED BY <2>1, SMT DEF CanFrame
<1>2. IdBytes(f.id) = <<a, b, c, e>>
  BY SMT DEF IdBytes
<1>3. 1 \in 1 .. IdSize /\ 2 \in 1 .. IdSize /\ 3 \in 1 .. IdSize /\ 4 \in 1 .. IdSize
  BY DEF IdSize
<1> HIDE DEF id
<1>4. (a % 32) * 16777216 + b * 65536 + c * 256 + e = id
  <2>1. id \div 16777216 \in 0 .. 31
    BY <1>1, SMTT(30)
  <2>2. a % 32 = id \div 16777216
    <3>1. \A k \in 0 .. 31 : (128 + k) % 32 = k
      BY SMT
    <3> QED BY ONLY <2>1, <3>1, SMT DEF a
  <2>3. id = (id \div 16777216) * 16777216 + b * 65536 + c * 256 + e
    BY <1>1, SMTT(30)
  <2> HIDE DEF a, b, c, e
  <2> QED BY <2>2, <2>3, SMT
<1> HIDE DEF a, b, c, e
<1>5. p[at + 1] = a /\ p[at + 2] = b /\ p[at + 3] = c /\ p[at + 4] = e
  <2>1. \A i \in 1 .. IdSize : p[at + i] = <<a, b, c, e>>[i]
    BY <1>2, Zenon
  <2>2. /\ <<a, b, c, e>>[1] = a /\ <<a, b, c, e>>[2] = b
        /\ <<a, b, c, e>>[3] = c /\ <<a, b, c, e>>[4] = e
    OBVIOUS
  <2> QED BY <1>3, <2>1, <2>2, Zenon
<1> QED BY <1>4, <1>5, SMT DEF IdAt, id

LEMMA WireFrameShape ==
  ASSUME NEW f \in WireFrame
  PROVE  f = [id |-> f.id, data |-> f.data]
<1>1. f \in CanFrame
  BY SMT DEF WireFrame
<1> QED BY <1>1, SMT DEF CanFrame

(* When a slice of a sequence is another sequence.                         *)
LEMMA SliceEquals ==
  ASSUME NEW S, NEW s \in Seq(S), NEW T, NEW t \in Seq(T), NEW at \in Nat,
         at + Len(t) <= Len(s), \A i \in 1 .. Len(t) : s[at + i] = t[i]
  PROVE  SubSeq(s, at + 1, at + Len(t)) = t
<1> DEFINE n == Len(t)
           u == SubSeq(s, at + 1, at + n)
<1>1. n \in Nat /\ Len(s) \in Nat
  OBVIOUS
<1> HIDE DEF n
<1>2. u \in Seq(S) /\ Len(u) = n /\ \A i \in 1 .. n : u[i] = s[at + i]
  BY <1>1 DEF n
<1> HIDE DEF u
<1>3. \A i \in 1 .. n : u[i] = t[i]
  BY <1>2 DEF n
<1>4. Len(t) = n
  BY DEF n
<1>5. u = t
  BY <1>2, <1>3, <1>4
<1> QED BY <1>5 DEF u, n

(* The first `bytes' bytes of a packet that claims `count' frames.         *)
Cut(frames, bytes, count) == SubSeq(Claiming(frames, count), 1, bytes)

(* The bytes that are left are those of the packet.                        *)
LEMMA CutShape ==
  ASSUME NEW frames \in Seq(WireFrame), NEW count \in Nat, NEW bytes \in 0 .. End(frames)
  PROVE  LET q == Cut(frames, bytes, count) IN
         /\ q \in Seq(Nat) /\ Len(q) = bytes
         /\ HeaderSize <= bytes =>
              q[1] = Version /\ q[2] = OpData /\ q[4] * 256 + q[5] = count
         /\ \A j \in 1 .. Len(Body(frames)) :
              HeaderSize + j <= bytes => q[HeaderSize + j] = Body(frames)[j]
<1> DEFINE p == Claiming(frames, count)
           q == Cut(frames, bytes, count)
           b == Body(frames)
           size == End(frames)
<1>1. /\ p \in Seq(Nat) /\ Len(p) = size
      /\ p[1] = Version /\ p[2] = OpData /\ p[4] * 256 + p[5] = count
      /\ \A j \in 1 .. Len(b) : p[HeaderSize + j] = b[j]
  BY ClaimingShape
<1>2. bytes \in 0 .. size /\ q = SubSeq(p, 1, bytes)
  BY DEF Cut
<1>3. Len(b) \in Nat /\ size = HeaderSize + Len(b)
  BY BodyType DEF End
<1>0. HeaderSize \in Nat
  BY DEF HeaderSize
<1> HIDE DEF p, q, b, size
<1>4. size \in Nat /\ bytes \in Nat
  BY <1>0, <1>2, <1>3
<1>5. q \in Seq(Nat) /\ Len(q) = bytes /\ \A i \in 1 .. bytes : q[i] = p[i]
  <2>1. p \in Seq(Nat) /\ bytes \in 0 .. Len(p)
    BY <1>1, <1>2
  <2>2. /\ SubSeq(p, 1, bytes) \in Seq(Nat) /\ Len(SubSeq(p, 1, bytes)) = bytes
        /\ \A i \in 1 .. bytes : SubSeq(p, 1, bytes)[i] = p[i]
    BY <2>1, <1>4
  <2> QED BY <1>2, <2>2
<1>6. ASSUME HeaderSize <= bytes
      PROVE  q[1] = Version /\ q[2] = OpData /\ q[4] * 256 + q[5] = count
  <2>1. 1 \in 1 .. bytes /\ 2 \in 1 .. bytes /\ 4 \in 1 .. bytes /\ 5 \in 1 .. bytes
    BY <1>4, <1>6 DEF HeaderSize
  <2>2. q[1] = p[1] /\ q[2] = p[2] /\ q[4] = p[4] /\ q[5] = p[5]
    BY <1>5, <2>1
  <2> QED BY <1>1, <2>2
<1>7. ASSUME NEW j \in 1 .. Len(b), HeaderSize + j <= bytes
      PROVE  q[HeaderSize + j] = b[j]
  <2>1. HeaderSize + j \in 1 .. bytes
    BY <1>0, <1>3, <1>4, <1>7
  <2> QED BY <1>1, <1>5, <2>1
<1> QED BY <1>5, <1>6, <1>7 DEF q, b

(* The parser finds frame n where frames 1 to n - 1 end, if the packet is  *)
(* not cut before the end of frame n.                                      *)
LEMMA FrameFound ==
  ASSUME NEW frames \in Seq(WireFrame), NEW count \in Nat, NEW bytes \in 0 .. End(frames),
         NEW n \in 1 .. Len(frames)
  PROVE  LET q == Cut(frames, bytes, count)
             at == End(First(frames, n - 1))
         IN /\ Fits(q, at) <=> End(First(frames, n)) <= bytes
            /\ Fits(q, at) => /\ FrameAt(q, at) = frames[n]
                              /\ Following(q, at) = End(First(frames, n))
<1> DEFINE q == Cut(frames, bytes, count)
           at == End(First(frames, n - 1))
           end == End(First(frames, n))
           k == Len(Body(First(frames, n - 1)))
           b == Body(frames)
           f == frames[n]
           d == f.data
           id == IdBytes(f.id)
<1>1. /\ f \in WireFrame /\ k \in Nat /\ Len(d) \in Nat
      /\ Len(Body(First(frames, n))) = k + (FrameHeader + Len(d))
      /\ Len(Body(First(frames, n))) <= Len(b)
      /\ \A i \in 1 .. IdSize : b[k + i] = id[i]
      /\ b[k + FrameHeader] = Len(d)
      /\ \A i \in 1 .. Len(d) : b[k + (FrameHeader + i)] = d[i]
  BY FramePlaced
<1>2. /\ Len(q) = bytes
      /\ \A j \in 1 .. Len(b) : HeaderSize + j <= bytes => q[HeaderSize + j] = b[j]
  BY CutShape
<1>3. at = HeaderSize + k /\ end = HeaderSize + (k + (FrameHeader + Len(d)))
  BY <1>1 DEF End
<1>4. bytes \in Nat /\ Len(b) \in Nat
  <2>1. HeaderSize \in Nat /\ Len(b) \in Nat
    BY BodyType DEF HeaderSize
  <2> HIDE DEF b
  <2> QED BY <2>1
<1>5. HeaderSize \in Nat /\ FrameHeader \in Nat /\ IdSize \in 1 .. FrameHeader
  BY DEF HeaderSize, FrameHeader, IdSize
<1>6. d \in Seq(Byte) /\ f = [id |-> f.id, data |-> d]
  <2>1. f \in WireFrame
    BY <1>1
  <2> QED BY <2>1, IdBytesType, WireFrameShape
<1> DEFINE fid == f.id
           m == Len(d)
           total == Len(b)
<1>12. /\ k \in Nat /\ m \in Nat /\ total \in Nat /\ bytes \in Nat
       /\ k + (FrameHeader + m) <= total
       /\ at = HeaderSize + k /\ end = HeaderSize + (k + (FrameHeader + m))
  BY <1>1, <1>3, <1>4
<1>7. \A i \in 1 .. FrameHeader : at + i <= bytes => q[at + i] = b[k + i]
  <2> SUFFICES ASSUME NEW i \in 1 .. FrameHeader, at + i <= bytes PROVE q[at + i] = b[k + i]
    OBVIOUS
  <2>1. k + i \in 1 .. total /\ at + i = HeaderSize + (k + i)
    <3> HIDE DEF k, m, total, at, end
    <3> QED BY <1>5, <1>12
  <2> QED BY <1>2, <2>1
<1>8. ASSUME at + FrameHeader <= bytes
      PROVE  /\ q[at + FrameHeader] = Len(d)
             /\ FrameEnd(q, at) = end
  <2>1. FrameHeader \in 1 .. FrameHeader
    BY <1>5
  <2>2. q[at + FrameHeader] = Len(d)
    BY <1>1, <1>7, <1>8, <2>1
  <2> HIDE DEF at, end, q, d, k
  <2>3. at + FrameHeader + Len(d) = end
    BY <1>1, <1>3, <1>5
  <2> QED BY <2>2, <2>3 DEF FrameEnd
<1>9. at \in Nat /\ end \in Nat /\ at + FrameHeader <= end
  <2> HIDE DEF k, m, total, at, end
  <2> QED BY <1>5, <1>12
<1>10. Fits(q, at) <=> end <= bytes
  <2> HIDE DEF q, at, end
  <2> QED BY <1>2, <1>4, <1>5, <1>8, <1>9 DEF Fits
<1>11. ASSUME end <= bytes PROVE FrameAt(q, at) = f /\ Following(q, at) = end
  <2>1. at + FrameHeader <= bytes
    BY <1>4, <1>5, <1>9, <1>11
  <2>2. FrameEnd(q, at) = end
    BY <1>8, <2>1
  <2>3. \A i \in 1 .. IdSize : q[at + i] = id[i]
    <3> SUFFICES ASSUME NEW i \in 1 .. IdSize PROVE q[at + i] = id[i]
      OBVIOUS
    <3>1. i \in 1 .. FrameHeader /\ at + i <= bytes
      BY <1>4, <1>5, <1>9, <2>1
    <3> QED BY <1>1, <1>7, <3>1
  <2>4. IdAt(q, at) = fid
    BY <1>1, <1>9, <2>3, IdReadBack
  <2>5. \A i \in 1 .. Len(d) : q[at + FrameHeader + i] = d[i]
    <3> SUFFICES ASSUME NEW i \in 1 .. Len(d) PROVE q[at + FrameHeader + i] = d[i]
      OBVIOUS
    <3>1. k + (FrameHeader + i) \in 1 .. total /\ HeaderSize + (k + (FrameHeader + i)) <= bytes
      <4>1. i \in 1 .. m
        OBVIOUS
      <4> HIDE DEF k, m, total, at, end
      <4> QED BY <1>5, <1>11, <1>12, <4>1
    <3>2. at + FrameHeader + i = HeaderSize + (k + (FrameHeader + i))
      BY <1>1, <1>3, <1>5
    <3> HIDE DEF b, k, d, at
    <3> QED BY <1>1, <1>2, <3>1, <3>2
  <2>6. SubSeq(q, at + FrameHeader + 1, end) = d
    <3>1. end = (at + FrameHeader) + Len(d) /\ at + FrameHeader \in Nat
      <4> HIDE DEF at, end, d, k
      <4> QED BY <1>1, <1>3, <1>5, <1>9
    <3> DEFINE g == at + FrameHeader
    <3>2. /\ g \in Nat /\ end = g + Len(d) /\ g + Len(d) <= Len(q)
          /\ \A i \in 1 .. Len(d) : q[g + i] = d[i]
      BY <1>2, <1>11, <2>5, <3>1
    <3>3. q \in Seq(Nat)
      BY CutShape
    <3> HIDE DEF d, q, g, end
    <3>4. SubSeq(q, g + 1, g + Len(d)) = d
      BY <1>6, <3>2, <3>3, SliceEquals
    <3> QED BY <3>2, <3>4 DEF g
  <2> HIDE DEF f, d, fid, q, at, end
  <2>7. FrameAt(q, at) = [id |-> fid, data |-> d]
    BY <2>2, <2>4, <2>6 DEF FrameAt
  <2>8. Following(q, at) = end
    BY <1>10, <1>11, <2>2 DEF Following
  <2> QED BY <1>6, <2>7, <2>8 DEF fid
<1> QED BY <1>10, <1>11

(* The offsets of the parser are what their recursion says.                *)
LEMMA OffsetsDefined ==
  ASSUME NEW p, NEW count \in Nat
  PROVE  Offsets(p, count) =
           [i \in 0 .. count |->
              IF i = 0 THEN HeaderSize ELSE Following(p, Offsets(p, count)[i - 1])]
<1> DEFINE Good(k) ==
             \E g : g = [i \in 0 .. k |-> IF i = 0 THEN HeaderSize ELSE Following(p, g[i - 1])]
           bad == {k \in Nat : ~Good(k)}
<1>1. ASSUME NEW k \in Nat, Good(k) PROVE Good(k + 1)
  <2> PICK g : g = [i \in 0 .. k |-> IF i = 0 THEN HeaderSize ELSE Following(p, g[i - 1])]
    BY <1>1
  <2> DEFINE h == [i \in 0 .. k + 1 |-> IF i = 0 THEN HeaderSize ELSE Following(p, g[i - 1])]
  <2>1. ASSUME NEW i \in 0 .. k + 1, i # 0 PROVE h[i - 1] = g[i - 1]
    <3>1. i - 1 \in 0 .. k /\ i - 1 \in 0 .. k + 1
      BY <2>1
    <3> QED BY <3>1
  <2>2. h = [i \in 0 .. k + 1 |-> IF i = 0 THEN HeaderSize ELSE Following(p, h[i - 1])]
    BY <2>1
  <2> HIDE DEF h
  <2> QED BY <2>2
<1>2. Good(0)
  <2> DEFINE g == [i \in 0 .. 0 |-> HeaderSize]
  <2>1. g = [i \in 0 .. 0 |-> IF i = 0 THEN HeaderSize ELSE Following(p, g[i - 1])]
    OBVIOUS
  <2> HIDE DEF g
  <2> QED BY <2>1
<1>3. bad = {}
  <2> SUFFICES ASSUME bad # {} PROVE FALSE
    OBVIOUS
  <2>1. PICK k \in bad : \A x \in bad : k <= x
    <3>1. \A x \in bad : x \in Nat
      OBVIOUS
    <3> HIDE DEF bad
    <3> QED BY <3>1, LeastNumber
  <2>2. k \in Nat /\ ~Good(k)
    OBVIOUS
  <2> HIDE DEF Good
  <2>3. k # 0
    BY <1>2, <2>2
  <2>4. k - 1 \in Nat /\ ~(k <= k - 1) /\ (k - 1) + 1 = k
    BY <2>2, <2>3
  <2>5. Good(k - 1)
    BY <2>1, <2>4
  <2> QED BY <1>1, <2>2, <2>4, <2>5
<1>4. Good(count)
  BY <1>3
<1> QED BY <1>4 DEF Offsets

LEMMA OffsetAt ==
  ASSUME NEW p, NEW count \in Nat
  PROVE  /\ Offsets(p, count)[0] = HeaderSize
         /\ \A i \in 1 .. count : Offsets(p, count)[i] = Following(p, Offsets(p, count)[i - 1])
<1> DEFINE o == Offsets(p, count)
<1>1. o = [i \in 0 .. count |-> IF i = 0 THEN HeaderSize ELSE Following(p, o[i - 1])]
  BY OffsetsDefined
<1> HIDE DEF o
<1>2. 0 \in 0 .. count /\ \A i \in 1 .. count : i \in 0 .. count /\ i # 0
  OBVIOUS
<1>3. o[0] = HeaderSize
  BY <1>1, <1>2
<1>4. \A i \in 1 .. count : o[i] = Following(p, o[i - 1])
  BY <1>1, <1>2
<1> QED BY <1>3, <1>4 DEF o

(* Each frame ends after those before it.                                  *)
LEMMA EndGrows ==
  ASSUME NEW frames \in Seq(WireFrame)
  PROVE  /\ End(First(frames, 0)) = HeaderSize
         /\ \A n \in 0 .. Len(frames) :
              /\ End(First(frames, n)) \in Nat
              /\ End(First(frames, n)) <= End(frames)
         /\ \A n \in 1 .. Len(frames) :
              End(First(frames, n - 1)) + FrameHeader <= End(First(frames, n))
<1> DEFINE B(n) == Len(Body(First(frames, n)))
<1>1. FrameHeader \in Nat /\ HeaderSize \in Nat
  BY DEF FrameHeader, HeaderSize
<1>2. B(0) = 0
  <2>1. First(frames, 0) = <<>>
    BY FirstProperties
  <2>2. Body(<<>>) = <<>>
    <3>1. Wire(<<>>) = <<>>
      BY DEF Wire
    <3>2. FlattenSeq(<<>>) = <<>>
      BY DEF FlattenSeq
    <3> QED BY <3>1, <3>2 DEF Body
  <2> QED BY <2>1, <2>2
<1>3. ASSUME NEW n \in 0 .. Len(frames) PROVE B(n) \in Nat /\ B(n) <= Len(Body(frames))
  <2>1. Body(First(frames, n)) \in Seq(Byte) /\ B(n) <= Len(Body(frames))
    BY BodyPrefix
  <2> QED BY <2>1
<1>4. ASSUME NEW n \in 1 .. Len(frames) PROVE B(n - 1) + FrameHeader <= B(n)
  <2> DEFINE m == Len(frames[n].data)
  <2>1. B(n - 1) \in Nat /\ m \in Nat /\ B(n) = B(n - 1) + (FrameHeader + m)
    BY FramePlaced
  <2> HIDE DEF B, m
  <2> QED BY <1>1, <2>1
<1>5. Len(Body(frames)) \in Nat
  BY BodyType
<1>6. \A n : End(First(frames, n)) = HeaderSize + B(n)
  BY DEF End
<1>7. End(frames) = HeaderSize + Len(Body(frames))
  BY DEF End
<1>8. \A n \in 1 .. Len(frames) : B(n) \in Nat /\ B(n - 1) \in Nat
  <2> SUFFICES ASSUME NEW n \in 1 .. Len(frames) PROVE B(n) \in Nat /\ B(n - 1) \in Nat
    OBVIOUS
  <2>1. n \in 0 .. Len(frames) /\ n - 1 \in 0 .. Len(frames)
    OBVIOUS
  <2> QED BY <1>3, <2>1
<1> DEFINE total == Len(Body(frames))
<1> HIDE DEF B, total
<1>9. ASSUME NEW n \in 0 .. Len(frames)
      PROVE  End(First(frames, n)) \in Nat /\ End(First(frames, n)) <= End(frames)
  BY <1>1, <1>3, <1>5, <1>6, <1>7 DEF total
<1>10. ASSUME NEW n \in 1 .. Len(frames)
       PROVE  End(First(frames, n - 1)) + FrameHeader <= End(First(frames, n))
  BY <1>1, <1>4, <1>6, <1>8
<1> QED BY <1>1, <1>2, <1>6, <1>9, <1>10

(* More frames take no less room.                                          *)
LEMMA EndMonotone ==
  ASSUME NEW frames \in Seq(WireFrame), NEW n \in 0 .. Len(frames), NEW k \in 0 .. n
  PROVE  End(First(frames, k)) <= End(First(frames, n))
<1> DEFINE some == First(frames, n)
<1>1. some \in Seq(WireFrame)
  BY FirstProperties
<1>2. Len(some) = n /\ First(some, k) = First(frames, k) /\ k \in 0 .. Len(some)
  BY <1>1 DEF First
<1> HIDE DEF some
<1>3. End(First(some, k)) <= End(some)
  BY <1>1, <1>2, EndGrows
<1> QED BY <1>2, <1>3 DEF some

(* How many frames lie within the bytes and the count: the first m.        *)
LEMMA WholeFirst ==
  ASSUME NEW frames \in Seq(WireFrame), NEW count \in Nat, NEW bytes \in Nat
  PROVE  \E m \in 0 .. Len(frames) :
           /\ Whole(frames, bytes, count) = First(frames, m)
           /\ \A n \in 1 .. Len(frames) :
                n <= m <=> n <= count /\ End(First(frames, n)) <= bytes
<1> DEFINE N == Len(frames)
           Lies(n) == n <= count /\ End(First(frames, n)) <= bytes
           within == {n \in 1 .. N : Lies(n)}
           outside == {n \in 1 .. N + 1 : n = N + 1 \/ ~Lies(n)}
<1>1. N \in Nat
  OBVIOUS
<1>2. ASSUME NEW n \in 1 .. N, NEW k \in 1 .. n, Lies(n) PROVE Lies(k)
  <2>1. n \in 0 .. N /\ k \in 0 .. n /\ k \in 0 .. N /\ n \in Nat /\ k \in Nat /\ k <= n
    BY <1>1
  <2>2. End(First(frames, k)) <= End(First(frames, n))
    BY <2>1, EndMonotone
  <2>3. End(First(frames, k)) \in Nat /\ End(First(frames, n)) \in Nat
    BY <2>1, EndGrows
  <2> QED BY <1>2, <2>1, <2>2, <2>3
<1>3. PICK l \in outside : \A x \in outside : l <= x
  <2>1. outside # {} /\ \A x \in outside : x \in Nat
    BY <1>1
  <2> HIDE DEF outside
  <2> QED BY <2>1, LeastNumber
<1> DEFINE m == l - 1
<1>4. l \in 1 .. N + 1 /\ (l = N + 1 \/ ~Lies(l))
  OBVIOUS
<1>5. m \in 0 .. N /\ m \in Nat /\ l = m + 1
  BY <1>1, <1>4
<1>6. ASSUME NEW n \in 1 .. N PROVE n <= m <=> Lies(n)
  <2>1. CASE n <= m
    <3>1. n \in 1 .. N + 1 /\ n # N + 1 /\ ~(l <= n)
      BY <1>1, <1>5, <2>1
    <3>2. n \notin outside
      BY <1>3, <3>1
    <3> HIDE DEF Lies
    <3>3. Lies(n)
      BY <3>1, <3>2
    <3> QED BY <2>1, <3>3
  <2>2. CASE ~(n <= m)
    <3>1. l \in 1 .. n /\ l # N + 1
      BY <1>1, <1>4, <1>5, <2>2
    <3>2. ~Lies(l)
      BY <1>4, <3>1
    <3>3. ~Lies(n)
      BY <1>2, <3>1, <3>2
    <3> QED BY <2>2, <3>3
  <2> QED BY <2>1, <2>2
<1> HIDE DEF m, Lies, N
<1>7. within = 1 .. m
  <2>1. \A n : n \in within <=> n \in 1 .. m
    BY <1>1, <1>5, <1>6
  <2> HIDE DEF within
  <2> QED BY <2>1
<1>8. Cardinality(within) = m
  <2>1. Cardinality(1 .. m) = IF 1 > m THEN 0 ELSE m - 1 + 1
    BY <1>5, FS_Interval
  <2>2. (IF 1 > m THEN 0 ELSE m - 1 + 1) = m
    BY <1>5
  <2>3. Cardinality(1 .. m) = m
    BY <2>1, <2>2
  <2> HIDE DEF within
  <2> QED BY <1>7, <2>3
<1>9. Whole(frames, bytes, count) = First(frames, m)
  <2> DEFINE lie == {n \in 1 .. Len(frames) :
                       n <= count /\ Len(BuildPacket(0, SubSeq(frames, 1, n))) <= bytes}
  <2>1. ASSUME NEW n \in 1 .. N
        PROVE  Len(BuildPacket(0, SubSeq(frames, 1, n))) = End(First(frames, n))
    <3>1. n \in 0 .. Len(frames)
      BY DEF N
    <3>2. First(frames, n) \in Seq(WireFrame)
      BY <3>1, FirstProperties
    <3>3. Len(BuildPacket(0, First(frames, n))) = End(First(frames, n))
      BY <3>2, PacketShape
    <3> QED BY <3>3 DEF First
  <2>2. lie = within
    BY <2>1 DEF N, Lies
  <2>3. Whole(frames, bytes, count) = SubSeq(frames, 1, Cardinality(lie))
    BY DEF Whole
  <2> HIDE DEF lie, within
  <2> QED BY <1>8, <2>2, <2>3 DEF First
<1> QED BY <1>5, <1>6, <1>9 DEF Lies, N

(* The parser returns the frames that lie within the bytes and the count,  *)
(* as they were put in, and nothing else.                                  *)
LEMMA ParseCut ==
  ASSUME NEW frames \in Seq(WireFrame), NEW count \in Nat, NEW bytes \in 0 .. End(frames)
  PROVE  ParsePacket(Cut(frames, bytes, count)) = Whole(frames, bytes, count)
<1> DEFINE q == Cut(frames, bytes, count)
           N == Len(frames)
           E(n) == End(First(frames, n))
           o == Offsets(q, count)
<1>1. N \in Nat /\ HeaderSize \in Nat /\ FrameHeader \in Nat \ {0}
  BY DEF HeaderSize, FrameHeader
<1>2. E(0) = HeaderSize /\ End(frames) \in Nat /\ bytes \in Nat /\ E(N) = End(frames)
  <2>1. Len(Body(frames)) \in Nat
    BY BodyType
  <2>2. End(frames) \in Nat
    BY <1>1, <2>1 DEF End
  <2>3. First(frames, N) = frames
    BY FirstProperties
  <2> QED BY <2>2, <2>3, EndGrows
<1>3. PICK m \in 0 .. N :
         /\ Whole(frames, bytes, count) = First(frames, m)
         /\ \A n \in 1 .. N : n <= m <=> n <= count /\ E(n) <= bytes
  BY <1>2, WholeFirst
<1>4. /\ Len(q) = bytes
      /\ HeaderSize <= bytes =>
           q[1] = Version /\ q[2] = OpData /\ q[4] * 256 + q[5] = count
  BY CutShape
<1>5. \A n \in 1 .. N : E(n) \in Nat /\ E(n - 1) \in Nat /\ E(n - 1) + FrameHeader <= E(n)
  <2> SUFFICES ASSUME NEW n \in 1 .. N
               PROVE  E(n) \in Nat /\ E(n - 1) \in Nat /\ E(n - 1) + FrameHeader <= E(n)
    OBVIOUS
  <2>1. n \in 0 .. N /\ n - 1 \in 0 .. N
    OBVIOUS
  <2> QED BY <2>1, EndGrows
<1>6. CASE bytes < HeaderSize
  <2>1. ParsePacket(q) = <<>>
    BY <1>4, <1>6 DEF ParsePacket
  <2>2. m = 0
    <3> SUFFICES ASSUME m # 0 PROVE FALSE
      OBVIOUS
    <3>1. m \in 1 .. N /\ m <= m
      BY <1>1
    <3>2. E(m) <= bytes
      BY <1>3, <3>1
    <3>3. m \in 0 .. N /\ 0 \in 0 .. m
      BY <1>1
    <3>4. E(0) <= E(m) /\ E(m) \in Nat
      BY <3>1, <3>3, <1>5, EndMonotone
    <3> HIDE DEF E
    <3> QED BY <1>1, <1>2, <1>6, <3>2, <3>4
  <2>3. First(frames, 0) = <<>>
    BY FirstProperties
  <2> QED BY <1>3, <2>1, <2>2, <2>3
<1>7. CASE ~(bytes < HeaderSize)
  <2>1. HeaderSize <= bytes
    BY <1>1, <1>2, <1>7
  <2> DEFINE whole == {i \in 1 .. count : Fits(q, o[i - 1])}
  <2>2. ParsePacket(q) = [i \in whole |-> FrameAt(q, o[i - 1])]
    BY <1>4, <1>7, <2>1 DEF ParsePacket
  <2>3. \A n \in 1 .. N :
           /\ Fits(q, E(n - 1)) <=> E(n) <= bytes
           /\ Fits(q, E(n - 1)) => /\ FrameAt(q, E(n - 1)) = frames[n]
                                   /\ Following(q, E(n - 1)) = E(n)
    BY FrameFound
  <2>4. o[0] = HeaderSize /\ \A i \in 1 .. count : o[i] = Following(q, o[i - 1])
    BY OffsetAt
  <2>5. \A at \in Nat : bytes <= at => ~Fits(q, at)
    BY <1>1, <1>2, <1>4 DEF Fits
  <2>6. \A at : ~Fits(q, at) => Following(q, at) = bytes
    BY <1>4 DEF Following
  <2> DEFINE M == m
  <2>7. M \in 0 .. N /\ M \in Nat /\ M <= count
    <3>1. CASE m = 0
      BY <3>1
    <3>2. CASE m # 0
      <4>1. m \in 1 .. N /\ m <= m
        BY <1>1, <3>2
      <4> QED BY <1>3, <4>1
    <3> QED BY <3>1, <3>2
  <2>8. \A n \in 1 .. N : n <= M <=> n <= count /\ E(n) <= bytes
    BY <1>3
  <2> HIDE DEF q, E, o, N, M
  (* Up to frame m the offsets are where the frames stand.                 *)
  <2>9. \A i \in 0 .. M : o[i] = E(i)
    <3> DEFINE bad == {i \in 0 .. M : o[i] # E(i)}
    <3> SUFFICES ASSUME bad # {} PROVE FALSE
      OBVIOUS
    <3>1. PICK i \in bad : \A x \in bad : i <= x
      <4>1. \A x \in bad : x \in Nat
        BY <2>7
      <4> HIDE DEF bad
      <4> QED BY <4>1, LeastNumber
    <3>2. i \in 0 .. M /\ o[i] # E(i) /\ i # 0
      BY <1>2, <2>4
    <3>3. i \in 1 .. N /\ i \in 1 .. count /\ i <= M /\ i - 1 \in 0 .. M /\ ~(i <= i - 1)
      BY <1>1, <2>7, <3>2
    <3>4. o[i - 1] = E(i - 1)
      BY <3>1, <3>3
    <3>5. Fits(q, E(i - 1))
      BY <2>3, <2>8, <3>3
    <3>6. Following(q, E(i - 1)) = E(i)
      BY <2>3, <3>3, <3>5
    <3>7. o[i] = Following(q, o[i - 1])
      BY <2>4, <3>3
    <3> QED BY <3>2, <3>4, <3>6, <3>7
  <2>10. ASSUME NEW i \in 1 .. M
         PROVE  Fits(q, o[i - 1]) /\ FrameAt(q, o[i - 1]) = frames[i]
    <3>1. i \in 1 .. N /\ i \in 1 .. count /\ i <= M /\ i - 1 \in 0 .. M
      BY <1>1, <2>7
    <3>2. o[i - 1] = E(i - 1)
      BY <2>9, <3>1
    <3>3. Fits(q, E(i - 1))
      BY <2>3, <2>8, <3>1
    <3> QED BY <2>3, <3>1, <3>2, <3>3
  (* After it none is whole: the parser stands at the end.                 *)
  <2>11. ASSUME M < count PROVE ~Fits(q, o[M])
    <3>1. o[M] = E(M)
      BY <2>7, <2>9
    <3>2. CASE M = N
      <4>1. E(M) = End(frames) /\ bytes <= End(frames)
        BY <1>2, <3>2
      <4> QED BY <1>2, <2>5, <3>1, <4>1
    <3>3. CASE M # N
      <4>1. M + 1 \in 1 .. N /\ ~(M + 1 <= M) /\ M + 1 <= count /\ (M + 1) - 1 = M
        BY <1>1, <2>7, <2>11, <3>3
      <4>2. ~(E(M + 1) <= bytes)
        BY <2>8, <4>1
      <4>3. ~Fits(q, E(M))
        BY <2>3, <4>1, <4>2
      <4> QED BY <3>1, <4>3
    <3> QED BY <3>2, <3>3
  <2>12. \A i \in M + 1 .. count : ~Fits(q, o[i - 1])
    <3> DEFINE bad == {i \in M + 1 .. count : Fits(q, o[i - 1])}
    <3> SUFFICES ASSUME bad # {} PROVE FALSE
      OBVIOUS
    <3>1. PICK i \in bad : \A x \in bad : i <= x
      <4>1. \A x \in bad : x \in Nat
        BY <2>7
      <4> HIDE DEF bad
      <4> QED BY <4>1, LeastNumber
    <3>2. i \in M + 1 .. count /\ Fits(q, o[i - 1])
      OBVIOUS
    <3>3. i # M + 1
      <4>1. i = M + 1 => M < count /\ i - 1 = M
        BY <2>7, <3>2
      <4> QED BY <2>11, <3>2, <4>1
    <3>4. i - 1 \in M + 1 .. count /\ i - 1 \in 1 .. count /\ ~(i <= i - 1)
      BY <2>7, <3>2, <3>3
    <3> DEFINE j == i - 1
    <3>5. j \in M + 1 .. count /\ j \in 1 .. count /\ j \notin bad
      BY <3>1, <3>4
    <3> HIDE DEF j
    <3>6. ~Fits(q, o[j - 1])
      BY <3>5
    <3>7. o[j] = bytes
      BY <2>4, <2>6, <3>5, <3>6
    <3>8. ~Fits(q, o[j])
      BY <1>2, <2>5, <3>7
    <3> QED BY <3>2, <3>8 DEF j
  <2>13. whole = 1 .. M
    <3>1. \A i : i \in whole <=> i \in 1 .. M
      <4>1. ASSUME NEW i \in 1 .. M PROVE i \in whole
        <5>1. i \in 1 .. count
          BY <2>7
        <5> QED BY <2>10, <5>1
      <4>2. ASSUME NEW i \in whole, i \notin 1 .. M PROVE FALSE
        <5>1. i \in M + 1 .. count
          BY <2>7, <4>2
        <5> QED BY <2>12, <4>2, <5>1
      <4> QED BY <4>1, <4>2
    <3> HIDE DEF whole
    <3> QED BY <3>1
  <2>14. First(frames, M) = [i \in 1 .. M |-> frames[i]]
    <3>1. frames \in Seq(WireFrame) /\ M \in 0 .. Len(frames)
      BY <2>7 DEF N
    <3> QED BY <2>7, <3>1 DEF First
  <2> HIDE DEF whole
  <2>15. ParsePacket(q) = [i \in 1 .. M |-> FrameAt(q, o[i - 1])]
    BY <2>2, <2>13
  <2>16. ParsePacket(q) = First(frames, M)
    BY <2>10, <2>14, <2>15
  <2> QED BY <1>3, <2>16 DEF q, M
<1> QED BY <1>6, <1>7

-----------------------------------------------------------------------------
(* ------------------------ The frames of a packet ----------------------- *)

(* The frames that the packets carry.                                      *)
Carried == UNION {{frames[i] : i \in DOMAIN frames} : frames \in Packets}

(* Every frame of a packet can go where the node sends it.                 *)
LEMMA CarriedType ==
  /\ \A frames \in Packets : frames \in Seq(WireFrame) /\ frames \in Seq(Carried)
  /\ \A f \in Carried :
       /\ f \in WireFrame
       /\ ForUs(f) /\ f.data # <<>> => SessionKey(f) \in Key /\ Front(f.data) \in Chunk
       /\ ~IsService(f.id) => AllocationRequest(f).chunk \in Seq(Piece)
<1>1. ASSUME NEW frames \in Packets
      PROVE  /\ frames \in Seq(WireFrame)
             /\ frames \in Seq(Carried)
  <2>1. frames \in Seq(WireFrame)
    BY PacketsAssumption
  <2>2. \A i \in DOMAIN frames : frames[i] \in Carried
    BY DEF Carried
  <2> QED BY <2>1, <2>2
<1>2. ASSUME NEW f \in Carried
      PROVE  /\ f \in WireFrame
             /\ ForUs(f) /\ f.data # <<>> => SessionKey(f) \in Key /\ Front(f.data) \in Chunk
             /\ ~IsService(f.id) => AllocationRequest(f).chunk \in Seq(Piece)
  <2>1. PICK frames \in Packets : \E i \in DOMAIN frames : f = frames[i]
    BY DEF Carried
  <2>2. PICK i \in DOMAIN frames : f = frames[i]
    BY <2>1, Zenon
  <2>3. f \in WireFrame
    BY <1>1, <2>2
  <2>4. /\ ForUs(f) /\ f.data # <<>> => SessionKey(f) \in Key /\ Front(f.data) \in Chunk
        /\ ~IsService(f.id) => AllocationRequest(f).chunk \in Seq(Piece)
    BY <2>2, ContentsAssumption, Zenon
  <2> QED BY <2>3, <2>4, Zenon
<1> QED BY <1>1, <1>2, Zenon

LEMMA WholeCarried ==
  ASSUME NEW frames \in Packets, NEW count \in Nat, NEW bytes \in Nat
  PROVE  Whole(frames, bytes, count) \in Seq(Carried)
<1>1. frames \in Seq(WireFrame) /\ frames \in Seq(Carried)
  BY CarriedType, Zenon
<1>2. PICK m \in 0 .. Len(frames) : Whole(frames, bytes, count) = First(frames, m)
  BY <1>1, WholeFirst, Zenon
<1>3. First(frames, m) \in Seq(Carried)
  BY <1>1 DEF First
<1> QED BY <1>2, <1>3

FramesInv ==
  /\ parsed_frames \in Seq(Carried) /\ handled \in Seq(Carried) /\ arrived \in Seq(Carried)
  /\ CutPacketsKeepPrefix

LEMMA PassOne ==
  ASSUME NEW S, NEW s \in Seq(S), NEW t \in Seq(S), t # <<>>
  PROVE  /\ Head(t) \in S /\ Tail(t) \in Seq(S) /\ Append(s, Head(t)) \in Seq(S)
         /\ Append(s, Head(t)) \o Tail(t) = s \o t
OBVIOUS

(* A packet that arrives leaves the frames that arrived whole.             *)
LEMMA ArriveParses ==
  ASSUME NEW frames \in Packets, NEW count \in Nat,
         NEW bytes \in 0 .. Len(BuildPacket(0, frames)), Arrive(frames, bytes, count)
  PROVE  /\ parsed_frames = <<>> /\ resp_frames = <<>>
         /\ parsed_frames' = Whole(frames, bytes, count)
         /\ Whole(frames, bytes, count) \in Seq(Carried)
         /\ arrived' = arrived \o Whole(frames, bytes, count)
         /\ UNCHANGED <<reassemblerVars, now, allocatorVars, resp_frames, handled, answers>>
<1>1. frames \in Seq(WireFrame)
  BY CarriedType, Zenon
<1>2. Len(BuildPacket(0, frames)) = End(frames) /\ End(frames) \in Nat
  <2>1. Len(Body(frames)) \in Nat /\ HeaderSize \in Nat
    BY <1>1, BodyType DEF HeaderSize
  <2>2. End(frames) \in Nat
    BY <2>1 DEF End
  <2>3. Len(BuildPacket(0, frames)) = End(frames)
    BY <1>1, PacketShape
  <2> QED BY <2>2, <2>3
<1>3. bytes \in 0 .. End(frames) /\ bytes \in Nat
  BY <1>2
<1>4. ParsePacket(SubSeq(Claiming(frames, count), 1, bytes)) = Whole(frames, bytes, count)
  BY <1>1, <1>3, ParseCut DEF Cut
<1>5. Whole(frames, bytes, count) \in Seq(Carried)
  BY <1>3, WholeCarried
<1>6. /\ Ready /\ parsed_frames' = ParsePacket(SubSeq(Claiming(frames, count), 1, bytes))
      /\ arrived' = arrived \o Whole(frames, bytes, count)
      /\ UNCHANGED <<reassemblerVars, now, allocatorVars, resp_frames, handled, answers>>
  BY DEF Arrive, DatagramReceived
<1> QED BY <1>4, <1>5, <1>6, Zenon DEF Ready

LEMMA FramesStep == FramesInv /\ [CNext]_cvars => FramesInv'
<1> SUFFICES ASSUME FramesInv, [CNext]_cvars PROVE FramesInv'
  OBVIOUS
<1> USE DEF FramesInv, CutPacketsKeepPrefix
<1>1. ASSUME UNCHANGED <<parsed_frames, handled, arrived>> PROVE FramesInv'
  BY <1>1
<1>2. ASSUME NEW frames \in Packets, NEW bytes \in 0 .. Len(BuildPacket(0, frames)),
             NEW count \in 0 .. Len(frames) + 1, Arrive(frames, bytes, count)
      PROVE  FramesInv'
  <2>1. count \in Nat
    <3>1. Len(frames) \in Nat
      BY CarriedType
    <3> QED BY <3>1
  <2> DEFINE w == Whole(frames, bytes, count)
  <2>2. /\ parsed_frames = <<>> /\ parsed_frames' = w /\ arrived' = arrived \o w
        /\ w \in Seq(Carried) /\ handled' = handled
    BY <1>2, <2>1, ArriveParses
  <2> HIDE DEF w
  <2>3. handled = arrived
    BY <2>2
  <2> QED BY <2>2, <2>3
<1>3. CASE Handle
  <2>1. /\ parsed_frames # <<>> /\ parsed_frames' = Tail(parsed_frames)
        /\ handled' = Append(handled, Head(parsed_frames)) /\ arrived' = arrived
    BY <1>3 DEF Handle, HandleFrame, IgnoreService, ServiceRequest, Message, Done
  <2>2. /\ Tail(parsed_frames) \in Seq(Carried)
        /\ Append(handled, Head(parsed_frames)) \in Seq(Carried)
        /\ Append(handled, Head(parsed_frames)) \o Tail(parsed_frames) = handled \o parsed_frames
    BY <2>1, PassOne
  <2> QED BY <2>1, <2>2
<1>4. CASE Send
  BY <1>1, <1>4 DEF Send, Reply
<1>5. CASE Advance /\ UNCHANGED <<arrived, handled, answers>>
  BY <1>1, <1>5 DEF Advance
<1>6. CASE UNCHANGED cvars
  BY <1>1, <1>6 DEF cvars, nvars
<1> QED BY <1>2, <1>3, <1>4, <1>5, <1>6 DEF CNext

(* However a packet is cut and whatever count it claims, the frames that   *)
(* arrived whole are handled, once and in order, and no other              *)
(* (cannelloni.py:28-47).                                                  *)
THEOREM CutPacketsHandled == CSpec => []CutPacketsKeepPrefix
<1>1. CInit => FramesInv
  <2>1. <<>> \in Seq(Carried) /\ <<>> \o <<>> = <<>>
    OBVIOUS
  <2> QED BY <2>1 DEF CInit, Init, FramesInv, CutPacketsKeepPrefix
<1>2. FramesInv => CutPacketsKeepPrefix
  BY DEF FramesInv
<1> QED BY <1>1, <1>2, FramesStep, PTL DEF CSpec

-----------------------------------------------------------------------------
(* ----------------------- Reassembler and allocator --------------------- *)

(* What is proved of the two holds of the ones in the node: their          *)
(* assumptions follow from the node's, and their definitions are the same. *)
R == INSTANCE ReassemblyProofs WITH MaxFrames <- 0

A == INSTANCE AllocatorProofs

LEMMA ReassemblerAssumed ==
  /\ Registered \subseteq Key /\ SessionTimeout \in Nat /\ MaxTime \in Nat
  /\ NoSession \notin R!Session /\ None \notin R!Output
  /\ 0 \in Nat /\ 1 .. 0 \subseteq Chunk
BY NodeAssumption DEF Registered, R!Session, R!Output

LEMMA AllocatorAssumed ==
  /\ UidLen \in Nat \ {0} /\ TidSpace \in Nat /\ TidSpace >= 2
  /\ NodeIdSpace \in Nat /\ FirstNodeId \in 1 .. NodeIdSpace - 1
BY NodeAssumption

LEMMA FrameTracked ==
  \A f \in R!Frame :
    R!Tracking /\ R!Receive(f) => R!Tracking' /\ R!ReturnsCompletedRuns'
BY ReassemblerAssumed, R!FrameTracked, Zenon

LEMMA NothingTracked ==
  R!Tracking /\ UNCHANGED <<sessions, now, heard>> /\ out' \in {out, None} => R!Tracking'
BY ReassemblerAssumed, R!NothingTracked, Zenon

LEMMA TimeTracked == R!Tracking /\ R!Advance /\ UNCHANGED heard => R!Tracking'
BY ReassemblerAssumed, R!TimeTracked, Zenon

LEMMA TrackingInit == R!Init /\ heard = <<>> => R!Tracking
BY ReassemblerAssumed, R!TrackingInit, Zenon

LEMMA HandleKeeps ==
  \A q \in A!Request : A!AllocInv /\ A!HandleAllocationRequest(q) => A!AllocInv'
BY AllocatorAssumed, A!HandleKeeps, Zenon

LEMMA AllocInvStutter == A!AllocInv /\ UNCHANGED A!avars => A!AllocInv'
BY AllocatorAssumed, A!AllocInvStutter, Zenon

LEMMA AllocInvInit == A!Init => A!AllocInv
BY AllocatorAssumed, A!AllocInvInit, Zenon

LEMMA OwedSame == \A h : R!Owed(h) = History!Owed(h)
BY Zenon DEF R!Owed, History!Owed, R!Newest, History!Newest, R!Runs, History!Runs, R!From,
  History!From, R!Contents, History!Contents, R!TakesPart, History!TakesPart, R!IsRun,
  History!IsRun, R!InPlace, History!InPlace, R!Rank, History!Rank, R!Nth, History!Nth,
  R!Max, History!Max, R!Min, History!Min, R!Cardinality, History!Cardinality

LEMMA ProcessFrameSame == \A f : R!ProcessFrame(f) <=> Reassembly!ProcessFrame(f)
BY Zenon DEF R!ProcessFrame, Reassembly!ProcessFrame, R!SingleFrame, Reassembly!SingleFrame,
  R!StartTransfer, Reassembly!StartTransfer, R!Orphan, Reassembly!Orphan, R!ToggleMismatch,
  Reassembly!ToggleMismatch, R!MiddleFrame, Reassembly!MiddleFrame, R!LastFrame,
  Reassembly!LastFrame, R!InSequence, Reassembly!InSequence, R!Meets, Reassembly!Meets,
  R!Store, Reassembly!Store, R!Live, Reassembly!Live, R!Stale, Reassembly!Stale,
  R!Extended, Reassembly!Extended, R!Verdict, Reassembly!Verdict, R!Return, Reassembly!Return

LEMMA HandleSame ==
  \A q : A!HandleAllocationRequest(q) <=> Allocator!HandleAllocationRequest(q)
BY Zenon DEF A!HandleAllocationRequest, Allocator!HandleAllocationRequest, A!Ignored,
  Allocator!Ignored, A!FirstPart, Allocator!FirstPart, A!Orphan, Allocator!Orphan,
  A!NextPart, Allocator!NextPart, A!DuplicatePart, Allocator!DuplicatePart,
  A!UnexpectedPart, Allocator!UnexpectedPart, A!NoAnswer, Allocator!NoAnswer, A!Adopt,
  Allocator!Adopt, A!Respond, Allocator!Respond, A!RequestMore, Allocator!RequestMore,
  A!Allocate, Allocator!Allocate, A!Enroll, Allocator!Enroll, A!Answer, Allocator!Answer,
  A!WireId, Allocator!WireId, A!NextTid, Allocator!NextTid, A!Continues,
  Allocator!Continues, A!NoAllocation, Allocator!NoAllocation

LEMMA InitSame ==
  /\ R!Init <=> Reassembly!Init
  /\ A!Init <=> Allocator!Init
BY Zenon DEF R!Init, Reassembly!Init, A!Init, Allocator!Init, A!NoAllocation,
  Allocator!NoAllocation

LEMMA TypeSame ==
  /\ R!TypeOK <=> Reassembly!TypeOK
  /\ A!TypeOK <=> Allocator!TypeOK
BY Zenon DEF R!TypeOK, Reassembly!TypeOK, R!Session, Reassembly!Session, R!Output,
  Reassembly!Output, A!TypeOK, Allocator!TypeOK, A!Tid, Allocator!Tid, A!Uid, Allocator!Uid,
  A!Response, Allocator!Response

LEMMA AdvanceSame == R!Advance <=> Reassembly!Advance
BY Zenon DEF R!Advance, Reassembly!Advance
-----------------------------------------------------------------------------
(* ------------------------- Answers to a frame -------------------------- *)

AnswerType == [id : Nat, tid : 0 .. 31]

(* A frame of a request to this node that has a tail byte.                 *)
Heard(f) == IsService(f.id) /\ IsRequest(f.id) /\ Dest(f.id) = NodeId /\ f.data # <<>>

(* The answers to frame f are what it makes the server owe.                *)
Agrees(given, f) ==
  /\ given \in Seq(AnswerType)
  /\ Owing(f) = [i \in DOMAIN given |-> Label(given[i])]

LEMMA AgreesNone ==
  ASSUME NEW f, Owing(f) = <<>>
  PROVE  Agrees(<<>>, f)
BY DEF Agrees

LEMMA AgreesOne ==
  ASSUME NEW f, NEW a \in AnswerType, Owing(f) = <<Label(a)>>
  PROVE  Agrees(<<a>>, f)
<1> DEFINE s == <<a>>
<1>1. s \in Seq(AnswerType) /\ Len(s) = 1 /\ s[1] = a /\ DOMAIN s = 1 .. 1
  OBVIOUS
<1>2. [i \in 1 .. 1 |-> Label(a)] = <<Label(a)>>
  OBVIOUS
<1>3. \A i \in 1 .. 1 : s[i] = a
  BY <1>1
<1> HIDE DEF s
<1>4. [i \in DOMAIN s |-> Label(s[i])] = [i \in 1 .. 1 |-> Label(a)]
  BY <1>1, <1>3
<1>5. Agrees(s, f)
  BY <1>1, <1>2, <1>4 DEF Agrees
<1> QED BY <1>5 DEF s

LEMMA TidType == \A n \in Nat : n % 32 \in 0 .. 31
OBVIOUS

LEMMA TailByte ==
  ASSUME NEW f \in WireFrame, f.data # <<>>
  PROVE  /\ f.id \in Nat
         /\ Tl(f) \in Nat /\ TailTid(Tl(f)) \in 0 .. 31
         /\ StartBit(Tl(f)) \in BOOLEAN /\ EndBit(Tl(f)) \in BOOLEAN
         /\ ToggleBit(Tl(f)) \in BOOLEAN
<1>1. f.data \in Seq(Byte)
  BY IdBytesType
<1>2. f.id \in Nat
  <2>1. f \in CanFrame
    BY SMT DEF WireFrame
  <2> QED BY <2>1, SMT DEF CanFrame
<1> DEFINE d == f.data
<1>3. Last(d) \in Nat
  <2> HIDE DEF d
  <2>1. d \in Seq(Byte) /\ d # <<>>
    BY <1>1 DEF d
  <2>2. Len(d) \in 1 .. Len(d)
    BY <2>1
  <2>3. d[Len(d)] \in Byte
    BY <2>1, <2>2
  <2>4. d[Len(d)] \in Nat
    <3>1. \A b \in Byte : b \in Nat
      BY DEF Byte
    <3> QED BY <2>3, <3>1, Zenon
  <2> QED BY <2>4 DEF Last
<1>4. Tl(f) \in Nat
  BY <1>3 DEF Tl
<1>5. TailTid(Tl(f)) \in 0 .. 31
  BY <1>4, TidType, Zenon DEF TailTid
<1> QED BY <1>2, <1>4, <1>5 DEF StartBit, EndBit, ToggleBit

(* The reassembler and the allocator are given what they expect.           *)
LEMMA ServiceFrameType ==
  ASSUME NEW f \in Carried, Heard(f)
  PROVE  ServiceFrame(f) \in R!Frame
<1>1. f \in WireFrame /\ SessionKey(f) \in Key /\ Front(f.data) \in Chunk
  BY CarriedType, Zenon DEF Heard, ForUs
<1>2. StartBit(Tl(f)) \in BOOLEAN /\ EndBit(Tl(f)) \in BOOLEAN /\ ToggleBit(Tl(f)) \in BOOLEAN
  BY <1>1, TailByte, Zenon DEF Heard
<1> QED BY <1>1, <1>2, SMT DEF ServiceFrame, R!Frame

LEMMA RequestType ==
  ASSUME NEW f \in Carried, ~IsService(f.id)
  PROVE  AllocationRequest(f) \in A!Request
<1> DEFINE q == AllocationRequest(f)
<1>1. f \in WireFrame /\ q.chunk \in Seq(Piece)
  BY CarriedType, Zenon
<1>2. A!Tid = 0 .. 31
  BY NodeAssumption DEF A!Tid
<1>3. CASE Wanted(f)
  <2>1. f.data # <<>>
    <3>1. Len(f.data) >= 2
      BY <1>3 DEF Wanted
    <3>2. Len(<<>>) = 0 /\ ~(0 >= 2)
      OBVIOUS
    <3> QED BY <3>1, <3>2
  <2>2. TailTid(Tl(f)) \in A!Tid
    BY <1>1, <1>2, <2>1, TailByte
  <2> DEFINE first == f.data[1] % 2 = 1
             tid == TailTid(Tl(f))
             chunk == SubSeq(f.data, 2, Len(f.data) - 1)
  <2>3. first \in BOOLEAN
    OBVIOUS
  <2>4. q = [wanted |-> TRUE, first |-> first, tid |-> tid, chunk |-> chunk]
    BY <1>3, Zenon DEF AllocationRequest
  <2> HIDE DEF q, first, tid, chunk
  <2>6. chunk \in Seq(Piece)
    BY <1>1, <2>4
  <2>7. tid \in A!Tid
    BY <2>2 DEF tid
  <2>5. q \in A!Request
    BY <2>3, <2>4, <2>6, <2>7 DEF A!Request
  <2> QED BY <2>5 DEF q
<1>4. CASE ~Wanted(f)
  <2>1. q = [wanted |-> FALSE, first |-> FALSE, tid |-> 0, chunk |-> <<>>]
    BY <1>4 DEF AllocationRequest
  <2>2. 0 \in A!Tid
    BY <1>2
  <2> HIDE DEF q
  <2>3. q \in A!Request
    BY <2>1, <2>2 DEF A!Request
  <2> QED BY <2>3 DEF q
<1> QED BY <1>3, <1>4

(* Every answer to an allocation request takes the tid that is due.        *)
LEMMA ResponseTid ==
  ASSUME NEW q, A!HandleAllocationRequest(q), response' # NoResponse
  PROVE  response'.tid = allocation_tid
<1>1. ASSUME NEW n, NEW uid, A!Answer(n, uid) PROVE response'.tid = allocation_tid
  BY <1>1 DEF A!Answer
<1>2. ASSUME NEW uid, A!Respond(uid) PROVE response'.tid = allocation_tid
  BY <1>1, <1>2 DEF A!Respond, A!RequestMore, A!Allocate
<1>3. ASSUME NEW uid, NEW tid, A!Adopt(uid, tid) PROVE response'.tid = allocation_tid
  BY <1>2, <1>3 DEF A!Adopt
<1>4. ~A!NoAnswer
  BY DEF A!NoAnswer
<1> QED
  BY <1>2, <1>3, <1>4 DEF A!HandleAllocationRequest, A!Ignored, A!FirstPart, A!Orphan,
     A!NextPart, A!DuplicatePart, A!UnexpectedPart

-----------------------------------------------------------------------------
(* ---------------------------- A whole step ----------------------------- *)

(* What the answers are to say is what they say.                           *)
LEMMA LabelsOfJoin ==
  ASSUME NEW S, NEW s \in Seq(S), NEW t \in Seq(S)
  PROVE  [i \in DOMAIN (s \o t) |-> Label((s \o t)[i])]
           = [i \in DOMAIN s |-> Label(s[i])] \o [i \in DOMAIN t |-> Label(t[i])]
<1> DEFINE L(r) == [i \in DOMAIN r |-> Label(r[i])]
           T == {Label(a) : a \in S}
           u == s \o t
<1>1. ASSUME NEW r \in Seq(S) PROVE L(r) \in Seq(T) /\ Len(L(r)) = Len(r)
  <2>1. DOMAIN r = 1 .. Len(r) /\ Len(r) \in Nat /\ \A i \in 1 .. Len(r) : r[i] \in S
    OBVIOUS
  <2>2. \A i \in 1 .. Len(r) : Label(r[i]) \in T
    BY <2>1
  <2> HIDE DEF T
  <2> QED BY <2>1, <2>2
<1>2. u \in Seq(S) /\ Len(u) = Len(s) + Len(t)
  OBVIOUS
<1>3. /\ L(s) \in Seq(T) /\ Len(L(s)) = Len(s) /\ L(t) \in Seq(T) /\ Len(L(t)) = Len(t)
      /\ L(u) \in Seq(T) /\ Len(L(u)) = Len(u)
  BY <1>1, <1>2
<1>4. L(s) \o L(t) \in Seq(T) /\ Len(L(s) \o L(t)) = Len(s) + Len(t)
  <2> DEFINE a == L(s)
             b == L(t)
  <2>1. a \in Seq(T) /\ Len(a) = Len(s) /\ b \in Seq(T) /\ Len(b) = Len(t)
    BY <1>3
  <2> HIDE DEF a, b, T
  <2>2. a \o b \in Seq(T) /\ Len(a \o b) = Len(s) + Len(t)
    <3>1. a \in Seq(T) /\ b \in Seq(T) /\ Len(a) = Len(a)
      BY <2>1
    <3>2. a \o b \in Seq(T) /\ Len(a \o b) = Len(a) + Len(b)
      BY <3>1, ConcatAt
    <3> QED BY <2>1, <3>2
  <2> QED BY <2>2 DEF a, b
<1>5. ASSUME NEW i \in 1 .. Len(s) + Len(t) PROVE L(u)[i] = (L(s) \o L(t))[i]
  <2>1. Len(s) \in Nat /\ Len(t) \in Nat
    OBVIOUS
  <2>2. DOMAIN u = 1 .. Len(s) + Len(t) /\ DOMAIN s = 1 .. Len(s) /\ DOMAIN t = 1 .. Len(t)
    BY <1>2
  <2>3. L(u)[i] = Label(u[i])
    BY <2>2
  <2>4. u[i] = IF i <= Len(s) THEN s[i] ELSE t[i - Len(s)]
    OBVIOUS
  <2>5. (L(s) \o L(t))[i] = IF i <= Len(s) THEN L(s)[i] ELSE L(t)[i - Len(s)]
    <3> HIDE DEF L, T
    <3> QED BY <1>3, <2>1
  <2>6. CASE i <= Len(s)
    <3>1. i \in 1 .. Len(s)
      BY <2>1, <2>6
    <3>2. L(s)[i] = Label(s[i])
      BY <2>2, <3>1
    <3> HIDE DEF L, u
    <3> QED BY <2>3, <2>4, <2>5, <2>6, <3>2
  <2>7. CASE ~(i <= Len(s))
    <3>1. i - Len(s) \in 1 .. Len(t)
      BY <2>1, <2>7
    <3>2. L(t)[i - Len(s)] = Label(t[i - Len(s)])
      BY <2>2, <3>1
    <3> HIDE DEF L, u
    <3> QED BY <2>3, <2>4, <2>5, <2>7, <3>2
  <2> QED BY <2>6, <2>7
<1> HIDE DEF L, T
<1>6. L(u) = L(s) \o L(t)
  <2>1. DOMAIN L(u) = 1 .. Len(s) + Len(t) /\ DOMAIN (L(s) \o L(t)) = 1 .. Len(s) + Len(t)
    BY <1>2, <1>3, <1>4
  <2>2. L(u) = [i \in 1 .. Len(s) + Len(t) |-> L(u)[i]]
    BY <1>2, <1>3
  <2>3. L(s) \o L(t) = [i \in 1 .. Len(s) + Len(t) |-> (L(s) \o L(t))[i]]
    <3> DEFINE v == L(s) \o L(t)
    <3>1. v \in Seq(T) /\ Len(v) = Len(s) + Len(t)
      BY <1>4
    <3> HIDE DEF v
    <3>2. v = [i \in 1 .. Len(v) |-> v[i]]
      BY <3>1
    <3> QED BY <3>1, <3>2 DEF v
  <2> QED BY <1>5, <2>2, <2>3
<1> QED BY <1>6 DEF L

LEMMA InfoAnswerType ==
  ASSUME NEW f, f.id \in Nat, TailTid(Tl(f)) \in 0 .. 31
  PROVE  InfoAnswer(f) \in AnswerType
<1> DEFINE p == Priority(f.id)
           n == Source(f.id)
<1>1. p \in Priorities
  BY SMT DEF Priority, Priorities
<1>2. n \in NodeIds
  BY SMT DEF Source, NodeIds
<1>3. NodeId \in NodeIds
  BY NodeAssumption
<1> HIDE DEF p, n
<1>4. PICK s \in 0 .. 255, r \in BOOLEAN : s = 1 /\ r = FALSE
  <2>1. 1 \in 0 .. 255 /\ FALSE \in BOOLEAN
    OBVIOUS
  <2> QED BY <2>1, Zenon
<1>5. BuildServiceId(p, s, r, n, NodeId) \in Nat
  BY ONLY <1>1, <1>2, <1>3, <1>4, ServiceIdRoundTrip
<1>6. BuildServiceId(p, 1, FALSE, n, NodeId) \in Nat
  BY ONLY <1>4, <1>5, Zenon
<1> QED
  BY <1>6 DEF InfoAnswer, Answer, GetNodeInfo, AnswerType, p, n

(* What the allocator answers is labelled as its receiver expects.         *)
LEMMA AllocationAnswerType ==
  ASSUME NEW t, allocation_tid \in 0 .. 31, t = allocation_tid
  PROVE  LET a == Answer(BuildMessageId(DefaultPriority, Allocation, NodeId), t) IN
         Label(a) = AllocationLabel /\ a \in AnswerType
<1> DEFINE id == BuildMessageId(DefaultPriority, Allocation, NodeId)
<1>1. PICK p \in Priorities, k \in Nat :
        p = DefaultPriority /\ k = Allocation /\ k < 65536 /\ k % 4 = k
  <2>1. DefaultPriority \in Priorities /\ Allocation \in Nat /\ Allocation < 65536
    BY DEF DefaultPriority, Priorities, Allocation
  <2>2. Allocation % 4 = Allocation
    BY DEF Allocation
  <2> QED BY <2>1, <2>2
<1>2. NodeId \in NodeIds
  BY NodeAssumption
<1>3. LET i == BuildMessageId(p, k, NodeId) IN
      /\ i \in Nat /\ ~IsService(i) /\ Priority(i) = p /\ Source(i) = NodeId
      /\ MessageType(i) = IF NodeId = 0 THEN k % 4 ELSE k
  BY ONLY <1>1, <1>2, MessageIdRoundTrip
<1>4. /\ id \in Nat /\ ~IsService(id) /\ Priority(id) = DefaultPriority
      /\ Source(id) = NodeId /\ MessageType(id) = Allocation
  <2> DEFINE i == BuildMessageId(p, k, NodeId)
  <2>1. id = i
    BY <1>1
  <2>2. /\ i \in Nat /\ ~IsService(i) /\ Priority(i) = p /\ Source(i) = NodeId
        /\ MessageType(i) = IF NodeId = 0 THEN k % 4 ELSE k
    BY <1>3, Zenon
  <2> HIDE DEF i, id
  <2>3. MessageType(i) = Allocation /\ Priority(i) = DefaultPriority
    BY <1>1, <2>2
  <2> QED BY <2>1, <2>2, <2>3
<1> HIDE DEF id
<1> DEFINE a == Answer(id, t)
<1>5. a.id = id /\ a.tid = t /\ a = [id |-> id, tid |-> t]
  BY DEF Answer
<1> HIDE DEF a
<1>6. Label(a) = AllocationLabel
  BY <1>4, <1>5 DEF Label, AllocationLabel
<1>7. a \in AnswerType
  BY <1>4, <1>5 DEF AnswerType
<1> QED BY <1>6, <1>7 DEF a, id

(* The inductive invariant of the node.                                    *)
NodeInv ==
  /\ FramesInv
  /\ R!Tracking
  /\ A!AllocInv
  /\ answers \in Seq(AnswerType) /\ resp_frames \in Seq(AnswerType)
  /\ RequestsAnsweredOnce

(* A frame given to the reassembler, or none, or one for the allocator.    *)
LEMMA ServiceRequestAnswered ==
  ASSUME R!Tracking, NEW f \in Carried, ServiceRequest(f), Observe(f)
  PROVE  /\ R!Tracking'
         /\ \E given : Agrees(given, f) /\ Done(given)
<1>1. ForUs(f) /\ IsService(f.id) /\ IsRequest(f.id) /\ Dest(f.id) = NodeId
  BY DEF ServiceRequest, ForUs
<1>2. CASE f.data = <<>>
  <2>1. out' = None /\ UNCHANGED <<sessions, now>> /\ heard' = heard
    BY <1>2 DEF ServiceRequest, Reassembly!EmptyFrame, Observe
  <2>2. Owing(f) = <<>>
    BY <1>1, <1>2 DEF Owing
  <2>3. Done(<<>>)
    BY <2>1 DEF ServiceRequest
  <2>4. R!Tracking'
    BY <2>1, NothingTracked
  <2> QED BY <2>2, <2>3, <2>4, AgreesNone
<1>3. CASE f.data # <<>>
  <2>1. Heard(f)
    BY <1>1, <1>3 DEF Heard
  <2> DEFINE g == ServiceFrame(f)
  <2>2. g \in R!Frame
    BY <2>1, ServiceFrameType
  <2>3. R!ProcessFrame(g)
    BY <1>3, ProcessFrameSame DEF ServiceRequest
  <2>4. heard' = Append(heard, [frame |-> g, at |-> now])
    BY <2>1 DEF Observe, Heard
  <2> HIDE DEF g
  <2>5. R!Tracking' /\ R!ReturnsCompletedRuns'
    BY <2>2, <2>3, <2>4, FrameTracked DEF R!Receive
  <2>6. heard' # <<>>
    <3>1. heard \in Seq(R!Entry)
      BY DEF R!Tracking
    <3> QED BY <2>4, <3>1
  <2>7. out' # None <=> History!Owed(heard') # {}
    <3>1. IF out' = None THEN R!Owed(heard') = {}
          ELSE out'.key = R!Newest(heard').key /\ R!Owed(heard') = {out'.payload}
      BY <2>5, <2>6 DEF R!ReturnsCompletedRuns
    <3>2. R!Owed(heard') = History!Owed(heard')
      BY OwedSame
    <3> QED BY <3>1, <3>2
  <2>8. CASE out' # None /\ ServiceType(f.id) = GetNodeInfo
    <3>1. Done(<<InfoAnswer(f)>>)
      BY <2>8 DEF ServiceRequest
    <3>2. Owing(f) = <<InfoLabel(f)>>
      BY <1>1, <1>3, <2>7, <2>8 DEF Owing
    <3> DEFINE a == InfoAnswer(f)
    <3>3. f \in WireFrame
      BY CarriedType, Zenon
    <3>4. f.id \in Nat /\ TailTid(Tl(f)) \in 0 .. 31
      BY <1>3, <3>3, TailByte, Zenon
    <3>5. /\ IsService(a.id) /\ ~IsRequest(a.id) /\ ServiceType(a.id) = GetNodeInfo
          /\ Source(a.id) = NodeId /\ Dest(a.id) = Source(f.id)
          /\ Priority(a.id) = Priority(f.id) /\ a.tid = TailTid(Tl(f))
      BY <3>4, AskerKnowsAnswer, Zenon
    <3>6. Label(a) = InfoLabel(f)
      <4>1. IsRequest(a.id) = FALSE
        BY <3>5 DEF IsRequest
      <4> HIDE DEF a
      <4> QED BY <3>5, <4>1, Zenon DEF Label, InfoLabel, Tl
    <3>7. a \in AnswerType
      BY <3>4, InfoAnswerType, Zenon
    <3> HIDE DEF a
    <3>8. Agrees(<<a>>, f)
      BY <3>2, <3>6, <3>7, AgreesOne
    <3> QED BY <2>5, <3>1, <3>8 DEF a
  <2>9. CASE ~(out' # None /\ ServiceType(f.id) = GetNodeInfo)
    <3>1. Done(<<>>)
      BY <2>9 DEF ServiceRequest
    <3>2. Owing(f) = <<>>
      BY <1>1, <2>7, <2>9 DEF Owing
    <3> QED BY <2>5, <3>1, <3>2, AgreesNone
  <2> QED BY <2>8, <2>9
<1> QED BY <1>2, <1>3

LEMMA MessageAnswered ==
  ASSUME R!Tracking, A!AllocInv, NEW f \in Carried, Message(f), Observe(f)
  PROVE  /\ R!Tracking' /\ A!AllocInv'
         /\ \E given : Agrees(given, f) /\ Done(given)
<1>1. ~IsService(f.id) /\ UNCHANGED <<sessions, out, now>>
  BY DEF Message, reassemblerVars
<1>2. heard' = heard
  BY <1>1 DEF Observe
<1>3. R!Tracking'
  BY <1>1, <1>2, NothingTracked
<1>4. /\ AllocationRequest(f) \in A!Request
      /\ A!HandleAllocationRequest(AllocationRequest(f))
  BY <1>1, RequestType, HandleSame DEF Message
<1>5. A!AllocInv'
  BY <1>4, HandleKeeps
<1>6. CASE response' = NoResponse
  <2>1. Owing(f) = <<>>
    BY <1>1, <1>6 DEF Owing
  <2>2. Done(<<>>)
    BY <1>6 DEF Message
  <2> QED BY <1>3, <1>5, <2>1, <2>2, AgreesNone
<1>7. CASE response' # NoResponse
  <2> DEFINE a == Answer(BuildMessageId(DefaultPriority, Allocation, NodeId), response'.tid)
  <2>1. Owing(f) = <<AllocationLabel>>
    BY <1>1, <1>7 DEF Owing
  <2>2. Done(<<a>>)
    BY <1>7 DEF Message
  <2>3. response'.tid = allocation_tid
    BY <1>4, <1>7, ResponseTid
  <2>4. allocation_tid \in 0 .. 31
    BY NodeAssumption DEF A!AllocInv, A!TypeOK, A!Tid
  <2>5. Label(a) = AllocationLabel /\ a \in AnswerType
    BY <2>3, <2>4, AllocationAnswerType, Zenon
  <2> HIDE DEF a
  <2>6. Agrees(<<a>>, f)
    BY <2>1, <2>5, AgreesOne
  <2> QED BY <1>3, <1>5, <2>2, <2>6
<1> QED BY <1>6, <1>7

(* The variables of NodeAnswers only watch.                                *)
LEMMA StepObserves == [ANext]_avars => [CNext]_cvars
BY DEF ANext, avars, CNext

(* Whatever frame is handled, the answers stay what they ought to be.      *)
LEMMA HandleAnswered ==
  ASSUME NodeInv, Handle, Observe(Head(parsed_frames))
  PROVE  /\ R!Tracking' /\ A!AllocInv'
         /\ answers' = answers
         /\ resp_frames' \in Seq(AnswerType)
         /\ RequestsAnsweredOnce'
<1> DEFINE f == Head(parsed_frames)
<1>1. f \in Carried /\ f \in WireFrame
  <2>1. parsed_frames \in Seq(Carried) /\ parsed_frames # <<>>
    BY DEF NodeInv, FramesInv, Handle, HandleFrame
  <2>2. f \in Carried
    BY <2>1
  <2> HIDE DEF f
  <2> QED BY <2>2, CarriedType, Zenon
<1>2. /\ IgnoreService(f) \/ ServiceRequest(f) \/ Message(f)
      /\ answers' = answers /\ Observe(f)
  BY DEF Handle, HandleFrame
<1> HIDE DEF f
<1>3. R!Tracking /\ A!AllocInv
  BY DEF NodeInv
<1>4. /\ R!Tracking' /\ A!AllocInv'
      /\ \E given : Agrees(given, f) /\ Done(given)
  <2>1. CASE IgnoreService(f)
    <3>1. /\ IsService(f.id) /\ ~(IsRequest(f.id) /\ Dest(f.id) = NodeId)
          /\ UNCHANGED <<sessions, out, now>> /\ UNCHANGED allocatorVars /\ Done(<<>>)
      BY <2>1 DEF IgnoreService, ForUs, reassemblerVars
    <3>2. heard' = heard
      BY <1>2, <3>1 DEF Observe
    <3>3. Owing(f) = <<>>
      BY <3>1 DEF Owing
    <3>4. R!Tracking'
      BY <1>3, <3>1, <3>2, NothingTracked
    <3>5. A!AllocInv'
      BY <1>3, <3>1, AllocInvStutter DEF allocatorVars, A!avars
    <3> QED BY <3>1, <3>3, <3>4, <3>5, AgreesNone
  <2>2. CASE ServiceRequest(f)
    <3>1. A!AllocInv'
      BY <1>3, <2>2, AllocInvStutter DEF ServiceRequest, allocatorVars, A!avars
    <3> QED BY <1>1, <1>2, <1>3, <2>2, <3>1, ServiceRequestAnswered
  <2>3. CASE Message(f)
    BY <1>1, <1>2, <1>3, <2>3, MessageAnswered
  <2> QED BY <1>2, <2>1, <2>2, <2>3
<1>5. PICK given : Agrees(given, f) /\ Done(given)
  BY <1>4
<1> DEFINE said == answers \o resp_frames
           saying == answers' \o resp_frames'
<1>6. answers \in Seq(AnswerType) /\ resp_frames \in Seq(AnswerType) /\ given \in Seq(AnswerType)
  BY <1>5 DEF NodeInv, Agrees
<1>7. resp_frames' = resp_frames \o given /\ resp_frames' \in Seq(AnswerType)
  BY <1>5, <1>6 DEF Done
<1>8. saying = said \o given /\ said \in Seq(AnswerType)
  BY <1>2, <1>6, <1>7
<1>9. due = [i \in DOMAIN said |-> Label(said[i])]
  BY DEF NodeInv, RequestsAnsweredOnce
<1>10. due' = due \o [i \in DOMAIN given |-> Label(given[i])]
  BY <1>2, <1>5 DEF Observe, Agrees
<1> HIDE DEF said
<1>11. due' = [i \in DOMAIN (said \o given) |-> Label((said \o given)[i])]
  BY <1>6, <1>8, <1>9, <1>10, LabelsOfJoin
<1>12. due' = [i \in DOMAIN saying |-> Label(saying[i])]
  BY <1>8, <1>11
<1>13. RequestsAnsweredOnce'
  BY <1>12 DEF RequestsAnsweredOnce, Label
<1> QED BY <1>2, <1>4, <1>7, <1>13

LEMMA NodeStep == NodeInv /\ [ANext]_avars => NodeInv'
<1> SUFFICES ASSUME NodeInv, [ANext]_avars PROVE NodeInv'
  OBVIOUS
<1>1. FramesInv'
  BY StepObserves, FramesStep DEF NodeInv
<1>2. R!Tracking /\ A!AllocInv /\ answers \in Seq(AnswerType) /\ resp_frames \in Seq(AnswerType)
  BY DEF NodeInv
<1>3. ASSUME UNCHANGED <<answers, resp_frames, due>> PROVE RequestsAnsweredOnce'
  BY <1>3 DEF NodeInv, RequestsAnsweredOnce, Label
<1>4. ASSUME UNCHANGED <<reassemblerVars, now, allocatorVars, resp_frames, answers, heard, due>>
      PROVE  NodeInv'
  <2>1. R!Tracking'
    BY <1>2, <1>4, NothingTracked DEF reassemblerVars
  <2>2. A!AllocInv'
    BY <1>2, <1>4, AllocInvStutter DEF allocatorVars, A!avars
  <2> QED BY <1>1, <1>2, <1>3, <1>4, <2>1, <2>2 DEF NodeInv
<1>5. ASSUME NEW frames \in Packets, NEW bytes \in 0 .. Len(BuildPacket(0, frames)),
             NEW count \in 0 .. Len(frames) + 1,
             Arrive(frames, bytes, count) /\ UNCHANGED <<heard, due>>
      PROVE  NodeInv'
  BY <1>4, <1>5 DEF Arrive, DatagramReceived
<1>6. CASE Handle /\ Observe(Head(parsed_frames))
  BY <1>1, <1>2, <1>6, HandleAnswered DEF NodeInv
<1>7. CASE Send /\ UNCHANGED <<heard, due>>
  <2>1. /\ answers' = answers \o resp_frames /\ resp_frames' = <<>>
        /\ UNCHANGED <<sessions, out, now, heard, due>> /\ UNCHANGED allocatorVars
    BY <1>7 DEF Send, Reply, reassemblerVars
  <2>2. R!Tracking'
    BY <1>2, <2>1, NothingTracked
  <2>3. A!AllocInv'
    BY <1>2, <2>1, AllocInvStutter DEF allocatorVars, A!avars
  <2>4. answers' \in Seq(AnswerType) /\ resp_frames' \in Seq(AnswerType)
    BY <1>2, <2>1
  <2>5. answers' \o resp_frames' = answers \o resp_frames
    BY <1>2, <2>1
  <2>6. RequestsAnsweredOnce'
    BY <2>1, <2>5 DEF NodeInv, RequestsAnsweredOnce, Label
  <2> QED BY <1>1, <2>2, <2>3, <2>4, <2>6 DEF NodeInv
<1>8. CASE Advance /\ UNCHANGED <<arrived, handled, answers, heard, due>>
  <2>1. /\ Reassembly!Advance
        /\ UNCHANGED <<heard, due, answers, resp_frames>> /\ UNCHANGED allocatorVars
    BY <1>8 DEF Advance
  <2>2. R!Tracking'
    BY <1>2, <2>1, AdvanceSame, TimeTracked
  <2>3. A!AllocInv'
    BY <1>2, <2>1, AllocInvStutter DEF allocatorVars, A!avars
  <2> QED BY <1>1, <1>2, <1>3, <2>1, <2>2, <2>3 DEF NodeInv
<1>9. CASE UNCHANGED avars
  BY <1>4, <1>9 DEF avars, cvars, nvars
<1> QED BY <1>5, <1>6, <1>7, <1>8, <1>9 DEF ANext

LEMMA NodeInvInit == AInit => NodeInv
<1> SUFFICES ASSUME AInit PROVE NodeInv
  OBVIOUS
<1>1. /\ Reassembly!Init /\ Allocator!Init /\ heard = <<>> /\ due = <<>>
      /\ parsed_frames = <<>> /\ resp_frames = <<>>
      /\ arrived = <<>> /\ handled = <<>> /\ answers = <<>>
  BY DEF AInit, CInit, Init
<1>2. R!Tracking /\ A!AllocInv
  BY <1>1, InitSame, TrackingInit, AllocInvInit
<1>3. <<>> \in Seq(Carried) /\ <<>> \in Seq(AnswerType) /\ <<>> \o <<>> = <<>>
  OBVIOUS
<1>4. RequestsAnsweredOnce
  <2>1. answers \o resp_frames = <<>>
    BY <1>1, <1>3
  <2>2. <<>> = [i \in DOMAIN <<>> |-> Label(<<>>[i])]
    OBVIOUS
  <2> QED BY <1>1, <2>1, <2>2 DEF RequestsAnsweredOnce
<1> QED BY <1>1, <1>2, <1>3, <1>4 DEF NodeInv, FramesInv, CutPacketsKeepPrefix

(* The inductive invariant holds in every reachable state.                 *)
THEOREM NodeInvariant == ASpec => []NodeInv
BY NodeInvInit, NodeStep, PTL DEF ASpec

(* The variables of the node keep their types, for any packets and any     *)
(* contents of frames (node.py, app_runtime.py).                           *)
THEOREM NodeTypeOK == ASpec => []TypeOK
<1>1. NodeInv => TypeOK
  <2> SUFFICES ASSUME NodeInv PROVE TypeOK
    OBVIOUS
  <2>1. Reassembly!TypeOK /\ Allocator!TypeOK
    BY TypeSame DEF NodeInv, R!Tracking, A!AllocInv
  <2>2. parsed_frames \in Seq(CanFrame)
    <3>1. parsed_frames \in Seq(Carried)
      BY DEF NodeInv, FramesInv
    <3>2. \A f \in Carried : f \in CanFrame
      <4>1. \A f \in WireFrame : f \in CanFrame
        BY SMT DEF WireFrame
      <4> QED BY <4>1, CarriedType, Zenon
    <3> QED BY <3>1, <3>2
  <2>3. resp_frames \in Seq([id : Nat, tid : 0 .. 31])
    BY DEF NodeInv, AnswerType
  <2> QED BY <2>1, <2>2, <2>3 DEF TypeOK
<1> QED BY <1>1, NodeInvariant, PTL

(* Every request for the node's info that arrives in full is answered      *)
(* once, to whoever asked and with its transfer id, in the order in which  *)
(* the requests were completed, whatever frames of other transfers, other  *)
(* nodes and other services the packets mix with them; so is what the      *)
(* allocator answers, and nothing else is answered (node.py:87-112,        *)
(* node_info.py:27-41).                                                    *)
THEOREM RequestsAnswered == ASpec => []RequestsAnsweredOnce
<1>1. NodeInv => RequestsAnsweredOnce
  BY DEF NodeInv
<1> QED BY <1>1, NodeInvariant, PTL

(* The history that RequestsAnsweredOnce needs constrains nothing: what is *)
(* proved of CSpec holds of ASpec.                                         *)
THEOREM AnswersObserve == ASpec => CSpec
<1>1. AInit => CInit
  BY DEF AInit
<1> QED BY <1>1, StepObserves, PTL DEF ASpec, CSpec
=============================================================================

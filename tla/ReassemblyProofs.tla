--------------------------- MODULE ReassemblyProofs ---------------------------
(***************************************************************************)
(* Proofs about Reassembler and ReassemblyContract: for any keys, chunks,  *)
(* timeout, checks and number of frames, the sessions are the open runs of *)
(* the history and the results its completed runs.                         *)
(***************************************************************************)
EXTENDS ReassemblyContract, FiniteSetTheorems, SequenceTheorems, WellFoundedInduction, TLAPS

(* ----------------------- Least and greatest numbers -------------------- *)

LEMMA LeastNumber ==
  ASSUME NEW S, \A x \in S : x \in Nat, S # {}
  PROVE  \E m \in S : \A x \in S : m <= x
<1> DEFINE less == OpToRel(<, Nat)
<1>1. PICK m \in S : \A y \in S : <<y, m>> \notin less
  <2>1. S \subseteq Nat
    OBVIOUS
  <2> HIDE DEF less
  <2> QED BY <2>1, NatLessThanWellFounded, WFMin DEF less
<1>2. \A y \in S : ~ (y < m)
  BY <1>1 DEF OpToRel
<1>3. QED
  BY <1>2

LEMMA MinIsLeast ==
  ASSUME NEW S, \A x \in S : x \in Nat, S # {}
  PROVE  Min(S) \in S /\ \A x \in S : Min(S) <= x
BY LeastNumber DEF Min

LEMMA MaxIsGreatest ==
  ASSUME NEW n \in Nat, NEW S, \A x \in S : x \in Nat /\ x <= n, S # {}
  PROVE  Max(S) \in S /\ \A x \in S : x <= Max(S)
<1> DEFINE bounds == {u \in Nat : \A x \in S : x <= u}
<1>2. n \in bounds
  OBVIOUS
<1>3. PICK m \in bounds : \A u \in bounds : m <= u
  BY <1>2, LeastNumber
<1>4. m \in S
  <2> SUFFICES ASSUME m \notin S PROVE FALSE
    OBVIOUS
  <2>1. \A x \in S : x <= m - 1
    BY <1>3
  <2>2. m - 1 \in Nat
    BY <1>3, <2>1
  <2>3. m - 1 \in bounds
    BY <2>1, <2>2
  <2> QED BY <2>3, <1>3
<1>5. \A x \in S : x <= m
  BY <1>3
<1> QED BY <1>4, <1>5 DEF Max

LEMMA MinUnique ==
  ASSUME NEW S, \A x \in S : x \in Nat, NEW m \in S, \A x \in S : m <= x
  PROVE  Min(S) = m
<1>1. Min(S) \in S /\ Min(S) <= m
  BY MinIsLeast
<1>2. Min(S) \in Nat /\ m \in Nat /\ m <= Min(S)
  BY <1>1
<1> QED BY <1>1, <1>2

LEMMA MaxUnique ==
  ASSUME NEW n \in Nat, NEW S, \A x \in S : x \in Nat /\ x <= n, NEW m \in S, \A x \in S : x <= m
  PROVE  Max(S) = m
<1>1. Max(S) \in S /\ m <= Max(S)
  BY MaxIsGreatest
<1>2. Max(S) \in Nat /\ m \in Nat /\ Max(S) <= m
  BY <1>1
<1> QED BY <1>1, <1>2

(* -------------------------------- Ranks -------------------------------- *)

LEMMA RankType ==
  ASSUME NEW n \in Nat, NEW S, \A x \in S : x \in Nat /\ x <= n
  PROVE  /\ IsFiniteSet(S) /\ Cardinality(S) \in Nat
         /\ \A j : IsFiniteSet({m \in S : m < j}) /\ Rank(S, j) \in Nat
<1>1. IsFiniteSet(S)
  BY FS_BoundedSetOfNaturals
<1>2. \A T \in SUBSET S : IsFiniteSet(T) /\ Cardinality(T) \in Nat
  BY <1>1, FS_Subset, FS_CardinalityType
<1>3. S \in SUBSET S /\ \A j : {m \in S : m < j} \in SUBSET S
  OBVIOUS
<1> HIDE DEF Rank
<1>4. \A j : IsFiniteSet({m \in S : m < j}) /\ Rank(S, j) \in Nat
  BY <1>2, <1>3 DEF Rank
<1> QED BY <1>2, <1>3, <1>4

(* Ranks grow with the members and are less than their number.             *)
LEMMA RankGrows ==
  ASSUME NEW n \in Nat, NEW S, \A x \in S : x \in Nat /\ x <= n, NEW j \in S
  PROVE  /\ Rank(S, j) < Cardinality(S)
         /\ \A i \in S : i < j => Rank(S, i) < Rank(S, j)
<1>1. IsFiniteSet(S) /\ Cardinality(S) \in Nat /\ \A x \in S : x \in Nat
  BY RankType
<1>2. ASSUME NEW T \in SUBSET S, NEW U \in SUBSET T, NEW x \in T, x \notin U
      PROVE  Cardinality(U) < Cardinality(T)
  <2>1. IsFiniteSet(T)
    BY <1>1, FS_Subset
  <2>2. IsFiniteSet(U) /\ Cardinality(U) <= Cardinality(T)
    BY <2>1, FS_Subset
  <2>3. Cardinality(U) # Cardinality(T)
    BY <2>1, <1>2, FS_Subset
  <2>4. Cardinality(U) \in Nat /\ Cardinality(T) \in Nat
    BY <2>1, <2>2, FS_CardinalityType
  <2> QED BY <2>2, <2>3, <2>4
<1>3. Rank(S, j) < Cardinality(S)
  <2>1. {m \in S : m < j} \in SUBSET S /\ j \notin {m \in S : m < j}
    BY <1>1
  <2> QED BY <2>1, <1>2 DEF Rank
<1>4. ASSUME NEW i \in S, i < j PROVE Rank(S, i) < Rank(S, j)
  <2>1. {m \in S : m < j} \in SUBSET S
    OBVIOUS
  <2>2. {m \in S : m < i} \subseteq {m \in S : m < j}
    BY <1>1, <1>4
  <2>3. i \in {m \in S : m < j} /\ i \notin {m \in S : m < i}
    BY <1>1, <1>4
  <2> QED BY <2>1, <2>2, <2>3, <1>2 DEF Rank
<1> QED BY <1>3, <1>4

LEMMA RankOfMax ==
  ASSUME NEW n \in Nat, NEW S, \A x \in S : x \in Nat /\ x <= n, S # {}
  PROVE  /\ Rank(S, Max(S)) = Cardinality(S) - 1
         /\ \A j \in S : Rank(S, j) = Cardinality(S) - 1 => j = Max(S)
<1>1. Max(S) \in S /\ \A x \in S : x <= Max(S)
  BY MaxIsGreatest
<1>2. Max(S) \in Nat
  BY <1>1
<1>3. {m \in S : m < Max(S)} = S \ {Max(S)}
  <2>1. \A m \in S : m < Max(S) <=> m # Max(S)
    BY <1>1, <1>2
  <2> QED BY <2>1
<1>4. Rank(S, Max(S)) = Cardinality(S) - 1
  BY <1>1, <1>3, RankType, FS_RemoveElement DEF Rank
<1>5. ASSUME NEW j \in S, j # Max(S) PROVE Rank(S, j) < Cardinality(S) - 1
  <2>1. j < Max(S)
    BY <1>1, <1>2, <1>5
  <2> QED BY <2>1, <1>1, <1>4, RankGrows
<1>6. Cardinality(S) \in Nat /\ \A j \in S : Rank(S, j) \in Nat
  BY RankType
<1> QED BY <1>4, <1>5, <1>6

(* Every rank below the number of members is that of one of them.          *)
LEMMA RankOnto ==
  ASSUME NEW n \in Nat, NEW S, \A x \in S : x \in Nat /\ x <= n, NEW r \in 0 .. Cardinality(S) - 1
  PROVE  \E j \in S : Rank(S, j) = r
<1> DEFINE T == 0 .. Cardinality(S) - 1
           f == [j \in S |-> Rank(S, j)]
<1>1. IsFiniteSet(S) /\ Cardinality(S) \in Nat /\ \A j \in S : Rank(S, j) \in Nat
  BY RankType
<1>2. IsFiniteSet(T) /\ Cardinality(T) = Cardinality(S)
  BY <1>1, FS_Interval
<1>3. ASSUME NEW j \in S PROVE Rank(S, j) \in T
  <2>1. Rank(S, j) < Cardinality(S)
    BY RankGrows
  <2> QED BY <1>1, <2>1
<1>4. ASSUME NEW i \in S, NEW j \in S, Rank(S, i) = Rank(S, j) PROVE i = j
  <2>1. i \in Nat /\ j \in Nat
    OBVIOUS
  <2>2. (i < j => Rank(S, i) < Rank(S, j)) /\ (j < i => Rank(S, j) < Rank(S, i))
    BY RankGrows
  <2> QED BY <1>1, <1>4, <2>1, <2>2
<1>5. f \in Injection(S, T)
  BY <1>3, <1>4 DEF Injection, IsInjective
<1>6. f \in Surjection(S, T)
  <2> HIDE DEF f, T
  <2> QED BY <1>1, <1>2, <1>5, FS_Injection
<1>7. QED
  BY <1>6 DEF Surjection

(* A member that comes after all others changes no rank but its own.       *)
LEMMA RankAfter ==
  ASSUME NEW n \in Nat, NEW S, \A x \in S : x \in Nat /\ x <= n
  PROVE  LET T == S \cup {n + 1} IN
         /\ \A x \in T : x \in Nat /\ x <= n + 1
         /\ Cardinality(T) = Cardinality(S) + 1
         /\ \A j \in S : Rank(T, j) = Rank(S, j)
         /\ Rank(T, n + 1) = Cardinality(S)
         /\ Max(T) = n + 1
         /\ Min(T) = IF S = {} THEN n + 1 ELSE Min(S)
<1> DEFINE T == S \cup {n + 1}
<1>1. \A x \in T : x \in Nat /\ x <= n + 1
  OBVIOUS
<1>2. Cardinality(T) = Cardinality(S) + 1
  <2>1. n + 1 \notin S
    OBVIOUS
  <2> QED BY <2>1, RankType, FS_AddElement
<1>3. ASSUME NEW j \in S PROVE Rank(T, j) = Rank(S, j)
  <2>1. {m \in T : m < j} = {m \in S : m < j}
    OBVIOUS
  <2> QED BY <2>1 DEF Rank
<1>4. Rank(T, n + 1) = Cardinality(S)
  <2>1. {m \in T : m < n + 1} = S
    OBVIOUS
  <2> QED BY <2>1 DEF Rank
<1>5. Max(T) = n + 1
  <2>1. n + 1 \in T /\ \A x \in T : x <= n + 1
    OBVIOUS
  <2> QED BY <1>1, <2>1, MaxUnique
<1>6. ASSUME S = {} PROVE Min(T) = n + 1
  <2>1. n + 1 \in T /\ \A x \in T : n + 1 <= x
    BY <1>6
  <2> QED BY <1>1, <2>1, MinUnique
<1>7. ASSUME S # {} PROVE Min(T) = Min(S)
  <2>1. Min(S) \in S /\ \A x \in S : Min(S) <= x
    BY <1>7, MinIsLeast
  <2>2. Min(S) \in T /\ \A x \in T : Min(S) <= x
    BY <2>1
  <2> QED BY <1>1, <2>2, MinUnique
<1> HIDE DEF T
<1>8. /\ \A x \in T : x \in Nat /\ x <= n + 1
      /\ Cardinality(T) = Cardinality(S) + 1
      /\ \A j \in S : Rank(T, j) = Rank(S, j)
      /\ Rank(T, n + 1) = Cardinality(S)
      /\ Max(T) = n + 1
      /\ Min(T) = IF S = {} THEN n + 1 ELSE Min(S)
  BY <1>1, <1>2, <1>3, <1>4, <1>5, <1>6, <1>7
<1> QED BY <1>8 DEF T

(* ------------------------------- Histories ----------------------------- *)

Entry == [frame : Frame, at : Nat]

(* An open run that is still the open run of a longer history extends it.  *)
MayFollow(h, S, e) ==
  /\ ~e.frame.sot
  /\ e.frame.toggle <=> Cardinality(S) % 2 = 1
  /\ e.at - h[Max(S)].at <= SessionTimeout

LEMMA Longer ==
  ASSUME NEW h \in Seq(Entry), NEW e \in Entry
  PROVE  /\ Append(h, e) \in Seq(Entry)
         /\ Len(h) \in Nat /\ Len(Append(h, e)) = Len(h) + 1
         /\ \A j \in Nat : j >= 1 /\ j <= Len(h) => Append(h, e)[j] = h[j]
         /\ Append(h, e)[Len(h) + 1] = e
BY AppendProperties, LenProperties

LEMMA FromType ==
  ASSUME NEW h \in Seq(Entry), NEW k, NEW i \in DOMAIN h
  PROVE  \A j \in From(h, k, i) : j \in Nat /\ j >= 1 /\ j <= Len(h)
BY LenProperties DEF From

LEMMA FromAfter ==
  ASSUME NEW h \in Seq(Entry), NEW e \in Entry, NEW k, NEW i \in 1 .. Len(h) + 1
  PROVE  From(Append(h, e), k, i) =
           IF e.frame.key = k /\ TakesPart(e.frame) THEN From(h, k, i) \cup {Len(h) + 1}
           ELSE From(h, k, i)
<1> DEFINE h2 == Append(h, e)
           n == Len(h)
<1>1. Len(h2) = n + 1 /\ n \in Nat /\ h2[n + 1] = e
      /\ \A j \in Nat : j >= 1 /\ j <= n => h2[j] = h[j]
  BY Longer
<1> HIDE DEF h2, n
<1>2. \A j : j \in From(h2, k, i) <=>
         /\ j \in i .. n + 1
         /\ h2[j].frame.key = k /\ TakesPart(h2[j].frame)
  BY <1>1 DEF From
<1>3. \A j : j \in From(h, k, i) <=>
         /\ j \in i .. n
         /\ h[j].frame.key = k /\ TakesPart(h[j].frame)
  BY DEF From, n
<1>4. \A j : j \in i .. n + 1 <=> j \in i .. n \/ j = n + 1
  BY <1>1 DEF n
<1>5. \A j \in i .. n : h2[j] = h[j]
  BY <1>1 DEF n
<1>6. n + 1 \notin i .. n
  BY <1>1
<1>7. \A j : j \in From(h2, k, i) <=>
         \/ j \in From(h, k, i)
         \/ j = n + 1 /\ e.frame.key = k /\ TakesPart(e.frame)
  BY <1>1, <1>2, <1>3, <1>4, <1>5, <1>6
<1> QED BY <1>7 DEF h2, n

LEMMA NthMember ==
  ASSUME NEW n \in Nat, NEW S, \A x \in S : x \in Nat /\ x <= n,
         NEW m \in 1 .. Cardinality(S)
  PROVE  Nth(S, m) \in S
<1>1. Cardinality(S) \in Nat
  BY RankType
<1>2. m - 1 \in 0 .. Cardinality(S) - 1
  BY <1>1
<1>3. {j \in S : Rank(S, j) = m - 1} # {}
  BY <1>2, RankOnto
<1> QED BY <1>3 DEF Nth

LEMMA ContentsAfter ==
  ASSUME NEW h \in Seq(Entry), NEW e \in Entry, NEW S,
         \A j \in S : j \in Nat /\ j >= 1 /\ j <= Len(h)
  PROVE  Contents(Append(h, e), S) = Contents(h, S)
<1> DEFINE h2 == Append(h, e)
<1>1. ASSUME NEW m \in 1 .. Cardinality(S) PROVE h2[Nth(S, m)] = h[Nth(S, m)]
  <2>1. Nth(S, m) \in S
    BY NthMember, LenProperties
  <2> QED BY <2>1, Longer
<1> QED BY <1>1 DEF Contents

LEMMA ContentsAppend ==
  ASSUME NEW h \in Seq(Entry), NEW e \in Entry, NEW S,
         \A j \in S : j \in Nat /\ j >= 1 /\ j <= Len(h)
  PROVE  Contents(Append(h, e), S \cup {Len(h) + 1}) = Append(Contents(h, S), e.frame.chunk)
<1> DEFINE h2 == Append(h, e)
           n == Len(h)
           T == S \cup {n + 1}
           c == Cardinality(S)
<1>1. n \in Nat /\ h2[n + 1] = e /\ \A j \in S : h2[j] = h[j]
  BY Longer
<1>2. c \in Nat
  BY RankType
<1>3. /\ Cardinality(T) = c + 1
      /\ \A j \in S : Rank(T, j) = Rank(S, j)
      /\ Rank(T, n + 1) = c
  BY <1>1, RankAfter
<1>4. \A j \in S : Rank(S, j) \in Nat /\ Rank(S, j) < c
  <2>1. \A j \in S : Rank(S, j) \in Nat
    BY <1>1, RankType
  <2>2. \A j \in S : Rank(S, j) < c
    BY <1>1, RankGrows
  <2> QED BY <2>1, <2>2
<1>5. \A j : j \in T <=> j \in S \/ j = n + 1
  OBVIOUS
<1> HIDE DEF h2, n, c, T
<1>6. ASSUME NEW m \in 1 .. c PROVE Nth(T, m) = Nth(S, m) /\ Nth(S, m) \in S
  <2>1. \A j : j \in T /\ Rank(T, j) = m - 1 <=> j \in S /\ Rank(S, j) = m - 1
    <3>1. c # m - 1
      BY <1>2
    <3> QED BY <1>3, <1>5, <3>1
  <2>2. {j \in T : Rank(T, j) = m - 1} = {j \in S : Rank(S, j) = m - 1}
    BY <2>1
  <2>3. Nth(T, m) = Nth(S, m)
    BY <2>2 DEF Nth
  <2>4. Nth(S, m) \in S
    BY <1>1, NthMember DEF n, c
  <2> QED BY <2>3, <2>4
<1>7. Nth(T, c + 1) = n + 1
  <2>1. \A j : j \in T /\ Rank(T, j) = (c + 1) - 1 <=> j = n + 1
    <3>1. (c + 1) - 1 = c
      BY <1>2
    <3>2. \A j \in S : Rank(T, j) # c
      BY <1>2, <1>3, <1>4
    <3> QED BY <1>3, <1>5, <3>1, <3>2
  <2>2. {j \in T : Rank(T, j) = (c + 1) - 1} = {n + 1}
    BY <2>1
  <2> QED BY <2>2 DEF Nth
<1>8. Contents(h2, T) = [m \in 1 .. c + 1 |-> IF m = c + 1 THEN e.frame.chunk
                                                ELSE h[Nth(S, m)].frame.chunk]
  <2>1. \A m \in 1 .. c + 1 : m # c + 1 => m \in 1 .. c
    BY <1>2
  <2>2. ASSUME NEW m \in 1 .. c + 1
        PROVE  h2[Nth(T, m)].frame.chunk = IF m = c + 1 THEN e.frame.chunk
                                            ELSE h[Nth(S, m)].frame.chunk
    BY <1>1, <1>6, <1>7, <2>1
  <2> QED BY <1>3, <2>2 DEF Contents
<1>9. Append(Contents(h, S), e.frame.chunk)
        = [m \in 1 .. c + 1 |-> IF m = c + 1 THEN e.frame.chunk
                                ELSE h[Nth(S, m)].frame.chunk]
  <2> DEFINE f == Contents(h, S)
  <2>1. f = [m \in 1 .. c |-> h[Nth(S, m)].frame.chunk]
    BY DEF Contents, c
  <2>2. Len(f) = c /\ DOMAIN f = 1 .. c /\ \A m \in 1 .. c : f[m] = h[Nth(S, m)].frame.chunk
    BY <1>2, <2>1
  <2>3. Append(f, e.frame.chunk) =
          [m \in 1 .. Len(f) + 1 |-> IF m \in 1 .. Len(f) THEN f[m] ELSE e.frame.chunk]
    BY <1>2, <2>1
  <2> QED BY <1>2, <2>2, <2>3
<1> QED BY <1>8, <1>9 DEF h2, n, T

LEMMA RunUnchanged ==
  ASSUME NEW h \in Seq(Entry), NEW e \in Entry, NEW S,
         \A j \in S : j \in Nat /\ j >= 1 /\ j <= Len(h)
  PROVE  IsRun(Append(h, e), S) <=> IsRun(h, S)
<1>1. \A j \in S : Append(h, e)[j] = h[j]
  BY Longer
<1> QED BY <1>1 DEF IsRun, InPlace

(* What a frame makes of a run that it comes after.                        *)
LEMMA RunExtended ==
  ASSUME NEW h \in Seq(Entry), NEW e \in Entry, NEW S, S # {},
         \A j \in S : j \in Nat /\ j >= 1 /\ j <= Len(h)
  PROVE  IsRun(Append(h, e), S \cup {Len(h) + 1}) <=>
           IsRun(h, S) /\ ~h[Max(S)].frame.eot /\ MayFollow(h, S, e)
<1> DEFINE h2 == Append(h, e)
           n == Len(h)
           T == S \cup {n + 1}
           c == Cardinality(S)
<1>1. n \in Nat /\ h2[n + 1] = e /\ (\A j \in S : h2[j] = h[j])
  BY Longer
<1>2. c \in Nat /\ n + 1 \notin S
  BY <1>1, RankType
<1>3. /\ \A j \in S : Rank(T, j) = Rank(S, j)
      /\ Rank(T, n + 1) = c /\ Max(T) = n + 1 /\ Min(T) = Min(S)
  BY <1>1, RankAfter
<1>4. \A j \in S : Rank(S, j) \in Nat /\ Rank(S, j) < c
  <2>1. \A j \in S : Rank(S, j) \in Nat
    BY <1>1, RankType
  <2>2. \A j \in S : Rank(S, j) < c
    BY <1>1, RankGrows
  <2> QED BY <2>1, <2>2
<1>5. /\ Max(S) \in S /\ Min(S) \in S
      /\ \A j \in S : Rank(S, j) + 1 = c <=> j = Max(S)
  <2>1. Max(S) \in S
    BY <1>1, MaxIsGreatest
  <2>2. Min(S) \in S
    BY MinIsLeast
  <2>3. Rank(S, Max(S)) = c - 1 /\ \A j \in S : Rank(S, j) = c - 1 => j = Max(S)
    BY <1>1, RankOfMax
  <2> QED BY <1>2, <1>4, <2>1, <2>2, <2>3
<1>6. \A j : j \in T <=> j \in S \/ j = n + 1
  OBVIOUS
<1> HIDE DEF h2, n, c, T
<1>7. ASSUME NEW j \in S
      PROVE  InPlace(h2, T, j) <=>
               /\ InPlace(h, S, j)
               /\ j = Max(S) => ~h[j].frame.eot /\ e.at - h[j].at <= SessionTimeout
  <2> DEFINE Gaps(g, U) == \A m \in U : Rank(U, m) = Rank(U, j) + 1 =>
                                          g[m].at - g[j].at <= SessionTimeout
  <2>1. Gaps(h2, T) <=> Gaps(h, S) /\ (j = Max(S) => e.at - h[j].at <= SessionTimeout)
    <3>1. Gaps(h2, T) <=>
            /\ \A m \in S : Rank(T, m) = Rank(T, j) + 1 => h2[m].at - h2[j].at <= SessionTimeout
            /\ Rank(T, n + 1) = Rank(T, j) + 1 => h2[n + 1].at - h2[j].at <= SessionTimeout
      BY <1>6
    <3>2. Gaps(h2, T) <=>
            /\ \A m \in S : Rank(S, m) = Rank(S, j) + 1 => h[m].at - h[j].at <= SessionTimeout
            /\ c = Rank(S, j) + 1 => e.at - h[j].at <= SessionTimeout
      BY <1>1, <1>3, <3>1
    <3> QED BY <1>5, <3>2
  <2>2. j # n + 1
    BY <1>2
  <2> HIDE DEF Gaps
  <2>3. InPlace(h, S, j) <=>
          /\ h[j].frame.sot <=> j = Min(S)
          /\ h[j].frame.toggle <=> Rank(S, j) % 2 = 1
          /\ h[j].frame.eot => j = Max(S)
          /\ Gaps(h, S)
    BY DEF InPlace, Gaps
  <2>4. InPlace(h2, T, j) <=>
          /\ h[j].frame.sot <=> j = Min(S)
          /\ h[j].frame.toggle <=> Rank(S, j) % 2 = 1
          /\ ~h[j].frame.eot
          /\ Gaps(h2, T)
    BY <1>1, <1>3, <2>2 DEF InPlace, Gaps
  <2> QED BY <2>1, <2>3, <2>4
<1>8. InPlace(h2, T, n + 1) <=> ~e.frame.sot /\ (e.frame.toggle <=> c % 2 = 1)
  <2>1. \A m \in T : Rank(T, m) # Rank(T, n + 1) + 1
    BY <1>2, <1>3, <1>4, <1>6
  <2>2. n + 1 # Min(S)
    BY <1>2, <1>5
  <2> QED BY <1>1, <1>3, <2>1, <2>2 DEF InPlace
<1>9. IsRun(h2, T) <=> (\A j \in S : InPlace(h2, T, j)) /\ InPlace(h2, T, n + 1)
  BY <1>6 DEF IsRun
<1>10. IsRun(h2, T) <=>
         /\ \A j \in S : InPlace(h, S, j)
         /\ ~h[Max(S)].frame.eot /\ e.at - h[Max(S)].at <= SessionTimeout
         /\ ~e.frame.sot /\ (e.frame.toggle <=> c % 2 = 1)
  BY <1>5, <1>7, <1>8, <1>9
<1> QED BY <1>10 DEF IsRun, MayFollow, h2, n, T, c

(* A frame on its own is a run if it is a first frame.                     *)
LEMMA RunOfOne ==
  ASSUME NEW h \in Seq(Entry), NEW e \in Entry
  PROVE  /\ IsRun(Append(h, e), {Len(h) + 1}) <=> e.frame.sot /\ ~e.frame.toggle
         /\ Max({Len(h) + 1}) = Len(h) + 1 /\ Cardinality({Len(h) + 1}) = 1
         /\ Contents(Append(h, e), {Len(h) + 1}) = <<e.frame.chunk>>
<1> DEFINE h2 == Append(h, e)
           n == Len(h)
           T == {n + 1}
<1>1. n \in Nat /\ h2[n + 1] = e
  BY Longer
<1>2. T = {} \cup {n + 1}
  OBVIOUS
<1>3. Cardinality({}) = 0
  BY FS_EmptySet
<1>4. Rank(T, n + 1) = 0 /\ Max(T) = n + 1 /\ Min(T) = n + 1 /\ Cardinality(T) = 1
  <2> DEFINE U == {} \cup {n + 1}
  <2>1. \A x \in {} : x \in Nat /\ x <= n
    OBVIOUS
  <2>2. Cardinality(U) = Cardinality({}) + 1 /\ Rank(U, n + 1) = Cardinality({}) /\ Max(U) = n + 1
    BY <1>1, <2>1, RankAfter
  <2>3. Min(U) = n + 1
    BY <1>1, <2>1, RankAfter
  <2> QED BY <1>2, <1>3, <2>2, <2>3
<1>5. Contents(h, {}) = <<>>
  BY <1>3 DEF Contents
<1>6. Contents(h2, T) = Append(<<>>, e.frame.chunk)
  BY <1>2, <1>5, ContentsAppend
<1>7. IsRun(h2, T) <=> InPlace(h2, T, n + 1)
  BY DEF IsRun
<1> HIDE DEF h2, T, n
<1>8. InPlace(h2, T, n + 1) <=> e.frame.sot /\ ~e.frame.toggle
  <2>1. \A m \in T : Rank(T, m) # Rank(T, n + 1) + 1
    BY <1>1, <1>4 DEF T
  <2> QED BY <1>1, <1>4, <2>1 DEF InPlace
<1>9. Append(<<>>, e.frame.chunk) = <<e.frame.chunk>>
  OBVIOUS
<1> QED BY <1>4, <1>6, <1>7, <1>8, <1>9 DEF h2, T, n

LEMMA RunMembers ==
  ASSUME NEW h \in Seq(Entry), NEW k, NEW S \in Runs(h, k)
  PROVE  /\ S # {} /\ \A j \in S : j \in Nat /\ j >= 1 /\ j <= Len(h)
         /\ Max(S) \in S /\ Min(S) \in S /\ h[Max(S)] \in Entry
<1>1. PICK i \in DOMAIN h : S = From(h, k, i)
  BY DEF Runs
<1>2. S # {} /\ \A j \in S : j \in Nat /\ j >= 1 /\ j <= Len(h)
  BY <1>1, FromType DEF Runs, IsRun
<1>3. Max(S) \in S
  BY <1>2, MaxIsGreatest, LenProperties
<1>4. Min(S) \in S
  BY <1>2, MinIsLeast
<1>5. Max(S) \in 1 .. Len(h)
  BY <1>2, <1>3, LenProperties
<1>6. h[Max(S)] \in Entry
  BY <1>5, ElementOfSeq
<1> QED BY <1>2, <1>3, <1>4, <1>6

(* The first frame of the later of two runs would be in the earlier one,   *)
(* and not at its start.                                                   *)
LEMMA OneRunPerKey ==
  ASSUME NEW h \in Seq(Entry), NEW k, NEW S \in Runs(h, k), NEW T \in Runs(h, k)
  PROVE  S = T
<1>1. ASSUME NEW i \in DOMAIN h, NEW j \in DOMAIN h, i <= j,
             IsRun(h, From(h, k, i)), IsRun(h, From(h, k, j))
      PROVE  From(h, k, i) = From(h, k, j)
  <2> DEFINE A == From(h, k, i)
             B == From(h, k, j)
             m == Min(B)
  <2>1. i \in Nat /\ j \in Nat /\ Len(h) \in Nat
    BY LenProperties
  <2>2. A \in Runs(h, k) /\ B \in Runs(h, k)
    BY <1>1 DEF Runs
  <2>3. m \in B
    BY <2>2, RunMembers
  <2>4. \A x : x \in A <=> x \in i .. Len(h) /\ h[x].frame.key = k /\ TakesPart(h[x].frame)
    BY DEF From
  <2>5. \A x : x \in B <=> x \in j .. Len(h) /\ h[x].frame.key = k /\ TakesPart(h[x].frame)
    BY DEF From
  <2> HIDE DEF A, B
  <2>6. \A x : x \in B => x \in A
    BY <1>1, <2>1, <2>4, <2>5
  <2>7. h[m].frame.sot
    BY <1>1, <2>3 DEF IsRun, InPlace, B
  <2>8. m = Min(A)
    BY <1>1, <2>3, <2>6, <2>7 DEF IsRun, InPlace, A
  <2>9. \A x \in A : x \in Nat /\ m <= x
    BY <1>1, <2>8, <2>2, RunMembers, MinIsLeast
  <2>10. \A x \in A : x >= j
    BY <2>1, <2>3, <2>5, <2>9
  <2>11. \A x : x \in A => x \in B
    BY <1>1, <2>1, <2>4, <2>5, <2>10
  <2> QED BY <2>6, <2>11 DEF A, B
<1>2. PICK i \in DOMAIN h, j \in DOMAIN h :
        S = From(h, k, i) /\ T = From(h, k, j) /\ IsRun(h, S) /\ IsRun(h, T)
  BY DEF Runs
<1>3. i <= j \/ j <= i
  BY LenProperties
<1> QED BY <1>1, <1>2, <1>3

(* The runs of a key after one more frame, which takes part or not.        *)
LEMMA RunsUnaffected ==
  ASSUME NEW h \in Seq(Entry), NEW e \in Entry, NEW k,
         ~(e.frame.key = k /\ TakesPart(e.frame))
  PROVE  Runs(Append(h, e), k) = Runs(h, k)
<1> DEFINE h2 == Append(h, e)
<1>1. Len(h) \in Nat /\ DOMAIN h = 1 .. Len(h) /\ DOMAIN h2 = 1 .. Len(h) + 1
  BY Longer, LenProperties
<1>2. \A i \in 1 .. Len(h) + 1 : From(h2, k, i) = From(h, k, i)
  BY FromAfter
<1>3. From(h, k, Len(h) + 1) = {}
  BY <1>1 DEF From
<1>4. \A i \in 1 .. Len(h) : IsRun(h2, From(h, k, i)) <=> IsRun(h, From(h, k, i))
  BY <1>1, FromType, RunUnchanged
<1>5. ~IsRun(h2, From(h, k, Len(h) + 1))
  BY <1>3 DEF IsRun
<1>6. \A i \in 1 .. Len(h) + 1 : i \in 1 .. Len(h) \/ i = Len(h) + 1
  BY <1>1
<1>7. 1 .. Len(h) \subseteq 1 .. Len(h) + 1
  BY <1>1
<1> HIDE DEF h2
<1>8. \A S : S \in Runs(h2, k) <=> \E i \in 1 .. Len(h) + 1 : S = From(h, k, i) /\ IsRun(h2, S)
  BY <1>1, <1>2 DEF Runs
<1>9. \A S : S \in Runs(h, k) <=> \E i \in 1 .. Len(h) : S = From(h, k, i) /\ IsRun(h, S)
  BY <1>1 DEF Runs
<1>10. \A S : S \in Runs(h2, k) <=> S \in Runs(h, k)
  BY <1>4, <1>5, <1>6, <1>7, <1>8, <1>9
<1> QED BY <1>10 DEF h2

LEMMA RunsAfter ==
  ASSUME NEW h \in Seq(Entry), NEW e \in Entry, TakesPart(e.frame), NEW T
  PROVE  T \in Runs(Append(h, e), e.frame.key) <=>
           \/ T = {Len(h) + 1} /\ e.frame.sot /\ ~e.frame.toggle
           \/ \E S \in OpenRuns(h, e.frame.key) : T = S \cup {Len(h) + 1} /\ MayFollow(h, S, e)
<1> DEFINE h2 == Append(h, e)
           k == e.frame.key
           n == Len(h)
<1>1. n \in Nat /\ DOMAIN h = 1 .. n /\ DOMAIN h2 = 1 .. n + 1
  BY Longer, LenProperties
<1>2. \A i \in 1 .. n + 1 : From(h2, k, i) = From(h, k, i) \cup {n + 1}
  BY FromAfter
<1>3. From(h, k, n + 1) = {}
  BY <1>1 DEF From
<1>4. IsRun(h2, {n + 1}) <=> e.frame.sot /\ ~e.frame.toggle
  BY RunOfOne
<1>5. ASSUME NEW i \in 1 .. n, From(h, k, i) # {}
      PROVE  IsRun(h2, From(h, k, i) \cup {n + 1}) <=>
               From(h, k, i) \in OpenRuns(h, k) /\ MayFollow(h, From(h, k, i), e)
  <2> DEFINE S == From(h, k, i)
  <2>1. \A j \in S : j \in Nat /\ j >= 1 /\ j <= n
    BY <1>1, FromType
  <2>2. S \in OpenRuns(h, k) <=> IsRun(h, S) /\ ~h[Max(S)].frame.eot
    BY <1>1 DEF OpenRuns, Runs
  <2> HIDE DEF S
  <2> QED BY <1>5, <2>1, <2>2, RunExtended DEF S
<1>6. \A S \in OpenRuns(h, k) : \E i \in 1 .. n : S = From(h, k, i) /\ From(h, k, i) # {}
  BY <1>1 DEF OpenRuns, Runs, IsRun
<1> HIDE DEF h2, k, n
<1>7. T \in Runs(h2, k) <=>
        \E i \in 1 .. n + 1 : T = From(h, k, i) \cup {n + 1} /\ IsRun(h2, T)
  BY <1>1, <1>2 DEF Runs
<1>8. n + 1 \in 1 .. n + 1 /\ 1 .. n \subseteq 1 .. n + 1
      /\ \A i \in 1 .. n + 1 : i \in 1 .. n \/ i = n + 1
  BY <1>1
<1>9. ASSUME T \in Runs(h2, k)
      PROVE  \/ T = {n + 1} /\ e.frame.sot /\ ~e.frame.toggle
             \/ \E S \in OpenRuns(h, k) : T = S \cup {n + 1} /\ MayFollow(h, S, e)
  <2>1. PICK i \in 1 .. n + 1 : T = From(h, k, i) \cup {n + 1} /\ IsRun(h2, T)
    BY <1>7, <1>9
  <2>2. CASE From(h, k, i) = {}
    BY <1>4, <2>1, <2>2
  <2>3. CASE From(h, k, i) # {}
    BY <1>3, <1>5, <1>8, <2>1, <2>3
  <2> QED BY <2>2, <2>3
<1>10. ASSUME T = {n + 1}, e.frame.sot, ~e.frame.toggle
       PROVE  T \in Runs(h2, k)
  BY <1>3, <1>4, <1>7, <1>8, <1>10
<1>11. ASSUME NEW S \in OpenRuns(h, k), T = S \cup {n + 1}, MayFollow(h, S, e)
       PROVE  T \in Runs(h2, k)
  BY <1>5, <1>6, <1>7, <1>8, <1>11
<1> QED BY <1>9, <1>10, <1>11 DEF h2, k, n

(* ------------------------- Sessions and open runs ---------------------- *)

Describes(s, h, S) ==
  /\ s.payload = Contents(h, S)
  /\ s.ts = h[Max(S)].at
  /\ s.expectedToggle <=> Cardinality(S) % 2 = 1

(* At time t, s is what the reassembler needs to know of the frames of k.  *)
Tracks(s, h, k, t) ==
  /\ s # NoSession => \E S \in OpenRuns(h, k) : Describes(s, h, S)
  /\ s = NoSession => \A S \in OpenRuns(h, k) : t - h[Max(S)].at > SessionTimeout

(* The inductive invariant: types, and every session tracks its key.       *)
Tracking ==
  /\ TypeOK
  /\ heard \in Seq(Entry)
  /\ \A k \in Key : Tracks(sessions[k], heard, k, now)

RInv == Tracking /\ ReturnsCompletedRuns

LEMMA OpenRunType ==
  ASSUME NEW h \in Seq(Entry), NEW k, NEW S \in OpenRuns(h, k)
  PROVE  /\ S \in Runs(h, k) /\ h[Max(S)].at \in Nat /\ ~h[Max(S)].frame.eot
         /\ \A j \in S : j \in Nat /\ j >= 1 /\ j <= Len(h)
         /\ Max(S) \in S
         /\ \A T \in OpenRuns(h, k) : T = S
BY RunMembers, OneRunPerKey DEF OpenRuns, Entry

LEMMA TracksLater ==
  ASSUME NEW h \in Seq(Entry), NEW k, NEW s, NEW t \in Nat, Tracks(s, h, k, t)
  PROVE  Tracks(s, h, k, t + 1)
<1>1. SessionTimeout \in Nat
  BY ReassemblerAssumption
<1>2. ASSUME NEW S \in OpenRuns(h, k), t - h[Max(S)].at > SessionTimeout
      PROVE  (t + 1) - h[Max(S)].at > SessionTimeout
  BY <1>1, <1>2, OpenRunType
<1> QED BY <1>2 DEF Tracks

LEMMA TracksUnaffected ==
  ASSUME NEW h \in Seq(Entry), NEW e \in Entry, NEW k, NEW s, NEW t,
         ~(e.frame.key = k /\ TakesPart(e.frame)), Tracks(s, h, k, t)
  PROVE  Tracks(s, Append(h, e), k, t)
<1> DEFINE h2 == Append(h, e)
<1>1. ASSUME NEW S \in Runs(h, k)
      PROVE  h2[Max(S)] = h[Max(S)] /\ Contents(h2, S) = Contents(h, S)
  BY RunMembers, Longer, ContentsAfter
<1>2. Runs(h2, k) = Runs(h, k)
  BY RunsUnaffected
<1> HIDE DEF h2
<1>3. OpenRuns(h2, k) = OpenRuns(h, k)
  BY <1>1, <1>2 DEF OpenRuns
<1>4. \A S \in OpenRuns(h, k) : S \in Runs(h, k)
  BY DEF OpenRuns
<1>5. Tracks(s, h2, k, t)
  BY <1>1, <1>3, <1>4 DEF Tracks, Describes
<1> QED BY <1>5 DEF h2

(* The clean-up takes a session exactly when its run cannot go on.         *)
LEMMA LiveTracks ==
  ASSUME Tracking, NEW k \in Key
  PROVE  /\ Tracks(Live(k), heard, k, now)
         /\ Live(k) \in Session \cup {NoSession}
         /\ Live(k) # NoSession =>
              /\ Live(k) = sessions[k] /\ Live(k) \in Session
              /\ now - Live(k).ts <= SessionTimeout
<1>1. /\ Tracks(sessions[k], heard, k, now) /\ now \in Nat /\ SessionTimeout \in Nat
      /\ sessions[k] \in Session \cup {NoSession} /\ heard \in Seq(Entry)
  BY ReassemblerAssumption DEF RInv, Tracking, TypeOK
<1>2. CASE sessions[k] = NoSession
  BY <1>1, <1>2 DEF Live, Stale
<1>3. CASE sessions[k] # NoSession
  <2>1. sessions[k] \in Session /\ sessions[k].ts \in Nat
    BY <1>1, <1>3 DEF Session
  <2>2. PICK S \in OpenRuns(heard, k) : Describes(sessions[k], heard, S)
    BY <1>1, <1>3 DEF Tracks
  <2>3. CASE now - sessions[k].ts > SessionTimeout
    <3>1. \A T \in OpenRuns(heard, k) : T = S
      BY <1>1, OpenRunType
    <3>2. now - heard[Max(S)].at > SessionTimeout
      BY <2>2, <2>3 DEF Describes
    <3>3. Live(k) = NoSession
      BY <1>3, <2>3 DEF Live, Stale
    <3> QED BY <3>1, <3>2, <3>3 DEF Tracks
  <2>4. CASE ~(now - sessions[k].ts > SessionTimeout)
    <3>1. Live(k) = sessions[k]
      BY <2>4 DEF Live, Stale
    <3>2. now - sessions[k].ts <= SessionTimeout
      BY <1>1, <2>1, <2>4
    <3> QED BY <1>1, <2>1, <3>1, <3>2
  <2> QED BY <2>3, <2>4
<1> QED BY <1>2, <1>3

(* ------------------------ What the last frame is owed ------------------ *)

LEMMA OwedSingle ==
  ASSUME NEW h \in Seq(Entry), NEW e \in Entry, ~TakesPart(e.frame)
  PROVE  Owed(Append(h, e)) =
           IF e.frame.eot /\ ~e.frame.toggle THEN {<<e.frame.chunk>>} ELSE {}
<1> DEFINE h2 == Append(h, e)
<1>1. Len(h) \in Nat /\ Len(h2) = Len(h) + 1 /\ Newest(h2) = e.frame
  BY Longer DEF Newest
<1>2. \A S \in Runs(h2, e.frame.key) : Max(S) # Len(h2)
  <2>1. ASSUME NEW S \in Runs(h, e.frame.key) PROVE Max(S) <= Len(h) /\ Max(S) \in Nat
    BY RunMembers
  <2> QED BY <1>1, <2>1, RunsUnaffected
<1>3. e.frame.sot
  BY DEF TakesPart
<1> HIDE DEF h2
<1>4. Owed(h2) = IF e.frame.eot /\ ~e.frame.toggle THEN {<<e.frame.chunk>>} ELSE {}
  BY <1>1, <1>2, <1>3 DEF Owed
<1> QED BY <1>4 DEF h2

LEMMA OwedMulti ==
  ASSUME NEW h \in Seq(Entry), NEW e \in Entry, TakesPart(e.frame)
  PROVE  \A p : p \in Owed(Append(h, e)) <=>
           /\ e.frame.eot /\ ~TooShort(p)
           /\ e.frame.key \in Registered => CrcOk(e.frame.key, p)
           /\ \E T \in Runs(Append(h, e), e.frame.key) : p = Contents(Append(h, e), T)
<1> DEFINE h2 == Append(h, e)
           k == e.frame.key
<1>1. Len(h) \in Nat /\ Len(h2) = Len(h) + 1 /\ Newest(h2) = e.frame
  BY Longer DEF Newest
<1>2. ASSUME NEW T \in Runs(h2, k) PROVE Max(T) = Len(h2)
  <2>1. CASE T = {Len(h) + 1}
    BY <1>1, <2>1, RunOfOne
  <2>2. ASSUME NEW S \in OpenRuns(h, k), T = S \cup {Len(h) + 1} PROVE Max(T) = Len(h2)
    <3>1. \A j \in S : j \in Nat /\ j <= Len(h)
      BY OpenRunType
    <3> QED BY <1>1, <2>2, <3>1, RankAfter
  <2> QED BY <2>1, <2>2, RunsAfter
<1>3. ~(e.frame.sot /\ e.frame.eot)
  BY DEF TakesPart
<1> HIDE DEF h2, k
<1>4. \A p : p \in Owed(h2) <=>
           /\ e.frame.eot /\ ~TooShort(p)
           /\ k \in Registered => CrcOk(k, p)
           /\ \E T \in Runs(h2, k) : p = Contents(h2, T)
  BY <1>1, <1>2, <1>3 DEF Owed, k
<1> QED BY <1>4 DEF h2, k

(* ----------------------------- Type correctness ------------------------ *)

LEMMA StoreTypes ==
  ASSUME TypeOK, NEW k, NEW s \in Session \cup {NoSession}, Store(k, s)
  PROVE  sessions' \in [Key -> Session \cup {NoSession}]
<1>1. \A j \in Key : Live(j) \in Session \cup {NoSession}
  BY DEF TypeOK, Live
<1> QED BY <1>1 DEF Store

LEMMA VerdictType ==
  ASSUME NEW k \in Key, NEW p \in Seq(Chunk)
  PROVE  Verdict(k, p) \in Output \cup {None} /\ Return(k, p) \in Output
BY DEF Verdict, Return, Output

LEMMA InSequenceType ==
  ASSUME TypeOK, NEW f \in Frame, InSequence(f)
  PROVE  /\ sessions[f.key] \in Session /\ Live(f.key) = sessions[f.key]
         /\ Live(f.key) # NoSession
         /\ Extended(f) \in Seq(Chunk)
<1>1. f.key \in Key /\ f.chunk \in Chunk
  BY DEF Frame
<1>2. Live(f.key) # NoSession /\ Live(f.key) = sessions[f.key]
  BY DEF InSequence, Meets, Live
<1>3. sessions[f.key] \in Session
  BY <1>1, <1>2 DEF TypeOK
<1>4. sessions[f.key].payload \in Seq(Chunk)
  BY <1>3 DEF Session
<1>5. Extended(f) \in Seq(Chunk)
  BY <1>1, <1>4, AppendProperties DEF Extended
<1> QED BY <1>2, <1>3, <1>5

LEMMA ProcessFrameTypes ==
  ASSUME TypeOK, NEW f \in Frame, ProcessFrame(f)
  PROVE  TypeOK'
<1>0. /\ f.key \in Key /\ f.chunk \in Chunk /\ now \in Nat
      /\ f.sot \in BOOLEAN /\ f.eot \in BOOLEAN /\ f.toggle \in BOOLEAN
  BY DEF Frame, TypeOK
<1>1. CASE SingleFrame(f)
  <2>1. <<f.chunk>> \in Seq(Chunk)
    BY <1>0
  <2>2. Return(f.key, <<f.chunk>>) \in Output
    BY <1>0, <2>1, VerdictType
  <2> QED BY <1>1, <2>2 DEF SingleFrame, TypeOK
<1>2. CASE StartTransfer(f)
  <2>1. [payload |-> <<f.chunk>>, expectedToggle |-> TRUE, ts |-> now] \in Session
    BY <1>0 DEF Session
  <2>2. Live(f.key) \in Session \cup {NoSession}
    BY <1>0 DEF TypeOK, Live
  <2> QED BY <1>2, <2>1, <2>2, StoreTypes DEF StartTransfer, TypeOK
<1>3. CASE Orphan(f)
  BY <1>3, StoreTypes DEF Orphan, TypeOK
<1>4. CASE ToggleMismatch(f)
  BY <1>4, StoreTypes DEF ToggleMismatch, TypeOK
<1>5. CASE MiddleFrame(f)
  <2>1. sessions[f.key] \in Session /\ Extended(f) \in Seq(Chunk)
    BY <1>5, InSequenceType DEF MiddleFrame
  <2>2. [payload |-> Extended(f), expectedToggle |-> ~sessions[f.key].expectedToggle,
         ts |-> now] \in Session
    BY <1>0, <2>1 DEF Session
  <2> QED BY <1>5, <2>2, StoreTypes DEF MiddleFrame, TypeOK
<1>6. CASE LastFrame(f)
  <2>1. Extended(f) \in Seq(Chunk)
    BY <1>6, InSequenceType DEF LastFrame
  <2>2. Verdict(f.key, Extended(f)) \in Output \cup {None}
    BY <1>0, <2>1, VerdictType
  <2> QED BY <1>6, <2>2, StoreTypes DEF LastFrame, TypeOK
<1> QED BY <1>1, <1>2, <1>3, <1>4, <1>5, <1>6 DEF ProcessFrame

(* The sessions, the clock and the result keep their types, for any frames *)
(* at any times (reassembler.py:35-165).                                   *)
THEOREM ReassemblerTypeOK == Spec => []TypeOK
<1>1. Init => TypeOK
  BY DEF Init, TypeOK
<1>2. TypeOK /\ [Next]_vars => TypeOK'
  <2> SUFFICES ASSUME TypeOK, [Next]_vars PROVE TypeOK'
    OBVIOUS
  <2>1. CASE EmptyFrame
    BY <2>1 DEF EmptyFrame, TypeOK
  <2>2. ASSUME NEW f \in Frame, ProcessFrame(f) PROVE TypeOK'
    BY <2>2, ProcessFrameTypes
  <2>3. CASE Advance
    BY <2>3 DEF Advance, TypeOK
  <2>4. CASE UNCHANGED vars
    BY <2>4 DEF vars, TypeOK
  <2> QED BY <2>1, <2>2, <2>3, <2>4 DEF Next
<1> QED BY <1>1, <1>2, PTL DEF Spec

(* ------------------------------- The steps ----------------------------- *)

(* What every step of a frame has to show of the frame's own key.          *)
LEMMA ReceiveTracks ==
  ASSUME Tracking, NEW f \in Frame, Receive(f)
  PROVE  /\ \A k \in Key : Tracks(sessions'[k], heard', k, now)
         /\ ReturnsCompletedRuns'
<1> DEFINE e == [frame |-> f, at |-> now]
           h2 == Append(heard, e)
           key == f.key
           n == Len(heard)
<1>1. /\ f.sot \in BOOLEAN /\ f.eot \in BOOLEAN /\ f.toggle \in BOOLEAN
      /\ key \in Key /\ f.chunk \in Chunk
  BY DEF Frame
<1>2. /\ heard \in Seq(Entry) /\ now \in Nat /\ TypeOK /\ SessionTimeout \in Nat
      /\ NoSession \notin Session /\ None \notin Output
      /\ \A k \in Key : Tracks(sessions[k], heard, k, now)
      /\ sessions \in [Key -> Session \cup {NoSession}]
  BY ReassemblerAssumption DEF RInv, Tracking, TypeOK
<1>3. e \in Entry /\ e.frame = f /\ e.at = now
  BY <1>2 DEF Entry
<1>4. h2 \in Seq(Entry) /\ n \in Nat /\ Len(h2) = n + 1 /\ h2[n + 1] = e
      /\ \A j \in Nat : j >= 1 /\ j <= n => h2[j] = heard[j]
  BY <1>2, <1>3, Longer
<1>5. heard' = h2 /\ h2 # <<>> /\ Newest(h2) = f
  BY <1>3, <1>4 DEF Receive, Newest
<1>6. ProcessFrame(f)
  BY DEF Receive
<1> HIDE DEF e, h2, n, key
<1>7. \A k \in Key : (k # key \/ ~TakesPart(f)) =>
         Tracks(sessions[k], h2, k, now) /\ Tracks(Live(k), h2, k, now)
  <2> SUFFICES ASSUME NEW k \in Key, k # key \/ ~TakesPart(f)
               PROVE  Tracks(sessions[k], h2, k, now) /\ Tracks(Live(k), h2, k, now)
    OBVIOUS
  <2>1. Tracks(sessions[k], heard, k, now) /\ Tracks(Live(k), heard, k, now)
    BY <1>2, LiveTracks
  <2> QED BY <1>2, <1>3, <2>1, TracksUnaffected DEF h2, key
<1>8. ASSUME NEW s, Store(key, s)
      PROVE  sessions'[key] = s /\ \A k \in Key : k # key => sessions'[k] = Live(k)
  BY <1>1, <1>8 DEF Store
<1>9. ReturnsCompletedRuns' <=>
        IF out' = None THEN Owed(h2) = {} ELSE out'.key = key /\ Owed(h2) = {out'.payload}
  BY <1>5 DEF ReturnsCompletedRuns, key
<1>10. ASSUME ~TakesPart(f)
       PROVE  Owed(h2) = IF f.eot /\ ~f.toggle THEN {<<f.chunk>>} ELSE {}
  BY <1>2, <1>3, <1>10, OwedSingle DEF h2
<1>11. ASSUME TakesPart(f)
       PROVE  \A p : p \in Owed(h2) <=>
                /\ f.eot /\ ~TooShort(p)
                /\ key \in Registered => CrcOk(key, p)
                /\ \E T \in Runs(h2, key) : p = Contents(h2, T)
  BY <1>2, <1>3, <1>11, OwedMulti DEF h2, key
<1>12. ASSUME TakesPart(f)
       PROVE  \A T : T \in Runs(h2, key) <=>
                \/ T = {n + 1} /\ f.sot /\ ~f.toggle
                \/ \E S \in OpenRuns(heard, key) : T = S \cup {n + 1} /\ MayFollow(heard, S, e)
  BY <1>2, <1>3, <1>12, RunsAfter DEF h2, key, n
<1>13. ASSUME Runs(h2, key) = {} PROVE Tracks(NoSession, h2, key, now)
  BY <1>13 DEF Tracks, OpenRuns
<1>14. CASE SingleFrame(f)
  <2>1. ~TakesPart(f)
    BY <1>14 DEF SingleFrame, TakesPart
  <2>2. Return(key, <<f.chunk>>) # None
    <3>1. <<f.chunk>> \in Seq(Chunk)
      BY <1>1
    <3> QED BY <1>1, <1>2, <3>1, VerdictType
  <2>3. ReturnsCompletedRuns'
    BY <1>9, <1>10, <1>14, <2>1, <2>2 DEF SingleFrame, Return, key
  <2>4. sessions' = sessions
    BY <1>14 DEF SingleFrame
  <2> QED BY <1>5, <1>7, <2>1, <2>3, <2>4
<1>15. CASE StartTransfer(f) /\ f.toggle
  <2>1. ~TakesPart(f) /\ out' = None /\ Store(key, Live(key))
    BY <1>15 DEF StartTransfer, TakesPart, key
  <2>2. ReturnsCompletedRuns'
    BY <1>9, <1>10, <1>15, <2>1
  <2>3. \A k \in Key : sessions'[k] = Live(k)
    BY <1>8, <2>1
  <2> QED BY <1>5, <1>7, <2>1, <2>2, <2>3
<1>16. CASE StartTransfer(f) /\ ~f.toggle
  <2> DEFINE s == [payload |-> <<f.chunk>>, expectedToggle |-> TRUE, ts |-> now]
  <2>1. TakesPart(f) /\ f.sot /\ ~f.eot /\ out' = None /\ Store(key, s)
    BY <1>16 DEF StartTransfer, TakesPart, key
  <2>2. ReturnsCompletedRuns'
    BY <1>9, <1>11, <2>1
  <2>3. /\ {n + 1} \in Runs(h2, key)
        /\ Max({n + 1}) = n + 1 /\ Cardinality({n + 1}) = 1
        /\ Contents(h2, {n + 1}) = <<f.chunk>>
    BY <1>2, <1>3, <1>12, <1>16, <2>1, RunOfOne DEF h2, n
  <2>4. Describes(s, h2, {n + 1})
    BY <1>3, <1>4, <2>3 DEF Describes
  <2>5. {n + 1} \in OpenRuns(h2, key)
    BY <1>3, <1>4, <2>1, <2>3 DEF OpenRuns
  <2>6. s \in Session /\ s # NoSession
    <3>1. <<f.chunk>> \in Seq(Chunk)
      BY <1>1
    <3>2. s \in Session
      BY <1>2, <3>1 DEF Session
    <3> QED BY <1>2, <3>2
  <2>7. Tracks(s, h2, key, now)
    BY <2>4, <2>5, <2>6 DEF Tracks
  <2> HIDE DEF s
  <2> QED BY <1>5, <1>7, <1>8, <2>1, <2>2, <2>7
<1>17. CASE Orphan(f)
  <2>1. TakesPart(f) /\ out' = None /\ Store(key, NoSession) /\ Live(key) = NoSession /\ ~f.sot
    BY <1>17 DEF Orphan, TakesPart, key
  <2>2. \A S \in OpenRuns(heard, key) : now - heard[Max(S)].at > SessionTimeout
    BY <1>1, <2>1, LiveTracks DEF Tracks
  <2>3. \A S \in OpenRuns(heard, key) : ~MayFollow(heard, S, e)
    BY <1>2, <1>3, <2>2, OpenRunType DEF MayFollow
  <2>4. Runs(h2, key) = {}
    BY <1>12, <2>1, <2>3
  <2>5. ReturnsCompletedRuns'
    BY <1>9, <1>11, <2>1, <2>4
  <2> QED BY <1>5, <1>7, <1>8, <1>13, <2>1, <2>4, <2>5
<1>18. ASSUME Meets(f)
       PROVE  /\ sessions[key] \in Session /\ Live(key) = sessions[key]
              /\ \E S \in OpenRuns(heard, key) :
                   /\ Describes(sessions[key], heard, S)
                   /\ \A T \in OpenRuns(heard, key) : T = S
                   /\ MayFollow(heard, S, e) <=> f.toggle = sessions[key].expectedToggle
  <2>1. /\ Live(key) # NoSession /\ ~f.sot
        /\ Live(key) = sessions[key] /\ sessions[key] \in Session
        /\ now - sessions[key].ts <= SessionTimeout
    BY <1>1, <1>18, LiveTracks DEF Meets, key
  <2>2. PICK S \in OpenRuns(heard, key) : Describes(sessions[key], heard, S)
    BY <1>1, <1>2, <2>1 DEF Tracks
  <2>3. \A T \in OpenRuns(heard, key) : T = S
    BY <1>2, OpenRunType
  <2>4. now - heard[Max(S)].at <= SessionTimeout
    BY <2>1, <2>2 DEF Describes
  <2>5. sessions[key].expectedToggle \in BOOLEAN
    BY <2>1 DEF Session
  <2>6. MayFollow(heard, S, e) <=> f.toggle = sessions[key].expectedToggle
    BY <1>1, <1>3, <2>1, <2>2, <2>4, <2>5 DEF MayFollow, Describes
  <2> QED BY <2>1, <2>2, <2>3, <2>6
<1>19. CASE ToggleMismatch(f)
  <2>1. /\ TakesPart(f) /\ out' = None /\ Store(key, NoSession) /\ ~f.sot
        /\ Meets(f) /\ f.toggle # sessions[key].expectedToggle
    BY <1>19 DEF ToggleMismatch, Meets, TakesPart, key
  <2>2. \A S \in OpenRuns(heard, key) : ~MayFollow(heard, S, e)
    BY <1>18, <2>1
  <2>3. Runs(h2, key) = {}
    BY <1>12, <2>1, <2>2
  <2>4. ReturnsCompletedRuns'
    BY <1>9, <1>11, <2>1, <2>3
  <2> QED BY <1>5, <1>7, <1>8, <1>13, <2>1, <2>3, <2>4
(* A frame in sequence: the only run of its key is the open one and it.    *)
<1>20. ASSUME InSequence(f)
       PROVE  /\ TakesPart(f) /\ sessions[key] \in Session
              /\ \E S \in OpenRuns(heard, key) :
                   /\ Describes(sessions[key], heard, S)
                   /\ Runs(h2, key) = {S \cup {n + 1}}
                   /\ Contents(h2, S \cup {n + 1}) = Extended(f)
                   /\ Max(S \cup {n + 1}) = n + 1
                   /\ Cardinality(S \cup {n + 1}) = Cardinality(S) + 1 /\ Cardinality(S) \in Nat
  <2>1. Meets(f) /\ ~f.sot /\ f.toggle = sessions[key].expectedToggle /\ TakesPart(f)
    BY <1>20 DEF InSequence, Meets, TakesPart, key
  <2>2. PICK S \in OpenRuns(heard, key) :
          /\ Describes(sessions[key], heard, S)
          /\ \A T \in OpenRuns(heard, key) : T = S
          /\ MayFollow(heard, S, e)
    BY <1>18, <2>1
  <2>3. Runs(h2, key) = {S \cup {n + 1}}
    BY <1>12, <2>1, <2>2
  <2>4. \A j \in S : j \in Nat /\ j >= 1 /\ j <= n
    BY <1>2, OpenRunType DEF n
  <2>5. Contents(h2, S \cup {n + 1}) = Append(Contents(heard, S), f.chunk)
    BY <1>2, <1>3, <2>4, ContentsAppend DEF h2, n
  <2>6. Contents(h2, S \cup {n + 1}) = Extended(f)
    BY <2>2, <2>5 DEF Extended, Describes, key
  <2>7. /\ Max(S \cup {n + 1}) = n + 1
        /\ Cardinality(S \cup {n + 1}) = Cardinality(S) + 1 /\ Cardinality(S) \in Nat
    BY <1>4, <2>4, RankAfter, RankType
  <2> QED BY <1>18, <2>1, <2>2, <2>3, <2>6, <2>7
<1>21. CASE MiddleFrame(f)
  <2> DEFINE s == [payload |-> Extended(f), expectedToggle |-> ~sessions[key].expectedToggle,
                   ts |-> now]
  <2>1. InSequence(f) /\ ~f.eot /\ out' = None /\ Store(key, s)
    BY <1>21 DEF MiddleFrame, key
  <2>2. PICK S \in OpenRuns(heard, key) :
          /\ Describes(sessions[key], heard, S)
          /\ Runs(h2, key) = {S \cup {n + 1}}
          /\ Contents(h2, S \cup {n + 1}) = Extended(f)
          /\ Max(S \cup {n + 1}) = n + 1
          /\ Cardinality(S \cup {n + 1}) = Cardinality(S) + 1 /\ Cardinality(S) \in Nat
    BY <1>20, <2>1
  <2>3. S \cup {n + 1} \in OpenRuns(h2, key)
    BY <1>3, <1>4, <2>1, <2>2 DEF OpenRuns
  <2>4. sessions[key].expectedToggle \in BOOLEAN
    BY <1>20, <2>1 DEF Session
  <2>5. s.expectedToggle <=> Cardinality(S \cup {n + 1}) % 2 = 1
    <3>1. sessions[key].expectedToggle <=> Cardinality(S) % 2 = 1
      BY <2>2 DEF Describes
    <3>2. (Cardinality(S) + 1) % 2 = 1 <=> Cardinality(S) % 2 # 1
      BY <2>2
    <3> QED BY <2>2, <2>4, <3>1, <3>2
  <2>6. Describes(s, h2, S \cup {n + 1})
    BY <1>3, <1>4, <2>2, <2>5 DEF Describes
  <2>7. s # NoSession
    <3>1. Extended(f) \in Seq(Chunk)
      BY <1>2, <2>1, InSequenceType
    <3>2. s \in Session
      BY <1>2, <2>4, <3>1 DEF Session
    <3> QED BY <1>2, <3>2
  <2>8. Tracks(s, h2, key, now)
    BY <2>3, <2>6, <2>7 DEF Tracks
  <2> HIDE DEF s
  <2>9. ReturnsCompletedRuns'
    BY <1>9, <1>11, <1>20, <2>1
  <2> QED BY <1>5, <1>7, <1>8, <2>1, <2>8, <2>9
<1>22. CASE LastFrame(f)
  <2>1. /\ InSequence(f) /\ f.eot /\ Store(key, NoSession)
        /\ out' = Verdict(key, Extended(f))
    BY <1>22 DEF LastFrame, key
  <2>2. PICK S \in OpenRuns(heard, key) :
          /\ Runs(h2, key) = {S \cup {n + 1}}
          /\ Contents(h2, S \cup {n + 1}) = Extended(f)
          /\ Max(S \cup {n + 1}) = n + 1
    BY <1>20, <2>1
  <2>3. OpenRuns(h2, key) = {}
    BY <1>3, <1>4, <2>1, <2>2 DEF OpenRuns
  <2>4. Tracks(NoSession, h2, key, now)
    BY <2>3 DEF Tracks
  <2>5. \A p : p \in Owed(h2) <=>
          /\ p = Extended(f) /\ ~TooShort(p)
          /\ key \in Registered => CrcOk(key, p)
    BY <1>11, <1>20, <2>1, <2>2
  <2>6. Return(key, Extended(f)) # None
    BY <1>1, <1>2, <2>1, InSequenceType, VerdictType
  <2>7. CASE TooShort(Extended(f)) \/ (key \in Registered /\ ~CrcOk(key, Extended(f)))
    <3>1. out' = None
      BY <2>1, <2>7 DEF Verdict
    <3>2. Owed(h2) = {}
      BY <2>5, <2>7
    <3> QED BY <1>5, <1>7, <1>8, <1>9, <2>1, <2>4, <3>1, <3>2
  <2>8. CASE ~(TooShort(Extended(f)) \/ (key \in Registered /\ ~CrcOk(key, Extended(f))))
    <3>1. out' = Return(key, Extended(f))
      BY <2>1, <2>8 DEF Verdict
    <3>2. out'.key = key /\ out'.payload = Extended(f)
      BY <3>1 DEF Return
    <3>3. Owed(h2) = {Extended(f)}
      BY <2>5, <2>8
    <3> QED BY <1>5, <1>7, <1>8, <1>9, <2>1, <2>4, <2>6, <3>1, <3>2, <3>3
  <2> QED BY <2>7, <2>8
<1> QED BY <1>6, <1>14, <1>15, <1>16, <1>17, <1>19, <1>21, <1>22 DEF ProcessFrame

LEMMA HistoryFrame ==
  ASSUME Len(heard) \in Nat, Len(heard) < MaxFrames,
         NEW k \in Key, NEW s \in BOOLEAN, NEW e \in BOOLEAN, NEW t \in BOOLEAN
  PROVE  [key |-> k, sot |-> s, eot |-> e, toggle |-> t, chunk |-> Len(heard) + 1] \in Frame
BY ContractAssumption DEF Frame

(* The steps, as formulas: other modules make them of an instance.         *)
LEMMA TrackingInit == Init /\ heard = <<>> => Tracking
<1> SUFFICES ASSUME Init, heard = <<>> PROVE Tracking
  OBVIOUS
<1>1. TypeOK /\ heard = <<>> /\ \A k \in Key : sessions[k] = NoSession
  BY DEF Init, TypeOK
<1>2. heard \in Seq(Entry) /\ \A k : OpenRuns(heard, k) = {}
  BY <1>1 DEF OpenRuns, Runs
<1> QED BY <1>1, <1>2 DEF Tracking, Tracks

LEMMA FrameTracked ==
  \A f \in Frame : Tracking /\ Receive(f) => Tracking' /\ ReturnsCompletedRuns'
<1> SUFFICES ASSUME Tracking, NEW f \in Frame, Receive(f)
             PROVE  Tracking' /\ ReturnsCompletedRuns'
  OBVIOUS
<1>1. heard \in Seq(Entry) /\ TypeOK /\ now \in Nat
  BY DEF Tracking, TypeOK
<1>2. TypeOK'
  BY <1>1, ProcessFrameTypes DEF Receive
<1>3. heard' \in Seq(Entry)
  <2>1. [frame |-> f, at |-> now] \in Entry
    BY <1>1 DEF Entry
  <2> QED BY <1>1, <2>1, Longer DEF Receive
<1>4. now' = now
  BY DEF Receive, ProcessFrame, SingleFrame, StartTransfer, Orphan, ToggleMismatch,
         MiddleFrame, LastFrame
<1>5. (\A k \in Key : Tracks(sessions'[k], heard', k, now)) /\ ReturnsCompletedRuns'
  BY ReceiveTracks
<1> QED BY <1>2, <1>3, <1>4, <1>5 DEF Tracking

LEMMA TimeTracked == Tracking /\ Advance /\ UNCHANGED heard => Tracking'
<1> SUFFICES ASSUME Tracking, Advance, UNCHANGED heard PROVE Tracking'
  OBVIOUS
<1>1. heard \in Seq(Entry) /\ TypeOK /\ now \in Nat
  BY DEF Tracking, TypeOK
<1>2. TypeOK' /\ now' = now + 1 /\ UNCHANGED <<sessions, out, heard>>
  BY <1>1 DEF Advance, TypeOK
<1>3. \A k \in Key : Tracks(sessions[k], heard, k, now + 1)
  BY <1>1, TracksLater DEF Tracking
<1> QED BY <1>1, <1>2, <1>3 DEF Tracking

(* Neither an empty frame nor a stutter is heard of.                       *)
LEMMA NothingTracked ==
  Tracking /\ UNCHANGED <<sessions, now, heard>> /\ out' \in {out, None} => Tracking'
BY DEF Tracking, TypeOK

LEMMA RInvInit == HInit => RInv
BY TrackingInit DEF HInit, RInv, ReturnsCompletedRuns

LEMMA RInvStep == RInv /\ [HNext]_hvars => RInv'
<1> SUFFICES ASSUME RInv, [HNext]_hvars PROVE RInv'
  OBVIOUS
<1>1. Tracking /\ heard \in Seq(Entry)
  BY DEF RInv, Tracking
<1>2. CASE Len(heard) < MaxFrames /\ \E k \in Key, s, e, t \in BOOLEAN :
             Receive([key |-> k, sot |-> s, eot |-> e, toggle |-> t, chunk |-> Len(heard) + 1])
  <2>1. PICK k \in Key, s \in BOOLEAN, e \in BOOLEAN, t \in BOOLEAN :
          Receive([key |-> k, sot |-> s, eot |-> e, toggle |-> t, chunk |-> Len(heard) + 1])
    BY <1>2
  <2> QED BY <1>1, <1>2, <2>1, HistoryFrame, FrameTracked, LenProperties DEF RInv
<1>3. CASE Advance /\ UNCHANGED heard
  BY <1>1, <1>3, TimeTracked DEF Advance, RInv, ReturnsCompletedRuns
<1>4. CASE UNCHANGED hvars
  BY <1>1, <1>4, NothingTracked DEF hvars, RInv, ReturnsCompletedRuns
<1> QED BY <1>2, <1>3, <1>4 DEF HNext

(* Types, sessions and results are as the invariant says in every state.   *)
THEOREM HistoryInvariant == HSpec => []RInv
BY RInvInit, RInvStep, PTL DEF HSpec

(* The history only observes: what the reassembler does with one, it may   *)
(* do without.                                                             *)
THEOREM HistoryObserves == HSpec => Spec
<1>1. HInit => Init
  BY DEF HInit
<1>2. RInv /\ [HNext]_hvars => [Next]_vars
  <2> SUFFICES ASSUME RInv, [HNext]_hvars PROVE [Next]_vars
    OBVIOUS
  <2>1. ASSUME NEW k \in Key, NEW s \in BOOLEAN, NEW e \in BOOLEAN, NEW t \in BOOLEAN,
               Len(heard) < MaxFrames,
               Receive([key |-> k, sot |-> s, eot |-> e, toggle |-> t, chunk |-> Len(heard) + 1])
        PROVE  Next
    <3>1. Len(heard) \in Nat
      BY LenProperties DEF RInv, Tracking
    <3> QED BY <2>1, <3>1, HistoryFrame DEF Receive, Next
  <2>2. CASE Advance
    BY <2>2 DEF Next
  <2>3. CASE UNCHANGED hvars
    BY <2>3 DEF hvars, vars
  <2> QED BY <2>1, <2>2, <2>3 DEF HNext
<1> QED BY <1>1, <1>2, HistoryInvariant, PTL DEF HSpec, Spec

(* The types of the reassembler, when it is fed a history of frames.       *)
THEOREM HistoryTypeOK == HSpec => []TypeOK
BY HistoryObserves, ReassemblerTypeOK, PTL

(* A session is always the open run of its key, and an open run within the *)
(* timeout always has its session (reassembler.py:87-122).                 *)
THEOREM HistorySessions == HSpec => []SessionsAreOpenRuns
<1>1. RInv => SessionsAreOpenRuns
  <2> SUFFICES ASSUME RInv, NEW k \in Key, Tracks(sessions[k], heard, k, now)
               PROVE  /\ sessions[k] # NoSession =>
                           \E S \in OpenRuns(heard, k) :
                             /\ sessions[k].payload = Contents(heard, S)
                             /\ sessions[k].ts = heard[Max(S)].at
                      /\ \A S \in OpenRuns(heard, k) :
                           now - heard[Max(S)].at <= SessionTimeout => sessions[k] # NoSession
    BY DEF RInv, Tracking, SessionsAreOpenRuns
  <2>1. heard \in Seq(Entry) /\ now \in Nat /\ SessionTimeout \in Nat
    BY ReassemblerAssumption DEF RInv, Tracking, TypeOK
  <2>2. \A S \in OpenRuns(heard, k) : heard[Max(S)].at \in Nat
    BY <2>1, OpenRunType
  <2> QED BY <2>1, <2>2 DEF Tracks, Describes
<1> QED BY <1>1, HistoryInvariant, PTL

(* What the last call returned is what its frame was owed, and nothing was *)
(* returned that was not owed (reassembler.py:78-84, 119-153).             *)
THEOREM HistoryReturns == HSpec => []ReturnsCompletedRuns
<1>1. RInv => ReturnsCompletedRuns
  BY DEF RInv
<1> QED BY <1>1, HistoryInvariant, PTL

(* After a frame of a multi-frame transfer no session is older than the    *)
(* timeout (reassembler.py:89-90, 157-165).                                *)
THEOREM HistorySweeps == HSpec => MultiFrameSweeps
<1>1. RInv /\ [HNext]_hvars =>
        [heard' # heard /\ ~(Newest(heard').sot /\ Newest(heard').eot) =>
           \A k \in Key : sessions'[k] # NoSession => now - sessions'[k].ts <= SessionTimeout
        ]_hvars
  <2> SUFFICES ASSUME RInv, HNext, heard' # heard,
                      ~(Newest(heard').sot /\ Newest(heard').eot),
                      NEW k \in Key, sessions'[k] # NoSession
               PROVE  now - sessions'[k].ts <= SessionTimeout
    BY DEF HNext
  <2>1. heard \in Seq(Entry) /\ TypeOK /\ now \in Nat /\ SessionTimeout \in Nat
    BY ReassemblerAssumption DEF RInv, Tracking, TypeOK
  <2>2. PICK j \in Key, s \in BOOLEAN, e \in BOOLEAN, t \in BOOLEAN :
          Receive([key |-> j, sot |-> s, eot |-> e, toggle |-> t, chunk |-> Len(heard) + 1])
    BY DEF HNext
  <2> DEFINE f == [key |-> j, sot |-> s, eot |-> e, toggle |-> t, chunk |-> Len(heard) + 1]
  <2>3. ProcessFrame(f) /\ heard' = Append(heard, [frame |-> f, at |-> now])
    BY <2>2 DEF Receive
  <2> HIDE DEF f
  <2>4. Newest(heard') = f
    <3>1. Append(heard, [frame |-> f, at |-> now])[Len(heard) + 1] = [frame |-> f, at |-> now]
          /\ Len(Append(heard, [frame |-> f, at |-> now])) = Len(heard) + 1
      BY <2>1, AppendProperties
    <3> QED BY <2>3, <3>1 DEF Newest
  <2>5. ~SingleFrame(f)
    BY <2>4 DEF SingleFrame
  <2>6. Live(k) # NoSession => now - Live(k).ts <= SessionTimeout
    BY LiveTracks DEF RInv
  <2>7. sessions'[k] = Live(k) \/ sessions'[k] = NoSession \/ sessions'[k].ts = now
    <3>1. CASE StartTransfer(f)
      BY <3>1 DEF StartTransfer, Store
    <3>2. CASE Orphan(f) \/ ToggleMismatch(f) \/ LastFrame(f)
      BY <3>2 DEF Orphan, ToggleMismatch, LastFrame, Store
    <3>3. CASE MiddleFrame(f)
      BY <3>3 DEF MiddleFrame, Store
    <3> QED BY <2>3, <2>5, <3>1, <3>2, <3>3 DEF ProcessFrame
  <2> QED BY <2>1, <2>6, <2>7
<1> QED BY <1>1, HistoryInvariant, PTL DEF HSpec, MultiFrameSweeps
=============================================================================

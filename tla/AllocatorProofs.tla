--------------------------- MODULE AllocatorProofs ---------------------------
(***************************************************************************)
(* Proofs about Allocator: for unique ids of any length over any pieces,   *)
(* any number of transfer ids and of node ids, and any sequence of calls.  *)
(***************************************************************************)
EXTENDS Allocator, FiniteSetTheorems, SequenceTheorems, TLAPS

(* The counter has moved once for every entry of the table.                *)
TableCount ==
  /\ IsFiniteSet(DOMAIN table)
  /\ next_node_id = FirstNodeId + Cardinality(DOMAIN table)

(* What the table needs for itself, and what the other variables need.     *)
TableInv == TableInjective /\ TableCount

AllocInv == TypeOK /\ StateConsistent /\ TableInv /\ AnswersMatchTable

LEMMA NextTidType ==
  ASSUME NEW t \in Tid
  PROVE  NextTid(t) \in Tid /\ NextTid(t) # -1
BY AllocatorAssumption DEF NextTid, Tid

LEMMA WireIdType ==
  ASSUME NEW n \in Nat
  PROVE  WireId(n) \in Nat
BY AllocatorAssumption DEF WireId

(* The first UidLen pieces of a long enough sequence are a unique id.      *)
LEMMA CutIsUid ==
  ASSUME NEW uid \in Seq(Piece), Len(uid) >= UidLen
  PROVE  /\ SubSeq(uid, 1, UidLen) \in Uid
         /\ SubSeq(uid, 1, UidLen) \in Seq(Piece)
         /\ Len(SubSeq(uid, 1, UidLen)) = UidLen
<1>1. UidLen \in Nat /\ Len(uid) \in Nat /\ UidLen <= Len(uid)
  BY AllocatorAssumption, LenProperties
<1>2. /\ SubSeq(uid, 1, UidLen) \in Seq(Piece)
      /\ Len(SubSeq(uid, 1, UidLen)) = UidLen
  BY <1>1, SubSeqProperties
<1>3. QED
  BY <1>2, LenProperties DEF Uid

(* Enroll keeps the table an injection onto the ids counted, adds at most  *)
(* the unique id given and touches no other.                               *)
LEMMA EnrollProperties ==
  ASSUME TypeOK, TableInv, NEW w \in Uid, Enroll(w)
  PROVE  /\ DOMAIN table' = DOMAIN table \cup {w}
         /\ DOMAIN table' \subseteq Uid
         /\ table' \in [DOMAIN table' -> Nat]
         /\ next_node_id' \in Nat
         /\ \A v \in DOMAIN table : table'[v] = table[v]
         /\ TableInv'
<1>1. /\ FirstNodeId \in Nat /\ next_node_id \in Nat
      /\ table \in [DOMAIN table -> Nat] /\ DOMAIN table \subseteq Uid
  BY AllocatorAssumption DEF TypeOK
<1>2. CASE w \in DOMAIN table
  <2>1. table' = table /\ next_node_id' = next_node_id
    BY <1>2 DEF Enroll
  <2>2. QED
    BY <1>1, <1>2, <2>1 DEF TableInv, TableInjective, TableCount
<1>3. CASE w \notin DOMAIN table
  <2>1. /\ table' = [v \in DOMAIN table \cup {w} |->
                       IF v = w THEN next_node_id ELSE table[v]]
        /\ next_node_id' = next_node_id + 1
    BY <1>3 DEF Enroll
  <2>2. /\ DOMAIN table' = DOMAIN table \cup {w}
        /\ table'[w] = next_node_id
        /\ \A v \in DOMAIN table : table'[v] = table[v]
    BY <1>3, <2>1
  <2>3. /\ IsFiniteSet(DOMAIN table')
        /\ Cardinality(DOMAIN table') = Cardinality(DOMAIN table) + 1
    BY <1>3, <2>2, FS_AddElement DEF TableInv, TableCount
  <2>4. TableCount'
    BY <1>1, <2>1, <2>3, FS_CardinalityType DEF TableInv, TableCount
  <2>5. FirstNodeId <= next_node_id
    BY <1>1, FS_CardinalityType DEF TableInv, TableCount
  <2>6. TableInjective'
    BY <1>1, <2>1, <2>2, <2>5 DEF TableInv, TableInjective
  <2>7. QED
    BY <1>1, <2>1, <2>2, <2>4, <2>6 DEF TableInv
<1>4. QED
  BY <1>2, <1>3

(* Every path that answers, answers from the table.                        *)
LEMMA RespondProperties ==
  ASSUME AllocInv, NEW uid \in Seq(Piece), Respond(uid)
  PROVE  /\ DOMAIN table' \subseteq Uid
         /\ table' \in [DOMAIN table' -> Nat]
         /\ next_node_id' \in Nat
         /\ allocation_tid' \in Tid
         /\ response' \in Response
         /\ DOMAIN table \subseteq DOMAIN table'
         /\ \A v \in DOMAIN table : table'[v] = table[v]
         /\ TableInv'
         /\ AnswersMatchTable'
<1>0. /\ TypeOK /\ TableInv /\ allocation_tid \in Tid
      /\ Len(uid) \in Nat /\ UidLen \in Nat
  BY AllocatorAssumption DEF AllocInv, TypeOK
<1>1. CASE RequestMore(uid)
  <2>1. /\ response' = [node_id |-> 0, uid |-> uid, tid |-> allocation_tid]
        /\ allocation_tid' = NextTid(allocation_tid)
        /\ table' = table /\ next_node_id' = next_node_id
        /\ Len(uid) < UidLen
    BY <1>1 DEF RequestMore, Answer
  <2>2. response' \in Response /\ allocation_tid' \in Tid
    BY <2>1, <1>0, NextTidType DEF Response
  <2>3. QED
    BY <2>1, <2>2, <1>0
    DEF TypeOK, TableInv, TableInjective, TableCount, AnswersMatchTable
<1>2. CASE Allocate(uid)
  <2> DEFINE w == SubSeq(uid, 1, UidLen)
  <2>1. /\ Len(uid) >= UidLen
        /\ Enroll(w)
        /\ response' = [node_id |-> WireId(table'[w]), uid |-> w, tid |-> allocation_tid]
        /\ allocation_tid' = NextTid(allocation_tid)
    BY <1>2 DEF Allocate, Answer
  <2>2. w \in Uid /\ w \in Seq(Piece) /\ Len(w) = UidLen
    BY <2>1, CutIsUid
  <2> HIDE DEF w
  <2>3. /\ DOMAIN table' = DOMAIN table \cup {w}
        /\ DOMAIN table' \subseteq Uid
        /\ table' \in [DOMAIN table' -> Nat]
        /\ next_node_id' \in Nat
        /\ \A v \in DOMAIN table : table'[v] = table[v]
        /\ TableInv'
    BY <2>1, <2>2, <1>0, EnrollProperties
  <2>4. w \in DOMAIN table' /\ table'[w] \in Nat
    BY <2>3
  <2>5. response' \in Response /\ allocation_tid' \in Tid
    BY <2>1, <2>2, <2>4, <1>0, NextTidType, WireIdType DEF Response
  <2>6. AnswersMatchTable'
    BY <2>1, <2>2, <2>4, <1>0 DEF AnswersMatchTable
  <2>7. QED
    BY <2>3, <2>5, <2>6
<1>3. QED
  BY <1>1, <1>2 DEF Respond

LEMMA AllocInvInit ==
  Init => AllocInv
<1> SUFFICES ASSUME Init PROVE AllocInv
  OBVIOUS
<1>1. DOMAIN table = {}
  BY DEF Init
<1>2. TypeOK
  BY <1>1, AllocatorAssumption DEF Init, TypeOK, NoAllocation, Tid
<1>3. TableInv
  BY <1>1, FS_EmptySet, AllocatorAssumption DEF Init, TableInv, TableInjective, TableCount
<1>4. QED
  BY <1>2, <1>3 DEF AllocInv, Init, StateConsistent, AnswersMatchTable

(* A call of the handler, whichever path it takes.                         *)
LEMMA HandleProperties ==
  ASSUME AllocInv, NEW q \in Request, HandleAllocationRequest(q)
  PROVE  /\ AllocInv'
         /\ DOMAIN table \subseteq DOMAIN table'
         /\ \A v \in DOMAIN table : table'[v] = table[v]
<1>0. /\ TypeOK /\ StateConsistent /\ TableInv
      /\ q.tid \in Tid /\ q.chunk \in Seq(Piece)
      /\ allocation_state.uid \in Seq(Piece)
  BY DEF AllocInv, TypeOK, Request
<1>1. ASSUME NoAnswer,
             allocation_state' = allocation_state \/ allocation_state' = NoAllocation
      PROVE  /\ AllocInv'
             /\ DOMAIN table \subseteq DOMAIN table'
             /\ \A v \in DOMAIN table : table'[v] = table[v]
  <2>1. /\ response' = NoResponse /\ table' = table
        /\ next_node_id' = next_node_id /\ allocation_tid' = allocation_tid
    BY <1>1 DEF NoAnswer
  <2>2. NoAllocation \in
          [uid : Seq(Piece), last_tid : Tid \cup {-1}, expected_tid : Tid \cup {-1}]
    BY DEF NoAllocation
  <2>3. TypeOK'
    BY <1>1, <1>0, <2>1, <2>2 DEF TypeOK
  <2>4. StateConsistent'
    BY <1>1, <1>0 DEF StateConsistent
  <2>5. TableInv' /\ AnswersMatchTable'
    BY <2>1, <1>0 DEF TableInv, TableInjective, TableCount, AnswersMatchTable
  <2>6. QED
    BY <2>1, <2>3, <2>4, <2>5 DEF AllocInv
<1>2. ASSUME NEW uid \in Seq(Piece), Adopt(uid, q.tid)
      PROVE  /\ AllocInv'
             /\ DOMAIN table \subseteq DOMAIN table'
             /\ \A v \in DOMAIN table : table'[v] = table[v]
  <2>1. /\ Respond(uid)
        /\ allocation_state' =
             [uid |-> uid, last_tid |-> q.tid, expected_tid |-> NextTid(q.tid)]
    BY <1>2 DEF Adopt
  <2>2. StateConsistent'
    BY <2>1, <1>0 DEF StateConsistent
  <2>3. allocation_state' \in
          [uid : Seq(Piece), last_tid : Tid \cup {-1}, expected_tid : Tid \cup {-1}]
    BY <2>1, <1>0, NextTidType
  <2>4. QED
    BY <2>1, <2>2, <2>3, RespondProperties DEF AllocInv, TypeOK
<1>3. CASE Ignored(q)
  BY <1>3, <1>1 DEF Ignored
<1>4. CASE FirstPart(q)
  BY <1>4, <1>2, <1>0 DEF FirstPart
<1>5. CASE Orphan(q)
  BY <1>5, <1>1 DEF Orphan
<1>6. CASE NextPart(q)
  <2>1. allocation_state.uid \o q.chunk \in Seq(Piece)
    BY <1>0, ConcatProperties
  <2>2. QED
    BY <1>6, <2>1, <1>2 DEF NextPart
<1>7. CASE DuplicatePart(q)
  <2>1. Respond(allocation_state.uid) /\ allocation_state' = allocation_state
    BY <1>7 DEF DuplicatePart
  <2>2. QED
    BY <2>1, <1>0, RespondProperties DEF AllocInv, TypeOK, StateConsistent
<1>8. CASE UnexpectedPart(q)
  BY <1>8, <1>1 DEF UnexpectedPart
<1>9. QED
  BY <1>3, <1>4, <1>5, <1>6, <1>7, <1>8 DEF HandleAllocationRequest

LEMMA HandleKeeps == \A q \in Request : AllocInv /\ HandleAllocationRequest(q) => AllocInv'
BY HandleProperties

LEMMA AllocInvStutter == AllocInv /\ UNCHANGED avars => AllocInv'
BY DEF AllocInv, avars, TypeOK, StateConsistent, TableInv, TableInjective, TableCount,
       AnswersMatchTable

(* Whatever requests arrive in whatever order, the handler's state is      *)
(* well-typed and consistent, the table is an injection onto the node ids  *)
(* counted, and answers match it (handle_allocation_request).              *)
THEOREM AllocatorInvariant == Spec => []AllocInv
<1>1. AllocInv /\ [Next]_avars => AllocInv'
  BY HandleProperties, AllocInvStutter DEF Next
<1>2. QED
  BY <1>1, AllocInvInit, PTL DEF Spec

(* Types of the handler's state (allocation.py:15-26).                     *)
THEOREM AllocatorTypeOK == Spec => []TypeOK
<1>1. AllocInv => TypeOK
  BY DEF AllocInv
<1>2. QED
  BY <1>1, AllocatorInvariant, PTL

(* The tids kept are consecutive, or nothing is kept (allocation.py:55-79).*)
THEOREM AllocatorStateConsistent == Spec => []StateConsistent
<1>1. AllocInv => StateConsistent
  BY DEF AllocInv
<1>2. QED
  BY <1>1, AllocatorInvariant, PTL

(* Answers never contradict the allocation table (allocation.py:83-96).    *)
THEOREM AllocatorAnswersMatchTable == Spec => []AnswersMatchTable
<1>1. AllocInv => AnswersMatchTable
  BY DEF AllocInv
<1>2. QED
  BY <1>1, AllocatorInvariant, PTL

(* With room on the wire, truncation to 7 bits is harmless.                *)
LEMMA RoomMeansDistinct ==
  TableInv => DistinctWireIds
<1> SUFFICES ASSUME TableInv, Room,
                    NEW v \in DOMAIN table, NEW w \in DOMAIN table
             PROVE  /\ WireId(table[v]) # 0
                    /\ v # w => WireId(table[v]) # WireId(table[w])
  BY DEF DistinctWireIds
<1>1. /\ FirstNodeId \in Nat \ {0} /\ NodeIdSpace \in Nat \ {0}
      /\ Cardinality(DOMAIN table) \in Nat
      /\ next_node_id = FirstNodeId + Cardinality(DOMAIN table)
      /\ Cardinality(DOMAIN table) <= NodeIdSpace - FirstNodeId
  BY AllocatorAssumption, FS_CardinalityType DEF TableInv, TableCount, Room
<1>2. next_node_id \in Nat /\ next_node_id <= NodeIdSpace
  BY <1>1
<1>3. ASSUME NEW u \in DOMAIN table
      PROVE  table[u] \in 1 .. NodeIdSpace - 1 /\ WireId(table[u]) = table[u]
  <2>1. table[u] \in FirstNodeId .. next_node_id - 1
    BY DEF TableInv, TableInjective
  <2>2. table[u] \in 1 .. NodeIdSpace - 1
    BY <2>1, <1>1, <1>2
  <2>3. QED
    BY <2>2, <1>1 DEF WireId
<1>4. QED
  BY <1>3 DEF TableInv, TableInjective

(* Different nodes are told different, non-zero ids for as long as the     *)
(* table fits in the 7-bit field (allocation.py:86-96).                    *)
THEOREM AllocatorDistinctWireIds == Spec => []DistinctWireIds
<1>1. AllocInv => TableInv
  BY DEF AllocInv
<1>2. QED
  BY <1>1, RoomMeansDistinct, AllocatorInvariant, PTL

(* No call ever changes or withdraws an allocation (allocation.py:88-92).  *)
THEOREM AllocatorPermanent == Spec => AllocationsPermanent
<1>1. AllocInv /\ [Next]_avars =>
        [\A w \in DOMAIN table : w \in DOMAIN table' /\ table'[w] = table[w]]_avars
  BY HandleProperties DEF Next
<1>2. QED
  BY <1>1, AllocatorInvariant, PTL DEF Spec, AllocationsPermanent
=============================================================================

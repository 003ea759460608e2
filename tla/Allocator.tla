------------------------------ MODULE Allocator ------------------------------
(***************************************************************************)
(* DynamicNodeAllocator (allocation.py): collects the 16-byte unique id of *)
(* a node from a series of anonymous Allocation messages, and assigns node *)
(* ids to unique ids from a counter.                                       *)
(*                                                                         *)
(* A call handle_allocation_request is one step; each action below is one  *)
(* path through it, and `response' is what the call returned.  There is    *)
(* one allocation_state for all requesters, and it never times out.        *)
(* A chunk is a sequence of pieces of a unique id; UidLen pieces make a    *)
(* whole one (16 bytes in the code).                                       *)
(***************************************************************************)
EXTENDS Integers, Sequences, FiniteSets

CONSTANTS
  Piece,        \* what unique ids are made of
  UidLen,       \* pieces in a unique id
  TidSpace,     \* number of transfer ids: 32, the tail byte has 5 bits
  NodeIdSpace,  \* number of node ids on the wire: 128, the field has 7 bits
  FirstNodeId,  \* self.next_node_id at the start: 10
  NoResponse    \* the call returned []

ASSUME AllocatorAssumption ==
  /\ UidLen \in Nat \ {0}
  /\ TidSpace \in Nat /\ TidSpace >= 2
  /\ NodeIdSpace \in Nat /\ FirstNodeId \in 1 .. NodeIdSpace - 1

VARIABLES
  allocation_state,  \* the unique id being collected, last and expected tid
  table,             \* self.allocation_table: unique ids to node ids
  next_node_id,
  allocation_tid,    \* transfer id of the next response
  response           \* what the last call returned

avars == <<allocation_state, table, next_node_id, allocation_tid, response>>

Tid == 0 .. TidSpace - 1

Uid == [1 .. UidLen -> Piece]

(* What the handler reads off a frame; `wanted' means an Allocation message*)
(* of at least 2 bytes that asks for node id 0.                            *)
Request == [wanted : BOOLEAN, first : BOOLEAN, tid : Tid, chunk : Seq(Piece)]

Response == [node_id : Nat, uid : Seq(Piece), tid : Tid]

TypeOK ==
  /\ allocation_state \in
       [uid : Seq(Piece), last_tid : Tid \cup {-1}, expected_tid : Tid \cup {-1}]
  /\ DOMAIN table \subseteq Uid
  /\ table \in [DOMAIN table -> Nat]
  /\ next_node_id \in Nat
  /\ allocation_tid \in Tid
  /\ response \in Response \cup {NoResponse}

NoAllocation == [uid |-> <<>>, last_tid |-> -1, expected_tid |-> -1]

Init ==
  /\ allocation_state = NoAllocation
  /\ table = <<>>
  /\ next_node_id = FirstNodeId
  /\ allocation_tid = 0
  /\ response = NoResponse

MutNextTidNoWrap(t) == t + 1

NextTid(t) == (t + 1) % TidSpace

(* (allocated_id & 0x7F): what is left of a node id on the wire.           *)
WireId(n) == n % NodeIdSpace
-----------------------------------------------------------------------------
Answer(n, uid) ==
  /\ response' = [node_id |-> n, uid |-> uid, tid |-> allocation_tid]
  /\ allocation_tid' = NextTid(allocation_tid)

RequestMore(uid) ==
  /\ Len(uid) < UidLen
  /\ Answer(0, uid)
  /\ UNCHANGED <<table, next_node_id>>

MutEnrollAgain(w) ==
  /\ table' = [v \in DOMAIN table \cup {w} |-> IF v = w THEN next_node_id ELSE table[v]]
  /\ next_node_id' = next_node_id + 1

MutEnrollNoCount(w) ==
  IF w \in DOMAIN table THEN UNCHANGED <<table, next_node_id>>
  ELSE /\ table' = [v \in DOMAIN table \cup {w} |-> IF v = w THEN next_node_id ELSE table[v]]
       /\ UNCHANGED next_node_id

(* A unique id not seen before takes the next node id, however large.      *)
Enroll(w) ==
  IF w \in DOMAIN table THEN UNCHANGED <<table, next_node_id>>
  ELSE /\ table' = [v \in DOMAIN table \cup {w} |-> IF v = w THEN next_node_id ELSE table[v]]
       /\ next_node_id' = next_node_id + 1

MutAllocateCounter(uid) ==
  LET w == SubSeq(uid, 1, UidLen) IN
  /\ Len(uid) >= UidLen
  /\ Enroll(w)
  /\ Answer(WireId(next_node_id), w)

(* Anything beyond the first UidLen pieces is cut off.                     *)
Allocate(uid) ==
  LET w == SubSeq(uid, 1, UidLen) IN
  /\ Len(uid) >= UidLen
  /\ Enroll(w)
  /\ Answer(WireId(table'[w]), w)

Respond(uid) == RequestMore(uid) \/ Allocate(uid)

Adopt(uid, tid) ==
  /\ allocation_state' = [uid |-> uid, last_tid |-> tid, expected_tid |-> NextTid(tid)]
  /\ Respond(uid)

NoAnswer == response' = NoResponse /\ UNCHANGED <<table, next_node_id, allocation_tid>>
-----------------------------------------------------------------------------
Ignored(q) == ~q.wanted /\ NoAnswer /\ UNCHANGED allocation_state

MutFirstPartOnlyWhenIdle(q) ==
  /\ q.wanted /\ q.first
  /\ IF allocation_state.expected_tid < 0 THEN Adopt(q.chunk, q.tid)
     ELSE NoAnswer /\ UNCHANGED allocation_state

FirstPart(q) == q.wanted /\ q.first /\ Adopt(q.chunk, q.tid)

Orphan(q) ==
  /\ q.wanted /\ ~q.first /\ allocation_state.expected_tid < 0
  /\ NoAnswer /\ UNCHANGED allocation_state

(* Later parts that find an allocation under way.                          *)
Continues(q) == q.wanted /\ ~q.first /\ allocation_state.expected_tid >= 0

NextPart(q) ==
  /\ Continues(q) /\ q.tid = allocation_state.expected_tid
  /\ Adopt(allocation_state.uid \o q.chunk, q.tid)

MutDuplicateAppends(q) ==
  /\ Continues(q)
  /\ q.tid # allocation_state.expected_tid /\ q.tid = allocation_state.last_tid
  /\ Adopt(allocation_state.uid \o q.chunk, q.tid)

(* Not appended again, but answered again.                                 *)
DuplicatePart(q) ==
  /\ Continues(q)
  /\ q.tid # allocation_state.expected_tid /\ q.tid = allocation_state.last_tid
  /\ Respond(allocation_state.uid)
  /\ UNCHANGED allocation_state

MutUnexpectedKeepsUid(q) ==
  /\ Continues(q)
  /\ q.tid \notin {allocation_state.expected_tid, allocation_state.last_tid}
  /\ allocation_state' = [NoAllocation EXCEPT !.uid = allocation_state.uid]
  /\ NoAnswer

UnexpectedPart(q) ==
  /\ Continues(q)
  /\ q.tid \notin {allocation_state.expected_tid, allocation_state.last_tid}
  /\ allocation_state' = NoAllocation
  /\ NoAnswer

HandleAllocationRequest(q) ==
  \/ Ignored(q)
  \/ FirstPart(q)
  \/ Orphan(q)
  \/ NextPart(q)
  \/ DuplicatePart(q)
  \/ UnexpectedPart(q)

Next == \E q \in Request : HandleAllocationRequest(q)

Spec == Init /\ [][Next]_avars
-----------------------------------------------------------------------------
(* The three fields of allocation_state agree: either nothing is being     *)
(* collected, or the tids are consecutive modulo 32 (allocation.py:55-79). *)
StateConsistent ==
  \/ allocation_state = NoAllocation
  \/ /\ allocation_state.last_tid \in Tid
     /\ allocation_state.expected_tid = NextTid(allocation_state.last_tid)

(* The table is an injection onto the node ids counted so far.             *)
TableInjective ==
  /\ \A w \in DOMAIN table : table[w] \in FirstNodeId .. next_node_id - 1
  /\ \A v, w \in DOMAIN table : table[v] = table[w] => v = w

(* As long as the unique ids seen fit in the node ids that the wire can    *)
(* carry, different unique ids are given different, non-zero wire ids,     *)
(* whatever is cut off unique ids and node ids on the way                  *)
(* (allocation.py:86-96; the counter is not bounded, so the condition is   *)
(* needed).                                                                *)
Room == Cardinality(DOMAIN table) <= NodeIdSpace - FirstNodeId

DistinctWireIds ==
  Room => \A v, w \in DOMAIN table :
            /\ WireId(table[v]) # 0
            /\ v # w => WireId(table[v]) # WireId(table[w])

(* An answer with a whole unique id was enrolled, and names what the table *)
(* says of it; an answer with a shorter one names no node id.              *)
AnswersMatchTable ==
  response # NoResponse =>
    IF Len(response.uid) < UidLen THEN response.node_id = 0
    ELSE /\ response.uid \in DOMAIN table
         /\ response.node_id = WireId(table[response.uid])

(* What the log says at allocation.py:96, "Allocated Node ID {id} for UID",*)
(* is what the requester is told: the node id itself, not what is left of  *)
(* it after & 0x7F.                                                        *)
AnnouncedAsRecorded ==
  response # NoResponse /\ response.uid \in DOMAIN table =>
    response.node_id = table[response.uid]

(* An allocation, once made, is never changed or withdrawn.                *)
AllocationsPermanent ==
  [][\A w \in DOMAIN table : w \in DOMAIN table' /\ table'[w] = table[w]]_avars
=============================================================================

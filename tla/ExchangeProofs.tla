--------------------------- MODULE ExchangeProofs ---------------------------
(***************************************************************************)
(* Proofs about AllocationExchange: for any set of nodes and any network   *)
(* that loses, repeats, delays and reorders messages, prompt or not.       *)
(***************************************************************************)
EXTENDS AllocationExchange, AllocatorProofs

(* Answers on their way do not go stale, because allocations are permanent.*)
AnswersTrue ==
  \A m \in answers :
    Len(m.answer.uid) = UidLen =>
      /\ m.answer.uid \in DOMAIN table
      /\ m.answer.node_id = WireId(table[m.answer.uid])

XInv ==
  /\ XTypeOK
  /\ AllocInv
  /\ AnswersTrue
  /\ HeldIdsAreOwn

LEMMA ModRange ==
  ASSUME NEW a \in Nat, NEW n \in Nat \ {0}
  PROVE  a % n \in 0 .. n - 1 /\ 0 \in 0 .. n - 1
OBVIOUS

LEMMA ModSmall ==
  ASSUME NEW n \in Nat \ {0}, NEW a \in 0 .. n
  PROVE  a % n = IF a = n THEN 0 ELSE a
<1>1. CASE a = n
  BY <1>1
<1>2. CASE a < n
  BY <1>2
<1> QED BY <1>1, <1>2

LEMMA OwnUidType ==
  ASSUME NEW c \in Client
  PROVE  /\ OwnUid(c) \in Seq(Piece)
         /\ Len(OwnUid(c)) = UidLen
         /\ OwnUid(c)[1] = <<c, 1>>
         /\ SubSeq(OwnUid(c), 1, UidLen) = OwnUid(c)
<1>1. UidLen \in Nat \ {0} /\ Piece = Client \X (1 .. UidLen)
  BY AllocatorAssumption, ExchangeAssumption
<1>2. /\ OwnUid(c) \in [1 .. UidLen -> Piece]
      /\ OwnUid(c)[1] = <<c, 1>>
  BY <1>1 DEF OwnUid
<1>3. OwnUid(c) \in Seq(Piece)
  BY <1>1, <1>2, SeqDef
<1>4. Len(OwnUid(c)) = UidLen
  BY <1>1, <1>2, <1>3, LenProperties
<1>5. SubSeq(OwnUid(c), 1, UidLen) = OwnUid(c)
  BY <1>1, <1>3, <1>4, SubSeqFull
<1>6. QED
  BY <1>2, <1>3, <1>4, <1>5

LEMMA XInvInit == XInit => XInv
<1> SUFFICES ASSUME XInit PROVE XInv
  OBVIOUS
<1>1. AllocInv
  BY AllocInvInit DEF XInit
<1>2. XTypeOK
  BY <1>1, AllocatorAssumption, ExchangeAssumption
  DEF XInit, XTypeOK, AllocInv, Tid
<1>3. QED
  BY <1>1, <1>2 DEF XInv, XInit, AnswersTrue, HeldIdsAreOwn

LEMMA AskStep ==
  ASSUME XInv, NEW c \in Client, Ask(c)
  PROVE  XInv'
<1>0. /\ XTypeOK /\ AllocInv /\ AnswersTrue /\ HeldIdsAreOwn
      /\ UNCHANGED avars /\ held' = held /\ answers' = answers /\ faults' = faults
      /\ UidLen \in Nat \ {0}
  BY AllocatorAssumption DEF XInv, Ask
<1>1. AllocInv'
  BY <1>0, AllocInvStutter
<1>2. offset' \in [Client -> 0 .. UidLen - 1] /\ tid' \in [Client -> Tid]
  BY <1>0, NextTidType DEF Ask, XTypeOK
<1>3. requests' \subseteq [client : Client, first : BOOLEAN, tid : Tid, piece : Piece]
  <2>1. offset[c] + 1 \in 1 .. UidLen /\ tid[c] \in Tid
    BY <1>0 DEF XTypeOK
  <2>2. <<c, offset[c] + 1>> \in Piece
    BY <2>1, ExchangeAssumption
  <2> DEFINE m == [client |-> c, first |-> offset[c] = 0, tid |-> tid[c],
                   piece |-> <<c, offset[c] + 1>>]
  <2>3. m \in [client : Client, first : BOOLEAN, tid : Tid, piece : Piece]
    BY <2>1, <2>2
  <2>4. requests' = requests \cup {m}
    BY DEF Ask
  <2> HIDE DEF m
  <2>5. QED
    BY <1>0, <2>3, <2>4 DEF XTypeOK
<1>4. asked' \in [Client -> Nat]
  BY <1>0 DEF Ask, XTypeOK
<1>5. XTypeOK'
  BY <1>0, <1>1, <1>2, <1>3, <1>4 DEF XTypeOK, AllocInv
<1>6. QED
  BY <1>0, <1>1, <1>5 DEF XInv, AnswersTrue, HeldIdsAreOwn, avars

(* The network only ever takes requests away.                              *)
LEMMA ServeStep ==
  ASSUME XInv, NEW m, Serve(m), requests' \subseteq requests, faults' \in 0 .. MaxFaults
  PROVE  XInv'
<1> DEFINE q == [wanted |-> TRUE, first |-> m.first, tid |-> m.tid, chunk |-> <<m.piece>>]
<1>0. /\ XTypeOK /\ AllocInv /\ AnswersTrue /\ HeldIdsAreOwn
      /\ m \in [client : Client, first : BOOLEAN, tid : Tid, piece : Piece]
      /\ HandleAllocationRequest(q)
      /\ offset' = offset /\ tid' = tid /\ held' = held /\ asked' = asked
      /\ answers' = answers \cup
           (IF response' = NoResponse THEN {}
            ELSE {[client |-> m.client, answer |-> response']})
  BY DEF XInv, Serve, XTypeOK, cvars
<1>1. q \in Request
  BY <1>0 DEF Request
<1>2. /\ AllocInv'
      /\ DOMAIN table \subseteq DOMAIN table'
      /\ \A v \in DOMAIN table : table'[v] = table[v]
  BY <1>0, <1>1, HandleProperties
<1>3. response' # NoResponse => response' \in Response
  BY <1>2 DEF AllocInv, TypeOK
<1>4. XTypeOK'
  BY <1>0, <1>2, <1>3 DEF XTypeOK, AllocInv
<1>5. AnswersTrue'
  <2>1. SUFFICES ASSUME NEW a \in answers', Len(a.answer.uid) = UidLen
                 PROVE  /\ a.answer.uid \in DOMAIN table'
                        /\ a.answer.node_id = WireId(table'[a.answer.uid])
    BY DEF AnswersTrue
  <2>2. CASE a \in answers
    BY <2>1, <2>2, <1>0, <1>2 DEF AnswersTrue
  <2>3. CASE response' # NoResponse /\ a = [client |-> m.client, answer |-> response']
    <3>1. Len(response'.uid) = UidLen /\ AnswersMatchTable'
      BY <2>1, <2>3, <1>2 DEF AllocInv
    <3>2. QED
      BY <2>3, <3>1, AllocatorAssumption DEF AnswersMatchTable
  <2>4. QED
    BY <2>1, <2>2, <2>3, <1>0
<1>6. HeldIdsAreOwn'
  BY <1>0, <1>2 DEF HeldIdsAreOwn
<1>7. QED
  BY <1>2, <1>4, <1>5, <1>6 DEF XInv

LEMMA HearStep ==
  ASSUME XInv, NEW m \in answers, Hear(m)
  PROVE  XInv'
<1> DEFINE c == m.client
           uid == m.answer.uid
           mine == Len(uid) <= UidLen /\ uid = SubSeq(OwnUid(c), 1, Len(uid))
<1>0. /\ XTypeOK /\ AllocInv /\ AnswersTrue /\ HeldIdsAreOwn
      /\ UNCHANGED avars
      /\ answers' = answers \ {m} /\ requests' = requests /\ faults' = faults
      /\ tid' = tid /\ asked' = asked
      /\ c \in Client /\ uid \in Seq(Piece) /\ m.answer.node_id \in Nat
      /\ Len(uid) \in Nat /\ UidLen \in Nat \ {0}
  BY AllocatorAssumption DEF XInv, Hear, XTypeOK, Response
<1>1. AllocInv'
  BY <1>0, AllocInvStutter
<1>2. /\ offset' = [offset EXCEPT ![c] = IF mine THEN Len(uid) % UidLen ELSE 0]
      /\ held' = IF mine /\ Len(uid) = UidLen /\ m.answer.node_id # 0
                 THEN [held EXCEPT ![c] = m.answer.node_id] ELSE held
  BY DEF Hear
<1>3. offset' \in [Client -> 0 .. UidLen - 1]
  <2>1. Len(uid) % UidLen \in 0 .. UidLen - 1 /\ 0 \in 0 .. UidLen - 1
    BY <1>0, ModRange
  <2> DEFINE r == IF mine THEN Len(uid) % UidLen ELSE 0
  <2>2. r \in 0 .. UidLen - 1
    BY <2>1
  <2>3. offset \in [Client -> 0 .. UidLen - 1] /\ offset' = [offset EXCEPT ![c] = r]
    BY <1>0, <1>2 DEF XTypeOK
  <2> HIDE DEF r
  <2>4. QED
    BY <2>2, <2>3
<1>4. held' \in [Client -> Nat \cup {NoId}]
  BY <1>0, <1>2 DEF XTypeOK
<1>5. XTypeOK'
  BY <1>0, <1>1, <1>3, <1>4 DEF XTypeOK, AllocInv
<1>6. HeldIdsAreOwn'
  <2>1. CASE held' = held
    BY <2>1, <1>0 DEF HeldIdsAreOwn, avars
  <2>2. CASE mine /\ Len(uid) = UidLen /\ held' = [held EXCEPT ![c] = m.answer.node_id]
    <3>1. uid = OwnUid(c)
      BY <2>2, <1>0, OwnUidType
    <3>2. uid \in DOMAIN table /\ m.answer.node_id = WireId(table[uid])
      BY <2>2, <1>0 DEF AnswersTrue
    <3>3. table' = table /\ held \in [Client -> Nat \cup {NoId}]
      BY <1>0 DEF avars, XTypeOK
    <3> HIDE DEF c, uid
    <3>4. QED
      BY <2>2, <3>1, <3>2, <3>3, <1>0 DEF HeldIdsAreOwn
  <2>3. QED
    BY <2>1, <2>2, <1>2
<1>7. QED
  BY <1>0, <1>1, <1>5, <1>6 DEF XInv, AnswersTrue, avars

LEMMA LoseStep ==
  ASSUME XInv, NEW m, Lose(m)
  PROVE  XInv'
<1>1. AllocInv'
  BY AllocInvStutter DEF XInv, Lose
<1>2. faults' \in 0 .. MaxFaults
  BY ExchangeAssumption DEF XInv, XTypeOK, Lose
<1>3. XTypeOK'
  BY <1>1, <1>2 DEF XInv, XTypeOK, Lose, AllocInv, cvars
<1>4. QED
  BY <1>1, <1>3 DEF XInv, Lose, AnswersTrue, HeldIdsAreOwn, avars, cvars

LEMMA XInvStep ==
  ASSUME XInv, [XNext]_xvars
  PROVE  XInv'
<1>1. ASSUME NEW m \in requests, Arrives(m)
      PROVE  XInv'
  BY <1>1, ServeStep DEF Arrives, XInv, XTypeOK
<1>2. ASSUME NEW m \in requests, Repeated(m)
      PROVE  XInv'
  <2>1. faults' \in 0 .. MaxFaults
    BY <1>2, ExchangeAssumption DEF Repeated, XInv, XTypeOK
  <2>2. QED
    BY <1>2, <2>1, ServeStep DEF Repeated
<1>3. ASSUME UNCHANGED xvars
      PROVE  XInv'
  <2>1. AllocInv'
    BY <1>3, AllocInvStutter DEF XInv, xvars
  <2>2. QED
    BY <1>3, <2>1 DEF XInv, XTypeOK, AllocInv, AnswersTrue, HeldIdsAreOwn, xvars, avars,
                      cvars, nvars
<1>4. QED
  BY <1>1, <1>2, <1>3, AskStep, HearStep, LoseStep DEF XNext, Done

(* Whatever the network does, the allocator's state stays consistent,      *)
(* answers on their way are true, and so are the ids nodes hold.           *)
THEOREM ExchangeInvariant == XSpec => []XInv
BY XInvInit, XInvStep, PTL DEF XSpec

(* Messages, nodes and the allocator keep their types, whatever is lost,   *)
(* repeated or out of order (allocation.py:38-116).                        *)
THEOREM ExchangeTypeOK == XSpec => []XTypeOK
<1>1. XInv => XTypeOK
  BY DEF XInv
<1>2. QED
  BY <1>1, ExchangeInvariant, PTL

(* A node's id is the one recorded for its own unique id                   *)
(* (handle_allocation_request over datagram_received).                     *)
THEOREM ExchangeHeldIdsAreOwn == XSpec => []HeldIdsAreOwn
<1>1. XInv => HeldIdsAreOwn
  BY DEF XInv
<1>2. QED
  BY <1>1, ExchangeInvariant, PTL

(* No two nodes hold the same id while the wire's ids suffice, even with   *)
(* phantom unique ids in the table.                                        *)
THEOREM ExchangeHeldIdsDistinct == XSpec => []HeldIdsDistinct
<1>1. XInv => HeldIdsDistinct
  <2> SUFFICES ASSUME XInv, Room, NEW c \in Client, NEW d \in Client,
                      held[c] # NoId, c # d, held[c] = held[d]
               PROVE  FALSE
    BY DEF HeldIdsDistinct
  <2>1. held[d] # NoId
    OBVIOUS
  <2>2. /\ OwnUid(c) \in DOMAIN table /\ held[c] = WireId(table[OwnUid(c)])
        /\ OwnUid(d) \in DOMAIN table /\ held[d] = WireId(table[OwnUid(d)])
    BY <2>1 DEF XInv, HeldIdsAreOwn
  <2>3. OwnUid(c) # OwnUid(d)
    <3>1. OwnUid(c)[1] = <<c, 1>> /\ OwnUid(d)[1] = <<d, 1>>
      BY OwnUidType
    <3>2. QED
      BY <3>1
  <2>4. DistinctWireIds
    BY RoomMeansDistinct DEF XInv, AllocInv
  <2>5. QED
    BY <2>2, <2>3, <2>4 DEF DistinctWireIds
<1>2. QED
  BY <1>1, ExchangeInvariant, PTL

(* ------------------------- One node that is prompt --------------------- *)

OwnPrefix(c, uid) == Len(uid) <= UidLen /\ \A i \in 1 .. Len(uid) : uid[i] = <<c, i>>

(* The server has answered the node's last request.                        *)
Answered(c) == offset[c] > 0 \/ answers # {}

(* What is being collected is the node's own, and the allocator, the node  *)
(* and the messages between them agree how far it has come: a later part   *)
(* is the one expected next, or has been collected already.                *)
SingleInv(c) ==
  /\ OwnPrefix(c, allocation_state.uid)
  /\ Answered(c) =>
       /\ allocation_state.last_tid \in Tid
       /\ NextTid(allocation_state.last_tid) = tid[c]
       /\ offset[c] > 0 => Len(allocation_state.uid) = offset[c]
       /\ \A a \in answers : a.answer.uid = allocation_state.uid
  /\ \A m \in requests :
       /\ requests = {m} /\ NextTid(m.tid) = tid[c]
       /\ m.first => /\ m.piece = <<c, 1>>
                     /\ Answered(c) => Len(allocation_state.uid) = 1
       /\ ~m.first =>
            \/ m.tid = allocation_state.last_tid
            \/ /\ ~Answered(c) /\ m.tid = allocation_state.expected_tid
               /\ Len(allocation_state.uid) < UidLen
               /\ m.piece = <<c, Len(allocation_state.uid) + 1>>
  /\ OnlyRealUids

LEMMA NextTidCounts ==
  ASSUME NEW t \in Tid
  PROVE  NextTid(t) = IF t = TidSpace - 1 THEN 0 ELSE t + 1
<1>1. TidSpace \in Nat /\ TidSpace >= 2 /\ t \in Nat /\ t <= TidSpace - 1
  BY AllocatorAssumption DEF Tid
<1>2. CASE t = TidSpace - 1
  BY <1>1, <1>2 DEF NextTid
<1>3. CASE t # TidSpace - 1
  BY <1>1, <1>3 DEF NextTid
<1> QED BY <1>2, <1>3

LEMMA NextTidInjective ==
  ASSUME NEW s \in Tid, NEW t \in Tid
  PROVE  /\ NextTid(s) = NextTid(t) => s = t
         /\ NextTid(t) # t
BY NextTidCounts, AllocatorAssumption DEF Tid

(* A prefix of the node's unique id that is long enough is all of it.      *)
LEMMA WholePrefix ==
  ASSUME NEW c \in Client, NEW uid \in Seq(Piece), OwnPrefix(c, uid)
  PROVE  /\ uid = SubSeq(OwnUid(c), 1, Len(uid))
         /\ Len(uid) >= UidLen => uid = OwnUid(c) /\ SubSeq(uid, 1, UidLen) = uid
<1>1. UidLen \in Nat /\ Len(uid) \in Nat /\ Len(uid) <= UidLen
  BY AllocatorAssumption, LenProperties DEF OwnPrefix
<1>2. OwnUid(c) \in Seq(Piece) /\ Len(OwnUid(c)) = UidLen /\ \A i \in 1 .. UidLen : OwnUid(c)[i] = <<c, i>>
  BY OwnUidType DEF OwnUid
<1>3. /\ SubSeq(OwnUid(c), 1, Len(uid)) \in Seq(Piece)
      /\ Len(SubSeq(OwnUid(c), 1, Len(uid))) = Len(uid)
      /\ \A i \in 1 .. Len(uid) : SubSeq(OwnUid(c), 1, Len(uid))[i] = <<c, i>>
  BY <1>1, <1>2, SubSeqProperties
<1>4. uid = SubSeq(OwnUid(c), 1, Len(uid))
  <2> DEFINE p == SubSeq(OwnUid(c), 1, Len(uid))
  <2>1. p \in Seq(Piece) /\ Len(p) = Len(uid) /\ \A i \in 1 .. Len(uid) : p[i] = uid[i]
    BY <1>3 DEF OwnPrefix
  <2> HIDE DEF p
  <2>2. uid = p
    BY <2>1, SeqEqual
  <2> QED BY <2>2 DEF p
<1>5. ASSUME Len(uid) >= UidLen PROVE uid = OwnUid(c) /\ SubSeq(uid, 1, UidLen) = uid
  <2>1. Len(uid) = UidLen
    BY <1>1, <1>5
  <2> QED BY <1>4, <2>1, OwnUidType, SubSeqFull
<1> QED BY <1>4, <1>5

LEMMA RespondSingle ==
  ASSUME XInv, NEW c \in Client, Client = {c}, OnlyRealUids,
         NEW uid \in Seq(Piece), OwnPrefix(c, uid), Respond(uid)
  PROVE  response'.uid = uid /\ OnlyRealUids'
<1>1. CASE RequestMore(uid)
  BY <1>1 DEF RequestMore, Answer, OnlyRealUids
<1>2. CASE Allocate(uid)
  <2> DEFINE w == SubSeq(uid, 1, UidLen)
  <2>1. Len(uid) >= UidLen /\ Enroll(w) /\ response'.uid = w
    BY <1>2 DEF Allocate, Answer
  <2>2. w = uid /\ w = OwnUid(c)
    BY <2>1, WholePrefix
  <2> HIDE DEF w
  <2>3. DOMAIN table' \subseteq DOMAIN table \cup {w}
    BY <2>1 DEF Enroll
  <2> QED BY <2>1, <2>2, <2>3 DEF OnlyRealUids
<1> QED BY <1>1, <1>2 DEF Respond

(* Each of the three paths that the only node's requests can take.         *)
LEMMA SingleServe ==
  ASSUME XInv, NEW c \in Client, Client = {c}, SingleInv(c), NEW m \in requests,
         Serve(m), requests' = requests \/ requests' = requests \ {m}
  PROVE  SingleInv(c)'
<1> DEFINE state == allocation_state
           q == [wanted |-> TRUE, first |-> m.first, tid |-> m.tid, chunk |-> <<m.piece>>]
<1>1. /\ state.uid \in Seq(Piece) /\ Len(state.uid) \in Nat /\ OwnPrefix(c, state.uid)
      /\ UidLen \in Nat \ {0} /\ OnlyRealUids
      /\ m.client = c /\ m.first \in BOOLEAN /\ m.tid \in Tid /\ m.piece \in Piece
      /\ offset \in [Client -> 0 .. UidLen - 1] /\ tid \in [Client -> Tid]
  BY AllocatorAssumption DEF XInv, XTypeOK, TypeOK, SingleInv
<1>2. /\ offset' = offset /\ tid' = tid
      /\ answers' = answers \cup
           (IF response' = NoResponse THEN {} ELSE {[client |-> m.client, answer |-> response']})
      /\ HandleAllocationRequest(q)
  BY DEF Serve, cvars
<1>3. /\ requests = {m} /\ NextTid(m.tid) = tid[c]
      /\ m.first => m.piece = <<c, 1>> /\ (Answered(c) => Len(state.uid) = 1)
      /\ ~m.first =>
           \/ m.tid = state.last_tid
           \/ /\ ~Answered(c) /\ m.tid = state.expected_tid
              /\ Len(state.uid) < UidLen /\ m.piece = <<c, Len(state.uid) + 1>>
  BY DEF SingleInv
<1>4. /\ offset[c] > 0 => Len(state.uid) = offset[c]
      /\ \A a \in answers : a.answer.uid = state.uid
      /\ Answered(c) => state.last_tid \in Tid /\ NextTid(state.last_tid) = tid[c]
  BY DEF SingleInv, Answered
<1>5. StateConsistent
  BY DEF XInv, AllocInv
<1> HIDE DEF q
(* It is enough that the new state continues what the node was answered.   *)
<1>6. ASSUME state'.last_tid = m.tid, OwnPrefix(c, state'.uid),
             Answered(c) => state'.uid = state.uid,
             m.first => Len(state'.uid) = 1,
             Respond(state'.uid), state'.uid \in Seq(Piece)
      PROVE  SingleInv(c)'
  <2>1. response'.uid = state'.uid
    BY <1>1, <1>6, RespondSingle
  <2>2. OnlyRealUids'
    BY <1>1, <1>6, RespondSingle
  <2>3. \A a \in answers' : a.answer.uid = state'.uid
    <3>1. \A a \in answers : a.answer.uid = state'.uid
      BY <1>4, <1>6 DEF Answered
    <3> QED BY <1>2, <2>1, <3>1
  <2>4. offset'[c] > 0 => Len(state'.uid) = offset'[c]
    BY <1>2, <1>4, <1>6 DEF Answered
  <2>5. state'.last_tid \in Tid /\ NextTid(state'.last_tid) = tid'[c]
    BY <1>1, <1>2, <1>3, <1>6
  <2>6. \A r \in requests' : r = m /\ requests' = {r}
    BY <1>3
  <2>7. NextTid(m.tid) = tid'[c]
    BY <1>2, <1>3
  <2> HIDE DEF state
  <2>8. \A r \in requests' :
          /\ requests' = {r} /\ NextTid(r.tid) = tid'[c]
          /\ r.first => r.piece = <<c, 1>> /\ Len(state'.uid) = 1
          /\ r.tid = state'.last_tid
    BY <1>3, <1>6, <2>6, <2>7
  <2> QED BY <1>6, <2>2, <2>3, <2>4, <2>5, <2>8 DEF SingleInv, state
<1>7. CASE FirstPart(q)
  <2>1. /\ m.first /\ state'.uid = <<m.piece>> /\ state'.last_tid = m.tid /\ Respond(<<m.piece>>)
    BY <1>7 DEF FirstPart, Adopt, q
  <2>2. <<m.piece>> \in Seq(Piece) /\ Len(<<m.piece>>) = 1 /\ <<m.piece>>[1] = <<c, 1>>
    BY <1>1, <1>3, <2>1
  <2>3. OwnPrefix(c, <<m.piece>>)
    BY <1>1, <2>2 DEF OwnPrefix
  <2>4. Answered(c) => state.uid = <<m.piece>>
    <3>1. ASSUME Len(state.uid) = 1 PROVE state.uid[1] = <<c, 1>>
      BY <3>1, <1>1 DEF OwnPrefix
    <3>2. ASSUME Answered(c) PROVE Len(state.uid) = 1
      BY <1>3, <2>1, <3>2
    <3>3. ASSUME Len(state.uid) = 1 PROVE state.uid = <<m.piece>>
      BY <1>1, <2>2, <3>1, <3>3, SeqEqual
    <3> QED BY <3>2, <3>3
  <2> QED BY <1>6, <2>1, <2>2, <2>3, <2>4
<1>8. CASE NextPart(q)
  <2> DEFINE uid == state.uid \o <<m.piece>>
  <2>1. /\ ~m.first /\ m.tid = state.expected_tid /\ state.expected_tid >= 0
        /\ state'.uid = uid /\ state'.last_tid = m.tid /\ Respond(uid)
    BY <1>8 DEF NextPart, Continues, Adopt, q
  <2>2. m.tid # state.last_tid
    <3>1. NoAllocation.expected_tid = -1
      BY DEF NoAllocation
    <3>2. state.last_tid \in Tid /\ state.expected_tid = NextTid(state.last_tid)
      BY <1>5, <2>1, <3>1 DEF StateConsistent
    <3> QED BY <2>1, <3>2, NextTidInjective
  <2>3. ~Answered(c) /\ Len(state.uid) < UidLen /\ m.piece = <<c, Len(state.uid) + 1>>
    BY <1>3, <2>1, <2>2
  <2>4. /\ uid \in Seq(Piece) /\ Len(uid) = Len(state.uid) + 1
        /\ \A i \in 1 .. Len(state.uid) : uid[i] = state.uid[i]
        /\ uid[Len(state.uid) + 1] = m.piece
    BY <1>1
  <2>5. OwnPrefix(c, uid)
    <3> HIDE DEF uid
    <3>1. \A i \in 1 .. Len(uid) : i \in 1 .. Len(state.uid) \/ i = Len(state.uid) + 1
      BY <1>1, <2>4
    <3>2. \A i \in 1 .. Len(state.uid) : uid[i] = <<c, i>>
      BY <1>1, <2>4 DEF OwnPrefix
    <3>3. \A i \in 1 .. Len(uid) : uid[i] = <<c, i>>
      BY <2>3, <2>4, <3>1, <3>2
    <3>4. Len(uid) <= UidLen
      BY <1>1, <2>3, <2>4
    <3> QED BY <3>3, <3>4 DEF OwnPrefix
  <2> HIDE DEF uid
  <2> QED BY <1>6, <2>1, <2>3, <2>4, <2>5
<1>9. CASE DuplicatePart(q)
  <2>1. /\ ~m.first /\ state' = state /\ m.tid = state.last_tid /\ Respond(state.uid)
    BY <1>9 DEF DuplicatePart, Continues, q
  <2> QED BY <1>1, <1>6, <2>1
<1>10. CASE ~m.first
  <2>1. state.expected_tid >= 0 /\ (m.tid = state.expected_tid \/ m.tid = state.last_tid)
    <3>1. \/ state.last_tid = -1 /\ state.expected_tid = -1
          \/ state.last_tid \in Tid /\ state.expected_tid = NextTid(state.last_tid)
      BY <1>5 DEF StateConsistent, NoAllocation
    <3>2. \A t \in Tid : t >= 0 /\ t # -1 /\ NextTid(t) \in Tid
      BY AllocatorAssumption, NextTidType DEF Tid
    <3> QED BY <1>1, <1>3, <1>10, <3>1, <3>2
  <2>2. q.wanted /\ ~q.first /\ q.tid = m.tid
    BY <1>10 DEF q
  <2>3. ~Ignored(q) /\ ~FirstPart(q)
    BY <2>2 DEF Ignored, FirstPart
  <2>4. ~Orphan(q)
    <3>1. ~(state.expected_tid < 0)
      BY <1>5, <2>1, AllocatorAssumption DEF StateConsistent, NoAllocation, Tid, NextTid
    <3> QED BY <3>1 DEF Orphan
  <2>5. ~UnexpectedPart(q)
    BY <2>1, <2>2 DEF UnexpectedPart
  <2> QED BY <1>2, <1>8, <1>9, <2>3, <2>4, <2>5 DEF HandleAllocationRequest
<1>11. CASE m.first
  BY <1>2, <1>7, <1>11
  DEF HandleAllocationRequest, Ignored, Orphan, NextPart, DuplicatePart, UnexpectedPart, Continues, q
<1> QED BY <1>1, <1>10, <1>11

(* A node asks only when nothing of its exchange is under way.             *)
LEMMA SingleAsk ==
  ASSUME XInv, NEW c \in Client, Client = {c}, Prompt, SingleInv(c), Ask(c)
  PROVE  SingleInv(c)'
<1> DEFINE m == [client |-> c, first |-> offset[c] = 0, tid |-> tid[c],
                 piece |-> <<c, offset[c] + 1>>]
<1>1. /\ offset \in [Client -> 0 .. UidLen - 1] /\ tid \in [Client -> Tid]
      /\ \A r \in requests \cup answers : r.client = c
      /\ UidLen \in Nat \ {0}
  BY AllocatorAssumption DEF XInv, XTypeOK
<1>2. requests = {} /\ answers = {}
  BY <1>1 DEF Ask, UnderWay
<1>3. /\ UNCHANGED <<avars, answers>> /\ requests' = {m}
      /\ tid'[c] = NextTid(tid[c]) /\ offset'[c] = 0
  BY <1>1, <1>2 DEF Ask
<1>4. ~Answered(c)'
  BY <1>2, <1>3 DEF Answered
<1>5. OwnPrefix(c, allocation_state'.uid) /\ OnlyRealUids'
  BY <1>3 DEF SingleInv, OnlyRealUids, avars
<1>6. ASSUME offset[c] > 0
      PROVE  /\ tid[c] = allocation_state'.expected_tid
             /\ Len(allocation_state'.uid) < UidLen
             /\ offset[c] = Len(allocation_state'.uid)
  <2>1. /\ allocation_state.last_tid \in Tid /\ NextTid(allocation_state.last_tid) = tid[c]
        /\ Len(allocation_state.uid) = offset[c]
    BY <1>6 DEF SingleInv, Answered
  <2>2. allocation_state.expected_tid = NextTid(allocation_state.last_tid)
    <3>1. NoAllocation.last_tid = -1 /\ -1 \notin Tid
      BY DEF NoAllocation, Tid
    <3> QED BY <2>1, <3>1 DEF XInv, AllocInv, StateConsistent
  <2> QED BY <1>1, <1>3, <2>1, <2>2 DEF avars
<1>7. m.tid = tid[c] /\ (m.first <=> offset[c] = 0) /\ m.piece = <<c, offset[c] + 1>>
  OBVIOUS
<1> HIDE DEF m
<1>8. NextTid(m.tid) = tid'[c]
  BY <1>3, <1>7
<1>9. m.first => m.piece = <<c, 1>>
  BY <1>7
<1>10. ~m.first => /\ m.tid = allocation_state'.expected_tid
                   /\ Len(allocation_state'.uid) < UidLen
                   /\ m.piece = <<c, Len(allocation_state'.uid) + 1>>
  BY <1>1, <1>6, <1>7
<1> QED BY <1>3, <1>4, <1>5, <1>8, <1>9, <1>10 DEF SingleInv

LEMMA SingleHear ==
  ASSUME XInv, NEW c \in Client, Client = {c}, SingleInv(c), NEW m \in answers, Hear(m)
  PROVE  SingleInv(c)'
<1> DEFINE uid == allocation_state.uid
<1>1. /\ m.client = c /\ m.answer.uid = uid /\ uid \in Seq(Piece) /\ OwnPrefix(c, uid)
      /\ Len(uid) \in Nat /\ UidLen \in Nat \ {0} /\ Answered(c)
      /\ offset \in [Client -> 0 .. UidLen - 1]
  BY AllocatorAssumption DEF XInv, XTypeOK, TypeOK, SingleInv, Answered
<1>2. Len(uid) <= UidLen /\ uid = SubSeq(OwnUid(c), 1, Len(uid))
  BY <1>1, WholePrefix DEF OwnPrefix
<1>3. /\ UNCHANGED <<avars, tid, requests>> /\ answers' = answers \ {m}
      /\ offset'[c] = Len(uid) % UidLen
  BY <1>1, <1>2 DEF Hear
<1>4. Len(uid) % UidLen = IF Len(uid) = UidLen THEN 0 ELSE Len(uid)
  <2>1. Len(uid) \in 0 .. UidLen
    BY <1>1, <1>2
  <2> QED BY <1>1, <2>1, ModSmall
<1>5. offset'[c] > 0 => offset'[c] = Len(uid)
  BY <1>3, <1>4
<1>6. allocation_state' = allocation_state /\ table' = table
  BY <1>3 DEF avars
<1>7. /\ allocation_state.last_tid \in Tid
      /\ NextTid(allocation_state.last_tid) = tid[c]
      /\ \A a \in answers : a.answer.uid = uid
  BY <1>1 DEF SingleInv
<1>8. \A r \in requests :
        /\ requests = {r} /\ NextTid(r.tid) = tid[c]
        /\ r.first => r.piece = <<c, 1>> /\ Len(uid) = 1
        /\ ~r.first => r.tid = allocation_state.last_tid
  BY <1>1 DEF SingleInv
<1>9. OwnPrefix(c, uid) /\ OnlyRealUids'
  BY <1>6 DEF SingleInv, OnlyRealUids
<1> QED BY <1>3, <1>5, <1>6, <1>7, <1>8, <1>9 DEF SingleInv

(* The network loses a message, or nothing happens.                        *)
LEMMA SingleLose ==
  ASSUME NEW c \in Client, SingleInv(c),
         UNCHANGED <<avars, cvars>>, requests' \subseteq requests, answers' \subseteq answers
  PROVE  SingleInv(c)'
<1>1. /\ allocation_state' = allocation_state /\ table' = table
      /\ offset' = offset /\ tid' = tid
  BY DEF avars, cvars
<1>2. Answered(c)' => Answered(c)
  BY <1>1 DEF Answered
<1>3. Answered(c)' =>
        /\ allocation_state'.last_tid \in Tid /\ NextTid(allocation_state'.last_tid) = tid'[c]
        /\ offset'[c] > 0 => Len(allocation_state'.uid) = offset'[c]
        /\ \A a \in answers' : a.answer.uid = allocation_state'.uid
  BY <1>1, <1>2 DEF SingleInv
<1>4. \A m \in requests' : requests' = {m}
  BY DEF SingleInv
<1> QED BY <1>1, <1>2, <1>3, <1>4 DEF SingleInv, OnlyRealUids

(* A single prompt node never leads the allocator to enrol pieces that are *)
(* not its unique id, whatever is lost or repeated, for unique ids of any  *)
(* length and even if there are just two transfer ids.  Of two nodes it is  *)
(* not true: exchange_phantom (allocation.py:55-79).                       *)
THEOREM ExchangeOnlyRealUids ==
  ASSUME NEW c, Client = {c}, Prompt
  PROVE  XSpec => []OnlyRealUids
<1>1. c \in Client
  OBVIOUS
<1>2. XInit => SingleInv(c)
  <2> SUFFICES ASSUME XInit PROVE SingleInv(c)
    OBVIOUS
  <2>1. /\ allocation_state.uid = <<>> /\ table = <<>> /\ requests = {} /\ answers = {}
        /\ offset[c] = 0
    BY <1>1 DEF XInit, Init, NoAllocation
  <2>2. OwnPrefix(c, <<>>)
    BY AllocatorAssumption DEF OwnPrefix
  <2>3. DOMAIN table = {}
    BY <2>1
  <2> QED BY <2>1, <2>2, <2>3 DEF SingleInv, Answered, OnlyRealUids
<1>3. XInv /\ SingleInv(c) /\ [XNext]_xvars => SingleInv(c)'
  <2> SUFFICES ASSUME XInv, SingleInv(c), [XNext]_xvars PROVE SingleInv(c)'
    OBVIOUS
  <2>1. ASSUME NEW d \in Client, Ask(d) PROVE SingleInv(c)'
    BY <1>1, <2>1, SingleAsk
  <2>2. ASSUME NEW m \in requests, Arrives(m) \/ Repeated(m) PROVE SingleInv(c)'
    BY <1>1, <2>2, SingleServe DEF Arrives, Repeated
  <2>3. ASSUME NEW m \in answers, Hear(m) PROVE SingleInv(c)'
    BY <1>1, <2>3, SingleHear
  <2>4. ASSUME NEW m, Lose(m) PROVE SingleInv(c)'
    BY <1>1, <2>4, SingleLose DEF Lose
  <2>5. ASSUME UNCHANGED xvars PROVE SingleInv(c)'
    BY <1>1, <2>5, SingleLose DEF xvars, nvars
  <2> QED BY <2>1, <2>2, <2>3, <2>4, <2>5 DEF XNext, Done
<1>4. SingleInv(c) => OnlyRealUids
  BY DEF SingleInv
<1> QED BY <1>2, <1>3, <1>4, ExchangeInvariant, PTL DEF XSpec
=============================================================================

---------------------------- MODULE MCNodeContract ----------------------------
(***************************************************************************)
(* Node 5 asks for the node's info in one frame, node 6 in two, with the   *)
(* same transfer id; other nodes' requests, responses, unknown services    *)
(* and anonymous allocation requests are mixed with them.                  *)
(***************************************************************************)
EXTENDS NodeAnswers

Single(tid) == BuildTail(TRUE, TRUE, FALSE, tid)

Frame(id, data) == [id |-> id, data |-> data]

Request(service, dest, source) == BuildServiceId(7, service, TRUE, dest, source)

Info == Frame(Request(1, NodeId, 5), <<Single(3)>>)

InfoFirst == Frame(Request(1, NodeId, 6), <<7, 0, 3, BuildTail(TRUE, FALSE, FALSE, 3)>>)

InfoLast == Frame(Request(1, NodeId, 6), <<4, BuildTail(FALSE, TRUE, TRUE, 3)>>)

Spoilt == Frame(Request(1, NodeId, 6), <<5, BuildTail(FALSE, TRUE, TRUE, 3)>>)

Toggled == Frame(Request(1, NodeId, 5), <<BuildTail(TRUE, TRUE, TRUE, 3)>>)

Empty == Frame(Request(1, NodeId, 5), <<>>)

OtherNode == Frame(Request(1, 3, 5), <<Single(3)>>)

OtherService == Frame(Request(9, NodeId, 5), <<Single(3)>>)

Response == Frame(BuildServiceId(7, 1, FALSE, NodeId, 5), <<Single(3)>>)

Heartbeat == Frame(BuildMessageId(4, 341, 5), <<0, 0, Single(0)>>)

WholeUid(piece) == Frame(BuildMessageId(0, 1, 0), <<1, piece, piece, Single(31)>>)

HalfUid == Frame(BuildMessageId(0, 1, 0), <<1, 1, Single(31)>>)

OtherHalf == Frame(BuildMessageId(0, 1, 0), <<0, 2, Single(0)>>)

Frames ==
  {Info, InfoFirst, InfoLast, Spoilt, Toggled, Empty, OtherNode, OtherService, Response,
   Heartbeat, WholeUid(1), WholeUid(2), HalfUid, OtherHalf}

MCPackets ==
  {<<f>> : f \in {Info, InfoFirst, InfoLast, WholeUid(1), WholeUid(2)}}
    \cup {<<f, Info>> : f \in {InfoFirst, Toggled, Empty, OtherNode, OtherService, Response}}
    \cup {<<HalfUid, OtherHalf>>, <<Heartbeat, Spoilt>>, <<InfoFirst, InfoLast>>}

MCKey == {SessionKey(f) : f \in {g \in Frames : g.data # <<>>}}

MCChunk == {Front(f.data) : f \in {g \in Frames : g.data # <<>>}}

(* A check that tells the contents of the frames above apart.              *)
MCCrcOk(k, p) ==
  LET bytes == FlattenSeq(p) IN bytes[1] = FoldLeft(+, 0, SubSeq(bytes, 3, Len(bytes)))
=============================================================================

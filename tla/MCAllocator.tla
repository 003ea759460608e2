----------------------------- MODULE MCAllocator -----------------------------
(***************************************************************************)
(* Every request the handler can be given, over unique ids of two pieces.  *)
(***************************************************************************)
EXTENDS Allocator, SequencesExt

CONSTANTS
  MaxChunk,  \* bound of the model: pieces in one request
  MaxUid     \* bound of the model: pieces collected

MCRequest ==
  [wanted : BOOLEAN, first : BOOLEAN, tid : Tid, chunk : BoundedSeq(Piece, MaxChunk)]

MCNext ==
  \E q \in MCRequest :
    /\ q.first \/ Len(allocation_state.uid) + Len(q.chunk) <= MaxUid
    /\ HandleAllocationRequest(q)

MCSpec == Init /\ [][MCNext]_avars
=============================================================================

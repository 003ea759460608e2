----------------------------- MODULE NodeAnswers ------------------------------
(***************************************************************************)
(* Which requests the server owes an answer, told from the frames it has   *)
(* been given alone: those whose transfer ReassemblyContract finds to have *)
(* been completed.  The variables below are history, too.                  *)
(***************************************************************************)
EXTENDS NodeContract

VARIABLES
  heard,  \* the frames for the reassembler, and when they were handled
  due     \* what the answers are to say, in order

avars == <<cvars, heard, due>>

History == INSTANCE ReassemblyContract WITH MaxFrames <- 0

(* Reads of an answer what tells its receiver whose it is.                 *)
Label(a) ==
  IF IsService(a.id)
  THEN [service |-> ServiceType(a.id), request |-> IsRequest(a.id), from |-> Source(a.id),
        to |-> Dest(a.id), priority |-> Priority(a.id), tid |-> a.tid]
  ELSE [message |-> MessageType(a.id), from |-> Source(a.id), priority |-> Priority(a.id),
        tid |-> a.tid]

(* What the requester of the node's info needs to find in the answer.      *)
InfoLabel(f) ==
  [service |-> GetNodeInfo, request |-> FALSE, from |-> NodeId, to |-> Source(f.id),
   priority |-> Priority(f.id), tid |-> TailTid(Last(f.data))]

AllocationLabel ==
  [message |-> Allocation, from |-> NodeId, priority |-> DefaultPriority,
   tid |-> allocation_tid]

(* What frame f, the last one handled, makes the server owe: an answer if  *)
(* it asks for the node's info or completes a transfer that does, and what *)
(* the allocator answers.                                                  *)
Owing(f) ==
  IF IsService(f.id)
  THEN IF /\ IsRequest(f.id) /\ Dest(f.id) = NodeId /\ ServiceType(f.id) = GetNodeInfo
          /\ f.data # <<>> /\ History!Owed(heard') # {}
       THEN <<InfoLabel(f)>> ELSE <<>>
  ELSE IF response' # NoResponse THEN <<AllocationLabel>> ELSE <<>>

AInit == CInit /\ heard = <<>> /\ due = <<>>

(* The reassembler hears the frames of requests to this node that have a   *)
(* tail byte.                                                              *)
Observe(f) ==
  /\ heard' = IF /\ IsService(f.id) /\ IsRequest(f.id) /\ Dest(f.id) = NodeId
                 /\ f.data # <<>>
              THEN Append(heard, [frame |-> ServiceFrame(f), at |-> now]) ELSE heard
  /\ due' = due \o Owing(f)

ANext ==
  \/ \E frames \in Packets :
       \E bytes \in 0 .. Len(BuildPacket(0, frames)), count \in 0 .. Len(frames) + 1 :
         Arrive(frames, bytes, count) /\ UNCHANGED <<heard, due>>
  \/ Handle /\ Observe(Head(parsed_frames))
  \/ Send /\ UNCHANGED <<heard, due>>
  \/ Advance /\ UNCHANGED <<arrived, handled, answers, heard, due>>

ASpec == AInit /\ [][ANext]_avars
-----------------------------------------------------------------------------
(* Every request for the node's info that arrives in full, in one frame or *)
(* in several, across packets and between other traffic, is answered once, *)
(* and so that the requester knows the answer for its own: a response of   *)
(* that service from this node to the requester, with the priority and the *)
(* transfer id of the request (node.py:87-112, node_info.py:27-41).  What  *)
(* the allocator answers is sent once, too, in its place among them, and   *)
(* nothing else is answered.                                               *)
RequestsAnsweredOnce ==
  LET given == answers \o resp_frames
  IN due = [i \in DOMAIN given |-> Label(given[i])]
=============================================================================

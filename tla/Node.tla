--------------------------------- MODULE Node ---------------------------------
(***************************************************************************)
(* What becomes of a UDP packet: datagram_received (app_runtime.py) parses *)
(* it into CAN frames and passes them one by one to handle_frame of        *)
(* DroneCANMockNode (node.py), which asks the reassembler and the service  *)
(* handlers (services/node_info.py) about service requests to this node,   *)
(* and the allocator about messages; the answers leave in one packet.      *)
(*                                                                         *)
(* A packet is handled without awaiting.  Here each of its frames is a     *)
(* step, and nothing else happens until the packet is done.  An answer is  *)
(* a transfer: its identifier and transfer id; the frames it is cut into   *)
(* are those of TransferLink.  Neither the reassembler nor a handler can   *)
(* raise on the frames a packet can hold, so the exception paths are left  *)
(* out.  The table of peers and the sequence number are in module Server.  *)
(***************************************************************************)
EXTENDS CanId, Cannelloni

CONSTANTS
  NodeId,          \* self.node_id
  Key, Chunk, SessionTimeout, MaxTime, NoSession, None, CrcOk(_, _),
  Piece, UidLen, TidSpace, NodeIdSpace, FirstNodeId, NoResponse

ASSUME NodeAssumption ==
  /\ NodeId \in NodeIds
  /\ TidSpace = 32 /\ NodeIdSpace = 128
  /\ FirstNodeId \in 1 .. NodeIdSpace - 1
  /\ UidLen \in Nat \ {0}
  /\ SessionTimeout \in Nat /\ MaxTime \in Nat
  /\ NoSession \notin [payload : Seq(Chunk), expectedToggle : BOOLEAN, ts : Nat]
  /\ None \notin [key : Key, payload : Seq(Chunk)]

VARIABLES
  sessions, now, out,                                             \* reassembler
  allocation_state, table, next_node_id, allocation_tid, response,  \* allocator
  parsed_frames,   \* frames of the packet that are still to be handled
  resp_frames      \* answers to those handled

reassemblerVars == <<sessions, out>>

allocatorVars == <<allocation_state, table, next_node_id, allocation_tid, response>>

nvars == <<reassemblerVars, now, allocatorVars, parsed_frames, resp_frames>>

GetNodeInfo == 1

Allocation == 1

DefaultPriority == 4

(* REASSEMBLER_SIGNATURE_REGISTRY, as far as service requests go.          *)
Registered == {k \in Key : k[4] = GetNodeInfo}

TooShort(p) == Len(FlattenSeq(p)) < 2

Reassembly == INSTANCE Reassembler

Allocator == INSTANCE Allocator

Answer(id, tid) == [id |-> id, tid |-> tid]

Init ==
  /\ Reassembly!Init
  /\ Allocator!Init
  /\ parsed_frames = <<>>
  /\ resp_frames = <<>>

Ready == parsed_frames = <<>> /\ resp_frames = <<>>
-----------------------------------------------------------------------------
DatagramReceived(packet) ==
  /\ Ready
  /\ parsed_frames' = ParsePacket(packet)
  /\ UNCHANGED <<reassemblerVars, now, allocatorVars, resp_frames>>

(* The rest of the packet comes later; `answers' to this frame now.        *)
Done(answers) ==
  /\ parsed_frames' = Tail(parsed_frames)
  /\ resp_frames' = resp_frames \o answers

Tl(f) == Last(f.data)

SessionKey(f) == <<Source(f.id), Dest(f.id), TRUE, ServiceType(f.id), TailTid(Tl(f))>>

(* What process_frame reads of a frame that is not empty.                  *)
ServiceFrame(f) ==
  [key |-> SessionKey(f), sot |-> StartBit(Tl(f)), eot |-> EndBit(Tl(f)),
   toggle |-> ToggleBit(Tl(f)), chunk |-> Front(f.data)]

MutForUsAnyDest(f) == IsService(f.id) /\ IsRequest(f.id)

ForUs(f) == IsService(f.id) /\ IsRequest(f.id) /\ Dest(f.id) = NodeId

(* GetNodeInfoHandler.handle_request.                                      *)
InfoAnswer(f) ==
  Answer(BuildServiceId(Priority(f.id), GetNodeInfo, FALSE, Source(f.id), NodeId),
         TailTid(Tl(f)))

IgnoreService(f) ==
  /\ IsService(f.id) /\ ~ForUs(f)
  /\ Done(<<>>)
  /\ UNCHANGED <<reassemblerVars, now, allocatorVars>>

(* A request to this node goes through the reassembler; a complete one     *)
(* goes to the handler of its service, if there is one.                    *)
ServiceRequest(f) ==
  /\ ForUs(f)
  /\ IF f.data = <<>> THEN Reassembly!EmptyFrame
     ELSE Reassembly!ProcessFrame(ServiceFrame(f))
  /\ Done(IF out' # None /\ ServiceType(f.id) = GetNodeInfo THEN <<InfoAnswer(f)>> ELSE <<>>)
  /\ UNCHANGED allocatorVars

Wanted(f) == MessageType(f.id) = Allocation /\ Len(f.data) >= 2 /\ f.data[1] \div 2 = 0

AllocationRequest(f) ==
  IF Wanted(f)
  THEN [wanted |-> TRUE, first |-> f.data[1] % 2 = 1, tid |-> TailTid(Tl(f)),
        chunk |-> SubSeq(f.data, 2, Len(f.data) - 1)]
  ELSE [wanted |-> FALSE, first |-> FALSE, tid |-> 0, chunk |-> <<>>]

Message(f) ==
  /\ ~IsService(f.id)
  /\ Allocator!HandleAllocationRequest(AllocationRequest(f))
  /\ Done(IF response' = NoResponse THEN <<>>
          ELSE <<Answer(BuildMessageId(DefaultPriority, Allocation, NodeId), response'.tid)>>)
  /\ UNCHANGED <<reassemblerVars, now>>

HandleFrame ==
  /\ parsed_frames # <<>>
  /\ LET f == Head(parsed_frames)
     IN IgnoreService(f) \/ ServiceRequest(f) \/ Message(f)

(* All frames are handled: what there is to answer is sent.                *)
Reply ==
  /\ parsed_frames = <<>> /\ resp_frames # <<>>
  /\ resp_frames' = <<>>
  /\ UNCHANGED <<reassemblerVars, now, allocatorVars, parsed_frames>>

Advance ==
  /\ Ready
  /\ Reassembly!Advance
  /\ UNCHANGED <<allocatorVars, parsed_frames, resp_frames>>
=============================================================================

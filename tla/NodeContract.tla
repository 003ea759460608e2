----------------------------- MODULE NodeContract -----------------------------
(***************************************************************************)
(* What a node on the bus may rely on when it talks to the server through  *)
(* packets that may be cut anywhere, or count their frames wrongly.  The   *)
(* variables below are history: no step of the code depends on them.       *)
(***************************************************************************)
EXTENDS Node

CONSTANTS
  Packets,    \* sequences of frames that peers put in a packet
  MaxFrames   \* bound of the model: frames that arrive

CanFrame == [id : Nat, data : Seq(0 .. 255)]

(* Frames as a packet can carry them: 29 bits of identifier, and as many   *)
(* bytes of data as one byte counts.                                       *)
WireFrame == {f \in CanFrame : f.id < 536870912 /\ Len(f.data) <= 255}

(* No packet holds more frames than its header can count.                  *)
ASSUME PacketsAssumption ==
  \A frames \in Packets : frames \in Seq(WireFrame) /\ Len(frames) < 65535

(* Key, Chunk and Piece are what these frames are made of.                 *)
ASSUME ContentsAssumption ==
  \A frames \in Packets : \A i \in DOMAIN frames :
    LET f == frames[i] IN
    /\ ForUs(f) /\ f.data # <<>> => SessionKey(f) \in Key /\ Front(f.data) \in Chunk
    /\ ~IsService(f.id) => AllocationRequest(f).chunk \in Seq(Piece)

VARIABLES
  arrived,  \* frames that arrived whole
  handled,  \* frames handled
  answers   \* answers sent

cvars == <<nvars, arrived, handled, answers>>

(* A packet of these frames that claims `count' of them.                   *)
Claiming(frames, count) ==
  [BuildPacket(0, frames) EXCEPT ![4] = count \div 256, ![5] = count % 256]

(* The frames that lie within the first `bytes' bytes and the count.       *)
Whole(frames, bytes, count) ==
  LET within == {n \in 1 .. Len(frames) :
                   n <= count /\ Len(BuildPacket(0, SubSeq(frames, 1, n))) <= bytes}
  IN SubSeq(frames, 1, Cardinality(within))

CInit == Init /\ arrived = <<>> /\ handled = <<>> /\ answers = <<>>

Arrive(frames, bytes, count) ==
  /\ Len(arrived) + Len(frames) <= MaxFrames
  /\ DatagramReceived(SubSeq(Claiming(frames, count), 1, bytes))
  /\ arrived' = arrived \o Whole(frames, bytes, count)
  /\ UNCHANGED <<handled, answers>>

Handle ==
  /\ HandleFrame
  /\ handled' = Append(handled, Head(parsed_frames))
  /\ UNCHANGED <<arrived, answers>>

Send ==
  /\ Reply
  /\ answers' = answers \o resp_frames
  /\ UNCHANGED <<arrived, handled>>

CNext ==
  \/ \E frames \in Packets :
       \E bytes \in 0 .. Len(BuildPacket(0, frames)), count \in 0 .. Len(frames) + 1 :
         Arrive(frames, bytes, count)
  \/ Handle
  \/ Send
  \/ Advance /\ UNCHANGED <<arrived, handled, answers>>

CSpec == CInit /\ [][CNext]_cvars
-----------------------------------------------------------------------------
TypeOK ==
  /\ Reassembly!TypeOK
  /\ Allocator!TypeOK
  /\ parsed_frames \in Seq(CanFrame)
  /\ resp_frames \in Seq([id : Nat, tid : 0 .. 31])

(* Every frame that arrived whole is handled, once and in order, and none  *)
(* is made up out of the rest of the packet, wherever the packet was cut   *)
(* and whatever count it claims (cannelloni.py:28-47).                     *)
CutPacketsKeepPrefix ==
  handled \o parsed_frames = arrived
=============================================================================

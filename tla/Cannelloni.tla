------------------------------ MODULE Cannelloni ------------------------------
(***************************************************************************)
(* Cannelloni packets (cannelloni.py): a header of 5 bytes, then for each  *)
(* frame 4 bytes of CAN identifier, one byte of length, and the data.      *)
(* Packets and data are sequences of bytes.                                *)
(***************************************************************************)
EXTENDS Integers, SequencesExt

Version == 2

OpData == 0

HeaderSize == 5

(* The identifier and the length of a frame; the last byte is the length.  *)
FrameHeader == 5

(* The highest bit is the flag of extended frames.                         *)
IdBytes(id) ==
  <<128 + (id \div 16777216), (id \div 65536) % 256, (id \div 256) % 256, id % 256>>

(* The identifier as parse_can_id will mask it.                            *)
IdAt(p, at) ==
  (p[at + 1] % 32) * 16777216 + p[at + 2] * 65536 + p[at + 3] * 256 + p[at + 4]

FrameBytes(f) == IdBytes(f.id) \o <<Len(f.data)>> \o f.data

BuildPacket(seq, frames) ==
  <<Version, OpData, seq % 256, Len(frames) \div 256, Len(frames) % 256>>
    \o FlattenSeq([i \in DOMAIN frames |-> FrameBytes(frames[i])])

(* Where the frame at `at' ends.                                           *)
FrameEnd(p, at) == at + FrameHeader + p[at + FrameHeader]

FrameAt(p, at) ==
  [id |-> IdAt(p, at), data |-> SubSeq(p, at + FrameHeader + 1, FrameEnd(p, at))]

MutFitsOffByOne(p, at) == at + FrameHeader <= Len(p) /\ FrameEnd(p, at) < Len(p)

(* A whole frame stands at offset `at'.                                    *)
Fits(p, at) == at + FrameHeader <= Len(p) /\ FrameEnd(p, at) <= Len(p)

(* Where the next frame stands; at the end, where none fits, when the one  *)
(* at `at' is not whole.                                                   *)
Following(p, at) == IF Fits(p, at) THEN FrameEnd(p, at) ELSE Len(p)

(* The offset of the parser after i rounds.                                *)
Offsets(p, count) ==
  LET offset[i \in 0 .. count] ==
        IF i = 0 THEN HeaderSize ELSE Following(p, offset[i - 1])
  IN offset

(* Parsing stops at the count of the header or at the first frame that is  *)
(* not whole, and returns the frames before.                               *)
ParsePacket(p) ==
  IF Len(p) < HeaderSize \/ p[1] # Version \/ p[2] # OpData THEN <<>>
  ELSE LET count == p[4] * 256 + p[5]
           offsets == Offsets(p, count)
           whole == {i \in 1 .. count : Fits(p, offsets[i - 1])}
       IN [i \in whole |-> FrameAt(p, offsets[i - 1])]
=============================================================================

-------------------------------- MODULE CanId --------------------------------
(***************************************************************************)
(* CAN identifiers and tail bytes (can_utils.py, dronecan.py), as numbers. *)
(* An identifier is its 29 bits: the flag of extended frames, which        *)
(* building sets and parsing masks off, is not part of it.                 *)
(*                                                                         *)
(*   message    priority 28..24, type 23..8, 0, source 6..0                *)
(*   anonymous  the same with source 0: type 9..8, discriminator 23..10    *)
(*   service    priority 28..24, type 23..16, request 15,                  *)
(*              destination 14..8, 1, source 6..0                          *)
(***************************************************************************)
EXTENDS Integers

NodeIds == 0 .. 127

Priorities == 0 .. 31

Bit(b) == IF b THEN 1 ELSE 0

BuildMessageId(priority, type, source) ==
  (priority % 32) * 16777216 + (type % 65536) * 256 + (source % 128)

BuildServiceId(priority, type, isRequest, dest, source) ==
  (priority % 32) * 16777216 + (type % 256) * 65536 + Bit(isRequest) * 32768
    + (dest % 128) * 256 + 128 + (source % 128)

IsService(id) == (id \div 128) % 2 = 1

Source(id) == id % 128

Priority(id) == (id \div 16777216) % 32

ServiceType(id) == (id \div 65536) % 256

IsRequest(id) == (id \div 32768) % 2 = 1

Dest(id) == (id \div 256) % 128

(* An anonymous message carries 2 bits of its type; the other bits are a   *)
(* discriminator.                                                          *)
MessageType(id) == IF Source(id) = 0 THEN (id \div 256) % 4 ELSE (id \div 256) % 65536

BuildTail(sot, eot, toggle, tid) ==
  Bit(sot) * 128 + Bit(eot) * 64 + Bit(toggle) * 32 + (tid % 32)

StartBit(tail) == (tail \div 128) % 2 = 1

EndBit(tail) == (tail \div 64) % 2 = 1

ToggleBit(tail) == (tail \div 32) % 2 = 1

TailTid(tail) == tail % 32
=============================================================================

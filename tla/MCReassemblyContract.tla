------------------------ MODULE MCReassemblyContract ------------------------
EXTENDS ReassemblyContract

MCChunk == 1 .. MaxFrames

(* The CRC and the length check may go either way: an arbitrary predicate  *)
(* that passes some chunk sequences of each length and fails others.       *)
MCCrcOk(k, p) == p[Len(p)] % 2 = 1

MCTooShort(p) == p[1] = 1 /\ Len(p) = 2 /\ p[2] = 4
=============================================================================

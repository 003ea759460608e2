---------------------------- MODULE TransferLink ----------------------------
(***************************************************************************)
(* Transfers sent over the bus to a TransferReassembler.                   *)
(*                                                                         *)
(* A sender cuts a transfer into frames as build_multi_frame does          *)
(* (dronecan.py), or sends one frame, and sends its frames in order; it    *)
(* reuses a session key (the 5-bit transfer id wraps) only after the       *)
(* previous transfer with that key has been sent.  The bus is CAN          *)
(* tunnelled over UDP: any frame sent may arrive late, out of order, more  *)
(* than once or never.  The CRC is ideal: it passes a sequence of chunks   *)
(* exactly when they are the whole of one transfer of that key.            *)
(***************************************************************************)
EXTENDS Integers, Sequences

CONSTANTS
  Transfer,
  KeyOf,       \* session key of each transfer
  Frames,      \* number of frames of each transfer
  MaxChunks,   \* bound of the model: longest session
  Key, Registered, SessionTimeout, MaxTime, NoSession, None

ASSUME LinkAssumption ==
  /\ Registered \subseteq Key
  /\ KeyOf \in [Transfer -> Key]
  /\ Frames \in [Transfer -> Nat \ {0}]
  /\ MaxChunks \in Nat
  /\ None \notin Transfer

VARIABLES
  sessions, now, out,  \* of the reassembler
  sent,                \* how many frames of each transfer have been sent
  begun                \* history: of each key, the transfer of several frames
                       \* whose first frame came last, till it is returned

lvars == <<sessions, now, out, sent, begun>>

(* Frame i of transfer x carries the chunk <<x, i>>.                       *)
Chunk == Transfer \X (Nat \ {0})

Whole(x) == [i \in 1 .. Frames[x] |-> <<x, i>>]

IdealCrc(k, p) == \E x \in Transfer : KeyOf[x] = k /\ p = Whole(x)

(* The first chunk of a multi-frame transfer holds the 2 bytes of the CRC. *)
NeverShort(p) == FALSE

Receiver == INSTANCE Reassembler WITH CrcOk <- IdealCrc, TooShort <- NeverShort

MutFrameToggleStuck(x, i) ==
  [key |-> KeyOf[x], sot |-> i = 1, eot |-> i = Frames[x], toggle |-> i # 1,
   chunk |-> <<x, i>>]

MutFrameEndsEarly(x, i) ==
  [key |-> KeyOf[x], sot |-> i = 1, eot |-> i + 1 >= Frames[x], toggle |-> i % 2 = 0,
   chunk |-> <<x, i>>]

FrameOf(x, i) ==
  [key |-> KeyOf[x], sot |-> i = 1, eot |-> i = Frames[x], toggle |-> i % 2 = 0,
   chunk |-> <<x, i>>]

LinkInit ==
  /\ Receiver!Init
  /\ sent = [x \in Transfer |-> 0]
  /\ begun = [k \in Key |-> None]

(* The sender of x puts its next frame on the bus.                         *)
Send(x) ==
  /\ sent[x] < Frames[x]
  /\ sent[x] = 0 => \A y \in Transfer : KeyOf[y] = KeyOf[x] => sent[y] \in {0, Frames[y]}
  /\ sent' = [sent EXCEPT ![x] = @ + 1]
  /\ UNCHANGED <<sessions, now, out, begun>>

(* Some frame sent earlier arrives, for the first time or again.           *)
Arrive(x, i) ==
  /\ i <= sent[x]
  /\ sessions[KeyOf[x]] # NoSession => Len(sessions[KeyOf[x]].payload) < MaxChunks
  /\ Receiver!ProcessFrame(FrameOf(x, i))
  /\ begun' = IF Frames[x] = 1 THEN begun
              ELSE [begun EXCEPT ![KeyOf[x]] =
                      IF i = 1 THEN x ELSE IF out' # None THEN None ELSE @]
  /\ UNCHANGED sent

LinkNext ==
  \/ \E x \in Transfer : Send(x)
  \/ \E x \in Transfer : \E i \in 1 .. Frames[x] : Arrive(x, i)
  \/ Receiver!EmptyFrame /\ UNCHANGED <<sent, begun>>
  \/ Receiver!Advance /\ UNCHANGED <<sent, begun>>

LinkSpec == LinkInit /\ [][LinkNext]_lvars
-----------------------------------------------------------------------------
(* The chunks of p come from transfers of key k, begin with a first frame  *)
(* and have no second one, and at every position stands a frame whose own  *)
(* number has the parity of the position.                                  *)
InStep(k, p) ==
  /\ p # <<>>
  /\ \A n \in DOMAIN p :
       LET x == p[n][1]  i == p[n][2] IN
       /\ KeyOf[x] = k
       /\ i \in 1 .. Frames[x]
       /\ i % 2 = n % 2
       /\ i = 1 <=> n = 1

(* The same, of a session: its last frame has not come, and the toggle it  *)
(* expects is that of the next frame in step.                              *)
SessionInStep(k, s) ==
  /\ InStep(k, s.payload)
  /\ \A n \in DOMAIN s.payload : s.payload[n][2] < Frames[s.payload[n][1]]
  /\ s.expectedToggle <=> Len(s.payload) % 2 = 1

(* Sessions hold frames in step: whatever was lost, repeated or reordered, *)
(* and although the toggle is one bit, an odd number of frames is never    *)
(* missing between two chunks of a session (reassembler.py,                *)
(* process_frame).                                                         *)
SessionsInStep ==
  \A k \in Key : sessions[k] # NoSession => SessionInStep(k, sessions[k])

(* What the CRC is not there to catch: a transfer of a type without a      *)
(* registered signature is returned unchecked (reassembler.py:136-143), so *)
(* it may be a mixture; but it is made of frames of its own key in step,   *)
(* from a first frame to a last one, so the loss of one frame is noticed.  *)
UncheckedInStep ==
  out # None =>
    LET p == out.payload  last == p[Len(p)] IN
    /\ InStep(out.key, p)
    /\ last[2] = Frames[last[1]]

(* A transfer of a registered type is returned whole, and only after its   *)
(* sender has sent all of it.                                              *)
CheckedIsWhole ==
  out # None /\ out.key \in Registered =>
    \E x \in Transfer :
      KeyOf[x] = out.key /\ sent[x] = Frames[x] /\ out.payload = Whole(x)

Checked == {x \in Transfer : KeyOf[x] \in Registered}

InOneFrame == {x \in Checked : Frames[x] = 1}

Offered == {x \in Checked : sent[x] = Frames[x]}

Begun == [k \in Registered |-> begun[k]]

(* The transfer returned; a payload that is no transfer stands for itself. *)
Got ==
  IF out = None \/ out.key \notin Registered THEN None
  ELSE IF IdealCrc(out.key, out.payload)
       THEN CHOOSE x \in Transfer : KeyOf[x] = out.key /\ out.payload = Whole(x)
       ELSE out.payload

Service == INSTANCE TransferService WITH
  Transfer <- Checked, Single <- InOneFrame, Key <- Registered, Nothing <- None,
  offered <- Offered, begun <- Begun, got <- Got

(* The link implements the service: the frames, the sessions, the timeout  *)
(* and the faults of the bus are invisible above the reassembler.  Most of *)
(* all, however often frames are repeated, a transfer is not returned a    *)
(* second time unless its first frame has come again, and a transfer       *)
(* begun later with its key ends it for good (reassembler.py:98-102, 127). *)
ImplementsService == Service!Spec
=============================================================================

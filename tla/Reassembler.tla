----------------------------- MODULE Reassembler -----------------------------
(***************************************************************************)
(* TransferReassembler (reassembler.py): collects the frames of DroneCAN   *)
(* multi-frame transfers, one session per session key, and returns the     *)
(* payload of a transfer when its last frame arrives.                      *)
(*                                                                         *)
(* A call process_frame(parsed_id, frame_data, now) is one step: the code  *)
(* runs on a single asyncio thread and never awaits.  Each action below is *)
(* one return path of that call, and `out' is what the call returned.      *)
(* Times are ticks of the monotonic clock.  The contents of a frame are an *)
(* element of Chunk; the payload of a session is the sequence of the       *)
(* chunks appended to it.                                                  *)
(***************************************************************************)
EXTENDS Integers, Sequences

CONSTANTS
  Key,             \* (source, destination, is_service, type, transfer id)
  Registered,      \* keys whose (is_service, type) has a DSDL signature
  Chunk,           \* contents of a frame without its tail byte
  SessionTimeout,  \* self.session_timeout, in ticks
  MaxTime,         \* bound of the model: the clock stops here
  NoSession,       \* sessions.get(key) is None
  None,            \* process_frame returned None
  TooShort(_),     \* these chunks hold fewer than 2 bytes
  CrcOk(_, _)      \* CRC in the first 2 bytes = CRC of the rest, for a key

VARIABLES
  sessions,  \* self.sessions, total on Key with NoSession for absent keys
  now,       \* clock.now()
  out        \* what the last call of process_frame returned

vars == <<sessions, now, out>>

(* What the call reads off the CAN identifier and the tail byte.           *)
Frame == [key : Key, sot : BOOLEAN, eot : BOOLEAN, toggle : BOOLEAN, chunk : Chunk]

Session == [payload : Seq(Chunk), expectedToggle : BOOLEAN, ts : Nat]

Output == [key : Key, payload : Seq(Chunk)]

ASSUME ReassemblerAssumption ==
  /\ Registered \subseteq Key
  /\ SessionTimeout \in Nat
  /\ MaxTime \in Nat
  /\ NoSession \notin Session
  /\ None \notin Output

TypeOK ==
  /\ sessions \in [Key -> Session \cup {NoSession}]
  /\ now \in Nat
  /\ out \in Output \cup {None}

Init ==
  /\ sessions = [k \in Key |-> NoSession]
  /\ now = 0
  /\ out = None
-----------------------------------------------------------------------------
Stale(s) == s # NoSession /\ now - s.ts > SessionTimeout

MutNoCleanup(k) == sessions[k]

(* self.sessions as _cleanup_stale_sessions leaves it.                     *)
Live(k) == IF Stale(sessions[k]) THEN NoSession ELSE sessions[k]

MutStoreForgetsOthers(k, s) ==
  sessions' = [j \in Key |-> IF j = k THEN s ELSE NoSession]

(* The sessions when the call cleans up and then stores s under key k.     *)
Store(k, s) == sessions' = [j \in Key |-> IF j = k THEN s ELSE Live(j)]

Return(k, p) == [key |-> k, payload |-> p]

MutVerdictReturnsSession(k, p) == IF TooShort(p) THEN None ELSE sessions[k]

MutVerdictNoCrc(k, p) == IF TooShort(p) THEN None ELSE Return(k, p)

(* The end-of-transfer checks: length, then CRC where a signature is known.*)
Verdict(k, p) ==
  IF TooShort(p) \/ (k \in Registered /\ ~CrcOk(k, p)) THEN None ELSE Return(k, p)
-----------------------------------------------------------------------------
(* `if not frame_data': no tail byte to read.                              *)
EmptyFrame == out' = None /\ UNCHANGED <<sessions, now>>

(* Both flags set: answered at once, before any clean-up.                  *)
SingleFrame(f) ==
  /\ f.sot /\ f.eot
  /\ out' = IF f.toggle THEN None ELSE Return(f.key, <<f.chunk>>)
  /\ UNCHANGED <<sessions, now>>

MutStartKeepsSession(f) ==
  /\ f.sot /\ ~f.eot
  /\ Store(f.key, IF f.toggle \/ Live(f.key) # NoSession THEN Live(f.key)
                  ELSE [payload |-> <<f.chunk>>, expectedToggle |-> TRUE, ts |-> now])
  /\ out' = None /\ UNCHANGED now

(* First frame of several: a new session replaces whatever the key had,    *)
(* unless the toggle bit is set, when only the clean-up happens.           *)
StartTransfer(f) ==
  /\ f.sot /\ ~f.eot
  /\ Store(f.key, IF f.toggle THEN Live(f.key)
                  ELSE [payload |-> <<f.chunk>>, expectedToggle |-> TRUE, ts |-> now])
  /\ out' = None /\ UNCHANGED now

(* A later frame whose key has no (fresh) session.                         *)
Orphan(f) ==
  /\ ~f.sot /\ Live(f.key) = NoSession
  /\ Store(f.key, NoSession)
  /\ out' = None /\ UNCHANGED now

(* The guard shared by the frames that meet a session.                     *)
Meets(f) == ~f.sot /\ Live(f.key) # NoSession

ToggleMismatch(f) ==
  /\ Meets(f) /\ f.toggle # sessions[f.key].expectedToggle
  /\ Store(f.key, NoSession)
  /\ out' = None /\ UNCHANGED now

MutInSequence(f) == Meets(f)

InSequence(f) == Meets(f) /\ f.toggle = sessions[f.key].expectedToggle

Extended(f) == Append(sessions[f.key].payload, f.chunk)

MiddleFrame(f) ==
  /\ InSequence(f) /\ ~f.eot
  /\ Store(f.key, [payload |-> Extended(f),
                   expectedToggle |-> ~sessions[f.key].expectedToggle,
                   ts |-> now])
  /\ out' = None /\ UNCHANGED now

MutLastFrameKeepsSession(f) ==
  /\ InSequence(f) /\ f.eot
  /\ Store(f.key, sessions[f.key])
  /\ out' = Verdict(f.key, Extended(f)) /\ UNCHANGED now

LastFrame(f) ==
  /\ InSequence(f) /\ f.eot
  /\ Store(f.key, NoSession)
  /\ out' = Verdict(f.key, Extended(f)) /\ UNCHANGED now

ProcessFrame(f) ==
  \/ SingleFrame(f)
  \/ StartTransfer(f)
  \/ Orphan(f)
  \/ ToggleMismatch(f)
  \/ MiddleFrame(f)
  \/ LastFrame(f)

(* Time passes between calls.                                              *)
Advance == now < MaxTime /\ now' = now + 1 /\ UNCHANGED <<sessions, out>>

Next == EmptyFrame \/ (\E f \in Frame : ProcessFrame(f)) \/ Advance

Spec == Init /\ [][Next]_vars
=============================================================================

-------------------------- MODULE ReassemblyContract --------------------------
(***************************************************************************)
(* What the reassembler promises, said of the history of the frames it was *)
(* given and not of its sessions.  `heard' records every frame with its    *)
(* arrival time.  A run of key k is a first frame of k followed by all     *)
(* later frames of k that take part in reassembly, such that the toggle    *)
(* bits alternate, no gap exceeds the timeout and only the last frame ends *)
(* the transfer.  The reassembler must return exactly the completed runs.  *)
(*                                                                         *)
(* Frame contents are never inspected except by the CRC, so the n-th frame *)
(* carries the number n: every frame is distinguishable from every other.  *)
(***************************************************************************)
EXTENDS Reassembler, FiniteSets, FiniteSetsExt

CONSTANT MaxFrames  \* bound of the model: length of the history

ASSUME ContractAssumption == MaxFrames \in Nat /\ 1 .. MaxFrames \subseteq Chunk

VARIABLE heard      \* every frame received so far, with its arrival time

hvars == <<sessions, now, out, heard>>

HInit == Init /\ heard = <<>>

Receive(f) ==
  /\ ProcessFrame(f)
  /\ heard' = Append(heard, [frame |-> f, at |-> now])

HNext ==
  \/ /\ Len(heard) < MaxFrames
     /\ \E k \in Key, s, e, t \in BOOLEAN :
          Receive([key |-> k, sot |-> s, eot |-> e, toggle |-> t,
                   chunk |-> Len(heard) + 1])
  \/ Advance /\ UNCHANGED heard

HSpec == HInit /\ [][HNext]_hvars
-----------------------------------------------------------------------------
(* Single frames and first frames with the toggle set do not take part.    *)
TakesPart(f) == ~(f.sot /\ (f.eot \/ f.toggle))

(* The frame of h that arrived last.                                       *)
Newest(h) == h[Len(h)].frame

(* Arrival numbers, from i on, of the frames of k in h that take part.     *)
From(h, k, i) ==
  {j \in i .. Len(h) : h[j].frame.key = k /\ TakesPart(h[j].frame)}

(* How many members of S come before j.                                    *)
Rank(S, j) == Cardinality({m \in S : m < j})

(* Frame j of h is in its place in the run S.                              *)
InPlace(h, S, j) ==
  LET f == h[j].frame IN
  /\ f.sot <=> j = Min(S)
  /\ f.toggle <=> Rank(S, j) % 2 = 1
  /\ f.eot => j = Max(S)
  /\ \A m \in S : Rank(S, m) = Rank(S, j) + 1 => h[m].at - h[j].at <= SessionTimeout

IsRun(h, S) == S # {} /\ \A j \in S : InPlace(h, S, j)

Nth(S, n) == LET nth == {j \in S : Rank(S, j) = n - 1} IN CHOOSE j \in nth : TRUE

Contents(h, S) == [n \in 1 .. Cardinality(S) |-> h[Nth(S, n)].frame.chunk]

Runs(h, k) == {S \in {From(h, k, i) : i \in DOMAIN h} : IsRun(h, S)}

OpenRuns(h, k) == {S \in Runs(h, k) : ~h[Max(S)].frame.eot}
-----------------------------------------------------------------------------
(* Every session is the open run of its key: a session never holds a frame *)
(* of another key, of an abandoned transfer, out of order or from across a *)
(* timeout, whatever was interleaved with it; and no open run that is      *)
(* still within the timeout has been dropped by somebody else's clean-up   *)
(* (reassembler.py, process_frame and _cleanup_stale_sessions).            *)
SessionsAreOpenRuns ==
  \A k \in Key :
    /\ sessions[k] # NoSession =>
         \E S \in OpenRuns(heard, k) : /\ sessions[k].payload = Contents(heard, S)
                                       /\ sessions[k].ts = heard[Max(S)].at
    /\ \A S \in OpenRuns(heard, k) :
         now - heard[Max(S)].at <= SessionTimeout => sessions[k] # NoSession

(* What the last frame of h entitles its receiver to: the contents of a    *)
(* valid single frame, or of a run that the frame completes and whose      *)
(* checks pass; at most one payload.                                       *)
Owed(h) ==
  LET f == Newest(h)
      completed == {S \in Runs(h, f.key) : Max(S) = Len(h) /\ f.eot}
      valid == {p \in {Contents(h, S) : S \in completed} :
                  ~TooShort(p) /\ (f.key \in Registered => CrcOk(f.key, p))}
      single == IF f.sot /\ f.eot /\ ~f.toggle THEN {<<f.chunk>>} ELSE {}
  IN valid \cup single

(* The last call returned a payload exactly when its frame was a valid     *)
(* single frame or completed a run whose checks pass, and then it returned *)
(* the contents of that frame or of that run (process_frame's docstring:   *)
(* the payload "if the transfer is complete, or None if the transfer is in *)
(* progress or invalid").                                                  *)
ReturnsCompletedRuns ==
  heard # <<>> =>
    IF out = None THEN Owed(heard) = {}
    ELSE out.key = Newest(heard).key /\ Owed(heard) = {out.payload}

(* A frame of a multi-frame transfer leaves no session of any key older    *)
(* than the timeout behind, so abandoned transfers do not pile up as long  *)
(* as multi-frame traffic goes on (reassembler.py:89).                     *)
MultiFrameSweeps ==
  [][heard' # heard /\ ~(Newest(heard').sot /\ Newest(heard').eot) =>
       \A k \in Key : sessions'[k] # NoSession => now - sessions'[k].ts <= SessionTimeout
    ]_hvars
=============================================================================

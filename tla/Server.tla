-------------------------------- MODULE Server --------------------------------
(***************************************************************************)
(* The two activities that share a CannelloniProtocol (app_runtime.py):    *)
(* datagram_received, called by the event loop for every UDP packet, and   *)
(* publisher_task, a loop that expires peers, runs the publishers that are *)
(* due, sends their frames to every peer and sleeps until the next is due  *)
(* (scheduler.py, node.py).                                                *)
(*                                                                         *)
(* One iteration of the loop is one step, as is one call of the handler:   *)
(* neither awaits in between.  The loop wakes up to MaxLag late.  A        *)
(* publisher here is one that sends at a fixed interval: heartbeat, ICE,   *)
(* fuel tank and engine RPM.  Times are ticks of the monotonic clock.      *)
(***************************************************************************)
EXTENDS Integers, FiniteSets, FiniteSetsExt

CONSTANTS
  Remote,       \* UDP addresses
  MaxPeers,     \* self.max_peers
  PeerTimeout,  \* self.peer_timeout
  Publisher,
  Interval,     \* self.interval of each publisher
  Faulty,       \* publishers whose process may raise
  IdleSleep,    \* self.idle_sleep of the scheduler
  MinSleep,     \* the 2 ms of get_timeout
  MaxLag,       \* how late the event loop may run the loop
  SeqSpace,     \* 256: the sequence number of a packet is one byte
  Boot,         \* time.monotonic() when the server starts
  MaxTime,      \* bound of the model: the clock stops here
  Absent        \* not a key of active_remotes

ASSUME ServerAssumption ==
  /\ MaxPeers \in Nat \ {0} /\ PeerTimeout \in Nat
  /\ IsFiniteSet(Publisher) /\ Publisher # {} /\ Faulty \subseteq Publisher
  /\ Interval \in [Publisher -> Nat \ {0}]
  /\ IdleSleep \in Nat \ {0} /\ MinSleep \in Nat \ {0} /\ MaxLag \in Nat
  /\ SeqSpace \in Nat \ {0} /\ Boot \in Nat /\ MaxTime \in Nat
  /\ Absent \notin Nat

VARIABLES
  now,
  active_remotes,  \* time of the last packet from each peer
  seq_no,
  wakeAt,          \* when publisher_task's sleep ends
  last_send,       \* of each publisher
  packets          \* what the last step sent: who got it, and what

svars == <<now, active_remotes, seq_no, wakeAt, last_send, packets>>

Known(r) == active_remotes[r] # Absent

Peers == {r \in Remote : Known(r)}

TypeOK ==
  /\ now \in Nat
  /\ active_remotes \in [Remote -> Nat \cup {Absent}]
  /\ \A r \in Peers : active_remotes[r] <= now
  /\ seq_no \in 0 .. SeqSpace - 1
  /\ wakeAt \in Nat
  /\ last_send \in [Publisher -> 0 .. now]
  /\ packets \in [to : SUBSET Remote, frames : SUBSET Publisher, reply : BOOLEAN]

Nothing == [to |-> {}, frames |-> {}, reply |-> FALSE]

Init ==
  /\ now = Boot
  /\ active_remotes = [r \in Remote |-> Absent]
  /\ seq_no = 0
  /\ wakeAt = Boot
  /\ last_send = [p \in Publisher |-> 0]
  /\ packets = Nothing
-----------------------------------------------------------------------------
MutCrowdedLate == Cardinality(Peers) > MaxPeers

Crowded == Cardinality(Peers) >= MaxPeers

(* Whom a crowded table drops for a new peer: one heard from least         *)
(* recently (of several, the one the dictionary holds first).              *)
MutOldest(r) == Known(r) /\ \A o \in Peers : active_remotes[r] >= active_remotes[o]

Oldest(r) == Known(r) /\ \A o \in Peers : active_remotes[r] <= active_remotes[o]

MutAdmitKnownToo(r) ==
  IF Crowded
  THEN \E o \in Remote :
         /\ Oldest(o)
         /\ active_remotes' = [active_remotes EXCEPT ![o] = Absent, ![r] = now]
  ELSE active_remotes' = [active_remotes EXCEPT ![r] = now]

(* The sender is a peer from now on, before its packet is even parsed.     *)
Admit(r) ==
  IF ~Known(r) /\ Crowded
  THEN \E o \in Remote :
         /\ Oldest(o)
         /\ active_remotes' = [active_remotes EXCEPT ![o] = Absent, ![r] = now]
  ELSE active_remotes' = [active_remotes EXCEPT ![r] = now]

MutReceivedNoWrap(r, reply) ==
  /\ Admit(r)
  /\ packets' = IF reply THEN [to |-> {r}, frames |-> {}, reply |-> TRUE] ELSE Nothing
  /\ seq_no' = IF reply THEN seq_no + 1 ELSE seq_no
  /\ UNCHANGED <<now, wakeAt, last_send>>

(* `reply': some frame of the packet has an answer.                        *)
DatagramReceived(r, reply) ==
  /\ Admit(r)
  /\ IF reply
     THEN /\ packets' = [to |-> {r}, frames |-> {}, reply |-> TRUE]
          /\ seq_no' = (seq_no + 1) % SeqSpace
     ELSE packets' = Nothing /\ UNCHANGED seq_no
  /\ UNCHANGED <<now, wakeAt, last_send>>
-----------------------------------------------------------------------------
MutFreshAll(r) == Known(r)

(* Peers that get_active_remotes keeps.                                    *)
Fresh(r) == Known(r) /\ now - active_remotes[r] <= PeerTimeout

Expire ==
  active_remotes' = [r \in Remote |-> IF Fresh(r) THEN active_remotes[r] ELSE Absent]

Due == {p \in Publisher : now - last_send[p] >= Interval[p]}

(* get_timeout of publisher p, as the clock stands after process.          *)
Wait(p) == Max({0, Interval[p] - (now - last_send'[p])})

MutSleepWithPeers == Max({MinSleep, Max({Wait(p) : p \in Publisher})})

SleepWithPeers == Max({MinSleep, Min({Wait(p) : p \in Publisher})})

MutIdle ==
  /\ now >= wakeAt
  /\ ~\E r \in Remote : Fresh(r)
  /\ packets' = Nothing
  /\ wakeAt' = now + IdleSleep
  /\ UNCHANGED <<now, active_remotes, seq_no, last_send>>

(* An iteration of publisher_task that finds no peer.                      *)
Idle ==
  /\ now >= wakeAt
  /\ ~\E r \in Remote : Fresh(r)
  /\ Expire
  /\ packets' = Nothing
  /\ wakeAt' = now + IdleSleep
  /\ UNCHANGED <<now, seq_no, last_send>>

MutFirstFailureEndsRound(failed) ==
  /\ now >= wakeAt
  /\ \E r \in Remote : Fresh(r)
  /\ failed \subseteq Faulty \cap Due
  /\ LET frames == IF failed = {} THEN Due ELSE {}
         to == IF frames = {} THEN {} ELSE {r \in Remote : Fresh(r)}
     IN
     /\ last_send' = [p \in Publisher |-> IF p \in frames THEN now ELSE last_send[p]]
     /\ packets' = [to |-> to, frames |-> frames, reply |-> FALSE]
     /\ seq_no' = (seq_no + Cardinality(to)) % SeqSpace
  /\ Expire
  /\ wakeAt' = now + SleepWithPeers
  /\ UNCHANGED now

(* An iteration that finds peers.  The publishers in `failed' raise: they  *)
(* contribute no frames and stay due.  A peer gets a packet of its own,    *)
(* with a sequence number of its own, if there is any frame.               *)
Publish(failed) ==
  /\ now >= wakeAt
  /\ \E r \in Remote : Fresh(r)
  /\ failed \subseteq Faulty \cap Due
  /\ LET frames == Due \ failed
         to == IF frames = {} THEN {} ELSE {r \in Remote : Fresh(r)}
     IN
     /\ last_send' = [p \in Publisher |-> IF p \in frames THEN now ELSE last_send[p]]
     /\ packets' = [to |-> to, frames |-> frames, reply |-> FALSE]
     /\ seq_no' = (seq_no + Cardinality(to)) % SeqSpace
  /\ Expire
  /\ wakeAt' = now + SleepWithPeers
  /\ UNCHANGED now

(* Time passes, but the loop does not oversleep by more than MaxLag.       *)
Tick ==
  /\ now < MaxTime /\ now < wakeAt + MaxLag
  /\ now' = now + 1
  /\ packets' = Nothing
  /\ UNCHANGED <<active_remotes, seq_no, wakeAt, last_send>>

Next ==
  \/ \E r \in Remote, reply \in BOOLEAN : DatagramReceived(r, reply)
  \/ Idle
  \/ \E failed \in SUBSET Faulty : Publish(failed)
  \/ Tick

Spec == Init /\ [][Next]_svars
-----------------------------------------------------------------------------
(* The longest sleep of publisher_task.                                    *)
LongestSleep == Max({IdleSleep, MinSleep, Min({Interval[p] : p \in Publisher})})

(* The table never outgrows max_peers, however fast new addresses turn up  *)
(* (app_runtime.py:53-68).                                                 *)
PeersBounded == Cardinality(Peers) <= MaxPeers

(* A peer that fell silent is forgotten, although nothing but the loop's   *)
(* own waking ever looks: the table holds nobody for longer than the       *)
(* timeout, one sleep and the lag (app_runtime.py:103-108).                *)
SilentPeersForgotten ==
  \A r \in Peers : now - active_remotes[r] <= PeerTimeout + LongestSleep + MaxLag
=============================================================================

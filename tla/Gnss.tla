--------------------------------- MODULE Gnss ---------------------------------
(***************************************************************************)
(* GNSSPublisher (publishers/gnss.py), run by the loop of publisher_task:  *)
(* it sends the points of a track, each when its time since the first has  *)
(* come, and starts over after the last.                                   *)
(*                                                                         *)
(* An iteration of the loop is one step.  It runs the publisher only when  *)
(* there are peers, and then sleeps until the publisher or some other one  *)
(* is due, for MinSleep at least; it wakes up to MaxLag late.  Times are   *)
(* ticks.  Of the clock the model keeps what the code computes from it:    *)
(* `since' stands for now - self.sim_start_time, up to a bound that the    *)
(* code cannot tell from later times.                                      *)
(***************************************************************************)
EXTENDS Integers

CONSTANTS
  LastPoint,     \* index of the last point of the track
  Elapsed,       \* elapsed_sec of each point
  Unbuildable,   \* points whose payload cannot be built (say, latitude NaN)
  MinSleep,      \* the 2 ms of the node's get_timeout
  IdleSleep,     \* the scheduler's sleep without peers
  LongestWait,   \* bound on the waits of the other publishers
  MaxLag,        \* how late the event loop may run the loop
  TidSpace,      \* 32: transfer ids have 5 bits
  NoFix          \* nothing has been sent

Points == 0 .. LastPoint

ASSUME GnssAssumption ==
  /\ LastPoint \in Nat
  /\ Elapsed \in [Points -> Nat] /\ Elapsed[0] = 0
  /\ \A p, q \in Points : p <= q => Elapsed[p] <= Elapsed[q]
  /\ Unbuildable \subseteq Points
  /\ MinSleep \in Nat \ {0} /\ IdleSleep \in Nat \ {0}
  /\ LongestWait \in Nat /\ MaxLag \in Nat /\ TidSpace \in Nat \ {0, 1}
  /\ NoFix \notin Points

VARIABLES
  next_point_idx,
  since,   \* now - self.sim_start_time, at most TimeBound
  tid,
  fix,     \* the point sent last
  sleep,   \* ticks until publisher_task's sleep ends, negative if overdue
  peers    \* whether there are peers

gnssVars == <<next_point_idx, since, tid, fix, sleep, peers>>

TimeBound == Elapsed[LastPoint] + MinSleep + MaxLag

TypeOK ==
  /\ next_point_idx \in 0 .. LastPoint + 1
  /\ since \in 0 .. TimeBound
  /\ tid \in 0 .. TidSpace - 1
  /\ fix \in Points \cup {NoFix}
  /\ sleep \in Int /\ sleep >= -MaxLag
  /\ peers \in BOOLEAN

Init ==
  /\ next_point_idx = 0
  /\ since = TimeBound
  /\ tid = 0
  /\ fix = NoFix
  /\ sleep = 0
  /\ peers = FALSE

Least(a, b) == IF a <= b THEN a ELSE b
Greatest(a, b) == IF a >= b THEN a ELSE b
-----------------------------------------------------------------------------
MutSendTidNotWrapped(p, i) ==
  /\ next_point_idx' = i
  /\ IF p \in Unbuildable THEN UNCHANGED <<fix, tid>> ELSE fix' = p /\ tid' = tid + 1

(* The publisher sends point p and moves on to index i.  When the payload  *)
(* cannot be built, process raises after the index has moved.              *)
Send(p, i) ==
  /\ next_point_idx' = i
  /\ IF p \in Unbuildable THEN UNCHANGED <<fix, tid>>
     ELSE fix' = p /\ tid' = (tid + 1) % TidSpace

(* The first point of a lap is sent at once, and the lap is timed from it. *)
StartLap == next_point_idx = 0 /\ Send(0, 1) /\ since' = 0

MutNextPointNoWrap ==
  /\ next_point_idx \in 1 .. LastPoint
  /\ since >= Elapsed[next_point_idx]
  /\ Send(next_point_idx, next_point_idx + 1)
  /\ UNCHANGED since

MutNextPointSkips ==
  /\ next_point_idx \in 1 .. LastPoint
  /\ since >= Elapsed[next_point_idx]
  /\ LET due == CHOOSE p \in next_point_idx .. LastPoint :
                 /\ since >= Elapsed[p]
                 /\ \A q \in p + 1 .. LastPoint : since < Elapsed[q]
     IN Send(due, IF due = LastPoint THEN 0 ELSE due + 1)
  /\ UNCHANGED since

(* A later point whose time has come; after the last, the index wraps.     *)
NextPoint ==
  /\ next_point_idx \in 1 .. LastPoint
  /\ since >= Elapsed[next_point_idx]
  /\ Send(next_point_idx, IF next_point_idx = LastPoint THEN 0 ELSE next_point_idx + 1)
  /\ UNCHANGED since

(* The time of the point has not come, or there is no such point.          *)
Silent ==
  /\ next_point_idx # 0
  /\ next_point_idx \in 1 .. LastPoint => since < Elapsed[next_point_idx]
  /\ UNCHANGED <<next_point_idx, since, tid, fix>>

Process == StartLap \/ NextPoint \/ Silent

MutDueInWholeElapsed(w) ==
  CASE next_point_idx' = 0 -> w = 0
    [] next_point_idx' \in 1 .. LastPoint -> w <= Elapsed[next_point_idx']
    [] OTHER -> w <= LongestWait

(* The waits that get_timeout of the node may find after process: no       *)
(* longer than this publisher's, which is 0 before a lap and infinite      *)
(* beyond the last point.                                                  *)
DueIn(w) ==
  CASE next_point_idx' = 0 -> w = 0
    [] next_point_idx' \in 1 .. LastPoint -> w <= Greatest(0, Elapsed[next_point_idx'] - since')
    [] OTHER -> w <= LongestWait

(* An iteration with peers.                                                *)
Round ==
  /\ peers /\ sleep <= 0
  /\ Process
  /\ \E w \in 0 .. LongestWait : DueIn(w) /\ sleep' = Greatest(MinSleep, w)
  /\ UNCHANGED peers

(* An iteration without peers.                                             *)
IdleRound ==
  /\ ~peers /\ sleep <= 0
  /\ sleep' = IdleSleep
  /\ UNCHANGED <<next_point_idx, since, tid, fix, peers>>

(* Between two iterations the first peer turns up or the last one expires. *)
PeersChange ==
  /\ peers' = ~peers
  /\ UNCHANGED <<next_point_idx, since, tid, fix, sleep>>

Tick ==
  /\ sleep > -MaxLag
  /\ sleep' = sleep - 1
  /\ since' = Least(since + 1, TimeBound)
  /\ UNCHANGED <<next_point_idx, tid, fix, peers>>

Next == Round \/ IdleRound \/ PeersChange \/ Tick

Spec == Init /\ [][Next]_gnssVars
=============================================================================

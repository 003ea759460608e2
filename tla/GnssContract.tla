----------------------------- MODULE GnssContract -----------------------------
(***************************************************************************)
(* What the simulated flight looks like from outside, and when.            *)
(***************************************************************************)
EXTENDS Gnss

VARIABLES
  steady,    \* no iteration since the lap began went without peers
  sinceFix   \* time since the last fix, at most TimeBound

ghostVars == <<steady, sinceFix>>

GInit == Init /\ steady = FALSE /\ sinceFix = TimeBound

Play ==
  /\ Round
  /\ steady' = (steady \/ next_point_idx = 0)
  /\ sinceFix' = IF tid' = tid THEN sinceFix ELSE 0

Idle == IdleRound /\ steady' = FALSE /\ UNCHANGED sinceFix

Pass == Tick /\ sinceFix' = Least(sinceFix + 1, TimeBound) /\ UNCHANGED steady

GNext == Play \/ Idle \/ Pass \/ (PeersChange /\ UNCHANGED ghostVars)

GSpec == GInit /\ [][GNext]_<<gnssVars, ghostVars>>

(* Time passes and the loop runs; nothing is assumed about peers.          *)
GLiveSpec ==
  /\ GSpec
  /\ WF_<<gnssVars, ghostVars>>(Pass)
  /\ WF_<<gnssVars, ghostVars>>(Play \/ Idle)
-----------------------------------------------------------------------------
Playable == Points \ Unbuildable

Flight == INSTANCE Playlist WITH shown <- fix, count <- tid, CountSpace <- TidSpace, Nothing <- NoFix

(* The fixes are the playable points in order, lap after lap, with         *)
(* consecutive transfer ids, whatever is missed: idle times, late rounds   *)
(* and points that cannot be built skip and repeat nothing else            *)
(* (gnss.py:40-95).                                                        *)
PlaysTrack == Flight!Spec

(* The points are at least a minimal sleep and the lag apart.              *)
Spaced == \A p \in 1 .. LastPoint : Elapsed[p] - Elapsed[p - 1] >= MinSleep + MaxLag

Late == next_point_idx \in 1 .. LastPoint /\ since >= Elapsed[next_point_idx] + MinSleep + MaxLag

(* A lap during which there always were peers keeps time: no point is late *)
(* by as much as a minimal sleep and the lag, and the lateness of one      *)
(* point is not handed on to the next (gnss.py:30-37, node.py:71-76).      *)
SteadyLapsKeepTime == Spaced /\ steady => ~Late

(* Once peers stay, every playable point is sent again and again: the      *)
(* index can not get stuck at the end of the track or on a point that      *)
(* cannot be built (gnss.py:44-60).                                        *)
KeepsPlaying ==
  LastPoint > 0 => \A p \in Playable : <>[]peers => []<>(fix = p)

(* Once peers stay, what was missed without them is caught up with, and    *)
(* the flight keeps time from then on (gnss.py:51-57).                     *)
RecoversPace == Spaced => (<>[]peers => <>[]~Late)

(* "broadcasts complex uavcan.equipment.gnss.Fix2 messages in real time"   *)
(* (README.md:13): from one point to the next goes by the time that the    *)
(* track says, but for the delay of a timely round (gnss.py:51-57).        *)
RealTime ==
  [][tid' # tid /\ fix # NoFix /\ fix' = fix + 1 =>
       sinceFix + MinSleep + MaxLag >= Elapsed[fix'] - Elapsed[fix]]_<<gnssVars, ghostVars>>
=============================================================================

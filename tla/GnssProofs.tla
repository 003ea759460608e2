------------------------------ MODULE GnssProofs ------------------------------
(***************************************************************************)
(* The flight plays the track, point after point, and keeps time in a lap  *)
(* that always had peers, for every track and every timing.                *)
(***************************************************************************)
EXTENDS GnssContract, TLAPS

gVars == <<gnssVars, ghostVars>>

(* What the track's position says of the last fix: it is the last playable *)
(* point behind the position, or else nothing playable is behind it and    *)
(* the fix is the last of the lap before.                                  *)
ShownBehind ==
  IF fix = NoFix THEN \A r \in Playable : next_point_idx <= r
  ELSE /\ fix \in Playable
       /\ \/ fix < next_point_idx /\ \A r \in Playable : fix < r => next_point_idx <= r
          \/ \A r \in Playable : next_point_idx <= r /\ r <= fix

(* The sleep of a steady lap ends less than a minimal sleep after the time *)
(* of the next point.                                                      *)
Pacing ==
  Spaced /\ steady /\ next_point_idx \in 1 .. LastPoint =>
    since + sleep < Elapsed[next_point_idx] + MinSleep

GInv == TypeOK /\ steady \in BOOLEAN /\ sinceFix \in 0 .. TimeBound
-----------------------------------------------------------------------------
LEMMA TimeBoundNat == TimeBound \in Nat /\ \A p \in Points : Elapsed[p] <= TimeBound
<1>1. LastPoint \in Points /\ \A p \in Points : Elapsed[p] \in Nat /\ Elapsed[p] <= Elapsed[LastPoint]
  BY GnssAssumption DEF GnssAssumption, Points
<1> QED
  BY <1>1, GnssAssumption DEF GnssAssumption, TimeBound

(* What sending a point does to the index, the transfer id and the fix     *)
(* (gnss.py:44-60, 91).                                                    *)
LEMMA ProcessMoves ==
  ASSUME TypeOK, Process
  PROVE  /\ next_point_idx' \in 0 .. LastPoint + 1
         /\ fix' \in Points \cup {NoFix}
         /\ tid' \in 0 .. TidSpace - 1
         /\ since' \in 0 .. TimeBound
<1> USE GnssAssumption, TimeBoundNat DEF GnssAssumption, TypeOK, Points
<1>1. CASE StartLap
  BY <1>1 DEF StartLap, Send
<1>2. CASE NextPoint
  BY <1>2 DEF NextPoint, Send
<1>3. CASE Silent
  BY <1>3 DEF Silent
<1> QED
  BY <1>1, <1>2, <1>3 DEF Process

LEMMA TypeInit == GInit => GInv
<1> SUFFICES ASSUME GInit PROVE GInv
  OBVIOUS
<1>1. peers \in BOOLEAN /\ steady \in BOOLEAN
  BY DEF GInit, Init
<1>2. sleep \in Int /\ sleep >= -MaxLag
  BY GnssAssumption DEF GnssAssumption, GInit, Init
<1>3. since \in 0 .. TimeBound /\ sinceFix \in 0 .. TimeBound
  BY TimeBoundNat DEF GInit, Init
<1>4. next_point_idx \in 0 .. LastPoint + 1 /\ tid \in 0 .. TidSpace - 1 /\ fix \in Points \cup {NoFix}
  BY GnssAssumption DEF GnssAssumption, GInit, Init
<1> QED
  BY <1>1, <1>2, <1>3, <1>4 DEF GInv, TypeOK

LEMMA TypeStep == GInv /\ [GNext]_gVars => GInv'
<1> SUFFICES ASSUME GInv, [GNext]_gVars PROVE GInv'
  OBVIOUS
<1> USE GnssAssumption, TimeBoundNat DEF GnssAssumption, GInv
<1>1. CASE Play
  <2>1. sleep' \in Int /\ sleep' >= -MaxLag /\ peers' = peers
    BY <1>1 DEF Play, Round, Greatest, TypeOK
  <2>2. steady' \in BOOLEAN
    BY <1>1 DEF Play
  <2>3. sinceFix' \in 0 .. TimeBound
    BY <1>1 DEF Play
  <2> QED
    BY <1>1, <2>1, <2>2, <2>3, ProcessMoves DEF Play, Round, TypeOK
<1>2. CASE Idle
  <2>1. sleep' \in Int /\ sleep' >= -MaxLag
    BY <1>2 DEF Idle, IdleRound
  <2>2. steady' \in BOOLEAN /\ sinceFix' = sinceFix /\ UNCHANGED <<next_point_idx, since, tid, fix, peers>>
    BY <1>2 DEF Idle, IdleRound
  <2> QED
    BY <2>1, <2>2 DEF TypeOK
<1>3. CASE Pass
  BY <1>3 DEF Pass, Tick, Least, TypeOK, ghostVars
<1>4. CASE PeersChange /\ UNCHANGED ghostVars
  BY <1>4 DEF PeersChange, ghostVars, TypeOK
<1>5. CASE UNCHANGED gVars
  BY <1>5 DEF gVars, gnssVars, ghostVars, TypeOK
<1> QED
  BY <1>1, <1>2, <1>3, <1>4, <1>5 DEF GNext

(* Index, transfer id, clock and sleep stay within their ranges            *)
(* (gnss.py:40-95, scheduler.py:16-19).                                    *)
THEOREM GnssTypeOK == GSpec => []TypeOK
<1>1. GInv => TypeOK
  BY DEF GInv
<1> QED
  BY <1>1, TypeInit, TypeStep, PTL DEF GSpec, gVars
-----------------------------------------------------------------------------
(* A step of the publisher shows nothing or the point that comes next, and *)
(* leaves the position behind it (gnss.py:44-60).                          *)
LEMMA ProcessShows ==
  ASSUME TypeOK, ShownBehind, Process
  PROVE  ShownBehind' /\ [Flight!Next]_<<fix, tid>>
<1> USE GnssAssumption DEF GnssAssumption, TypeOK, Points, Playable
<1>1. ASSUME NEW p \in Points, p = next_point_idx,
             NEW i, Send(p, i), i = IF p = LastPoint /\ p > 0 THEN 0 ELSE p + 1
      PROVE  ShownBehind' /\ [Flight!Next]_<<fix, tid>>
  <2>1. CASE p \in Unbuildable
    <3>1. fix' = fix /\ tid' = tid /\ next_point_idx' = i
      BY <1>1, <2>1 DEF Send
    <3>2. \A r \in Playable : r # p /\ r \in 0 .. LastPoint
      BY <2>1
    <3> QED
      BY <1>1, <3>1, <3>2 DEF ShownBehind
  <2>2. CASE p \notin Unbuildable
    <3>1. fix' = p /\ tid' = (tid + 1) % TidSpace /\ next_point_idx' = i
      BY <1>1, <2>2 DEF Send
    <3>2. ShownBehind'
      BY <1>1, <2>2, <3>1 DEF ShownBehind
    <3>3. IF fix = NoFix THEN Flight!IsFirst(p) ELSE Flight!Follows(fix, p)
      BY <1>1, <2>2 DEF ShownBehind, Flight!IsFirst, Flight!Follows
    <3>4. Flight!Show(p)
      BY <3>1, <3>3 DEF Flight!Show
    <3> QED
      BY <3>2, <3>4 DEF Flight!Next
  <2> QED
    BY <2>1, <2>2
<1>2. CASE StartLap
  BY <1>1, <1>2 DEF StartLap
<1>3. CASE NextPoint
  BY <1>1, <1>3 DEF NextPoint
<1>4. CASE Silent
  BY <1>4 DEF Silent, ShownBehind
<1> QED
  BY <1>2, <1>3, <1>4 DEF Process

LEMMA ShownStep ==
  GInv /\ ShownBehind /\ [GNext]_gVars => ShownBehind' /\ [Flight!Next]_<<fix, tid>>
<1> SUFFICES ASSUME GInv, ShownBehind, [GNext]_gVars
             PROVE  ShownBehind' /\ [Flight!Next]_<<fix, tid>>
  OBVIOUS
<1>1. CASE Play
  BY <1>1, ProcessShows DEF Play, Round, GInv
<1>2. CASE UNCHANGED <<next_point_idx, fix, tid>>
  BY <1>2 DEF ShownBehind
<1>3. ASSUME ~Play PROVE UNCHANGED <<next_point_idx, fix, tid>>
  BY <1>3 DEF GNext, Idle, IdleRound, Pass, Tick, PeersChange, gVars, gnssVars
<1> QED
  BY <1>1, <1>2, <1>3

(* The fixes implement the playlist: the playable points in order, lap     *)
(* after lap, none skipped or repeated, whatever rounds are late, idle or  *)
(* failing (gnss.py:40-95).                                                *)
THEOREM FlightPlaysTrack == GSpec => PlaysTrack
<1>1. GInit => ShownBehind /\ Flight!Init
  BY GnssAssumption DEF GInit, Init, GnssAssumption, ShownBehind, Flight!Init, Playable, Points
<1> QED
  BY <1>1, TypeInit, TypeStep, ShownStep, PTL DEF GSpec, gVars, PlaysTrack, Flight!Spec
-----------------------------------------------------------------------------
(* A steady step of the publisher leaves a sleep that ends in time         *)
(* (gnss.py:30-57, node.py:71-76).                                         *)
LEMMA PacingRound == GInv /\ Pacing /\ Play => Pacing'
<1> SUFFICES ASSUME GInv, Pacing, Play, Spaced, steady', next_point_idx' \in 1 .. LastPoint
             PROVE  since' + sleep' < Elapsed[next_point_idx'] + MinSleep
  BY DEF Pacing, Spaced
<1> USE GnssAssumption, TimeBoundNat DEF GnssAssumption, Points
<1> DEFINE due == Elapsed[next_point_idx']
<1>1. due \in Nat /\ since' \in Nat /\ since \in Nat
  BY ProcessMoves DEF Play, Round, GInv, TypeOK
<1>2. PICK w \in 0 .. LongestWait : DueIn(w) /\ sleep' = Greatest(MinSleep, w)
  BY DEF Play, Round
<1>3. w <= Greatest(0, due - since')
  BY <1>2 DEF DueIn
<1>4. since' < due
  <2>1. CASE StartLap
    <3>1. next_point_idx' = 1 /\ since' = 0
      BY <2>1 DEF StartLap, Send
    <3>2. Elapsed[1] - Elapsed[0] >= MinSleep + MaxLag
      BY <3>1 DEF Spaced
    <3> QED
      BY <3>1, <3>2
  <2>2. CASE NextPoint
    <3>1. /\ next_point_idx' = next_point_idx + 1 /\ since' = since
          /\ next_point_idx \in 1 .. LastPoint
      BY <2>2 DEF NextPoint, Send, GInv, TypeOK
    <3>2. due - Elapsed[next_point_idx] >= MinSleep + MaxLag
      BY <3>1 DEF Spaced
    <3>3. since + sleep < Elapsed[next_point_idx] + MinSleep
      <4>1. next_point_idx # 0
        BY <3>1
      <4>2. steady
        BY <4>1, Zenon DEF Play
      <4> QED
        BY <3>1, <4>2, Zenon DEF Pacing
    <3>4. Elapsed[next_point_idx] \in Nat
      BY <3>1
    <3> QED
      BY <1>1, <3>1, <3>2, <3>3, <3>4 DEF GInv, TypeOK
  <2>3. CASE Silent
    BY <2>3 DEF Silent
  <2> QED
    BY <2>1, <2>2, <2>3 DEF Play, Round, Process
<1> HIDE DEF due
<1> QED
  BY <1>1, <1>2, <1>3, <1>4 DEF Greatest, due

LEMMA PacingStep == GInv /\ Pacing /\ [GNext]_gVars => Pacing'
<1> SUFFICES ASSUME GInv, Pacing, [GNext]_gVars PROVE Pacing'
  OBVIOUS
<1>1. CASE Play
  BY <1>1, PacingRound
<1>2. CASE Idle
  BY <1>2 DEF Idle, Pacing
<1>3. CASE Pass
  <2>1. since' + sleep' <= since + sleep
    BY <1>3, TimeBoundNat DEF Pass, Tick, Least, GInv, TypeOK
  <2>2. ASSUME next_point_idx \in 1 .. LastPoint PROVE Elapsed[next_point_idx] \in Nat
    BY <2>2, GnssAssumption DEF GnssAssumption, Points
  <2>3. since' \in Int /\ sleep' \in Int
    BY <1>3, TimeBoundNat DEF Pass, Tick, Least, GInv, TypeOK
  <2> QED
    BY <1>3, <2>1, <2>2, <2>3, GnssAssumption
    DEF GnssAssumption, Pass, Tick, Pacing, Spaced, GInv, TypeOK
<1>4. CASE UNCHANGED <<next_point_idx, since, sleep, steady>>
  BY <1>4 DEF Pacing, Spaced
<1> QED
  BY <1>1, <1>2, <1>3, <1>4 DEF GNext, PeersChange, gVars, gnssVars, ghostVars

(* In a lap that always had peers no point is late by a minimal sleep and  *)
(* the lag, however long the lap (gnss.py:30-57, node.py:71-76).           *)
THEOREM FlightKeepsTime == GSpec => []SteadyLapsKeepTime
<1>1. GInit => Pacing
  BY DEF GInit, Pacing
<1>2. GInv /\ Pacing => SteadyLapsKeepTime
  <2> SUFFICES ASSUME GInv, Pacing, Spaced, steady, next_point_idx \in 1 .. LastPoint
               PROVE  since < Elapsed[next_point_idx] + MinSleep + MaxLag
    BY GnssAssumption DEF SteadyLapsKeepTime, Late, GInv, TypeOK, GnssAssumption, Points, TimeBound
  <2>1. Elapsed[next_point_idx] \in Nat
    BY GnssAssumption DEF GnssAssumption, Points
  <2> QED
    BY <2>1, GnssAssumption DEF GnssAssumption, Pacing, GInv, TypeOK
<1> QED
  BY <1>1, <1>2, TypeInit, TypeStep, PacingStep, PTL DEF GSpec, gVars
=============================================================================

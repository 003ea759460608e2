------------------------------- MODULE Playlist -------------------------------
(***************************************************************************)
(* What a viewer of the simulated flight relies on: the playable points of *)
(* the track appear in order, none is skipped, and after the last one the  *)
(* track begins again.  `count' numbers what is shown, modulo CountSpace,  *)
(* so that a receiver notices what it has missed.                          *)
(***************************************************************************)
EXTENDS Integers

CONSTANTS Points, Playable, CountSpace, Nothing

VARIABLES shown, count

Init == shown = Nothing /\ count = 0

(* The first playable point, and the one after p.                          *)
IsFirst(p) == p \in Playable /\ \A q \in Playable : p <= q

Follows(p, q) ==
  \/ q \in Playable /\ p < q /\ \A r \in Playable : p < r => q <= r
  \/ IsFirst(q) /\ \A r \in Playable : r <= p

Show(p) ==
  /\ IF shown = Nothing THEN IsFirst(p) ELSE Follows(shown, p)
  /\ shown' = p
  /\ count' = (count + 1) % CountSpace

Next == \E p \in Points : Show(p)

Spec == Init /\ [][Next]_<<shown, count>>
=============================================================================

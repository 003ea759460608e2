----------------------------- MODULE SmoothSignal -----------------------------
(***************************************************************************)
(* What a reader of a simulated quantity is promised: a value within its   *)
(* range that moves by at most MaxStep from one report to the next.        *)
(***************************************************************************)
EXTENDS Integers

CONSTANTS None, MaxStep

VARIABLES
  range,  \* what it may be: [low, high]
  value   \* as last reported

vars == <<range, value>>

Init == range \in [low : Int, high : Int] /\ value = None

Within(v, r) == v \in r.low .. r.high

Report ==
  /\ Within(value', range)
  /\ value # None => value' - value \in -MaxStep .. MaxStep
  /\ UNCHANGED range

Spec == Init /\ [][Report]_vars
=============================================================================

-------------------------------- MODULE Engine --------------------------------
(***************************************************************************)
(* The three publishers that sample values from the configuration (c):     *)
(* stork_engine_rpm.py, whose speed and load move towards random targets,  *)
(* ice.py, which reports the speed of the former (node.py links the two),  *)
(* and fuel_tank.py.  They run in the order ice, fuel, stork.              *)
(*                                                                         *)
(* Values are counted in halves and reported in whole units.  Of the other *)
(* fields of a message, which do nothing but be sampled, one stands for    *)
(* all: a value that cannot be converted raises and silences the publisher.*)
(* When a publisher is due is the business of module Server.               *)
(***************************************************************************)
EXTENDS Config, FiniteSetsExt

CONSTANTS
  None,                       \* a value not set yet, a message not sent
  Nan,                        \* the float that is no number
  Near, StepMin, StepMax,     \* of each quantity, in halves
  Fallback,                   \* its range when the file says null
  SpeedField, PercentField    \* wire values of 17 and of 7 bits

Quantities == {"engine_speed_rpm", "engine_load_percent"}

ASSUME RampAssumption ==
  /\ Near \in [Quantities -> Nat] /\ StepMin \in [Quantities -> Nat]
  /\ StepMax \in [Quantities -> Nat]
  /\ Fallback \in [Quantities -> [low : Int, high : Int]]
  /\ SpeedField \in Nat \ {0} /\ PercentField \in Nat \ {0}
  /\ None \notin Int /\ Nan \notin Int /\ Nan # None
  /\ None \notin [speed : Int, load : Int]

VARIABLES
  engine,  \* quantity -> its current_... and target_...
  report,  \* what stork last sent
  sent     \* what the last step sent

evars == <<engine, report, sent>>

Span(low, high) == [low |-> low, high |-> high]

Nothing == [ice |-> None, fuel |-> None, stork |-> None]

EInit ==
  /\ engine = [q \in Quantities |-> [current |-> None, target |-> None]]
  /\ report = None
  /\ sent = Nothing
-----------------------------------------------------------------------------
EndOf(v, end, fallback) == IF end \in DOMAIN v.at THEN ToFloat(v.at[end]) ELSE PyFloat(fallback)

(* The range a value of the configuration stands for.  The loader lets no  *)
(* reversed one through but this code turns it round all the same.         *)
GetMinMax(v, fallback) ==
  LET ends == IF v.is = "map"
              THEN {EndOf(v, "min", fallback.low), EndOf(v, "max", fallback.high)}
              ELSE {ToFloat(v)} IN
  IF v = PyNone THEN fallback
  ELSE IF Error \in ends THEN Error
  ELSE IF NaN \in ends THEN NaN
  ELSE LET values == {e.n : e \in ends} IN Span(Min(values), Max(values))

Uniform(range) == IF range = NaN THEN {Nan} ELSE range.low .. range.high

(* int() of a scalar that is no number raises.                             *)
SampleRaises(v) == v.is \notin {"map", "null"} /\ ToInt(v) = Error

(* round() goes to the even neighbour when it is halfway.                  *)
Round(n) == IF n % 2 = 0 THEN n \div 2 ELSE 2 * ((n + 1) \div 4)

RoundDiv(a, b) ==
  LET twice == (2 * a) + b
      up == twice \div (2 * b) IN
  IF twice % (2 * b) = 0 /\ up % 2 = 1 THEN up - 1 ELSE up

MutWriteUnsignedWhole(n, field) == n

(* write_unsigned keeps the low bits, for negative numbers too.            *)
WriteUnsigned(n, field) == n % field
-----------------------------------------------------------------------------
MutTowardPast(current, target, step) ==
  IF current < target THEN current + step ELSE current - step

Toward(current, target, step) ==
  IF current < target THEN Min({target, current + step}) ELSE Max({target, current - step})

Distance(a, b) == Max({a - b, b - a})

(* A new target is drawn when there is none, or it is near.                *)
Approach(q, s, c, range) ==
  LET targets == IF s.target = None \/ Distance(c, s.target) < Near[q]
                 THEN Uniform(range) ELSE {s.target} IN
  {[current |-> Toward(c, t, step), target |-> t] :
     t \in targets, step \in StepMin[q] .. StepMax[q]}

(* Where a quantity can be after _update_smooth_values.  NaN compares with *)
(* nothing, so it is neither near its target nor ever moved.               *)
Moved(q, s, range) ==
  IF range = NaN THEN {[current |-> Nan, target |-> Nan]}
  ELSE UNION {Approach(q, s, c, range) :
                c \in IF s.current = None THEN Uniform(range) ELSE {s.current}}

RangeOf(c, q) == GetMinMax(c.at["stork_engine_rpm"].at[q], Fallback[q])

(* Both ranges are read before anything is set: none if that raises.       *)
UpdateSmoothValues(c, e) ==
  IF \E q \in Quantities : RangeOf(c, q) = Error THEN {}
  ELSE {[q \in Quantities |-> IF q = "engine_speed_rpm" THEN speed ELSE load] :
          speed \in Moved("engine_speed_rpm", e["engine_speed_rpm"], RangeOf(c, "engine_speed_rpm")),
          load \in Moved("engine_load_percent", e["engine_load_percent"],
                         RangeOf(c, "engine_load_percent"))}

Outcome(e, message) == [engine |-> e, message |-> message]

Speed(e) == WriteUnsigned(Round(e["engine_speed_rpm"].current), SpeedField)

Percentage(e) == WriteUnsigned(Round(e["engine_load_percent"].current), PercentField)

(* The values have moved when NaN cannot be rounded or a field be sampled. *)
StorkProcess(c, e) ==
  LET fails(new) == \/ \E q \in Quantities : new[q].current = Nan
                    \/ SampleRaises(c.at["stork_engine_rpm"].at["state"])
      next == UpdateSmoothValues(c, e) IN
  IF next = {} THEN {Outcome(e, None)}
  ELSE {Outcome(new, IF fails(new) THEN None ELSE [speed |-> Speed(new), load |-> Percentage(new)]) :
          new \in next}

MutIceProcessOwnSample(c, e) ==
  LET v == c.at["ice_reciprocating"].at["engine_speed_rpm"] IN
  {Outcome(e, n \div 2) : n \in Uniform(GetMinMax(v, Span(0, 10)))}

(* Its own engine_speed_rpm is sampled although stork's replaces it, and   *)
(* the values of stork are moved once if they have not been yet.           *)
IceProcess(c, e) ==
  LET ice == c.at["ice_reciprocating"].at
      fails(new) == new["engine_speed_rpm"].current = Nan \/ SampleRaises(ice["engine_load_percent"])
      ready == IF SampleRaises(ice["engine_speed_rpm"]) THEN {}
               ELSE IF e["engine_speed_rpm"].current # None THEN {e}
               ELSE UpdateSmoothValues(c, e) IN
  IF ready = {} THEN {Outcome(e, None)}
  ELSE {Outcome(new, IF fails(new) THEN None ELSE Speed(new)) : new \in ready}

Percent(volume, full) == Max({0, Min({100, RoundDiv(100 * volume, full)})})

(* The percentage is of the largest volume the range allows, and is 0 when *)
(* that is not positive (NaN, which is not, included).                     *)
FuelProcess(c) ==
  LET v == c.at["ice_fuel_tank"].at["available_fuel_volume_cm3"]
      range == GetMinMax(v, Span(0, 0))
      full == IF v.is = "map" THEN EndOf(v, "max", 0)
              ELSE IF v = PyNone THEN PyFloat(0) ELSE ToFloat(v)
      percent(volume) == IF ~IsNumber(full) \/ full.n <= 0 THEN 0
                         ELSE IF volume = Nan THEN None ELSE Percent(volume, full.n) IN
  IF range = Error \/ SampleRaises(c.at["ice_fuel_tank"].at["fuel_tank_id"]) THEN {None}
  ELSE {percent(volume) : volume \in Uniform(range)}
-----------------------------------------------------------------------------
(* A round of process_publishers: those that are due run one after the     *)
(* other, and what raises is logged and skipped.                           *)
ProcessPublishers(c, due) ==
  \E ice \in IF "ice" \in due THEN IceProcess(c, engine) ELSE {Outcome(engine, None)} :
  \E fuel \in IF "fuel" \in due THEN FuelProcess(c) ELSE {None} :
  \E stork \in IF "stork" \in due THEN StorkProcess(c, ice.engine)
               ELSE {Outcome(ice.engine, None)} :
    /\ engine' = stork.engine
    /\ sent' = [ice |-> ice.message, fuel |-> fuel, stork |-> stork.message]
    /\ report' = IF stork.message = None THEN report ELSE stork.message

Quiet == sent' = Nothing /\ UNCHANGED <<engine, report>>
=============================================================================

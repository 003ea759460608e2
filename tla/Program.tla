------------------------------- MODULE Program --------------------------------
(***************************************************************************)
(* From the configuration file to the reports: a file is loaded (Config),  *)
(* the server runs until it is stopped (Lifecycle), and as long as its     *)
(* publisher_task runs, the engine publishers send what the file asks for  *)
(* (Engine).                                                               *)
(***************************************************************************)
EXTENDS Engine, Lifecycle

CONSTANT Docs  \* what the file may hold, Error for one that cannot be read

RangeByDefault(section, field, type) ==
  LET sections == Default.at
      fields == sections[section].at IN
  /\ section \in DOMAIN sections /\ sections[section].is = "map"
  /\ field \in DOMAIN fields /\ fields[field].is = "map"
  /\ DOMAIN fields[field].at = {"min", "max"}
  /\ \A end \in {"min", "max"} : fields[field].at[end] \in [is : {type}, n : Int]

ASSUME ProgramAssumption ==
  /\ Default.is = "map"
  /\ \A q \in Quantities : RangeByDefault("stork_engine_rpm", q, "int")
  /\ RangeByDefault("ice_fuel_tank", "available_fuel_volume_cm3", "float")
  /\ \A d \in Docs : \A v \in Within(d) : IsNumber(v) => v.n \in Int

VARIABLES
  doc,    \* what the file holds
  config  \* what load_config made of it

pvars == <<doc, config, lvars, evars>>

PInit == doc \in Docs /\ config = PyNone /\ LInit /\ EInit

Main ==
  /\ MainStep(Accepted(doc)) /\ Quiet /\ UNCHANGED doc
  /\ config' = IF phase = "loading" /\ Accepted(doc) THEN Loaded(doc) ELSE config

Cancellation == LoopEnds /\ Quiet /\ UNCHANGED <<doc, config>>

Publish ==
  /\ LoopTurns
  /\ \E due \in SUBSET {"ice", "fuel", "stork"} : ProcessPublishers(config, due)
  /\ UNCHANGED <<doc, config>>

Failure == LoopFails /\ Quiet /\ UNCHANGED <<doc, config>>

Signal == (Interrupt \/ Terminate) /\ Quiet /\ UNCHANGED <<doc, config>>

PNext == Main \/ Cancellation \/ Publish \/ Failure \/ Signal

(* The event loop runs whatever task can run, and what main awaits of      *)
(* zeroconf and of the socket comes to an end.                             *)
PSpec == PInit /\ [][PNext]_pvars /\ WF_pvars(Main) /\ WF_pvars(Cancellation)
-----------------------------------------------------------------------------
SignalOf(values) == [current : values, target : values]

Messages == {None} \cup [speed : 0 .. SpeedField - 1, load : 0 .. PercentField - 1]

(* Fields keep their types, and what is sent fits its field on the wire.   *)
TypeOK ==
  /\ doc \in Docs
  /\ config \in {PyNone, Loaded(doc)}
  /\ LTypeOK
  /\ engine \in [Quantities -> SignalOf(Int \cup {None, Nan})]
  /\ report \in Messages
  /\ sent.ice \in {None} \cup 0 .. SpeedField - 1
  /\ sent.fuel \in {None} \cup 0 .. 100
  /\ sent.stork \in Messages
-----------------------------------------------------------------------------
FileSays(section, field) ==
  /\ doc.is = "map" /\ section \in DOMAIN doc.at
  /\ doc.at[section].is = "map" /\ field \in DOMAIN doc.at[section].at

(* An end of a range as a reader of the file and of the defaults takes it. *)
AskedEnd(section, field, end) ==
  IF FileSays(section, field) /\ end \in DOMAIN doc.at[section].at[field].at
  THEN doc.at[section].at[field].at[end] ELSE Default.at[section].at[field].at[end]

Asked(section, field) ==
  IF FileSays(section, field) /\ doc.at[section].at[field].is # "map"
  THEN {doc.at[section].at[field]}
  ELSE {AskedEnd(section, field, "min"), AskedEnd(section, field, "max")}

Numeric(ends) == \A v \in ends : IsNumber(v)

(* The whole units that cover what is asked for, if that is a range or a   *)
(* number whose values fit the field on the wire.                          *)
Below(n) == n \div 2

Above(n) == (n + 1) \div 2

Covering(values) == Span(Below(Min(values)), Above(Max(values)))

Halves(ends) == {v.n : v \in ends}

Fits(range, size) == range.low >= 0 /\ range.high < size

Sensible(ends, size) == Numeric(ends) /\ Fits(Covering(Halves(ends)), size)

Covers(ends, n) == LET range == Covering(Halves(ends)) IN n \in range.low .. range.high

Reported == {sent.stork, report} \ {None}

(* Speed and load, whoever sends them, lie in the range that the section   *)
(* stork_engine_rpm of the file (or, where it is silent, the default)      *)
(* gives them, taken to whole units: not after the file has been merged,   *)
(* converted, sampled, moved towards a target, rounded, cut to its field   *)
(* and, for the speed, passed to ICE do they leave it                      *)
(* (config_loader.py:100, stork_engine_rpm.py:69, ice.py:63). The range of *)
(* ICE's own section says nothing about the speed ICE sends: ice.py:63-73  *)
(* samples it and throws the sample away. The fuel level is at least that  *)
(* of the smallest volume asked for in ice_fuel_tank.                      *)
ReportsWithinAsked ==
  LET speed == Asked("stork_engine_rpm", "engine_speed_rpm")
      load == Asked("stork_engine_rpm", "engine_load_percent")
      volume == Asked("ice_fuel_tank", "available_fuel_volume_cm3") IN
  /\ Sensible(speed, SpeedField) =>
       \A n \in {m.speed : m \in Reported} \cup ({sent.ice} \ {None}) : Covers(speed, n)
  /\ Sensible(load, PercentField) => \A m \in Reported : Covers(load, m.load)
  /\ sent.fuel # None /\ Numeric(volume) /\ Max(Halves(volume)) > 0 =>
       sent.fuel >= Percent(Min(Halves(volume)), Max(Halves(volume)))

Promised(q, size) ==
  LET ends == Asked("stork_engine_rpm", q) IN
  IF Sensible(ends, size) THEN Covering(Halves(ends)) ELSE Span(0, 0)

Shown(q, size, value) == IF Sensible(Asked("stork_engine_rpm", q), size) THEN value ELSE None

(* A step of half a unit more can round to one whole unit more.            *)
UnitStep(q) == (StepMax[q] \div 2) + 1

SmoothSpeed == INSTANCE SmoothSignal WITH
  range <- Promised("engine_speed_rpm", SpeedField),
  value <- Shown("engine_speed_rpm", SpeedField, IF report = None THEN None ELSE report.speed),
  MaxStep <- UnitStep("engine_speed_rpm")

SmoothLoad == INSTANCE SmoothSignal WITH
  range <- Promised("engine_load_percent", PercentField),
  value <- Shown("engine_load_percent", PercentField, IF report = None THEN None ELSE report.load),
  MaxStep <- UnitStep("engine_load_percent")

(* Speed and load as stork reports them are smooth signals within what the *)
(* file asks for, from the first report to the last, also when ICE has set *)
(* them off (stork_engine_rpm.py:69-98, ice.py:67).                        *)
Smooth == SmoothSpeed!Spec /\ SmoothLoad!Spec

(* ICE reports the speed stork reported last; when stork has not reported  *)
(* yet and does so in the same round, after ICE, the two differ by one     *)
(* step of the ramp (ice.py:63-74, node.py:44-48).                         *)
IceAgrees ==
  [][sent'.ice # None =>
       IF report # None THEN sent'.ice = report.speed
       ELSE sent'.stork # None /\ Sensible(Asked("stork_engine_rpm", "engine_speed_rpm"), SpeedField)
              => Distance(sent'.ice, sent'.stork.speed) <= UnitStep("engine_speed_rpm")]_pvars
-----------------------------------------------------------------------------
(* What a process that ends by itself leaves behind, and that it leaves    *)
(* nothing without a failure: it has tried to withdraw what it announced,  *)
(* and the publisher has ended.  The socket is left open when bind raised  *)
(* (app_runtime.py:171-173) and, with its transport, when the publisher had*)
(* failed, whose exception skips the closing (:200-205); the announcement  *)
(* is not withdrawn when registering or withdrawing was cancelled or raised*)
(* (mdns.py:15-21).  Otherwise nothing is left.  Nor is the socket ever    *)
(* closed under a publisher that may still send.                           *)
Left == endpoint \in {"unbound", "open"} \/ mdns \in {"made", "lost"}

LeavesOnlyWhatFailed ==
  /\ phase = "ended" /\ outcome # "killed" =>
       /\ mdns # "registered" /\ endpoint # "bound" /\ loop \notin {"created", "running"}
       /\ endpoint = "open" <=> loop = "failed"
       /\ Left => outcome = "error" \/ cancel = "raised"
  /\ endpoint = "closed" => loop \in {"none", "done"}

(* SIGINT or SIGTERM ends the process, whatever it was doing: starting,    *)
(* serving, or serving without a publisher, which had failed               *)
(* (app_runtime.py:185-206, main.py:44-47).                                *)
StopsWhenAsked == (stop \/ cancel = "pending") ~> (phase = "ended")
=============================================================================

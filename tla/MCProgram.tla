------------------------------ MODULE MCProgram -------------------------------
(***************************************************************************)
(* Defaults with small ranges, and files that ask for ranges, for single   *)
(* numbers, for fractions, and for what is no number.                      *)
(***************************************************************************)
EXTENDS Program, TLC

Interval(low, high) == PyDict([min |-> low, max |-> high])

MCDefault ==
  PyDict([
    local_port |-> PyInt(40002), peer_timeout |-> PyFloat(20), max_peers |-> PyInt(128),
    reassembler_session_timeout |-> PyFloat(4), node_id |-> PyInt(4),
    node_name |-> PyStr(TRUE), priority |-> PyInt(8), heartbeat_interval |-> PyFloat(2),
    gpx |-> PyStr(TRUE),
    ice_reciprocating |-> PyDict([
      interval |-> PyFloat(2),
      engine_load_percent |-> Interval(PyInt(2), PyInt(2)),
      engine_speed_rpm |-> Interval(PyInt(20), PyInt(22))]),
    stork_engine_rpm |-> PyDict([
      interval |-> PyFloat(1), state |-> Interval(PyInt(0), PyInt(4)),
      engine_load_percent |-> Interval(PyInt(4), PyInt(4)),
      engine_speed_rpm |-> Interval(PyInt(2), PyInt(8))]),
    ice_fuel_tank |-> PyDict([
      interval |-> PyFloat(2), fuel_tank_id |-> Interval(PyInt(0), PyInt(0)),
      available_fuel_volume_cm3 |-> Interval(PyFloat(3), PyFloat(4))])])

Of(section, field, value) == PyDict(section :> PyDict(field :> value))

Steady(section, field, value) ==
  PyDict(("stork_engine_rpm" :> PyDict("engine_speed_rpm" :> PyInt(4))) @@ Of(section, field, value).at)

Stork(speed, load) ==
  PyDict([stork_engine_rpm |->
            PyDict([engine_speed_rpm |-> speed, engine_load_percent |-> load])])

Fuel(value) == Steady("ice_fuel_tank", "available_fuel_volume_cm3", value)

Usable ==
  {PyNone,                                                             \* an empty file
   PyDict("stork_engine_rpm" :> PyDict([engine_speed_rpm |-> PyInt(4), state |-> PyStr(TRUE)])),
   Steady("ice_reciprocating", "engine_speed_rpm", PyStr(TRUE)),
   Steady("ice_reciprocating", "engine_load_percent", PyStr(TRUE)),
   Of("stork_engine_rpm", "engine_speed_rpm", PyNone),
   Of("stork_engine_rpm", "engine_speed_rpm", Interval(PyFloat(-1), PyFloat(3))),
   Stork(PyFloat(5), Interval(PyFloat(3), PyInt(8))),
   Stork(NaN, PyInt(6)),
   Stork(PyStr(TRUE), PyInt(6)),
   Stork(PyInt(24), PyInt(260)),                                        \* over the fields
   Fuel(NaN), Fuel(PyNone), Fuel(PyStr(TRUE)), Fuel(PyFloat(5)),
   Fuel(PyDict([max |-> PyFloat(5)])),
   Fuel(Interval(NaN, PyFloat(4))), Fuel(Interval(PyFloat(2), NaN)),
   PyDict([heartbeat_interval |-> NaN, node_id |-> PyBool(TRUE),
           stork_engine_rpm |-> PyDict("engine_speed_rpm" :> PyInt(4)), other |-> Interval(PyInt(2), PyInt(0))])}

Refused ==
  {Error,
   PyDict([heartbeat_interval |-> PyInt(0)]), PyDict([local_port |-> PyStr(TRUE)]),
   PyDict([node_name |-> PyStr(FALSE)]), PyDict([stork_engine_rpm |-> PyNone]),
   Of("stork_engine_rpm", "engine_speed_rpm", Interval(PyInt(8), PyInt(2))),
   PyDict([max_peers |-> NaN]),
   Of("ice_fuel_tank", "interval", PyFloat(0)),
   Of("ice_reciprocating", "other", Interval(PyInt(2), PyStr(TRUE)))}

MCDocs == Usable \cup Refused

MCQuantity(speed, load) == [engine_speed_rpm |-> speed, engine_load_percent |-> load]

MCNear == MCQuantity(2, 2)

MCStepMin == MCQuantity(1, 1)

MCStepMax == MCQuantity(2, 2)

MCFallback == MCQuantity(Span(2, 4), Span(4, 4))

(* What the classes of file are for.                                       *)
ASSUME \A d \in MCDocs : Accepted(d) <=> d \in Usable
=============================================================================

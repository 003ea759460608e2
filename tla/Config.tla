-------------------------------- MODULE Config --------------------------------
(***************************************************************************)
(* load_config (config_loader.py): what the file says is merged into the   *)
(* defaults, each value converted to the type of the default it replaces,  *)
(* and the result is validated.                                            *)
(*                                                                         *)
(* A value is a record tagged with its Python type.  Numbers are counted   *)
(* in halves, so that truncation and rounding show.  Text is opaque: it    *)
(* does not read as a number (text that does behaves as that number), and  *)
(* is fit to be a name or not.  Keys are spelt with underscores, once.     *)
(***************************************************************************)
EXTENDS Integers

CONSTANT Default  \* DEFAULT_CONFIG; its values are smaller in a model

PyInt(n) == [is |-> "int", n |-> n]

PyFloat(n) == [is |-> "float", n |-> n]

PyBool(b) == [is |-> "bool", n |-> IF b THEN 2 ELSE 0]

NaN == [is |-> "nan"]

PyNone == [is |-> "null"]

PyStr(fit) == [is |-> "str", fit |-> fit]

PyDict(f) == [is |-> "map", at |-> f]

PyList(s) == [is |-> "list", at |-> s]

(* Stands for a conversion that raises, and for a file that cannot be read.*)
Error == [is |-> "error"]

IsNumber(v) == v.is \in {"int", "float", "bool"}

(* int() drops the fraction, towards zero.                                 *)
Truncated(n) == IF n >= 0 THEN n - (n % 2) ELSE n + (n % 2)

ToInt(v) == IF IsNumber(v) THEN PyInt(Truncated(v.n)) ELSE Error

ToFloat(v) == IF IsNumber(v) THEN PyFloat(v.n) ELSE IF v = NaN THEN NaN ELSE Error

ToText(v) == IF v.is = "str" THEN v ELSE PyStr(TRUE)
-----------------------------------------------------------------------------
(* A value for a default that is no map, or no map for one that is.  (No   *)
(* default is a bool.)                                                     *)
MergeLeaf(default, loaded) ==
  CASE default.is = "int" -> ToInt(loaded)
    [] default.is = "float" -> ToFloat(loaded)
    [] default.is = "str" -> ToText(loaded)
    [] OTHER -> loaded

MergeMap(Merge(_, _), default, loaded) ==
  IF default.is # "map" \/ loaded.is # "map" THEN MergeLeaf(default, loaded)
  ELSE LET d == default.at
           l == loaded.at IN
       PyDict([k \in DOMAIN d \cup DOMAIN l |->
              IF k \notin DOMAIN l THEN d[k]
              ELSE IF k \notin DOMAIN d THEN l[k] ELSE Merge(d[k], l[k])])

MutMergeRangeWhole(default, loaded) == MergeLeaf(default, loaded)

MergeRange(default, loaded) == MergeMap(MergeLeaf, default, loaded)

MergeSection(default, loaded) == MergeMap(MergeRange, default, loaded)

(* A document that is no map, as an empty file, leaves the defaults; so    *)
(* does the absence of the default file.                                   *)
Loaded(doc) == IF doc.is = "map" THEN MergeMap(MergeSection, Default, doc) ELSE Default
-----------------------------------------------------------------------------
Parts(v) == IF v.is \in {"map", "list"} THEN {v.at[k] : k \in DOMAIN v.at} ELSE {}

Layer(S) == S \cup UNION {Parts(v) : v \in S}

(* A value and all that it holds: top, section, list, cylinder, range, end.*)
Within(v) == Layer(Layer(Layer(Layer(Layer({v})))))

AsInt(v) == IF v.is = "bool" THEN Error ELSE ToInt(v)

AsFloat(v) == IF v.is = "bool" THEN Error ELSE ToFloat(v)

IntInRange(v, low, high) == AsInt(v) # Error /\ AsInt(v).n \in 2 * low .. 2 * high

(* parsed <= minimum is what is rejected, so NaN passes.                   *)
PositiveFloat(v) == AsFloat(v) # Error /\ (AsFloat(v) = NaN \/ AsFloat(v).n > 0)

(* So it does here, where minimum > maximum is rejected.                   *)
Ordered(v) ==
  v.is = "map" /\ {"min", "max"} \subseteq DOMAIN v.at =>
    LET low == AsFloat(v.at["min"])  high == AsFloat(v.at["max"]) IN
    /\ Error \notin {low, high}
    /\ NaN \in {low, high} \/ low.n <= high.n

ValidSection(v) ==
  /\ v.is = "map"
  /\ "interval" \in DOMAIN v.at => PositiveFloat(v.at["interval"])
  /\ \A w \in Within(v) : Ordered(w)

ValidConfig(c) ==
  /\ IntInRange(c.at["local_port"], 1, 65535)
  /\ PositiveFloat(c.at["peer_timeout"])
  /\ IntInRange(c.at["max_peers"], 1, 4096)
  /\ PositiveFloat(c.at["reassembler_session_timeout"])
  /\ IntInRange(c.at["node_id"], 0, 127)
  /\ ToText(c.at["node_name"]).fit
  /\ IntInRange(c.at["priority"], 0, 31)
  /\ PositiveFloat(c.at["heartbeat_interval"])
  /\ ToText(c.at["gpx"]).fit
  /\ ValidSection(c.at["ice_reciprocating"])
  /\ ValidSection(c.at["ice_fuel_tank"])
  /\ ValidSection(c.at["stork_engine_rpm"])

(* load_config returns; otherwise it raises.                               *)
Accepted(doc) ==
  /\ doc # Error
  /\ Error \notin Within(Loaded(doc))
  /\ ValidConfig(Loaded(doc))
=============================================================================

---------------------------- MODULE ProgramProofs -----------------------------
(***************************************************************************)
(* The process cleans up after itself, and what the engine publishers send *)
(* is what the file asks for, for every file, every ramp and every width   *)
(* of the fields.                                                          *)
(*                                                                         *)
(* The file is followed through: what merging makes of a range (FieldKept),*)
(* what GetMinMax makes of that (RangeKept), that the ramp keeps to it     *)
(* (UpdateWithin), that a round of the publishers does (RoundOutcome), and *)
(* that rounding, dividing and cutting to fields keep what is reported     *)
(* within what was asked (ReportedWithin, FuelWithin).                     *)
(***************************************************************************)
EXTENDS Program, TLAPS

Starting == {"loading", "building", "registering", "binding", "opening"}

(* What main has made by each phase.  While it withdraws, a socket still   *)
(* there comes from an error; when it has ended, unless killed, so does    *)
(* whatever is left, or from a cancellation.                               *)
Cleanup ==
  /\ phase \in Starting =>
       loop = "none" /\ endpoint = IF phase = "opening" THEN "bound" ELSE "none"
  /\ phase \in {"loading", "building"} => mdns = "none"
  /\ phase = "registering" => mdns = "made"
  /\ phase \in {"binding", "opening", "serving", "stopping", "withdrawing"} =>
       mdns = "registered"
  /\ phase \in {"serving", "stopping"} => endpoint = "open"
  /\ phase \in {"withdrawing", "ended"} /\ outcome # "killed" =>
       /\ loop \notin {"created", "running"}
       /\ endpoint # "bound" /\ (endpoint = "open" <=> loop = "failed")
  /\ endpoint = "closed" => loop \in {"none", "done"}
  /\ outcome = "killed" => phase = "ended"
  /\ phase = "withdrawing" /\ endpoint \in {"unbound", "open"} => outcome = "error"
  /\ phase = "ended" /\ outcome # "killed" =>
       mdns # "registered" /\ (Left => outcome = "error" \/ cancel = "raised")

CInv == LTypeOK /\ Cleanup
-----------------------------------------------------------------------------
(* Each of main's steps hands the next one what it expects.                *)
LEMMA MainCleanup ==
  ASSUME CInv, NEW a \in BOOLEAN, MainStep(a)
  PROVE  CInv'
<1> USE DEF CInv, LTypeOK, Phases, Cleanup, Starting, Left, Goto, Cancelled, NotCancelled
<1>1. CASE LoadConfig(a)
  BY <1>1 DEF LoadConfig
<1>2. CASE BuildNode
  BY <1>2 DEF BuildNode
<1>3. CASE Register
  BY <1>3 DEF Register
<1>4. CASE Bind
  BY <1>4 DEF Bind
<1>5. CASE OpenEndpoint
  BY <1>5 DEF OpenEndpoint
<1>6. CASE StopServing
  BY <1>6 DEF StopServing
<1>7. CASE PublisherEnded
  BY <1>7 DEF PublisherEnded
<1>8. CASE Withdraw
  BY <1>8 DEF Withdraw
<1> QED
  BY <1>1, <1>2, <1>3, <1>4, <1>5, <1>6, <1>7, <1>8 DEF MainStep

(* So does everything that may come in between.                            *)
LEMMA CleanupStep == CInv /\ [PNext]_pvars => CInv'
<1> SUFFICES ASSUME CInv, [PNext]_pvars PROVE CInv'
  OBVIOUS
<1>1. CASE Main
  <2>1. Accepted(doc) \in BOOLEAN
    BY DEF Accepted
  <2> QED
    BY <1>1, <2>1, MainCleanup DEF Main
<1> USE DEF CInv, LTypeOK, Phases, Cleanup, Starting, Left
<1>2. CASE Cancellation
  BY <1>2 DEF Cancellation, LoopEnds
<1>3. CASE Publish
  BY <1>3 DEF Publish, LoopTurns
<1>4. CASE Failure
  BY <1>4 DEF Failure, LoopFails
<1>5. CASE Signal
  <2>1. UNCHANGED <<mdns, endpoint, loop, loopCancel, handlers>>
    BY <1>5 DEF Signal, Interrupt, Terminate
  <2>2. UNCHANGED <<phase, outcome>> \/ (phase' = "ended" /\ outcome' = "killed")
    BY <1>5 DEF Signal, Interrupt, Terminate, Goto
  <2>3. stop' \in BOOLEAN
    BY <1>5 DEF Signal, Interrupt, Terminate
  <2>4. cancel' \in {"no", "pending", "raised"} /\ (cancel = "raised" => cancel' = "raised")
    BY <1>5 DEF Signal, Interrupt, Terminate
  <2> QED
    BY <2>1, <2>2, <2>3, <2>4
<1>6. CASE UNCHANGED pvars
  BY <1>6 DEF pvars, lvars
<1> QED
  BY <1>1, <1>2, <1>3, <1>4, <1>5, <1>6 DEF PNext

(* What the process holds in each of its phases: the announcement, the     *)
(* socket, whether bound or not, and the publisher's task                  *)
(* (app_runtime.py:143-206, mdns.py:14-21).                                *)
THEOREM CleanupInvariant == PSpec => []CInv
<1>1. PInit => CInv
  BY DEF PInit, LInit, CInv, LTypeOK, Phases, Cleanup, Starting
<1> QED
  BY <1>1, CleanupStep, PTL DEF PSpec

(* A process that ends by itself has tried to withdraw what it announced   *)
(* and its publisher has ended; the socket stays open only when bind raised*)
(* or the publisher had failed, and nothing at all is left without an error*)
(* or a cancellation (app_runtime.py:171-206, mdns.py:14-21).              *)
THEOREM LeavesWhatFailed == PSpec => []LeavesOnlyWhatFailed
<1>1. CInv => LeavesOnlyWhatFailed
  BY DEF CInv, Cleanup, LeavesOnlyWhatFailed
<1> QED
  BY <1>1, CleanupInvariant, PTL
-----------------------------------------------------------------------------
Field(c, section, field) == c.at[section].at[field]

Converted(type, v) == IF type = "int" THEN ToInt(v) ELSE ToFloat(v)

(* Two ranges are joined end by end.                                       *)
LEMMA MergedRange ==
  ASSUME NEW d, NEW f, d.is = "map", DOMAIN d.at = {"min", "max"}, f.is = "map"
  PROVE  MergeRange(d, f) =
           PyDict([k \in {"min", "max"} \cup DOMAIN f.at |->
                     IF k \notin DOMAIN f.at THEN d.at[k]
                     ELSE IF k \notin {"min", "max"} THEN f.at[k]
                          ELSE MergeLeaf(d.at[k], f.at[k])])
  BY DEF MergeRange, MergeMap

(* Of two sections, those of the fields of the first that the second has   *)
(* too are merged, the others kept.                                        *)
LEMMA MergedSection ==
  ASSUME NEW d, NEW l, d.is = "map", l.is = "map", NEW k \in DOMAIN d.at
  PROVE  /\ MergeSection(d, l).at[k] =
              IF k \in DOMAIN l.at THEN MergeRange(d.at[k], l.at[k]) ELSE d.at[k]
         /\ k \in DOMAIN MergeSection(d, l).at
  BY DEF MergeSection, MergeMap, PyDict

(* A field with a default range: what the file does not mention is the     *)
(* default, a range is merged end by end, anything else replaces it.       *)
LEMMA MergedField ==
  ASSUME NEW section \in {"stork_engine_rpm", "ice_fuel_tank"}, NEW field,
         NEW type \in {"int", "float"}, RangeByDefault(section, field, type), Accepted(doc)
  PROVE  LET v == Field(Loaded(doc), section, field)
             d == Field(Default, section, field)
             f == Field(doc, section, field) IN
         /\ field \in DOMAIN Loaded(doc).at[section].at
         /\ ~FileSays(section, field) => v = d
         /\ FileSays(section, field) /\ f.is # "map" => v = f
         /\ FileSays(section, field) /\ f.is = "map" =>
              /\ v.is = "map" /\ {"min", "max"} \subseteq DOMAIN v.at
              /\ \A end \in {"min", "max"} :
                   v.at[end] = IF end \in DOMAIN f.at THEN Converted(type, f.at[end])
                               ELSE d.at[end]
<1> USE ProgramAssumption DEF ProgramAssumption, RangeByDefault, Field
<1>1. CASE doc.is # "map"
  BY <1>1 DEF Loaded, FileSays
<1>2. CASE doc.is = "map"
  <2>1. Loaded(doc).at[section] = IF section \in DOMAIN doc.at
                                  THEN MergeSection(Default.at[section], doc.at[section])
                                  ELSE Default.at[section]
    BY <1>2 DEF Loaded, MergeMap, PyDict
  <2>2. CASE section \notin DOMAIN doc.at
    BY <2>1, <2>2 DEF FileSays
  <2>3. CASE section \in DOMAIN doc.at
    <3>1. Loaded(doc).at[section].is = "map"
      BY DEF Accepted, ValidConfig, ValidSection
    <3>2. doc.at[section].is = "map"
      <4>1. doc.at[section].is # "map" => Loaded(doc).at[section] = doc.at[section]
        BY <2>1, <2>3 DEF MergeSection, MergeMap, MergeLeaf
      <4> QED
        BY <4>1, <3>1
    <3> DEFINE v == Loaded(doc).at[section].at[field]
               d == Default.at[section].at[field]
               f == doc.at[section].at[field]
    <3>3. /\ v = IF field \in DOMAIN doc.at[section].at THEN MergeRange(d, f) ELSE d
          /\ field \in DOMAIN Loaded(doc).at[section].at
      <4>1. Default.at[section].is = "map" /\ field \in DOMAIN Default.at[section].at
        OBVIOUS
      <4>2. Loaded(doc).at[section] = MergeSection(Default.at[section], doc.at[section])
        BY ONLY <2>1, <2>3
      <4> QED
        BY ONLY <3>2, <4>1, <4>2, MergedSection
    <3> field \in DOMAIN Loaded(doc).at[section].at
      BY <3>3
    <3>4. CASE field \notin DOMAIN doc.at[section].at
      BY <3>3, <3>4 DEF FileSays
    <3>5. CASE field \in DOMAIN doc.at[section].at
      <4>1. f.is # "map" => v = f
        BY <3>3, <3>5 DEF MergeRange, MergeMap, MergeLeaf
      <4>2. ASSUME f.is = "map"
            PROVE  v = PyDict([k \in {"min", "max"} \cup DOMAIN f.at |->
                         IF k \notin DOMAIN f.at THEN d.at[k]
                         ELSE IF k \notin {"min", "max"} THEN f.at[k]
                              ELSE MergeLeaf(d.at[k], f.at[k])])
        <5>1. d.is = "map" /\ DOMAIN d.at = {"min", "max"}
          OBVIOUS
        <5>2. v = MergeRange(d, f)
          BY ONLY <3>3, <3>5
        <5> HIDE DEF v, d, f
        <5> QED
          BY ONLY <4>2, <5>1, <5>2, MergedRange
      <4>3. \A end \in {"min", "max"} : d.at[end].is = type
        OBVIOUS
      <4>4. \A end \in {"min", "max"} : \A w : MergeLeaf(d.at[end], w) = Converted(type, w)
        BY <4>3 DEF MergeLeaf, Converted
      <4>5. FileSays(section, field)
        BY <1>2, <2>3, <3>2, <3>5 DEF FileSays
      <4>6. ASSUME f.is = "map"
            PROVE  /\ v.is = "map" /\ {"min", "max"} \subseteq DOMAIN v.at
                   /\ \A end \in {"min", "max"} :
                        v.at[end] = IF end \in DOMAIN f.at THEN Converted(type, f.at[end])
                                    ELSE d.at[end]
        <5> HIDE DEF v, d, f
        <5>1. v = PyDict([k \in {"min", "max"} \cup DOMAIN f.at |->
                         IF k \notin DOMAIN f.at THEN d.at[k]
                         ELSE IF k \notin {"min", "max"} THEN f.at[k]
                              ELSE MergeLeaf(d.at[k], f.at[k])])
          BY ONLY <4>2, <4>6
        <5> QED
          BY ONLY <4>4, <5>1 DEF PyDict
      <4> QED
        BY <4>1, <4>5, <4>6
    <3> QED
      BY <3>4, <3>5
  <2> QED
    BY <2>2, <2>3
<1> QED
  BY <1>1, <1>2

(* Numbers anywhere in a field of the file are whole halves.               *)
LEMMA WithinDoc ==
  ASSUME doc \in Docs, NEW section, NEW field, FileSays(section, field)
  PROVE  LET f == Field(doc, section, field) IN
         /\ IsNumber(f) => f.n \in Int
         /\ f.is = "map" => \A end \in DOMAIN f.at : IsNumber(f.at[end]) => f.at[end].n \in Int
<1> DEFINE f == Field(doc, section, field)
<1>1. \A v : v.is = "map" => \A k \in DOMAIN v.at : v.at[k] \in Parts(v)
  BY DEF Parts
<1>2. \A S : \A v \in S : v \in Layer(S) /\ Parts(v) \subseteq Layer(S)
  BY DEF Layer
<1> DEFINE L1 == Layer({doc})
           L2 == Layer(L1)
           L3 == Layer(L2)
           L4 == Layer(L3)
<1>3. Within(doc) = Layer(L4)
  BY DEF Within
<1>4. doc.at[section] \in L1
  BY <1>1, <1>2 DEF FileSays
<1> HIDE DEF L1
<1>5. f \in L2
  BY <1>1, <1>2, <1>4 DEF FileSays, Field
<1> HIDE DEF L2
<1>6. f.is = "map" => \A end \in DOMAIN f.at : f.at[end] \in L3
  BY <1>1, <1>2, <1>5
<1> HIDE DEF L3
<1>7. f \in Layer(L4) /\ (f.is = "map" => \A end \in DOMAIN f.at : f.at[end] \in Layer(L4))
  <2>1. f \in L3
    BY <1>2, <1>5 DEF L3
  <2> QED
    BY <1>2, <1>6, <2>1 DEF L4
<1> QED
  BY <1>3, <1>7, ProgramAssumption DEF ProgramAssumption

Spans == [low : Int, high : Int]

(* Min and Max of a pair.                                                  *)
LEMMA MinMaxOfTwo ==
  ASSUME NEW a \in Int, NEW b \in Int
  PROVE  /\ Min({a, b}) = IF a <= b THEN a ELSE b
         /\ Max({a, b}) = IF a <= b THEN b ELSE a
BY DEF Min, Max

(* Ranges, numbers, NaN and errors are told apart.                         *)
LEMMA Tags ==
  /\ NaN # Error
  /\ \A n \in Int : PyFloat(n) # NaN /\ PyFloat(n) # Error
  /\ \A r \in Spans : r # NaN /\ r # Error
<1>1. NaN.is = "nan" /\ Error.is = "error" /\ \A n \in Int : PyFloat(n).is = "float"
  BY DEF NaN, Error, PyFloat
<1>2. \A r \in Spans : DOMAIN r = {"low", "high"}
  BY DEF Spans
<1>3. DOMAIN NaN = {"is"} /\ DOMAIN Error = {"is"}
  BY DEF NaN, Error
<1> QED
  BY <1>1, <1>2, <1>3

IntIfNumber(v) == IsNumber(v) => v.n \in Int

(* What GetMinMax makes of a range, of a number, and of the rest.          *)
LEMMA MinMaxOf ==
  ASSUME NEW v, NEW fallback \in Spans
  PROVE  LET r == GetMinMax(v, fallback) IN
         /\ v.is = "map" /\ {"min", "max"} \subseteq DOMAIN v.at =>
              /\ IntIfNumber(v.at["min"]) /\ IntIfNumber(v.at["max"]) =>
                   r \in {Error, NaN} \cup Spans
              /\ \A a, b \in Int :
                   ToFloat(v.at["min"]) = PyFloat(a) /\ ToFloat(v.at["max"]) = PyFloat(b)
                     => r = Span(Min({a, b}), Max({a, b}))
         /\ v.is # "map" =>
              /\ IntIfNumber(v) => r \in {Error, NaN} \cup Spans
              /\ IsNumber(v) /\ v.n \in Int => r = Span(v.n, v.n)
<1> USE DEF IntIfNumber
<1>1. ASSUME v.is = "map", {"min", "max"} \subseteq DOMAIN v.at, NEW a \in Int, NEW b \in Int,
             ToFloat(v.at["min"]) = PyFloat(a), ToFloat(v.at["max"]) = PyFloat(b)
      PROVE  GetMinMax(v, fallback) = Span(Min({a, b}), Max({a, b}))
  <2> DEFINE ends == {PyFloat(a), PyFloat(b)}
  <2>1. v # PyNone
    BY <1>1 DEF PyNone
  <2>2. EndOf(v, "min", fallback.low) = PyFloat(a) /\ EndOf(v, "max", fallback.high) = PyFloat(b)
    BY <1>1 DEF EndOf
  <2>3. {e.n : e \in ends} = {a, b}
    BY DEF PyFloat
  <2>4. Error \notin ends /\ NaN \notin ends
    BY Tags
  <2> QED
    BY <1>1, <2>1, <2>2, <2>3, <2>4 DEF GetMinMax
<1>2. ASSUME v.is # "map", IsNumber(v), v.n \in Int
      PROVE  GetMinMax(v, fallback) = Span(v.n, v.n)
  <2>1. v # PyNone
    BY <1>2 DEF PyNone, IsNumber
  <2>2. ToFloat(v) = PyFloat(v.n)
    BY <1>2 DEF ToFloat
  <2>3. {e.n : e \in {PyFloat(v.n)}} = {v.n}
    BY DEF PyFloat
  <2>4. Error \notin {PyFloat(v.n)} /\ NaN \notin {PyFloat(v.n)}
    BY <1>2, Tags
  <2>5. Min({v.n}) = v.n /\ Max({v.n}) = v.n
    BY <1>2 DEF Min, Max
  <2> QED
    BY <1>2, <2>1, <2>2, <2>3, <2>4, <2>5 DEF GetMinMax
<1>3. \A w : (IsNumber(w) => w.n \in Int) =>
        ToFloat(w) \in {Error, NaN} \/ \E n \in Int : ToFloat(w) = PyFloat(n)
  BY DEF ToFloat
<1>4. \A a, b \in Int : Span(Min({a, b}), Max({a, b})) \in Spans
  BY MinMaxOfTwo DEF Span, Spans
<1>5. ASSUME v.is = "map", {"min", "max"} \subseteq DOMAIN v.at,
             \A e \in {"min", "max"} : IsNumber(v.at[e]) => v.at[e].n \in Int
      PROVE  GetMinMax(v, fallback) \in {Error, NaN} \cup Spans
  <2> DEFINE low == ToFloat(v.at["min"])
             high == ToFloat(v.at["max"])
  <2>1. v # PyNone /\ EndOf(v, "min", fallback.low) = low /\ EndOf(v, "max", fallback.high) = high
    BY <1>5 DEF PyNone, EndOf
  <2>2. CASE Error \in {low, high}
    BY <1>5, <2>1, <2>2 DEF GetMinMax
  <2>3. CASE Error \notin {low, high} /\ NaN \in {low, high}
    BY <1>5, <2>1, <2>3 DEF GetMinMax
  <2>4. CASE Error \notin {low, high} /\ NaN \notin {low, high}
    <3>1. PICK a \in Int : low = PyFloat(a)
      BY <1>3, <1>5, <2>4
    <3>2. PICK b \in Int : high = PyFloat(b)
      BY <1>3, <1>5, <2>4
    <3> QED
      BY <1>1, <1>4, <1>5, <3>1, <3>2
  <2> QED
    BY <2>2, <2>3, <2>4
<1>6. ASSUME v.is # "map", IsNumber(v) => v.n \in Int
      PROVE  GetMinMax(v, fallback) \in {Error, NaN} \cup Spans
  <2>1. CASE v = PyNone
    BY <2>1 DEF GetMinMax
  <2>2. CASE v # PyNone /\ ~IsNumber(v)
    <3>1. ToFloat(v) \in {Error, NaN}
      BY <2>2 DEF ToFloat
    <3> QED
      BY <1>6, <2>2, <3>1 DEF GetMinMax
  <2>3. CASE IsNumber(v)
    <3>1. Span(v.n, v.n) \in Spans
      BY <1>6, <2>3 DEF Span, Spans
    <3> QED
      BY <1>2, <1>6, <2>3, <3>1
  <2> QED
    BY <2>1, <2>2, <2>3
<1> QED
  BY <1>1, <1>2, <1>5, <1>6

(* Truncating stays within the whole units around.                         *)
LEMMA Truncation ==
  ASSUME NEW n \in Int, NEW low \in Int, NEW high \in Int, low <= n, n <= high
  PROVE  /\ Truncated(n) \in Int
         /\ 2 * Below(low) <= Truncated(n) /\ Truncated(n) <= 2 * Above(high)
         /\ 2 * Below(low) <= n /\ n <= 2 * Above(high)
BY DEF Truncated, Below, Above

(* A field of the loaded configuration against what the file asks for: the *)
(* same single value, or a range whose ends are those asked for, truncated *)
(* when the default is given in ints.                                      *)
LEMMA FieldKept ==
  ASSUME NEW section \in {"stork_engine_rpm", "ice_fuel_tank"}, NEW field,
         NEW type \in {"int", "float"}, RangeByDefault(section, field, type),
         doc \in Docs, Accepted(doc)
  PROVE  LET v == Field(Loaded(doc), section, field)
             ends == Asked(section, field) IN
         \/ v.is # "map" /\ ends = {v} /\ IntIfNumber(v)
         \/ /\ v.is = "map" /\ {"min", "max"} \subseteq DOMAIN v.at
            /\ \A end \in {"min", "max"} : IntIfNumber(v.at[end])
            /\ Numeric(ends) => \E l, h, a, b \in Int :
                 /\ Halves(ends) = {l, h}
                 /\ a \in {l, Truncated(l)} /\ ToFloat(v.at["min"]) = PyFloat(a)
                 /\ b \in {h, Truncated(h)} /\ ToFloat(v.at["max"]) = PyFloat(b)
                 /\ type = "float" => a = l /\ b = h
<1> DEFINE v == Field(Loaded(doc), section, field)
           d == Field(Default, section, field)
           f == Field(doc, section, field)
           ends == Asked(section, field)
<1>1. /\ d.is = "map" /\ DOMAIN d.at = {"min", "max"}
      /\ \A end \in {"min", "max"} : d.at[end].is = type /\ d.at[end].n \in Int
  BY DEF RangeByDefault, Field
<1>2. CASE FileSays(section, field) /\ f.is # "map"
  <2>1. v = f /\ v.is # "map" /\ IntIfNumber(v)
    BY <1>2, MergedField, WithinDoc DEF IntIfNumber
  <2>2. ends = {v}
    BY <1>2, <2>1 DEF Asked, Field
  <2> QED
    BY <2>1, <2>2
<1>3. CASE ~(FileSays(section, field) /\ f.is # "map")
  <2> DEFINE asked(end) == AskedEnd(section, field, end)
  <2>1. ends = {asked("min"), asked("max")}
    BY <1>3 DEF Asked, Field
  <2>2. v.is = "map" /\ {"min", "max"} \subseteq DOMAIN v.at
    BY <1>1, <1>3, MergedField
  <2>3. \A end \in {"min", "max"} :
          /\ IntIfNumber(asked(end))
          /\ \/ v.at[end] = Converted(type, asked(end))
             \/ v.at[end] = asked(end) /\ asked(end).is = type
    <3> SUFFICES ASSUME NEW end \in {"min", "max"}
                 PROVE  /\ IntIfNumber(asked(end))
                        /\ \/ v.at[end] = Converted(type, asked(end))
                           \/ v.at[end] = asked(end) /\ asked(end).is = type
      OBVIOUS
    <3>1. CASE FileSays(section, field) /\ end \in DOMAIN f.at
      <4>1. asked(end) = f.at[end]
        BY <3>1 DEF AskedEnd, Field
      <4>2. v.at[end] = Converted(type, f.at[end])
        BY <1>3, <3>1, MergedField
      <4>3. IntIfNumber(f.at[end])
        BY <1>3, <3>1, WithinDoc DEF IntIfNumber
      <4> QED
        BY <4>1, <4>2, <4>3
    <3>2. CASE ~(FileSays(section, field) /\ end \in DOMAIN f.at)
      <4>1. asked(end) = d.at[end]
        BY <3>2 DEF AskedEnd, Field
      <4>2. v.at[end] = d.at[end]
        BY <1>3, <3>2, MergedField
      <4> QED
        BY <1>1, <4>1, <4>2 DEF IntIfNumber
    <3> QED
      BY <3>1, <3>2
  <2>4. \A end \in {"min", "max"} : IntIfNumber(v.at[end])
    <3>1. \A w : IntIfNumber(w) => IntIfNumber(ToInt(w)) /\ IntIfNumber(ToFloat(w))
      BY DEF IntIfNumber, ToInt, ToFloat, PyInt, PyFloat, IsNumber, Error, NaN, Truncated
    <3> QED
      BY <2>3, <3>1 DEF Converted
  <2>5. ASSUME Numeric(ends)
        PROVE  \A end \in {"min", "max"} :
                 /\ asked(end).n \in Int
                 /\ \E n \in {asked(end).n, Truncated(asked(end).n)} :
                      ToFloat(v.at[end]) = PyFloat(n) /\ (type = "float" => n = asked(end).n)
    <3> SUFFICES ASSUME NEW end \in {"min", "max"}
                 PROVE  /\ asked(end).n \in Int
                        /\ \E n \in {asked(end).n, Truncated(asked(end).n)} :
                             ToFloat(v.at[end]) = PyFloat(n) /\ (type = "float" => n = asked(end).n)
      OBVIOUS
    <3>1. IsNumber(asked(end)) /\ asked(end).n \in Int
      BY <2>1, <2>3, <2>5 DEF Numeric, IntIfNumber
    <3>2. CASE v.at[end] = Converted(type, asked(end))
      BY <3>1, <3>2 DEF Converted, ToInt, ToFloat, PyInt, PyFloat, IsNumber
    <3>3. CASE v.at[end] = asked(end)
      BY <3>1, <3>3 DEF ToFloat
    <3> QED
      BY <2>3, <3>1, <3>2, <3>3
  <2>6. ASSUME Numeric(ends)
        PROVE  \E l, h, a, b \in Int :
                 /\ Halves(ends) = {l, h}
                 /\ a \in {l, Truncated(l)} /\ ToFloat(v.at["min"]) = PyFloat(a)
                 /\ b \in {h, Truncated(h)} /\ ToFloat(v.at["max"]) = PyFloat(b)
                 /\ type = "float" => a = l /\ b = h
    <3> DEFINE l == asked("min").n
               h == asked("max").n
    <3>1. l \in Int /\ h \in Int
      BY <2>5, <2>6
    <3>2. PICK a : a \in {l, Truncated(l)} /\ ToFloat(v.at["min"]) = PyFloat(a)
                   /\ (type = "float" => a = l)
      BY <2>5, <2>6
    <3>3. PICK b : b \in {h, Truncated(h)} /\ ToFloat(v.at["max"]) = PyFloat(b)
                   /\ (type = "float" => b = h)
      BY <2>5, <2>6
    <3>4. a \in Int /\ b \in Int
      BY <3>1, <3>2, <3>3 DEF Truncated
    <3>5. Halves(ends) = {l, h}
      BY <2>1 DEF Halves
    <3> QED
      BY <3>1, <3>2, <3>3, <3>4, <3>5
  <2> QED
    BY <2>2, <2>4, <2>6
<1> QED
  BY <1>2, <1>3

(* The range the loaded configuration gives a field lies in what the file  *)
(* asks for, taken to whole units; one given in floats is kept as it is.   *)
LEMMA RangeKept ==
  ASSUME NEW section \in {"stork_engine_rpm", "ice_fuel_tank"}, NEW field,
         NEW type \in {"int", "float"}, RangeByDefault(section, field, type),
         doc \in Docs, Accepted(doc), NEW fallback \in Spans
  PROVE  LET r == GetMinMax(Field(Loaded(doc), section, field), fallback)
             ends == Asked(section, field) IN
         /\ r \in {Error, NaN} \cup Spans
         /\ Numeric(ends) =>
              /\ r \in Spans
              /\ Min(Halves(ends)) \in Int /\ Max(Halves(ends)) \in Int
              /\ 2 * Below(Min(Halves(ends))) <= r.low /\ r.high <= 2 * Above(Max(Halves(ends)))
              /\ type = "float" => r = Span(Min(Halves(ends)), Max(Halves(ends)))
<1> DEFINE v == Field(Loaded(doc), section, field)
           r == GetMinMax(v, fallback)
           ends == Asked(section, field)
<1>1. CASE v.is # "map" /\ ends = {v} /\ IntIfNumber(v)
  <2>1. Numeric(ends) => IsNumber(v) /\ Halves(ends) = {v.n} /\ v.n \in Int
    BY <1>1 DEF Numeric, Halves, IntIfNumber
  <2>2. ASSUME Numeric(ends)
        PROVE  r = Span(v.n, v.n) /\ Min(Halves(ends)) = v.n /\ Max(Halves(ends)) = v.n /\ v.n \in Int
    <3>1. Min({v.n}) = v.n /\ Max({v.n}) = v.n
      BY <2>1, <2>2 DEF Min, Max
    <3> QED
      BY <1>1, <2>1, <2>2, <3>1, MinMaxOf
  <2>3. r \in {Error, NaN} \cup Spans
    BY <1>1, MinMaxOf
  <2>4. Numeric(ends) => 2 * Below(v.n) <= v.n /\ v.n <= 2 * Above(v.n)
    BY <2>1 DEF Below, Above
  <2> QED
    BY <2>2, <2>3, <2>4 DEF Span, Spans
<1>2. ASSUME v.is = "map", {"min", "max"} \subseteq DOMAIN v.at,
             \A end \in {"min", "max"} : IntIfNumber(v.at[end])
      PROVE  r \in {Error, NaN} \cup Spans
  BY <1>2, MinMaxOf
<1>3. ASSUME v.is = "map", {"min", "max"} \subseteq DOMAIN v.at,
             NEW l \in Int, NEW h \in Int, NEW a \in Int, NEW b \in Int,
             Halves(ends) = {l, h},
             a \in {l, Truncated(l)}, ToFloat(v.at["min"]) = PyFloat(a),
             b \in {h, Truncated(h)}, ToFloat(v.at["max"]) = PyFloat(b),
             type = "float" => a = l /\ b = h
      PROVE  /\ r \in Spans
             /\ Min(Halves(ends)) \in Int /\ Max(Halves(ends)) \in Int
             /\ 2 * Below(Min(Halves(ends))) <= r.low
             /\ r.high <= 2 * Above(Max(Halves(ends)))
             /\ type = "float" => r = Span(Min(Halves(ends)), Max(Halves(ends)))
  <2> DEFINE m == Min({l, h})
             M == Max({l, h})
  <2>1. m \in Int /\ M \in Int /\ m <= l /\ l <= M /\ m <= h /\ h <= M
    BY MinMaxOfTwo
  <2>2. r = Span(Min({a, b}), Max({a, b}))
    BY <1>3, MinMaxOf
  <2> HIDE DEF m, M
  <2>3. \A n \in {l, h} : /\ 2 * Below(m) <= n /\ n <= 2 * Above(M)
                          /\ 2 * Below(m) <= Truncated(n) /\ Truncated(n) <= 2 * Above(M)
    BY <2>1, Truncation
  <2>4. /\ 2 * Below(m) <= a /\ a <= 2 * Above(M)
        /\ 2 * Below(m) <= b /\ b <= 2 * Above(M)
    BY <1>3, <2>3
  <2>5. r \in Spans /\ 2 * Below(m) <= r.low /\ r.high <= 2 * Above(M)
    BY <2>2, <2>4, MinMaxOfTwo DEF Span, Spans
  <2> QED
    BY <1>3, <2>1, <2>2, <2>5 DEF m, M
<1> QED
  BY <1>1, <1>2, <1>3, FieldKept

-----------------------------------------------------------------------------
RangesOk(c) == \A q \in Quantities : RangeOf(c, q) \in {Error, NaN} \cup Spans

(* What a range lets a quantity be.                                        *)
SignalOk(r, s) ==
  /\ r \in Spans => /\ s.current \in {None} \cup r.low .. r.high
                    /\ s.target \in {None} \cup r.low .. r.high
  /\ r = NaN => s.current \in {None, Nan} /\ s.target \in {None, Nan}
  /\ r = Error => s.current = None /\ s.target = None

EngineOk(c, e) ==
  /\ e \in [Quantities -> SignalOf(Int \cup {None, Nan})]
  /\ \A q \in Quantities : SignalOk(RangeOf(c, q), e[q])

(* Distance is the absolute difference.                                    *)
LEMMA DistanceOf ==
  ASSUME NEW a \in Int, NEW b \in Int
  PROVE  Distance(a, b) = IF a <= b THEN b - a ELSE a - b
<1>1. a - b \in Int /\ b - a \in Int
  OBVIOUS
<1> DEFINE x == a - b
           y == b - a
<1>2. Max({x, y}) = IF x <= y THEN y ELSE x
  <2> HIDE DEF x, y
  <2> QED
    BY <1>1, MinMaxOfTwo DEF x, y
<1> QED
  BY <1>2 DEF Distance

(* A move towards a target stays between the two, and within the step.     *)
LEMMA TowardBetween ==
  ASSUME NEW c \in Int, NEW t \in Int, NEW step \in Nat
  PROVE  /\ Toward(c, t, step) \in Int
         /\ c <= t => c <= Toward(c, t, step) /\ Toward(c, t, step) <= t
         /\ t <= c => t <= Toward(c, t, step) /\ Toward(c, t, step) <= c
         /\ Distance(Toward(c, t, step), c) <= step
         /\ Distance(Toward(c, t, step), c) \in Int
<1> DEFINE up == c + step
           down == c - step
           w == Toward(c, t, step)
<1>1. up \in Int /\ down \in Int
  OBVIOUS
<1>2. /\ Min({t, up}) = IF t <= up THEN t ELSE up
      /\ Max({t, down}) = IF t <= down THEN down ELSE t
  <2> HIDE DEF up, down
  <2> QED
    BY <1>1, MinMaxOfTwo
<1>3. /\ c < t => w = IF t <= up THEN t ELSE up
      /\ ~(c < t) => w = IF t <= down THEN down ELSE t
  BY <1>2 DEF Toward
<1>4. /\ w \in Int
      /\ c <= t => c <= w /\ w <= t
      /\ t <= c => t <= w /\ w <= c
      /\ w - c <= step /\ c - w <= step
  BY <1>3
<1> HIDE DEF w
<1>5. Distance(w, c) = IF w <= c THEN c - w ELSE w - c
  BY <1>4, DistanceOf
<1>6. Distance(w, c) \in Int /\ Distance(w, c) <= step
  BY <1>4, <1>5
<1> QED
  BY <1>4, <1>6 DEF w

(* A quantity that is moved stays in its range, or is NaN with it.         *)
LEMMA MovedWithin ==
  ASSUME NEW q \in Quantities, NEW range \in {NaN} \cup Spans, NEW s, SignalOk(range, s),
         NEW new \in Moved(q, s, range)
  PROVE  /\ SignalOk(range, new)
         /\ new \in SignalOf(Int \cup {None, Nan})
         /\ new.current # None
         /\ range \in Spans => new.current \in range.low .. range.high
         /\ range \in Spans /\ s.current # None => Distance(new.current, s.current) <= StepMax[q]
<1> USE RampAssumption DEF RampAssumption
<1>1. CASE range = NaN
  <2>1. new = [current |-> Nan, target |-> Nan]
    BY <1>1 DEF Moved
  <2> QED
    BY <1>1, <2>1, Tags DEF SignalOk, SignalOf
<1>2. CASE range \in Spans
  <2>1. range # NaN /\ range # Error /\ Uniform(range) = range.low .. range.high
    BY <1>2, Tags DEF Uniform
  <2>2. PICK c \in IF s.current = None THEN Uniform(range) ELSE {s.current} :
          new \in Approach(q, s, c, range)
    BY <2>1 DEF Moved
  <2>3. PICK t, step : /\ t \in Uniform(range) \/ (s.target # None /\ t = s.target)
                       /\ step \in StepMin[q] .. StepMax[q]
                       /\ new = [current |-> Toward(c, t, step), target |-> t]
    BY <2>2 DEF Approach
  <2>4. /\ range.low \in Int /\ range.high \in Int
        /\ c \in range.low .. range.high /\ t \in range.low .. range.high
        /\ s.current # None => c = s.current
    BY <1>2, <2>1, <2>2, <2>3 DEF SignalOk, Spans
  <2>5. step \in Nat /\ step <= StepMax[q]
    BY <2>3
  <2>6. /\ new.current \in range.low .. range.high
        /\ Distance(new.current, c) <= StepMax[q]
    <3>1. c \in Int /\ t \in Int
      BY <2>4
    <3>2. /\ Toward(c, t, step) \in Int
          /\ c <= t => c <= Toward(c, t, step) /\ Toward(c, t, step) <= t
          /\ t <= c => t <= Toward(c, t, step) /\ Toward(c, t, step) <= c
          /\ Distance(Toward(c, t, step), c) <= step
          /\ Distance(Toward(c, t, step), c) \in Int
      BY <3>1, <2>5, TowardBetween
    <3>3. Toward(c, t, step) \in range.low .. range.high
      BY <2>4, <3>2
    <3>4. StepMax[q] \in Nat
      OBVIOUS
    <3> QED
      BY <2>3, <2>5, <3>2, <3>3, <3>4
  <2>7. new.target \in range.low .. range.high
    BY <2>3, <2>4
  <2> QED
    BY <1>2, <2>1, <2>3, <2>4, <2>6, <2>7 DEF SignalOk, SignalOf
<1> QED
  BY <1>1, <1>2

(* So do both, when neither range raises.                                  *)
LEMMA UpdateWithin ==
  ASSUME NEW c, NEW e, RangesOk(c), EngineOk(c, e), NEW new \in UpdateSmoothValues(c, e)
  PROVE  /\ EngineOk(c, new)
         /\ \A q \in Quantities :
              /\ RangeOf(c, q) # Error /\ new[q].current # None
              /\ RangeOf(c, q) \in Spans =>
                   /\ new[q].current \in RangeOf(c, q).low .. RangeOf(c, q).high
                   /\ e[q].current # None => Distance(new[q].current, e[q].current) <= StepMax[q]
<1>1. \A q \in Quantities : RangeOf(c, q) \in {NaN} \cup Spans
  BY DEF UpdateSmoothValues, RangesOk
<1>2. \A q \in Quantities : new[q] \in Moved(q, e[q], RangeOf(c, q))
  BY DEF UpdateSmoothValues, Quantities
<1>3. new = [q \in Quantities |-> new[q]]
  BY DEF UpdateSmoothValues
<1>4. \A q \in Quantities :
        /\ SignalOk(RangeOf(c, q), new[q])
        /\ new[q] \in SignalOf(Int \cup {None, Nan})
        /\ new[q].current # None
        /\ RangeOf(c, q) \in Spans =>
             /\ new[q].current \in RangeOf(c, q).low .. RangeOf(c, q).high
             /\ e[q].current # None => Distance(new[q].current, e[q].current) <= StepMax[q]
  BY <1>1, <1>2, MovedWithin DEF EngineOk
<1>5. \A q \in Quantities : RangeOf(c, q) # Error
  BY <1>1, Tags
<1> QED
  BY <1>3, <1>4, <1>5 DEF EngineOk

-----------------------------------------------------------------------------
Rpm == "engine_speed_rpm"

WithinRange(c, e, q) ==
  RangeOf(c, q) \in Spans /\ e[q].current \in RangeOf(c, q).low .. RangeOf(c, q).high

(* The parts of an outcome.                                                *)
LEMMA OutcomeIs ==
  \A e, m : Outcome(e, m).engine = e /\ Outcome(e, m).message = m
BY DEF Outcome

(* A value that is a number lies in a range.                               *)
LEMMA CurrentWithin ==
  ASSUME NEW c, NEW e, RangesOk(c), EngineOk(c, e), NEW q \in Quantities,
         e[q].current \notin {None, Nan}
  PROVE  WithinRange(c, e, q)
BY DEF RangesOk, EngineOk, SignalOk, WithinRange

(* ICE moves the values only when there are none, and reports what it left.*)
LEMMA IceOutcomes ==
  ASSUME NEW c, NEW e, RangesOk(c), EngineOk(c, e), NEW o \in IceProcess(c, e)
  PROVE  /\ EngineOk(c, o.engine)
         /\ e[Rpm].current # None => o.engine = e
         /\ o.engine[Rpm].current = None => o.message = None
         /\ o.message # None =>
              WithinRange(c, o.engine, Rpm) /\ o.message = Speed(o.engine)
<1> DEFINE ice == c.at["ice_reciprocating"].at
           Fails(new) == new[Rpm].current = Nan \/ SampleRaises(ice["engine_load_percent"])
           ready == IF SampleRaises(ice["engine_speed_rpm"]) THEN {}
                    ELSE IF e[Rpm].current # None THEN {e} ELSE UpdateSmoothValues(c, e)
<1>1. \/ o = Outcome(e, None)
      \/ \E new \in ready : o = Outcome(new, IF Fails(new) THEN None ELSE Speed(new))
  BY DEF IceProcess, Rpm
<1>2. CASE o = Outcome(e, None)
  BY <1>2, OutcomeIs
<1>3. ASSUME NEW new \in ready, o = Outcome(new, IF Fails(new) THEN None ELSE Speed(new))
      PROVE  /\ EngineOk(c, o.engine)
             /\ e[Rpm].current # None => o.engine = e
             /\ o.engine[Rpm].current = None => o.message = None
             /\ o.message # None =>
                  WithinRange(c, o.engine, Rpm) /\ o.message = Speed(o.engine)
  <2>1. EngineOk(c, new) /\ new[Rpm].current # None /\ (e[Rpm].current # None => new = e)
    <3>1. CASE new \in UpdateSmoothValues(c, e) /\ e[Rpm].current = None
      BY <3>1, UpdateWithin DEF Rpm, Quantities
    <3>2. CASE new = e /\ e[Rpm].current # None
      BY <3>2
    <3> QED
      BY <3>1, <3>2
  <2>2. o.engine = new /\ o.message = IF Fails(new) THEN None ELSE Speed(new)
    BY <1>3, OutcomeIs
  <2>3. ~Fails(new) => WithinRange(c, new, Rpm)
    BY <2>1, CurrentWithin DEF Rpm, Quantities
  <2> QED
    BY <2>1, <2>2, <2>3
<1> QED
  BY <1>1, <1>2, <1>3

Sent(e) == [speed |-> Speed(e), load |-> Percentage(e)]

Steady(c) == /\ \A q \in Quantities : RangeOf(c, q) \in Spans
             /\ ~SampleRaises(c.at["stork_engine_rpm"].at["state"])

(* The RPM publisher reports what it moved to; with ranges and fields that *)
(* can be sampled it does not move without reporting.                      *)
LEMMA StorkOutcomes ==
  ASSUME NEW c, NEW e, RangesOk(c), EngineOk(c, e), NEW o \in StorkProcess(c, e)
  PROVE  /\ EngineOk(c, o.engine)
         /\ Steady(c) => o.engine = e \/ (/\ o.message = Sent(o.engine)
                                         /\ \A q \in Quantities : WithinRange(c, o.engine, q))
         /\ o.message # None =>
              /\ Steady(c) /\ o.message = Sent(o.engine)
              /\ \A q \in Quantities :
                   /\ WithinRange(c, o.engine, q)
                   /\ e[q].current # None => Distance(o.engine[q].current, e[q].current) <= StepMax[q]
<1> DEFINE Fails(new) == \/ \E q \in Quantities : new[q].current = Nan
                         \/ SampleRaises(c.at["stork_engine_rpm"].at["state"])
           next == UpdateSmoothValues(c, e)
<1>1. \/ next = {} /\ o = Outcome(e, None)
      \/ \E new \in next : o = Outcome(new, IF Fails(new) THEN None ELSE Sent(new))
  BY DEF StorkProcess, Sent
<1>2. CASE next = {} /\ o = Outcome(e, None)
  BY <1>2, OutcomeIs
<1>3. ASSUME NEW new \in next, o = Outcome(new, IF Fails(new) THEN None ELSE Sent(new))
      PROVE  /\ EngineOk(c, o.engine)
             /\ Steady(c) => o.engine = e \/ (/\ o.message = Sent(o.engine)
                                             /\ \A q \in Quantities : WithinRange(c, o.engine, q))
             /\ o.message # None =>
                  /\ Steady(c) /\ o.message = Sent(o.engine)
                  /\ \A q \in Quantities :
                       /\ WithinRange(c, o.engine, q)
                       /\ e[q].current # None =>
                            Distance(o.engine[q].current, e[q].current) <= StepMax[q]
  <2>1. o.engine = new /\ o.message = IF Fails(new) THEN None ELSE Sent(new)
    BY <1>3, OutcomeIs
  <2>2. /\ EngineOk(c, new)
        /\ \A q \in Quantities :
             /\ new[q].current # None
             /\ RangeOf(c, q) \in Spans =>
                  /\ new[q].current \in RangeOf(c, q).low .. RangeOf(c, q).high
                  /\ e[q].current # None => Distance(new[q].current, e[q].current) <= StepMax[q]
    BY <1>3, UpdateWithin
  <2>3. Steady(c) => ~Fails(new)
    <3>1. \A r \in Spans : Nan \notin r.low .. r.high
      BY RampAssumption DEF RampAssumption, Spans
    <3> QED
      BY <2>2, <3>1 DEF Steady
  <2>4. ~Fails(new) => Steady(c) /\ \A q \in Quantities : WithinRange(c, new, q)
    BY <2>2, CurrentWithin DEF Steady, WithinRange
  <2> QED
    BY <2>1, <2>2, <2>3, <2>4 DEF WithinRange
<1> QED
  BY <1>1, <1>2, <1>3

Volume == Field(config, "ice_fuel_tank", "available_fuel_volume_cm3")

Configured == Accepted(doc) /\ config = Loaded(doc)

(* What was sent by the last step, as the loaded configuration has it.     *)
SentOk ==
  /\ sent.ice # None =>
       \E n \in Int : /\ sent.ice = WriteUnsigned(Round(n), SpeedField)
                     /\ n \in RangeOf(config, Rpm).low .. RangeOf(config, Rpm).high
  /\ sent.ice # None => RangeOf(config, Rpm) \in Spans
  /\ sent.fuel # None => sent.fuel \in FuelProcess(config)
  /\ sent.stork \in {None, report}

ReportOk ==
  report # None =>
    /\ Steady(config)
    /\ \A q \in Quantities : WithinRange(config, engine, q)
    /\ report = Sent(engine)

EngineInv ==
  /\ doc \in Docs /\ config \in {PyNone, Loaded(doc)}
  /\ phase = "loading" => EInit
  /\ phase \notin {"loading", "ended"} => Configured
  /\ Configured => EngineOk(config, engine)
  /\ ~Configured => EInit
  /\ SentOk /\ ReportOk

(* The ranges of an accepted file are ranges, or raise, or are NaN.        *)
LEMMA RangesLoaded ==
  ASSUME doc \in Docs, Configured
  PROVE  RangesOk(config)
<1> SUFFICES ASSUME NEW q \in Quantities PROVE RangeOf(config, q) \in {Error, NaN} \cup Spans
  BY DEF RangesOk
<1>1. RangeByDefault("stork_engine_rpm", q, "int") /\ Fallback[q] \in Spans
  BY ProgramAssumption, RampAssumption DEF ProgramAssumption, RampAssumption, Spans
<1> QED
  BY <1>1, RangeKept DEF Configured, RangeOf, Field

(* At rest, nothing has been sent.                                         *)
LEMMA NoReportYet ==
  ASSUME EInit
  PROVE  SentOk /\ ReportOk
BY DEF EInit, SentOk, ReportOk, Nothing

(* At rest, the values suit any configuration.                             *)
LEMMA EngineAtRest ==
  ASSUME NEW c, EInit
  PROVE  EngineOk(c, engine)
BY DEF EInit, EngineOk, SignalOk, SignalOf

(* What a round does: ICE leaves the values at `ready', the RPM publisher  *)
(* moves them on from there.                                               *)
RoundFrom(ready) ==
  /\ EngineOk(config, ready) /\ EngineOk(config, engine')
  /\ engine[Rpm].current # None => ready = engine
  /\ sent'.ice # None => WithinRange(config, ready, Rpm) /\ sent'.ice = Speed(ready)
  /\ sent'.fuel # None => sent'.fuel \in FuelProcess(config)
  /\ report' = IF sent'.stork = None THEN report ELSE sent'.stork
  /\ Steady(config) => \/ engine' = ready
                       \/ /\ sent'.stork = Sent(engine')
                          /\ \A q \in Quantities : WithinRange(config, engine', q)
  /\ sent'.stork # None =>
       /\ Steady(config) /\ sent'.stork = Sent(engine')
       /\ \A q \in Quantities :
            /\ WithinRange(config, engine', q)
            /\ ready[q].current # None =>
                 Distance(engine'[q].current, ready[q].current) <= StepMax[q]

(* Every round is of that kind.                                            *)
LEMMA RoundOutcome ==
  ASSUME doc \in Docs, Configured, EngineOk(config, engine), NEW due,
         ProcessPublishers(config, due)
  PROVE  \E ready : RoundFrom(ready)
<1>1. PICK ice \in IF "ice" \in due THEN IceProcess(config, engine) ELSE {Outcome(engine, None)},
           fuel \in IF "fuel" \in due THEN FuelProcess(config) ELSE {None} :
        \E stork \in IF "stork" \in due THEN StorkProcess(config, ice.engine)
                    ELSE {Outcome(ice.engine, None)} :
          /\ engine' = stork.engine
          /\ sent' = [ice |-> ice.message, fuel |-> fuel, stork |-> stork.message]
          /\ report' = IF stork.message = None THEN report ELSE stork.message
  BY DEF ProcessPublishers
<1>2. PICK stork \in IF "stork" \in due THEN StorkProcess(config, ice.engine)
                    ELSE {Outcome(ice.engine, None)} :
          /\ engine' = stork.engine
          /\ sent' = [ice |-> ice.message, fuel |-> fuel, stork |-> stork.message]
          /\ report' = IF stork.message = None THEN report ELSE stork.message
  BY <1>1
<1>3. RangesOk(config)
  BY RangesLoaded
<1>4. /\ EngineOk(config, ice.engine)
      /\ engine[Rpm].current # None => ice.engine = engine
      /\ ice.message # None => WithinRange(config, ice.engine, Rpm) /\ ice.message = Speed(ice.engine)
  BY <1>1, <1>3, IceOutcomes, OutcomeIs
<1>5. /\ EngineOk(config, stork.engine)
      /\ Steady(config) =>
           \/ stork.engine = ice.engine
           \/ /\ stork.message = Sent(stork.engine)
              /\ \A q \in Quantities : WithinRange(config, stork.engine, q)
      /\ stork.message # None =>
           /\ Steady(config) /\ stork.message = Sent(stork.engine)
           /\ \A q \in Quantities :
                /\ WithinRange(config, stork.engine, q)
                /\ ice.engine[q].current # None =>
                     Distance(stork.engine[q].current, ice.engine[q].current) <= StepMax[q]
  BY <1>2, <1>3, <1>4, StorkOutcomes, OutcomeIs
<1>6. fuel # None => fuel \in FuelProcess(config)
  BY <1>1
<1>7. RoundFrom(ice.engine)
  BY <1>2, <1>4, <1>5, <1>6 DEF RoundFrom
<1> QED
  BY <1>7

(* Values in their ranges can be reported.                                 *)
LEMMA SentIsReport ==
  ASSUME NEW c, NEW e, \A q \in Quantities : WithinRange(c, e, q)
  PROVE  Sent(e) # None
<1>1. \A q \in Quantities : e[q].current \in Int
  BY DEF WithinRange, Spans
<1>2. Sent(e) \in [speed : Int, load : Int]
  BY <1>1, RampAssumption DEF RampAssumption, Sent, Speed, Percentage, WriteUnsigned, Round, Quantities
<1> QED
  BY <1>2, RampAssumption DEF RampAssumption

(* A round changes what the publishers keep and send in step.              *)
LEMMA RoundStep ==
  ASSUME NEW ready, RoundFrom(ready), ReportOk, UNCHANGED <<doc, config>>
  PROVE  EngineOk(config, engine)' /\ SentOk' /\ ReportOk'
<1>1. EngineOk(config, engine)'
  BY DEF RoundFrom, EngineOk, RangeOf
<1>2. ReportOk'
  <2>1. CASE sent'.stork # None
    BY <2>1 DEF RoundFrom, ReportOk, Steady, WithinRange, Sent, Speed, Percentage, RangeOf
  <2>2. CASE sent'.stork = None /\ report # None
    <3>1. /\ Steady(config) /\ report = Sent(engine)
          /\ \A q \in Quantities : WithinRange(config, engine, q)
      BY <2>2 DEF ReportOk
    <3>2. engine[Rpm].current # None
      BY <3>1, RampAssumption DEF RampAssumption, WithinRange, Spans, Rpm, Quantities
    <3>3. engine' = engine
      <4>1. \/ engine' = engine
            \/ /\ sent'.stork = Sent(engine')
               /\ \A q \in Quantities : WithinRange(config, engine', q)
        BY <3>1, <3>2 DEF RoundFrom
      <4>2. (\A q \in Quantities : WithinRange(config, engine', q)) => Sent(engine') # None
        BY SentIsReport
      <4> QED
        BY <2>2, <4>1, <4>2
    <3>4. report' = report
      BY <2>2 DEF RoundFrom
    <3> QED
      BY <2>2, <3>1, <3>3, <3>4 DEF ReportOk, Steady, WithinRange, Sent, Speed, Percentage, RangeOf
  <2>3. CASE sent'.stork = None /\ report = None
    BY <2>3 DEF RoundFrom, ReportOk
  <2> QED
    BY <2>1, <2>2, <2>3
<1>3. SentOk'
  <2>1. sent'.ice # None => /\ ready[Rpm].current \in Int
                            /\ sent'.ice = WriteUnsigned(Round(ready[Rpm].current), SpeedField)
                            /\ RangeOf(config, Rpm) \in Spans
                            /\ ready[Rpm].current \in RangeOf(config, Rpm).low .. RangeOf(config, Rpm).high
    BY DEF RoundFrom, Speed, WithinRange, Spans, Rpm
  <2>2. sent'.stork \in {None, report'}
    BY DEF RoundFrom
  <2>3. sent'.fuel # None => sent'.fuel \in FuelProcess(config')
    BY DEF RoundFrom
  <2>4. RangeOf(config', Rpm) = RangeOf(config, Rpm)
    OBVIOUS
  <2> QED
    BY <2>1, <2>2, <2>3, <2>4 DEF SentOk
<1> QED
  BY <1>1, <1>2, <1>3

-----------------------------------------------------------------------------
(* What \div and % are, for the solver.                                    *)
LEMMA Division ==
  ASSUME NEW a \in Int, NEW b \in Nat \ {0}
  PROVE  /\ a \div b \in Int /\ a % b \in Int
         /\ b * (a \div b) <= a /\ a < b * (a \div b) + b
         /\ a % b = a - b * (a \div b)
OBVIOUS

(* Multiplication is monotone.                                             *)
LEMMA Products ==
  ASSUME NEW b \in Nat, NEW p \in Int, NEW q \in Int, p <= q
  PROVE  b * p \in Int /\ b * q \in Int /\ b * p <= b * q
OBVIOUS

(* Division is monotone.                                                   *)
LEMMA DivisionMonotone ==
  ASSUME NEW a \in Int, NEW c \in Int, NEW b \in Nat \ {0}, a <= c
  PROVE  a \div b <= c \div b
<1> DEFINE p == a \div b
           q == c \div b
<1>1. p \in Int /\ q \in Int /\ b * p <= a /\ c < b * q + b
  BY Division
<1> HIDE DEF p, q
<1>2. ASSUME q + 1 <= p PROVE FALSE
  <2>1. b * (q + 1) <= b * p
    BY <1>1, <1>2, Products
  <2>2. b * (q + 1) = b * q + b
    BY <1>1
  <2>3. b * q \in Int /\ b * p \in Int
    BY <1>1
  <2> QED
    BY <1>1, <2>1, <2>2, <2>3
<1>3. p <= q
  BY <1>1, <1>2
<1> QED
  BY <1>3 DEF p, q

(* So is division with rounding to the even neighbour.                     *)
LEMMA RoundDivMonotone ==
  ASSUME NEW a \in Int, NEW c \in Int, NEW b \in Nat \ {0}, a <= c
  PROVE  RoundDiv(a, b) \in Int /\ RoundDiv(c, b) \in Int /\ RoundDiv(a, b) <= RoundDiv(c, b)
<1> DEFINE d == 2 * b
           x == (2 * a) + b
           y == (2 * c) + b
           p == x \div d
           q == y \div d
<1>1. d \in Nat \ {0} /\ x \in Int /\ y \in Int /\ x <= y
  OBVIOUS
<1> HIDE DEF d, x, y
<1>2. p \in Int /\ q \in Int /\ p <= q
  BY <1>1, Division, DivisionMonotone
<1>3. p = q /\ y % d = 0 => x = y
  <2> SUFFICES ASSUME p = q, y % d = 0 PROVE x = y
    OBVIOUS
  <2>1. d * p <= x
    BY <1>1, Division
  <2>2. y = d * q
    BY <1>1, Division
  <2> QED
    BY <1>1, <1>2, <2>1, <2>2
<1>4. /\ RoundDiv(a, b) = IF x % d = 0 /\ p % 2 = 1 THEN p - 1 ELSE p
      /\ RoundDiv(c, b) = IF y % d = 0 /\ q % 2 = 1 THEN q - 1 ELSE q
  BY DEF RoundDiv, x, y, d
<1> HIDE DEF p, q
<1>5. CASE p < q
  BY <1>2, <1>4, <1>5
<1>6. CASE p = q /\ y % d = 0
  BY <1>2, <1>3, <1>4, <1>6
<1>7. CASE p = q /\ y % d # 0
  BY <1>2, <1>4, <1>7
<1> QED
  BY <1>2, <1>5, <1>6, <1>7

(* So is the percentage, which is one.                                     *)
LEMMA PercentMonotone ==
  ASSUME NEW a \in Int, NEW c \in Int, NEW b \in Nat \ {0}, a <= c
  PROVE  Percent(a, b) \in 0 .. 100 /\ Percent(c, b) \in 0 .. 100 /\ Percent(a, b) <= Percent(c, b)
<1> DEFINE r == RoundDiv(100 * a, b)
           s == RoundDiv(100 * c, b)
<1>1. r \in Int /\ s \in Int /\ r <= s
  BY RoundDivMonotone
<1> HIDE DEF r, s
<1>2. \A n \in Int : Max({0, Min({100, n})}) = IF n < 0 THEN 0 ELSE IF n < 100 THEN n ELSE 100
  <2> SUFFICES ASSUME NEW n \in Int
               PROVE  Max({0, Min({100, n})}) = IF n < 0 THEN 0 ELSE IF n < 100 THEN n ELSE 100
    OBVIOUS
  <2> DEFINE m == Min({100, n})
  <2>1. m = IF 100 <= n THEN 100 ELSE n
    BY MinMaxOfTwo
  <2> HIDE DEF m
  <2>2. m \in Int
    BY <2>1
  <2>3. Max({0, m}) = IF 0 <= m THEN m ELSE 0
    BY <2>2, MinMaxOfTwo
  <2> QED
    BY <2>1, <2>3 DEF m
<1>3. Percent(a, b) = Max({0, Min({100, r})}) /\ Percent(c, b) = Max({0, Min({100, s})})
  BY DEF Percent, r, s
<1>4. /\ Percent(a, b) = IF r < 0 THEN 0 ELSE IF r < 100 THEN r ELSE 100
      /\ Percent(c, b) = IF s < 0 THEN 0 ELSE IF s < 100 THEN s ELSE 100
  BY <1>1, <1>2, <1>3
<1> QED
  BY <1>1, <1>4

(* What a map holds is within it.                                          *)
LEMMA PartsWithin ==
  ASSUME NEW v, v.is = "map", NEW k \in DOMAIN v.at
  PROVE  v.at[k] \in Within(v)
<1>1. \A S : S \subseteq Layer(S)
  BY DEF Layer
<1>2. v.at[k] \in Layer({v})
  BY DEF Layer, Parts
<1> QED
  BY <1>1, <1>2 DEF Within

(* The loader lets no reversed range of volumes through.                   *)
LEMMA VolumeOrdered ==
  ASSUME doc \in Docs, Configured, Volume.is = "map", {"min", "max"} \subseteq DOMAIN Volume.at,
         NEW a \in Int, NEW b \in Int,
         ToFloat(Volume.at["min"]) = PyFloat(a), ToFloat(Volume.at["max"]) = PyFloat(b)
  PROVE  a <= b
<1> DEFINE tank == config.at["ice_fuel_tank"]
           field == "available_fuel_volume_cm3"
<1>1. tank.is = "map" /\ \A w \in Within(tank) : Ordered(w)
  BY DEF Configured, Accepted, ValidConfig, ValidSection
<1>2. Volume = tank.at[field] /\ field \in DOMAIN tank.at
  BY MergedField, ProgramAssumption DEF ProgramAssumption, Configured, Volume, Field
<1>3. Ordered(Volume)
  BY <1>1, <1>2, PartsWithin
<1> DEFINE low == AsFloat(Volume.at["min"])
           high == AsFloat(Volume.at["max"])
<1>4. Error \notin {low, high} /\ (NaN \in {low, high} \/ low.n <= high.n)
  BY <1>3 DEF Ordered
<1>5. low = PyFloat(a) /\ high = PyFloat(b)
  BY <1>4 DEF AsFloat
<1>6. low.n = a /\ high.n = b
  BY <1>5 DEF PyFloat
<1> QED
  BY <1>4, <1>5, <1>6, Tags

VolumeAsked == Asked("ice_fuel_tank", "available_fuel_volume_cm3")

(* The percentage is of the upper end of the range.                        *)
LEMMA FuelWithin ==
  ASSUME doc \in Docs, Configured, NEW p \in FuelProcess(config), p # None
  PROVE  /\ p \in 0 .. 100
         /\ Numeric(VolumeAsked) /\ Max(Halves(VolumeAsked)) > 0 =>
              p >= Percent(Min(Halves(VolumeAsked)), Max(Halves(VolumeAsked)))
<1> DEFINE v == Volume
           range == GetMinMax(v, Span(0, 0))
           full == IF v.is = "map" THEN EndOf(v, "max", 0)
                   ELSE IF v = PyNone THEN PyFloat(0) ELSE ToFloat(v)
           Level(volume) == IF ~IsNumber(full) \/ full.n <= 0 THEN 0
                            ELSE IF volume = Nan THEN None ELSE Percent(volume, full.n)
           m == Min(Halves(VolumeAsked))
           M == Max(Halves(VolumeAsked))
<1>1. PICK volume \in Uniform(range) : p = Level(volume)
  BY DEF FuelProcess, Volume, Field
<1>2. range # Error
  BY DEF FuelProcess, Volume, Field
<1>3. RangeByDefault("ice_fuel_tank", "available_fuel_volume_cm3", "float") /\ Span(0, 0) \in Spans
  BY ProgramAssumption DEF ProgramAssumption, Span, Spans
<1>4. /\ range \in {Error, NaN} \cup Spans
      /\ Numeric(VolumeAsked) => range \in Spans /\ range = Span(m, M) /\ m \in Int /\ M \in Int
  BY <1>3, RangeKept DEF Configured, Volume, VolumeAsked
<1>5. /\ volume = Nan \/ volume \in Int
      /\ Numeric(VolumeAsked) => volume \in m .. M
  <2>1. range \in Spans => volume \in range.low .. range.high /\ range.low \in Int /\ range.high \in Int
    BY <1>1, Tags DEF Uniform, Spans
  <2>2. range = NaN => volume = Nan
    BY <1>1 DEF Uniform
  <2> QED
    BY <1>2, <1>4, <2>1, <2>2 DEF Span
<1>6. /\ IsNumber(full) => full.n \in Int
      /\ Numeric(VolumeAsked) => IsNumber(full) /\ full.n = M
  <2>1. \/ v.is # "map" /\ VolumeAsked = {v} /\ IntIfNumber(v)
        \/ /\ v.is = "map" /\ {"min", "max"} \subseteq DOMAIN v.at
           /\ \A end \in {"min", "max"} : IntIfNumber(v.at[end])
           /\ Numeric(VolumeAsked) => \E a, b \in Int :
                /\ Halves(VolumeAsked) = {a, b}
                /\ ToFloat(v.at["min"]) = PyFloat(a) /\ ToFloat(v.at["max"]) = PyFloat(b)
    <3>1. "ice_fuel_tank" \in {"stork_engine_rpm", "ice_fuel_tank"} /\ "float" \in {"int", "float"}
      OBVIOUS
    <3> QED
      BY <1>3, <3>1, FieldKept DEF Configured, Volume, VolumeAsked
  <2>2. CASE v.is # "map" /\ VolumeAsked = {v} /\ IntIfNumber(v)
    <3>1. IsNumber(full) => full.n \in Int
      BY <2>2 DEF IntIfNumber, IsNumber, ToFloat, PyFloat, NaN, Error
    <3>2. Numeric(VolumeAsked) => IsNumber(v) /\ Halves(VolumeAsked) = {v.n} /\ v.n \in Int
      BY <2>2 DEF Numeric, Halves, IntIfNumber
    <3>3. Numeric(VolumeAsked) => M = v.n
      BY <3>2 DEF Max
    <3>4. Numeric(VolumeAsked) => full = PyFloat(v.n)
      BY <2>2, <3>2 DEF PyNone, IsNumber, ToFloat
    <3> QED
      BY <3>1, <3>3, <3>4 DEF PyFloat, IsNumber
  <2>3. ASSUME v.is = "map", {"min", "max"} \subseteq DOMAIN v.at,
               \A end \in {"min", "max"} : IntIfNumber(v.at[end]),
               Numeric(VolumeAsked) => \E a, b \in Int :
                /\ Halves(VolumeAsked) = {a, b}
                /\ ToFloat(v.at["min"]) = PyFloat(a) /\ ToFloat(v.at["max"]) = PyFloat(b)
        PROVE  /\ IsNumber(full) => full.n \in Int
               /\ Numeric(VolumeAsked) => IsNumber(full) /\ full.n = M
    <3>1. full = ToFloat(v.at["max"])
      BY <2>3 DEF EndOf
    <3>2. IsNumber(full) => full.n \in Int
      BY <2>3, <3>1 DEF IntIfNumber, IsNumber, ToFloat, PyFloat, NaN, Error
    <3>3. ASSUME Numeric(VolumeAsked) PROVE IsNumber(full) /\ full.n = M
      <4>1. PICK a \in Int, b \in Int :
              /\ Halves(VolumeAsked) = {a, b}
              /\ ToFloat(v.at["min"]) = PyFloat(a) /\ ToFloat(v.at["max"]) = PyFloat(b)
        BY <2>3, <3>3
      <4>2. a <= b
        BY <2>3, <4>1, VolumeOrdered
      <4>3. M = b
        BY <4>1, <4>2, MinMaxOfTwo
      <4> QED
        BY <3>1, <4>1, <4>3 DEF PyFloat, IsNumber
    <3> QED
      BY <3>2, <3>3
  <2> QED
    BY <2>1, <2>2, <2>3
<1> HIDE DEF full, range, m, M
<1>7. CASE ~IsNumber(full) \/ full.n <= 0
  <2>1. p = 0
    BY <1>1, <1>7
  <2>2. ~(Numeric(VolumeAsked) /\ M > 0)
    BY <1>4, <1>6, <1>7
  <2> QED
    BY <2>1, <2>2 DEF M
<1>8. CASE ~(~IsNumber(full) \/ full.n <= 0)
  <2>1. full.n \in Nat \ {0}
    BY <1>6, <1>8
  <2>2. p = Percent(volume, full.n) /\ volume \in Int
    BY <1>1, <1>5, <1>8
  <2>3. p \in 0 .. 100
    <3>1. volume <= volume
      BY <2>2
    <3>2. Percent(volume, full.n) \in 0 .. 100
      BY <2>1, <2>2, <3>1, PercentMonotone
    <3> QED
      BY <2>2, <3>2
  <2>4. ASSUME Numeric(VolumeAsked) PROVE p >= Percent(m, M)
    <3>1. m \in Int /\ m <= volume /\ full.n = M
      BY <1>4, <1>5, <1>6, <2>4
    <3>2. Percent(m, full.n) <= Percent(volume, full.n) /\ Percent(m, full.n) \in 0 .. 100
      BY <2>1, <2>2, <3>1, PercentMonotone
    <3> QED
      BY <2>2, <2>3, <3>1, <3>2
  <2> QED
    BY <2>3, <2>4 DEF m, M
<1> QED
  BY <1>7, <1>8

-----------------------------------------------------------------------------
(* A step that sends nothing keeps the invariant.                          *)
LEMMA QuietStep ==
  ASSUME EngineInv, Quiet, UNCHANGED <<doc, config>>,
         phase' \in {phase, "ended"} \/ (phase \notin {"loading", "ended"} /\ phase' # "loading")
  PROVE  EngineInv'
<1> USE DEF EngineInv, Quiet
<1>1. SentOk'
  BY DEF SentOk, Nothing
<1>2. ReportOk'
  BY DEF ReportOk, Steady, WithinRange, RangeOf, Sent, Speed, Percentage
<1>3. EInit => EInit'
  BY DEF EInit
<1>4. Configured' <=> Configured
  BY DEF Configured
<1>5. EngineOk(config, engine) => EngineOk(config, engine)'
  BY DEF EngineOk, RangeOf
<1> QED
  BY <1>1, <1>2, <1>3, <1>4, <1>5

(* So does loading, after which the file is accepted or the process ends.  *)
LEMMA LoadStep ==
  ASSUME EngineInv, LoadConfig(Accepted(doc)), Quiet, UNCHANGED doc,
         config' = IF phase = "loading" /\ Accepted(doc) THEN Loaded(doc) ELSE config
  PROVE  EngineInv'
<1> USE DEF EngineInv
<1>1. EInit /\ EInit'
  BY DEF LoadConfig, EInit, Quiet
<1>2. SentOk' /\ ReportOk'
  BY <1>1 DEF EInit, SentOk, ReportOk, Nothing
<1>3. EngineOk(config, engine)'
  BY <1>1 DEF EInit, EngineOk, SignalOk, SignalOf
<1>4. phase' \in {"building", "ended"} /\ (phase' = "building" => Configured')
  BY DEF LoadConfig, Goto, Configured
<1> QED
  BY <1>1, <1>2, <1>3, <1>4

(* Every step does.                                                        *)
LEMMA EngineStep == CInv /\ EngineInv /\ [PNext]_pvars => EngineInv'
<1> SUFFICES ASSUME CInv, EngineInv, [PNext]_pvars PROVE EngineInv'
  OBVIOUS
<1>1. CASE Main
  <2>1. CASE LoadConfig(Accepted(doc))
    BY <1>1, <2>1, LoadStep DEF Main
  <2>2. CASE ~LoadConfig(Accepted(doc))
    <3>1. phase \notin {"loading", "ended"} /\ phase' # "loading"
      BY <1>1, <2>2 DEF Main, MainStep, BuildNode, Register, Bind, OpenEndpoint, StopServing,
         PublisherEnded, Withdraw, Goto
    <3> QED
      BY <1>1, <3>1, QuietStep DEF Main
  <2> QED
    BY <2>1, <2>2
<1>2. CASE Cancellation
  BY <1>2, QuietStep DEF Cancellation, LoopEnds
<1>3. CASE Publish
  <2>1. phase \notin {"loading", "ended"} /\ phase' = phase
    BY <1>3 DEF Publish, LoopTurns, CInv, Cleanup, Starting
  <2>2. Configured /\ EngineOk(config, engine) /\ ReportOk /\ doc \in Docs
    BY <2>1 DEF EngineInv
  <2>3. PICK due \in SUBSET {"ice", "fuel", "stork"} : ProcessPublishers(config, due)
    BY <1>3 DEF Publish
  <2>4. UNCHANGED <<doc, config>>
    BY <1>3 DEF Publish
  <2>5. EngineOk(config, engine)' /\ SentOk' /\ ReportOk'
    BY <2>2, <2>3, <2>4, RoundOutcome, RoundStep
  <2>6. Configured'
    BY <2>2, <2>4 DEF Configured
  <2> QED
    BY <2>1, <2>2, <2>4, <2>5, <2>6 DEF EngineInv
<1>4. CASE Failure
  BY <1>4, QuietStep DEF Failure, LoopFails
<1>5. CASE Signal
  BY <1>5, QuietStep DEF Signal, Interrupt, Terminate, Goto
<1>6. CASE UNCHANGED pvars
  <2> USE <1>6 DEF pvars, lvars, evars, EngineInv
  <2>1. SentOk' /\ ReportOk'
    BY DEF SentOk, ReportOk, Steady, WithinRange, RangeOf, Sent, Speed, Percentage
  <2>2. EInit => EInit'
    BY DEF EInit
  <2>3. Configured' <=> Configured
    BY DEF Configured
  <2>4. EngineOk(config, engine) => EngineOk(config, engine)'
    BY DEF EngineOk, RangeOf
  <2> QED
    BY <2>1, <2>2, <2>3, <2>4
<1> QED
  BY <1>1, <1>2, <1>3, <1>4, <1>5, <1>6 DEF PNext

(* The values of the engine suit the loaded configuration in every state,  *)
(* and what was sent comes from them (stork_engine_rpm.py:69-146,          *)
(* ice.py:63-171, fuel_tank.py:67-110).                                    *)
THEOREM EngineInvariant == PSpec => []EngineInv
<1>1. PInit => EngineInv
  <2> SUFFICES ASSUME PInit PROVE EngineInv
    OBVIOUS
  <2> USE DEF PInit, LInit
  <2>1. SentOk /\ ReportOk
    BY NoReportYet
  <2>2. EngineOk(config, engine)
    BY EngineAtRest
  <2> QED
    BY <2>1, <2>2 DEF EngineInv
<1> QED
  BY <1>1, EngineStep, CleanupInvariant, PTL DEF PSpec

-----------------------------------------------------------------------------
Unit(q) == IF q = "engine_speed_rpm" THEN SpeedField ELSE PercentField

(* Rounding stays within the whole units around.                           *)
LEMMA Rounding ==
  ASSUME NEW n \in Int, NEW low \in Int, NEW high \in Int,
         2 * low <= n, n <= 2 * high
  PROVE  Round(n) \in low .. high
BY DEF Round

(* A number that fits its field is sent as it is.                          *)
LEMMA Unwrapped ==
  ASSUME NEW n \in Nat, NEW field \in Nat \ {0}, n < field
  PROVE  WriteUnsigned(n, field) = n
BY DEF WriteUnsigned

(* Whatever is rounded and sent fits its field.                            *)
LEMMA Fields ==
  ASSUME NEW n \in Int, NEW field \in Nat \ {0}
  PROVE  WriteUnsigned(Round(n), field) \in 0 .. field - 1
<1>1. Round(n) \in Int
  BY DEF Round
<1> DEFINE r == Round(n)
<1> HIDE DEF r
<1>2. r % field \in 0 .. field - 1
  BY <1>1 DEF r
<1> QED
  BY <1>2 DEF WriteUnsigned, r

(* A value in the range of the configuration is reported within what the   *)
(* file asks for.                                                          *)
LEMMA ReportedWithin ==
  ASSUME doc \in Docs, Configured, NEW q \in Quantities, NEW n \in Int,
         n \in RangeOf(config, q).low .. RangeOf(config, q).high,
         NEW field \in Nat \ {0}, Sensible(Asked("stork_engine_rpm", q), field)
  PROVE  /\ Covers(Asked("stork_engine_rpm", q), WriteUnsigned(Round(n), field))
         /\ WriteUnsigned(Round(n), field) = Round(n)
<1> DEFINE ends == Asked("stork_engine_rpm", q)
           low == Below(Min(Halves(ends)))
           high == Above(Max(Halves(ends)))
           r == RangeOf(config, q)
<1>1. RangeByDefault("stork_engine_rpm", q, "int") /\ Fallback[q] \in Spans
  BY ProgramAssumption, RampAssumption DEF ProgramAssumption, RampAssumption, Spans
<1>2. Numeric(ends) /\ low >= 0 /\ high < field
  BY DEF Sensible, Fits, Covering, Span
<1>3. /\ r \in Spans
      /\ Min(Halves(ends)) \in Int /\ Max(Halves(ends)) \in Int
      /\ 2 * low <= r.low /\ r.high <= 2 * high
  BY <1>1, <1>2, RangeKept DEF Configured, RangeOf, Field
<1>4. low \in Int /\ high \in Int
  BY <1>3 DEF Below, Above
<1> HIDE DEF low, high, r
<1>5. 2 * low <= n /\ n <= 2 * high
  BY <1>3, <1>4 DEF Spans, r
<1>6. Round(n) \in low .. high
  BY <1>4, <1>5, Rounding
<1>7. WriteUnsigned(Round(n), field) = Round(n)
  <2>1. Round(n) \in Nat /\ Round(n) < field
    BY <1>2, <1>4, <1>6
  <2> QED
    BY <2>1, Unwrapped
<1> QED
  BY <1>6, <1>7 DEF Covers, Covering, Span, low, high

(* A value within its range is whole halves.                               *)
LEMMA CurrentInt ==
  ASSUME NEW c, NEW e, NEW q, WithinRange(c, e, q)
  PROVE  /\ e[q].current \in Int
         /\ e[q].current \in RangeOf(c, q).low .. RangeOf(c, q).high
BY DEF WithinRange, Spans

(* A report consists of the values as they are now.                        *)
LEMMA ReportFields ==
  ASSUME EngineInv, report # None
  PROVE  /\ report = [speed |-> WriteUnsigned(Round(engine["engine_speed_rpm"].current), SpeedField),
                      load |-> WriteUnsigned(Round(engine["engine_load_percent"].current), PercentField)]
         /\ \A q \in Quantities : /\ engine[q].current \in Int
                                 /\ engine[q].current \in RangeOf(config, q).low .. RangeOf(config, q).high
BY CurrentInt DEF EngineInv, ReportOk, Sent, Speed, Percentage

(* Without a configuration nothing has been sent.                          *)
LEMMA AtRest ==
  ASSUME EngineInv, ~Configured
  PROVE  report = None /\ sent = Nothing
BY DEF EngineInv, EInit

(* Fields keep their types, and what is sent fits its field on the wire    *)
(* (bit_packing.py:12-23), whatever the file says.                         *)
THEOREM ProgramTypeOK == PSpec => []TypeOK
<1>1. CInv /\ EngineInv => TypeOK
  <2> SUFFICES ASSUME CInv, EngineInv PROVE TypeOK
    OBVIOUS
  <2> USE RampAssumption DEF RampAssumption
  <2>1. doc \in Docs /\ config \in {PyNone, Loaded(doc)} /\ LTypeOK
    BY DEF CInv, EngineInv
  <2>2. engine \in [Quantities -> SignalOf(Int \cup {None, Nan})]
    <3>1. CASE Configured
      BY <3>1 DEF EngineInv, EngineOk
    <3>2. CASE ~Configured
      BY <3>2 DEF EngineInv, EInit, SignalOf
    <3> QED
      BY <3>1, <3>2
  <2>3. report \in Messages
    <3>1. CASE report = None
      BY <3>1 DEF Messages
    <3>2. CASE report # None
      <4>1. \A q \in Quantities : engine[q].current \in Int
        BY <3>2, ReportFields
      <4>2. /\ WriteUnsigned(Round(engine["engine_speed_rpm"].current), SpeedField) \in 0 .. SpeedField - 1
            /\ WriteUnsigned(Round(engine["engine_load_percent"].current), PercentField) \in 0 .. PercentField - 1
        BY <4>1, Fields DEF Quantities
      <4> QED
        BY <3>2, <4>2, ReportFields DEF Messages
    <3> QED
      BY <3>1, <3>2
  <2>4. sent.ice \in {None} \cup 0 .. SpeedField - 1
    BY Fields DEF EngineInv, SentOk
  <2>5. sent.fuel \in {None} \cup 0 .. 100
    <3>1. CASE Configured /\ sent.fuel # None
      <4>1. doc \in Docs /\ sent.fuel \in FuelProcess(config)
        BY <3>1 DEF EngineInv, SentOk
      <4> QED
        BY <3>1, <4>1, FuelWithin
    <3>2. CASE ~Configured
      BY <3>2, AtRest DEF Nothing
    <3> QED
      BY <3>1, <3>2
  <2>6. sent.stork \in Messages
    BY <2>3 DEF EngineInv, SentOk, Messages
  <2> QED
    BY <2>1, <2>2, <2>3, <2>4, <2>5, <2>6 DEF TypeOK
<1> QED
  BY <1>1, CleanupInvariant, EngineInvariant, PTL

(* For every file, ramp and field width: the speed and the load reported,  *)
(* ICE's speed too, lie in what the stork_engine_rpm section asks for, and *)
(* the fuel level is not below what ice_fuel_tank asks for.  Nothing is    *)
(* said of the ice_reciprocating section (config_loader.py:100,            *)
(* stork_engine_rpm.py:69, ice.py:63-73, fuel_tank.py:83).                 *)
THEOREM WithinAsked == PSpec => []ReportsWithinAsked
<1>1. EngineInv => ReportsWithinAsked
  <2> SUFFICES ASSUME EngineInv PROVE ReportsWithinAsked
    OBVIOUS
  <2> USE RampAssumption DEF RampAssumption
  <2>1. CASE ~Configured
    <3>1. report = None /\ sent = Nothing
      BY <2>1, AtRest
    <3> QED
      BY <3>1 DEF ReportsWithinAsked, Reported, Nothing
  <2>2. CASE Configured
    <3> DEFINE speed == Asked("stork_engine_rpm", "engine_speed_rpm")
               load == Asked("stork_engine_rpm", "engine_load_percent")
    <3>1. doc \in Docs /\ Reported \subseteq {report} \ {None}
      BY DEF EngineInv, SentOk, Reported
    <3>2. report # None /\ Sensible(speed, SpeedField) => Covers(speed, report.speed)
      BY <2>2, <3>1, ReportFields, ReportedWithin DEF Quantities
    <3>3. report # None /\ Sensible(load, PercentField) => Covers(load, report.load)
      BY <2>2, <3>1, ReportFields, ReportedWithin DEF Quantities
    <3>4. sent.ice # None /\ Sensible(speed, SpeedField) => Covers(speed, sent.ice)
      BY <2>2, <3>1, ReportedWithin DEF EngineInv, SentOk, Quantities, Rpm
    <3>5. sent.fuel # None /\ Numeric(VolumeAsked) /\ Max(Halves(VolumeAsked)) > 0 =>
            sent.fuel >= Percent(Min(Halves(VolumeAsked)), Max(Halves(VolumeAsked)))
      BY <2>2, <3>1, FuelWithin DEF EngineInv, SentOk
    <3> QED
      BY <3>1, <3>2, <3>3, <3>4, <3>5 DEF ReportsWithinAsked, VolumeAsked
  <2> QED
    BY <2>1, <2>2
<1> QED
  BY <1>1, EngineInvariant, PTL

-----------------------------------------------------------------------------
(* Half a unit more may be a unit more when rounded.                       *)
LEMMA RoundedStep ==
  ASSUME NEW a \in Int, NEW b \in Int, NEW step \in Nat, Distance(a, b) <= step
  PROVE  /\ Round(a) \in Int /\ Round(b) \in Int
         /\ Distance(Round(a), Round(b)) <= (step \div 2) + 1
         /\ Round(a) - Round(b) \in -((step \div 2) + 1) .. (step \div 2) + 1
<1>1. a - b <= step /\ b - a <= step
  BY DistanceOf
<1>2. Round(a) \in Int /\ Round(b) \in Int
  BY DEF Round
<1>3. /\ Round(a) - Round(b) <= (step \div 2) + 1
      /\ Round(b) - Round(a) <= (step \div 2) + 1
  BY <1>1 DEF Round
<1> DEFINE x == Round(a)
           y == Round(b)
           u == (step \div 2) + 1
<1>4. u \in Int
  OBVIOUS
<1> HIDE DEF x, y, u
<1>5. x \in Int /\ y \in Int /\ x - y <= u /\ y - x <= u
  BY <1>2, <1>3 DEF x, y, u
<1>6. Distance(x, y) <= u
  BY <1>5, DistanceOf
<1>7. x - y \in -u .. u
  BY <1>4, <1>5
<1> QED
  BY <1>2, <1>6, <1>7 DEF x, y, u

(* Between two values of the ramp, at most a step apart.                   *)
LEMMA StepReported ==
  ASSUME doc \in Docs, Configured, NEW q \in Quantities, NEW field \in Nat \ {0},
         Sensible(Asked("stork_engine_rpm", q), field),
         NEW e, NEW f, WithinRange(config, e, q), WithinRange(config, f, q),
         Distance(f[q].current, e[q].current) <= StepMax[q]
  PROVE  LET old == WriteUnsigned(Round(e[q].current), field)
             new == WriteUnsigned(Round(f[q].current), field) IN
         /\ Distance(new, old) <= UnitStep(q)
         /\ new - old \in -UnitStep(q) .. UnitStep(q)
<1>1. /\ e[q].current \in Int /\ e[q].current \in RangeOf(config, q).low .. RangeOf(config, q).high
      /\ f[q].current \in Int /\ f[q].current \in RangeOf(config, q).low .. RangeOf(config, q).high
  BY CurrentInt
<1>2. /\ WriteUnsigned(Round(e[q].current), field) = Round(e[q].current)
      /\ WriteUnsigned(Round(f[q].current), field) = Round(f[q].current)
  BY <1>1, ReportedWithin
<1>3. StepMax[q] \in Nat
  BY RampAssumption DEF RampAssumption
<1> QED
  BY <1>1, <1>2, <1>3, RoundedStep DEF UnitStep

(* Distance has no direction.                                              *)
LEMMA DistanceSymmetric ==
  ASSUME NEW a \in Int, NEW b \in Int
  PROVE  Distance(a, b) = Distance(b, a)
BY DistanceOf

(* A step sends nothing, or is a round of the publishers.                  *)
LEMMA QuietOr ==
  ASSUME [PNext]_pvars
  PROVE  \/ sent' = Nothing /\ report' = report /\ doc' = doc
         \/ Publish
         \/ UNCHANGED pvars
BY DEF PNext, Main, Cancellation, Failure, Signal, Quiet

(* Rounds are of a loaded configuration.                                   *)
LEMMA PublishRound ==
  ASSUME CInv, EngineInv, Publish
  PROVE  /\ Configured /\ doc \in Docs /\ ReportOk /\ UNCHANGED <<doc, config>>
         /\ \E ready : RoundFrom(ready)
<1>1. phase \notin {"loading", "ended"}
  BY DEF Publish, LoopTurns, CInv, Cleanup, Starting
<1>2. Configured /\ doc \in Docs /\ EngineOk(config, engine) /\ ReportOk
  BY <1>1 DEF EngineInv
<1> QED
  BY <1>2, RoundOutcome DEF Publish

(* Once there is a report, ICE leaves the values alone.                    *)
LEMMA Reporting ==
  ASSUME ReportOk, report # None, NEW ready, RoundFrom(ready)
  PROVE  ready = engine
BY RampAssumption DEF RampAssumption, ReportOk, RoundFrom, WithinRange, Spans, Rpm, Quantities

(* Every step keeps ICE and the RPM publisher in agreement.                *)
LEMMA AgreementStep ==
  CInv /\ EngineInv /\ [PNext]_pvars =>
         [sent'.ice # None =>
           IF report # None THEN sent'.ice = report.speed
           ELSE sent'.stork # None /\ Sensible(Asked("stork_engine_rpm", "engine_speed_rpm"), SpeedField)
                  => Distance(sent'.ice, sent'.stork.speed) <= UnitStep("engine_speed_rpm")]_pvars
<1> SUFFICES ASSUME CInv, EngineInv, [PNext]_pvars,
                    sent'.ice # None, ~UNCHANGED pvars
             PROVE  IF report # None THEN sent'.ice = report.speed
                    ELSE sent'.stork # None /\ Sensible(Asked("stork_engine_rpm", "engine_speed_rpm"), SpeedField)
                           => Distance(sent'.ice, sent'.stork.speed) <= UnitStep("engine_speed_rpm")
  OBVIOUS
<1>1. CASE sent' = Nothing
  BY <1>1 DEF Nothing
<1>3. CASE Publish /\ sent'.ice # None
  <2>1. Configured /\ doc \in Docs /\ ReportOk
    BY <1>3, PublishRound
  <2>2. PICK ready : RoundFrom(ready)
    BY <1>3, PublishRound
  <2>3. WithinRange(config, ready, Rpm) /\ sent'.ice = Speed(ready)
    BY <1>3, <2>2 DEF RoundFrom
  <2>4. CASE report # None
    <3>1. ready = engine
      BY <2>1, <2>2, <2>4, Reporting
    <3>2. report = Sent(engine)
      BY <2>1, <2>4 DEF ReportOk
    <3> QED
      BY <2>3, <2>4, <3>1, <3>2 DEF Sent
  <2>5. ASSUME report = None, sent'.stork # None,
               Sensible(Asked("stork_engine_rpm", "engine_speed_rpm"), SpeedField)
        PROVE  Distance(sent'.ice, sent'.stork.speed) <= UnitStep("engine_speed_rpm")
    <3>1. /\ sent'.stork = Sent(engine')
          /\ WithinRange(config, engine', Rpm)
          /\ ready[Rpm].current # None => Distance(engine'[Rpm].current, ready[Rpm].current) <= StepMax[Rpm]
      BY <2>2, <2>5 DEF RoundFrom, Rpm, Quantities
    <3>2. ready[Rpm].current \in Int /\ engine'[Rpm].current \in Int
      BY <2>3, <3>1, CurrentInt
    <3>3. ready[Rpm].current # None
      BY <3>2, RampAssumption DEF RampAssumption
    <3>4. Distance(Speed(engine'), Speed(ready)) <= UnitStep(Rpm)
      BY <2>1, <2>3, <2>5, <3>1, <3>3, StepReported, RampAssumption
         DEF Rpm, Quantities, Speed, RampAssumption
    <3>5. Speed(engine') \in Int /\ Speed(ready) \in Int
      BY <3>2, Fields, RampAssumption DEF Speed, RampAssumption, Rpm
    <3>6. Distance(Speed(ready), Speed(engine')) <= UnitStep(Rpm)
      BY <3>4, <3>5, DistanceSymmetric
    <3> QED
      BY <2>3, <3>1, <3>6 DEF Sent, Rpm
  <2> QED
    BY <2>4, <2>5
<1> QED
  BY <1>1, <1>3, QuietOr

(* ICE reports the speed of the last report of the RPM publisher, or one   *)
(* step before the first (ice.py:63-74, node.py:44-48).                    *)
THEOREM ProgramIceAgrees == PSpec => IceAgrees
BY AgreementStep, CleanupInvariant, EngineInvariant, PTL DEF PSpec, IceAgrees

-----------------------------------------------------------------------------
(* What the file says of a range is whole halves.                          *)
LEMMA AskedHalves ==
  ASSUME NEW section, NEW field, NEW type, RangeByDefault(section, field, type), doc \in Docs,
         Numeric(Asked(section, field))
  PROVE  /\ Below(Min(Halves(Asked(section, field)))) \in Int
         /\ Above(Max(Halves(Asked(section, field)))) \in Int
<1> DEFINE f == Field(doc, section, field)
           d == Field(Default, section, field)
           ends == Asked(section, field)
<1>1. \E l, h \in Int : Halves(ends) = {l, h}
  <2>1. CASE FileSays(section, field) /\ f.is # "map"
    <3>1. ends = {f}
      BY <2>1 DEF Asked, Field
    <3>2. f.n \in Int
      BY <2>1, <3>1, WithinDoc DEF Numeric
    <3> QED
      BY <3>1, <3>2 DEF Halves
  <2>2. CASE ~(FileSays(section, field) /\ f.is # "map")
    <3> DEFINE asked(end) == AskedEnd(section, field, end)
    <3>1. ends = {asked("min"), asked("max")}
      BY <2>2 DEF Asked, Field
    <3>2. \A end \in {"min", "max"} : asked(end).n \in Int
      <4> SUFFICES ASSUME NEW end \in {"min", "max"} PROVE asked(end).n \in Int
        OBVIOUS
      <4>1. CASE FileSays(section, field) /\ end \in DOMAIN f.at
        <5>1. asked(end) = f.at[end] /\ IsNumber(asked(end))
          BY <3>1, <4>1 DEF AskedEnd, Field, Numeric
        <5> QED
          BY <2>2, <4>1, <5>1, WithinDoc
      <4>2. CASE ~(FileSays(section, field) /\ end \in DOMAIN f.at)
        BY <4>2 DEF AskedEnd, Field, RangeByDefault
      <4> QED
        BY <4>1, <4>2
    <3> QED
      BY <3>1, <3>2 DEF Halves
  <2> QED
    BY <2>1, <2>2
<1>2. PICK l \in Int, h \in Int : Halves(ends) = {l, h}
  BY <1>1
<1>3. Min({l, h}) \in Int /\ Max({l, h}) \in Int
  BY MinMaxOfTwo
<1> DEFINE m == Min({l, h})
           M == Max({l, h})
<1>4. m \in Int /\ M \in Int
  BY <1>3
<1> HIDE DEF m, M
<1>5. Below(m) \in Int /\ Above(M) \in Int
  BY <1>4 DEF Below, Above
<1> QED
  BY <1>2, <1>5 DEF m, M

(* What a reader is promised is a range.                                   *)
LEMMA PromisedRange ==
  ASSUME doc \in Docs, NEW q \in Quantities, NEW size
  PROVE  Promised(q, size) \in [low : Int, high : Int]
<1>1. RangeByDefault("stork_engine_rpm", q, "int")
  BY ProgramAssumption DEF ProgramAssumption
<1>2. Sensible(Asked("stork_engine_rpm", q), size) =>
        Covering(Halves(Asked("stork_engine_rpm", q))) \in [low : Int, high : Int]
  BY <1>1, AskedHalves DEF Sensible, Covering, Span
<1> QED
  BY <1>2 DEF Promised, Span

(* What a reader sees of a quantity changes by a report.                   *)
Seen(q, r) == IF q = "engine_speed_rpm" THEN r.speed ELSE r.load

(* A new report is a step of both signals: within what the file asks for,  *)
(* and a step away from the last.                                          *)
LEMMA SignalStep ==
  ASSUME CInv, EngineInv, [PNext]_pvars, NEW q \in Quantities,
         Sensible(Asked("stork_engine_rpm", q), Unit(q)), report' # report
  PROVE  /\ report' # None
         /\ Covers(Asked("stork_engine_rpm", q), Seen(q, report'))
         /\ report # None => Seen(q, report') - Seen(q, report) \in -UnitStep(q) .. UnitStep(q)
<1>1. Publish
  BY QuietOr DEF pvars, evars
<1>2. /\ Configured /\ doc \in Docs /\ ReportOk
  BY <1>1, PublishRound
<1>3. PICK ready : RoundFrom(ready)
  BY <1>1, PublishRound
<1>4. /\ report' = Sent(engine') /\ report' # None
      /\ WithinRange(config, engine', q)
      /\ ready[q].current # None => Distance(engine'[q].current, ready[q].current) <= StepMax[q]
  BY <1>3 DEF RoundFrom
<1>5. Seen(q, report') = WriteUnsigned(Round(engine'[q].current), Unit(q))
  BY <1>4 DEF Seen, Sent, Speed, Percentage, Unit, Quantities
<1>6. Unit(q) \in Nat \ {0}
  BY RampAssumption DEF RampAssumption, Unit
<1>7. Covers(Asked("stork_engine_rpm", q), Seen(q, report'))
  <2>1. engine'[q].current \in Int /\ engine'[q].current \in RangeOf(config, q).low .. RangeOf(config, q).high
    BY <1>4, CurrentInt
  <2> QED
    BY <1>2, <1>5, <1>6, <2>1, ReportedWithin
<1>8. ASSUME report # None
      PROVE  Seen(q, report') - Seen(q, report) \in -UnitStep(q) .. UnitStep(q)
  <2>1. ready = engine
    BY <1>2, <1>3, <1>8, Reporting
  <2>2. WithinRange(config, engine, q) /\ report = Sent(engine)
    BY <1>2, <1>8 DEF ReportOk
  <2>3. engine[q].current # None
    BY <2>2, CurrentInt, RampAssumption DEF RampAssumption
  <2>4. Distance(engine'[q].current, engine[q].current) <= StepMax[q]
    BY <1>4, <2>1, <2>3
  <2>5. Seen(q, report) = WriteUnsigned(Round(engine[q].current), Unit(q))
    BY <2>2 DEF Seen, Sent, Speed, Percentage, Unit, Quantities
  <2> QED
    BY <1>2, <1>4, <1>5, <1>6, <2>2, <2>4, <2>5, StepReported
<1> QED
  BY <1>4, <1>7, <1>8

(* For the speed, a step of the process is a report or a stutter.          *)
LEMMA SpeedStep ==
  CInv /\ EngineInv /\ [PNext]_pvars => [SmoothSpeed!Report]_SmoothSpeed!vars
<1> SUFFICES ASSUME CInv, EngineInv, [PNext]_pvars
             PROVE  [SmoothSpeed!Report]_SmoothSpeed!vars
  OBVIOUS
<1> DEFINE q == "engine_speed_rpm"
           ends == Asked("stork_engine_rpm", q)
<1>1. doc' = doc
  BY DEF PNext, Main, Cancellation, Publish, Failure, Signal, pvars
<1>2. Promised(q, SpeedField)' = Promised(q, SpeedField)
  BY <1>1 DEF Promised, Asked, AskedEnd, FileSays
<1>3. Sensible(ends, SpeedField)' <=> Sensible(ends, SpeedField)
  BY <1>1 DEF Asked, AskedEnd, FileSays
<1>4. CASE ~Sensible(ends, SpeedField) \/ report' = report
  BY <1>2, <1>3, <1>4 DEF SmoothSpeed!vars, Shown
<1>5. CASE Sensible(ends, SpeedField) /\ report' # report
  <2>1. /\ report' # None
        /\ Covers(ends, report'.speed)
        /\ report # None => report'.speed - report.speed \in -UnitStep(q) .. UnitStep(q)
    BY <1>5, SignalStep DEF Unit, Seen, Quantities
  <2>2. Promised(q, SpeedField) = Covering(Halves(ends))
    BY <1>5 DEF Promised
  <2> QED
    BY <1>2, <1>3, <1>5, <2>1, <2>2 DEF SmoothSpeed!Report, SmoothSpeed!Within, Shown, Covers
<1> QED
  BY <1>4, <1>5
(* And for the load.                                                       *)
LEMMA LoadSignalStep ==
  CInv /\ EngineInv /\ [PNext]_pvars => [SmoothLoad!Report]_SmoothLoad!vars
<1> SUFFICES ASSUME CInv, EngineInv, [PNext]_pvars
             PROVE  [SmoothLoad!Report]_SmoothLoad!vars
  OBVIOUS
<1> DEFINE q == "engine_load_percent"
           ends == Asked("stork_engine_rpm", q)
<1>1. doc' = doc
  BY DEF PNext, Main, Cancellation, Publish, Failure, Signal, pvars
<1>2. Promised(q, PercentField)' = Promised(q, PercentField)
  BY <1>1 DEF Promised, Asked, AskedEnd, FileSays
<1>3. Sensible(ends, PercentField)' <=> Sensible(ends, PercentField)
  BY <1>1 DEF Asked, AskedEnd, FileSays
<1>4. CASE ~Sensible(ends, PercentField) \/ report' = report
  BY <1>2, <1>3, <1>4 DEF SmoothLoad!vars, Shown
<1>5. CASE Sensible(ends, PercentField) /\ report' # report
  <2>1. /\ report' # None
        /\ Covers(ends, report'.load)
        /\ report # None => report'.load - report.load \in -UnitStep(q) .. UnitStep(q)
    BY <1>5, SignalStep DEF Unit, Seen, Quantities
  <2>2. Promised(q, PercentField) = Covering(Halves(ends))
    BY <1>5 DEF Promised
  <2> QED
    BY <1>2, <1>3, <1>5, <2>1, <2>2 DEF SmoothLoad!Report, SmoothLoad!Within, Shown, Covers
<1> QED
  BY <1>4, <1>5

(* Speed and load as reported implement a smooth signal in the range that  *)
(* the file asks for (stork_engine_rpm.py:69-98).                          *)
THEOREM ProgramSmooth == PSpec => Smooth
<1>1. PInit => SmoothSpeed!Init /\ SmoothLoad!Init
  BY PromisedRange DEF PInit, EInit, SmoothSpeed!Init, SmoothLoad!Init, Shown, Quantities
<1> QED
  BY <1>1, SpeedStep, LoadSignalStep, CleanupInvariant, EngineInvariant, PTL
  DEF PSpec, Smooth, SmoothSpeed!Spec, SmoothLoad!Spec
=============================================================================

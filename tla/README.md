# Verification of the Cannelloni DroneCAN mock server

TLA+ models of the server in `src/`, the TLC runs that check them on small
instances, and proofs checked by TLAPS for all instances. `PROJECT.json` maps
every definition to the lines it models and lists the runs, the mutants (a
plausible bug for each property, which the property's run finds), the hazards
and the theorems.

## 1. The system

A single asyncio thread runs two activities that share one node object:

* `CannelloniProtocol.datagram_received` (`app_runtime.py`), called for every UDP
  packet. It admits the sender to the table of peers, parses the packet into CAN
  frames, gives each to `DroneCANMockNode.handle_frame` (`node.py`) and sends the
  answers back to the sender.
* `publisher_task` (`app_runtime.py`), a loop that expires silent peers, runs the
  publishers that are due, sends their frames to every peer and sleeps until the
  next publisher is due.

Neither awaits between reading and writing the shared state (the loop awaits only
its sleep), so each call of the handler and each iteration of the loop is one
atomic step; what interleaves is steps, frames and messages, not statements.

| Component | State | Operations | Talks to | What is hard |
|---|---|---|---|---|
| Reassembler `reassembler.py` | `sessions`: payload, expected toggle and time per (source, destination, kind, type, transfer id) | `process_frame`, `_cleanup_stale_sessions` | called by `handle_frame` for service frames | interleaved transfers, lost, repeated and reordered frames, reuse of a 5-bit transfer id, clean-up on the way |
| Framing `dronecan.py`, `crc.py` | none | `build_multi_frame`, `build_tail_byte`, CRC | used by publishers, services, allocator | the counterpart of the reassembler |
| Allocator `allocation.py` | one `allocation_state`, `allocation_table`, `next_node_id`, `allocation_tid` | `handle_allocation_request` | called by `handle_frame` for messages | many requesters, one state without timeout; ids of 7 bits from an unbounded counter |
| Peers and packets `app_runtime.py` | `active_remotes`, `seq_no` | `datagram_received`, `send_packet`, `get_active_remotes` | handler and loop share them | table at its limit, silent peers, datagrams between iterations |
| Publisher loop `app_runtime.py`, `scheduler.py`, `node.py` | end of the sleep | `publisher_task`, `collect_frames`, `next_sleep`, `process_publishers`, `get_timeout` | publishers, peers | failing publishers, oversleeping, who is served when |
| Interval publishers `publishers/{heartbeat,ice,fuel_tank,stork_engine_rpm}.py` | `last_send`, `tid`, current and target speed and load | `process`, `get_timeout` | ICE reads the RPM publisher | order within a round, stale values |
| GNSS publisher `publishers/gnss.py` | `next_point_idx`, `sim_start_time`, `tid` | `process`, `get_timeout` | track of `gpx_sim.py` | wrap-around, catching up after an idle time, a point lost when building fails |
| Node dispatch `node.py`, `services/node_info.py` | none of its own | `handle_frame`, `handle_request` | reassembler, allocator, services | errors of each part stay within the frame |
| Codec `cannelloni.py`, `can_utils.py`, `bit_packing.py` | none | build and parse packets and identifiers | everything on the wire | truncation, narrow fields, anonymous messages |
| Lifecycle `app_runtime.py` (`run_server`), `main.py`, `mdns.py` | loop task, stop event, socket | start, signal, shutdown | everything | a task that died before the shutdown |
| Configuration `config_loader.py`, `node_factory.py` | none after the start | merge, validate, build | everything | boundary values, NaN |
| Track and geometry `gpx_sim.py`, `geo_utils.py`, clock `clock.py` | none after the start | load, distance, bearing; monotonic time | GNSS publisher, all | floating point |

What makes each correct: the reassembler returns exactly the transfers that were
received in sequence, unmixed, and keeps nothing stale; the allocator gives every
node one permanent id of its own and cannot be blocked; the table keeps exactly
those who are alive, within its limit; publishers are on time and peers served,
whatever else fails; the track is played in order and, while there are peers, in
time; a complete request has one answer, which its sender can tell for its own; what
the engine publishers report lies in what their sections of the configuration file ask for; and the
process ends when it is asked to, and leaves nothing announced or open but for a
failure or a cancellation.

## 2. Modules

| Module | Models | Checked by | Proved in |
|---|---|---|---|
| `Reassembler` | `TransferReassembler`: one action per return path of `process_frame`, each with the clean-up it includes | `reassembly`, `link`, `node` | `ReassemblyProofs` |
| `ReassemblyContract` | the history of the frames, and which of them form a transfer | `reassembly` | `ReassemblyProofs` |
| `TransferService` | abstract: a receiver yields nothing, or a transfer sent in full, one of several frames once for each time it begins | | |
| `TransferLink` | senders that frame as `build_multi_frame` does, a faulty bus, and an instance of `Reassembler`; implements `TransferService` | `link` | `LinkProofs` |
| `Allocator` | `DynamicNodeAllocator`: one action per path of the handler | `allocator`, `allocator_exhausted` | `AllocatorProofs` |
| `AllocationExchange` | nodes without an id (external), a faulty network, and the allocator | `exchange_single`, `exchange_pair`, `exchange_phantom` | `ExchangeProofs` |
| `Server` | peers, packets, the publisher loop and its timing | through `ServerContract` | `ServerContractProofs` |
| `ServerContract` | what peers are promised, said of when they were heard and sent to | `server` | `ServerContractProofs` |
| `Playlist` | abstract: the playable points in order, cyclically, numbered | | |
| `Gnss` | `GNSSPublisher` and the loop that runs it, with peers present or absent | through `GnssContract` | |
| `GnssContract` | the fixes as seen from outside, and how far apart; implements `Playlist` | `gnss`, `gnss_burst` | `GnssProofs` |
| `CanId` | identifiers and tail bytes, built and parsed (`can_utils.py`, `dronecan.py`) | through `Node` | `NodeProofs` |
| `Cannelloni` | packets, built and parsed (`cannelloni.py`) | through `NodeContract` | `NodeProofs` |
| `Node` | a packet's way through `datagram_received` and `handle_frame`, with instances of `Reassembler` and `Allocator` and the handler of `GetNodeInfo` | through `NodeContract` | `NodeProofs` |
| `NodeContract` | packets cut anywhere and counted wrongly, and the history of frames and answers | `node` | `NodeProofs` |
| `NodeAnswers` | which requests are owed an answer, told from the history with `ReassemblyContract` | `node` | `NodeProofs` |
| `Config` | `load_config`: merging, conversion, validation | through `Program` | `ProgramProofs` |
| `Engine` | the values of `stork_engine_rpm`, `ice` and `fuel_tank`, and a round of the three | through `Program` | `ProgramProofs` |
| `SmoothSignal` | abstract: a value in its range that moves by bounded steps | | |
| `Lifecycle` | `main`, `run_server`, `mdns_service`: start, signals, shutdown, failures | through `Program` | `ProgramProofs` |
| `Program` | a file, the process that loads it, and the reports it sends; its speed and load implement `SmoothSignal` | `program` | `ProgramProofs` |

State and code correspond by name (`sessions`, `allocation_state`, `next_node_id`,
`active_remotes`, `seq_no`, `last_send`). `out` and `response` are what the last
call returned; `packets` is what the last step sent; `wakeAt` is the end of the
loop's sleep. The variables of `ServerContract` and of `NodeContract`, `heard` of
`ReassemblyContract` and of `NodeAnswers`, `due` of `NodeAnswers` and `begun` of
`TransferLink` are history: no step of the code depends on them.

Abstractions. A session key is one value; the contents of a frame are one value
(a chunk) that only the CRC looks at. The CRC is an arbitrary predicate in
`reassembly` and ideal in `link`: a 16-bit CRC that passes a mixture by chance is
not modelled. A unique id is a sequence of pieces. In
`AllocationExchange` every node has an address of its own and hears only the answers to its
own requests, although the usual set-up has the whole bus behind one bridge
(`README.md:21-33`), where all nodes hear all answers: a narrowing of the environment.
A request of the allocator is
reduced to what the handler reads: whether it is wanted at all (type, length,
node id 0), the first-part flag, the transfer id, the pieces. The frames of a packet
are reduced to whether any has an answer. Times are ticks; float timeouts and
intervals become numbers of ticks. The publishers of `Server` share the timing code
of the four interval publishers; what they send is left out.

`Gnss` is a second, closer look at one publisher of the loop that `Server` models:
peers are reduced to being there or not, and the other publishers to the bound
they put on the sleep. `fix` is the point sent last, `since` is
`now - sim_start_time`; a point whose payload cannot be built (a latitude that is
no number, say) raises after the index has moved.

`Node` handles one frame of a packet per step; nothing else happens until the packet
is answered, as the handler does not await. Bytes are numbers there, identifiers
are their 29 bits, and a packet is a sequence of bytes, so that it can be cut. An
answer is its identifier and transfer id: its payload is data, and how it is cut into
frames is `TransferLink`. The exception paths of `handle_frame` are left out because
nothing it calls can raise on the frames that a packet can hold.

`Config` tags values with their Python type and counts numbers in halves, so that
truncation and rounding show; infinity, and text that reads as a number, are left
out. `Engine` follows speed, load and fuel volume; one further field of each message
stands for all that are only sampled, since a value that cannot be converted silences the
publisher whichever field it is in. Percentages are computed exactly. Which publishers
are due is left open: `Server` models when they are. `Lifecycle` has one step for
everything between two awaits. Registering, opening and withdrawing may succeed, raise
or be cancelled; binding may raise before the socket is made (`endpoint` stays "none") or
after ("unbound"), and the latter is not closed by anybody; `LoopFails` is an exception of the transport in `publisher_task`. A
second SIGINT while the first is pending is left out.

Operators named `Mut...` are the mutants: each stands before the definition it
varies and is used by nothing else.

## 3. Runs

| Run | Question | Bounds, and why they suffice |
|---|---|---|
| `reassembly` | Are sessions exactly the open runs of the history, and results exactly the completed ones? | every sequence of four frames over two keys, one of them checked, with time passing 0 to 2 against a timeout of 1: a first, middle and last frame of one key and a foreign frame anywhere between; chunks are arrival numbers, so any mixture shows |
| `link` | Do checked transfers arrive whole or not at all, and not twice? | four transfers of 3, 4, 5 and 1 frames, two sharing a checked key and two an unchecked one; sessions of up to 6 chunks, one more than the longest transfer |
| `allocator` | Is the allocator right for any calls? | four unique ids of two pieces, three ids below the limit of the wire, so the ids run out; 4 transfer ids, so expected, last, other and wrapped all differ |
| `exchange_single` | Is a node served at last? | unique id of three parts, four faults, 8 transfer ids |
| `exchange_pair` | Do nodes hold only their own ids? | two nodes, three requests each, unbounded delay and reordering, one loss or repetition |
| `server` | Who is kept, dropped, sent to, and when? | three addresses for a table of two, one healthy and one failing publisher with intervals 3 and 5, seven ticks after the start: timeout 2, longest sleep 3 and lag 1 add up to 6 |
| `gnss` | Is the track played in order, in time, and for ever? | four points of which the third cannot be built, gaps down to 3, the least at which pace can be kept with minimal sleep 2 and lag 1; 4 transfer ids; peers come and go without limit; the lap's time is capped where the code can tell no difference (`TimeBound`) |
| `node` | What becomes of packets cut at any byte and claiming any count? | 14 packets of one or two frames out of 14 kinds: requests in one frame and in two with the same transfer id from different nodes, spoilt and foreign ones, other services, responses, allocation parts; every cut and every count from 0 to one too many; up to four frames (`MaxFrames`), enough for a two-frame request with two others around it; time 0 to 2 against a timeout of 1 |
| `program` | From any file to its reports, and to the end of the process: do speed and load keep to what their section asks, and does the process stop and leave only what failed? | 27 files: the defaults, ranges, one-sided ranges, single numbers, fractions, null, text and NaN in the fields the publishers read, values over their fields, and nine that are refused; ranges of a few units with steps of half a unit to one, so that targets are reached and drawn again; every failure and signal at every step |
| `allocator_exhausted` | (violated) Is a node told the id that is logged as allocated? | as `allocator` |
| `exchange_phantom` | (violated) Are ids only given to nodes? | two patient nodes, no faults |
| `gnss_burst` | (violated) Are points as far apart as in the track? | the track of `gnss`, all points playable, minimal sleep 1 |

The clock, the history, the number of requests and of faults are bounded by
constants named in their modules (`MaxTime`, `MaxFrames`, `MaxChunks`, `MaxRequests`,
`MaxFaults`; `MaxChunk` and `MaxUid` in `MCAllocator`). Deadlock is checked in all
runs but `reassembly` and `node`, whose histories end at `MaxFrames`, and `program`,
whose process ends.

### Fairness

Three runs state liveness. That of `gnss` assumes that time passes and that the loop
gets its turn (weak fairness of `Pass` and of an iteration): the loop of
`publisher_task` ends in an `asyncio.sleep`, which returns. Nothing is assumed
about peers; the properties say "once peers stay". The fairness of
`exchange_single` is that a node's timer keeps
firing (weak fairness of `Ask`), that a request which is on its way and not lost is
handled, and that an answer which is not lost is heard. The event loop calls
`datagram_received` for every datagram the socket delivers and sends what it
returns in the same call, which justifies the second; the others are assumptions
on the nodes and the network. Losses are bounded by `MaxFaults`, not by fairness.
The node of this run asks again only when nothing of its exchange is under way.
That of `program` is that `main` goes on when it can, and that a cancelled
`publisher_task` ends (weak fairness of `Main` and `Cancellation`): the event loop runs
every task that can run, and the awaits on zeroconf and on the socket end, with a
result or an exception. Nothing is assumed about publishing or about signals.

The promises of `Server` about time are safety properties: the clock does not pass
`wakeAt + MaxLag`, which says that the event loop runs the loop at most `MaxLag`
after its sleep has ended.

## 4. Findings

* `allocator_exhausted`: `next_node_id` grows without bound, and the answer carries
  `allocated_id & 0x7F` (`allocation.py:94`). The 119th unique id is told 0, which
  means "no id", and later ones are told ids that are in use, while the log line
  announces the unmasked number. `DistinctWireIds` therefore carries the condition
  `Room`.
* `exchange_phantom`: a part is accepted by its transfer id alone
  (`allocation.py:64`). When the transfer ids of two nodes line up, parts of both are
  joined, and an id is recorded for a unique id that no node has, though the
  comment at line 72 says such a collision is detected. It costs an id but misleads
  nobody: `HeldIdsAreOwn` holds for any number of nodes and faults.
* `gnss_burst`: the index waits while there are no peers, the time of the lap does
  not. When peers return, every missed point is due at once and they are sent one
  per minimal sleep (`gnss.py:54`), while the README says "in real time"
  (`README.md:13`). None is skipped (`PlaysTrack`), and pace is recovered at last
  (`RecoversPace`).

Seen while modelling, and not a run:

* A track of one point is sent once and never again, as the index only wraps in the
  branch for later points (`gnss.py:54`); `KeepsPlaying` carries the condition
  `LastPoint > 0`.
* The README and the docstring promise ICE its own ranges ("with configurable min/max
  ranges in `config.yaml`", `README.md:14`, with a range of `engine_speed_rpm` at
  `README.md:106-108`; "using config-driven ranges", `ice.py:19`). The code samples that range
  and overwrites the sample with the RPM publisher's value (`ice.py:63-73`), so the range
  has no effect, except that a value there that is no number silences ICE. A test asserts the
  override (`test_publishers.py:113`, `test_ice_publisher_uses_stork_rpm`). `ReportsWithinAsked`
  therefore holds the speed of ICE to the section `stork_engine_rpm` and says nothing of the
  range in `ice_reciprocating`, which is kept only where the file gives both sections the
  same one, as the defaults do.
* ICE moves the ramp of the RPM publisher, so a bad value in the RPM section silences
  ICE too.
* NaN passes `parsed <= minimum` and `minimum > maximum` (`config_loader.py:147, 157`), so
  files with NaN as an interval or as the end of a range are accepted.
* A value over its field wraps (an engine load above 127, say, in 7 bits); `Sensible`
  excludes such ranges from `ReportsWithinAsked`.
* Another allocator's answer "more, please" has node id 0, and is handled as a request
  (`allocation.py:51`).
* The server itself started with node id 0 sends its heartbeats anonymously: their type
  is cut to two bits, 341 & 3 = 1, which reads as an Allocation message.
* A publisher that failed is noticed at the shutdown only, where its exception skips
  closing the transport and the socket (`app_runtime.py:200-205`). Until then the server
  answers, and publishes no more.
* When `bind` raises (the port is taken, say), the socket just made is not closed
  (`app_runtime.py:171-173`): the `try` whose `finally` closes it begins at line 194. The
  announcement is withdrawn. `LeavesOnlyWhatFailed` states both: what is left open, and
  only then.
* The server's own id is any of 0 to 127 (`config_loader.py:174`), and the allocator counts
  from 10 without looking at it (`allocation.py:25`): with an own id of 10 or more, some node
  is told that id. An own id of 0 is kept, although the README has it "for dynamic
  assignment via DNA" (`README.md:94`): nothing in the server asks for one.
* A registration that raises or is cancelled leaves the `AsyncZeroconf` open
  (`mdns.py:15`).

## 5. Proofs

All theorems are checked to the last leaf; nothing is assumed beyond the named
assumptions on the constants (`ReassemblerAssumption`, `ContractAssumption`,
`LinkAssumption`, `AllocatorAssumption`, `ExchangeAssumption`, `ServerAssumption`,
`GnssAssumption`, `NodeAssumption`, `PacketsAssumption`, `ContentsAssumption`,
`RampAssumption`, `ProgramAssumption`). TLC evaluates each of them in the runs.

**`ReassemblyProofs`** (any keys, chunks, checks and timeout, histories of any length). The
invariant `RInv` says what a session knows of the history (`Tracks`): it holds the
contents of the one open run of its key, the time of that run's last frame, and in its
toggle whether the run has an even or an odd number of frames; and where there is no
session, the open run, if there is one, has outlived the timeout. `SessionsAreOpenRuns` alone
is not inductive: without the toggle it could not tell whether the next frame is in place.
The work is in the order of a set of arrival numbers: ranks, the n-th member, and that a
frame appended to the history extends one run and leaves all others as they were
(`RunsAfter`, `OneRunPerKey`, `ContentsAppend`). `ReturnsCompletedRuns` and the action
property `MultiFrameSweeps` follow.

**`LinkProofs`** (any transfers, keys, frame counts, timeout; no bound on faults).
The invariant joins `SessionsInStep` (the n-th chunk of a session is a frame of the
key whose own number has the parity of n, only the first is a first frame, and none
is a last one), `UncheckedInStep` and `CheckedIsWhole` with the fact that a chunk
only comes from a frame already sent. Parity is what makes it inductive: the toggle
bit carries just that much. `BegunOK` relates the sessions to the history `begun`: a session
holds the first chunk of the transfer that began last with its key, and where there is a
session that transfer has not been returned since. From these follows refinement: a
step of the link is, for `TransferService`, an offer, the beginning of a transfer, a delivery,
a quiet step or a stutter. That a transfer of several frames is delivered at most once
for each beginning rests on the last frame's deletion of the session and on a first frame's
replacing it, both of which a mutant drops.

**`AllocatorProofs`** (any length of unique ids, any wire size). `AllocInv` adds to
the checked invariants that the table is an injection into the ids counted so far
and that `next_node_id` is `FirstNodeId` plus the number of entries; the second part
turns "the entries fit" (`Room`) into "all ids are below the limit of the wire", where
masking is the identity.

**`ExchangeProofs`** (any number of nodes, faults and requests). The invariant says
that every answer on its way, and every id held, is true of the table; permanence of
the table keeps it so. Phantom entries do not matter to it. For a node alone, which asks
again only when nothing of its exchange is under way, a second invariant (`SingleInv`)
relates the transfer ids and the parts on their way to what the allocator has collected,
for any length of the unique id and any losses and repetitions; `OnlyRealUids` follows. It is
false for two nodes, as `exchange_phantom` shows.

**`ServerContractProofs`** (any addresses, publishers, intervals, timeouts). `WakesInTime`
strengthens `SilentPeersForgotten`: the loop is late by at most the lag, asleep for at
most `LongestSleep`, and everybody in the table was fresh when it fell asleep. That
needs the bounds of the minimum of the waits, which rest on well-foundedness of the
naturals. `TableIsHistory` relates the table to the history; `Punctual` and `ServedByThen`
say where the next waking is with respect to each healthy publisher and each peer, which
with the lag gives `HealthyOnTime` and `PeersServed`; `ContractEvictsLeastRecent`, an action
property, follows from the same invariant: who is dropped makes place for an address that
was not in the table, and nobody in it had been silent for longer.

**`GnssProofs`** (any track, unbuildable points, sleeps and lag). `ShownBehind` says
what the index knows of the last fix: it is the last playable point behind the
index, or nothing playable is behind the index and it was the last of the lap; a
step of the publisher is then a step of `Playlist` or a stutter. `Pacing` says that
the sleep of a steady lap ends less than a minimal sleep after the next point's
time; the lag added gives `SteadyLapsKeepTime`.

**`NodeProofs`** (any packets of frames with 29 bits of identifier and up to 255 bytes of
data, any keys and unique ids). Three arguments meet in one invariant, `NodeInv`:

* *The codec.* The round trips say that the fields of identifiers and tail bytes do not
  overlap. `ParseCut` says what `ParsePacket` returns for a packet cut after any byte and
  claiming any count: the frames that lie within both, as they were put in. It needs where
  each frame stands (`FramePlaced`), that the parser's offset after n rounds is where frame n
  ends (`FrameFound`), and that after the first frame that is not whole none is found.
  `CutPacketsHandled` follows: the frames handled and those still to be handled are those
  that arrived.
* *The reassembler and the allocator.* The theorems of `ReassemblyProofs` and
  `AllocatorProofs` are used as they are, on instances of these modules with the node's
  variables; the node's assumptions imply theirs. A call from `handle_frame` keeps
  `Tracking` and `AllocInv`, and so do all other steps.
* *The answers.* What the history of `NodeAnswers` says is owed is, by
  `ReturnsCompletedRuns`, what the reassembler has just returned; `AskerKnowsAnswer` says
  that the answer carries all by which its requester recognises it, and `ResponseTid` that the
  allocator's carries the transfer id that was due. So `due` and the answers grow
  by the same labels: `RequestsAnswered`.

`PacketsAssumption` bounds the frames of a packet by what its count can say;
`ContentsAssumption` says that the sets of keys, chunks and pieces contain what the frames
are made of, and restricts nothing else.

**`ProgramProofs`** (any file, defaults with a range where the code has one, any ramp and any width of the
fields). `CInv` says what has been acquired by each phase of the process, a socket that is
not bound included; `LeavesWhatFailed` is its last phase. `EngineInv` says that the smoothed values lie in the
ranges of the loaded configuration and that what was sent comes from them. It follows
the file through: what merging makes of a range (`FieldKept`), what `GetMinMax` makes of
that (`RangeKept`), that a move of the ramp stays in it (`UpdateWithin`), that a round of
all three publishers does (`RoundOutcome`), and that rounding and cutting to a field do
not leave it (`ReportedWithin`, `FuelWithin`). `ProgramSmooth` is the refinement: a step
of the process is a report of `SmoothSignal` or a stutter, for the speed and for the
load. `ProgramAssumption` asks that the numbers in a file are whole halves, and that the
three ranges have defaults in ints or floats, as in `DEFAULT_CONFIG`.

Only model-checked: `EventuallyAllocated`, `KeepsPlaying`, `RecoversPace` and
`StopsWhenAsked`, which are liveness under fairness and need ENABLED. Every safety property
of a passing run is stated by a theorem.

The functions over data that the proofs need are recursive functions or folds, defined by
CHOOSE (`FlattenSeq`, the parser's offsets). That such a function exists, and what it
yields, is proved by looking at a least counterexample (`LeastNumber`), since the induction
theorems of the library take an operator as a parameter, which the provers do not
instantiate.

## 6. Not modelled

* Track and geometry (`gpx_sim.py`, `geo_utils.py`): floating point and the reading of a
  file, with no control to speak of. `Gnss` takes the track as given.
* The layouts of the DSDL payloads, float16 and float32 conversion, logging: data and
  wording. `write_unsigned` is modelled where its cut matters.
* The inside of zeroconf, asyncio and the socket, which are external; how they can answer is in
  `Lifecycle`.
* The transfer ids of the interval publishers: they count as those of `Gnss` do.
* What a NaN interval does to the timing: `Server` takes intervals to be numbers.

## 7. Plan

1. `Server` with an interval that may be NaN: which publishers are never due, and which
   always.
2. `Server` and `Engine` joined, so that a smooth signal is also on time.
3. `AllocationExchange` with nodes behind one bridge, which hear each other's answers
   (`README.md:21-33`); in the model every node has its own address.
4. `NodeAnswers` with the answers cut into frames and a lossy way back, so that the requester
   is part of the model.

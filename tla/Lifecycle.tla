------------------------------ MODULE Lifecycle -------------------------------
(***************************************************************************)
(* The life of the process: main (main.py) loads the configuration and     *)
(* runs run_server (app_runtime.py), which announces the service           *)
(* (mdns.py), opens the socket, starts publisher_task and waits to be      *)
(* stopped.                                                                *)
(*                                                                         *)
(* asyncio.run answers SIGINT by cancelling main's task until run_server   *)
(* has put its own handlers in place (not every platform lets it); SIGTERM *)
(* kills until then.  A cancellation is raised at the await main is at, or *)
(* comes to next.  A second SIGINT while the first is pending, and what    *)
(* zeroconf and the operating system do, are external: registering,        *)
(* binding, opening and withdrawing succeed or raise.                      *)
(***************************************************************************)
EXTENDS Naturals

VARIABLES
  phase,       \* where main is
  outcome,     \* how it ends, as far as is known
  stop,        \* stop_event is set
  handlers,    \* add_signal_handler has worked
  cancel,      \* of main's task: "no", "pending" or "raised"
  mdns,        \* the announcement and the AsyncZeroconf that makes it
  endpoint,    \* sock, from "unbound" on, and transport, when "open"
  loop,        \* pub_task
  loopCancel   \* pub_task.cancel() has been called

lvars == <<phase, outcome, stop, handlers, cancel, mdns, endpoint, loop, loopCancel>>

Phases ==
  {"loading", "building", "registering", "binding", "opening", "serving", "stopping",
   "withdrawing", "ended"}

LTypeOK ==
  /\ phase \in Phases
  /\ outcome \in {"none", "ok", "error", "killed"}
  /\ stop \in BOOLEAN
  /\ handlers \in BOOLEAN
  /\ cancel \in {"no", "pending", "raised"}
  /\ mdns \in {"none", "made", "registered", "lost", "withdrawn"}
  /\ endpoint \in {"none", "unbound", "bound", "open", "closed"}
  /\ loop \in {"none", "created", "running", "done", "failed"}
  /\ loopCancel \in BOOLEAN

LInit ==
  /\ phase = "loading"
  /\ outcome = "none"
  /\ stop = FALSE
  /\ handlers = FALSE
  /\ cancel = "no"
  /\ mdns = "none"
  /\ endpoint = "none"
  /\ loop = "none"
  /\ loopCancel = FALSE

Goto(p, result) == phase' = p /\ outcome' = result

(* main's task meets its cancellation at an await; when that goes through  *)
(* to asyncio.run, main swallows it.                                       *)
Cancelled == cancel = "pending" /\ cancel' = "raised"

NotCancelled == cancel # "pending" /\ UNCHANGED cancel
-----------------------------------------------------------------------------
(* A configuration that cannot be loaded is logged, and main returns.      *)
LoadConfig(accepted) ==
  /\ phase = "loading"
  /\ IF accepted THEN Goto("building", outcome) ELSE Goto("ended", "ok")
  /\ UNCHANGED <<stop, handlers, cancel, mdns, endpoint, loop, loopCancel>>

(* Without an await: build_default_node, which raises when the track is    *)
(* unusable, and AsyncZeroconf().                                          *)
BuildNode ==
  /\ phase = "building"
  /\ \/ Goto("registering", outcome) /\ mdns' = "made"
     \/ Goto("ended", "error") /\ UNCHANGED mdns
  /\ UNCHANGED <<stop, handlers, cancel, endpoint, loop, loopCancel>>

(* Nothing is closed when the registration raises or is cancelled.         *)
Register ==
  /\ phase = "registering"
  /\ \/ NotCancelled /\ Goto("binding", outcome) /\ mdns' = "registered"
     \/ NotCancelled /\ Goto("ended", "error") /\ UNCHANGED mdns
     \/ Cancelled /\ Goto("ended", "ok") /\ UNCHANGED mdns
  /\ UNCHANGED <<stop, handlers, endpoint, loop, loopCancel>>

MutBind ==
  /\ phase = "binding"
  /\ \/ Goto("opening", outcome) /\ endpoint' = "bound"
     \/ Goto("ended", "error") /\ endpoint' \in {"none", "unbound"}
  /\ UNCHANGED <<stop, handlers, cancel, mdns, loop, loopCancel>>

(* Without an await: the socket is made, set up and bound.  Nobody closes  *)
(* one that cannot be bound: the try whose finally does begins later.      *)
Bind ==
  /\ phase = "binding"
  /\ \/ Goto("opening", outcome) /\ endpoint' = "bound"
     \/ Goto("withdrawing", "error") /\ endpoint' \in {"none", "unbound"}
  /\ UNCHANGED <<stop, handlers, cancel, mdns, loop, loopCancel>>

(* create_datagram_endpoint, which closes what it made when it is not to   *)
(* return; then without an await the task and the handlers.                *)
OpenEndpoint ==
  /\ phase = "opening"
  /\ \/ /\ NotCancelled /\ Goto("serving", outcome)
        /\ endpoint' = "open" /\ loop' = "created" /\ handlers' \in BOOLEAN
     \/ /\ \/ NotCancelled /\ Goto("withdrawing", "error")
           \/ Cancelled /\ Goto("withdrawing", "ok")
        /\ endpoint' = "closed" /\ UNCHANGED <<loop, handlers>>
  /\ UNCHANGED <<stop, mdns, loopCancel>>

MutStopServing ==
  /\ phase = "serving"
  /\ \/ stop /\ NotCancelled
     \/ Cancelled
  /\ Goto("stopping", outcome)
  /\ UNCHANGED <<stop, handlers, mdns, endpoint, loop, loopCancel>>

(* stop_event.wait() returns or raises, and the publisher is cancelled.    *)
StopServing ==
  /\ phase = "serving"
  /\ \/ stop /\ NotCancelled
     \/ Cancelled
  /\ loopCancel' = TRUE
  /\ Goto("stopping", outcome)
  /\ UNCHANGED <<stop, handlers, mdns, endpoint, loop>>

(* await pub_task: one that has failed raises at once, before anything is  *)
(* closed.  Otherwise main waits, and a cancellation of main in that time  *)
(* is taken for the task's own.                                            *)
PublisherEnded ==
  /\ phase = "stopping"
  /\ \/ /\ loop = "done" /\ Goto("withdrawing", "ok") /\ endpoint' = "closed"
        /\ cancel' = IF cancel = "pending" THEN "raised" ELSE cancel
     \/ loop = "failed" /\ Goto("withdrawing", "error") /\ UNCHANGED <<endpoint, cancel>>
  /\ UNCHANGED <<stop, handlers, mdns, loop, loopCancel>>

(* The finally block of mdns_service; what it raises replaces what made it *)
(* run, and skips the rest of it.                                          *)
Withdraw ==
  /\ phase = "withdrawing"
  /\ \/ NotCancelled /\ Goto("ended", outcome) /\ mdns' = "withdrawn"
     \/ NotCancelled /\ Goto("ended", "error") /\ mdns' = "lost"
     \/ Cancelled /\ Goto("ended", "ok") /\ mdns' = "lost"
  /\ UNCHANGED <<stop, handlers, endpoint, loop, loopCancel>>
-----------------------------------------------------------------------------
(* publisher_task at its sleep: cancelled there it returns.  Cancelled     *)
(* before its first step it ends all the same.                             *)
LoopEnds ==
  /\ phase # "ended" /\ loop \in {"created", "running"} /\ loopCancel
  /\ loop' = "done"
  /\ UNCHANGED <<phase, outcome, stop, handlers, cancel, mdns, endpoint, loopCancel>>

LoopTurns ==
  /\ phase # "ended" /\ loop \in {"created", "running"} /\ ~loopCancel
  /\ loop' = "running"
  /\ UNCHANGED <<phase, outcome, stop, handlers, cancel, mdns, endpoint, loopCancel>>

(* The transport raised: publisher_task does not catch that, and nobody    *)
(* hears of it before main awaits the task.                                *)
LoopFails ==
  /\ phase # "ended" /\ loop \in {"created", "running"} /\ ~loopCancel
  /\ loop' = "failed"
  /\ UNCHANGED <<phase, outcome, stop, handlers, cancel, mdns, endpoint, loopCancel>>

Interrupt ==
  /\ phase # "ended"
  /\ \/ handlers /\ stop' = TRUE /\ UNCHANGED <<phase, outcome, cancel>>
     \/ ~handlers /\ phase = "loading" /\ Goto("ended", "killed") /\ UNCHANGED <<stop, cancel>>
     \/ /\ ~handlers /\ phase # "loading" /\ cancel = "no"
        /\ cancel' = "pending" /\ UNCHANGED <<phase, outcome, stop>>
  /\ UNCHANGED <<handlers, mdns, endpoint, loop, loopCancel>>

Terminate ==
  /\ phase # "ended"
  /\ \/ handlers /\ stop' = TRUE /\ UNCHANGED <<phase, outcome>>
     \/ ~handlers /\ Goto("ended", "killed") /\ UNCHANGED stop
  /\ UNCHANGED <<handlers, cancel, mdns, endpoint, loop, loopCancel>>

MainStep(accepted) ==
  \/ LoadConfig(accepted) \/ BuildNode \/ Register \/ Bind \/ OpenEndpoint \/ StopServing
  \/ PublisherEnded \/ Withdraw
=============================================================================

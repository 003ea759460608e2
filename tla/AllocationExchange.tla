-------------------------- MODULE AllocationExchange --------------------------
(***************************************************************************)
(* Nodes without an id (external) asking the allocator for one over a      *)
(* network that may lose and repeat messages, or also delay and reorder    *)
(* them.                                                                   *)
(*                                                                         *)
(* A node sends its unique id piece by piece, with its own transfer ids    *)
(* counting up.  Whenever its timer fires it sends the piece after the     *)
(* part of its unique id that the last answer repeated, or the first piece *)
(* when there was no such answer.  The server answers to the address a     *)
(* request came from (datagram_received in app_runtime.py). Here every     *)
(* node has an address of its own, so it hears only the answers to its own *)
(* requests; nodes behind one bridge (README.md:21-33) share an address    *)
(* and hear all answers, which is not modelled.                            *)
(***************************************************************************)
EXTENDS Allocator

CONSTANTS
  Client,
  NoId,         \* the node has no id yet
  Prompt,       \* TRUE: a node's timer never fires while a message of its
                \* exchange is still under way
  MaxFaults,    \* bound of the model: messages lost or repeated
  MaxRequests   \* bound of the model: requests of one node, when not Prompt

ASSUME ExchangeAssumption ==
  /\ Piece = Client \X (1 .. UidLen)
  /\ Prompt \in BOOLEAN
  /\ MaxFaults \in Nat /\ MaxRequests \in Nat

VARIABLES
  offset,    \* pieces of its unique id each node has had confirmed
  tid,       \* transfer id of each node's next request
  held,      \* node id each node has been given
  requests,  \* messages on their way to the server
  answers,   \* messages on their way to the nodes
  faults,    \* messages lost or repeated so far
  asked      \* requests sent by each node so far, counted when not Prompt

cvars == <<offset, tid, held>>
nvars == <<requests, answers, faults, asked>>
xvars == <<avars, cvars, nvars>>

OwnUid(c) == [i \in 1 .. UidLen |-> <<c, i>>]

XTypeOK ==
  /\ TypeOK
  /\ offset \in [Client -> 0 .. UidLen - 1]
  /\ tid \in [Client -> Tid]
  /\ held \in [Client -> Nat \cup {NoId}]
  /\ requests \subseteq [client : Client, first : BOOLEAN, tid : Tid, piece : Piece]
  /\ answers \subseteq [client : Client, answer : Response]
  /\ faults \in 0 .. MaxFaults
  /\ asked \in [Client -> Nat]

XInit ==
  /\ Init
  /\ offset = [c \in Client |-> 0]
  /\ tid = [c \in Client |-> 0]
  /\ held = [c \in Client |-> NoId]
  /\ requests = {} /\ answers = {} /\ faults = 0
  /\ asked = [c \in Client |-> 0]

UnderWay(c) == \E m \in requests \cup answers : m.client = c

(* The timer of node c fires.  Until an answer says otherwise, the next    *)
(* request will be a first one again.                                      *)
Ask(c) ==
  /\ held[c] = NoId
  /\ IF Prompt THEN ~UnderWay(c) /\ UNCHANGED asked
     ELSE asked[c] < MaxRequests /\ asked' = [asked EXCEPT ![c] = @ + 1]
  /\ requests' = requests \cup
       {[client |-> c, first |-> offset[c] = 0, tid |-> tid[c],
         piece |-> <<c, offset[c] + 1>>]}
  /\ tid' = [tid EXCEPT ![c] = NextTid(@)]
  /\ offset' = [offset EXCEPT ![c] = 0]
  /\ UNCHANGED <<avars, held, answers, faults>>

(* The server handles request m and sends what it answers to its sender.   *)
Serve(m) ==
  /\ m \in requests
  /\ HandleAllocationRequest(
       [wanted |-> TRUE, first |-> m.first, tid |-> m.tid, chunk |-> <<m.piece>>])
  /\ answers' = answers \cup
       (IF response' = NoResponse THEN {} ELSE {[client |-> m.client, answer |-> response']})
  /\ UNCHANGED <<cvars, asked>>

Arrives(m) == Serve(m) /\ requests' = requests \ {m} /\ UNCHANGED faults

Repeated(m) ==
  /\ faults < MaxFaults
  /\ Serve(m)
  /\ faults' = faults + 1 /\ UNCHANGED requests

(* A node takes up an answer that repeats a prefix of its own unique id,   *)
(* and starts over on any other.                                           *)
Hear(m) ==
  LET c == m.client
      uid == m.answer.uid
      mine == Len(uid) <= UidLen /\ uid = SubSeq(OwnUid(c), 1, Len(uid))
  IN
  /\ m \in answers
  /\ answers' = answers \ {m}
  /\ offset' = [offset EXCEPT ![c] = IF mine THEN Len(uid) % UidLen ELSE 0]
  /\ held' = IF mine /\ Len(uid) = UidLen /\ m.answer.node_id # 0
             THEN [held EXCEPT ![c] = m.answer.node_id] ELSE held
  /\ UNCHANGED <<avars, tid, requests, faults, asked>>

Lose(m) ==
  /\ faults < MaxFaults
  /\ m \in requests \cup answers
  /\ requests' = requests \ {m} /\ answers' = answers \ {m}
  /\ faults' = faults + 1
  /\ UNCHANGED <<avars, cvars, asked>>

(* Every node has an id, or may ask no more, and nothing is under way.     *)
Done ==
  /\ requests = {} /\ answers = {}
  /\ \A c \in Client : held[c] = NoId => ~Prompt /\ asked[c] = MaxRequests
  /\ UNCHANGED xvars

XNext ==
  \/ \E c \in Client : Ask(c)
  \/ \E m \in requests : Arrives(m) \/ Repeated(m)
  \/ \E m \in answers : Hear(m)
  \/ \E m \in requests \cup answers : Lose(m)
  \/ Done

XSpec == XInit /\ [][XNext]_xvars

(* Timers keep firing, and messages that are not lost are handled.         *)
Fairness ==
  /\ \A c \in Client : WF_xvars(Ask(c))
  /\ WF_xvars(\E m \in requests : Arrives(m))
  /\ WF_xvars(\E m \in answers : Hear(m))

XLiveSpec == XSpec /\ Fairness
-----------------------------------------------------------------------------
(* Node ids are given to nodes, not to sequences of pieces no node has.    *)
(* The tid bookkeeping is meant to see to it (allocation.py:64-79): a part *)
(* that does not continue what is being collected is "packet loss or       *)
(* collision" and resets the collection.                                   *)
OnlyRealUids == DOMAIN table \subseteq {OwnUid(c) : c \in Client}

(* Whatever the network does and however the exchanges of several nodes    *)
(* interleave in the one allocation_state, an id a node holds is the one   *)
(* the table has for its own unique id (allocation.py:86-96).              *)
HeldIdsAreOwn ==
  \A c \in Client :
    held[c] # NoId => /\ OwnUid(c) \in DOMAIN table
                      /\ held[c] = WireId(table[OwnUid(c)])

(* So no two nodes ever hold the same id, as long as the unique ids taken  *)
(* for real, phantoms included, fit in the node ids of the wire.           *)
HeldIdsDistinct ==
  Room => \A c, d \in Client : held[c] # NoId /\ c # d => held[c] # held[d]

(* Every node is given an id at last, once the network stops losing and    *)
(* repeating messages: no state the server can be left in by lost parts,   *)
(* lost answers or repeated requests makes it refuse a node for good       *)
(* (allocation_state has no timeout).                                      *)
EventuallyAllocated == \A c \in Client : <>(held[c] # NoId)
=============================================================================

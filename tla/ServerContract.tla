---------------------------- MODULE ServerContract ----------------------------
(***************************************************************************)
(* What the server promises its peers, said of when it heard from them and *)
(* when it sent to them, not of the table in between.                      *)
(***************************************************************************)
EXTENDS Server

VARIABLES
  heard,      \* time of the last packet from each address, or Absent
  evicted,    \* addresses dropped for another since they were last heard
  joined,     \* time since which each address has been heard of without a gap
  hadPeers    \* the last iteration of publisher_task found peers

gvars == <<heard, evicted, joined, hadPeers>>

CInit ==
  /\ Init
  /\ heard = [r \in Remote |-> Absent]
  /\ evicted = {}
  /\ joined = [r \in Remote |-> Boot]
  /\ hadPeers = FALSE

(* An address returns when it is not heard from for longer than the        *)
(* timeout, or was dropped, and then is heard from again.                  *)
Entitled(r) ==
  heard[r] # Absent /\ r \notin evicted /\ now - heard[r] <= PeerTimeout

Datagram(r, reply) ==
  /\ DatagramReceived(r, reply)
  /\ heard' = [heard EXCEPT ![r] = now]
  /\ evicted' = (evicted \cup (Peers \ Peers')) \ {r}
  /\ joined' = IF Entitled(r) THEN joined ELSE [joined EXCEPT ![r] = now]
  /\ UNCHANGED hadPeers

Broadcast(failed) ==
  /\ Publish(failed)
  /\ hadPeers' = TRUE
  /\ UNCHANGED <<heard, evicted, joined>>

CNext ==
  \/ \E r \in Remote, reply \in BOOLEAN : Datagram(r, reply)
  \/ Idle /\ hadPeers' = FALSE /\ UNCHANGED <<heard, evicted, joined>>
  \/ \E failed \in SUBSET Faulty : Broadcast(failed)
  \/ Tick /\ UNCHANGED gvars

CSpec == CInit /\ [][CNext]_<<svars, gvars>>
-----------------------------------------------------------------------------
(* A broadcast goes to exactly the addresses heard from within the timeout *)
(* and not dropped since: nobody who left still gets frames, and nobody    *)
(* who is there is passed over (app_runtime.py:103-121).                   *)
BroadcastsReachEntitled ==
  packets.frames # {} => packets.to = {r \in Remote : Entitled(r)}

(* No healthy publisher falls behind while there are peers, and one that   *)
(* keeps raising does not hold up the others: a transmission is late by    *)
(* less than the minimal sleep and the lag together (node.py:57-76,        *)
(* scheduler.py).                                                          *)
HealthyOnTime ==
  hadPeers => \A p \in Publisher \ Faulty :
                now - last_send[p] < Interval[p] + MinSleep + MaxLag

(* No address waits longer for the frames of a healthy publisher, counting *)
(* from its return or from their last transmission, than one sleep of the  *)
(* loop or one interval of theirs (less than a minimal sleep beyond it),   *)
(* and the lag.                                                            *)
PeersServed ==
  \A r \in Remote, p \in Publisher \ Faulty :
    Entitled(r) =>
      now - Max({joined[r], last_send[p]}) <=
        Max({LongestSleep, Interval[p] + MinSleep - 1}) + MaxLag

(* Only an address that is not in the table drops a peer, whose place it   *)
(* takes, only from a full table, and only one heard from no later than    *)
(* everybody else in it: packets of those who are known, however many, cost*)
(* nobody the place (app_runtime.py:52-67).                                *)
EvictsLeastRecent ==
  [][\A o \in evicted' \ evicted :
       /\ \E r \in Remote \ Peers : Peers' = (Peers \ {o}) \cup {r}
       /\ Cardinality(Peers) = MaxPeers
       /\ \A r \in Peers : heard[o] <= heard[r]]_<<svars, gvars>>
=============================================================================

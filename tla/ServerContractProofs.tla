------------------------- MODULE ServerContractProofs -------------------------
(***************************************************************************)
(* Proofs about Server and ServerContract: what the server keeps, and from *)
(* that what peers may expect of it.  They hold for any set of addresses,  *)
(* even an infinite one, any finite set of publishers, and any intervals,  *)
(* timeouts, limits and lag.                                               *)
(***************************************************************************)
EXTENDS ServerContract, FiniteSetTheorems, WellFoundedInduction, TLAPS

(* ------------------------------ Max and Min ---------------------------- *)

LEMMA MinProperties ==
  ASSUME NEW S \in SUBSET Nat, S # {}
  PROVE  Min(S) \in S /\ \A x \in S : Min(S) <= x
<1> DEFINE less == {ss \in Nat \X Nat : ss[1] < ss[2]}
<1>1. IsWellFoundedOn(less, Nat)
  BY NatLessThanWellFounded DEF OpToRel
<1>2. PICK m \in S : \A y \in S : <<y, m>> \notin less
  <2> HIDE DEF less
  <2> QED BY <1>1, WFMin
<1>3. ASSUME NEW y \in S, y < m PROVE <<y, m>> \in less
  <2>1. <<y, m>> \in Nat \X Nat /\ <<y, m>>[1] < <<y, m>>[2]
    BY <1>3
  <2>2. QED BY <2>1
<1>4. \A y \in S : ~ (y < m)
  <2> HIDE DEF less
  <2> QED BY <1>2, <1>3
<1>5. \A y \in S : m <= y
  BY <1>4
<1>6. QED
  BY <1>5 DEF Min

LEMMA MaxOfTwo ==
  ASSUME NEW a \in Int, NEW b \in Int
  PROVE  Max({a, b}) = IF a >= b THEN a ELSE b
BY DEF Max

LEMMA MaxOfThree ==
  ASSUME NEW a \in Int, NEW b \in Int, NEW c \in Int
  PROVE  /\ Max({a, b, c}) \in {a, b, c}
         /\ Max({a, b, c}) >= a /\ Max({a, b, c}) >= b /\ Max({a, b, c}) >= c
<1>1. \E m \in {a, b, c} : m >= a /\ m >= b /\ m >= c
  OBVIOUS
<1>2. \E m \in {a, b, c} : \A y \in {a, b, c} : m >= y
  BY <1>1
<1>3. QED
  BY <1>2 DEF Max

(* ---------------------------- How long it sleeps ----------------------- *)

LEMMA LongestSleepBounds ==
  /\ LongestSleep \in Nat /\ LongestSleep >= IdleSleep /\ LongestSleep >= MinSleep
  /\ \E p \in Publisher : Interval[p] <= LongestSleep
<1> DEFINE I == {Interval[p] : p \in Publisher}
<1>1. I \in SUBSET Nat /\ I # {}
  BY ServerAssumption
<1>2. Min(I) \in I
  <2> HIDE DEF I
  <2> QED BY <1>1, MinProperties
<1>3. Min(I) \in Nat /\ IdleSleep \in Nat /\ MinSleep \in Nat
  BY <1>1, <1>2, ServerAssumption
<1>4. LongestSleep = Max({IdleSleep, MinSleep, Min(I)})
  BY DEF LongestSleep
<1>5. /\ LongestSleep \in {IdleSleep, MinSleep, Min(I)}
      /\ LongestSleep >= IdleSleep /\ LongestSleep >= MinSleep /\ LongestSleep >= Min(I)
  <2> HIDE DEF I
  <2> QED BY <1>3, <1>4, MaxOfThree
<1>6. PICK p \in Publisher : Min(I) = Interval[p]
  BY <1>2
<1>7. QED
  BY <1>3, <1>5, <1>6

(* Its wait is what is left of a publisher's interval, and nothing if it   *)
(* is overdue.                                                             *)
LEMMA WaitValue ==
  ASSUME now \in Nat, last_send' \in [Publisher -> 0 .. now], NEW p \in Publisher
  PROVE  /\ Wait(p) \in Nat /\ Wait(p) <= Interval[p]
         /\ now + Wait(p) = IF last_send'[p] + Interval[p] >= now
                            THEN last_send'[p] + Interval[p] ELSE now
<1>1. last_send'[p] \in 0 .. now /\ Interval[p] \in Nat
  BY ServerAssumption
<1>2. Wait(p) = IF 0 >= Interval[p] - (now - last_send'[p]) THEN 0
                ELSE Interval[p] - (now - last_send'[p])
  BY <1>1, MaxOfTwo DEF Wait
<1>3. QED
  BY <1>1, <1>2

(* With peers, the sleep is at least MinSleep, at most LongestSleep, and   *)
(* no longer than any publisher's wait unless that is below MinSleep.      *)
LEMMA SleepBounds ==
  ASSUME now \in Nat, last_send' \in [Publisher -> 0 .. now]
  PROVE  /\ SleepWithPeers \in Nat
         /\ SleepWithPeers <= LongestSleep
         /\ \A p \in Publisher : SleepWithPeers <= MinSleep \/ SleepWithPeers <= Wait(p)
<1> DEFINE W == {Wait(p) : p \in Publisher}
<1>1. W \in SUBSET Nat /\ W # {}
  BY WaitValue, ServerAssumption
<1>2. Min(W) \in W /\ \A x \in W : Min(W) <= x
  <2> HIDE DEF W
  <2> QED BY <1>1, MinProperties
<1>3. Min(W) \in Nat /\ \A p \in Publisher : Min(W) <= Wait(p)
  BY <1>1, <1>2
<1>4. MinSleep \in Nat
  BY ServerAssumption
<1>5. SleepWithPeers = IF MinSleep >= Min(W) THEN MinSleep ELSE Min(W)
  <2>1. SleepWithPeers = Max({MinSleep, Min(W)})
    BY DEF SleepWithPeers
  <2> HIDE DEF W
  <2> QED BY <2>1, <1>3, <1>4, MaxOfTwo
<1>6. PICK q \in Publisher : Interval[q] <= LongestSleep
  BY LongestSleepBounds
<1>7. Min(W) <= LongestSleep
  <2>1. Wait(q) \in Nat /\ Wait(q) <= Interval[q]
    BY WaitValue
  <2>2. Min(W) <= Wait(q)
    BY <1>3
  <2>3. Interval[q] \in Nat
    BY ServerAssumption
  <2> HIDE DEF W
  <2> QED BY <1>3, <1>6, <2>1, <2>2, <2>3, LongestSleepBounds
<1>8. QED
  <2> HIDE DEF W
  <2> QED BY <1>3, <1>4, <1>5, <1>7, LongestSleepBounds

(* ---------------------------- The invariant ---------------------------- *)

TableFits == IsFiniteSet(Peers) /\ Cardinality(Peers) <= MaxPeers

(* The loop is not late by more than the lag nor asleep for longer than    *)
(* LongestSleep, and whoever it left in the table was fresh then.          *)
WakesInTime ==
  /\ now <= wakeAt + MaxLag
  /\ wakeAt <= now + LongestSleep
  /\ \A r \in Peers : wakeAt <= active_remotes[r] + PeerTimeout + LongestSleep

ServerInv == TypeOK /\ TableFits /\ WakesInTime

(* What Admit and Expire do to the set of peers.                           *)
LEMMA AdmitPeers ==
  ASSUME TypeOK, TableFits, NEW r \in Remote, Admit(r)
  PROVE  /\ active_remotes' \in [Remote -> Nat \cup {Absent}]
         /\ active_remotes'[r] = now
         /\ \A s \in Remote \ {r} :
              active_remotes'[s] = active_remotes[s] \/ active_remotes'[s] = Absent
         /\ TableFits'
<1>0. /\ now \in Nat /\ now # Absent /\ MaxPeers \in Nat \ {0}
      /\ active_remotes \in [Remote -> Nat \cup {Absent}]
      /\ IsFiniteSet(Peers) /\ Cardinality(Peers) <= MaxPeers /\ Cardinality(Peers) \in Nat
  BY ServerAssumption, FS_CardinalityType DEF TypeOK, TableFits
<1>1. CASE ~Known(r) /\ Crowded
  <2>1. PICK o \in Remote :
          /\ Oldest(o)
          /\ active_remotes' = [active_remotes EXCEPT ![o] = Absent, ![r] = now]
    BY <1>1 DEF Admit
  <2>2. o # r /\ o \in Peers /\ r \notin Peers
    BY <1>1, <2>1 DEF Oldest, Peers
  <2>3. Peers' = (Peers \ {o}) \cup {r}
    BY <1>0, <2>1, <2>2 DEF Peers, Known
  <2>4. IsFiniteSet(Peers \ {o}) /\ Cardinality(Peers \ {o}) = Cardinality(Peers) - 1
    BY <1>0, <2>2, FS_RemoveElement
  <2>5. IsFiniteSet(Peers') /\ Cardinality(Peers') = Cardinality(Peers) - 1 + 1
    BY <2>2, <2>3, <2>4, FS_AddElement
  <2>6. QED
    BY <1>0, <2>1, <2>2, <2>5 DEF TableFits
<1>2. CASE ~(~Known(r) /\ Crowded)
  <2>1. active_remotes' = [active_remotes EXCEPT ![r] = now]
    BY <1>2 DEF Admit
  <2>2. Peers' = Peers \cup {r}
    BY <1>0, <2>1 DEF Peers, Known
  <2>3. /\ IsFiniteSet(Peers')
        /\ Cardinality(Peers') = IF r \in Peers THEN Cardinality(Peers)
                                 ELSE Cardinality(Peers) + 1
    BY <1>0, <2>2, FS_AddElement
  <2>4. r \notin Peers => Cardinality(Peers) < MaxPeers
    BY <1>0, <1>2 DEF Crowded, Peers
  <2>5. QED
    BY <1>0, <2>1, <2>3, <2>4 DEF TableFits
<1>3. QED
  BY <1>1, <1>2

LEMMA ExpirePeers ==
  ASSUME TypeOK, TableFits, Expire
  PROVE  /\ active_remotes' \in [Remote -> Nat \cup {Absent}]
         /\ Peers' = {r \in Remote : Fresh(r)}
         /\ \A r \in Peers' : /\ r \in Peers /\ active_remotes'[r] = active_remotes[r]
                              /\ now - active_remotes[r] <= PeerTimeout
         /\ TableFits'
<1>1. active_remotes \in [Remote -> Nat \cup {Absent}]
  BY DEF TypeOK
<1>2. Peers' = {r \in Remote : Fresh(r)}
  BY DEF Peers, Known, Expire, Fresh
<1>3. Peers' \subseteq Peers
  BY <1>2 DEF Peers, Fresh
<1>4. TableFits'
  <2>1. IsFiniteSet(Peers') /\ Cardinality(Peers') <= Cardinality(Peers)
    BY <1>3, FS_Subset DEF TableFits
  <2>2. Cardinality(Peers') \in Nat /\ Cardinality(Peers) \in Nat /\ MaxPeers \in Nat
    BY <2>1, FS_CardinalityType, ServerAssumption DEF TableFits
  <2>3. QED
    BY <2>1, <2>2 DEF TableFits
<1>5. QED
  BY <1>1, <1>2, <1>3, <1>4 DEF Expire, Fresh

LEMMA ServerInvInit == Init => ServerInv
<1> SUFFICES ASSUME Init PROVE ServerInv
  OBVIOUS
<1>1. Peers = {}
  BY DEF Init, Peers, Known
<1>2. TypeOK
  BY <1>1, ServerAssumption DEF Init, TypeOK, Nothing
<1>3. TableFits
  BY <1>1, FS_EmptySet, ServerAssumption DEF TableFits
<1>4. WakesInTime
  BY <1>1, LongestSleepBounds, ServerAssumption DEF Init, WakesInTime
<1>5. QED
  BY <1>2, <1>3, <1>4 DEF ServerInv

LEMMA DatagramKeepsInv ==
  ASSUME ServerInv, NEW r \in Remote, NEW reply \in BOOLEAN, DatagramReceived(r, reply)
  PROVE  ServerInv'
<1>1. /\ Admit(r) /\ now' = now /\ wakeAt' = wakeAt /\ last_send' = last_send
      /\ now \in Nat /\ wakeAt \in Nat /\ Absent \notin Nat
  BY ServerAssumption DEF DatagramReceived, ServerInv, TypeOK
<1>2. /\ active_remotes' \in [Remote -> Nat \cup {Absent}]
      /\ active_remotes'[r] = now
      /\ \A s \in Remote \ {r} :
           active_remotes'[s] = active_remotes[s] \/ active_remotes'[s] = Absent
      /\ TableFits'
  BY <1>1, AdmitPeers DEF ServerInv
<1>3. \A s \in Peers' : s = r \/ (s \in Peers /\ active_remotes'[s] = active_remotes[s])
  BY <1>2 DEF Peers, Known
<1>4. \A s \in Peers' : active_remotes'[s] <= now'
  BY <1>1, <1>2, <1>3 DEF ServerInv, TypeOK
<1>5. seq_no' \in 0 .. SeqSpace - 1
  BY ServerAssumption DEF DatagramReceived, ServerInv, TypeOK
<1>6. packets' \in [to : SUBSET Remote, frames : SUBSET Publisher, reply : BOOLEAN]
  <2>1. \/ packets' = [to |-> {r}, frames |-> {}, reply |-> TRUE]
        \/ packets' = [to |-> {}, frames |-> {}, reply |-> FALSE]
    BY DEF DatagramReceived, Nothing
  <2>2. /\ {r} \in SUBSET Remote /\ {} \in SUBSET Remote /\ {} \in SUBSET Publisher
        /\ TRUE \in BOOLEAN /\ FALSE \in BOOLEAN
    OBVIOUS
  <2>3. CASE packets' = [to |-> {r}, frames |-> {}, reply |-> TRUE]
    BY <2>2, <2>3, Zenon
  <2>4. CASE packets' = [to |-> {}, frames |-> {}, reply |-> FALSE]
    BY <2>2, <2>4, Zenon
  <2>5. QED
    BY <2>1, <2>3, <2>4
<1>7. TypeOK'
  BY <1>1, <1>2, <1>4, <1>5, <1>6 DEF TypeOK, ServerInv
<1>8. WakesInTime'
  <2>1. LongestSleep \in Nat /\ PeerTimeout \in Nat
    BY LongestSleepBounds, ServerAssumption
  <2>2. \A s \in Peers' : wakeAt <= active_remotes'[s] + PeerTimeout + LongestSleep
    BY <1>1, <1>2, <1>3, <2>1 DEF ServerInv, WakesInTime
  <2>3. QED
    BY <1>1, <2>2 DEF ServerInv, WakesInTime
<1>9. QED
  BY <1>2, <1>7, <1>8 DEF ServerInv

(* What the two kinds of iteration have in common: they expire peers, and  *)
(* then sleep for at most LongestSleep.                                    *)
LEMMA LoopKeepsInv ==
  ASSUME ServerInv, now' = now, Expire, NEW n \in Nat, n <= LongestSleep,
         wakeAt' = now + n,
         seq_no' \in 0 .. SeqSpace - 1,
         last_send' \in [Publisher -> 0 .. now],
         packets' \in [to : SUBSET Remote, frames : SUBSET Publisher, reply : BOOLEAN]
  PROVE  ServerInv'
<1>1. now \in Nat /\ wakeAt' \in Nat /\ MaxLag \in Nat /\ PeerTimeout \in Nat
  BY ServerAssumption DEF ServerInv, TypeOK
<1>2. /\ active_remotes' \in [Remote -> Nat \cup {Absent}]
      /\ \A r \in Peers' : /\ r \in Peers /\ active_remotes'[r] = active_remotes[r]
                           /\ now - active_remotes[r] <= PeerTimeout
      /\ TableFits'
  BY ExpirePeers DEF ServerInv
<1>3. \A r \in Peers : active_remotes[r] <= now /\ active_remotes[r] \in Nat
  BY DEF ServerInv, TypeOK, Peers, Known
<1>4. TypeOK'
  BY <1>1, <1>2, <1>3 DEF TypeOK
<1>5. WakesInTime'
  BY <1>1, <1>2, <1>3, LongestSleepBounds DEF WakesInTime
<1>6. QED
  BY <1>2, <1>4, <1>5 DEF ServerInv

LEMMA IdleKeepsInv ==
  ASSUME ServerInv, Idle
  PROVE  ServerInv'
<1>1. /\ now' = now /\ Expire /\ wakeAt' = now + IdleSleep
      /\ seq_no' = seq_no /\ last_send' = last_send /\ packets' = Nothing
  BY DEF Idle
<1>2. IdleSleep \in Nat /\ IdleSleep <= LongestSleep
  BY LongestSleepBounds, ServerAssumption
<1>3. /\ seq_no' \in 0 .. SeqSpace - 1 /\ last_send' \in [Publisher -> 0 .. now]
      /\ packets' \in [to : SUBSET Remote, frames : SUBSET Publisher, reply : BOOLEAN]
  BY <1>1 DEF ServerInv, TypeOK, Nothing
<1>4. QED
  BY <1>1, <1>2, <1>3, LoopKeepsInv

LEMMA PublishTypes ==
  ASSUME ServerInv, NEW failed, Publish(failed)
  PROVE  /\ seq_no' \in 0 .. SeqSpace - 1
         /\ last_send' \in [Publisher -> 0 .. now]
         /\ packets' \in [to : SUBSET Remote, frames : SUBSET Publisher, reply : BOOLEAN]
<1> DEFINE frames == Due \ failed
           to == IF frames = {} THEN {} ELSE {r \in Remote : Fresh(r)}
<1>1. /\ last_send' = [p \in Publisher |-> IF p \in frames THEN now ELSE last_send[p]]
      /\ packets' = [to |-> to, frames |-> frames, reply |-> FALSE]
      /\ seq_no' = (seq_no + Cardinality(to)) % SeqSpace
  BY DEF Publish
<1>2. to \subseteq Peers /\ to \subseteq Remote /\ frames \subseteq Publisher
  BY DEF Fresh, Peers, Due
<1>3. Cardinality(to) \in Nat
  <2> HIDE DEF to
  <2> QED BY <1>2, FS_Subset, FS_CardinalityType DEF ServerInv, TableFits
<1>4. now \in Nat /\ last_send \in [Publisher -> 0 .. now] /\ seq_no \in 0 .. SeqSpace - 1
  BY DEF ServerInv, TypeOK
<1>5. QED
  <2> HIDE DEF to, frames
  <2> QED BY <1>1, <1>2, <1>3, <1>4, ServerAssumption

LEMMA PublishKeepsInv ==
  ASSUME ServerInv, NEW failed, Publish(failed)
  PROVE  ServerInv'
<1>1. now \in Nat /\ now' = now /\ Expire /\ wakeAt' = now + SleepWithPeers
  BY DEF Publish, ServerInv, TypeOK
<1>2. /\ seq_no' \in 0 .. SeqSpace - 1
      /\ last_send' \in [Publisher -> 0 .. now]
      /\ packets' \in [to : SUBSET Remote, frames : SUBSET Publisher, reply : BOOLEAN]
  BY PublishTypes
<1>3. SleepWithPeers \in Nat /\ SleepWithPeers <= LongestSleep
  BY <1>1, <1>2, SleepBounds
<1>4. QED
  BY <1>1, <1>2, <1>3, LoopKeepsInv

LEMMA TickKeepsInv ==
  ASSUME ServerInv, Tick
  PROVE  ServerInv'
<1>1. /\ now \in Nat /\ now' = now + 1 /\ now < wakeAt + MaxLag
      /\ active_remotes' = active_remotes /\ seq_no' = seq_no
      /\ wakeAt' = wakeAt /\ last_send' = last_send /\ packets' = Nothing
      /\ wakeAt \in Nat /\ MaxLag \in Nat
  BY ServerAssumption DEF Tick, ServerInv, TypeOK
<1>2. Peers' = Peers
  BY <1>1 DEF Peers, Known
<1>3. \A r \in Peers : active_remotes[r] <= now + 1
  <2>1. \A r \in Peers : active_remotes[r] <= now /\ active_remotes[r] \in Nat
    BY DEF ServerInv, TypeOK, Peers, Known
  <2>2. QED
    BY <1>1, <2>1
<1>4. last_send \in [Publisher -> 0 .. now + 1]
  <2>1. last_send \in [Publisher -> 0 .. now]
    BY DEF ServerInv, TypeOK
  <2>2. QED
    BY <1>1, <2>1
<1>5. TypeOK'
  BY <1>1, <1>2, <1>3, <1>4 DEF TypeOK, ServerInv, Nothing
<1>6. WakesInTime'
  BY <1>1, <1>2, LongestSleepBounds DEF ServerInv, WakesInTime
<1>7. QED
  BY <1>1, <1>2, <1>5, <1>6 DEF ServerInv, TableFits

LEMMA StutterKeepsInv ==
  ASSUME ServerInv, UNCHANGED svars
  PROVE  ServerInv'
<1>1. Peers' = Peers
  BY DEF svars, Peers, Known
<1>2. QED
  BY <1>1 DEF svars, ServerInv, TypeOK, TableFits, WakesInTime

LEMMA ServerInvStep ==
  ASSUME ServerInv, [Next]_svars
  PROVE  ServerInv'
<1>1. CASE \E r \in Remote, reply \in BOOLEAN : DatagramReceived(r, reply)
  BY <1>1, DatagramKeepsInv
<1>2. CASE Idle
  BY <1>2, IdleKeepsInv
<1>3. CASE \E failed \in SUBSET Faulty : Publish(failed)
  BY <1>3, PublishKeepsInv
<1>4. CASE Tick
  BY <1>4, TickKeepsInv
<1>5. CASE UNCHANGED svars
  BY <1>5, StutterKeepsInv
<1>6. QED
  BY <1>1, <1>2, <1>3, <1>4, <1>5 DEF Next

(* ------------------------------- Theorems ------------------------------ *)

(* The table fits, and the loop wakes in time, in every reachable state of *)
(* the server (app_runtime.py:36-127).                                     *)
THEOREM ServerInvariant == Spec => []ServerInv
<1>1. Init => ServerInv
  BY ServerInvInit
<1>2. ServerInv /\ [Next]_svars => ServerInv'
  BY ServerInvStep
<1>3. QED
  BY <1>1, <1>2, PTL DEF Spec

(* Type correctness (app_runtime.py:37-43).                                *)
THEOREM ServerTypeOK == Spec => []TypeOK
<1>1. ServerInv => TypeOK
  BY DEF ServerInv
<1>2. QED
  BY <1>1, ServerInvariant, PTL

(* The table of peers never outgrows max_peers (app_runtime.py:53-68).     *)
THEOREM ServerPeersBounded == Spec => []PeersBounded
<1>1. ServerInv => PeersBounded
  BY DEF ServerInv, TableFits, PeersBounded
<1>2. QED
  BY <1>1, ServerInvariant, PTL

(* Silent peers are forgotten within the timeout, the longest sleep and    *)
(* the lag, by a loop that is the only one to look (app_runtime.py:103).   *)
THEOREM ServerSilentPeersForgotten == Spec => []SilentPeersForgotten
<1>1. ServerInv => SilentPeersForgotten
  <2> SUFFICES ASSUME ServerInv, NEW r \in Peers
               PROVE  now - active_remotes[r] <= PeerTimeout + LongestSleep + MaxLag
    BY DEF SilentPeersForgotten
  <2>1. active_remotes[r] \in Nat /\ now \in Nat /\ wakeAt \in Nat
    BY DEF ServerInv, TypeOK, Peers, Known
  <2>2. now <= wakeAt + MaxLag /\ wakeAt <= active_remotes[r] + PeerTimeout + LongestSleep
    BY DEF ServerInv, WakesInTime
  <2>3. QED
    BY <2>1, <2>2, LongestSleepBounds, ServerAssumption
<1>2. QED
  BY <1>1, ServerInvariant, PTL
-----------------------------------------------------------------------------
GhostTypes ==
  /\ heard \in [Remote -> Nat \cup {Absent}]
  /\ evicted \subseteq Remote
  /\ joined \in [Remote -> Nat]
  /\ hadPeers \in BOOLEAN

(* The table and the history agree: it holds the time each of its peers    *)
(* was last heard, and everybody who is entitled to be in it.              *)
TableIsHistory ==
  /\ \A r \in Peers : active_remotes[r] = heard[r] /\ r \notin evicted
  /\ \A r \in Remote : Entitled(r) => r \in Peers

(* When the loop wakes next, no healthy publisher will be late by as much  *)
(* as a minimal sleep, if it found peers the last time ...                 *)
Punctual ==
  hadPeers => \A p \in Publisher \ Faulty : wakeAt < last_send[p] + Interval[p] + MinSleep

Patience(p) == Max({LongestSleep, Interval[p] + MinSleep - 1})

(* ... and no peer will have waited longer than PeersServed allows.        *)
ServedByThen ==
  \A r \in Remote, p \in Publisher \ Faulty :
    Entitled(r) => wakeAt <= Max({joined[r], last_send[p]}) + Patience(p)

ContractInv ==
  /\ ServerInv
  /\ GhostTypes
  /\ TableIsHistory
  /\ BroadcastsReachEntitled
  /\ Punctual
  /\ ServedByThen

LEMMA PatienceBounds ==
  ASSUME NEW p \in Publisher
  PROVE  /\ Patience(p) \in Nat /\ Patience(p) >= LongestSleep
         /\ Patience(p) >= Interval[p] + MinSleep - 1
<1>1. Interval[p] \in Nat \ {0} /\ MinSleep \in Nat \ {0} /\ LongestSleep \in Nat
  BY ServerAssumption, LongestSleepBounds
<1>2. QED
  BY <1>1, MaxOfTwo DEF Patience

LEMMA ContractInit == CInit => ContractInv
<1> SUFFICES ASSUME CInit PROVE ContractInv
  OBVIOUS
<1>1. ServerInv
  BY ServerInvInit DEF CInit
<1>2. Peers = {} /\ \A r \in Remote : ~Entitled(r)
  BY DEF CInit, Init, Peers, Known, Entitled
<1>3. GhostTypes
  BY ServerAssumption DEF CInit, GhostTypes
<1>4. packets.frames = {} /\ hadPeers = FALSE
  BY DEF CInit, Init, Nothing
<1>5. QED
  BY <1>1, <1>2, <1>3, <1>4
     DEF ContractInv, TableIsHistory, BroadcastsReachEntitled, Punctual, ServedByThen
-----------------------------------------------------------------------------
(* ------------------------------ Datagrams ------------------------------ *)

LEMMA DatagramKeepsContract ==
  ASSUME ContractInv, NEW r \in Remote, NEW reply \in BOOLEAN, Datagram(r, reply)
  PROVE  ContractInv'
<1>1. ServerInv'
  BY DatagramKeepsInv DEF Datagram, ContractInv
<1>2. /\ Admit(r) /\ now' = now /\ wakeAt' = wakeAt /\ last_send' = last_send
      /\ heard' = [heard EXCEPT ![r] = now]
      /\ evicted' = (evicted \cup (Peers \ Peers')) \ {r}
      /\ joined' = IF Entitled(r) THEN joined ELSE [joined EXCEPT ![r] = now]
      /\ hadPeers' = hadPeers
  BY DEF Datagram, DatagramReceived
<1>3. /\ now \in Nat /\ wakeAt \in Nat /\ Absent \notin Nat /\ GhostTypes
      /\ PeerTimeout \in Nat /\ last_send \in [Publisher -> 0 .. now]
  BY ServerAssumption DEF ContractInv, ServerInv, TypeOK
<1>4. /\ active_remotes'[r] = now
      /\ \A s \in Remote \ {r} :
           active_remotes'[s] = active_remotes[s] \/ active_remotes'[s] = Absent
  BY <1>2, AdmitPeers DEF ContractInv, ServerInv
<1>5. GhostTypes'
  BY <1>2, <1>3 DEF GhostTypes, Peers
<1>6. r \in Peers' /\ \A s \in Peers' : s = r \/ s \in Peers
  BY <1>3, <1>4 DEF Peers, Known
<1>7. \A s \in Remote \ {r} : Entitled(s)' => Entitled(s) /\ s \notin Peers \ Peers'
  BY <1>2, <1>3 DEF Entitled, GhostTypes
<1>8. TableIsHistory'
  <2>1. \A s \in Peers' : active_remotes'[s] = heard'[s] /\ s \notin evicted'
    <3> SUFFICES ASSUME NEW s \in Peers'
                 PROVE  active_remotes'[s] = heard'[s] /\ s \notin evicted'
      OBVIOUS
    <3>1. CASE s = r
      BY <1>2, <1>3, <1>4, <3>1 DEF GhostTypes
    <3>2. CASE s # r
      <4>1. s \in Peers /\ s \in Remote
        BY <1>6, <3>2 DEF Peers
      <4>2. active_remotes'[s] = active_remotes[s]
        BY <1>4, <3>2, <4>1 DEF Peers, Known
      <4>3. QED
        BY <1>2, <1>3, <3>2, <4>1, <4>2 DEF ContractInv, TableIsHistory, GhostTypes
    <3>3. QED
      BY <3>1, <3>2
  <2>2. \A s \in Remote : Entitled(s)' => s \in Peers'
    BY <1>6, <1>7 DEF ContractInv, TableIsHistory
  <2>3. QED
    BY <2>1, <2>2 DEF TableIsHistory
<1>9. BroadcastsReachEntitled'
  <2>1. packets'.frames = {}
    BY DEF Datagram, DatagramReceived, Nothing
  <2>2. QED
    BY <2>1 DEF BroadcastsReachEntitled
<1>10. Punctual'
  BY <1>2 DEF ContractInv, Punctual
<1>11. ServedByThen'
  <2> SUFFICES ASSUME NEW s \in Remote, NEW p \in Publisher \ Faulty, Entitled(s)'
               PROVE  wakeAt <= Max({joined'[s], last_send[p]}) + Patience(p)
    BY <1>2 DEF ServedByThen, Patience, LongestSleep
  <2>1. CASE joined'[s] = joined[s] /\ Entitled(s)
    BY <2>1 DEF ContractInv, ServedByThen
  <2>2. CASE s = r /\ joined'[s] = now
    <3>1. wakeAt <= now + LongestSleep
      BY DEF ContractInv, ServerInv, WakesInTime
    <3>2. now \in Int /\ last_send[p] \in Int
      BY <1>3
    <3>3. Max({now, last_send[p]}) >= now /\ Max({now, last_send[p]}) \in Int
      BY <3>2, MaxOfTwo
    <3>4. QED
      BY <1>3, <2>2, <3>1, <3>3, PatienceBounds, LongestSleepBounds
  <2>3. QED
    BY <1>2, <1>3, <1>7, <2>1, <2>2 DEF GhostTypes
<1>12. QED
  BY <1>1, <1>5, <1>8, <1>9, <1>10, <1>11 DEF ContractInv
-----------------------------------------------------------------------------
(* ------------------------- Iterations of the loop ---------------------- *)

(* At an iteration, the fresh are the entitled.                            *)
LEMMA FreshIsEntitled ==
  ASSUME ContractInv
  PROVE  {r \in Remote : Fresh(r)} = {r \in Remote : Entitled(r)}
<1>1. \A r \in Remote : Fresh(r) => Entitled(r)
  BY DEF ContractInv, TableIsHistory, Fresh, Entitled, Peers, Known
<1>2. \A r \in Remote : Entitled(r) => Fresh(r)
  BY DEF ContractInv, TableIsHistory, Fresh, Entitled, Peers, Known
<1>3. QED
  BY <1>1, <1>2

LEMMA LoopKeepsHistory ==
  ASSUME ContractInv, Expire, now' = now, UNCHANGED <<heard, evicted, joined>>
  PROVE  TableIsHistory'
<1>1. /\ Peers' = {r \in Remote : Fresh(r)}
      /\ \A r \in Peers' : r \in Peers /\ active_remotes'[r] = active_remotes[r]
  BY ExpirePeers DEF ContractInv, ServerInv
<1>2. \A r \in Remote : Entitled(r)' <=> Entitled(r)
  BY DEF Entitled
<1>3. QED
  BY <1>1, <1>2, FreshIsEntitled DEF ContractInv, TableIsHistory

LEMMA IdleKeepsContract ==
  ASSUME ContractInv, Idle, hadPeers' = FALSE, UNCHANGED <<heard, evicted, joined>>
  PROVE  ContractInv'
<1>1. ServerInv'
  BY IdleKeepsInv DEF ContractInv
<1>2. now' = now /\ Expire /\ packets' = Nothing /\ ~\E r \in Remote : Fresh(r)
  BY DEF Idle
<1>3. TableIsHistory'
  BY <1>2, LoopKeepsHistory
<1>4. GhostTypes'
  BY DEF ContractInv, GhostTypes
<1>5. BroadcastsReachEntitled' /\ Punctual'
  BY <1>2 DEF BroadcastsReachEntitled, Punctual, Nothing
<1>6. ServedByThen'
  <2>1. \A r \in Remote : ~Entitled(r)'
    BY <1>2, FreshIsEntitled DEF Entitled
  <2>2. QED
    BY <2>1 DEF ServedByThen
<1>7. QED
  BY <1>1, <1>3, <1>4, <1>5, <1>6 DEF ContractInv

(* An iteration that found peers leaves every healthy publisher a wake-up  *)
(* before it is late by a minimal sleep: those due have just sent, and the *)
(* sleep ends by the time the others are due, or is minimal.               *)
LEMMA PublishIsPunctual ==
  ASSUME ServerInv, NEW failed, Publish(failed), NEW p \in Publisher \ Faulty
  PROVE  wakeAt' < last_send'[p] + Interval[p] + MinSleep
<1>1. /\ now \in Nat /\ wakeAt' = now + SleepWithPeers
      /\ last_send' \in [Publisher -> 0 .. now]
      /\ Interval[p] \in Nat \ {0} /\ MinSleep \in Nat \ {0}
  BY PublishTypes, ServerAssumption DEF Publish, ServerInv, TypeOK
<1>2. last_send'[p] \in 0 .. now /\ last_send[p] \in 0 .. now
  BY <1>1 DEF ServerInv, TypeOK
<1>3. now < last_send'[p] + Interval[p]
  <2>1. last_send'[p] = IF p \in Due \ failed THEN now ELSE last_send[p]
    BY DEF Publish
  <2>2. p \notin failed
    BY DEF Publish
  <2>3. p \in Due <=> now - last_send[p] >= Interval[p]
    BY DEF Due
  <2>4. QED
    BY <1>1, <1>2, <2>1, <2>2, <2>3
<1>4. /\ SleepWithPeers \in Nat
      /\ SleepWithPeers <= MinSleep \/ SleepWithPeers <= Wait(p)
  BY <1>1, SleepBounds
<1>5. Wait(p) \in Nat /\ now + Wait(p) = last_send'[p] + Interval[p]
  BY <1>1, <1>2, <1>3, WaitValue
<1>6. QED
  BY <1>1, <1>2, <1>3, <1>4, <1>5

LEMMA BroadcastKeepsContract ==
  ASSUME ContractInv, NEW failed, Broadcast(failed)
  PROVE  ContractInv'
<1>1. ServerInv' /\ ServerInv
  BY PublishKeepsInv DEF ContractInv, Broadcast
<1>2. /\ now' = now /\ Expire /\ Publish(failed)
      /\ hadPeers' = TRUE /\ UNCHANGED <<heard, evicted, joined>>
  BY DEF Broadcast, Publish
<1>3. TableIsHistory'
  BY <1>2, LoopKeepsHistory
<1>4. GhostTypes'
  BY <1>2 DEF ContractInv, GhostTypes
<1>5. BroadcastsReachEntitled'
  <2>1. packets'.frames # {} => packets'.to = {r \in Remote : Fresh(r)}
    BY <1>2 DEF Publish
  <2>2. {r \in Remote : Entitled(r)}' = {r \in Remote : Entitled(r)}
    BY <1>2 DEF Entitled
  <2>3. QED
    BY <2>1, <2>2, FreshIsEntitled DEF BroadcastsReachEntitled
<1>6. \A p \in Publisher \ Faulty : wakeAt' < last_send'[p] + Interval[p] + MinSleep
  BY <1>1, <1>2, PublishIsPunctual
<1>7. Punctual'
  BY <1>6 DEF Punctual
<1>8. ServedByThen'
  <2> SUFFICES ASSUME NEW r \in Remote, NEW p \in Publisher \ Faulty
               PROVE  wakeAt' <= Max({joined'[r], last_send'[p]}) + Patience(p)
    BY DEF ServedByThen, Patience, LongestSleep
  <2>1. /\ joined'[r] \in Nat /\ last_send'[p] \in Nat /\ wakeAt' \in Nat
        /\ Interval[p] \in Nat /\ MinSleep \in Nat
    BY <1>1, <1>4, ServerAssumption DEF GhostTypes, ServerInv, TypeOK
  <2>2. /\ Max({joined'[r], last_send'[p]}) >= last_send'[p]
        /\ Max({joined'[r], last_send'[p]}) \in Int
    BY <2>1, MaxOfTwo
  <2>3. Patience(p) \in Nat /\ Patience(p) >= Interval[p] + MinSleep - 1
    BY PatienceBounds
  <2>4. QED
    BY <1>6, <2>1, <2>2, <2>3
<1>9. QED
  BY <1>1, <1>3, <1>4, <1>5, <1>7, <1>8 DEF ContractInv

LEMMA TickKeepsContract ==
  ASSUME ContractInv, Tick, UNCHANGED gvars
  PROVE  ContractInv'
<1>1. ServerInv' /\ ServerInv
  BY TickKeepsInv DEF ContractInv
<1>2. /\ now \in Nat /\ now' = now + 1 /\ packets' = Nothing /\ PeerTimeout \in Nat
      /\ UNCHANGED <<active_remotes, wakeAt, last_send, heard, evicted, joined, hadPeers>>
  BY <1>1, ServerAssumption DEF Tick, gvars, ServerInv, TypeOK
<1>3. \A r \in Remote : Entitled(r)' => Entitled(r)
  <2> SUFFICES ASSUME NEW r \in Remote, Entitled(r)' PROVE Entitled(r)
    OBVIOUS
  <2>1. heard'[r] = heard[r] /\ (r \in evicted' <=> r \in evicted) /\ now' = now + 1
    BY <1>2
  <2>2. heard'[r] # Absent /\ r \notin evicted' /\ now' - heard'[r] <= PeerTimeout
    BY DEF Entitled
  <2>3. heard[r] \in Nat /\ r \notin evicted
    BY <2>1, <2>2 DEF ContractInv, GhostTypes
  <2>4. heard'[r] \in Nat /\ now' \in Nat
    BY <1>2, <2>1, <2>3
  <2>5. now - heard[r] <= PeerTimeout
    BY <1>2, <2>1, <2>2, <2>3, <2>4
  <2>6. QED
    BY <2>1, <2>2, <2>3, <2>5 DEF Entitled
<1>4. Peers' = Peers
  BY <1>2 DEF Peers, Known
<1>5. TableIsHistory'
  BY <1>2, <1>3, <1>4 DEF ContractInv, TableIsHistory
<1>6. GhostTypes' /\ Punctual'
  BY <1>2 DEF ContractInv, GhostTypes, Punctual
<1>7. BroadcastsReachEntitled'
  BY <1>2 DEF BroadcastsReachEntitled, Nothing
<1>8. ServedByThen'
  BY <1>2, <1>3 DEF ContractInv, ServedByThen, Patience, LongestSleep
<1>9. QED
  BY <1>1, <1>5, <1>6, <1>7, <1>8 DEF ContractInv

LEMMA StutterKeepsContract ==
  ASSUME ContractInv, UNCHANGED <<svars, gvars>>
  PROVE  ContractInv'
<1>1. ServerInv'
  BY StutterKeepsInv DEF ContractInv
<1>2. UNCHANGED <<now, active_remotes, wakeAt, last_send, packets>> /\ UNCHANGED gvars
  BY DEF svars
<1>3. Peers' = Peers /\ \A r \in Remote : Entitled(r)' <=> Entitled(r)
  BY <1>2 DEF Peers, Known, Entitled, gvars
<1>4. TableIsHistory' /\ GhostTypes' /\ Punctual'
  BY <1>2, <1>3 DEF ContractInv, TableIsHistory, GhostTypes, Punctual, gvars
<1>5. BroadcastsReachEntitled'
  BY <1>2, <1>3 DEF ContractInv, BroadcastsReachEntitled
<1>6. ServedByThen'
  BY <1>2, <1>3 DEF ContractInv, ServedByThen, Patience, LongestSleep, gvars
<1>7. QED
  BY <1>1, <1>4, <1>5, <1>6 DEF ContractInv

LEMMA ContractStep ==
  ASSUME ContractInv, [CNext]_<<svars, gvars>>
  PROVE  ContractInv'
<1>1. CASE \E r \in Remote, reply \in BOOLEAN : Datagram(r, reply)
  BY <1>1, DatagramKeepsContract
<1>2. CASE Idle /\ hadPeers' = FALSE /\ UNCHANGED <<heard, evicted, joined>>
  BY <1>2, IdleKeepsContract
<1>3. CASE \E failed \in SUBSET Faulty : Broadcast(failed)
  BY <1>3, BroadcastKeepsContract
<1>4. CASE Tick /\ UNCHANGED gvars
  BY <1>4, TickKeepsContract
<1>5. CASE UNCHANGED <<svars, gvars>>
  BY <1>5, StutterKeepsContract
<1>6. QED
  BY <1>1, <1>2, <1>3, <1>4, <1>5 DEF CNext

(* ------------------------------- Theorems ------------------------------ *)

(* The table, the history and the loop's next waking agree in every        *)
(* reachable state (app_runtime.py:36-127).                                *)
THEOREM ContractInvariant == CSpec => []ContractInv
<1>1. CInit => ContractInv
  BY ContractInit
<1>2. ContractInv /\ [CNext]_<<svars, gvars>> => ContractInv'
  BY ContractStep
<1>3. QED
  BY <1>1, <1>2, PTL DEF CSpec

(* A broadcast reaches exactly the addresses entitled to it                *)
(* (app_runtime.py:103-121).                                               *)
THEOREM ContractBroadcasts == CSpec => []BroadcastsReachEntitled
<1>1. ContractInv => BroadcastsReachEntitled
  BY DEF ContractInv
<1>2. QED
  BY <1>1, ContractInvariant, PTL

(* While there are peers, no healthy publisher is late by as much as a     *)
(* minimal sleep and the lag, however the others fail (node.py:57-76).     *)
THEOREM ContractHealthyOnTime == CSpec => []HealthyOnTime
<1>1. ContractInv => HealthyOnTime
  <2> SUFFICES ASSUME ContractInv, hadPeers, NEW p \in Publisher \ Faulty
               PROVE  now - last_send[p] < Interval[p] + MinSleep + MaxLag
    BY DEF HealthyOnTime
  <2>1. /\ now \in Nat /\ wakeAt \in Nat /\ last_send[p] \in Nat
        /\ Interval[p] \in Nat /\ MinSleep \in Nat /\ MaxLag \in Nat
    BY ServerAssumption DEF ContractInv, ServerInv, TypeOK
  <2>2. wakeAt < last_send[p] + Interval[p] + MinSleep
    BY DEF ContractInv, Punctual
  <2>3. now <= wakeAt + MaxLag
    BY DEF ContractInv, ServerInv, WakesInTime
  <2>4. QED
    BY <2>1, <2>2, <2>3
<1>2. QED
  BY <1>1, ContractInvariant, PTL

(* No peer waits longer for the frames of a healthy publisher than the     *)
(* longest sleep or its interval, and the lag (app_runtime.py:111-127).    *)
THEOREM ContractPeersServed == CSpec => []PeersServed
<1>1. ContractInv => PeersServed
  <2> SUFFICES ASSUME ContractInv, NEW r \in Remote, NEW p \in Publisher \ Faulty,
                      Entitled(r)
               PROVE  now - Max({joined[r], last_send[p]}) <= Patience(p) + MaxLag
    BY DEF PeersServed, Patience
  <2>1. /\ now \in Nat /\ wakeAt \in Nat /\ MaxLag \in Nat
        /\ joined[r] \in Int /\ last_send[p] \in Int
    BY ServerAssumption DEF ContractInv, ServerInv, TypeOK, GhostTypes
  <2>2. Max({joined[r], last_send[p]}) \in Int
    BY <2>1, MaxOfTwo
  <2>3. wakeAt <= Max({joined[r], last_send[p]}) + Patience(p)
    BY DEF ContractInv, ServedByThen
  <2>4. now <= wakeAt + MaxLag
    BY DEF ContractInv, ServerInv, WakesInTime
  <2>5. Patience(p) \in Nat
    BY PatienceBounds
  <2>6. QED
    BY <2>1, <2>2, <2>3, <2>4, <2>5
<1>2. QED
  BY <1>1, ContractInvariant, PTL

(* Only an address that is not in a full table drops a peer, whose place it*)
(* takes, and only one heard from no later than everybody else in it       *)
(* (app_runtime.py:53-68).                                                 *)
THEOREM ContractEvictsLeastRecent == CSpec => EvictsLeastRecent
<1>1. ContractInv /\ [CNext]_<<svars, gvars>> =>
        [\A o \in evicted' \ evicted :
           /\ \E r \in Remote \ Peers : Peers' = (Peers \ {o}) \cup {r}
           /\ Cardinality(Peers) = MaxPeers
           /\ \A r \in Peers : heard[o] <= heard[r]]_<<svars, gvars>>
  <2> SUFFICES ASSUME ContractInv, CNext, NEW o \in evicted', o \notin evicted
               PROVE  /\ \E r \in Remote \ Peers : Peers' = (Peers \ {o}) \cup {r}
                      /\ Cardinality(Peers) = MaxPeers
                      /\ \A r \in Peers : heard[o] <= heard[r]
    OBVIOUS
  <2>1. PICK r \in Remote, reply \in BOOLEAN : Datagram(r, reply)
    BY DEF CNext, Broadcast, gvars
  <2>2. o \in Peers /\ o \notin Peers' /\ Admit(r)
    BY <2>1 DEF Datagram, DatagramReceived
  <2>3. /\ now \in Nat /\ Absent \notin Nat /\ MaxPeers \in Nat
        /\ active_remotes \in [Remote -> Nat \cup {Absent}]
        /\ Cardinality(Peers) \in Nat /\ Cardinality(Peers) <= MaxPeers
        /\ \A s \in Peers : active_remotes[s] = heard[s]
    BY ServerAssumption, FS_CardinalityType
       DEF ContractInv, ServerInv, TypeOK, TableFits, TableIsHistory
  <2>4. ~Known(r) /\ Crowded
    BY <2>2, <2>3 DEF Admit, Peers, Known
  <2>5. PICK p \in Remote :
          /\ Oldest(p)
          /\ active_remotes' = [active_remotes EXCEPT ![p] = Absent, ![r] = now]
    BY <2>2, <2>4 DEF Admit
  <2>6. o = p
    BY <2>2, <2>3, <2>4, <2>5 DEF Peers, Known
  <2>7. r \in Remote \ Peers
    BY <2>4 DEF Peers
  <2>8. \A s \in Remote : s \in Peers' <=> (s \in Peers /\ s # o) \/ s = r
    BY <2>3, <2>4, <2>5, <2>6 DEF Peers, Known
  <2>9. Peers' = (Peers \ {o}) \cup {r}
    BY <2>7, <2>8 DEF Peers
  <2>10. QED
    BY <2>3, <2>4, <2>5, <2>6, <2>7, <2>9 DEF Crowded, Oldest, Peers
<1>2. QED
  BY <1>1, ContractInvariant, PTL DEF CSpec, EvictsLeastRecent
=============================================================================

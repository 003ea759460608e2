--------------------------- MODULE TransferService ---------------------------
(***************************************************************************)
(* What a receiver may rely on for transfers whose type has a registered   *)
(* DSDL signature, whatever the bus loses, repeats or reorders.  A call of *)
(* the reassembler yields nothing, or one transfer, complete and unaltered,*)
(* that its sender had finished sending.  A transfer of several frames is  *)
(* yielded at most once each time it begins, which is when its first frame *)
(* comes, and not any more when another transfer with its key has begun.   *)
(*                                                                         *)
(* How often a transfer in one frame is yielded is left open: the          *)
(* reassembler answers every copy of it.                                   *)
(***************************************************************************)
CONSTANTS Transfer, Single, Key, KeyOf, Nothing

VARIABLES offered,  \* transfers sent in full
          begun,    \* of each key the last transfer begun, till it is yielded
          got       \* the transfer the last call yielded, or Nothing

svars == <<offered, begun, got>>

Init == offered = {} /\ begun = [k \in Key |-> Nothing] /\ got = Nothing

Offer(x) == offered' = offered \cup {x} /\ UNCHANGED <<begun, got>>

Begin(x) ==
  /\ x \notin Single
  /\ begun' = [begun EXCEPT ![KeyOf[x]] = x]
  /\ got' = Nothing /\ UNCHANGED offered

Deliver(x) ==
  /\ x \in offered
  /\ IF x \in Single THEN UNCHANGED begun
     ELSE begun[KeyOf[x]] = x /\ begun' = [begun EXCEPT ![KeyOf[x]] = Nothing]
  /\ got' = x /\ UNCHANGED offered

Quiet == got' = Nothing /\ UNCHANGED <<offered, begun>>

Next == Quiet \/ \E x \in Transfer : Offer(x) \/ Begin(x) \/ Deliver(x)

Spec == Init /\ [][Next]_svars
=============================================================================

---------------------------- MODULE MCTransferLink ----------------------------
EXTENDS TransferLink, TLC

CONSTANTS x1, x2, x3, x4, k1, k2

(* Two transfers that reuse one checked key; a long one and a single frame *)
(* of another, unchecked key.                                              *)
MCKeyOf == x1 :> k1 @@ x2 :> k1 @@ x3 :> k2 @@ x4 :> k2

MCFrames == x1 :> 3 @@ x2 :> 4 @@ x3 :> 5 @@ x4 :> 1
=============================================================================

--------------------------- MODULE MCServerContract ---------------------------
EXTENDS ServerContract, TLC

CONSTANTS healthy, faulty

MCInterval == healthy :> 3 @@ faulty :> 5

MCSymmetry == Permutations(Remote)
=============================================================================

------------------------- MODULE MCAllocationExchange -------------------------
EXTENDS AllocationExchange

MCPiece == Client \X (1 .. UidLen)
=============================================================================

--------------------------- MODULE MCSlurmBridge ---------------------------
EXTENDS SlurmBridge, TLC
ValidOrNot == BOOLEAN \X {TRUE}
WithResult == {<<TRUE, TRUE>>}
WithoutResult == {<<TRUE, FALSE>>}
RpcSymmetry == Permutations(Rpcs)
=============================================================================

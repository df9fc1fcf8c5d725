---- MODULE MCLowLevelAlloc ----
EXTENDS LowLevelAlloc
\* The first two are adjacent; the last is too small for a single link.
MCBlocks == {128, 192, 512}
MCSizeOf == [b \in MCBlocks |-> CASE b = 128 -> 64 [] b = 192 -> 96 [] OTHER -> 36]
MCRequests == {0, 1, 33, 4095}
MCMinSizes == {0, 96}
====

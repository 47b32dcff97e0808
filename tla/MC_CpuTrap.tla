----------------------------- MODULE MC_CpuTrap -----------------------------
EXTENDS CpuTrap

MCVectors == {4, 8, 48, 168}
MCVectorIpl == [v \in MCVectors |-> 0]
MCRequests == {<<4, 48>>}
=============================================================================

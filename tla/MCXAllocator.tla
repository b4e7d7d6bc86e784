----------------------------- MODULE MCXAllocator -----------------------------
EXTENDS XAllocator, TLC

MCSetup(pools, size, objects) == [pools |-> pools, size |-> size, objects |-> objects]

MCPoolSizes == <<4, 8>>

MCSetups == {MCSetup(FALSE, 4, 0), MCSetup(FALSE, 1, 1), MCSetup(TRUE, 6, 1)}

MCSymmetry == Permutations(Threads)
=============================================================================

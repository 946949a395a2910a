\* The heap ends at the largest address, so that rounding up can overflow.
CONSTANTS
    Callers = {c1, c2}
    HeapStart = 3
    HeapEnd = 7
    MaxAddress = 7
    Sizes = {0, 1, 2}
    Aligns = {1, 3, 4}
    PageSize = 2
    PhysBase = 1
    Total = 2
SPECIFICATION FairSpec
INVARIANTS RegionsDisjoint FreeCountAgrees FramesExclusive
PROPERTIES AllocReturns

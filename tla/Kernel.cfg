CONSTANTS
    Main = Main
    Tasks = {t1, t2}
    None = None
    MaxWord = 9
    UserVirtMax = 8
    ImageLo = 3
    ImageHi = 5
    Ptrs = {0, 2, 5, 9}
    Sizes = {1, 2, 4}
SPECIFICATION FairSpec
INVARIANTS OneOwner ImageProtected
PROPERTIES StackComesFree PanicWipes

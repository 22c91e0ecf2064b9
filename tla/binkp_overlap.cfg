SPECIFICATION Spec
CONSTANTS
    n1 = n1  n2 = n2
    f1 = f1  f2 = f2  f3 = f3  f4 = f4  empty = empty  grown = grown
    Node = {n1, n2}
    File = {f1, f2, f3, f4, empty, grown}
    NoFile = NoFile
    Sender <- SendersBack
    Sessions <- Overlap
    Answers <- AnswersF2
    Size <- Sizes
    Real <- Reals
    Chunk = 2
    Cap = 2
    DEBUG = TRUE
INVARIANT StoredIntact

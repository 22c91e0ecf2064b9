SPECIFICATION Spec
CONSTANTS
 n1 = n1 n2 = n2 f1 = f1 f2 = f2 f3 = f3
 Node = {n1, n2}
 Caller = n1
 File = {f1, f2, f3}
 NoFile = NoFile
 Sessions <- Exceptions
 Size <- F1Longer
 MaxTries = 3
 SkipFin = 2
 Cap = 3
INVARIANT NoFileLost NoCrash EndedSettled

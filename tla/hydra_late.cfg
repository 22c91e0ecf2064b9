SPECIFICATION Spec
CONSTANTS
 n1 = n1 n2 = n2 f1 = f1 f2 = f2 f3 = f3
 Node = {n1, n2}
 File = {f1, f2, f3}
 NoFile = NoFile
 Sender <- AllOfN1
 Sessions <- LateTimer
 Size <- F1Longer
 Real <- F1Longer
 MaxTries = 3
 RposIds = 4
 LongMod = 64
 Cap = 2
INVARIANT NoFileLost StoredIntact

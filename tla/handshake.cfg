SPECIFICATION FairSpec
CONSTANTS
 n1 = n1 n2 = n2
 Caller = n1
 Answerer = n2
 Sessions <- Sample
 MaxUnexpected = 2
INVARIANT ProtocolAgreed RefusalHeard EndsWell
PROPERTY HandshakeEnds

SPECIFICATION FairSpec
CONSTANTS
 pkt = pkt hut = hut bundle = bundle file = file req = req temp = temp
 lo = lo clo = clo
 File = {pkt, hut, bundle, file, req, temp}
 Flo = {lo, clo}
 NoFlo = NoFlo
 Type <- Types
 Flavor <- Flavors
 Starts <- Sample
INVARIANT NothingForgotten SentOnce MostUrgentFirst NoTemporaryLeft
PROPERTY Drains

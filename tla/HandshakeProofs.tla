---------------------------- MODULE HandshakeProofs ----------------------------
(***************************************************************************)
(* Proofs about the handshakes of Handshake: mailers that both go on to    *)
(* the transfer agree on how, and a caller that is turned away does not.   *)
(***************************************************************************)
EXTENDS Handshake, SequenceTheorems, WellFoundedInduction, TLAPS

-----------------------------------------------------------------------------
(* Types                                                                    *)

EmsiStates == {"senddat", "waitack", "sendnak", "waitdat", "rest"}
YoohooStates == {"sendhello", "waitresp", "sendenq", "waitheader", "toss", "resthello"}
State == {"asleep", "wake", "init"} \cup EmsiStates \cup YoohooStates

Verdict == {"OK", "BAD_PASSWD", "BUSY", "LOW_SPEED", "NO_PROTOS", "NO_ADDRESS", "OTHER_ERR"}

Local == [st : State, hs : {"UNKNOWN", "EMSI", "YOOHOO", "FTSC"}, tries : Nat, mast : Nat,
          sync : Nat, enqs : Nat, tsyncs : Nat, unexp : Nat, naked : BOOLEAN,
          verdict : Verdict \cup {"-"}, proto : Protocol \cup {NoProtocol}, rh1 : BOOLEAN,
          holdall : BOOLEAN, mailfor : SUBSET Nat, rc : Verdict \cup {"run", "HANDSHAKE_ERROR"}]

\* What the packets say, and the signs that say nothing.
Info == [protos : SUBSET Protocol, rh1 : BOOLEAN, npu : BOOLEAN, pw : BOOLEAN]
EarlySigns == {"INQ", "YOO", "TSYNC", "CR", "TEXT"}
Plain == EarlySigns \cup {"REQ", "NAK", "ACK", "ACKc", "?", "ENQ"}
Packets == {"DAT", "CUTDAT", "BADDAT", "HELLO", "BADHELLO", "CUTHELLO"}
EarlyItem == [k : EarlySigns, d : {{}}]
PlainItem == [k : Plain, d : {{}}]
Item == PlainItem \cup [k : Packets, d : Info]

TypeOK ==
  /\ sess \in Sessions
  /\ h \in [Node -> Local]
  /\ chan \in [Node -> Seq(Item)]

-----------------------------------------------------------------------------
(***************************************************************************)
(* The answering mailer decides once.  From then on what it decided stays, *)
(* and what it sends says so; nothing the caller could take for a packet   *)
(* is on its way before.  A mailer that is still asleep echoes nothing but *)
(* the signs of a caller that has not recognized a handshake.              *)
(***************************************************************************)
Decided == {"senddat", "waitack", "sendhello", "waitresp"}

HandshakeOk(p) ==
  /\ h[p].st \in EmsiStates => h[p].hs = "EMSI"
  /\ h[p].st \in YoohooStates => h[p].hs = "YOOHOO"

AnswererOk ==
  /\ h[Answerer].st \in Decided <=> h[Answerer].verdict # "-"
  /\ h[Answerer].verdict = "OK" <=> h[Answerer].proto # NoProtocol
  /\ h[Answerer].rh1 => h[Answerer].hs = "EMSI" /\ h[Answerer].verdict # "-"
  /\ h[Answerer].rc = "OK" => h[Answerer].verdict = "OK"

CallerOk ==
  /\ h[Answerer].st = "asleep" => h[Caller].st \in {"wake", "init"}
  /\ h[Caller].rc = "OK" =>
       /\ h[Answerer].verdict = "OK" /\ h[Caller].hs = h[Answerer].hs
       /\ h[Caller].proto = h[Answerer].proto
       /\ h[Caller].proto = "HYD" => h[Caller].rh1 = h[Answerer].rh1

\* What may be on its way.
Answer == {m \in Item :
  /\ m.k = "DAT" => h[Answerer].st \in Decided \cap EmsiStates /\ m.d = EmsiSysInfo(Answerer)
  /\ m.k = "HELLO" => h[Answerer].st \in Decided \cap YoohooStates /\ m.d = YoohooSysInfo(Answerer)}

For(p) == IF h[Answerer].st = "asleep" THEN EarlyItem ELSE IF p = Caller THEN Answer ELSE Item

HInv ==
  /\ TypeOK /\ AnswererOk /\ CallerOk
  /\ \A p \in Node : HandshakeOk(p) /\ chan[p] \in Seq(For(p))

-----------------------------------------------------------------------------
(* What is on its way                                                       *)

\* The locals stay locals when one of them is set.
LEMMA Updates ==
  ASSUME NEW r \in Local
  PROVE  /\ \A x \in State : [r EXCEPT !.st = x] \in Local
         /\ \A x \in {"EMSI", "YOOHOO", "FTSC"} : [r EXCEPT !.hs = x] \in Local
         /\ \A x \in Nat : [r EXCEPT !.tries = x] \in Local
         /\ \A x \in Nat : [r EXCEPT !.mast = x] \in Local
         /\ \A x \in Nat : [r EXCEPT !.sync = x] \in Local
         /\ \A x \in Nat : [r EXCEPT !.enqs = x] \in Local
         /\ \A x \in Nat : [r EXCEPT !.tsyncs = x] \in Local
         /\ \A x \in Nat : [r EXCEPT !.unexp = x] \in Local
         /\ \A x \in BOOLEAN : [r EXCEPT !.naked = x] \in Local
         /\ \A x \in Verdict : [r EXCEPT !.verdict = x] \in Local
         /\ \A x \in Protocol \cup {NoProtocol} : [r EXCEPT !.proto = x] \in Local
         /\ \A x \in BOOLEAN : [r EXCEPT !.rh1 = x] \in Local
         /\ \A x \in BOOLEAN : [r EXCEPT !.holdall = x] \in Local
         /\ \A x \in SUBSET Nat : [r EXCEPT !.mailfor = x] \in Local
         /\ \A x \in Verdict \cup {"HANDSHAKE_ERROR"} : [r EXCEPT !.rc = x] \in Local
BY DEF Local

LEMMA Nodes == /\ Caller \in Node /\ Answerer \in Node /\ Caller # Answerer
               /\ Peer(Caller) = Answerer /\ Peer(Answerer) = Caller
               /\ \A p \in Node : Peer(p) \in Node \ {p} /\ Node = {p, Peer(p)}
BY HandshakeAssumption DEF Node, Peer

\* The first item of a line that holds only items of T is one of them.
LEMMA FirstItem ==
  ASSUME NEW T, NEW s \in Seq(T), s # << >>
  PROVE  s[1] \in T /\ Head(s) = s[1] /\ Tail(s) \in Seq(T) /\ 1 \in 1..Len(s)
BY HeadTailProperties, ElementOfSeq, EmptySeq

LEMMA SignsPlain ==
  ASSUME NEW K, NEW ks \in Seq(K)
  PROVE  Signs(ks) \in Seq([k : K, d : {{}}])
<1>1. DOMAIN ks = 1..Len(ks) /\ Len(ks) \in Nat
  BY LenProperties
<1>2. \A i \in 1..Len(ks) : Sign(ks[i]) \in [k : K, d : {{}}]
  BY ElementOfSeq DEF Sign
<1>3. Signs(ks) \in [1..Len(ks) -> [k : K, d : {{}}]]
  BY <1>1, <1>2 DEF Signs
<1>4. Signs(ks) \in UNION {[1..n -> [k : K, d : {{}}]] : n \in Nat}
  BY <1>1, <1>3
<1> QED BY <1>4, SeqDef

\* Sending ms, and answering the first item with ms, keep to what was on its way.
LEMMA SendsKeeps ==
  ASSUME chan \in [Node -> Seq(Item)], NEW p \in Node, NEW T, NEW U, NEW ms \in Seq(U),
         chan[p] \in Seq(T), chan[Peer(p)] \in Seq(U), Sends(p, ms)
  PROVE  chan' = [q \in Node |-> chan'[q]] /\ chan'[p] \in Seq(T) /\ chan'[Peer(p)] \in Seq(U)
BY Nodes, ConcatProperties DEF Sends

LEMMA AnswersKeeps ==
  ASSUME chan \in [Node -> Seq(Item)], NEW p \in Node, NEW T, NEW U, NEW ms \in Seq(U),
         chan[p] # << >>, chan[p] \in Seq(T), chan[Peer(p)] \in Seq(U), Answers(p, ms)
  PROVE  chan' = [q \in Node |-> chan'[q]] /\ chan'[p] \in Seq(T) /\ chan'[Peer(p)] \in Seq(U)
<1>1. Tail(chan[p]) \in Seq(T)
  BY HeadTailProperties
<1>2. chan[Peer(p)] \o ms \in Seq(U)
  BY ConcatProperties
<1> QED BY <1>1, <1>2, Nodes DEF Answers

-----------------------------------------------------------------------------
(* What is decided                                                          *)

\* The first of the protocols is one that is there, if any of them is.
LEMMA Picked ==
  ASSUME NEW P, NEW order \in Seq(P), NEW S
  PROVE  Pick(order, S) \in S \/ Pick(order, S) = NoProtocol
<1> SUFFICES ASSUME \E i \in DOMAIN order : order[i] \in S
             PROVE  Pick(order, S) \in S
  BY DEF Pick
<1> DEFINE I == {i \in DOMAIN order : order[i] \in S}
<1>1. DOMAIN order = 1..Len(order) /\ Len(order) \in Nat /\ I \subseteq Nat /\ I # {}
  BY LenProperties
<1>2. PICK i \in I : \A j \in I : ~(<<j, i>> \in OpToRel(<, Nat))
  <2> HIDE DEF I
  <2> QED BY <1>1, NatLessThanWellFounded, WFMin
<1>3. ASSUME NEW j \in 1..(i - 1) PROVE order[j] \notin S
  <2>1. j \in DOMAIN order /\ j \in Nat /\ i \in Nat /\ j < i
    BY <1>1
  <2>2. <<j, i>> \in OpToRel(<, Nat)
    BY <2>1 DEF OpToRel
  <2> QED BY <1>2, <2>1, <2>2
<1>4. \E k \in DOMAIN order : order[k] \in S /\ \A j \in 1..(k - 1) : order[j] \notin S
  BY <1>2, <1>3
<1> QED BY <1>4 DEF Pick

\* What a mailer was told.
LEMMA SessionType ==
  ASSUME TypeOK
  PROVE  /\ sess \in Session /\ \A p \in Node : Opts(p) \in Options
         /\ \A p \in Node : MailFor(p) \in SUBSET Nat
<1>1. sess \in Session
  BY HandshakeAssumption DEF TypeOK
<1>2. \A p \in Node : Opts(p) \in Options /\ sess.addrs[p] \in Seq(Address)
  BY <1>1 DEF Session, Opts
<1>3. ASSUME NEW p \in Node PROVE DOMAIN Presented(p) \subseteq Nat
  <2>1. sess.addrs[p] # << >> /\ \A i \in 1..1 : sess.addrs[p][i] \in Address
    BY <1>2, FirstItem, HandshakeAssumption DEF TypeOK
  <2>2. SubSeq(sess.addrs[p], 1, 1) \in Seq(Address)
    BY <2>1, SubSeqProperties
  <2> QED BY <1>2, <2>2, LenProperties DEF Presented
<1> QED BY <1>1, <1>2, <1>3 DEF MailFor, Locked

LEMMA InfoType ==
  ASSUME TypeOK
  PROVE  \A p \in Node : EmsiSysInfo(p) \in Info /\ YoohooSysInfo(p) \in Info
<1> TAKE p \in Node
<1>1. h[p] \in Local /\ Opts(p) \in Options
  BY SessionType DEF TypeOK
<1>2. EmsiSysInfo(p) \in Info
  BY <1>1 DEF EmsiSysInfo, Info, Local, Options
<1>3. YoohooSysInfo(p) \in Info
  BY <1>1 DEF YoohooSysInfo, Info, Local, Options
<1> QED BY <1>2, <1>3

\* A mailer that is called takes the caller if and only if it has a protocol for it.
LEMMA AnswererDecision ==
  ASSUME TypeOK, NEW r \in Local, r.proto = NoProtocol, NEW d \in Info
  PROVE  LET s == AnswererDecides(r, d) IN
         /\ s \in Local /\ s.st = r.st /\ s.hs = r.hs /\ s.rc = r.rc
         /\ s.verdict # "-" /\ (s.verdict = "OK" <=> s.proto # NoProtocol)
         /\ s.rh1 => s.hs = "EMSI"
<1> DEFINE v == AnswererVerdict(d)
           q == Pick(AnswererOrder, d.protos \cap Opts(Answerer).protos)
<1>1. v \in Verdict
  BY DEF AnswererVerdict, Verdict
<1>2. q \in Protocol \cup {NoProtocol}
  <2>1. AnswererOrder \in Seq(Protocol)
    BY DEF AnswererOrder, Protocol
  <2> QED BY <2>1, Picked DEF Info
<1>3. v = "OK" => q # NoProtocol
  BY DEF AnswererVerdict
<1>4. MailFor(Answerer) \in SUBSET Nat
  BY SessionType, Nodes
<1> DEFINE ok == v \in {"OK", "NO_PROTOS"}
           link == ok /\ r.hs = "EMSI" /\ EmsiSendOptions(Answerer, d).rh1
           all == ok /\ r.hs = "EMSI" /\ EmsiSendOptions(Answerer, d).holdall
           mail == IF ok THEN MailFor(Answerer) ELSE r.mailfor
           chosen == IF v = "OK" THEN q ELSE r.proto
           s == [r EXCEPT !.verdict = v, !.proto = chosen,
                          !.rh1 = link, !.holdall = all, !.mailfor = mail]
<1>5. link \in BOOLEAN /\ all \in BOOLEAN /\ (link => r.hs = "EMSI") /\ mail \in SUBSET Nat
      /\ chosen \in Protocol \cup {NoProtocol} /\ chosen = IF v = "OK" THEN q ELSE NoProtocol
  BY <1>2, <1>4 DEF Local
<1>6. AnswererDecides(r, d) = s
  BY DEF AnswererDecides, Local
<1> HIDE DEF v, q, link, all, mail, chosen
<1>7. /\ s.st = r.st /\ s.hs = r.hs /\ s.rc = r.rc /\ s.verdict = v /\ s.rh1 = link
      /\ s.proto = chosen
  BY DEF Local
<1>8. s \in Local
  BY <1>1, <1>5, Updates
<1>9. v # "-" /\ (v = "OK" <=> s.proto # NoProtocol)
  BY <1>1, <1>3, <1>5, <1>7 DEF Verdict
<1> QED BY <1>5, <1>6, <1>7, <1>8, <1>9

\* A caller goes on with a protocol that it was told of.
LEMMA CallerDecision ==
  ASSUME TypeOK, NEW r \in Local, NEW d \in Info
  PROVE  LET s == CallerDecides(r, d) IN
         /\ s \in Local /\ s.st = r.st /\ s.hs = r.hs /\ s.verdict \in Verdict
         /\ s.verdict = "OK" => s.proto \in d.protos /\ s.rh1 = (r.hs = "EMSI" /\ d.rh1)
<1> DEFINE v == CallerVerdict(r.hs, d)
           q == CallerProtocol(r.hs, d)
           o == IF r.hs = "EMSI" THEN EmsiSendOptions(Caller, d) ELSE SendOptions(Caller)
<1>1. v \in Verdict
  BY DEF CallerVerdict, Verdict
<1>2. q \in d.protos \cup {NoProtocol}
  <2>1. /\ <<"HYD", "JAN", "DZA", "ZAP", "ZMO">> \in Seq(Protocol)
        /\ <<"HYD", "JAN", "ZAP", "ZMO">> \in Seq(Protocol)
    BY DEF Protocol
  <2>2. CallerOrder(r.hs) \in Seq(Protocol)
    BY <2>1 DEF CallerOrder
  <2> QED BY <2>2, Picked DEF CallerProtocol
<1>3. v = "OK" => q # NoProtocol
  BY DEF CallerVerdict
<1>4. MailFor(Caller) \in SUBSET Nat /\ Opts(Caller) \in Options
  BY SessionType, Nodes
<1>5. o.rh1 = (r.hs = "EMSI" /\ d.rh1) /\ o.holdall \in BOOLEAN
  BY <1>4, Nodes DEF EmsiSendOptions, SendOptions, Info, Options
<1> DEFINE s == IF v # "OK" THEN [r EXCEPT !.verdict = v]
                ELSE [r EXCEPT !.verdict = v, !.proto = q, !.rh1 = o.rh1,
                               !.holdall = o.holdall, !.mailfor = MailFor(Caller)]
<1>6. CallerDecides(r, d) = s
  BY DEF CallerDecides
<1>7. o.rh1 \in BOOLEAN /\ q \in Protocol \cup {NoProtocol}
  BY <1>2, <1>5 DEF Info
<1> HIDE DEF v, q, o
<1>8. CASE v # "OK"
  BY <1>1, <1>6, <1>8 DEF Local
<1>9. CASE v = "OK"
  <2>1. /\ s.st = r.st /\ s.hs = r.hs /\ s.verdict = v /\ s.proto = q /\ s.rh1 = o.rh1
    BY <1>9 DEF Local
  <2>2. s \in Local
    BY <1>1, <1>4, <1>5, <1>7, <1>9 DEF Local
  <2>3. q \in d.protos
    BY <1>2, <1>3, <1>9
  <2> QED BY <1>1, <1>5, <1>6, <2>1, <2>2, <2>3
<1> QED BY <1>8, <1>9

-----------------------------------------------------------------------------
(***************************************************************************)
(* Steps.  Most leave alone what a mailer has decided, and send nothing    *)
(* that was not allowed before.                                            *)
(***************************************************************************)
Same(q) == /\ h'[q].st = h[q].st /\ h'[q].hs = h[q].hs /\ h'[q].verdict = h[q].verdict
           /\ h'[q].proto = h[q].proto /\ h'[q].rh1 = h[q].rh1 /\ h'[q].rc = h[q].rc

Allowed == chan' = [q \in Node |-> chan'[q]] /\ \A q \in Node : chan'[q] \in Seq(For(q))

Quiet(p) ==
  /\ h' \in [Node -> Local] /\ Same(Peer(p)) /\ HandshakeOk(p)'
  /\ h'[p].verdict = h[p].verdict /\ h'[p].proto = h[p].proto /\ h'[p].rh1 = h[p].rh1
  /\ h'[p].hs = h[p].hs \/ h[p].st = "init"
  /\ h'[p].rc = "OK" => p = Answerer /\ h[p].verdict = "OK"
  /\ p = Caller /\ h[Answerer].st = "asleep" => h'[p].st \in {"wake", "init"}
  /\ p = Answerer => /\ h'[p].st \in Decided <=> h[p].st \in Decided
                     /\ h'[p].st = "asleep" => h[p].st = "asleep"
  /\ Allowed

\* What the answering mailer lets through stays allowed.
LEMMA ForStays ==
  ASSUME HInv, NEW p \in Node, Quiet(p), UNCHANGED sess, NEW q \in Node
  PROVE  For(q) \subseteq For(q)'
<1>0. TypeOK /\ AnswererOk /\ HandshakeOk(Answerer) /\ HandshakeOk(Answerer)'
  BY Nodes DEF HInv, Quiet, Same, HandshakeOk
<1>1. CASE h'[Answerer].st = "asleep"
  BY <1>1, Nodes DEF Quiet, Same, For
<1>2. CASE h'[Answerer].st # "asleep" /\ h[Answerer].verdict = "-"
  <2>1. h[Answerer].st \notin Decided
    BY <1>0, <1>2 DEF AnswererOk
  <2>2. For(q) \subseteq {m \in Item : q = Caller => m.k \notin {"DAT", "HELLO"}}
    BY <2>1, Nodes DEF For, Answer, EarlyItem, EarlySigns, Item, PlainItem, Plain
  <2>3. {m \in Item : q = Caller => m.k \notin {"DAT", "HELLO"}} \subseteq For(q)'
    BY <1>2, Nodes DEF For, Answer
  <2> QED BY <2>2, <2>3
<1>3. CASE h[Answerer].verdict # "-"
  <2>1. h[Answerer].st \in Decided /\ h'[Answerer].st \in Decided
    BY <1>0, <1>3, Nodes DEF AnswererOk, Quiet, Same
  <2>2. /\ h'[Answerer].hs = h[Answerer].hs /\ h'[Answerer].verdict = h[Answerer].verdict
        /\ h'[Answerer].proto = h[Answerer].proto /\ h'[Answerer].rh1 = h[Answerer].rh1
    BY <2>1, Nodes DEF Quiet, Same, Decided
  <2>3. /\ EmsiSysInfo(Answerer)' = EmsiSysInfo(Answerer)
        /\ YoohooSysInfo(Answerer)' = YoohooSysInfo(Answerer)
    BY <2>2, Nodes DEF EmsiSysInfo, YoohooSysInfo, Opts
  <2>4. /\ h[Answerer].st \in Decided \cap EmsiStates => h'[Answerer].st \in Decided \cap EmsiStates
        /\ h[Answerer].st \in Decided \cap YoohooStates => h'[Answerer].st \in Decided \cap YoohooStates
    BY <1>0, <2>1, <2>2 DEF HandshakeOk, Decided, EmsiStates, YoohooStates
  <2>5. h[Answerer].st # "asleep" /\ h'[Answerer].st # "asleep"
    BY <2>1 DEF Decided
  <2> QED BY <2>3, <2>4, <2>5 DEF For, Answer
<1> QED BY <1>1, <1>2, <1>3

LEMMA QuietStep ==
  ASSUME HInv, NEW p \in Node, Quiet(p), UNCHANGED sess
  PROVE  HInv'
<1>0. TypeOK /\ AnswererOk /\ CallerOk /\ \A q \in Node : HandshakeOk(q)
  BY DEF HInv
<1>1. \A q \in Node : chan'[q] \in Seq(For(q)')
  BY ForStays, SeqMonotonic DEF Quiet, Allowed
<1>2. \A q \in Node : HandshakeOk(q)'
  BY <1>0, Nodes DEF Quiet, Same, HandshakeOk
<1>3. AnswererOk'
  BY <1>0, Nodes DEF AnswererOk, Quiet, Same, Decided
<1>4. CallerOk'
  BY <1>0, Nodes DEF AnswererOk, CallerOk, Quiet, Same, Decided
<1>5. \A q \in Node : For(q)' \subseteq Item
  BY DEF For, Answer, Item, EarlyItem, PlainItem, Plain
<1>6. TypeOK'
  <2>1. \A q \in Node : chan'[q] \in Seq(Item)
    BY <1>1, <1>5, SeqMonotonic
  <2>2. chan' \in [Node -> Seq(Item)]
    BY <2>1 DEF Quiet, Allowed
  <2> QED BY <1>0, <2>2 DEF TypeOK, Quiet
<1> QED BY <1>1, <1>2, <1>3, <1>4, <1>6 DEF HInv

\* The line during a step of p that sends signs, or the packet p may send.
LEMMA Heard ==
  ASSUME HInv, NEW p \in Node, chan[p] # << >>
  PROVE  chan[p][1] \in For(p) /\ chan[p][1] \in Item
<1>1. chan[p] \in Seq(For(p)) /\ chan[p] \in Seq(Item)
  BY DEF HInv, TypeOK
<1> QED BY <1>1, FirstItem

LEMMA LineSends ==
  ASSUME HInv, NEW p \in Node, NEW ms \in Seq(For(Peer(p))), Sends(p, ms)
  PROVE  Allowed
<1>1. chan \in [Node -> Seq(Item)] /\ chan[p] \in Seq(For(p)) /\ chan[Peer(p)] \in Seq(For(Peer(p)))
  BY Nodes DEF HInv, TypeOK
<1>2. chan' = [q \in Node |-> chan'[q]] /\ chan'[p] \in Seq(For(p)) /\ chan'[Peer(p)] \in Seq(For(Peer(p)))
  BY <1>1, SendsKeeps
<1> QED BY <1>2, Nodes DEF Allowed

LEMMA LineAnswers ==
  ASSUME HInv, NEW p \in Node, chan[p] # << >>, NEW ms \in Seq(For(Peer(p))), Answers(p, ms)
  PROVE  Allowed
<1>1. chan \in [Node -> Seq(Item)] /\ chan[p] \in Seq(For(p)) /\ chan[Peer(p)] \in Seq(For(Peer(p)))
  BY Nodes DEF HInv, TypeOK
<1>2. chan' = [q \in Node |-> chan'[q]] /\ chan'[p] \in Seq(For(p)) /\ chan'[Peer(p)] \in Seq(For(Peer(p)))
  BY <1>1, AnswersKeeps
<1> QED BY <1>2, Nodes DEF Allowed

LEMMA LineStays ==
  ASSUME HInv, NEW p \in Node, chan' = chan \/ chan' = [chan EXCEPT ![p] = << >>]
  PROVE  Allowed
<1>1. chan \in [Node -> Seq(Item)] /\ \A q \in Node : chan[q] \in Seq(For(q)) /\ << >> \in Seq(For(q))
  BY EmptySeq DEF HInv, TypeOK
<1> QED BY <1>1 DEF Allowed

\* Once the answering mailer is started, every sign may be sent.
LEMMA SignsAllowed ==
  ASSUME NEW q \in Node, NEW ks \in Seq(Plain),
         h[Answerer].st # "asleep" \/ ks \in Seq(EarlySigns)
  PROVE  Signs(ks) \in Seq(For(q))
<1>1. CASE h[Answerer].st # "asleep"
  <2>1. PlainItem \subseteq For(q)
    BY <1>1 DEF For, Answer, Item, PlainItem, Plain, EarlySigns
  <2> QED BY <2>1, SignsPlain, SeqMonotonic DEF PlainItem
<1>2. CASE h[Answerer].st = "asleep" /\ ks \in Seq(EarlySigns)
  BY <1>2, SignsPlain DEF For, EarlyItem
<1> QED BY <1>1, <1>2

\* p goes on in the state st and keeps what was decided.
Like(r, s, st) == /\ s \in Local /\ s.st = st /\ s.hs = r.hs /\ s.verdict = r.verdict
                  /\ s.proto = r.proto /\ s.rh1 = r.rh1 /\ s.rc = r.rc

Goes(p, st) == h' \in [Node -> Local] /\ Same(Peer(p)) /\ Like(h[p], h'[p], st)

LEMMA Becoming ==
  ASSUME TypeOK, NEW p \in Node, NEW r \in Local, Becomes(p, r)
  PROVE  h' \in [Node -> Local] /\ h'[p] = r /\ Same(Peer(p)) /\ UNCHANGED sess
BY Nodes DEF Becomes, TypeOK, Same

LEMMA Aging ==
  ASSUME NEW r \in Local
  PROVE  Like(r, Older(r), r.st)
<1> DEFINE m == IF r.mast > 0 THEN r.mast - 1 ELSE 0
           s == IF r.sync > 0 THEN r.sync - 1 ELSE 0
           u == [r EXCEPT !.mast = m, !.sync = s]
<1>1. m \in Nat /\ s \in Nat
  BY DEF Local
<1>2. Older(r) = u
  BY DEF Older, Local
<1> HIDE DEF m, s
<1>3. u \in Local
  BY <1>1, Updates
<1> QED BY <1>2, <1>3 DEF Like, Local

LEMMA Sleeping ==
  ASSUME TypeOK, NEW st, NEW r, Like(h[Caller], r, st), Sleeps(r)
  PROVE  Goes(Caller, st)
<1> DEFINE m == Older(h[Caller]).mast
           u == [r EXCEPT !.mast = m]
<1>1. Like(h[Caller], Older(h[Caller]), h[Caller].st) /\ Like(h[Answerer], Older(h[Answerer]), h[Answerer].st)
  BY Aging, Nodes DEF TypeOK
<1>2. m \in Nat
  BY <1>1 DEF Like, Local
<1>3. h'[Caller] = u /\ h'[Answerer] = Older(h[Answerer]) /\ h' = [q \in Node |-> h'[q]]
  BY Nodes DEF Sleeps, TypeOK
<1> HIDE DEF m
<1>4. u \in Local /\ Like(h[Caller], u, st)
  <2>1. u \in Local
    BY <1>2, Updates DEF Like
  <2> QED BY <2>1 DEF Like, Local
<1>5. Same(Answerer) /\ h'[Answerer] \in Local
  BY <1>1, <1>3 DEF Same, Like
<1>6. h' \in [Node -> Local]
  BY <1>3, <1>4, <1>5, Nodes
<1> QED BY <1>3, <1>4, <1>5, <1>6, Nodes DEF Goes

\* Within a handshake, a mailer goes from one of its states to another.
LEMMA GoesQuiet ==
  ASSUME HInv, NEW p \in Node, Running(p), NEW st \in State, Goes(p, st),
         \/ st \in EmsiStates /\ h[p].st \in EmsiStates
         \/ st \in YoohooStates /\ h[p].st \in YoohooStates
         \/ st \in {"wake", "init"} /\ h[p].st = "wake"
         \/ st = h[p].st,
         p = Answerer => (st \in Decided <=> h[p].st \in Decided),
         Allowed
  PROVE  Quiet(p)
<1>1. HandshakeOk(p) /\ HandshakeOk(p)'
  BY DEF HInv, HandshakeOk, Goes, Like, EmsiStates, YoohooStates
<1>2. p = Caller /\ h[Answerer].st = "asleep" => h'[p].st \in {"wake", "init"}
  BY DEF HInv, CallerOk, Goes, Like, EmsiStates, YoohooStates
<1>3. h'[p].st = "asleep" => h[p].st = "asleep"
  BY DEF Goes, Like, EmsiStates, YoohooStates
<1> QED BY <1>1, <1>2, <1>3 DEF Quiet, Goes, Like, Running

\* The answering mailer is started when either of them is in a handshake.
LEMMA Started ==
  ASSUME HInv, NEW p \in Node, h[p].st \in EmsiStates \cup YoohooStates
  PROVE  h[Answerer].st # "asleep"
BY Nodes DEF HInv, CallerOk, EmsiStates, YoohooStates

\* The packet p sends says what p has decided.
LEMMA PacketAllowed ==
  ASSUME HInv, NEW p \in Node,
         NEW m,
         \/ m = [k |-> "DAT", d |-> SysInfo(p)] /\ h[p].st = "senddat"
         \/ m = [k |-> "HELLO", d |-> SysInfo(p)] /\ h[p].st = "sendhello"
  PROVE  <<m>> \in Seq(For(Peer(p)))
<1>1. h[Answerer].st # "asleep"
  BY Started DEF EmsiStates, YoohooStates
<1>2. /\ m.k = "DAT" => m.d = EmsiSysInfo(p) /\ h[p].st = "senddat"
      /\ m.k = "HELLO" => m.d = YoohooSysInfo(p) /\ h[p].st = "sendhello"
      /\ m \in [k : {"DAT", "HELLO"}, d : {EmsiSysInfo(p), YoohooSysInfo(p)}]
  BY DEF HInv, HandshakeOk, SysInfo, EmsiStates, YoohooStates
<1>3. m \in Item
  BY <1>2, InfoType DEF HInv, Item, Packets
<1>4. m \in For(Peer(p))
  BY <1>1, <1>2, <1>3, Nodes DEF For, Answer, Decided, EmsiStates, YoohooStates
<1> QED BY <1>4

LEMMA BecomesQuiet ==
  ASSUME HInv, NEW p \in Node, Running(p), NEW st \in State, NEW r, Like(h[p], r, st), Becomes(p, r),
         \/ st \in EmsiStates /\ h[p].st \in EmsiStates
         \/ st \in YoohooStates /\ h[p].st \in YoohooStates
         \/ st \in {"wake", "init"} /\ h[p].st = "wake"
         \/ st = h[p].st,
         p = Answerer => (st \in Decided <=> h[p].st \in Decided),
         Allowed
  PROVE  Quiet(p) /\ UNCHANGED sess
<1>1. TypeOK
  BY DEF HInv
<1>2. Goes(p, st) /\ UNCHANGED sess
  BY <1>1, Becoming DEF Like, Goes
<1> QED BY <1>2, GoesQuiet

\* A mailer leaves the handshake.
LEMMA EndsQuiet ==
  ASSUME HInv, NEW p \in Node, NEW r \in Local,
         NEW code \in Verdict \cup {"HANDSHAKE_ERROR"}, Ends(p, r, code),
         r.st = h[p].st, r.verdict = h[p].verdict, r.proto = h[p].proto, r.rh1 = h[p].rh1,
         r.hs = h[p].hs \/ h[p].st = "init",
         code = "OK" => p = Answerer /\ h[p].verdict = "OK"
  PROVE  Quiet(p) /\ UNCHANGED sess
<1>1. TypeOK /\ HandshakeOk(p)
  BY DEF HInv
<1> DEFINE s == [r EXCEPT !.rc = code]
<1>2. s \in Local
  BY Updates
<1>3. /\ s.st = r.st /\ s.hs = r.hs /\ s.verdict = r.verdict /\ s.proto = r.proto
      /\ s.rh1 = r.rh1 /\ s.rc = code
  BY DEF Local
<1>4. h' \in [Node -> Local] /\ h'[p] = s /\ Same(Peer(p)) /\ UNCHANGED sess
  BY <1>1, <1>2, Becoming DEF Ends
<1>5. HandshakeOk(p)'
  BY <1>1, <1>3, <1>4 DEF HandshakeOk, EmsiStates, YoohooStates
<1>6. Allowed
  BY LineStays DEF Ends
<1>7. p = Caller /\ h[Answerer].st = "asleep" => h[p].st \in {"wake", "init"}
  BY DEF HInv, CallerOk
<1> HIDE DEF s
<1> QED BY <1>3, <1>4, <1>5, <1>6, <1>7 DEF Quiet

\* After its packet a caller waits for theirs, and the answering mailer is through.
LEMMA AfterSentQuiet ==
  ASSUME HInv, NEW p \in Node, Running(p), h[p].st \in Decided, chan[p] # << >>,
         NEW st, NEW r, Like(h[p], r, st), AfterSent(p, r),
         \/ st \in EmsiStates /\ h[p].st \in EmsiStates
         \/ st \in YoohooStates /\ h[p].st \in YoohooStates
  PROVE  Quiet(p) /\ UNCHANGED sess
<1>1. CASE p = Caller
  <2>1. Becomes(p, r) /\ Answers(p, << >>)
    BY <1>1 DEF AfterSent
  <2>2. Allowed
    BY <2>1, EmptySeq, LineAnswers
  <2> QED BY <1>1, <2>1, <2>2, BecomesQuiet, Nodes DEF State
<1>2. CASE p = Answerer
  <2>1. Ends(p, h[p], h[p].verdict)
    BY <1>2, Nodes DEF AfterSent
  <2>2. h[p].verdict \in Verdict /\ h[p] \in Local
    BY <1>2 DEF HInv, TypeOK, AnswererOk, Local
  <2> QED BY <1>2, <2>1, <2>2, EndsQuiet
<1> QED BY <1>1, <1>2 DEF Node

LEMMA EmsiQuiet ==
  ASSUME HInv, NEW p \in Node, Emsi(p), ~EmsiDat(p)
  PROVE  Quiet(p) /\ UNCHANGED sess
<1>0. TypeOK /\ h[p] \in Local /\ Running(p)
  BY DEF HInv, TypeOK, Emsi, SendDat, EmsiAck, EmsiNak, EmsiInq, EmsiDatAgain, SendNak, EmsiBadDat,
         EmsiCutDat, EmsiRest, EmsiRxInq, EmsiOther, At, Reads, Takes
<1>1. h[p].st \in EmsiStates
  BY DEF Emsi, SendDat, EmsiAck, EmsiNak, EmsiInq, EmsiDatAgain, SendNak, EmsiBadDat,
         EmsiCutDat, EmsiRest, EmsiRxInq, EmsiOther, At, Reads, Takes, EmsiStates
<1>2. h[Answerer].st # "asleep"
  BY <1>1, Started
<1>3. ASSUME NEW ks \in Seq(Plain),
             \/ Sends(p, Signs(ks))
             \/ chan[p] # << >> /\ Answers(p, Signs(ks))
      PROVE  Allowed
  <2>1. Signs(ks) \in Seq(For(Peer(p)))
    BY <1>2, SignsAllowed, Nodes
  <2> QED BY <1>3, <2>1, LineSends, LineAnswers
<1>4. ASSUME chan[p] # << >>, Answers(p, << >>) PROVE Allowed
  BY <1>4, EmptySeq, LineAnswers
<1>5. ASSUME NEW st \in EmsiStates, NEW r, Like(h[p], r, st), Becomes(p, r), Allowed,
             p = Answerer => (st \in Decided <=> h[p].st \in Decided)
      PROVE  Quiet(p) /\ UNCHANGED sess
  BY <1>0, <1>1, <1>5, BecomesQuiet DEF State
<1>6. ASSUME NEW st \in EmsiStates PROVE Like(h[p], [h[p] EXCEPT !.st = st], st)
  <2>1. [h[p] EXCEPT !.st = st] \in Local
    BY <1>0, Updates DEF State
  <2> QED BY <1>0, <2>1 DEF Like, Local
<1>7. CASE SendDat(p)
  <2> DEFINE r == [h[p] EXCEPT !.tries = @ + 1, !.st = "waitack", !.sync = IF h[p].tries > 0 THEN 4 ELSE 2]
  <2>1. Like(h[p], r, "waitack")
    <3>1. h[p].tries + 1 \in Nat
      BY <1>0 DEF Local
    <3>2. r \in Local
      BY <1>0, <3>1, Updates DEF State, EmsiStates
    <3> QED BY <1>0, <3>2 DEF Like, Local
  <2>2. Allowed
    BY <1>7, PacketAllowed, LineSends DEF SendDat, At
  <2> QED BY <1>5, <1>7, <2>1, <2>2 DEF SendDat, At, EmsiStates, Decided
<1>8. CASE EmsiAck(p)
  <2>1. chan[p] # << >> /\ h[p].st = "waitack"
    BY <1>8 DEF EmsiAck, Takes, Reads, At
  <2> DEFINE r == Starting(h[p], "sendnak", EmsiMast)
  <2>2. r \in Local
    BY <1>0, Updates DEF Starting, EmsiMast, State, EmsiStates
  <2>3. Like(h[p], r, "sendnak")
    BY <1>0, <2>2 DEF Like, Local, Starting
  <2> QED BY <1>0, <1>8, <2>1, <2>3, AfterSentQuiet DEF EmsiAck, EmsiStates, Decided
<1>9. CASE EmsiNak(p)
  <2> DEFINE st == IF h[p].naked THEN h[p].st ELSE "senddat"
             r == [h[p] EXCEPT !.naked = TRUE, !.st = st]
  <2>1. h[p].st = "waitack" /\ chan[p] # << >> /\ Answers(p, << >>)
    BY <1>9 DEF EmsiNak, Takes, Reads, At
  <2>2. st \in EmsiStates /\ st \in Decided /\ h[p].st \in Decided
    BY <2>1 DEF EmsiStates, Decided
  <2>3. Becomes(p, r)
    BY <1>0, <1>9 DEF EmsiNak, Local
  <2> HIDE DEF st
  <2>4. r \in Local
    BY <1>0, <2>2, Updates DEF State
  <2>5. Like(h[p], r, st)
    BY <1>0, <2>4 DEF Like, Local
  <2> QED BY <1>4, <1>5, <2>1, <2>2, <2>3, <2>5
<1>10. CASE EmsiInq(p)
  <2> DEFINE r == [h[p] EXCEPT !.sync = IF h[p].tries > 1 THEN 4 ELSE 2]
  <2>1. r \in Local
    BY <1>0, Updates
  <2>2. Like(h[p], r, h[p].st)
    BY <1>0, <2>1 DEF Like, Local
  <2>3. Becomes(p, r) /\ chan[p] # << >> /\ Answers(p, << >>)
    BY <1>10 DEF EmsiInq, Takes, Reads
  <2> QED BY <1>1, <1>4, <1>5, <2>2, <2>3
<1>11. CASE EmsiDatAgain(p)
  <2>1. h[p].st = "waitack" /\ chan[p] # << >> /\ UNCHANGED sess
    BY <1>11 DEF EmsiDatAgain, Takes, Reads, At
  <2>2. Allowed
    <3>1. <<"INQ", "INQ">> \in Seq(Plain) /\ <<"ACK", "ACK">> \in Seq(Plain)
      BY DEF Plain, EarlySigns
    <3> QED BY <1>3, <1>11, <2>1, <3>1 DEF EmsiDatAgain
  <2>3. CASE p = Caller
    <3>1. Goes(p, "senddat")
      BY <1>0, <1>6, <1>11, <2>3, Sleeping DEF EmsiDatAgain, EmsiStates
    <3> QED BY <1>0, <2>1, <2>2, <2>3, <3>1, GoesQuiet, Nodes DEF State, EmsiStates
  <2>4. CASE p = Answerer
    <3>1. Goes(p, "waitack")
      BY <1>0, <1>11, <2>1, <2>4, Nodes DEF EmsiDatAgain, Goes, Same, Like, TypeOK
    <3> QED BY <1>0, <2>1, <2>2, <3>1, GoesQuiet DEF State, EmsiStates, Decided
  <2> QED BY <2>3, <2>4, Nodes DEF Node
<1>12. CASE SendNak(p)
  <2> DEFINE r == [h[p] EXCEPT !.tries = @ + 1, !.st = "waitdat", !.sync = RxSync]
  <2>1. Like(h[p], r, "waitdat")
    <3>1. h[p].tries + 1 \in Nat
      BY <1>0 DEF Local
    <3>2. r \in Local
      BY <1>0, <3>1, Updates DEF State, EmsiStates, RxSync
    <3> QED BY <1>0, <3>2 DEF Like, Local
  <2>2. Allowed
    <3>1. /\ <<"NAK">> \in Seq(Plain) /\ <<"NAK", "REQ">> \in Seq(Plain) /\ <<"REQ">> \in Seq(Plain)
          /\ << >> \in Seq(Plain)
      BY DEF Plain, EarlySigns
    <3>2. \E ks \in Seq(Plain) : Sends(p, Signs(ks))
      BY <1>12, <3>1 DEF SendNak
    <3> QED BY <1>3, <3>2
  <2> QED BY <1>5, <1>12, <2>1, <2>2 DEF SendNak, At, EmsiStates, Decided
<1>13. CASE EmsiBadDat(p) \/ EmsiRxInq(p)
  BY <1>4, <1>5, <1>6, <1>13 DEF EmsiBadDat, EmsiRxInq, Takes, Reads, At, EmsiStates, Decided
<1>14. CASE EmsiCutDat(p)
  BY <1>4, <1>5, <1>6, <1>14 DEF EmsiCutDat, Takes, Reads, At, EmsiStates, Decided
<1>15. CASE EmsiRest(p)
  <2>1. PICK st \in {"sendnak", "rest"} : Becomes(p, [h[p] EXCEPT !.st = st])
    BY <1>15 DEF EmsiRest
  <2> QED BY <1>4, <1>5, <1>6, <1>15, <2>1 DEF EmsiRest, Reads, At, EmsiStates, Decided
<1>16. CASE EmsiOther(p)
  <2>1. chan[p] # << >> /\ Answers(p, << >>) /\ UNCHANGED <<h, sess>>
    BY <1>16 DEF EmsiOther, Reads
  <2>2. Goes(p, h[p].st)
    BY <1>0, <2>1, Nodes DEF Goes, Same, Like, TypeOK
  <2> QED BY <1>0, <1>1, <1>4, <2>1, <2>2, GoesQuiet DEF State
<1> QED BY <1>7, <1>8, <1>9, <1>10, <1>11, <1>12, <1>13, <1>14, <1>15, <1>16 DEF Emsi

LEMMA YoohooQuiet ==
  ASSUME HInv, NEW p \in Node, Yoohoo(p), ~YoohooHello(p)
  PROVE  Quiet(p) /\ UNCHANGED sess
<1>0. TypeOK /\ h[p] \in Local /\ Running(p)
  BY DEF HInv, TypeOK, Yoohoo, SendHello, YoohooResponse, SendEnq, YoohooBadHello, YoohooCutHello,
         YoohooRest, YoohooJunk, At, Reads, Takes
<1>1. h[p].st \in YoohooStates
  BY DEF Yoohoo, SendHello, YoohooResponse, SendEnq, YoohooBadHello, YoohooCutHello,
         YoohooRest, YoohooJunk, At, Reads, Takes, YoohooStates
<1>2. h[Answerer].st # "asleep"
  BY <1>1, Started
<1>3. ASSUME NEW ks \in Seq(Plain),
             \/ Sends(p, Signs(ks))
             \/ chan[p] # << >> /\ Answers(p, Signs(ks))
      PROVE  Allowed
  <2>1. Signs(ks) \in Seq(For(Peer(p)))
    BY <1>2, SignsAllowed, Nodes
  <2> QED BY <1>3, <2>1, LineSends, LineAnswers
<1>4. ASSUME chan[p] # << >>, Answers(p, << >>) PROVE Allowed
  BY <1>4, EmptySeq, LineAnswers
<1>5. ASSUME NEW st \in YoohooStates, NEW r, Like(h[p], r, st), Becomes(p, r), Allowed,
             p = Answerer => (st \in Decided <=> h[p].st \in Decided)
      PROVE  Quiet(p) /\ UNCHANGED sess
  BY <1>0, <1>1, <1>5, BecomesQuiet DEF State
<1>6. ASSUME NEW st \in YoohooStates, NEW n \in Nat
      PROVE  /\ Like(h[p], [h[p] EXCEPT !.st = st], st)
             /\ Like(h[p], [h[p] EXCEPT !.st = st, !.sync = n], st)
             /\ Like(h[p], [h[p] EXCEPT !.tries = @ + 1, !.st = st, !.mast = n], st)
  <2>1. h[p].tries + 1 \in Nat
    BY <1>0 DEF Local
  <2>2. /\ [h[p] EXCEPT !.st = st] \in Local /\ [h[p] EXCEPT !.st = st, !.sync = n] \in Local
        /\ [h[p] EXCEPT !.tries = @ + 1, !.st = st, !.mast = n] \in Local
    BY <1>0, <2>1, Updates DEF State
  <2> QED BY <1>0, <2>2 DEF Like, Local
<1>7. CASE SendHello(p)
  <2>1. Allowed
    BY <1>7, PacketAllowed, LineSends DEF SendHello, At
  <2> QED BY <1>5, <1>6, <1>7, <2>1 DEF SendHello, At, YoohooStates, Decided, HelloWait
<1>8. CASE YoohooResponse(p)
  <2>1. chan[p] # << >> /\ h[p].st = "waitresp"
    BY <1>8 DEF YoohooResponse, Reads, At
  <2>2. CASE Becomes(p, [h[p] EXCEPT !.st = "sendhello"]) /\ Answers(p, << >>)
    BY <1>4, <1>5, <1>6, <2>1, <2>2 DEF YoohooStates, Decided
  <2>3. CASE AfterSent(p, Starting(h[p], "sendenq", HeaderWait))
    <3> DEFINE r == Starting(h[p], "sendenq", HeaderWait)
    <3>1. r \in Local
      BY <1>0, Updates DEF Starting, HeaderWait, State, YoohooStates
    <3>2. Like(h[p], r, "sendenq")
      BY <1>0, <3>1 DEF Like, Local, Starting
    <3> QED BY <1>0, <2>1, <2>3, <3>2, AfterSentQuiet DEF YoohooStates, Decided
  <2>4. CASE Becomes(p, h[p]) /\ Answers(p, << >>)
    <3>1. Like(h[p], h[p], h[p].st)
      BY <1>0 DEF Like
    <3> QED BY <1>1, <1>4, <1>5, <2>1, <2>4, <3>1
  <2> QED BY <1>8, <2>2, <2>3, <2>4 DEF YoohooResponse
<1>9. CASE SendEnq(p)
  <2>1. Allowed
    <3>1. <<"ENQ">> \in Seq(Plain)
      BY DEF Plain
    <3> QED BY <1>3, <1>9, <3>1 DEF SendEnq
  <2> QED BY <1>5, <1>6, <1>9, <2>1 DEF SendEnq, At, YoohooStates, Decided, HeaderWait
<1>10. <<"?">> \in Seq(Plain)
  BY DEF Plain
<1>11. CASE YoohooBadHello(p)
  <2>1. Allowed
    BY <1>3, <1>10, <1>11 DEF YoohooBadHello, Takes, Reads
  <2> QED BY <1>5, <1>6, <1>11, <2>1 DEF YoohooBadHello, Takes, Reads, At, YoohooStates, Decided
<1>12. CASE YoohooCutHello(p)
  BY <1>4, <1>5, <1>6, <1>12
     DEF YoohooCutHello, Takes, Reads, At, YoohooStates, Decided, CharWait
<1>13. CASE YoohooRest(p)
  <2>1. chan[p] # << >> /\ h[p].st = "resthello"
    BY <1>13 DEF YoohooRest, Reads, At
  <2>2. CASE Becomes(p, [h[p] EXCEPT !.st = "waitheader"]) /\ Answers(p, Signs(<<"?">>))
    BY <1>3, <1>5, <1>6, <1>10, <2>1, <2>2 DEF YoohooStates, Decided
  <2>3. CASE Becomes(p, [h[p] EXCEPT !.sync = CharWait]) /\ Answers(p, << >>)
    <3>1. [h[p] EXCEPT !.sync = CharWait] \in Local
      BY <1>0, Updates DEF CharWait
    <3>2. Like(h[p], [h[p] EXCEPT !.sync = CharWait], h[p].st)
      BY <1>0, <3>1 DEF Like, Local
    <3> QED BY <1>1, <1>4, <1>5, <2>1, <2>3, <3>2
  <2> QED BY <1>13, <2>2, <2>3 DEF YoohooRest
<1>14. CASE YoohooJunk(p)
  <2>1. chan[p] # << >> /\ Answers(p, << >>)
    BY <1>14 DEF YoohooJunk, Reads
  <2>2. CASE h[p].st = "toss"
    <3>1. Like(h[p], h[p], h[p].st)
      BY <1>0 DEF Like
    <3> QED BY <1>1, <1>4, <1>5, <1>14, <2>1, <2>2, <3>1 DEF YoohooJunk
  <2>3. CASE h[p].st = "waitheader"
    BY <1>4, <1>5, <1>6, <1>14, <2>1, <2>3 DEF YoohooJunk, YoohooStates, Decided, JunkWait
  <2> QED BY <1>14, <2>2, <2>3 DEF YoohooJunk, Reads, At
<1> QED BY <1>7, <1>8, <1>9, <1>11, <1>12, <1>13, <1>14 DEF Yoohoo

\* A mailer that has recognized a handshake begins it.
LEMMA BeginsQuiet ==
  ASSUME HInv, NEW p \in Node, At(p, "init"), NEW r \in Local, Becomes(p, r), Allowed,
         \/ r.st \in EmsiStates /\ r.hs = "EMSI"
         \/ r.st \in YoohooStates /\ r.hs = "YOOHOO",
         r.verdict = h[p].verdict, r.proto = h[p].proto, r.rh1 = h[p].rh1, r.rc = h[p].rc,
         IF p = Caller THEN h[Answerer].st # "asleep" ELSE r.st \notin Decided
  PROVE  Quiet(p) /\ UNCHANGED sess
<1>1. TypeOK /\ h[p].st = "init" /\ h[p].rc = "run"
  BY DEF HInv, At, Running
<1>2. h' \in [Node -> Local] /\ h'[p] = r /\ Same(Peer(p)) /\ UNCHANGED sess
  BY <1>1, Becoming
<1>3. HandshakeOk(p)' /\ r.st # "asleep"
  BY <1>2 DEF HandshakeOk, EmsiStates, YoohooStates
<1>4. p = Answerer => (r.st \in Decided <=> h[p].st \in Decided)
  BY <1>1, Nodes DEF Decided
<1> QED BY <1>1, <1>2, <1>3, <1>4 DEF Quiet

LEMMA BurstEarly == \A o \in Options : Burst(o) \in Seq(EarlySigns)
<1> TAKE o \in Options
<1>1. /\ <<"INQ", "INQ">> \in Seq(EarlySigns) /\ <<"YOO">> \in Seq(EarlySigns)
      /\ <<"TSYNC">> \in Seq(EarlySigns) /\ <<"CR">> \in Seq(EarlySigns) /\ << >> \in Seq(EarlySigns)
  BY DEF EarlySigns
<1> DEFINE a == IF o.emsi THEN <<"INQ", "INQ">> ELSE << >>
           b == IF o.yoohoo THEN <<"YOO">> ELSE << >>
           c == IF o.ftsc THEN <<"TSYNC">> ELSE << >>
           e == IF o.emsi THEN <<"CR">> ELSE << >>
<1>2. a \in Seq(EarlySigns) /\ b \in Seq(EarlySigns) /\ c \in Seq(EarlySigns) /\ e \in Seq(EarlySigns)
  BY <1>1
<1>3. Burst(o) = a \o b \o c \o e
  BY DEF Burst
<1> HIDE DEF a, b, c, e
<1>4. a \o b \in Seq(EarlySigns)
  BY <1>2, ConcatProperties
<1>5. (a \o b) \o c \in Seq(EarlySigns)
  BY <1>2, <1>4, ConcatProperties
<1> QED BY <1>2, <1>3, <1>5, ConcatProperties

\* Which handshake it is going to be.
Beginning(p) ==
  \/ Resync(p) \/ InitYoohoo(p) \/ InitFtsc(p) \/ InitOther(p)
  \/ p = Caller /\ (Awake \/ OutgoingEmsi \/ OutgoingEcho)
  \/ p = Answerer /\ (Echo \/ IncomingEmsi)

LEMMA InitQuiet ==
  ASSUME HInv, NEW p \in Node, Beginning(p)
  PROVE  Quiet(p) /\ UNCHANGED sess
<1>0. TypeOK /\ h[p] \in Local /\ Running(p)
  BY Nodes DEF HInv, TypeOK, Beginning, Resync, InitYoohoo, InitFtsc, InitOther, Awake, OutgoingEmsi,
         OutgoingEcho, Echo, IncomingEmsi, At, Reads, Takes
<1>1. ASSUME NEW ks \in Seq(EarlySigns),
             \/ Sends(p, Signs(ks))
             \/ chan[p] # << >> /\ Answers(p, Signs(ks))
      PROVE  Allowed
  <2>1. ks \in Seq(Plain)
    BY SeqMonotonic DEF Plain
  <2>2. Signs(ks) \in Seq(For(Peer(p)))
    BY <2>1, SignsAllowed, Nodes
  <2> QED BY <1>1, <2>2, LineSends, LineAnswers
<1>2. ASSUME chan[p] # << >>, Answers(p, << >>) PROVE Allowed
  BY <1>2, EmptySeq, LineAnswers
<1>3. ASSUME NEW r, Like(h[p], r, h[p].st), Becomes(p, r), Allowed
      PROVE  Quiet(p) /\ UNCHANGED sess
  <2>1. h[p].st \in State
    BY <1>0 DEF Local
  <2> QED BY <1>0, <1>3, <2>1, BecomesQuiet
<1>4. <<"INQ", "INQ">> \in Seq(EarlySigns)
  BY DEF EarlySigns
<1>5. CASE Resync(p)
  <2> DEFINE r == [h[p] EXCEPT !.sync = OutgoingSync]
  <2>1. r \in Local
    BY <1>0, Updates DEF OutgoingSync
  <2>2. Like(h[p], r, h[p].st)
    BY <1>0, <2>1 DEF Like, Local
  <2>3. Allowed
    <3>1. CASE p = Caller
      <4>1. Burst(Opts(p)) \in Seq(EarlySigns)
        BY <1>0, BurstEarly, SessionType
      <4> QED BY <1>1, <1>5, <3>1, <4>1 DEF Resync
    <3>2. CASE p = Answerer
      <4>1. h[Answerer].st # "asleep"
        BY <1>5, <3>2 DEF Resync, At
      <4>2. <<"REQ">> \in Seq(Plain) /\ << >> \in Seq(Plain)
        BY DEF Plain
      <4>3. \E ks \in Seq(Plain) : Sends(p, Signs(ks))
        BY <1>5, <3>2, <4>2, Nodes DEF Resync
      <4> QED BY <4>1, <4>3, SignsAllowed, LineSends, Nodes
    <3> QED BY <3>1, <3>2 DEF Node
  <2> QED BY <1>3, <1>5, <2>2, <2>3 DEF Resync
<1>6. CASE InitYoohoo(p)
  <2> DEFINE n == h[p].enqs + 1
             st == IF p = Caller THEN "sendhello" ELSE "sendenq"
             r == Starting(Begins(p, "YOOHOO"), st, HeaderWait)
             s == [h[p] EXCEPT !.enqs = n]
  <2>1. /\ At(p, "init") /\ chan[p] # << >> /\ Answers(p, << >>) /\ chan[p][1].k = YoohooSign(p)
        /\ Becomes(p, r) \/ Becomes(p, s)
    BY <1>6 DEF InitYoohoo, Takes, Reads
  <2>2. CASE Becomes(p, r)
    <3>1. st \in YoohooStates /\ (p = Answerer => st \notin Decided)
      BY Nodes DEF YoohooStates, Decided
    <3>2. Begins(p, "YOOHOO") \in Local
      BY <1>0, Updates DEF Begins
    <3> HIDE DEF st
    <3>3. r \in Local
      BY <3>1, <3>2, Updates DEF Starting, HeaderWait, State
    <3>4. /\ r.st = st /\ r.hs = "YOOHOO" /\ r.verdict = h[p].verdict /\ r.proto = h[p].proto
          /\ r.rh1 = h[p].rh1 /\ r.rc = h[p].rc
      BY <1>0 DEF Starting, Begins, Local
    <3>5. p = Caller => h[Answerer].st # "asleep"
      BY <2>1, Heard DEF For, EarlyItem, EarlySigns, YoohooSign
    <3> HIDE DEF r
    <3> QED BY <1>2, <2>1, <2>2, <3>1, <3>3, <3>4, <3>5, BeginsQuiet DEF Node
  <2>3. CASE Becomes(p, s)
    <3>1. n \in Nat
      BY <1>0 DEF Local
    <3>2. s \in Local
      BY <1>0, <3>1, Updates
    <3>3. Like(h[p], s, h[p].st)
      BY <1>0, <3>2 DEF Like, Local
    <3> QED BY <1>2, <1>3, <2>1, <2>3, <3>3
  <2> QED BY <2>1, <2>2, <2>3
<1>7. CASE InitFtsc(p)
  <2> DEFINE r == [h[p] EXCEPT !.hs = "FTSC"]
             s == [h[p] EXCEPT !.tsyncs = h[p].tsyncs + 1]
  <2>1. /\ At(p, "init") /\ chan[p] # << >>
        /\ \/ Ends(p, r, "HANDSHAKE_ERROR")
           \/ Becomes(p, s) /\ Answers(p, << >>)
    BY <1>7 DEF InitFtsc, Takes, Reads
  <2>2. CASE Ends(p, r, "HANDSHAKE_ERROR")
    <3>1. r \in Local
      BY <1>0, Updates
    <3>2. r.st = h[p].st /\ r.verdict = h[p].verdict /\ r.proto = h[p].proto /\ r.rh1 = h[p].rh1
      BY <1>0 DEF Local
    <3> HIDE DEF r
    <3> QED BY <2>1, <2>2, <3>1, <3>2, EndsQuiet DEF At
  <2>3. CASE Becomes(p, s) /\ Answers(p, << >>)
    <3>1. h[p].tsyncs + 1 \in Nat
      BY <1>0 DEF Local
    <3>2. s \in Local
      BY <1>0, <3>1, Updates
    <3>3. Like(h[p], s, h[p].st)
      BY <1>0, <3>2 DEF Like, Local
    <3> QED BY <1>2, <1>3, <2>1, <2>3, <3>3
  <2> QED BY <2>1, <2>2, <2>3
<1>8. CASE InitOther(p)
  <2> DEFINE unexp == h[p].unexp + IF chan[p][1].k \in Sequences THEN 1 ELSE 0
             s == [h[p] EXCEPT !.enqs = 0, !.tsyncs = 0, !.unexp = unexp]
  <2>1. /\ chan[p] # << >>
        /\ \/ Becomes(p, h[p]) /\ Answers(p, << >>)
           \/ Ends(p, h[p], "HANDSHAKE_ERROR")
           \/ Becomes(p, s) /\ Answers(p, << >>)
    BY <1>8 DEF InitOther, Reads
  <2>2. Like(h[p], h[p], h[p].st)
    BY <1>0 DEF Like
  <2>3. CASE Ends(p, h[p], "HANDSHAKE_ERROR")
    BY <1>0, <2>3, EndsQuiet
  <2>4. CASE Becomes(p, s) /\ Answers(p, << >>)
    <3>1. unexp \in Nat
      BY <1>0 DEF Local
    <3> HIDE DEF unexp
    <3>2. s \in Local
      BY <1>0, <3>1, Updates
    <3>3. Like(h[p], s, h[p].st)
      BY <1>0, <3>2 DEF Like, Local
    <3> QED BY <1>2, <1>3, <2>1, <2>4, <3>3
  <2> QED BY <1>2, <1>3, <2>1, <2>2, <2>3, <2>4
<1>9. CASE p = Caller /\ Awake
  <2> DEFINE r == [h[p] EXCEPT !.st = "init", !.mast = InitMast, !.sync = 2 * OutgoingSync]
  <2>0. InitMast \in Nat /\ 2 * OutgoingSync \in Nat
    BY DEF InitMast, OutgoingSync
  <2>1. r \in Local
    BY <1>0, <2>0, Updates DEF State
  <2>2. Like(h[p], r, "init")
    BY <1>0, <2>1 DEF Like, Local
  <2>3. Becomes(p, r) /\ Allowed /\ h[p].st = "wake"
    BY <1>9, LineStays DEF Awake, Reads, At
  <2> HIDE DEF r
  <2> QED BY <1>0, <1>9, <2>2, <2>3, BecomesQuiet, Nodes DEF State
<1>10. CASE p = Caller /\ OutgoingEmsi
  <2> DEFINE r == Starting(Begins(p, "EMSI"), "senddat", EmsiMast)
  <2>1. /\ At(p, "init") /\ chan[p] # << >> /\ chan[p][1].k \in {"REQ", "NAK"}
        /\ Becomes(p, r) /\ Answers(p, Signs(<<"INQ", "INQ">>))
    BY <1>10 DEF OutgoingEmsi, Takes, Reads
  <2>2. Begins(p, "EMSI") \in Local
    BY <1>0, Updates DEF Begins
  <2>3. r \in Local
    BY <2>2, Updates DEF Starting, EmsiMast, State, EmsiStates
  <2>4. /\ r.st = "senddat" /\ r.hs = "EMSI" /\ r.verdict = h[p].verdict /\ r.proto = h[p].proto
        /\ r.rh1 = h[p].rh1 /\ r.rc = h[p].rc
    BY <1>0 DEF Starting, Begins, Local
  <2>5. h[Answerer].st # "asleep"
    BY <2>1, Heard DEF For, EarlyItem, EarlySigns
  <2> HIDE DEF r
  <2> QED BY <1>1, <1>4, <1>10, <2>1, <2>3, <2>4, <2>5, BeginsQuiet DEF EmsiStates
<1>11. CASE p = Caller /\ OutgoingEcho
  <2> DEFINE r == [h[p] EXCEPT !.enqs = 0, !.tsyncs = 0, !.sync = OutgoingSync]
  <2>1. r \in Local
    BY <1>0, Updates DEF OutgoingSync
  <2>2. Like(h[p], r, h[p].st)
    BY <1>0, <2>1 DEF Like, Local
  <2>3. /\ Sleeps(r) /\ UNCHANGED sess /\ chan[p] # << >>
        /\ Answers(p, Signs(<<"INQ", "INQ">>))
    BY <1>11 DEF OutgoingEcho, Takes, Reads
  <2> HIDE DEF r
  <2>4. Goes(p, h[p].st)
    BY <1>0, <1>11, <2>2, <2>3, Sleeping
  <2>5. h[p].st \in State
    BY <1>0 DEF Local
  <2> QED BY <1>0, <1>1, <1>4, <1>11, <2>3, <2>4, <2>5, GoesQuiet
<1>12. CASE p = Answerer /\ Echo
  <2>1. /\ h[p].st = "asleep" /\ chan[p] # << >> /\ Answers(p, <<Head(chan[p])>>)
        /\ UNCHANGED <<h, sess>>
    BY <1>12 DEF Echo, At
  <2>2. chan[p] \in Seq(EarlyItem) /\ For(Peer(p)) = EarlyItem
    BY <1>12, <2>1 DEF HInv, For
  <2>3. Head(chan[p]) \in EarlyItem
    BY <2>1, <2>2, HeadTailProperties
  <2>4. Allowed
    <3>1. <<Head(chan[p])>> \in Seq(For(Peer(p)))
      BY <2>2, <2>3
    <3> QED BY <2>1, <3>1, LineAnswers
  <2>5. Goes(p, h[p].st) /\ h[p].st \in State
    BY <1>0, <2>1, Nodes DEF Goes, Same, Like, TypeOK, Local
  <2> QED BY <1>0, <2>1, <2>4, <2>5, GoesQuiet
<1>13. CASE p = Answerer /\ IncomingEmsi
  <2> DEFINE r == Starting(Begins(p, "EMSI"), "sendnak", EmsiMast)
  <2>1. At(p, "init") /\ chan[p] # << >> /\ Becomes(p, r) /\ Answers(p, << >>)
    BY <1>13 DEF IncomingEmsi, Takes, Reads
  <2>2. Begins(p, "EMSI") \in Local
    BY <1>0, Updates DEF Begins
  <2>3. r \in Local
    BY <2>2, Updates DEF Starting, EmsiMast, State, EmsiStates
  <2>4. /\ r.st = "sendnak" /\ r.hs = "EMSI" /\ r.verdict = h[p].verdict /\ r.proto = h[p].proto
        /\ r.rh1 = h[p].rh1 /\ r.rc = h[p].rc
    BY <1>0 DEF Starting, Begins, Local
  <2> HIDE DEF r
  <2> QED BY <1>2, <1>13, <2>1, <2>3, <2>4, BeginsQuiet, Nodes DEF EmsiStates, Decided
<1> QED BY <1>5, <1>6, <1>7, <1>8, <1>9, <1>10, <1>11, <1>12, <1>13 DEF Beginning

\* A timer that expires, and a line that goes dead, decide nothing; a failure
\* never ends like a success.
LEMMA TimersQuiet ==
  ASSUME HInv, NEW p \in Node, SyncExpires(p) \/ MastExpires(p) \/ TooManyTries(p) \/ Hangup(p)
  PROVE  Quiet(p) /\ UNCHANGED sess
<1>0. TypeOK /\ h[p] \in Local /\ Running(p)
  BY DEF HInv, TypeOK, SyncExpires, MastExpires, TooManyTries, Hangup
<1>1. ASSUME NEW code \in {"OTHER_ERR", FailCode(p)}, Ends(p, h[p], code)
      PROVE  Quiet(p) /\ UNCHANGED sess
  <2>1. code \in Verdict \cup {"HANDSHAKE_ERROR"} /\ code # "OK"
    BY <1>0 DEF FailCode, Local, Verdict
  <2> QED BY <1>0, <1>1, <2>1, EndsQuiet
<1>2. CASE SyncExpires(p)
  <2>1. h[p].st \in {"waitack", "waitdat", "toss", "resthello"}
    BY <1>2 DEF SyncExpires, SyncDue
  <2>2. CASE h[p].st = "resthello"
    BY <1>1, <1>2, <2>2 DEF SyncExpires
  <2>3. CASE h[p].st # "resthello"
    <3> DEFINE st == CASE h[p].st = "waitack" -> "senddat"
                       [] h[p].st = "waitdat" -> "sendnak"
                       [] h[p].st = "toss" -> "sendenq"
               r == [h[p] EXCEPT !.st = st]
    <3>1. Becomes(p, r) /\ Allowed
      BY <1>2, <2>3, LineStays DEF SyncExpires
    <3>2. /\ st \in State
          /\ \/ st \in EmsiStates /\ h[p].st \in EmsiStates
             \/ st \in YoohooStates /\ h[p].st \in YoohooStates
          /\ st \in Decided <=> h[p].st \in Decided
      BY <2>1, <2>3 DEF State, EmsiStates, YoohooStates, Decided
    <3> HIDE DEF st
    <3>3. r \in Local
      BY <1>0, <3>2, Updates
    <3>4. Like(h[p], r, st)
      BY <1>0, <3>3 DEF Like, Local
    <3> QED BY <1>0, <3>1, <3>2, <3>4, BecomesQuiet
  <2> QED BY <2>2, <2>3
<1> QED BY <1>1, <1>2 DEF SyncExpires, MastExpires, TooManyTries, Hangup

\* Time passes, or the line garbles an item: nobody decides anything.
LEMMA FaultsQuiet ==
  ASSUME HInv, Tick \/ \E p \in Node : Garble(p)
  PROVE  Quiet(Answerer) /\ UNCHANGED sess
<1>0. TypeOK /\ AnswererOk /\ HandshakeOk(Answerer)
  BY Nodes DEF HInv
<1>1. ASSUME h' \in [Node -> Local], \A q \in Node : Same(q), Allowed
      PROVE  Quiet(Answerer)
  BY <1>0, <1>1, Nodes DEF Quiet, Same, HandshakeOk, AnswererOk
<1>2. CASE Tick
  <2>1. h' = [q \in Node |-> Older(h[q])] /\ UNCHANGED <<chan, sess>>
    BY <1>2 DEF Tick
  <2>2. \A q \in Node : Like(h[q], h'[q], h[q].st)
    BY <1>0, <2>1, Aging DEF TypeOK
  <2>3. h' \in [Node -> Local] /\ \A q \in Node : Same(q)
    BY <2>1, <2>2 DEF Like, Same
  <2> QED BY <1>1, <2>1, <2>3, LineStays, Nodes
<1>3. ASSUME NEW p \in Node, Garble(p) PROVE Quiet(Answerer) /\ UNCHANGED sess
  <2>1. UNCHANGED <<h, sess>> /\ chan[p] # << >>
    BY <1>3 DEF Garble
  <2>2. \A q \in Node : chan[q] \in Seq(For(q))
    BY DEF HInv
  <2>3. CASE chan' = [chan EXCEPT ![p] = Tail(@)]
    <3>1. Tail(chan[p]) \in Seq(For(p))
      BY <2>1, <2>2, FirstItem
    <3>2. Allowed
      BY <1>0, <2>2, <2>3, <3>1 DEF Allowed, TypeOK
    <3> QED BY <1>0, <1>1, <2>1, <3>2 DEF Same, TypeOK
  <2>4. ASSUME NEW m \in Garbled(chan[p][1]), chan' = [chan EXCEPT ![p][1] = m]
        PROVE  Quiet(Answerer)
    <3>1. chan[p][1] \in For(p) /\ chan[p][1] \in Item
      BY <2>1, Heard
    <3>2. \/ m = Sign("TEXT")
          \/ m \in [k : Packets \ {"DAT", "HELLO"}, d : Info] /\ chan[p][1].k \in {"DAT", "HELLO"}
      <4>1. CASE chan[p][1].k \in {"DAT", "HELLO"}
        <5>1. chan[p][1] \in [k : Packets, d : Info]
          BY <3>1, <4>1 DEF Item, PlainItem, Plain, EarlySigns
        <5> QED BY <4>1, <5>1 DEF Garbled, Packets
      <4>2. CASE chan[p][1].k \notin {"DAT", "HELLO"}
        BY <4>2 DEF Garbled
      <4> QED BY <4>1, <4>2
    <3>3. Sign("TEXT") \in EarlyItem /\ Sign("TEXT") \in PlainItem
      BY DEF Sign, EarlyItem, PlainItem, Plain, EarlySigns
    <3>4. h[Answerer].st = "asleep" => chan[p][1].k \notin {"DAT", "HELLO"}
      BY <3>1 DEF For, EarlyItem, EarlySigns
    <3>5. m \in For(p)
      BY <3>2, <3>3, <3>4 DEF For, Answer, Item, Packets, PlainItem, Plain, EarlySigns
    <3>6. [chan[p] EXCEPT ![1] = m] \in Seq(For(p))
      BY <2>1, <2>2, <3>5, FirstItem, ExceptSeq
    <3>7. Allowed
      BY <1>0, <2>2, <2>4, <3>6 DEF Allowed, TypeOK
    <3> QED BY <1>0, <1>1, <2>1, <3>7 DEF Same, TypeOK
  <2> QED BY <1>3, <2>1, <2>3, <2>4 DEF Garble
<1> QED BY <1>2, <1>3

\* The answering mailer is started.
LEMMA StartStep ==
  ASSUME HInv, StartIncoming
  PROVE  HInv'
<1>0. TypeOK /\ AnswererOk /\ CallerOk /\ \A q \in Node : HandshakeOk(q) /\ chan[q] \in Seq(EarlyItem)
  BY DEF HInv, StartIncoming, At, For
<1> DEFINE r == [h[Answerer] EXCEPT !.st = "init", !.mast = InitMast, !.sync = 1]
<1>1. h[Answerer].st = "asleep" /\ Becomes(Answerer, r)
  BY DEF StartIncoming, At
<1>2. r \in Local
  BY <1>0, Nodes, Updates DEF InitMast, State, TypeOK
<1>3. Like(h[Answerer], r, "init")
  BY <1>0, <1>2, Nodes DEF Like, Local, TypeOK
<1> HIDE DEF r
<1>4. h' \in [Node -> Local] /\ h'[Answerer] = r /\ Same(Caller) /\ UNCHANGED sess
  BY <1>0, <1>1, <1>2, Becoming, Nodes
<1>5. chan' = [q \in Node |-> chan'[q]] /\ \A q \in Node : chan'[q] \in Seq(PlainItem)
  <2>1. EarlyItem \subseteq PlainItem
    BY DEF EarlyItem, PlainItem, Plain
  <2>2. \A q \in Node : chan[q] \in Seq(PlainItem)
    BY <1>0, <2>1, SeqMonotonic
  <2>3. <<"REQ", "TEXT">> \in Seq(Plain) /\ <<"TEXT">> \in Seq(Plain)
    BY DEF Plain, EarlySigns
  <2>4. \E ks \in Seq(Plain) : Sends(Answerer, Signs(ks))
    BY <2>3 DEF StartIncoming
  <2>5. \E ms \in Seq(PlainItem) : Sends(Answerer, ms)
    BY <2>4, SignsPlain DEF PlainItem
  <2>6. chan \in [Node -> Seq(Item)] /\ chan[Answerer] \in Seq(PlainItem) /\ chan[Peer(Answerer)] \in Seq(PlainItem)
    BY <1>0, <2>2, Nodes DEF TypeOK
  <2> QED BY <2>5, <2>6, SendsKeeps, Nodes
<1>6. PlainItem \subseteq Item /\ \A q \in Node : PlainItem \subseteq For(q)'
  BY <1>3, <1>4 DEF Like, For, Answer, Item, PlainItem, Plain, EarlySigns
<1>7. \A q \in Node : chan'[q] \in Seq(Item) /\ chan'[q] \in Seq(For(q)')
  BY <1>5, <1>6, SeqMonotonic
<1>8. TypeOK'
  BY <1>0, <1>4, <1>5, <1>7 DEF TypeOK
<1>9. AnswererOk' /\ CallerOk'
  BY <1>0, <1>1, <1>3, <1>4 DEF AnswererOk, CallerOk, Like, Same, Decided
<1>10. \A q \in Node : HandshakeOk(q)'
  BY <1>0, <1>3, <1>4, Nodes DEF HandshakeOk, Like, Same, EmsiStates, YoohooStates
<1> QED BY <1>7, <1>8, <1>9, <1>10 DEF HInv

-----------------------------------------------------------------------------
(* Decisions                                                                *)

\* The caller's packet is good: the answering mailer decides.
LEMMA AnswererStep ==
  ASSUME HInv, EmsiDat(Answerer) \/ YoohooHello(Answerer)
  PROVE  HInv'
<1>0. /\ TypeOK /\ AnswererOk /\ CallerOk /\ \A q \in Node : HandshakeOk(q) /\ chan[q] \in Seq(For(q))
      /\ h[Answerer] \in Local
  BY Nodes DEF HInv, TypeOK
<1> DEFINE d == chan[Answerer][1].d
           r == AnswererDecides(h[Answerer], d)
<1>1. PICK next \in {"senddat", "sendhello"}, acks \in Seq(Plain) :
        /\ Becomes(Answerer, Starting(r, next, EmsiMast)) /\ Answers(Answerer, Signs(acks))
        /\ chan[Answerer] # << >> /\ chan[Answerer][1].k \in {"DAT", "HELLO"}
        /\ h[Answerer].st \in {"waitdat", "waitheader", "toss"} /\ Running(Answerer)
        /\ h[Answerer].hs = IF next = "senddat" THEN "EMSI" ELSE "YOOHOO"
  <2>1. <<"ACK", "ACK">> \in Seq(Plain) /\ <<"ACKc">> \in Seq(Plain)
    BY DEF Plain
  <2>2. CASE EmsiDat(Answerer)
    <3>1. h[Answerer].hs = "EMSI" /\ h[Answerer].st = "waitdat"
      BY <1>0, <2>2, Nodes DEF EmsiDat, Takes, Reads, At, HandshakeOk, EmsiStates
    <3> QED BY <2>1, <2>2, <3>1, Nodes DEF EmsiDat, GotPacket, Takes, Reads, At
  <2>3. CASE YoohooHello(Answerer)
    <3>1. h[Answerer].hs = "YOOHOO" /\ h[Answerer].st \in {"waitheader", "toss"}
      BY <1>0, <2>3, Nodes DEF YoohooHello, Takes, Reads, At, HandshakeOk, YoohooStates
    <3> QED BY <2>1, <2>3, <3>1, Nodes DEF YoohooHello, GotPacket, Takes, Reads, At
  <2> QED BY <2>2, <2>3
<1>2. h[Answerer].verdict = "-" /\ h[Answerer].proto = NoProtocol /\ h[Caller].rc # "OK"
  BY <1>0, <1>1 DEF AnswererOk, CallerOk, Decided
<1>3. d \in Info
  <2>1. chan[Answerer][1] \in Item
    BY <1>1, Heard, Nodes
  <2> QED BY <1>1, <2>1 DEF Item, PlainItem, Plain, EarlySigns
<1>4. /\ r \in Local /\ r.st = h[Answerer].st /\ r.hs = h[Answerer].hs /\ r.rc = h[Answerer].rc
      /\ r.verdict # "-" /\ (r.verdict = "OK" <=> r.proto # NoProtocol) /\ (r.rh1 => r.hs = "EMSI")
  BY <1>0, <1>2, <1>3, AnswererDecision
<1> HIDE DEF d, r
<1> DEFINE s == Starting(r, next, EmsiMast)
<1>5. s \in Local
  BY <1>4, Updates DEF Starting, EmsiMast, State, EmsiStates, YoohooStates
<1>6. /\ s.st = next /\ s.hs = r.hs /\ s.rc = r.rc /\ s.verdict = r.verdict /\ s.proto = r.proto
      /\ s.rh1 = r.rh1
  BY <1>4 DEF Starting, Local
<1> HIDE DEF s
<1>7. h' \in [Node -> Local] /\ h'[Answerer] = s /\ Same(Caller) /\ UNCHANGED sess
  BY <1>0, <1>1, <1>5, Becoming, Nodes DEF s
<1>8. Allowed
  <2>1. Signs(acks) \in Seq(For(Caller))
    BY <1>1, SignsAllowed, Nodes
  <2> QED BY <1>1, <2>1, LineAnswers, Nodes
<1>9. \A q \in Node : For(q) \subseteq For(q)' /\ For(q)' \subseteq Item
  <2>1. h[Answerer].st \notin Decided \cup {"asleep"} /\ h'[Answerer].st # "asleep"
    BY <1>1, <1>6, <1>7 DEF Decided
  <2> QED BY <2>1 DEF For, Answer
<1>10. \A q \in Node : chan'[q] \in Seq(For(q)') /\ chan'[q] \in Seq(Item)
  <2>1. \A q \in Node : chan'[q] \in Seq(For(q)')
    BY <1>8, <1>9, SeqMonotonic DEF Allowed
  <2> QED BY <1>9, <2>1, SeqMonotonic
<1>11. TypeOK'
  <2>1. chan' \in [Node -> Seq(Item)]
    BY <1>8, <1>10 DEF Allowed
  <2> QED BY <1>0, <1>7, <2>1 DEF TypeOK
<1>12. AnswererOk' /\ CallerOk'
  BY <1>0, <1>1, <1>2, <1>4, <1>6, <1>7 DEF AnswererOk, CallerOk, Same, Decided, Running
<1>13. \A q \in Node : HandshakeOk(q)'
  BY <1>0, <1>1, <1>4, <1>6, <1>7, Nodes DEF HandshakeOk, Same, EmsiStates, YoohooStates
<1> QED BY <1>10, <1>11, <1>12, <1>13 DEF HInv

\* The answer is good: the caller goes on as it was told to, or not at all.
LEMMA CallerStep ==
  ASSUME HInv, EmsiDat(Caller) \/ YoohooHello(Caller)
  PROVE  HInv'
<1>0. /\ TypeOK /\ AnswererOk /\ \A q \in Node : HandshakeOk(q) /\ chan[q] \in Seq(For(q))
      /\ h[Caller] \in Local /\ h[Answerer] \in Local
  BY Nodes DEF HInv, TypeOK
<1> DEFINE d == chan[Caller][1].d
           r == CallerDecides(h[Caller], d)
           s == [r EXCEPT !.rc = r.verdict]
<1>1. PICK acks \in Seq(Plain) :
        /\ Becomes(Caller, s) /\ chan[Caller] # << >>
        /\ chan' = [chan EXCEPT ![Caller] = << >>,
                                ![Answerer] = IF Running(Answerer) THEN @ \o Signs(acks) ELSE @]
        /\ \/ chan[Caller][1].k = "DAT" /\ h[Caller].hs = "EMSI"
           \/ chan[Caller][1].k = "HELLO" /\ h[Caller].hs = "YOOHOO"
        /\ h[Caller].st \in {"waitdat", "waitheader", "toss"}
  <2>1. <<"ACK", "ACK">> \in Seq(Plain) /\ <<"ACKc">> \in Seq(Plain)
    BY DEF Plain
  <2>2. CASE EmsiDat(Caller)
    <3>1. h[Caller].hs = "EMSI" /\ h[Caller].st = "waitdat"
      BY <1>0, <2>2, Nodes DEF EmsiDat, Takes, Reads, At, HandshakeOk, EmsiStates
    <3> QED BY <2>1, <2>2, <3>1, Nodes DEF EmsiDat, GotPacket, Takes, Reads, At
  <2>3. CASE YoohooHello(Caller)
    <3>1. h[Caller].hs = "YOOHOO" /\ h[Caller].st \in {"waitheader", "toss"}
      BY <1>0, <2>3, Nodes DEF YoohooHello, Takes, Reads, At, HandshakeOk, YoohooStates
    <3> QED BY <2>1, <2>3, <3>1, Nodes DEF YoohooHello, GotPacket, Takes, Reads, At
  <2> QED BY <2>2, <2>3
<1>2. h[Answerer].st # "asleep"
  BY <1>1, Started, Nodes DEF EmsiStates, YoohooStates
<1>3. /\ h[Answerer].hs = h[Caller].hs /\ h[Answerer].st \in Decided /\ d \in Info
      /\ d = IF h[Caller].hs = "EMSI" THEN EmsiSysInfo(Answerer) ELSE YoohooSysInfo(Answerer)
  <2>1. chan[Caller][1] \in Answer
    BY <1>1, <1>2, Heard, Nodes DEF For
  <2>2. /\ d = IF h[Caller].hs = "EMSI" THEN EmsiSysInfo(Answerer) ELSE YoohooSysInfo(Answerer)
        /\ h[Answerer].st \in Decided
        /\ h[Answerer].st \in IF h[Caller].hs = "EMSI" THEN EmsiStates ELSE YoohooStates
    BY <1>1, <2>1 DEF Answer
  <2> QED BY <1>0, <1>1, <2>2, InfoType, Nodes DEF HandshakeOk
<1>4. /\ r \in Local /\ r.st = h[Caller].st /\ r.hs = h[Caller].hs /\ r.verdict \in Verdict
      /\ r.verdict = "OK" => r.proto \in d.protos /\ r.rh1 = (r.hs = "EMSI" /\ d.rh1)
  BY <1>0, <1>3, CallerDecision
<1> HIDE DEF d, r
<1>5. r.verdict = "OK" =>
        /\ r.proto = h[Answerer].proto /\ h[Answerer].verdict = "OK"
        /\ r.proto = "HYD" => r.rh1 = h[Answerer].rh1
  <2>1. SUFFICES ASSUME r.verdict = "OK"
                 PROVE  /\ r.proto = h[Answerer].proto /\ h[Answerer].verdict = "OK"
                        /\ r.proto = "HYD" => r.rh1 = h[Answerer].rh1
    OBVIOUS
  <2>2. CASE h[Caller].hs = "EMSI"
    <3>1. r.proto \in {h[Answerer].proto} \ {NoProtocol} /\ r.rh1 = (h[Answerer].rh1 /\ h[Answerer].proto = "HYD")
      BY <1>3, <1>4, <2>1, <2>2, Nodes DEF EmsiSysInfo
    <3> QED BY <1>0, <3>1 DEF AnswererOk, Local
  <2>3. CASE h[Caller].hs = "YOOHOO"
    <3>1. r.proto \in {h[Answerer].proto} \ {NoProtocol} /\ r.rh1 = FALSE
      BY <1>3, <1>4, <2>1, <2>3, Nodes DEF YoohooSysInfo
    <3>2. h[Answerer].rh1 = FALSE
      BY <1>0, <1>3, <2>3 DEF AnswererOk, Local
    <3> QED BY <1>0, <3>1, <3>2 DEF AnswererOk
  <2> QED BY <1>1, <2>2, <2>3
<1>6. s \in Local
  BY <1>4, Updates
<1>7. /\ s.st = r.st /\ s.hs = r.hs /\ s.rc = r.verdict /\ s.proto = r.proto /\ s.rh1 = r.rh1
  BY <1>4 DEF Local
<1> HIDE DEF s
<1>8. h' \in [Node -> Local] /\ h'[Caller] = s /\ Same(Answerer) /\ UNCHANGED sess
  BY <1>0, <1>1, <1>6, Becoming, Nodes
<1>9. \A q \in Node : For(q)' = For(q) /\ For(q) \subseteq Item
  <2>1. EmsiSysInfo(Answerer)' = EmsiSysInfo(Answerer) /\ YoohooSysInfo(Answerer)' = YoohooSysInfo(Answerer)
    BY <1>8, Nodes DEF EmsiSysInfo, YoohooSysInfo, Same, Opts
  <2> QED BY <1>2, <1>8, <2>1 DEF For, Answer, Same
<1>10. \A q \in Node : chan'[q] \in Seq(For(q))
  <2>1. Signs(acks) \in Seq(For(Answerer))
    BY <1>2, SignsAllowed, Nodes
  <2>2. chan[Answerer] \o Signs(acks) \in Seq(For(Answerer)) /\ << >> \in Seq(For(Caller))
    BY <1>0, <2>1, ConcatProperties, EmptySeq, Nodes
  <2>3. chan'[Caller] = << >> /\ chan'[Answerer] \in {chan[Answerer], chan[Answerer] \o Signs(acks)}
    BY <1>0, <1>1, Nodes DEF TypeOK
  <2> QED BY <1>0, <2>2, <2>3 DEF Node
<1>11. TypeOK'
  <2>1. \A q \in Node : chan'[q] \in Seq(Item)
    BY <1>9, <1>10, SeqMonotonic
  <2>2. chan' = [q \in Node |-> chan'[q]]
    BY <1>0, <1>1 DEF TypeOK
  <2> QED BY <1>0, <1>8, <2>1, <2>2 DEF TypeOK
<1>12. AnswererOk'
  BY <1>0, <1>8 DEF AnswererOk, Same
<1>13. CallerOk'
  BY <1>2, <1>3, <1>4, <1>5, <1>7, <1>8 DEF CallerOk, Same
<1>14. \A q \in Node : HandshakeOk(q)'
  BY <1>0, <1>4, <1>7, <1>8, Nodes DEF HandshakeOk, Same
<1> QED BY <1>9, <1>10, <1>11, <1>12, <1>13, <1>14 DEF HInv

-----------------------------------------------------------------------------
LEMMA HInvInit == Init => HInv
<1> SUFFICES ASSUME Init PROVE HInv
  OBVIOUS
<1>1. /\ sess \in Sessions /\ sess \in Session /\ h = [p \in Node |-> Fresh(p, sess)]
      /\ chan = [p \in Node |-> IF p = Caller /\ sess.hears # "nothing" THEN Signs(<<"TEXT">>) ELSE << >>]
  BY HandshakeAssumption DEF Init
<1>2. \A p \in Node : Fresh(p, sess) \in Local
  BY <1>1 DEF Fresh, Session, Local, State, Wake
<1>3. \A p \in Node : chan[p] \in Seq(EarlyItem) /\ chan[p] \in Seq(Item)
  <2>1. <<"TEXT">> \in Seq(EarlySigns)
    BY DEF EarlySigns
  <2>2. Signs(<<"TEXT">>) \in Seq(EarlyItem) /\ << >> \in Seq(EarlyItem)
    BY <2>1, SignsPlain, EmptySeq DEF EarlyItem
  <2>3. EarlyItem \subseteq Item
    BY DEF EarlyItem, Item, PlainItem, Plain
  <2>4. \A p \in Node : chan[p] \in Seq(EarlyItem)
    BY <1>1, <2>2
  <2> QED BY <2>3, <2>4, SeqMonotonic
<1>4. TypeOK
  BY <1>1, <1>2, <1>3 DEF TypeOK
<1>5. AnswererOk /\ CallerOk /\ \A p \in Node : HandshakeOk(p) /\ For(p) = EarlyItem
  BY <1>1, Nodes DEF AnswererOk, CallerOk, HandshakeOk, For, Fresh, Decided, EmsiStates, YoohooStates
<1> QED BY <1>3, <1>4, <1>5 DEF HInv

LEMMA HInvNext == HInv /\ [Next]_vars => HInv'
<1> SUFFICES ASSUME HInv, [Next]_vars PROVE HInv'
  OBVIOUS
<1>1. CASE Awake \/ OutgoingEmsi \/ OutgoingEcho
  BY <1>1, InitQuiet, QuietStep, Nodes DEF Beginning
<1>2. CASE Echo \/ IncomingEmsi
  BY <1>2, InitQuiet, QuietStep, Nodes DEF Beginning
<1>3. CASE StartIncoming
  BY <1>3, StartStep
<1>4. CASE Tick \/ \E p \in Node : Garble(p)
  BY <1>4, FaultsQuiet, QuietStep, Nodes
<1>5. ASSUME NEW p \in Node, Step(p) PROVE HInv'
  <2>1. CASE EmsiDat(p) \/ YoohooHello(p)
    BY <2>1, AnswererStep, CallerStep DEF Node
  <2>2. CASE Emsi(p) /\ ~EmsiDat(p)
    BY <2>2, EmsiQuiet, QuietStep
  <2>3. CASE Yoohoo(p) /\ ~YoohooHello(p)
    BY <2>3, YoohooQuiet, QuietStep
  <2>4. CASE Resync(p) \/ InitYoohoo(p) \/ InitFtsc(p) \/ InitOther(p)
    BY <2>4, InitQuiet, QuietStep DEF Beginning
  <2>5. CASE SyncExpires(p) \/ MastExpires(p) \/ TooManyTries(p) \/ Hangup(p)
    BY <2>5, TimersQuiet, QuietStep
  <2> QED BY <1>5, <2>1, <2>2, <2>3, <2>4, <2>5 DEF Step
<1>6. CASE UNCHANGED vars
  BY <1>6 DEF vars, HInv, TypeOK, AnswererOk, CallerOk, HandshakeOk, For, Answer, EmsiSysInfo,
              YoohooSysInfo, Opts
<1> QED BY <1>1, <1>2, <1>3, <1>4, <1>5, <1>6 DEF Next, Live, HandshakeOver

\* The two decisions stay as they are related in every reachable state.
THEOREM Inductive == Spec => []HInv
BY HInvInit, HInvNext, PTL DEF Spec

\* Mailers that both go on to the transfer after emsi_outgoing and emsi_incoming, or
\* yoohoo_outgoing and yoohoo_incoming, have shaken hands in the same way and run the
\* same protocol with the same options, whatever is garbled, echoed or late.
THEOREM SameProtocol == Spec => []ProtocolAgreed
<1>1. HInv => ProtocolAgreed
  BY Nodes DEF HInv, AnswererOk, CallerOk, ProtocolAgreed, BothOk
<1> QED BY <1>1, Inductive, PTL

\* A caller that the answering mailer turned away never goes on to the transfer.
THEOREM TurnedAway == Spec => []RefusalHeard
<1>1. HInv => RefusalHeard
  BY DEF HInv, CallerOk, RefusalHeard
<1> QED BY <1>1, Inductive, PTL
=============================================================================

----------------------------- MODULE Handshake -----------------------------
(***************************************************************************)
(* From the connect to the transfer: session_init_outgoing and             *)
(* session_init_incoming (sess_init.c) find out which handshake both       *)
(* mailers know, EMSI (prot_emsi.c, prot_emsi_api.c) or YooHoo             *)
(* (prot_yoohoo.c, prot_yoohoo_api.c) exchanges who they are, and the      *)
(* addresses, the password, the locks and the protocols decide whether     *)
(* there is a session (sess_main.c).                                       *)
(*                                                                         *)
(* The line carries the sequences and the control characters these loops   *)
(* tell apart; the rest is TEXT.  A clock of five seconds a tick runs the  *)
(* timers while nobody has anything to read or to send.                    *)
(***************************************************************************)
EXTENDS Integers, Sequences, FiniteSets

CONSTANTS
    Caller, Answerer,
    Sessions,         \* how a session may begin (see Session)
    MaxUnexpected     \* unexpected EMSI sequences allowed, 10 in the code

Node == {Caller, Answerer}
Peer(p) == IF p = Caller THEN Answerer ELSE Caller

Protocol == {"HYD", "JAN", "DZA", "ZAP", "ZMO"}
NoProtocol == "NOPROT"

\* The options of a mailer: the handshakes and the protocols it may use,
\* OPTIONS_NO_RH1, OPTIONS_NO_PICKUP, OPTIONS_HOLDALL, emsi_slave_sends_nak.
Options == [emsi : BOOLEAN, yoohoo : BOOLEAN, ftsc : BOOLEAN, protos : SUBSET Protocol,
            rh1 : BOOLEAN, npu : BOOLEAN, hold : BOOLEAN, nak : BOOLEAN]

\* An address the other side presents: our own one, one without a password,
\* one whose password it knows or does not know; is it locked by another task?
Address == [kind : {"own", "open", "right", "wrong"}, busy : BOOLEAN]

\* How long the answering mailer takes to start and what the caller hears in
\* the meantime, what each side is told of the other, does the line have the
\* speed and the caller an inbound; was BUGGY_EMSI defined; what a stray HELLO
\* may be taken for; how often items are garbled and timers fire early.
Session == [opts : [Node -> Options], addrs : [Node -> Seq(Address)], genuine : BOOLEAN,
            sleep : Nat, hears : {"nothing", "prompt", "echo"}, slow : BOOLEAN,
            inbound : BOOLEAN, buggy : BOOLEAN, stray : SUBSET {"ACKc", "?"},
            noise : Nat, early : Nat]

ASSUME HandshakeAssumption ==
    /\ Caller # Answerer /\ MaxUnexpected \in Nat
    /\ \A s \in Sessions : s \in Session /\ \A p \in Node : s.addrs[p] # <<>>

VARIABLES
    h,        \* [Node -> locals of the loops, s_state]
    chan,     \* [Node -> Seq(item)]: on their way to the node
    sess,     \* the session that was begun
    used      \* what is used up of the noise and of the early ticks

vars == <<h, chan, sess, used>>

\* Timers, in ticks of five seconds.
Wake == 3            \* fifteen tries of a second
InitMast == 12
OutgoingSync == 1
EmsiMast == 12
RxSync == 4
HelloWait == 8
HeaderWait == 24
JunkWait == 2
CharWait == 6

EmsiTries == 6
HelloTries == 10
EnqTries == 3

Sign(k) == [k |-> k, d |-> {}]
Signs(ks) == [i \in DOMAIN ks |-> Sign(ks[i])]

Fresh(p, s) ==
    [st |-> IF p = Caller THEN "wake" ELSE "asleep", hs |-> "UNKNOWN", tries |-> 0,
     mast |-> IF p = Caller THEN Wake ELSE 0, sync |-> IF p = Caller THEN 0 ELSE s.sleep,
     enqs |-> 0, tsyncs |-> 0, unexp |-> 0, naked |-> FALSE, verdict |-> "-",
     proto |-> NoProtocol, rh1 |-> FALSE, holdall |-> FALSE, mailfor |-> {}, rc |-> "run"]

Init ==
    \E s \in Sessions :
        /\ sess = s
        /\ h = [p \in Node |-> Fresh(p, s)]
        /\ chan = [p \in Node |-> IF p = Caller /\ s.hears # "nothing" THEN Signs(<<"TEXT">>) ELSE <<>>]
        /\ used = [noise |-> 0, early |-> 0]

Opts(p) == sess.opts[p]
Running(p) == h[p].rc = "run"
Sending == {"senddat", "sendnak", "sendhello", "sendenq"}

\* Mutant: no timeout for the response to a HELLO.
MastDue_NoResponse(p) ==
    /\ h[p].st \in {"wake", "init", "waitack", "waitdat", "rest", "waitheader"}
    /\ h[p].mast = 0

\* The states whose master timer, or whose other timer, has run out.
MastDue(p) ==
    /\ h[p].st \in {"wake", "init", "waitack", "waitdat", "rest", "waitresp", "waitheader"}
    /\ h[p].mast = 0
SyncDue(p) ==
    /\ h[p].st \in {"asleep", "init", "waitack", "waitdat", "toss", "resthello"}
    /\ h[p].sync = 0 /\ ~MastDue(p)
Due(p) == Running(p) /\ (h[p].st \in Sending \/ MastDue(p) \/ SyncDue(p))

At(p, st) == Running(p) /\ h[p].st = st
Reads(p, st) == At(p, st) /\ ~Due(p) /\ chan[p] # <<>>
Takes(p, st, ks) == Reads(p, st) /\ chan[p][1].k \in ks

Becomes(p, r) == h' = [h EXCEPT ![p] = r] /\ UNCHANGED <<sess, used>>
\* What is sent to a mailer that has left the handshake is lost.
Sends(p, ms) == chan' = [chan EXCEPT ![Peer(p)] = IF Running(Peer(p)) THEN @ \o ms ELSE @]
Answers(p, ms) ==
    chan' = [chan EXCEPT ![p] = Tail(@),
                         ![Peer(p)] = IF Running(Peer(p)) THEN @ \o ms ELSE @]
Ends(p, r, code) ==
    /\ Becomes(p, [r EXCEPT !.rc = code])
    /\ chan' = [chan EXCEPT ![p] = <<>>]

\* Five seconds pass for a mailer.
Older(r) == [r EXCEPT !.mast = IF @ > 0 THEN @ - 1 ELSE 0, !.sync = IF @ > 0 THEN @ - 1 ELSE 0]

\* The caller sleeps for some seconds, for a login and a password prompt.
Sleeps(r) ==
    h' = [h EXCEPT ![Caller] = [r EXCEPT !.mast = Older(h[Caller]).mast], ![Answerer] = Older(@)]

Starting(r, st, mast) == [r EXCEPT !.st = st, !.tries = 0, !.mast = mast]

-----------------------------------------------------------------------------
(* What was presented, and what it is worth (sess_main.c)                   *)

\* YooHoo presents the first address only.
Presented(p) == IF h[p].hs = "YOOHOO" THEN SubSeq(sess.addrs[p], 1, 1) ELSE sess.addrs[p]

\* session_addrs_check: an address is good unless it is our own.
AddrGood(a) == a.kind # "own"

\* session_get_password: is a password configured for the address?
HasPassword(a) == a.kind \in {"right", "wrong"}

\* An answer without a password is a wrong one where a password is expected.
Kinds(p, pw) == {IF HasPassword(a) /\ ~pw THEN "wrong" ELSE a.kind :
                    a \in {Presented(p)[i] : i \in DOMAIN Presented(p)}}

\* session_addrs_check: one right password is enough.
CheckFails(p, pw) == "wrong" \in Kinds(p, pw) /\ "right" \notin Kinds(p, pw)

\* session_addrs_lock: the good addresses no other task has locked.
Locked(p) == {i \in DOMAIN Presented(p) : AddrGood(Presented(p)[i]) /\ ~Presented(p)[i].busy}

\* session_addrs_to_falist: their mail makes the queue.
MailFor(p) == Locked(p)

\* session_addrs_check_genuine: is the address that was called among them?
Genuine == sess.genuine

\* session_check_speed
TooSlow == sess.slow

\* session_set_send_options, and what emsi_set_send_options adds to it.
SendOptions(p) == [rh1 |-> FALSE, holdall |-> Opts(p).hold]
EmsiSendOptions(p, d) ==
    [rh1 |-> d.rh1, holdall |-> SendOptions(p).holdall \/ (p = Answerer /\ d.npu)]

\* The first of the protocols that is in S.
Pick(order, S) ==
    IF \E i \in DOMAIN order : order[i] \in S
    THEN order[CHOOSE i \in DOMAIN order : order[i] \in S /\ \A j \in 1..(i - 1) : order[j] \notin S]
    ELSE NoProtocol

AnswererOrder == <<"HYD", "ZAP", "ZMO">>
CallerOrder(hs) == IF hs = "EMSI" THEN <<"HYD", "JAN", "DZA", "ZAP", "ZMO">>
                                  ELSE <<"HYD", "JAN", "ZAP", "ZMO">>

\* emsi_incoming and yoohoo_incoming, from the caller's packet to our own.
AnswererVerdict(d) ==
    LET proto == Pick(AnswererOrder, d.protos \cap Opts(Answerer).protos) IN
    CASE CheckFails(Answerer, d.pw) -> "BAD_PASSWD"
      [] ~CheckFails(Answerer, d.pw) /\ Locked(Answerer) = {} -> "BUSY"
      [] ~CheckFails(Answerer, d.pw) /\ Locked(Answerer) # {} /\ TooSlow -> "LOW_SPEED"
      [] OTHER -> IF proto = NoProtocol THEN "NO_PROTOS" ELSE "OK"

\* Mutant: the protocol is chosen before the caller is checked.
AnswererDecides_Early(r, d) ==
    [r EXCEPT !.verdict = AnswererVerdict(d),
              !.proto = Pick(AnswererOrder, d.protos \cap Opts(Answerer).protos),
              !.rh1 = r.hs = "EMSI" /\ d.rh1,
              !.holdall = r.hs = "EMSI" /\ (Opts(Answerer).hold \/ d.npu),
              !.mailfor = MailFor(Answerer)]

\* yoohoo_incoming sets no send options.
AnswererDecides(r, d) ==
    LET v == AnswererVerdict(d)  ok == v \in {"OK", "NO_PROTOS"}
        o == EmsiSendOptions(Answerer, d) IN
    [r EXCEPT !.verdict = v,
              !.proto = IF v = "OK" THEN Pick(AnswererOrder, d.protos \cap Opts(Answerer).protos) ELSE @,
              !.rh1 = ok /\ r.hs = "EMSI" /\ o.rh1,
              !.holdall = ok /\ r.hs = "EMSI" /\ o.holdall,
              !.mailfor = IF ok THEN MailFor(Answerer) ELSE @]

\* The rest of emsi_outgoing and of yoohoo_outgoing, which ignores our options.
CallerProtocol(hs, d) ==
    Pick(CallerOrder(hs), IF hs = "EMSI" THEN d.protos \cap Opts(Caller).protos ELSE d.protos)
CallerVerdict(hs, d) ==
    CASE ~Genuine -> "NO_ADDRESS"
      [] Genuine /\ CheckFails(Caller, d.pw) -> "BAD_PASSWD"
      [] OTHER -> IF CallerProtocol(hs, d) = NoProtocol THEN "NO_PROTOS"
                  ELSE IF sess.inbound THEN "OK" ELSE "OTHER_ERR"
CallerDecides(r, d) ==
    LET v == CallerVerdict(r.hs, d)
        o == IF r.hs = "EMSI" THEN EmsiSendOptions(Caller, d) ELSE SendOptions(Caller) IN
    IF v # "OK" THEN [r EXCEPT !.verdict = v]
    ELSE [r EXCEPT !.verdict = v, !.proto = CallerProtocol(r.hs, d), !.rh1 = o.rh1,
                   !.holdall = o.holdall, !.mailfor = MailFor(Caller)]

\* emsi_set_sysinfo: the caller offers what it may use, the answer is what was
\* chosen; a caller whose password was right is given it back.
EmsiSysInfo(p) ==
    IF p = Caller
    THEN [protos |-> Opts(p).protos, rh1 |-> Opts(p).rh1 /\ "HYD" \in Opts(p).protos,
          npu |-> Opts(p).npu, pw |-> TRUE]
    ELSE [protos |-> {h[p].proto} \ {NoProtocol}, rh1 |-> h[p].rh1 /\ h[p].proto = "HYD",
          npu |-> FALSE, pw |-> h[p].verdict = "OK"]

\* yoohoo_set_sysinfo: a HELLO knows neither DirZap nor the link codes.
YoohooSysInfo(p) ==
    [protos |-> IF p = Caller THEN Opts(p).protos \ {"DZA"} ELSE {h[p].proto} \ {NoProtocol, "DZA"},
     rh1 |-> FALSE, npu |-> FALSE, pw |-> p = Caller \/ h[p].verdict = "OK"]

\* Mutant: the answer offers every protocol again.
SysInfo_AllProtocols(p) ==
    [protos |-> Opts(p).protos, rh1 |-> Opts(p).rh1 /\ "HYD" \in Opts(p).protos,
     npu |-> p = Caller /\ Opts(p).npu, pw |-> p = Caller \/ h[p].verdict = "OK"]

SysInfo(p) == IF h[p].hs = "EMSI" THEN EmsiSysInfo(p) ELSE YoohooSysInfo(p)

-----------------------------------------------------------------------------
(* session_init_outgoing and session_init_incoming                          *)

\* The first character of any kind wakes the caller up.
Awake ==
    /\ Reads(Caller, "wake")
    /\ Becomes(Caller, [h[Caller] EXCEPT !.st = "init", !.mast = InitMast, !.sync = 2 * OutgoingSync])
    /\ UNCHANGED chan

\* What answers before the mailer is started echoes what it gets.
Echo ==
    /\ At(Answerer, "asleep") /\ ~Due(Answerer) /\ sess.hears = "echo" /\ chan[Answerer] # <<>>
    /\ Answers(Answerer, <<Head(chan[Answerer])>>)
    /\ UNCHANGED <<h, sess, used>>

\* The banner: EMSI_REQ and a line of text.
StartIncoming ==
    /\ At(Answerer, "asleep") /\ SyncDue(Answerer)
    /\ Becomes(Answerer, [h[Answerer] EXCEPT !.st = "init", !.mast = InitMast, !.sync = 1])
    /\ Sends(Answerer, Signs(IF Opts(Answerer).emsi THEN <<"REQ", "TEXT">> ELSE <<"TEXT">>))

Burst(o) == (IF o.emsi THEN <<"INQ", "INQ">> ELSE <<>>) \o (IF o.yoohoo THEN <<"YOO">> ELSE <<>>)
            \o (IF o.ftsc THEN <<"TSYNC">> ELSE <<>>) \o (IF o.emsi THEN <<"CR">> ELSE <<>>)

Resync(p) ==
    /\ At(p, "init") /\ SyncDue(p)
    /\ Becomes(p, [h[p] EXCEPT !.sync = OutgoingSync])
    /\ Sends(p, Signs(IF p = Caller THEN Burst(Opts(p))
                      ELSE IF Opts(p).emsi THEN <<"REQ">> ELSE <<>>))

EnqNeed(p) == IF Opts(p).emsi THEN 2 ELSE 1
TsyncNeed(p) == IF Opts(p).emsi \/ Opts(p).yoohoo THEN 2 ELSE 1

Begins(p, hs) == IF p = Caller THEN [h[p] EXCEPT !.hs = hs, !.naked = FALSE] ELSE [h[p] EXCEPT !.hs = hs]

OutgoingEmsi ==
    /\ Takes(Caller, "init", {"REQ", "NAK"}) /\ Opts(Caller).emsi
    /\ Becomes(Caller, Starting(Begins(Caller, "EMSI"), "senddat", EmsiMast))
    /\ Answers(Caller, Signs(<<"INQ", "INQ">>))

IncomingEmsi ==
    /\ Takes(Answerer, "init", {"INQ"}) /\ Opts(Answerer).emsi
    /\ Becomes(Answerer, Starting(Begins(Answerer, "EMSI"), "sendnak", EmsiMast))
    /\ Answers(Answerer, <<>>)

\* ENQ tells the caller of YooHoo, YOOHOO the answering mailer.
YoohooSign(p) == IF p = Caller THEN "ENQ" ELSE "YOO"

InitYoohoo(p) ==
    /\ Takes(p, "init", {YoohooSign(p)})
    /\ LET n == h[p].enqs + 1 IN
       Becomes(p, IF n >= EnqNeed(p) /\ Opts(p).yoohoo
                  THEN Starting(Begins(p, "YOOHOO"), IF p = Caller THEN "sendhello" ELSE "sendenq", HeaderWait)
                  ELSE [h[p] EXCEPT !.enqs = n])
    /\ Answers(p, <<>>)

\* FTS-1 is recognized and not available.
InitFtsc(p) ==
    /\ Takes(p, "init", {"TSYNC"})
    /\ LET n == h[p].tsyncs + 1 IN
       IF n > TsyncNeed(p) /\ Opts(p).ftsc
       THEN Ends(p, [h[p] EXCEPT !.hs = "FTSC"], "HANDSHAKE_ERROR")
       ELSE Becomes(p, [h[p] EXCEPT !.tsyncs = n]) /\ Answers(p, <<>>)

\* "Most probable it is echo of our own EMSI_INQ".
OutgoingEcho ==
    /\ Takes(Caller, "init", {"INQ"}) /\ Opts(Caller).emsi
    /\ Sleeps([h[Caller] EXCEPT !.enqs = 0, !.tsyncs = 0, !.sync = OutgoingSync])
    /\ Answers(Caller, Signs(<<"INQ", "INQ">>))
    /\ UNCHANGED <<sess, used>>

Sequences == {"REQ", "NAK", "INQ", "ACK", "DAT", "CUTDAT", "BADDAT"}
InitUsed(p) == {YoohooSign(p), "TSYNC"}
               \cup IF Opts(p).emsi THEN (IF p = Caller THEN {"REQ", "NAK", "INQ"} ELSE {"INQ"}) ELSE {}

\* Anything printable starts the counting of ENQ and TSYNC again.
InitOther(p) ==
    /\ Reads(p, "init") /\ chan[p][1].k \notin InitUsed(p)
    /\ LET unexp == h[p].unexp + IF chan[p][1].k \in Sequences THEN 1 ELSE 0 IN
       IF ~Opts(p).emsi \/ chan[p][1].k \notin Sequences \cup {"TEXT"}
       THEN Becomes(p, h[p]) /\ Answers(p, <<>>)
       ELSE IF unexp > MaxUnexpected THEN Ends(p, h[p], "HANDSHAKE_ERROR")
       ELSE /\ Becomes(p, [h[p] EXCEPT !.enqs = 0, !.tsyncs = 0, !.unexp = unexp])
            /\ Answers(p, <<>>)

-----------------------------------------------------------------------------
(* EMSI: emsi_send_emsidat                                                  *)

SendDat(p) ==
    /\ At(p, "senddat") /\ h[p].tries < EmsiTries
    /\ Becomes(p, [h[p] EXCEPT !.tries = @ + 1, !.st = "waitack", !.sync = IF h[p].tries > 0 THEN 4 ELSE 2])
    /\ Sends(p, <<[k |-> "DAT", d |-> SysInfo(p)]>>)

\* What the packet sent is followed by: the caller waits for theirs, the
\* answering mailer has its verdict.
AfterSent(p, next) ==
    IF p = Caller
    THEN Becomes(p, next) /\ Answers(p, <<>>)
    ELSE Ends(p, h[p], h[p].verdict)

EmsiAck(p) ==
    /\ Takes(p, "waitack", {"ACK"})
    /\ AfterSent(p, Starting(h[p], "sendnak", EmsiMast))

\* "Resend EMSI_DAT only after first EMSI_NAK".
EmsiNak(p) ==
    /\ Takes(p, "waitack", {"NAK"})
    /\ Becomes(p, [h[p] EXCEPT !.naked = TRUE, !.st = IF h[p].naked THEN @ ELSE "senddat"])
    /\ Answers(p, <<>>)

\* "Do nothing. Just update sync timer".
EmsiInq(p) ==
    /\ Takes(p, "waitack", {"INQ"})
    /\ Becomes(p, [h[p] EXCEPT !.sync = IF h[p].tries > 1 THEN 4 ELSE 2])
    /\ Answers(p, <<>>)

\* An echo of our packet, or the packet of a caller that did not see EMSI_ACK.
EmsiDatAgain(p) ==
    /\ Takes(p, "waitack", {"DAT", "CUTDAT", "BADDAT"})
    /\ IF p = Caller THEN Sleeps([h[p] EXCEPT !.st = "senddat"]) ELSE UNCHANGED h
    /\ Answers(p, Signs(IF p = Caller THEN <<"INQ", "INQ">> ELSE <<"ACK", "ACK">>))
    /\ UNCHANGED <<sess, used>>

-----------------------------------------------------------------------------
(* EMSI: emsi_recv_emsidat                                                  *)

SendNak(p) ==
    /\ At(p, "sendnak") /\ h[p].tries < EmsiTries
    /\ Becomes(p, [h[p] EXCEPT !.tries = @ + 1, !.st = "waitdat", !.sync = RxSync])
    /\ Sends(p, Signs(IF p = Caller THEN (IF h[p].tries > 0 THEN <<"NAK">> ELSE <<>>)
                      ELSE IF Opts(p).nak THEN <<"NAK", "REQ">> ELSE <<"REQ">>))

\* The packet is good: EMSI_ACK twice, and what it says decides.
GotPacket(p, acks, next) ==
    LET d == chan[p][1].d IN
    IF p = Caller
    THEN LET r == CallerDecides(h[p], d) IN
         /\ Becomes(p, [r EXCEPT !.rc = r.verdict])
         /\ chan' = [chan EXCEPT ![p] = <<>>, ![Peer(p)] = IF Running(Peer(p)) THEN @ \o acks ELSE @]
    ELSE Becomes(p, Starting(AnswererDecides(h[p], d), next, EmsiMast)) /\ Answers(p, acks)

\* Mutant: EMSI_ACK once.
EmsiDat_OneAck(p) ==
    /\ Takes(p, "waitdat", {"DAT"})
    /\ GotPacket(p, Signs(<<"ACK">>), "senddat")

EmsiDat(p) ==
    /\ Takes(p, "waitdat", {"DAT"})
    /\ GotPacket(p, Signs(<<"ACK", "ACK">>), "senddat")

EmsiBadDat(p) ==
    /\ Takes(p, "waitdat", {"BADDAT"})
    /\ Becomes(p, [h[p] EXCEPT !.st = "sendnak"]) /\ Answers(p, <<>>)

\* Characters are missing: what follows is taken for the rest of the packet.
EmsiCutDat(p) ==
    /\ Takes(p, "waitdat", {"CUTDAT"})
    /\ Becomes(p, [h[p] EXCEPT !.st = "rest"]) /\ Answers(p, <<>>)

EmsiRest(p) ==
    /\ Reads(p, "rest")
    /\ \E st \in {"sendnak"} \cup (IF chan[p][1].k = "DAT" THEN {} ELSE {"rest"}) :
          Becomes(p, [h[p] EXCEPT !.st = st])
    /\ Answers(p, <<>>)

\* #ifndef BUGGY_EMSI
EmsiRxInq(p) ==
    /\ Takes(p, "waitdat", {"INQ"}) /\ ~sess.buggy
    /\ Becomes(p, [h[p] EXCEPT !.st = "sendnak"]) /\ Answers(p, <<>>)

\* Everything else is logged, or dropped.
EmsiUsed(p) == IF h[p].st = "waitack" THEN {"ACK", "NAK", "INQ", "DAT", "CUTDAT", "BADDAT"}
               ELSE {"DAT", "CUTDAT", "BADDAT"} \cup IF sess.buggy THEN {} ELSE {"INQ"}

EmsiOther(p) ==
    /\ Reads(p, "waitack") \/ Reads(p, "waitdat")
    /\ chan[p][1].k \notin EmsiUsed(p)
    /\ Answers(p, <<>>)
    /\ UNCHANGED <<h, sess, used>>

-----------------------------------------------------------------------------
(* YooHoo: yoohoo_send_hello and yoohoo_recv_hello                          *)

SendHello(p) ==
    /\ At(p, "sendhello") /\ h[p].tries < HelloTries
    /\ Becomes(p, [h[p] EXCEPT !.tries = @ + 1, !.st = "waitresp", !.mast = HelloWait])
    /\ Sends(p, <<[k |-> "HELLO", d |-> SysInfo(p)]>>)

\* A HELLO nobody waits for is a string of characters like any other.
TakenFor(m) == IF m.k \in {"HELLO", "BADHELLO", "CUTHELLO"} THEN {"TEXT"} \cup sess.stray ELSE {m.k}

YoohooResponse(p) ==
    /\ Reads(p, "waitresp")
    /\ \E k \in TakenFor(chan[p][1]) :
          CASE k \in {"?", "ENQ"} -> Becomes(p, [h[p] EXCEPT !.st = "sendhello"]) /\ Answers(p, <<>>)
            [] k = "ACKc" -> AfterSent(p, Starting(h[p], "sendenq", HeaderWait))
            [] OTHER -> Becomes(p, h[p]) /\ Answers(p, <<>>)

SendEnq(p) ==
    /\ At(p, "sendenq") /\ h[p].tries < EnqTries
    /\ Becomes(p, [h[p] EXCEPT !.tries = @ + 1, !.st = "waitheader", !.mast = HeaderWait])
    /\ Sends(p, Signs(<<"ENQ">>))

YoohooHello(p) ==
    /\ Takes(p, "waitheader", {"HELLO"}) \/ Takes(p, "toss", {"HELLO"})
    /\ GotPacket(p, Signs(<<"ACKc">>), "sendhello")

YoohooBadHello(p) ==
    /\ Takes(p, "waitheader", {"BADHELLO"}) \/ Takes(p, "toss", {"BADHELLO"})
    /\ Becomes(p, [h[p] EXCEPT !.st = "waitheader"]) /\ Answers(p, Signs(<<"?">>))

YoohooCutHello(p) ==
    /\ Takes(p, "waitheader", {"CUTHELLO"}) \/ Takes(p, "toss", {"CUTHELLO"})
    /\ Becomes(p, [h[p] EXCEPT !.st = "resthello", !.sync = CharWait]) /\ Answers(p, <<>>)

YoohooRest(p) ==
    /\ Reads(p, "resthello")
    /\ \/ Becomes(p, [h[p] EXCEPT !.st = "waitheader"]) /\ Answers(p, Signs(<<"?">>))
       \/ /\ chan[p][1].k # "HELLO"
          /\ Becomes(p, [h[p] EXCEPT !.sync = CharWait]) /\ Answers(p, <<>>)

Hellos == {"HELLO", "BADHELLO", "CUTHELLO"}

YoohooJunk(p) ==
    /\ Reads(p, "waitheader") \/ Reads(p, "toss")
    /\ chan[p][1].k \notin Hellos
    /\ Becomes(p, IF h[p].st = "toss" THEN h[p] ELSE [h[p] EXCEPT !.st = "toss", !.sync = JunkWait])
    /\ Answers(p, <<>>)

-----------------------------------------------------------------------------
(* Timers and faults                                                        *)

\* The other timer: EMSI_DAT or EMSI_REQ again, ENQ again after the junk, or
\* the end of a HELLO that does not come.
SyncExpires(p) ==
    /\ Running(p) /\ h[p].st \notin {"asleep", "init"} /\ SyncDue(p)
    /\ IF h[p].st = "resthello" THEN Ends(p, h[p], "OTHER_ERR")
       ELSE /\ Becomes(p, [h[p] EXCEPT !.st = CASE @ = "waitack" -> "senddat"
                                                [] @ = "waitdat" -> "sendnak"
                                                [] @ = "toss" -> "sendenq"])
            /\ UNCHANGED chan

\* A refusal is a refusal even if yoohoo_send_hello fails.
FailCode(p) ==
    IF h[p].hs = "UNKNOWN" THEN "HANDSHAKE_ERROR"
    ELSE IF h[p].hs = "YOOHOO" /\ p = Answerer /\ h[p].verdict \notin {"-", "OK"}
    THEN h[p].verdict ELSE "OTHER_ERR"

MastExpires(p) ==
    /\ Running(p) /\ MastDue(p)
    /\ Ends(p, h[p], FailCode(p))

TooManyTries(p) ==
    /\ Running(p)
    /\ \/ h[p].st \in {"senddat", "sendnak"} /\ h[p].tries >= EmsiTries
       \/ h[p].st = "sendhello" /\ h[p].tries >= HelloTries
       \/ h[p].st = "sendenq" /\ h[p].tries >= EnqTries
    /\ Ends(p, h[p], FailCode(p))

Failed(p) == h[p].rc \notin {"run", "OK"}

\* The other side has hung up, and everything it sent is read.
Hangup(p) ==
    /\ Running(p) /\ Failed(Peer(p)) /\ ~Due(p) /\ chan[p] = <<>>
    /\ Ends(p, h[p], FailCode(p))

Listening(p) == Running(p) /\ (h[p].st # "asleep" \/ sess.hears = "echo")
Silent == \A p \in Node : Listening(p) => chan[p] = <<>>

\* Five seconds pass.
Tick ==
    /\ \E p \in Node : Running(p)
    /\ \A p \in Node : ~Due(p) /\ ~Failed(p)
    /\ Silent \/ used.early < sess.early
    /\ h' = [p \in Node |-> Older(h[p])]
    /\ used' = [used EXCEPT !.early = IF Silent THEN @ ELSE @ + 1]
    /\ UNCHANGED <<chan, sess>>

\* What a garbled item looks like.
Garbled(m) ==
    CASE m.k = "DAT" -> {[m EXCEPT !.k = "BADDAT"], [m EXCEPT !.k = "CUTDAT"], Sign("TEXT")}
      [] m.k = "HELLO" -> {[m EXCEPT !.k = "BADHELLO"], [m EXCEPT !.k = "CUTHELLO"], Sign("TEXT")}
      [] OTHER -> {Sign("TEXT")}

Garble(p) ==
    /\ Running(p) /\ chan[p] # <<>> /\ used.noise < sess.noise
    /\ chan[p][1].k \notin {"TEXT", "CR", "BADDAT", "CUTDAT", "BADHELLO", "CUTHELLO"}
    /\ \/ chan' = [chan EXCEPT ![p] = Tail(@)]
       \/ \E m \in Garbled(chan[p][1]) : chan' = [chan EXCEPT ![p][1] = m]
    /\ used' = [used EXCEPT !.noise = @ + 1]
    /\ UNCHANGED <<h, sess>>

-----------------------------------------------------------------------------
Emsi(p) ==
    \/ SendDat(p) \/ EmsiAck(p) \/ EmsiNak(p) \/ EmsiInq(p) \/ EmsiDatAgain(p)
    \/ SendNak(p) \/ EmsiDat(p) \/ EmsiBadDat(p) \/ EmsiCutDat(p) \/ EmsiRest(p)
    \/ EmsiRxInq(p) \/ EmsiOther(p)
Yoohoo(p) ==
    \/ SendHello(p) \/ YoohooResponse(p) \/ SendEnq(p) \/ YoohooHello(p)
    \/ YoohooBadHello(p) \/ YoohooCutHello(p) \/ YoohooRest(p) \/ YoohooJunk(p)

Step(p) ==
    \/ Resync(p) \/ InitYoohoo(p) \/ InitFtsc(p) \/ InitOther(p)
    \/ Emsi(p) \/ Yoohoo(p)
    \/ SyncExpires(p) \/ MastExpires(p) \/ TooManyTries(p) \/ Hangup(p)

Live ==
    \/ Awake \/ Echo \/ StartIncoming \/ OutgoingEmsi \/ IncomingEmsi \/ OutgoingEcho
    \/ Tick \/ \E p \in Node : Step(p)

HandshakeOver == (\A p \in Node : ~Running(p)) /\ UNCHANGED vars

Next == Live \/ (\E p \in Node : Garble(p)) \/ HandshakeOver

Spec == Init /\ [][Next]_vars

\* Both mailers run and the clock advances; the line need not do any harm.
FairSpec == Spec /\ WF_vars(Live)

-----------------------------------------------------------------------------
(* Properties                                                               *)

BothOk == \A p \in Node : h[p].rc = "OK"

\* Mailers that both go on to the transfer have shaken hands in the same way
\* and run the same protocol with the same options.
ProtocolAgreed ==
    BothOk => /\ h[Caller].hs = h[Answerer].hs
              /\ h[Caller].proto = h[Answerer].proto /\ h[Caller].proto # NoProtocol
              /\ h[Caller].proto = "HYD" => h[Caller].rh1 = h[Answerer].rh1

\* A caller that the answering mailer turns away never goes on to the transfer.
RefusalHeard == h[Answerer].verdict \notin {"-", "OK"} => h[Caller].rc # "OK"

\* A session nothing speaks against: both mailers know EMSI, the addresses and
\* the passwords are right, a protocol is common, the mailer starts in time.
Willing(p) == \A i \in DOMAIN sess.addrs[p] : sess.addrs[p][i].kind \in {"right", "open"} /\ ~sess.addrs[p][i].busy
Agreeable ==
    /\ \A p \in Node : Opts(p).emsi /\ Willing(p)
    /\ Opts(Caller).protos \cap Opts(Answerer).protos \cap {"HYD", "ZAP", "ZMO"} # {}
    /\ sess.genuine /\ sess.inbound /\ ~sess.slow /\ sess.sleep <= 1

\* Such a session begins, although the line garbles an item.
EndsWell == Agreeable /\ used.noise <= 1 /\ used.early = 0 => \A p \in Node : ~Failed(p)

\* Files are sent for an address only if its password, if there is one, was
\* given: "exclude address %s: bad password".
MailForChecked ==
    \A p \in Node : h[p].rc = "OK" =>
        \A i \in h[p].mailfor : sess.addrs[p][i].kind \in {"open", "right"}

\* A mailer configured to hold everything sends nothing.
HoldKept == \A p \in Node : h[p].rc = "OK" /\ Opts(p).hold => h[p].holdall

\* Every handshake ends, well or badly.
HandshakeEnds == <>(\A p \in Node : ~Running(p))
=============================================================================

------------------------------- MODULE Hydra -------------------------------
(***************************************************************************)
(* A Hydra session: two mailers, each running hydra_batch() of             *)
(* prot_hydra.c twice, joined by a line that may garble packets.  Each one *)
(* sends and receives at the same time, with one state machine for either  *)
(* (txstate, rxstate).                                                     *)
(*                                                                         *)
(* A turn of the loop runs the two switches first (the actions named       *)
(* Send...) and then takes at most one packet (Recv...): packets are only  *)
(* taken when the switches have nothing left to do, except in HTX_DATA and *)
(* HTX_EOF, where the output may still be busy.  A timer that expires and  *)
(* the state it leads to are one step.  Lengths and offsets are in some    *)
(* unit; a block is any number of them, so block sizes are left out.  The  *)
(* windows a mailer announces are 0, so there is no DATAACK.  HPKT_IDLE    *)
(* only puts off a timer that may expire anyway.                           *)
(***************************************************************************)
EXTENDS Integers, Sequences

CONSTANTS
    Node,        \* the two mailers
    File,        \* the files of both outbounds
    NoFile,      \* a null pi->send or pi->recv
    Sender,      \* [File -> Node]
    Sessions,    \* how a session may begin (see Session)
    Size,        \* [File -> Nat]: the length announced in FINFO
    Real,        \* [File -> Nat]: the length found when the file is read
    MaxTries,    \* 10 in the code
    RposIds,     \* packet numbers of RPOS, counted modulo this
    LongMod,     \* a long on the line: 2^32 in the code
    Cap          \* packets in flight that keep the next block waiting

\* A receiver refuses a file for now or skips it for ever, fails to write or
\* to close it, finds its temporary file removed; a sender finds the file
\* removed; a timer expires although the answer is on its way; the call drops.
Fault == {"refuse", "skip", "werror", "cerror", "rvanish", "svanish", "late", "drop"}

\* The files queued on each side, the length of each in the receiver's
\* temporary inbound, the requests among them, the EMSI flag RH1, whether a
\* long of the machine is wider than the four bytes it has on the line; what
\* may go wrong, and how many packets the line may garble.
Session == [queue : [Node -> Seq(File)], have : [File -> Nat],
            reqs : SUBSET File, RH1 : BOOLEAN, wide : BOOLEAN,
            faults : SUBSET Fault, noise : Nat]

ASSUME HydraAssumption ==
    /\ \E p, q \in Node : p # q /\ Node = {p, q}
    /\ NoFile \notin File /\ Sender \in [File -> Node]
    /\ \A s \in Sessions :
           /\ s \in Session
           /\ \A f \in File : 2 * s.have[f] < LongMod
           /\ \A p \in Node : \A i, j \in DOMAIN s.queue[p] :   \* a file is an entry of one list
                  /\ Sender[s.queue[p][i]] = p
                  /\ s.queue[p][i] = s.queue[p][j] => i = j
    /\ Size \in [File -> Nat] /\ Real \in [File -> Nat]
    /\ MaxTries \in Nat /\ RposIds \in Nat \ {0}
    /\ LongMod \in Nat /\ LongMod > 4
    /\ Cap \in Nat \ {0}
    /\ \A f \in File : 2 * Size[f] < LongMod /\ 2 * Real[f] < LongMod

VARIABLES
    h,         \* [Node -> locals of hydra_batch and fields of s_hydrainfo]
    queue,     \* [Node -> Seq(File)]: still to be sent
    snd,       \* [File -> s_finfo of the sender]
    rcv,       \* [File -> s_finfo of the receiver and the temporary file]
    chan,      \* [Node -> Seq(packet)]: on their way to the node
    inbound,   \* files in the receiver's inbound
    gone,      \* files the sender has marked as sent and unlinked
    sess,      \* the session that was begun
    trouble,   \* the kinds of things that have gone wrong
    noise      \* the number of packets garbled

files == <<queue, snd, rcv, inbound, gone>>
vars == <<h, files, chan, sess, trouble, noise>>

Peer(p) == CHOOSE q \in Node : q # p

\* hydra_putlong and hydra_getlong: four bytes on the line, never sign-extended
\* when a long has eight.
putlong(v) == v % LongMod
getlong(v) == IF ~sess.wide /\ 2 * v >= LongMod THEN v - LongMod ELSE v

\* "file" is not on the line (but for FINFO): it says what a packet is about.
Pkt(t, f, o) == [type |-> t, file |-> f, offs |-> putlong(o), id |-> 0, len |-> 0]
Plain(t) == Pkt(t, NoFile, 0)

TxPkts == {"START", "INIT", "FINFO", "DATA", "EOF", "END"}
Stored == {"success", "skipped"}

\* hydra_init, and the locals a batch starts with.
Fresh == [tx |-> "START", rx |-> "INIT", txtries |-> 0, rxtries |-> 0,
          eob |-> FALSE, lastpos |-> -1, cur |-> NoFile, recv |-> NoFile,
          rid |-> 0, sid |-> -1, batch |-> 1, moved |-> TRUE, rc |-> "run"]

Init ==
    \E s \in Sessions :
        /\ sess = s
        /\ h = [p \in Node |-> Fresh]
        /\ queue = s.queue
        /\ snd = [f \in File |-> [status |-> "none", pos |-> 0, eof |-> FALSE,
                                  open |-> FALSE, there |-> TRUE]]
        /\ rcv = [f \in File |-> [status |-> "none", bytes |-> s.have[f],
                                  open |-> FALSE, good |-> TRUE]]
        /\ chan = [p \in Node |-> <<>>]
        /\ inbound = {} /\ gone = {}
        /\ trouble = {} /\ noise = 0

Running(p) == h[p].rc = "run"

\* p goes on with record r.  moved: its last step sent or stored data.
Becomes(p, r) == h' = [h EXCEPT ![p] = [r EXCEPT !.moved = FALSE]]
Moves(p, r) == h' = [h EXCEPT ![p] = [r EXCEPT !.moved = TRUE]]

\* hydra_queuepkt; what is sent to a mailer that has hung up is lost.
Sends(p, ms) ==
    chan' = [chan EXCEPT ![Peer(p)] = IF Running(Peer(p)) THEN @ \o ms ELSE @]

\* The switches of p still have something to do before a packet is taken.
Pending(p) ==
    /\ Running(p)
    /\ \/ h[p].tx \in {"START", "INIT", "NextFile", "FINFO", "END"}
       \/ h[p].rx \in {"RPOS", "Skip"}
       \/ h[p].tx = "RINIT" /\ h[p].rx # "INIT"
       \/ h[p].tx \in {"REND", "DONE"} /\ h[p].rx = "DONE"

\* The exit label: open files are closed, with the status they have.
Ends(p, code) ==
    LET f == h[p].cur  g == h[p].recv IN
    /\ Becomes(p, [h[p] EXCEPT !.rc = code])
    /\ snd' = IF f = NoFile THEN snd ELSE [snd EXCEPT ![f].open = FALSE]
    /\ gone' = IF f # NoFile /\ snd[f].open /\ snd[f].status \in Stored THEN gone \cup {f} ELSE gone
    /\ rcv' = IF g = NoFile THEN rcv ELSE [rcv EXCEPT ![g].open = FALSE]
    /\ chan' = [chan EXCEPT ![p] = <<>>]
    /\ UNCHANGED <<queue, inbound, sess>>

-----------------------------------------------------------------------------
(* switch(txstate)                                                          *)

\* ++txtries < 10
CanTry(p) == h[p].txtries + 1 < MaxTries
\* Mutant: the tries are not counted.
Tried_Uncounted(p, state) == [h[p] EXCEPT !.tx = state]

Tried(p, state) == [h[p] EXCEPT !.txtries = @ + 1, !.tx = state]

SendStart(p) ==
    /\ Running(p) /\ h[p].tx = "START" /\ CanTry(p)
    /\ Becomes(p, Tried(p, "SWAIT")) /\ Sends(p, <<Plain("START")>>)
    /\ UNCHANGED <<files, sess, trouble, noise>>

SendInit(p) ==
    /\ Running(p) /\ h[p].tx = "INIT" /\ CanTry(p)
    /\ Becomes(p, Tried(p, "INITACK")) /\ Sends(p, <<Plain("INIT")>>)
    /\ UNCHANGED <<files, sess, trouble, noise>>

\* Mutant: only the file requests, in both batches.
Eligible_Both(p, f) == sess.RH1 => f \in sess.reqs

\* prot_get_next_file: in the first batch with RH1 only the file requests.
Eligible(p, f) == sess.RH1 /\ h[p].batch = 1 => f \in sess.reqs
Due(p) == {i \in DOMAIN queue[p] :
              Eligible(p, queue[p][i]) /\ \A j \in 1..i - 1 : ~Eligible(p, queue[p][j])}
Without(q, i) == SubSeq(q, 1, i - 1) \o SubSeq(q, i + 1, Len(q))

\* HTX_RINIT and HTX_NextFile, and the FINFO they fall through to.
Opening(p) ==
    Running(p) /\ (h[p].tx = "NextFile" \/ (h[p].tx = "RINIT" /\ h[p].rx # "INIT"))

OpenNext(p) ==
    /\ Opening(p)
    /\ \E i \in Due(p) : LET f == queue[p][i] IN
          /\ Becomes(p, [h[p] EXCEPT !.cur = f, !.eob = FALSE, !.txtries = 1, !.tx = "FINFOACK"])
          /\ queue' = [queue EXCEPT ![p] = Without(@, i)]
          /\ snd' = [snd EXCEPT ![f].status = "process", ![f].open = TRUE]
          /\ Sends(p, <<Pkt("FINFO", f, 0)>>)
    /\ UNCHANGED <<rcv, inbound, gone, sess, trouble, noise>>

\* An empty FINFO says that there is no other file ("EOB").
EndBatch(p) ==
    /\ Opening(p) /\ Due(p) = {}
    /\ Becomes(p, [h[p] EXCEPT !.cur = NoFile, !.eob = TRUE, !.txtries = 1, !.tx = "FINFOACK"])
    /\ Sends(p, <<Pkt("FINFO", NoFile, 0)>>)
    /\ UNCHANGED <<files, sess, trouble, noise>>

SendFinfo(p) ==
    /\ Running(p) /\ h[p].tx = "FINFO" /\ CanTry(p)
    /\ Becomes(p, Tried(p, "FINFOACK")) /\ Sends(p, <<Pkt("FINFO", h[p].cur, 0)>>)
    /\ UNCHANGED <<files, sess, trouble, noise>>

\* The output is empty: the next block can be read.
Reading(p) ==
    /\ Running(p) /\ h[p].tx = "DATA" /\ h[p].cur # NoFile
    /\ Len(chan[Peer(p)]) < Cap

ToEof(r) == [r EXCEPT !.txtries = 0, !.tx = "EOF"]

\* p_tx_readfile returns n > 0; it sees the end of the file with the last
\* block, if that is shorter than the buffer, or not before the next call.
SendData(p) ==
    /\ Reading(p)
    /\ LET f == h[p].cur IN
       /\ snd[f].there
       /\ \E n \in 1..(Real[f] - snd[f].pos) :
          \E eof \in {FALSE, n = Real[f] - snd[f].pos} :
             /\ snd' = [snd EXCEPT ![f].pos = @ + n, ![f].eof = eof]
             /\ Moves(p, IF eof THEN ToEof(h[p]) ELSE h[p])
             /\ Sends(p, <<[Pkt("DATA", f, snd[f].pos) EXCEPT !.len = n]>>)
    /\ UNCHANGED <<queue, rcv, inbound, gone, sess, trouble, noise>>

SendNoData(p) ==
    /\ Reading(p)
    /\ LET f == h[p].cur IN
       /\ snd[f].there /\ snd[f].pos >= Real[f]
       /\ snd' = [snd EXCEPT ![f].eof = TRUE]
       /\ Becomes(p, ToEof(h[p]))
    /\ UNCHANGED <<queue, rcv, inbound, gone, chan, sess, trouble, noise>>

\* p_tx_readfile finds the file removed: -2.
ReadVanished(p) ==
    /\ Reading(p) /\ "svanish" \in sess.faults
    /\ snd' = [snd EXCEPT ![h[p].cur].status = "skipped", ![h[p].cur].eof = FALSE,
                          ![h[p].cur].there = FALSE]
    /\ Becomes(p, ToEof(h[p]))
    /\ trouble' = trouble \cup {"svanish"}
    /\ UNCHANGED <<queue, rcv, inbound, gone, chan, sess, noise>>

EofOffset(f) ==
    IF snd[f].status = "skipped" THEN -1
    ELSE IF snd[f].status = "refused" THEN -2
    ELSE IF snd[f].eof THEN snd[f].pos ELSE -2

SendEof(p) ==
    /\ Running(p) /\ h[p].tx = "EOF" /\ CanTry(p)
    /\ Becomes(p, Tried(p, "EOFACK")) /\ Sends(p, <<Pkt("EOF", h[p].cur, EofOffset(h[p].cur))>>)
    /\ UNCHANGED <<files, sess, trouble, noise>>

\* HTX_REND waits until our receiver is done as well.
RemoteEnd(p) ==
    /\ Running(p) /\ h[p].tx = "REND" /\ h[p].rx = "DONE"
    /\ Becomes(p, [h[p] EXCEPT !.txtries = 0, !.tx = "END"])
    /\ UNCHANGED <<files, chan, sess, trouble, noise>>

SendEnd(p) ==
    /\ Running(p) /\ h[p].tx = "END" /\ CanTry(p)
    /\ Becomes(p, Tried(p, "ENDACK")) /\ Sends(p, <<Plain("END")>>)
    /\ UNCHANGED <<files, sess, trouble, noise>>

-----------------------------------------------------------------------------
(* switch(rxstate), and the limits of both switches                         *)

\* RPOS asks for a position; with HRX_Skip it turns the file away, for ever
\* (-1) or for now (-2).
SendRpos(p) ==
    /\ Running(p) /\ h[p].rx \in {"RPOS", "Skip"} /\ h[p].rxtries + 1 < MaxTries
    /\ LET f == h[p].recv
           pos == IF h[p].rx = "RPOS" THEN rcv[f].bytes
                  ELSE IF rcv[f].status = "skipped" THEN -1 ELSE -2
       IN  Sends(p, <<[Pkt("RPOS", f, pos) EXCEPT !.id = h[p].rid]>>)
    /\ Becomes(p, [h[p] EXCEPT !.rxtries = @ + 1,
                               !.rx = IF @ = "RPOS" THEN "RPosAck" ELSE "SkipAck"])
    /\ UNCHANGED <<files, sess, trouble, noise>>

\* "too many tries": the session fails.
TooManyTries(p) ==
    /\ Running(p)
    /\ \/ h[p].tx \in {"START", "INIT", "FINFO", "EOF", "END"} /\ ~CanTry(p)
       \/ h[p].rx \in {"RPOS", "Skip"} /\ h[p].rxtries + 1 >= MaxTries
    /\ Ends(p, "error")
    /\ UNCHANGED <<trouble, noise>>

-----------------------------------------------------------------------------
(* Timers and faults                                                        *)

\* Nothing p sent as a sender, and no answer to it, is under way.
Unanswered(p) ==
    /\ \A i \in DOMAIN chan[Peer(p)] : chan[Peer(p)][i].type \notin TxPkts
    /\ \A i \in DOMAIN chan[p] : chan[p][i].type \in TxPkts \ {"START", "END"}
    /\ ~Pending(Peer(p))
Talking(p) == Running(p) /\ h[p].tx \in {"DATA", "EOF"}
Silent == \A p \in Node : Unanswered(p) /\ ~Talking(p)
Late == "late" \in sess.faults

SendTimeout(p) ==
    [h[p] EXCEPT !.tx = CASE @ = "SWAIT" -> "START" [] @ = "INITACK" -> "INIT"
                          [] @ = "FINFOACK" -> "FINFO" [] @ = "EOFACK" -> "EOF"
                          [] @ = "ENDACK" -> "END"]

SendTimer(p) ==
    /\ Running(p) /\ h[p].tx \in {"SWAIT", "INITACK", "FINFOACK", "EOFACK", "ENDACK"}
    /\ ~Pending(p)
    /\ Unanswered(p) \/ Late
    /\ Becomes(p, SendTimeout(p))
    /\ trouble' = IF Unanswered(p) THEN trouble ELSE trouble \cup {"late"}
    /\ UNCHANGED <<files, chan, sess, noise>>

\* recv_rpos_id is not incremented here.
RecvTimer(p) ==
    LET lost == Unanswered(Peer(p)) /\ ~Talking(Peer(p)) IN
    /\ Running(p) /\ h[p].rx \in {"DATA", "RPosAck", "SkipAck"}
    /\ ~Pending(p)
    /\ lost \/ Late
    /\ Becomes(p, [h[p] EXCEPT !.rx = IF @ = "SkipAck" THEN "Skip" ELSE "RPOS"])
    /\ trouble' = IF lost THEN trouble ELSE trouble \cup {"late"}
    /\ UNCHANGED <<files, chan, sess, noise>>

\* deadtimer: two minutes in which no data was sent or stored.
DeadTimer(p) ==
    /\ Running(p) /\ ~h[p].moved /\ ~Pending(p)
    /\ Ends(p, "error")
    /\ trouble' = IF Silent THEN trouble ELSE trouble \cup {"dead"}
    /\ UNCHANGED noise

\* Carrier lost, five CANs, a limit of p_info.
Drop(p) ==
    /\ Running(p) /\ "drop" \in sess.faults
    /\ Ends(p, "error")
    /\ trouble' = trouble \cup {"drop"}
    /\ UNCHANGED noise

\* The remote has hung up and nothing of it is left to read.
RemoteGone(p) ==
    /\ Running(p) /\ ~Running(Peer(p)) /\ ~Pending(p) /\ chan[p] = <<>>
    /\ Ends(p, "error")
    /\ UNCHANGED <<trouble, noise>>

\* The line garbles the next packet: hydra_recv makes it HPKT_JUNK, or sees
\* nothing of it at all.
Garble(p) ==
    /\ Running(p) /\ chan[p] # <<>> /\ chan[p][1].type # "JUNK" /\ noise < sess.noise
    /\ \E junk \in BOOLEAN :
           /\ chan' = [chan EXCEPT ![p] = IF junk THEN <<Plain("JUNK")>> \o Tail(@) ELSE Tail(@)]
           /\ trouble' = trouble \cup {IF junk /\ chan[p][1].type = "DATA" THEN "data" ELSE "noise"}
    /\ noise' = noise + 1
    /\ UNCHANGED <<h, files, sess>>

-----------------------------------------------------------------------------
(* switch(recv_rc): the packets                                             *)

Takes(p, t) == Running(p) /\ ~Pending(p) /\ chan[p] # <<>> /\ chan[p][1].type = t
Arg(p) == getlong(chan[p][1].offs)

Answers(p, ms) ==
    chan' = [chan EXCEPT ![p] = Tail(@),
                         ![Peer(p)] = IF Running(Peer(p)) THEN @ \o ms ELSE @]

\* Ask again, with a new packet number, from where we are.
Repositions(r) == [r EXCEPT !.rid = (@ + 1) % RposIds, !.rxtries = 0, !.rx = "RPOS"]
TurnsAway(r) == [r EXCEPT !.rid = (@ + 1) % RposIds, !.rxtries = 0, !.rx = "Skip"]

RecvJunk(p) ==
    /\ Takes(p, "JUNK")
    /\ Becomes(p, IF h[p].rx = "DATA" THEN Repositions(h[p]) ELSE h[p])
    /\ Answers(p, <<>>)
    /\ UNCHANGED <<files, sess, trouble, noise>>

RecvStart(p) ==
    /\ Takes(p, "START")
    /\ Becomes(p, IF h[p].tx = "SWAIT" THEN [h[p] EXCEPT !.txtries = 0, !.tx = "INIT"] ELSE h[p])
    /\ Answers(p, <<>>)
    /\ UNCHANGED <<files, sess, trouble, noise>>

\* Every INIT is acknowledged, the first one of a batch is obeyed.
RecvInit(p) ==
    /\ Takes(p, "INIT")
    /\ Becomes(p, IF h[p].rx = "INIT" THEN [h[p] EXCEPT !.rxtries = 0, !.rx = "FINFO"] ELSE h[p])
    /\ Answers(p, <<Plain("INITACK")>>)
    /\ UNCHANGED <<files, sess, trouble, noise>>

RecvInitAck(p) ==
    /\ Takes(p, "INITACK")
    /\ Becomes(p, IF h[p].tx = "INITACK" THEN [h[p] EXCEPT !.txtries = 0, !.tx = "RINIT"] ELSE h[p])
    /\ Answers(p, <<>>)
    /\ UNCHANGED <<files, sess, trouble, noise>>

-----------------------------------------------------------------------------
(* FINFO and FINFOACK                                                       *)

\* p_rx_fopen: 0 (open), 1 (refuse), 2 (skip).
FopenResults(p, f) ==
    IF h[p].recv = f /\ rcv[f].status \in {"skipped", "refused"}
    THEN {IF rcv[f].status = "skipped" THEN 2 ELSE 1}
    ELSE IF f \in inbound THEN {2}
    ELSE {0} \cup {CASE o = "refuse" -> 1 [] o = "skip" -> 2 : o \in sess.faults \cap {"refuse", "skip"}}

Fopened(f, r) ==
    [rcv[f] EXCEPT !.open = (r = 0),
                   !.status = CASE r = 0 -> "process" [] r = 1 -> "refused" [] r = 2 -> "skipped"]

RecvFinfo(p) ==
    /\ Takes(p, "FINFO") /\ h[p].rx = "FINFO" /\ chan[p][1].file # NoFile
    /\ LET f == chan[p][1].file IN
       \E r \in FopenResults(p, f) :
          /\ rcv' = [rcv EXCEPT ![f] = Fopened(f, r)]
          /\ Becomes(p, [h[p] EXCEPT !.recv = f, !.rx = IF r = 0 THEN "DATA" ELSE @,
                                     !.lastpos = IF r = 0 THEN -1 ELSE @])
          /\ Answers(p, <<Pkt("FINFOACK", f, CASE r = 0 -> rcv[f].bytes
                                               [] r = 1 -> -2 [] r = 2 -> -1)>>)
    /\ UNCHANGED <<queue, snd, inbound, gone, sess, trouble, noise>>

RecvEob(p) ==
    /\ Takes(p, "FINFO") /\ h[p].rx = "FINFO" /\ chan[p][1].file = NoFile
    /\ Becomes(p, [h[p] EXCEPT !.rx = "DONE"])
    /\ Answers(p, <<Pkt("FINFOACK", NoFile, 0)>>)
    /\ UNCHANGED <<files, sess, trouble, noise>>

\* After the end of the batch a FINFO is refused, whatever it announces;
\* while a file is received it is ignored.
RecvFinfoAgain(p) ==
    /\ Takes(p, "FINFO") /\ h[p].rx # "FINFO"
    /\ Becomes(p, h[p])
    /\ Answers(p, IF h[p].rx = "DONE" THEN <<Pkt("FINFOACK", NoFile, -2)>> ELSE <<>>)
    /\ UNCHANGED <<files, sess, trouble, noise>>

\* p_tx_fclose of the current file, with its final status.
Fclosed(f, status) == [snd EXCEPT ![f].status = status, ![f].open = FALSE]
GoneWith(f, status) == IF status \in Stored THEN gone \cup {f} ELSE gone

\* The answer to the end of the batch, and answers nobody waits for.
RecvEobAck(p) ==
    /\ Takes(p, "FINFOACK") /\ (h[p].tx = "FINFOACK" => h[p].eob)
    /\ Becomes(p, IF h[p].tx = "FINFOACK"
                  THEN [h[p] EXCEPT !.txtries = 0, !.tx = "REND"] ELSE h[p])
    /\ Answers(p, <<>>)
    /\ UNCHANGED <<files, sess, trouble, noise>>

RecvFinfoAck(p) ==
    /\ Takes(p, "FINFOACK") /\ h[p].tx = "FINFOACK" /\ ~h[p].eob /\ Arg(p) >= 0
    /\ snd' = [snd EXCEPT ![h[p].cur].pos = Arg(p)]
    /\ Becomes(p, [h[p] EXCEPT !.txtries = 0, !.tx = "DATA"])
    /\ Answers(p, <<>>)
    /\ UNCHANGED <<queue, rcv, inbound, gone, sess, trouble, noise>>

\* "remote allready has file" and "remote refused file".
RecvFinfoNak(p) ==
    /\ Takes(p, "FINFOACK") /\ h[p].tx = "FINFOACK" /\ ~h[p].eob /\ Arg(p) < 0
    /\ LET f == h[p].cur  status == IF Arg(p) = -1 THEN "skipped" ELSE "refused" IN
       /\ snd' = Fclosed(f, status)
       /\ gone' = GoneWith(f, status)
    /\ Becomes(p, [h[p] EXCEPT !.cur = NoFile, !.tx = "NextFile"])
    /\ Answers(p, <<>>)
    /\ UNCHANGED <<queue, rcv, inbound, sess, trouble, noise>>

-----------------------------------------------------------------------------
(* DATA and RPOS                                                            *)

\* Mutant: a gap is not noticed.
InPlace_Gap(p) == Arg(p) >= rcv[h[p].recv].bytes

InPlace(p) == Arg(p) = rcv[h[p].recv].bytes

\* The block is the one that was expected, and it is written.
RecvData(p) ==
    /\ Takes(p, "DATA") /\ h[p].rx \in {"DATA", "RPosAck"} /\ InPlace(p)
    /\ LET f == h[p].recv IN
       rcv' = [rcv EXCEPT ![f].bytes = @ + chan[p][1].len,
                          ![f].good = @ /\ chan[p][1].file = f /\ chan[p][1].offs = rcv[f].bytes]
    /\ Moves(p, [h[p] EXCEPT !.lastpos = Arg(p), !.rx = "DATA"])
    /\ Answers(p, <<>>)
    /\ UNCHANGED <<queue, snd, inbound, gone, sess, trouble, noise>>

\* p_rx_writefile returns -1 (receive later) or -2 (never).
WriteFails(p) ==
    /\ Takes(p, "DATA") /\ h[p].rx \in {"DATA", "RPosAck"} /\ InPlace(p)
    /\ \E o \in sess.faults \cap {"werror", "rvanish"} :
          rcv' = [rcv EXCEPT ![h[p].recv].status = IF o = "werror" THEN "refused" ELSE "skipped"]
    /\ Moves(p, TurnsAway([h[p] EXCEPT !.lastpos = Arg(p)]))
    /\ Answers(p, <<>>)
    /\ UNCHANGED <<queue, snd, inbound, gone, sess, trouble, noise>>

\* A block from elsewhere: ask for the right one, again if the sender has gone
\* back and still is not there.
RecvDataElsewhere(p) ==
    /\ Takes(p, "DATA") /\ h[p].rx \in {"DATA", "RPosAck"} /\ ~InPlace(p)
    /\ LET r == [h[p] EXCEPT !.lastpos = Arg(p)] IN
       Becomes(p, IF h[p].rx = "DATA" THEN Repositions(r)
                  ELSE IF Arg(p) < h[p].lastpos THEN [r EXCEPT !.rx = "RPOS"] ELSE r)
    /\ Answers(p, <<>>)
    /\ UNCHANGED <<files, sess, trouble, noise>>

RecvDataIgnored(p) ==
    /\ Takes(p, "DATA") /\ h[p].rx \notin {"DATA", "RPosAck"}
    /\ Becomes(p, h[p]) /\ Answers(p, <<>>)
    /\ UNCHANGED <<files, sess, trouble, noise>>

\* Mutant: after the end of the file it is too late.
Rposable_DataOnly(p) == h[p].tx = "DATA" /\ chan[p][1].id # h[p].sid

\* "got duplicated RPOS packet (ignore)", and RPOS in any other state.
Rposable(p) == h[p].tx \in {"DATA", "EOF", "EOFACK"} /\ chan[p][1].id # h[p].sid

RecvRposIgnored(p) ==
    /\ Takes(p, "RPOS") /\ ~Rposable(p)
    /\ Becomes(p, h[p]) /\ Answers(p, <<>>)
    /\ UNCHANGED <<files, sess, trouble, noise>>

RecvRpos(p) ==
    /\ Takes(p, "RPOS") /\ Rposable(p) /\ Arg(p) >= 0
    /\ snd' = [snd EXCEPT ![h[p].cur].eof = FALSE, ![h[p].cur].pos = Arg(p)]
    /\ Becomes(p, [h[p] EXCEPT !.sid = chan[p][1].id, !.tx = "DATA"])
    /\ Answers(p, <<>>)
    /\ UNCHANGED <<queue, rcv, inbound, gone, sess, trouble, noise>>

\* The receiver turns the file away: eofseen stays what it is.
RecvRposSkip(p) ==
    /\ Takes(p, "RPOS") /\ Rposable(p) /\ Arg(p) < 0
    /\ snd' = [snd EXCEPT ![h[p].cur].status = IF Arg(p) = -1 THEN "skipped" ELSE "refused"]
    /\ Becomes(p, ToEof([h[p] EXCEPT !.sid = chan[p][1].id]))
    /\ Answers(p, <<>>)
    /\ UNCHANGED <<queue, rcv, inbound, gone, sess, trouble, noise>>

-----------------------------------------------------------------------------
(* EOF and EOFACK                                                           *)

AtEof(p) == Takes(p, "EOF") /\ h[p].rx = "DATA" /\ InPlace(p)

\* p_rx_fclose: the length is compared with the one announced, and the file
\* moves to the inbound.
RecvEof(p) ==
    /\ AtEof(p) /\ rcv[h[p].recv].bytes = Size[h[p].recv]
    /\ LET f == h[p].recv IN
       /\ rcv' = [rcv EXCEPT ![f].status = "success", ![f].open = FALSE]
       /\ inbound' = inbound \cup {f}
       /\ Answers(p, <<Pkt("EOFACK", f, 0)>>)
    /\ Becomes(p, [h[p] EXCEPT !.rxtries = 0, !.rx = "FINFO"])
    /\ UNCHANGED <<queue, snd, gone, sess, trouble, noise>>

\* It fails: "Error closing file".  The packet number stays what it was.
CloseFails(p) ==
    /\ AtEof(p)
    /\ rcv[h[p].recv].bytes # Size[h[p].recv] \/ "cerror" \in sess.faults
    /\ rcv' = [rcv EXCEPT ![h[p].recv].status = "refused", ![h[p].recv].open = FALSE]
    /\ Becomes(p, [h[p] EXCEPT !.rxtries = 0, !.rx = "Skip"])
    /\ Answers(p, <<>>)
    /\ trouble' = trouble \cup {"cerror"}
    /\ UNCHANGED <<queue, snd, inbound, gone, sess, noise>>

RecvEofElsewhere(p) ==
    /\ Takes(p, "EOF") /\ h[p].rx = "DATA" /\ ~InPlace(p)
    /\ Becomes(p, Repositions([h[p] EXCEPT !.lastpos = Arg(p)]))
    /\ Answers(p, <<>>)
    /\ UNCHANGED <<files, sess, trouble, noise>>

\* "So we will Skip it again, again..": an end of file that does not answer
\* our RPOS(-1) or RPOS(-2).
RecvEofNotSkipped(p) ==
    /\ Takes(p, "EOF") /\ h[p].rx = "SkipAck" /\ Arg(p) >= 0
    /\ Becomes(p, [h[p] EXCEPT !.rx = "Skip"])
    /\ Answers(p, <<>>)
    /\ UNCHANGED <<files, sess, trouble, noise>>

RecvEofSkipped(p) ==
    /\ Takes(p, "EOF") /\ h[p].rx = "SkipAck" /\ Arg(p) < 0
    /\ rcv' = [rcv EXCEPT ![h[p].recv].open = FALSE]
    /\ Becomes(p, [h[p] EXCEPT !.rxtries = 0, !.rx = "FINFO"])
    /\ Answers(p, <<Pkt("EOFACK", h[p].recv, 0)>>)
    /\ UNCHANGED <<queue, snd, inbound, gone, sess, trouble, noise>>

\* In any other state only EOF(-2) is acknowledged.
RecvEofUnexpected(p) ==
    /\ Takes(p, "EOF") /\ h[p].rx \notin {"DATA", "SkipAck"}
    /\ Becomes(p, h[p])
    /\ Answers(p, IF Arg(p) = -2 THEN <<Pkt("EOFACK", chan[p][1].file, 0)>> ELSE <<>>)
    /\ UNCHANGED <<files, sess, trouble, noise>>

\* Mutant: EOFACK always means that the file was sent.
EofAckStatus_Success(f) == "success"

EofAckStatus(f) == IF snd[f].eof THEN "success" ELSE snd[f].status

RecvEofAck(p) ==
    /\ Takes(p, "EOFACK") /\ h[p].tx \in {"EOF", "EOFACK"}
    /\ LET f == h[p].cur IN
       /\ snd' = Fclosed(f, EofAckStatus(f))
       /\ gone' = GoneWith(f, EofAckStatus(f))
    /\ Becomes(p, [h[p] EXCEPT !.cur = NoFile, !.tx = "NextFile"])
    /\ Answers(p, <<>>)
    /\ UNCHANGED <<queue, rcv, inbound, sess, trouble, noise>>

RecvEofAckIgnored(p) ==
    /\ Takes(p, "EOFACK") /\ h[p].tx \notin {"EOF", "EOFACK"}
    /\ Becomes(p, h[p]) /\ Answers(p, <<>>)
    /\ UNCHANGED <<files, sess, trouble, noise>>

\* Three ENDs answer the first one, in case some are lost.
RecvEnd(p) ==
    /\ Takes(p, "END")
    /\ IF h[p].tx = "ENDACK"
       THEN /\ Becomes(p, [h[p] EXCEPT !.txtries = 0, !.tx = "DONE"])
            /\ Answers(p, <<Plain("END"), Plain("END"), Plain("END")>>)
       ELSE Becomes(p, h[p]) /\ Answers(p, <<>>)
    /\ UNCHANGED <<files, sess, trouble, noise>>

-----------------------------------------------------------------------------
(* hydra(): two batches                                                     *)

BatchDone(p) == Running(p) /\ h[p].tx = "DONE" /\ h[p].rx = "DONE"

NextBatch(p) ==
    /\ BatchDone(p) /\ h[p].batch = 1
    /\ Moves(p, [Fresh EXCEPT !.batch = 2, !.rid = h[p].rid, !.sid = h[p].sid,
                              !.recv = h[p].recv])
    /\ UNCHANGED <<files, chan, sess, trouble, noise>>

SessionDone(p) ==
    /\ BatchDone(p) /\ h[p].batch = 2
    /\ Ends(p, "ok")
    /\ UNCHANGED <<trouble, noise>>

Tx(p) ==
    \/ SendStart(p) \/ SendInit(p) \/ OpenNext(p) \/ EndBatch(p) \/ SendFinfo(p) \/ SendData(p)
    \/ SendNoData(p) \/ ReadVanished(p) \/ SendEof(p) \/ RemoteEnd(p) \/ SendEnd(p)
Rx(p) == SendRpos(p) \/ TooManyTries(p)
Timers(p) == SendTimer(p) \/ RecvTimer(p)
Packet(p) ==
    \/ RecvJunk(p) \/ RecvStart(p) \/ RecvInit(p) \/ RecvInitAck(p)
    \/ RecvFinfo(p) \/ RecvEob(p) \/ RecvFinfoAgain(p)
    \/ RecvEobAck(p) \/ RecvFinfoAck(p) \/ RecvFinfoNak(p)
    \/ RecvData(p) \/ WriteFails(p) \/ RecvDataElsewhere(p) \/ RecvDataIgnored(p)
    \/ RecvRposIgnored(p) \/ RecvRpos(p) \/ RecvRposSkip(p)
    \/ RecvEof(p) \/ CloseFails(p) \/ RecvEofElsewhere(p) \/ RecvEofNotSkipped(p)
    \/ RecvEofSkipped(p) \/ RecvEofUnexpected(p)
    \/ RecvEofAck(p) \/ RecvEofAckIgnored(p) \/ RecvEnd(p)

Loop(p) ==
    \/ Tx(p) \/ Rx(p) \/ Timers(p) \/ Packet(p) \/ NextBatch(p) \/ SessionDone(p)
    \/ RemoteGone(p)

SessionOver == (\A p \in Node : ~Running(p)) /\ UNCHANGED vars

Next ==
    \/ \E p \in Node : Loop(p) \/ DeadTimer(p) \/ Drop(p) \/ Garble(p)
    \/ SessionOver

Spec == Init /\ [][Next]_vars

\* Both mailers run, and clocks advance; the line need not do any harm.
FairSpec == Spec /\ \A p \in Node : WF_vars(Loop(p)) /\ WF_vars(DeadTimer(p))

-----------------------------------------------------------------------------
(* Properties                                                               *)

\* What the sender unlinked is in the receiver's inbound, or the receiver (or
\* the removal of the file itself) settled that it is never sent.
Settled(f) == f \in inbound \/ rcv[f].status = "skipped" \/ ~snd[f].there

\* No file is unlinked that the receiver does not have: a file turned away
\* with RPOS(-2) is sent again in another session.
NoFileLost == \A f \in gone : Settled(f)

\* The only way to lose a file is to refuse it after the sender saw its end.
LostOnlyAtEof == \A f \in gone : Settled(f) \/ (rcv[f].status = "refused" /\ snd[f].eof)

\* A file in the inbound consists of its own blocks, each once and in order.
StoredIntact == \A f \in inbound : rcv[f].good /\ rcv[f].bytes = Size[f]

\* Only garbled data, and longs of four bytes: the session ends well.
EndsWell ==
    trouble \subseteq {"data"} /\ ~sess.wide => \A p \in Node : h[p].rc # "error"

\* A session that ends well on both sides has disposed of all files.
EndedSettled ==
    (\A p \in Node : h[p].rc = "ok") =>
        /\ \A p \in Node : queue[p] = <<>>
        /\ \A f \in File : snd[f].status # "process"

\* Every session ends: by the packets, by the tries or by the dead timer.
SessionEnds == <>(\A p \in Node : ~Running(p))
=============================================================================

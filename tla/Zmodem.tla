------------------------------- MODULE Zmodem -------------------------------
(***************************************************************************)
(* A Zmodem session as session() runs it: the caller sends its batch       *)
(* (tx_zmodem of prot_zmsend.c) to the receiver of the answering mailer    *)
(* (rx_zmodem of prot_zmrecv.c), then they change roles.                   *)
(*                                                                         *)
(* The line carries headers and data subpackets.  A loop runs its switch   *)
(* until it has to read, and reads one header (zgethdr) or one subpacket   *)
(* (zrdata).  A reader of headers takes a subpacket for garbage, unless it *)
(* ends in ZCRCW; a reader of subpackets takes a header for data.          *)
(*                                                                         *)
(* Lengths and offsets are in some unit and a block is any number of them. *)
(* Left out are the frames that this program answers and never sends       *)
(* (ZSINIT, ZCOMMAND, ZCRC, ZCHALLENGE, ZFREECNT, ZABORT) and, as there    *)
(* never are two senders, ZRQINIT read by a sender that is not done.       *)
(***************************************************************************)
EXTENDS Integers, Sequences

CONSTANTS
    Node,        \* the two mailers
    Caller,      \* the one that sends first
    File,        \* the files of both outbounds
    NoFile,      \* a null pi->send or pi->recv
    Sessions,    \* how a session may begin (see Session)
    Size,        \* [File -> Nat]
    MaxTries,    \* ZMAXTRIES, 10 in the code
    SkipFin,     \* ZRXSKIPFIN, 2 in the code
    Cap          \* items in flight that keep the next block waiting

\* A receiver refuses a file for now or skips it for ever, fails to write or
\* to close it, finds its temporary file removed; a sender finds the file
\* removed; a timer expires although the answer is on its way; the call drops.
Fault == {"refuse", "skip", "werror", "cerror", "rvanish", "svanish", "late", "drop"}

\* The files queued on each side, the length of each in the receiver's
\* temporary inbound, the files its inbound already has; zmodem_tx_window,
\* zmodem_skip_by_pos; what may go wrong, and how often the line may.
Session == [queue : [Node -> Seq(File)], have : [File -> Nat], old : SUBSET File,
            window : Nat, skipbypos : BOOLEAN, faults : SUBSET Fault, noise : Nat]

ASSUME ZmodemAssumption ==
    /\ \E p \in Node : Node = {Caller, p} /\ p # Caller
    /\ Caller \in Node /\ NoFile \notin File
    /\ \A s \in Sessions : s \in Session /\ (s.skipbypos => "rvanish" \notin s.faults)
    /\ \A s \in Sessions, p, r \in Node :     \* a file is in one mailer's outbound
         \A i \in DOMAIN s.queue[p], j \in DOMAIN s.queue[r] : s.queue[p][i] = s.queue[r][j] => p = r
    /\ Size \in [File -> Nat]
    /\ MaxTries \in Nat \ {0} /\ SkipFin \in Nat /\ Cap \in Nat \ {0}

VARIABLES
    z,         \* [Node -> locals of tx_zmodem or rx_zmodem]
    queue,     \* [Node -> Seq(File)]: still to be sent
    snd,       \* [File -> s_finfo of the sender]
    rcv,       \* [File -> s_finfo of the receiver and the temporary file]
    chan,      \* [Node -> Seq(item)]: on their way to the node
    inbound,   \* files in the receiver's inbound
    gone,      \* files the sender has marked as sent and unlinked
    sess,      \* the session that was begun
    trouble,   \* the kinds of things that have gone wrong
    noise      \* the number of items garbled

files == <<queue, snd, rcv, inbound, gone>>
vars == <<z, files, chan, sess, trouble, noise>>

Peer(p) == CHOOSE q \in Node : q # p

\* "file" is on the line with FINFO only, "pos" with headers only: in a
\* subpacket they say what the data are.
Hdr(t, pos) == [type |-> t, file |-> NoFile, pos |-> pos, kind |-> "-", len |-> 0]
Sub(t, f, k, n) == [type |-> t, file |-> f, pos |-> 0, kind |-> k, len |-> n]
IsSub(m) == m.kind # "-"
EmptyE == Sub("SUB", NoFile, "E", 0)

Stored == {"success", "skipped"}

\* The locals tx_zmodem and rx_zmodem start with.
Fresh == [phase |-> 1, st |-> "RQINIT", tries |-> 0, rinits |-> 0, acked |-> FALSE,
          cur |-> NoFile, sync |-> 0, last |-> 0, recv |-> NoFile, init |-> "RINIT",
          rqinits |-> FALSE, fins |-> 0, dirty |-> FALSE, moved |-> TRUE, rc |-> "run"]
Started(p, ph) ==
    [Fresh EXCEPT !.phase = ph, !.st = IF (p = Caller) = (ph = 1) THEN "RQINIT" ELSE "INIT"]

Init ==
    \E s \in Sessions :
        /\ sess = s
        /\ z = [p \in Node |-> Started(p, 1)]
        /\ queue = s.queue
        /\ snd = [f \in File |-> [status |-> "none", pos |-> 0, eof |-> FALSE, there |-> TRUE]]
        /\ rcv = [f \in File |-> [status |-> "none", bytes |-> s.have[f], open |-> FALSE, good |-> TRUE]]
        /\ chan = [p \in Node |-> <<>>]
        /\ inbound = s.old /\ gone = {}
        /\ trouble = {} /\ noise = 0

Running(p) == z[p].rc = "run"
At(p, states) == Running(p) /\ z[p].st \in states
Sending(p) == (p = Caller) = (z[p].phase = 1)

TxPending == {"RQINIT", "NEXTFILE", "FINFO", "STARTDATA", "DATA", "EOF", "FIN"}
RxPending == {"INIT", "SENDRPOS"}
Pending(p) == At(p, TxPending \cup RxPending)

Becomes(p, r) == z' = [z EXCEPT ![p] = [r EXCEPT !.moved = FALSE]]
Moves(p, r) == z' = [z EXCEPT ![p] = [r EXCEPT !.moved = TRUE]]
Goes(p, st) == Becomes(p, [z[p] EXCEPT !.st = st])

\* What is sent to a mailer that has hung up is lost.
Sends(p, ms) ==
    chan' = [chan EXCEPT ![Peer(p)] = IF Running(Peer(p)) THEN @ \o ms ELSE @]
Answers(p, ms) ==
    chan' = [chan EXCEPT ![p] = Tail(@),
                         ![Peer(p)] = IF Running(Peer(p)) THEN @ \o ms ELSE @]

\* Mutant: the status of the file is not looked at.
Closed_Any(p) == IF z[p].cur # NoFile THEN gone \cup {z[p].cur} ELSE gone

\* p_tx_fclose: what was sent or skipped is marked as sent and unlinked.
Closed(p) == IF z[p].cur # NoFile /\ snd[z[p].cur].status \in Stored
             THEN gone \cup {z[p].cur} ELSE gone

\* The exit label of both loops closes the open file with the status it has.
Ends(p, code) ==
    /\ Becomes(p, [z[p] EXCEPT !.rc = code, !.cur = NoFile])
    /\ gone' = Closed(p)
    /\ rcv' = IF z[p].recv = NoFile THEN rcv ELSE [rcv EXCEPT ![z[p].recv].open = FALSE]
    /\ chan' = [chan EXCEPT ![p] = <<>>]
    /\ UNCHANGED <<queue, snd, inbound, sess>>

-----------------------------------------------------------------------------
(* tx_zmodem: switch(txstate)                                               *)

\* ++txtries > ZMAXTRIES ends the session.
CanTry(p) == z[p].tries < MaxTries
\* Mutant: the tries are not counted.
Tried_Uncounted(p, st) == Goes(p, st)

Tried(p, st) == Becomes(p, [z[p] EXCEPT !.tries = @ + 1, !.st = st])

SendRqinit(p) ==
    /\ At(p, {"RQINIT"}) /\ CanTry(p)
    /\ Tried(p, "RQINITACK") /\ Sends(p, <<Hdr("RQINIT", 0)>>)
    /\ UNCHANGED <<files, sess, trouble, noise>>

Finfo(f) == <<Hdr("FILE", 0), Sub("FINFO", f, "W", 0)>>

\* ZTX_NEXTFILE closes the file and opens another; its ZFILE is sent at once.
NextFile(p) ==
    /\ At(p, {"NEXTFILE"}) /\ queue[p] # <<>>
    /\ gone' = Closed(p)
    /\ LET f == Head(queue[p]) IN
       /\ queue' = [queue EXCEPT ![p] = Tail(@)]
       /\ snd' = [snd EXCEPT ![f].status = "process"]
       /\ Becomes(p, [z[p] EXCEPT !.cur = f, !.tries = 1, !.rinits = 0, !.st = "FINFOACK"])
       /\ Sends(p, Finfo(f))
    /\ UNCHANGED <<rcv, inbound, sess, trouble, noise>>

NoMoreFiles(p) ==
    /\ At(p, {"NEXTFILE"}) /\ queue[p] = <<>>
    /\ gone' = Closed(p)
    /\ Becomes(p, [z[p] EXCEPT !.cur = NoFile, !.tries = 1, !.st = "FINACK"])
    /\ Sends(p, <<Hdr("FIN", 0)>>)
    /\ UNCHANGED <<queue, snd, rcv, inbound, sess, trouble, noise>>

SendFinfo(p) ==
    /\ At(p, {"FINFO"}) /\ CanTry(p)
    /\ Becomes(p, [z[p] EXCEPT !.tries = @ + 1, !.rinits = 0, !.st = "FINFOACK"])
    /\ Sends(p, Finfo(z[p].cur))
    /\ UNCHANGED <<files, sess, trouble, noise>>

StartData(p) ==
    /\ At(p, {"STARTDATA"})
    /\ Goes(p, "DATA") /\ Sends(p, <<Hdr("DATA", snd[z[p].cur].pos)>>)
    /\ UNCHANGED <<files, sess, trouble, noise>>

\* A block right after an error is sent with ZCRCW, to wait for the receiver.
DataType(p, n, eof) ==
    IF eof THEN "E"
    ELSE IF snd[z[p].cur].pos = z[p].sync THEN "W"
    ELSE IF sess.window > 0 /\ snd[z[p].cur].pos - z[p].last + n >= sess.window THEN "Q"
    ELSE "G"

\* p_tx_readfile returns n bytes and sees the end of the file with the last
\* ones, if they fill less than the buffer, or not before the next call.
\* "look": CHARWAIT finds the start of a header from the receiver.
SendBlock(p) ==
    /\ At(p, {"DATA"}) /\ Len(chan[Peer(p)]) < Cap
    /\ LET f == z[p].cur  rest == Size[f] - snd[f].pos IN
       /\ snd[f].there
       /\ \E n \in 0..rest : \E eof \in {FALSE, n = rest} : \E look \in {FALSE, chan[p] # <<>>} :
          LET k == DataType(p, n, eof)
              st == CASE k = "E" -> "EOF" [] k = "W" -> "CRCWACK" [] k = "Q" -> "CRCQACK"
                      [] k = "G" -> IF look THEN "READCHECK" ELSE "DATA"
          IN  /\ n > 0 \/ eof
              /\ look => k = "G"
              /\ snd' = [snd EXCEPT ![f].pos = @ + n, ![f].eof = eof]
              /\ Moves(p, [z[p] EXCEPT !.st = st, !.tries = IF k = "E" THEN 0 ELSE @])
              /\ Sends(p, <<[Sub("SUB", f, k, n) EXCEPT !.pos = snd[f].pos]>>)
    /\ UNCHANGED <<queue, rcv, inbound, gone, sess, trouble, noise>>

\* The file was removed: an empty ZCRCE, and a header is read and thrown away
\* before the next file is opened.
ReadVanished(p) ==
    /\ At(p, {"DATA"}) /\ "svanish" \in sess.faults
    /\ snd' = [snd EXCEPT ![z[p].cur].status = "skipped", ![z[p].cur].there = FALSE]
    /\ Moves(p, [z[p] EXCEPT !.st = "NEXTREAD"])
    /\ Sends(p, <<EmptyE>>)
    /\ trouble' = trouble \cup {"svanish"}
    /\ UNCHANGED <<queue, rcv, inbound, gone, sess, noise>>

SendEof(p) ==
    /\ At(p, {"EOF"}) /\ CanTry(p)
    /\ Tried(p, "EOFACK") /\ Sends(p, <<Hdr("EOF", snd[z[p].cur].pos)>>)
    /\ UNCHANGED <<files, sess, trouble, noise>>

SendFin(p) ==
    /\ At(p, {"FIN"}) /\ CanTry(p)
    /\ Tried(p, "FINACK") /\ Sends(p, <<Hdr("FIN", 0)>>)
    /\ UNCHANGED <<files, sess, trouble, noise>>

\* "out of tries", of either loop.
OutOfTries(p) ==
    /\ At(p, {"RQINIT", "FINFO", "EOF", "FIN", "INIT", "SENDRPOS"}) /\ ~CanTry(p)
    /\ Ends(p, "error")
    /\ UNCHANGED <<trouble, noise>>

-----------------------------------------------------------------------------
(* tx_zmodem: switch(zgethdr())                                             *)

TxReading == {"RQINITACK", "FINFOACK", "READCHECK", "CRCWACK", "CRCQACK",
              "EOFACK", "FINACK", "NEXTREAD"}
Streaming == {"READCHECK", "CRCQACK"}      \* the receiver may be in a data frame
\* Mutant: after the end of the file it is too late for ZRPOS.
OnFile_NoEof == {"FINFOACK", "READCHECK", "CRCQACK", "CRCWACK"}

OnFile == {"FINFOACK", "READCHECK", "CRCQACK", "CRCWACK", "EOFACK"}
Takes(p, states, t) == At(p, states) /\ chan[p] # <<>> /\ chan[p][1].type = t

\* zsdata(txbuf, 0, ZCRCE, 0) ends the data frame.
EndFrame(p) == IF z[p].st \in Streaming THEN <<EmptyE>> ELSE <<>>

\* p reads the header, goes on in state st and sends ms.
Reads(p, st, ms) == Goes(p, st) /\ Answers(p, ms)

TxRinit(p) ==
    /\ Takes(p, {"RQINITACK"}, "RINIT")
    /\ Becomes(p, [z[p] EXCEPT !.acked = TRUE, !.st = "NEXTFILE"])
    /\ Answers(p, IF z[p].acked THEN <<>> ELSE <<Hdr("RQINIT", 0)>>)
    /\ UNCHANGED <<files, sess, trouble, noise>>

\* "Possible they didn't see our file information".
TxRinitFinfo(p) ==
    /\ Takes(p, {"FINFOACK"}, "RINIT")
    /\ LET n == z[p].rinits + 1 IN
       Becomes(p, [z[p] EXCEPT !.rinits = n, !.st = IF n > 2 THEN "FINFO" ELSE @])
    /\ Answers(p, <<>>)
    /\ UNCHANGED <<files, sess, trouble, noise>>

\* CLEAROUT in ZTX_READCHECK: some of what was sent last is thrown away.
Flushes(p, out) ==
    IF z[p].st = "READCHECK" THEN {SubSeq(out, 1, n) : n \in 0..Len(out)} ELSE {out}
ReadsFlushed(p, out) ==
    chan' = [chan EXCEPT ![p] = Tail(@), ![Peer(p)] = IF Running(Peer(p)) THEN out ELSE @]

\* Mutant: no other file is looked for.
Disposed_Last(p, status) ==
    /\ snd' = [snd EXCEPT ![z[p].cur].status = status]
    /\ Goes(p, "FIN")
    /\ UNCHANGED <<queue, rcv, inbound, gone, sess, trouble, noise>>

Disposed(p, status) ==
    /\ snd' = [snd EXCEPT ![z[p].cur].status = status]
    /\ Goes(p, "NEXTFILE")
    /\ UNCHANGED <<queue, rcv, inbound, gone, sess, trouble, noise>>

\* ZRINIT says that the file is stored, even before its end was sent ("assume
\* file normaly sent").
TxSent(p) ==
    /\ Takes(p, OnFile \ {"FINFOACK"}, "RINIT")
    /\ Disposed(p, "success") /\ Answers(p, EndFrame(p))

TxSkipped(p) ==
    /\ Takes(p, OnFile, "SKIP")
    /\ Disposed(p, "skipped")
    /\ \E out \in Flushes(p, chan[Peer(p)] \o EndFrame(p)) : ReadsFlushed(p, out)

TxRefused(p) ==
    /\ Takes(p, OnFile, "FERR")
    /\ Disposed(p, "refused") /\ Answers(p, EndFrame(p))

TxRinitFin(p) ==
    /\ Takes(p, {"FINACK"}, "RINIT")
    /\ Reads(p, "FIN", <<>>)
    /\ UNCHANGED <<files, sess, trouble, noise>>

TxAck(p) ==
    /\ Takes(p, {"CRCWACK"} \cup Streaming, "ACK")
    /\ Becomes(p, [z[p] EXCEPT !.last = chan[p][1].pos,
                      !.st = IF @ # "CRCWACK" THEN "DATA"
                             ELSE IF chan[p][1].pos = snd[z[p].cur].pos THEN "STARTDATA" ELSE @])
    /\ Answers(p, <<>>)
    /\ UNCHANGED <<files, sess, trouble, noise>>

TxRpos(p) ==
    /\ Takes(p, OnFile, "RPOS")
    /\ LET pos == chan[p][1].pos IN
       /\ snd' = [snd EXCEPT ![z[p].cur].pos = pos, ![z[p].cur].eof = FALSE]
       /\ Becomes(p, [z[p] EXCEPT !.last = pos, !.st = "STARTDATA",
                                  !.sync = IF z[p].st = "FINFOACK" THEN pos - 1 ELSE pos])
    /\ \E out \in Flushes(p, chan[Peer(p)]) : ReadsFlushed(p, out \o EndFrame(p))
    /\ UNCHANGED <<queue, rcv, inbound, gone, sess, trouble, noise>>

\* The state that repeats what went unanswered.
Again(st) ==
    CASE st = "RQINITACK" -> "RQINIT" [] st = "FINFOACK" -> "FINFO"
      [] st = "EOFACK" -> "EOF" [] st = "FINACK" -> "FIN"
      [] st = "INITACK" -> "INIT" [] st = "RPOSACK" -> "SENDRPOS" [] OTHER -> st

Repeating == {"RQINITACK", "FINFOACK", "EOFACK", "FINACK", "INITACK", "RPOSACK"}

\* ZNAK, in both loops.
ReadNak(p) ==
    /\ Takes(p, Repeating, "NAK")
    /\ Reads(p, Again(z[p].st), <<>>)
    /\ UNCHANGED <<files, sess, trouble, noise>>

\* The other half of the session, or its end; rx_zmodem closes an open file.
PhaseDone(p) ==
    /\ IF z[p].phase = 1 THEN Moves(p, Started(p, 2))
                         ELSE Becomes(p, [z[p] EXCEPT !.rc = "ok"])
    /\ rcv' = IF z[p].recv = NoFile THEN rcv ELSE [rcv EXCEPT ![z[p].recv].open = FALSE]
    /\ UNCHANGED <<queue, snd, inbound, gone, sess, trouble, noise>>

TxFin(p) ==
    /\ Takes(p, {"FINACK"}, "FIN")
    /\ PhaseDone(p) /\ Answers(p, <<>>)

-----------------------------------------------------------------------------
(* What both loops do with a header they have no use for                    *)

Reading == TxReading \cup {"INITACK", "RPOSACK"}
AfterRead(st) == IF st = "NEXTREAD" THEN "NEXTFILE" ELSE st

Used(p) ==
    LET st == z[p].st IN
    (IF st \in Repeating THEN {"NAK"} ELSE {}) \cup
    (CASE st = "RQINITACK" -> {"RINIT"}
       [] st \in OnFile -> {"RINIT", "SKIP", "FERR", "RPOS"}
                           \cup IF st \in {"FINFOACK", "EOFACK"} THEN {} ELSE {"ACK"}
       [] st = "FINACK" -> {"RINIT", "FIN"}
       [] st = "INITACK" -> {"RQINIT", "FILE", "FIN"}
       [] st = "RPOSACK" -> {"FILE", "EOF", "DATA"} \cup IF z[p].rqinits THEN {"FIN"} ELSE {}
       [] OTHER -> {})

\* ZERROR and ZCRCERR: "NAK them all!".  A stray ZCRCW is an error too.
Unreadable(m) == m.type = "BAD" \/ m.kind = "W"

ReadBad(p) ==
    /\ At(p, Reading) /\ chan[p] # <<>> /\ Unreadable(chan[p][1])
    /\ Reads(p, AfterRead(z[p].st), <<Hdr("NAK", 0)>>)
    /\ UNCHANGED <<files, sess, trouble, noise>>

\* "got unexpected frame", and stray data that zgethdr skips.
ReadIgnored(p) ==
    /\ At(p, Reading) /\ chan[p] # <<>> /\ ~Unreadable(chan[p][1])
    /\ IsSub(chan[p][1]) \/ chan[p][1].type \notin Used(p)
    /\ Reads(p, IF IsSub(chan[p][1]) THEN z[p].st ELSE AfterRead(z[p].st), <<>>)
    /\ UNCHANGED <<files, sess, trouble, noise>>

-----------------------------------------------------------------------------
(* rx_zmodem: switch(rxstate)                                               *)

\* ZRINIT, or the verdict on the file; ZSKIP is said once.
SendInit(p) ==
    /\ At(p, {"INIT"}) /\ CanTry(p)
    /\ Becomes(p, [z[p] EXCEPT !.tries = @ + 1, !.st = "INITACK",
                               !.init = IF @ = "SKIP" THEN "RINIT" ELSE @])
    /\ Sends(p, <<Hdr(z[p].init, 0)>>)
    /\ UNCHANGED <<files, sess, trouble, noise>>

SendRpos(p) ==
    /\ At(p, {"SENDRPOS"}) /\ CanTry(p)
    /\ Tried(p, "RPOSACK") /\ Sends(p, <<Hdr("RPOS", rcv[z[p].recv].bytes)>>)
    /\ UNCHANGED <<files, sess, trouble, noise>>

\* ZRX_REFUSE, ZRX_SKIP and ZRX_SENDRPOS after something new.
Refusing(r) == [r EXCEPT !.tries = 0, !.init = "FERR", !.st = "INIT"]
Skipping(r) == IF sess.skipbypos THEN [r EXCEPT !.tries = 0, !.st = "SENDRPOS"]
               ELSE [r EXCEPT !.tries = 0, !.init = "SKIP", !.st = "INIT"]
Repositions(r) == [r EXCEPT !.tries = 0, !.st = "SENDRPOS"]
SkipTo(f) == IF sess.skipbypos THEN Size[f] ELSE rcv[f].bytes

\* p_rx_fopen: 0 (open), 1 (refuse), 2 (skip).
FopenResults(p, f) ==
    IF z[p].recv = f /\ rcv[f].status \in {"skipped", "refused"}
    THEN {IF rcv[f].status = "skipped" THEN 2 ELSE 1}
    ELSE IF f \in inbound THEN {2}
    ELSE {0} \cup {CASE o = "refuse" -> 1 [] o = "skip" -> 2 : o \in sess.faults \cap {"refuse", "skip"}}

\* Both reading states of zrdata; a header it meets becomes data.
ReadsData(p, st) == At(p, {st}) /\ chan[p] # <<>> /\ IsSub(chan[p][1])

\* Mutant: the check sum of the data is not looked at.
Broken_NoCrc(p) == FALSE

Broken(p) == z[p].dirty \/ chan[p][1].type = "BADSUB"

\* ZRX_GOTFILE: a file that is still open is closed, the new one is opened.
\* zmodem_proc_ZFILE: the file is opened, refused or skipped.
Offered(f, r) ==
    [rcv[f] EXCEPT !.open = (r = 0),
                   !.status = CASE r = 0 -> "process" [] r = 1 -> "refused" [] r = 2 -> "skipped",
                   !.bytes = IF r = 2 THEN SkipTo(f) ELSE @]

GotFile(p) ==
    /\ ReadsData(p, "FILEDATA") /\ ~Broken(p) /\ chan[p][1].type = "FINFO"
    /\ LET f == chan[p][1].file
           shut == IF z[p].recv = NoFile THEN rcv ELSE [rcv EXCEPT ![z[p].recv].open = FALSE]
       IN \E r \in FopenResults(p, f) :
          LET q == [z[p] EXCEPT !.recv = f] IN
          /\ rcv' = [shut EXCEPT ![f] = Offered(f, r)]
          /\ Becomes(p, CASE r = 0 -> Repositions(q) [] r = 1 -> Refusing(q) [] r = 2 -> Skipping(q))
    /\ Answers(p, <<>>)
    /\ UNCHANGED <<queue, snd, inbound, gone, sess, trouble, noise>>

NotFile(p) ==
    /\ ReadsData(p, "FILEDATA") /\ (Broken(p) \/ chan[p][1].type # "FINFO")
    /\ Reads(p, "INITACK", <<Hdr("NAK", 0)>>)
    /\ UNCHANGED <<files, sess, trouble, noise>>

SwallowHeader(p) ==
    /\ At(p, {"FILEDATA", "WAITDATA"}) /\ chan[p] # <<>> /\ ~IsSub(chan[p][1])
    /\ Becomes(p, [z[p] EXCEPT !.dirty = TRUE])
    /\ Answers(p, <<>>)
    /\ UNCHANGED <<files, sess, trouble, noise>>

GoodBlock(p) == ReadsData(p, "WAITDATA") /\ ~Broken(p)

\* p_rx_writefile, and what the end of the subpacket asks for.
RecvBlock(p) ==
    /\ GoodBlock(p) /\ rcv[z[p].recv].open
    /\ LET f == z[p].recv  m == chan[p][1]  bytes == rcv[f].bytes + m.len IN
       /\ rcv' = [rcv EXCEPT ![f].bytes = bytes,
                          ![f].good = @ /\ (m.len = 0 \/ m = [Sub("SUB", f, m.kind, m.len) EXCEPT !.pos = rcv[f].bytes])]
       /\ Moves(p, [z[p] EXCEPT !.st = IF m.kind \in {"W", "E"} THEN "RPOSACK" ELSE @,
                                !.tries = IF m.kind = "E" THEN 0 ELSE @])
       /\ Answers(p, IF m.kind \in {"W", "Q"} THEN <<Hdr("ACK", bytes)>> ELSE <<>>)
    /\ UNCHANGED <<queue, snd, inbound, gone, sess, trouble, noise>>

\* It returns -1 (receive later) or -2 (never).
WriteFails(p) ==
    /\ GoodBlock(p) /\ rcv[z[p].recv].open
    /\ \E o \in sess.faults \cap {"werror", "rvanish"} :
          /\ rcv' = [rcv EXCEPT ![z[p].recv].status = IF o = "werror" THEN "refused" ELSE "skipped"]
          /\ Moves(p, IF o = "werror" THEN Refusing(z[p]) ELSE Skipping(z[p]))
    /\ Answers(p, <<>>)
    /\ UNCHANGED <<queue, snd, inbound, gone, sess, trouble, noise>>

\* No file is open: ftell(NULL).
WriteNull(p) ==
    /\ GoodBlock(p) /\ ~rcv[z[p].recv].open
    /\ Ends(p, "crash")
    /\ trouble' = trouble \cup {"null"}
    /\ UNCHANGED noise

RecvBadBlock(p) ==
    /\ ReadsData(p, "WAITDATA") /\ Broken(p)
    /\ Becomes(p, Repositions(z[p])) /\ Answers(p, <<>>)
    /\ UNCHANGED <<files, sess, trouble, noise>>

-----------------------------------------------------------------------------
(* rx_zmodem: switch(zgethdr())                                             *)

RxRqinit(p) ==
    /\ Takes(p, {"INITACK"}, "RQINIT")
    /\ Becomes(p, [z[p] EXCEPT !.rqinits = TRUE, !.st = "INIT"])
    /\ Answers(p, <<>>)
    /\ UNCHANGED <<files, sess, trouble, noise>>

RxFile(p) ==
    /\ Takes(p, {"INITACK", "RPOSACK"}, "FILE")
    /\ Becomes(p, [z[p] EXCEPT !.init = "RINIT", !.dirty = FALSE, !.st = "FILEDATA"])
    /\ Answers(p, <<>>)
    /\ UNCHANGED <<files, sess, trouble, noise>>

InPlace(p) == chan[p][1].pos = rcv[z[p].recv].bytes

RxData(p) ==
    /\ Takes(p, {"RPOSACK"}, "DATA")
    /\ Becomes(p, IF InPlace(p) THEN [z[p] EXCEPT !.dirty = FALSE, !.st = "WAITDATA"]
                  ELSE Repositions(z[p]))
    /\ Answers(p, <<>>)
    /\ UNCHANGED <<files, sess, trouble, noise>>

\* p_rx_fclose compares the length and moves the file to the inbound.
RxEof(p) ==
    /\ Takes(p, {"RPOSACK"}, "EOF") /\ InPlace(p) /\ rcv[z[p].recv].open
    /\ LET f == z[p].recv IN
       /\ rcv[f].bytes = Size[f]
       /\ rcv' = [rcv EXCEPT ![f].status = "success", ![f].open = FALSE]
       /\ inbound' = inbound \cup {f}
    /\ Becomes(p, [z[p] EXCEPT !.tries = 0, !.init = "RINIT", !.st = "INIT"])
    /\ Answers(p, <<>>)
    /\ UNCHANGED <<queue, snd, gone, sess, trouble, noise>>

CloseFails(p) ==
    /\ Takes(p, {"RPOSACK"}, "EOF") /\ InPlace(p)
    /\ LET f == z[p].recv IN
       /\ rcv[f].bytes # Size[f] \/ ~rcv[f].open \/ "cerror" \in sess.faults
       /\ rcv' = [rcv EXCEPT ![f].status = "refused", ![f].open = FALSE]
    /\ Becomes(p, Refusing(z[p]))
    /\ Answers(p, <<>>)
    /\ trouble' = trouble \cup {"cerror"}
    /\ UNCHANGED <<queue, snd, inbound, gone, sess, noise>>

\* "out of sync": nothing is said.
RxEofElsewhere(p) ==
    /\ Takes(p, {"RPOSACK"}, "EOF") /\ ~InPlace(p)
    /\ Reads(p, "RPOSACK", <<>>)
    /\ UNCHANGED <<files, sess, trouble, noise>>

\* "Don't believe first ZFIN on outgoing calls".
Believed(p) == z[p].rqinits \/ z[p].fins + 1 > SkipFin \/ p # Caller

RxFin(p) ==
    /\ Takes(p, {"INITACK"} \cup (IF z[p].rqinits THEN {"RPOSACK"} ELSE {}), "FIN") /\ Believed(p)
    /\ PhaseDone(p) /\ Answers(p, <<Hdr("FIN", 0)>>)

RxFinDoubted(p) ==
    /\ Takes(p, {"INITACK"}, "FIN") /\ ~Believed(p)
    /\ Becomes(p, [z[p] EXCEPT !.fins = @ + 1, !.st = "INIT"])
    /\ Answers(p, <<>>)
    /\ UNCHANGED <<files, sess, trouble, noise>>

-----------------------------------------------------------------------------
(* Timers and faults                                                        *)

\* Nothing is under way and nobody has anything to say.
Silent == \A p \in Node : chan[p] = <<>> /\ ~Pending(p)
Late == "late" \in sess.faults

\* ZTIMER while a file is sent, and while one is received.
TxTimeout(r) ==
    IF r.st \in {"READCHECK", "CRCWACK", "CRCQACK"} THEN [r EXCEPT !.st = "STARTDATA"]
    ELSE [r EXCEPT !.st = AfterRead(Again(@))]
RxTimeout(r) ==
    CASE r.st = "WAITDATA" -> Repositions(r)
      [] r.st = "FILEDATA" -> [r EXCEPT !.tries = 0, !.st = "INIT"]
      [] OTHER -> [r EXCEPT !.st = Again(@)]

Timer(p) ==
    /\ At(p, Reading \cup {"FILEDATA", "WAITDATA"}) /\ (Silent \/ Late)
    /\ Becomes(p, IF z[p].st \in TxReading THEN TxTimeout(z[p]) ELSE RxTimeout(z[p]))
    /\ Sends(p, IF z[p].st = "READCHECK" THEN <<EmptyE>> ELSE <<>>)
    /\ trouble' = IF Silent THEN trouble ELSE trouble \cup {"late"}
    /\ UNCHANGED <<files, sess, noise>>

\* deadtimer: three minutes in which no block was sent or stored.
DeadTimer(p) ==
    /\ Running(p) /\ ~z[p].moved /\ ~Pending(p)
    /\ Ends(p, "error")
    /\ trouble' = IF Silent THEN trouble ELSE trouble \cup {"dead"}
    /\ UNCHANGED noise

\* Carrier lost, five CANs, a limit of p_info.
Drop(p) ==
    /\ Running(p) /\ "drop" \in sess.faults
    /\ Ends(p, "error")
    /\ trouble' = trouble \cup {"drop"}
    /\ UNCHANGED noise

RemoteGone(p) ==
    /\ Running(p) /\ ~Running(Peer(p)) /\ ~Pending(p) /\ chan[p] = <<>>
    /\ Ends(p, "error")
    /\ UNCHANGED <<trouble, noise>>

\* The line garbles the next item; of a header perhaps nothing is recognized.
Garbled(m) == IF IsSub(m) THEN [m EXCEPT !.type = "BADSUB"] ELSE Hdr("BAD", 0)

Garble(p) ==
    /\ Running(p) /\ chan[p] # <<>> /\ noise < sess.noise
    /\ chan[p][1].type \notin {"BAD", "BADSUB"}
    /\ \E seen \in {TRUE, IsSub(chan[p][1])} :
          /\ chan' = [chan EXCEPT ![p] = (IF seen THEN <<Garbled(chan[p][1])>> ELSE <<>>) \o Tail(@)]
          /\ trouble' = trouble \cup {IF seen /\ chan[p][1].type = "SUB" THEN "data" ELSE "noise"}
    /\ noise' = noise + 1
    /\ UNCHANGED <<z, files, sess>>

-----------------------------------------------------------------------------
Tx(p) ==
    \/ SendRqinit(p) \/ NextFile(p) \/ NoMoreFiles(p) \/ SendFinfo(p) \/ StartData(p)
    \/ SendBlock(p) \/ ReadVanished(p) \/ SendEof(p) \/ SendFin(p)
    \/ TxRinit(p) \/ TxRinitFinfo(p) \/ TxSent(p) \/ TxSkipped(p) \/ TxRefused(p)
    \/ TxRinitFin(p) \/ TxAck(p) \/ TxRpos(p) \/ TxFin(p)
Rx(p) ==
    \/ SendInit(p) \/ SendRpos(p) \/ GotFile(p) \/ NotFile(p) \/ SwallowHeader(p)
    \/ RecvBlock(p) \/ WriteFails(p) \/ WriteNull(p) \/ RecvBadBlock(p)
    \/ RxRqinit(p) \/ RxFile(p) \/ RxData(p) \/ RxEof(p) \/ CloseFails(p)
    \/ RxEofElsewhere(p) \/ RxFin(p) \/ RxFinDoubted(p)

Loop(p) ==
    \/ Tx(p) \/ Rx(p) \/ OutOfTries(p) \/ ReadNak(p) \/ ReadBad(p) \/ ReadIgnored(p)
    \/ Timer(p) \/ RemoteGone(p)

SessionOver == (\A p \in Node : ~Running(p)) /\ UNCHANGED vars

Next ==
    \/ \E p \in Node : Loop(p) \/ DeadTimer(p) \/ Drop(p) \/ Garble(p)
    \/ SessionOver

Spec == Init /\ [][Next]_vars

\* Both mailers run, and clocks advance; the line need not do any harm.
FairSpec == Spec /\ \A p \in Node : WF_vars(Loop(p)) /\ WF_vars(DeadTimer(p))

-----------------------------------------------------------------------------
(* Properties                                                               *)

\* What the sender unlinked is in the receiver's inbound, or the receiver (or
\* the removal of the file itself) settled that it is never sent.
Settled(f) == f \in inbound \/ rcv[f].status = "skipped" \/ ~snd[f].there

\* No file is unlinked that the receiver does not have.
NoFileLost == \A f \in gone : Settled(f)

\* A file in the inbound consists of its own blocks, each once and in order.
StoredIntact == \A f \in inbound \ sess.old : rcv[f].good /\ rcv[f].bytes = Size[f]

\* A block is written where it belongs in the file, whatever was garbled, repeated
\* or answered late: "rclhdr(Z_Rxhdr) == pi->recv->bytes_received" is looked at once
\* for all blocks that follow a ZDATA.
InOrder ==
    [][\A p \in Node : RecvBlock(p) /\ chan[p][1].len > 0 =>
            chan[p][1].pos = rcv[z[p].recv].bytes]_vars

\* With nothing worse than garbled data, the session ends well.
EndsWell ==
    trouble \subseteq {"data"} => \A p \in Node : z[p].rc # "error"

\* A session that ends well on both sides has disposed of all files: what was
\* left for later is what the receiver wanted later.
EndedSettled ==
    (\A p \in Node : z[p].rc = "ok") =>
        /\ \A p \in Node : queue[p] = <<>> /\ z[p].cur = NoFile
        /\ \A f \in File : snd[f].status = "refused" => rcv[f].status = "refused"

\* No block is written where no file is open.
NoCrash == \A p \in Node : z[p].rc # "crash"

\* Every session ends: by the frames, by the tries or by the dead timer.
SessionEnds == <>(\A p \in Node : ~Running(p))
=============================================================================

--------------------------- MODULE BinkpTransfer ---------------------------
(***************************************************************************)
(* The file transfer of a BinkP session: two mailers, each running         *)
(* binkp_loop() of prot_binkp.c in mode bmode_transfer, joined by two      *)
(* bounded FIFO channels (the socket buffers of a TCP connection).         *)
(*                                                                         *)
(* One turn of binkp_loop is a sequence of steps of one node, "top" (get   *)
(* something to send), "batch" (is the batch over?), "select" (wait, read),*)
(* "recv" (handle a complete block), "write".  A block is read in two      *)
(* pieces, header and body, and written in one.  Lengths and offsets are in *)
(* some unit, of which a data block carries at most Chunk; Size[f] is the  *)
(* length p_tx_fopen announces, Real[f] the one p_tx_readfile finds.       *)
(* Netspool files, encryption and the wording of messages are left out.    *)
(***************************************************************************)
EXTENDS Integers, Sequences

CONSTANTS
    Node,        \* the two mailers of the session
    File,        \* the files of both outbounds
    NoFile,      \* a null pi->send or pi->recv
    Sender,      \* [File -> Node]: whose outbound the file is in
    Sessions,    \* the sessions that may begin (see Session)
    Answers,     \* [File -> Seq(File)]: what req_proc() queues on receipt
    Size,        \* [File -> Nat]: length announced in M_FILE
    Real,        \* [File -> Nat]: length of the file when it is read
    Chunk,       \* what p_tx_readfile reads at a time
    Cap,         \* blocks a socket buffer holds
    DEBUG        \* configure --enable-debug: are DEB() arguments evaluated?

\* What the receiver's configuration and disk can do to a file: refuse it for
\* now, skip it for ever, fail to write, find it deleted, fail to move it.
RxOutcome == {"refuse", "skip", "werror", "vanish", "cerror"}

\* How a session begins: the files each node has queued, in sending order, how
\* much of each file lies in the receiver's temporary inbound, the options each
\* node saw from its remote in the handshake, and what may befall a file that
\* it receives.
Session == [queue : [Node -> Seq(File)], have : [File -> Nat],
            NR : [Node -> BOOLEAN], MB : [Node -> BOOLEAN], rx : [Node -> SUBSET RxOutcome]]

ASSUME NodeAssumption == \E p, q \in Node : p # q /\ Node = {p, q}
ASSUME FileAssumption ==
    /\ NoFile \notin File
    /\ Sender \in [File -> Node]
    /\ \A s \in Sessions :
           /\ s \in Session
           /\ \A p \in Node : \A i \in DOMAIN s.queue[p] : Sender[s.queue[p][i]] = p
           /\ \A f \in File : s.have[f] <= Size[f]
    /\ Answers \in [File -> Seq(File)]
    /\ \A f \in File : \A i \in DOMAIN Answers[f] : Sender[Answers[f][i]] # Sender[f]
    /\ Size \in [File -> Nat] /\ Real \in [File -> Nat]
\* A file is an entry of a file list: it is queued once, or is one answer to
\* one request, made when the request has been received.
ASSUME OnceAssumption ==
    /\ \A f, g \in File : \A i \in DOMAIN Answers[f], j \in DOMAIN Answers[g] :
           Answers[f][i] = Answers[g][j] => f = g /\ i = j
    /\ \A s \in Sessions, p \in Node : \A i \in DOMAIN s.queue[p] :
           /\ \A q \in Node : \A j \in DOMAIN s.queue[q] :
                  s.queue[p][i] = s.queue[q][j] => p = q /\ i = j
           /\ \A f \in File : \A j \in DOMAIN Answers[f] : s.queue[p][i] # Answers[f][j]
ASSUME OptionAssumption ==
    /\ Cap \in Nat \ {0} /\ Chunk \in Nat \ {0} /\ DEBUG \in BOOLEAN

VARIABLES
    b,        \* [Node -> s_binkp_state, with the locals of binkp_loop]
    queue,    \* [Node -> Seq(File)]: state.queue and pi->filelist, to be sent
    snd,      \* [File -> s_finfo of the sender]
    rcv,      \* [File -> s_finfo of the receiver, with the temporary file]
    chan,     \* [Node -> Seq(Msg)]: blocks on their way to the node
    inbound,  \* files moved to the receiver's inbound
    gone      \* files the sender has marked as sent and unlinked

vars == <<b, queue, snd, rcv, chan, inbound, gone>>

Peer(p) == CHOOSE q \in Node : q # p

\* "JUNK" is a block whose header was swallowed or whose body was split: the
\* bytes that follow are taken for something they are not.
Cmds == {"FILE", "DATA", "EOB", "GOT", "SKIP", "GET", "ERR", "JUNK"}
Msg == [cmd : Cmds, file : File \cup {NoFile}, off : Int, len : Nat]
Block(c, f, o) == [cmd |-> c, file |-> f, off |-> o, len |-> 0]
Data(f, o, n) == [cmd |-> "DATA", file |-> f, off |-> o, len |-> n]
NoMsg == Block("none", NoFile, 0)
MaybeMsg == Msg \cup {NoMsg}

SendStatus == {"none", "process", "waitack", "success", "skipped", "refused"}
Stored == {"success", "skipped"}

TypeOK ==
    /\ b \in [Node -> [
           pc : {"top", "batch", "select", "recv", "write", "ended"},
           NR : BOOLEAN, MB : BOOLEAN, rx : SUBSET RxOutcome,
           phase : {0, 2, 5, 100}, extra : MaybeMsg, last : BOOLEAN,
           complete : BOOLEAN, bsc : Nat, brc : Nat, waitgot : BOOLEAN,
           sent : BOOLEAN, rcvd : BOOLEAN,
           frs : {"nothing", "data", "didget", "skipping"},
           empty : 0..10, contsend : BOOLEAN, nomore : BOOLEAN,
           rc : {"noerror", "error", "remote", "local"},
           cur : File \cup {NoFile}, recv : File \cup {NoFile},
           out : MaybeMsg, canwrite : BOOLEAN,
           got : {"none", "header", "block", "cut"}, buf : MaybeMsg,
           want : {"none", "header", "body"}]]
    /\ queue \in [Node -> Seq(File)]
    /\ snd \in [File -> [status : SendStatus, pos : Nat, open : BOOLEAN]]
    /\ rcv \in [File -> [status : SendStatus, skip : Nat, bytes : Nat, open : BOOLEAN,
                         good : BOOLEAN]]
    /\ chan \in [Node -> Seq(Msg)]
    /\ inbound \subseteq File
    /\ gone \subseteq File

Init ==
    \E s \in Sessions :
        /\ b = [p \in Node |-> [
               NR |-> s.NR[p], MB |-> s.MB[p], rx |-> s.rx[p],
               pc |-> "top", phase |-> 0, extra |-> NoMsg, last |-> FALSE,
               complete |-> FALSE, bsc |-> 0, brc |-> 0, waitgot |-> FALSE,
               sent |-> FALSE, rcvd |-> FALSE, frs |-> "nothing",
               empty |-> 0, contsend |-> FALSE, nomore |-> FALSE, rc |-> "noerror",
               cur |-> NoFile, recv |-> NoFile, out |-> NoMsg, canwrite |-> FALSE,
               got |-> "none", buf |-> NoMsg, want |-> "header"]]
        /\ queue = s.queue
        /\ snd = [f \in File |-> [status |-> "none", pos |-> 0, open |-> FALSE]]
        /\ rcv = [f \in File |-> [status |-> "none", skip |-> 0, bytes |-> s.have[f],
                                  open |-> FALSE, good |-> TRUE]]
        /\ chan = [p \in Node |-> <<>>]
        /\ inbound = {}
        /\ gone = {}

Becomes(p, r) == b' = [b EXCEPT ![p] = r]

\* Where a turn of the loop goes on; a step with nothing to do is passed over.
AfterGet(r) == [r EXCEPT !.pc = IF r.bsc > 0 /\ r.brc > 0 THEN "batch" ELSE "select"]
AfterRecv(r) == [r EXCEPT !.pc = IF r.canwrite THEN "write" ELSE "top"]
AfterSelect(r) == IF r.want = "none" /\ r.got # "none" THEN [r EXCEPT !.pc = "recv"] ELSE AfterRecv(r)

Over(p) == b[p].pc = "ended"
Ends(p, code) == Becomes(p, [b[p] EXCEPT !.pc = "ended", !.rc = code])

-----------------------------------------------------------------------------
(* binkp_getforsend                                                         *)

\* The while condition of binkp_loop.
Looping(p) == b[p].pc = "top" /\ (~b[p].complete \/ b[p].waitgot)

LoopExit(p) ==
    /\ b[p].pc = "top" /\ b[p].complete /\ ~b[p].waitgot
    /\ Ends(p, b[p].rc)
    /\ UNCHANGED <<queue, snd, rcv, chan, inbound, gone>>

NoMoreToSend(p) == b[p].nomore /\ ~b[p].contsend

\* getforsend is called: nothing half-written, and something may be ready.
Getting(p) ==
    Looping(p) /\ b[p].out = NoMsg /\ (~NoMoreToSend(p) \/ b[p].extra # NoMsg)

\* The state in which getforsend runs and to which it adds: continuesend has
\* been taken, and the loop goes on with the batch check.
Start(p) ==
    [b[p] EXCEPT !.nomore = NoMoreToSend(p), !.contsend = FALSE]

GetNothing(p) ==
    /\ Looping(p) /\ ~Getting(p)
    /\ Becomes(p, AfterGet(Start(p)))
    /\ UNCHANGED <<queue, snd, rcv, chan, inbound, gone>>

\* The one command the receiving half left in extracmd goes first.
SendExtra(p) ==
    /\ Getting(p) /\ b[p].extra # NoMsg
    /\ Becomes(p, AfterGet([Start(p) EXCEPT !.out = b[p].extra, !.extra = NoMsg,
                  !.phase = IF b[p].last THEN 100 ELSE @,
                  !.complete = @ \/ b[p].last]))
    /\ UNCHANGED <<queue, snd, rcv, chan, inbound, gone>>

InPhase(p, n) == Getting(p) /\ b[p].extra = NoMsg /\ b[p].phase = n

\* p_tx_fopen(pi, NULL) and M_FILE; with NR the offset is -1 and the sender
\* waits, in phase 0 and with no_more_to_send set, for an M_GET.
SendFile(p) ==
    /\ InPhase(p, 0) /\ queue[p] # <<>>
    /\ LET f == Head(queue[p]) IN
       /\ queue' = [queue EXCEPT ![p] = Tail(@)]
       /\ snd' = [snd EXCEPT ![f] = [status |-> "process", pos |-> 0, open |-> TRUE]]
       /\ Becomes(p, AfterGet([Start(p) EXCEPT !.cur = f, !.waitgot = TRUE, !.sent = TRUE,
                     !.out = Block("FILE", f, IF b[p].NR THEN -1 ELSE 0),
                     !.phase = IF b[p].NR THEN 0 ELSE 2,
                     !.nomore = b[p].NR]))
    /\ UNCHANGED <<rcv, chan, inbound, gone>>

SendEOB(p) ==
    /\ InPhase(p, 0) /\ queue[p] = <<>>
    /\ Becomes(p, AfterGet([Start(p) EXCEPT !.out = Block("EOB", NoFile, 0), !.bsc = @ + 1, !.phase = 5]))
    /\ UNCHANGED <<queue, snd, rcv, chan, inbound, gone>>

\* p_tx_readfile on a file that is still open.
SendData(p) ==
    /\ InPhase(p, 2)
    /\ LET f == b[p].cur IN
       /\ f # NoFile /\ snd[f].open /\ snd[f].pos < Real[f]
       /\ LET left == Real[f] - snd[f].pos
              n == IF left < Chunk THEN left ELSE Chunk
          IN  /\ snd' = [snd EXCEPT ![f].pos = @ + n]
              /\ Becomes(p, AfterGet([Start(p) EXCEPT !.out = Data(f, snd[f].pos, n)]))
    /\ UNCHANGED <<queue, rcv, chan, inbound, gone>>

\* Mutant: the file is closed at its end instead of at its M_GOT.
EndOfFile_Closes(p) ==
    /\ InPhase(p, 2)
    /\ LET f == b[p].cur IN
       /\ f # NoFile /\ snd[f].open /\ snd[f].pos >= Real[f]
       /\ snd' = [snd EXCEPT ![f].status = "waitack", ![f].open = FALSE]
       /\ Becomes(p, [b[p] EXCEPT !.phase = 0])
    /\ UNCHANGED <<queue, rcv, chan, inbound, gone>>

\* The end of the file: the same call goes on with the next one.
EndOfFile(p) ==
    /\ InPhase(p, 2)
    /\ LET f == b[p].cur IN
       /\ f # NoFile /\ snd[f].open /\ snd[f].pos >= Real[f]
       /\ snd' = [snd EXCEPT ![f].status = "waitack"]
       /\ Becomes(p, [b[p] EXCEPT !.phase = 0])
    /\ UNCHANGED <<queue, rcv, chan, inbound, gone>>

\* p_tx_readfile: "Read from closed file".
ReadClosed(p) ==
    /\ InPhase(p, 2) /\ b[p].cur # NoFile /\ ~snd[b[p].cur].open
    /\ Ends(p, "error")
    /\ UNCHANGED <<queue, snd, rcv, chan, inbound, gone>>

\* Phase 5, "nothing to send", and the unrecognized phase after a last command.
SendNothing(p) ==
    /\ InPhase(p, 5) \/ InPhase(p, 100)
    /\ Becomes(p, AfterGet([Start(p) EXCEPT !.nomore = TRUE,
                                !.complete = @ \/ b[p].phase = 100]))
    /\ UNCHANGED <<queue, snd, rcv, chan, inbound, gone>>

-----------------------------------------------------------------------------
(* The middle of binkp_loop: is the batch over?                             *)

BatchOver(p) == b[p].pc = "batch"
\* Mutant: never a second batch.
Another_Never(p) == FALSE

Another(p) == b[p].MB /\ (b[p].sent \/ b[p].rcvd)

\* Mutant: no_more_to_send survives the batch.
NextBatch_StillNoMore(p) ==
    /\ BatchOver(p) /\ Another(p)
    /\ Becomes(p, [b[p] EXCEPT !.bsc = @ - 1, !.brc = @ - 1,
                     !.sent = FALSE, !.rcvd = FALSE,
                     !.phase = 0, !.frs = "nothing", !.want = "header",
                     !.pc = "top"])
    /\ UNCHANGED <<queue, snd, rcv, chan, inbound, gone>>

\* want_read = BINKP_HEADER whatever has been read of the next block.
NextBatch(p) ==
    /\ BatchOver(p) /\ Another(p)
    /\ Becomes(p, [b[p] EXCEPT !.bsc = @ - 1, !.brc = @ - 1,
                     !.sent = FALSE, !.rcvd = FALSE, !.nomore = FALSE,
                     !.phase = 0, !.frs = "nothing", !.want = "header",
                     !.pc = "top"])
    /\ UNCHANGED <<queue, snd, rcv, chan, inbound, gone>>

Complete(p) ==
    /\ BatchOver(p) /\ ~Another(p) /\ ~b[p].waitgot
    /\ Becomes(p, [b[p] EXCEPT !.complete = TRUE, !.want = "none", !.pc = "select"])
    /\ UNCHANGED <<queue, snd, rcv, chan, inbound, gone>>

\* "waiting for all files have being confirmed".
AwaitGot(p) ==
    /\ BatchOver(p) /\ ~Another(p) /\ b[p].waitgot
    /\ Becomes(p, [b[p] EXCEPT !.pc = "select"])
    /\ UNCHANGED <<queue, snd, rcv, chan, inbound, gone>>

-----------------------------------------------------------------------------
(* tty_select, tty_read, tty_write                                          *)

CanRead(p) ==
    b[p].pc = "select" /\ b[p].want # "none" /\ (chan[p] # <<>> \/ Over(Peer(p)))
CanWrite(p) ==
    b[p].out # NoMsg /\ (Len(chan[Peer(p)]) < Cap \/ Over(Peer(p)))

ReadHeader(p) ==
    /\ CanRead(p) /\ chan[p] # <<>> /\ b[p].want = "header" /\ b[p].got = "none"
    /\ \E w \in {FALSE, CanWrite(p)} :
           Becomes(p, AfterSelect([b[p] EXCEPT !.got = "header", !.want = "body",
                                   !.canwrite = w]))
    /\ UNCHANGED <<queue, snd, rcv, chan, inbound, gone>>

ReadBody(p) ==
    /\ CanRead(p) /\ chan[p] # <<>> /\ b[p].want = "body"
    /\ \E w \in {FALSE, CanWrite(p)} :
           Becomes(p, AfterSelect([b[p] EXCEPT !.got = "block", !.want = "none", !.buf = Head(chan[p]),
                                   !.canwrite = w]))
    /\ chan' = [chan EXCEPT ![p] = Tail(@)]
    /\ UNCHANGED <<queue, snd, rcv, inbound, gone>>

\* want_read was reset to two bytes after a header had been read, or while a
\* complete block was kept: a piece of a body becomes a block, or a header is
\* appended to one, and the stream is out of step from here on.
ReadAstray(p) ==
    /\ CanRead(p) /\ chan[p] # <<>> /\ b[p].want = "header" /\ b[p].got # "none"
    /\ \E w \in {FALSE, CanWrite(p)} :
           Becomes(p, AfterSelect([b[p] EXCEPT !.got = IF @ = "header" THEN "cut" ELSE @,
                                   !.want = "none", !.canwrite = w]))
    /\ chan' = [chan EXCEPT ![p][1] = Block("JUNK", NoFile, 0)]
    /\ UNCHANGED <<queue, snd, rcv, inbound, gone>>

\* "read: remote socket shutdown".
ReadShutdown(p) ==
    /\ CanRead(p) /\ chan[p] = <<>>
    /\ Ends(p, "remote")
    /\ UNCHANGED <<queue, snd, rcv, chan, inbound, gone>>

\* Nothing has arrived, or nothing is wanted: only the write is ready.
OnlyWrite(p) ==
    /\ b[p].pc = "select" /\ CanWrite(p)
    /\ Becomes(p, AfterSelect([b[p] EXCEPT !.canwrite = TRUE]))
    /\ UNCHANGED <<queue, snd, rcv, chan, inbound, gone>>

\* Mutant: the guard against an eternal loop never counts.
EmptyLoop_Forever(p) ==
    /\ b[p].pc = "select" /\ b[p].want = "none" /\ b[p].out = NoMsg
    /\ Becomes(p, AfterSelect(b[p]))
    /\ UNCHANGED <<queue, snd, rcv, chan, inbound, gone>>

\* Neither wanted: emptyloop is incremented inside DEB(), so only with DEBUG.
EmptyLoop(p) ==
    /\ b[p].pc = "select" /\ b[p].want = "none" /\ b[p].out = NoMsg
    /\ LET n == IF DEBUG THEN b[p].empty + 1 ELSE b[p].empty IN
       IF n = 10 THEN Ends(p, "error")
       ELSE Becomes(p, AfterSelect([b[p] EXCEPT !.empty = n]))
    /\ UNCHANGED <<queue, snd, rcv, chan, inbound, gone>>

Blocked(p) ==
    /\ b[p].pc = "select" /\ (b[p].want # "none" \/ b[p].out # NoMsg)
    /\ ~CanRead(p) /\ ~CanWrite(p)

\* tty_select returns TTY_TIMEOUT: only when the other side is not moving.
Timeout(p) ==
    /\ Blocked(p) /\ (Blocked(Peer(p)) \/ Over(Peer(p)))
    /\ Ends(p, "error")
    /\ UNCHANGED <<queue, snd, rcv, chan, inbound, gone>>

\* A block written to a socket the remote has closed is lost.
Write(p) ==
    /\ b[p].pc = "write"
    /\ Becomes(p, [b[p] EXCEPT !.out = NoMsg, !.canwrite = FALSE, !.pc = "top"])
    /\ chan' = IF Over(Peer(p)) THEN chan
               ELSE [chan EXCEPT ![Peer(p)] = Append(@, b[p].out)]
    /\ UNCHANGED <<queue, snd, rcv, inbound, gone>>

\* EPIPE.
WriteFails(p) ==
    /\ b[p].pc = "write" /\ Over(Peer(p))
    /\ Ends(p, "error")
    /\ UNCHANGED <<queue, snd, rcv, chan, inbound, gone>>

-----------------------------------------------------------------------------
(* binkp_doreceiveblock                                                     *)

Whole(p, c) == b[p].pc = "recv" /\ b[p].got = "block" /\ b[p].buf.cmd = c
FileOf(p) == b[p].buf.file
OffsOf(p) == b[p].buf.off

\* The block is accepted (return 1), with r the new state.
Accepts(p, r) ==
    Becomes(p, AfterRecv([r EXCEPT !.got = "none", !.buf = NoMsg, !.want = "header"]))

\* extracmd is occupied: the block is kept for the next turn (return 0), but
\* batch_recv_count has counted an M_FILE already.
Keeps(p) ==
    /\ b[p].extra # NoMsg
    /\ Becomes(p, AfterRecv([b[p] EXCEPT !.rcvd = @ \/ Whole(p, "FILE")]))

\* PROTO_ERROR: M_ERR overwrites extracmd and is the last command.
PROTO_ERROR(r) ==
    [r EXCEPT !.rc = "local", !.extra = Block("ERR", NoFile, 0), !.last = TRUE]

WithExtra(r, m) == [r EXCEPT !.extra = m, !.last = FALSE]

\* The loop completes with want_read = 0 when only the header has been read: a
\* command of zero length is an error, a data block of zero length is not.
HeaderOnly(p) ==
    /\ b[p].pc = "recv" /\ b[p].got = "header"
    /\ Accepts(p, IF Head(chan[p]).cmd = "DATA" THEN b[p] ELSE PROTO_ERROR(b[p]))
    /\ UNCHANGED <<queue, snd, rcv, chan, inbound, gone>>

\* Two bytes of a block do not parse, nor does what comes after them.
BrokenBlock(p) ==
    /\ (b[p].pc = "recv" /\ b[p].got = "cut") \/ Whole(p, "JUNK")
    /\ Accepts(p, PROTO_ERROR(b[p]))
    /\ UNCHANGED <<queue, snd, rcv, chan, inbound, gone>>

-----------------------------------------------------------------------------
(* M_FILE                                                                   *)

\* p_rx_fopen for a file that is already being received or was turned away.
Duplicate(p, f) == b[p].recv = f /\ (rcv[f].open \/ rcv[f].status \in {"skipped", "refused"})

TempWhole(f) == Size[f] > 0 /\ rcv[f].bytes = Size[f]

\* What p_rx_fopen does: open (0), refuse (1, receive later), skip (2, receive
\* never) or, with all of the file in the temporary inbound, move it there (2).
FopenResults(p, f) ==
    IF Duplicate(p, f)
    THEN {IF rcv[f].open THEN "open" ELSE IF rcv[f].status = "skipped" THEN "skip" ELSE "refuse"}
    ELSE (b[p].rx \cap {"refuse", "skip"})
         \cup {IF f \in inbound THEN "skip" ELSE IF TempWhole(f) THEN "move" ELSE "open"}

Fopened(p, f, r) ==
    IF Duplicate(p, f) THEN rcv[f]
    ELSE [rcv[f] EXCEPT !.status = IF r = "open" THEN "process"
                                   ELSE IF r = "refuse" THEN "refused" ELSE "skipped",
                        !.open = (r = "open"),
                        !.skip = IF r = "open" THEN rcv[f].bytes ELSE 0]

\* "overlapping M_FILE received".
FileError(p) ==
    /\ Whole(p, "FILE") /\ b[p].frs = "data"
    /\ Accepts(p, PROTO_ERROR([b[p] EXCEPT !.rcvd = TRUE]))
    /\ UNCHANGED <<queue, snd, rcv, chan, inbound, gone>>

Wanted(p) ==
    b[p].recv = FileOf(p) /\ rcv[FileOf(p)].skip = OffsOf(p) /\ rcv[FileOf(p)].open

\* The answer to our M_GET; any other file is turned away meanwhile.
FileAfterGet(p) ==
    /\ Whole(p, "FILE") /\ b[p].frs = "didget"
    /\ \/ Wanted(p) /\ Accepts(p, [b[p] EXCEPT !.rcvd = TRUE, !.frs = "data"])
       \/ ~Wanted(p) /\ Keeps(p)
       \/ /\ ~Wanted(p) /\ b[p].extra = NoMsg
          /\ Accepts(p, WithExtra([b[p] EXCEPT !.rcvd = TRUE], Block("SKIP", FileOf(p), 0)))
    /\ UNCHANGED <<queue, snd, rcv, chan, inbound, gone>>

Reply(p, f, r) ==
    LET s == [b[p] EXCEPT !.rcvd = TRUE, !.recv = f]
        k == Fopened(p, f, r).skip
    IN  IF r = "open"
        THEN IF k = OffsOf(p) THEN [s EXCEPT !.frs = "data"]
             ELSE [WithExtra(s, Block("GET", f, k)) EXCEPT !.frs = "didget"]
        ELSE [WithExtra(s, Block(IF r = "refuse" THEN "SKIP" ELSE "GOT", f, 0))
                  EXCEPT !.frs = "skipping"]

FileOpen(p) ==
    /\ Whole(p, "FILE") /\ b[p].frs \in {"nothing", "skipping"} /\ b[p].extra = NoMsg
    /\ LET f == FileOf(p) IN
       \E r \in FopenResults(p, f) :
           /\ rcv' = [rcv EXCEPT ![f] = Fopened(p, f, r)]
           /\ inbound' = IF r = "move" THEN inbound \cup {f} ELSE inbound
           /\ Accepts(p, Reply(p, f, r))
    /\ UNCHANGED <<queue, snd, chan, gone>>

\* M_FILE, M_GET or data while extracmd is occupied.
Suspend(p) ==
    /\ \/ Whole(p, "FILE") /\ b[p].frs \in {"nothing", "skipping"}
       \/ Whole(p, "GET")
       \/ Whole(p, "DATA") /\ b[p].frs = "data"
    /\ Keeps(p)
    /\ UNCHANGED <<queue, snd, rcv, chan, inbound, gone>>

ReceiveEOB(p) ==
    /\ Whole(p, "EOB")
    /\ Accepts(p, [b[p] EXCEPT !.brc = @ + 1])
    /\ UNCHANGED <<queue, snd, rcv, chan, inbound, gone>>

\* m = 3: complete, but the block stays and is handled again in every turn.
ReceiveERR(p) ==
    /\ Whole(p, "ERR")
    /\ Becomes(p, AfterRecv([b[p] EXCEPT !.rc = "remote", !.complete = TRUE]))
    /\ UNCHANGED <<queue, snd, rcv, chan, inbound, gone>>

-----------------------------------------------------------------------------
(* M_GOT and M_SKIP                                                         *)

IsAck(p) == Whole(p, "GOT") \/ Whole(p, "SKIP")

\* The file is being sent: stop, and go on with the next one.
Aborts(p) == b[p].cur = FileOf(p) /\ snd[FileOf(p)].status # "waitack"

\* Mutant: M_SKIP taken for M_GOT.
AckStatus_SkipIsGot(p) ==
    IF snd[FileOf(p)].status = "waitack" THEN "success" ELSE "skipped"

AckStatus(p) ==
    IF b[p].buf.cmd = "SKIP" THEN "refused"
    ELSE IF snd[FileOf(p)].status = "waitack" THEN "success" ELSE "skipped"

\* waiting_got is cleared when no file of sentfiles is FSTAT_WAITACK.
AllConfirmed(p, s) == \A f \in File : Sender[f] = p => s[f].status # "waitack"

Ack(p) ==
    /\ IsAck(p) /\ b[p].cur # NoFile
    /\ LET f == FileOf(p)
           s == [snd EXCEPT ![f].status = AckStatus(p), ![f].open = FALSE]
       IN  /\ snd' = s
           /\ gone' = IF AckStatus(p) \in Stored THEN gone \cup {f} ELSE gone
           /\ Accepts(p, [b[p] EXCEPT !.cur = IF Aborts(p) THEN NoFile ELSE @,
                            !.phase = IF Aborts(p) THEN 0 ELSE @,
                            !.waitgot = @ /\ ~AllConfirmed(p, s)])
    /\ UNCHANGED <<queue, rcv, chan, inbound>>

-----------------------------------------------------------------------------
(* M_GET                                                                    *)

\* Mutant: continuesend is forgotten.
Resent_NoContinue(p, r) ==
    [WithExtra(r, Block("FILE", FileOf(p), OffsOf(p))) EXCEPT !.phase = 2]

Resent(p, r) ==
    [WithExtra(r, Block("FILE", FileOf(p), OffsOf(p))) EXCEPT !.phase = 2, !.contsend = TRUE]

GetMatches(p) == b[p].cur = FileOf(p) /\ snd[FileOf(p)].pos = OffsOf(p)

\* The offset is where the sender is: the answer to an M_FILE with offset -1.
GetHere(p) ==
    /\ Whole(p, "GET") /\ b[p].extra = NoMsg /\ GetMatches(p)
    /\ Accepts(p, Resent(p, b[p]))
    /\ UNCHANGED <<queue, snd, rcv, chan, inbound, gone>>

\* Rewind the current file, or open again one that is not confirmed yet.
GetRewind(p) ==
    /\ Whole(p, "GET") /\ b[p].extra = NoMsg /\ ~GetMatches(p)
    /\ LET f == FileOf(p) IN
       /\ snd[f].open
       /\ snd' = [snd EXCEPT ![f].pos = OffsOf(p),
                             ![f].status = IF b[p].cur = f THEN @ ELSE "process"]
       /\ Accepts(p, Resent(p, [b[p] EXCEPT !.cur = f, !.waitgot = @ \/ b[p].cur # f]))
    /\ UNCHANGED <<queue, rcv, chan, inbound, gone>>

-----------------------------------------------------------------------------
(* Data                                                                     *)

\* "unexpected data block".
DataError(p) ==
    /\ Whole(p, "DATA") /\ b[p].frs = "nothing"
    /\ Accepts(p, PROTO_ERROR(b[p]))
    /\ UNCHANGED <<queue, snd, rcv, chan, inbound, gone>>

DataDropped(p) ==
    /\ Whole(p, "DATA") /\ b[p].frs \in {"didget", "skipping"}
    /\ Accepts(p, b[p])
    /\ UNCHANGED <<queue, snd, rcv, chan, inbound, gone>>

\* Mutant: data still on its way when M_GET is sent is stored.
Storing_InFlight(p) ==
    Whole(p, "DATA") /\ b[p].frs \in {"data", "didget"} /\ b[p].extra = NoMsg

Storing(p) == Whole(p, "DATA") /\ b[p].frs = "data" /\ b[p].extra = NoMsg

\* The receiver's record of its current file after one more block: the block
\* is appended whatever file and offset it came from.
Appended(p) ==
    LET f == b[p].recv IN
    [rcv[f] EXCEPT !.bytes = @ + b[p].buf.len,
                   !.good = @ /\ FileOf(p) = f /\ OffsOf(p) = rcv[f].bytes]

DataStored(p) ==
    /\ Storing(p) /\ Appended(p).bytes < Size[b[p].recv]
    /\ rcv' = [rcv EXCEPT ![b[p].recv] = Appended(p)]
    /\ Accepts(p, b[p])
    /\ UNCHANGED <<queue, snd, chan, inbound, gone>>

\* The last block: p_rx_fclose moves the file to the inbound, and runs the
\* request processor if the file is a request.
FileStored(p) ==
    /\ Storing(p) /\ Appended(p).bytes = Size[b[p].recv]
    /\ LET f == b[p].recv IN
       /\ rcv' = [rcv EXCEPT ![f] = [Appended(p) EXCEPT !.status = "success", !.open = FALSE]]
       /\ inbound' = inbound \cup {f}
       /\ queue' = [queue EXCEPT ![p] = @ \o Answers[f]]
       /\ Accepts(p, WithExtra([b[p] EXCEPT !.frs = "nothing"], Block("GOT", f, 0)))
    /\ UNCHANGED <<snd, chan, gone>>

\* p_rx_fclose fails: refused, although all of it was received.
CloseFails(p) ==
    /\ Storing(p) /\ Appended(p).bytes = Size[b[p].recv] /\ "cerror" \in b[p].rx
    /\ LET f == b[p].recv IN
       /\ rcv' = [rcv EXCEPT ![f] = [Appended(p) EXCEPT !.status = "refused", !.open = FALSE]]
       /\ Accepts(p, WithExtra([b[p] EXCEPT !.frs = "nothing"], Block("SKIP", f, 0)))
    /\ UNCHANGED <<queue, snd, chan, inbound, gone>>

\* The file is longer than announced.
TooMuchData(p) ==
    /\ Storing(p) /\ Appended(p).bytes > Size[b[p].recv]
    /\ rcv' = [rcv EXCEPT ![b[p].recv] =
                   [Appended(p) EXCEPT !.status = "refused", !.open = FALSE]]
    /\ Accepts(p, PROTO_ERROR([b[p] EXCEPT !.frs = "skipping"]))
    /\ UNCHANGED <<queue, snd, chan, inbound, gone>>

\* p_rx_writefile returns -1 (refuse) or -2 (somebody removed the file: skip).
DataFails(p) ==
    /\ Storing(p)
    /\ LET f == b[p].recv IN
       \E o \in b[p].rx \cap {"werror", "vanish"} :
           /\ rcv' = [rcv EXCEPT ![f].open = FALSE,
                          ![f].status = IF o = "werror" THEN "refused" ELSE "skipped",
                          ![f].bytes = IF o = "werror" THEN @ ELSE 0,
                          ![f].good = (o = "vanish") \/ @]
           /\ Accepts(p, WithExtra([b[p] EXCEPT !.frs = "skipping"],
                             Block(IF o = "werror" THEN "SKIP" ELSE "GOT", f, 0)))
    /\ UNCHANGED <<queue, snd, chan, inbound, gone>>

-----------------------------------------------------------------------------
Getforsend(p) ==
    \/ GetNothing(p) \/ SendExtra(p) \/ SendFile(p) \/ SendEOB(p) \/ SendData(p)
    \/ EndOfFile(p) \/ ReadClosed(p) \/ SendNothing(p)

Batch(p) == NextBatch(p) \/ Complete(p) \/ AwaitGot(p)

Transport(p) ==
    \/ ReadHeader(p) \/ ReadBody(p) \/ ReadAstray(p) \/ ReadShutdown(p) \/ OnlyWrite(p)
    \/ EmptyLoop(p) \/ Timeout(p) \/ Write(p) \/ WriteFails(p)

Doreceiveblock(p) ==
    \/ HeaderOnly(p) \/ BrokenBlock(p) \/ FileError(p) \/ FileAfterGet(p)
    \/ FileOpen(p) \/ Suspend(p) \/ ReceiveEOB(p) \/ ReceiveERR(p)
    \/ Ack(p) \/ GetHere(p) \/ GetRewind(p)
    \/ DataError(p) \/ DataDropped(p) \/ DataStored(p) \/ FileStored(p)
    \/ CloseFails(p) \/ TooMuchData(p) \/ DataFails(p)

\* Between two selects a mailer touches only its own state and its ends of the
\* channels, and what it may write was settled by the select: turns of the two
\* loops commute, and the model runs one of them at a time.
Alone(p) == b[p].pc = "select" => b[Peer(p)].pc \in {"select", "ended"}

Loop(p) ==
    /\ Alone(p)
    /\ LoopExit(p) \/ Getforsend(p) \/ Batch(p) \/ Transport(p) \/ Doreceiveblock(p)

\* The session is over on both sides.
SessionOver == (\A p \in Node : Over(p)) /\ UNCHANGED vars

Next == (\E p \in Node : Loop(p)) \/ SessionOver

Spec == Init /\ [][Next]_vars

\* Each mailer is a running process: it goes on whenever it can.
FairSpec == Spec /\ \A p \in Node : WF_vars(Loop(p))

-----------------------------------------------------------------------------
(* Properties                                                               *)

\* What the sender marked as sent and unlinked is in the receiver's inbound,
\* or the receiver chose never to take it (p_tx_fclose after M_GOT).
NoFileLost ==
    \A f \in gone : f \in inbound \/ rcv[f].status = "skipped"

\* A file moved to the inbound consists of its own blocks, in order, whatever
\* was in flight around an M_GET (p_rx_writefile appends what arrives).  It is
\* so unless a batch ends while an M_GET is unanswered (binkp_overlap.cfg).
StoredIntact == \A f \in inbound : rcv[f].good /\ rcv[f].bytes = Size[f]

\* No M_GOT or M_SKIP is handled while pi->send is null: got_skip passes
\* pi->send->net_name to strcmp.
AckFindsFile == \A p \in Node : IsAck(p) => b[p].cur # NoFile

\* An M_GET finds the file it names still open: a closed one could neither be
\* rewound nor reopened, and the session would be aborted ("seek error").
GetFindsOpen ==
    \A p \in Node : Whole(p, "GET") => snd[FileOf(p)].open

\* Both: every answer of the receiver finds its file.
AnswersFindFile == AckFindsFile /\ GetFindsOpen

\* A session that ends well on both sides has settled every file it sent.
AlwaysSettled ==
    (\A p \in Node : Over(p) /\ b[p].rc = "noerror") =>
        \A f \in File : snd[f].status \notin {"process", "waitack"}

\* The same, unless a file was resumed: an M_GET may come too late.
EndedSettled == (\A f \in File : rcv[f].skip = 0) => AlwaysSettled

\* Nothing befalls the files.
Undisturbed == \A p \in Node : b[p].rx = {}

\* Without failures both sides end the session without an error, and nothing
\* is left in a queue: what a file request added after our M_EOB goes out in
\* one more batch.
EndsWell ==
    Undisturbed =>
        /\ \A p \in Node : Over(p) => b[p].rc = "noerror"
        /\ (\A p \in Node : Over(p)) => \A p \in Node : queue[p] = <<>>

\* Only complete blocks are handled, never a piece of one.
OnlyWholeBlocks == \A p \in Node : b[p].pc = "recv" => b[p].got = "block"

\* The same, whatever happens.
NeverStalls == ~ \A p \in Node : Blocked(p)

\* Without failures the two sides never wait for each other until tty_select
\* times out.
NoStall == Undisturbed => NeverStalls

\* Every session ends on both sides.
SessionEnds == <>(\A p \in Node : Over(p))
=============================================================================

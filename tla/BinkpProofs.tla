---------------------------- MODULE BinkpProofs ----------------------------
(***************************************************************************)
(* Proofs about BinkpTransfer: a file the sender has marked as sent and    *)
(* unlinked is with the receiver, or the receiver never wanted it; and     *)
(* every answer of the receiver finds the file it is about.                *)
(***************************************************************************)
EXTENDS BinkpTransfer, SequenceTheorems, TLAPS

-----------------------------------------------------------------------------
(* Types                                                                    *)

\* The commands that say something about a file.
About == {"FILE", "GET", "GOT", "SKIP"}

\* What a mailer sends: commands about a file name one, and an offset asked
\* for is not negative.
Letter == {m \in Msg : /\ m.cmd \in About \cup {"DATA"} => m.file \in File
                       /\ m.cmd = "GET" => m.off \in Nat}
MaybeLetter == Letter \cup {NoMsg}

Local == [pc : {"top", "batch", "select", "recv", "write", "ended"},
          NR : BOOLEAN, MB : BOOLEAN, rx : SUBSET RxOutcome,
          phase : {0, 2, 5, 100}, extra : MaybeLetter, last : BOOLEAN,
          complete : BOOLEAN, bsc : Nat, brc : Nat, waitgot : BOOLEAN,
          sent : BOOLEAN, rcvd : BOOLEAN,
          frs : {"nothing", "data", "didget", "skipping"},
          empty : 0..9, contsend : BOOLEAN, nomore : BOOLEAN,
          rc : {"noerror", "error", "remote", "local"},
          cur : File \cup {NoFile}, recv : File \cup {NoFile},
          out : MaybeLetter, canwrite : BOOLEAN,
          got : {"none", "header", "block", "cut"}, buf : MaybeLetter,
          want : {"none", "header", "body"}]
Sinfo == [status : SendStatus, pos : Nat, open : BOOLEAN]
Rinfo == [status : SendStatus, skip : Nat, bytes : Nat, open : BOOLEAN, good : BOOLEAN]

\* A batch is over only when both have ended theirs, and what may be written
\* is there.
LocalOk(r) ==
  /\ r \in Local
  /\ r.pc = "batch" => r.bsc > 0 /\ r.brc > 0
  /\ r.pc = "write" \/ r.canwrite => r.out # NoMsg
  /\ r.frs = "data" => r.recv \in File

TypeInv ==
  /\ b \in [Node -> Local] /\ \A n \in Node : LocalOk(b[n])
  /\ queue \in [Node -> Seq(File)]
  /\ snd \in [File -> Sinfo]
  /\ rcv \in [File -> Rinfo]
  /\ chan \in [Node -> Seq(Letter)]
  /\ inbound \subseteq File
  /\ gone \subseteq File

-----------------------------------------------------------------------------
(***************************************************************************)
(* Where a file is.  It waits in a queue, or will be queued as the answer  *)
(* to a request that has not been received; then one command about it is   *)
(* on its way, in extracmd, in the output buffer, in a channel or in the   *)
(* input buffer; or it is being received; or it has been unlinked.         *)
(***************************************************************************)
Place == [at : {"queue", "answer", "extra", "out", "chan", "buf", "data", "gone"},
          n : Node \cup File, i : Nat]
At(k, n, i) == [at |-> k, n |-> n, i |-> i]

Says(m, c, f) == m.cmd = c /\ m.file = f
Speaks(m, f) == m.cmd \in About /\ m.file = f

\* The command at a place.
Here(x) ==
  /\ x.n \in Node
  /\ IF x.at = "chan" THEN x.i \in DOMAIN chan[x.n] ELSE x.at \in {"extra", "out", "buf"} /\ x.i = 0
Command(x) ==
  IF x.at = "extra" THEN b[x.n].extra
  ELSE IF x.at = "out" THEN b[x.n].out
  ELSE IF x.at = "buf" THEN b[x.n].buf
  ELSE chan[x.n][x.i]

Tells(x, c, f) == Here(x) /\ Says(Command(x), c, f)

Holds(x, f) ==
  \/ x.at = "queue" /\ x.n \in Node /\ x.i \in DOMAIN queue[x.n] /\ queue[x.n][x.i] = f
  \/ x.at = "answer" /\ x.n \in File \ inbound /\ x.i \in DOMAIN Answers[x.n] /\ Answers[x.n][x.i] = f
  \/ Here(x) /\ Speaks(Command(x), f)
  \/ x.at = "data" /\ x.n \in Node /\ x.i = 0 /\ b[x.n].frs = "data" /\ b[x.n].recv = f
  \/ x.at = "gone" /\ x.n = f /\ x.i = 0 /\ f \in gone

OnePlace == \A f \in File : \A x, y \in Place : Holds(x, f) /\ Holds(y, f) => x = y

\* What is acknowledged has been received or will never be.
Kept(f) == f \in inbound \/ rcv[f].status = "skipped"
Acknowledged(f) == f \in gone \/ \E x \in Place : Tells(x, "GOT", f)
AckedKept == \A f \in File : Acknowledged(f) => Kept(f)

\* What is announced or asked for is open.
Announced(f) == \E x \in Place : Tells(x, "FILE", f) \/ Tells(x, "GET", f)
AnnouncedOpen == \A f \in File : Announced(f) => snd[f].open

\* What is being received is not in the inbound.
OpenOk ==
  /\ \A f \in File : rcv[f].open => f \notin inbound
  /\ \A n \in Node : b[n].frs = "data" => b[n].recv \in File /\ rcv[b[n].recv].open

(***************************************************************************)
(* In which order commands lie between two mailers.  A file goes from its  *)
(* sender p by extracmd, output buffer and channel into the input buffer   *)
(* of the other mailer, which may receive it, and what that mailer says of *)
(* it comes back the same way.  Stages are counted from the end of the     *)
(* way, which is p's input buffer.                                         *)
(***************************************************************************)
Live(x, f) == x.at \in {"extra", "out", "chan", "buf", "data"} /\ Holds(x, f)
Stage(p, x) ==
  IF x.at = "extra" THEN IF x.n = p THEN 8 ELSE 3
  ELSE IF x.at = "out" THEN IF x.n = p THEN 7 ELSE 2
  ELSE IF x.at = "chan" THEN IF x.n = p THEN 1 ELSE 6
  ELSE IF x.at = "buf" THEN IF x.n = p THEN 0 ELSE 5
  ELSE 4
Ahead(p, x, y) == Stage(p, x) < Stage(p, y) \/ (Stage(p, x) = Stage(p, y) /\ x.i < y.i)

\* M_FILE goes away from the file's sender, and its answers come back.
Outward(x, p) == IF x.at \in {"extra", "out"} THEN x.n = p ELSE x.n # p
Sides ==
  /\ \A f \in File, x \in Place, k \in About : Tells(x, k, f) => (k = "FILE" <=> Outward(x, Sender[f]))
  /\ \A f \in File, x \in Place : Holds(x, f) => /\ x.at = "queue" => x.n = Sender[f]
                                                 /\ x.at = "data" => x.n # Sender[f]
  /\ \A n \in Node : b[n].cur \in File => Sender[b[n].cur] = n

\* The file a mailer is sending (pi->send) is the last of its files on the way,
\* and if it is sending none then none is on the way.
Behind(f, c) == \A x \in Place : Live(x, f) =>
                   c # NoFile /\ \A y \in Place : Live(y, c) => Ahead(Sender[f], x, y)
CurLast == \A f \in File : f # b[Sender[f]].cur => Behind(f, b[Sender[f]].cur)

TInv == TypeInv /\ OnePlace /\ AckedKept /\ AnnouncedOpen /\ OpenOk /\ Sides /\ CurLast

-----------------------------------------------------------------------------
(* Two mailers, and records with one field changed                          *)

\* There are two mailers.
LEMMA TwoNodes ==
  ASSUME NEW p \in Node
  PROVE  /\ Peer(p) \in Node /\ Peer(p) # p /\ Peer(Peer(p)) = p
         /\ \A s \in Node : s = p \/ s = Peer(p)
BY NodeAssumption DEF Peer

\* The initial state.
LEMMA InitTypes == Init => TypeInv
<1> SUFFICES ASSUME Init PROVE TypeInv
  OBVIOUS
<1>1. PICK s \in Sessions : Init!(s)
  BY DEF Init
<1>2. s \in Session /\ s.queue \in [Node -> Seq(File)] /\ s.have \in [File -> Nat]
      /\ s.NR \in [Node -> BOOLEAN] /\ s.MB \in [Node -> BOOLEAN] /\ s.rx \in [Node -> SUBSET RxOutcome]
  BY FileAssumption DEF Session
<1>3. \A n \in Node : LocalOk(b[n])
  BY <1>1, <1>2, FileAssumption DEF LocalOk, Local, MaybeLetter
<1>4. b \in [Node -> Local]
  BY <1>1, <1>3 DEF LocalOk
<1>5. snd \in [File -> Sinfo] /\ rcv \in [File -> Rinfo]
  BY <1>1, <1>2 DEF Sinfo, Rinfo, SendStatus
<1>6. queue \in [Node -> Seq(File)] /\ chan \in [Node -> Seq(Letter)] /\ inbound \subseteq File /\ gone \subseteq File
  BY <1>1, <1>2
<1> QED
  BY <1>3, <1>4, <1>5, <1>6 DEF TypeInv

\* A record of Local with one field changed is one again.
LEMMA Put_pc == \A r \in Local : \A v \in {"top", "batch", "select", "recv", "write", "ended"} : [r EXCEPT !.pc = v] \in Local
BY DEF Local
LEMMA Put_phase == \A r \in Local : \A v \in {0, 2, 5, 100} : [r EXCEPT !.phase = v] \in Local
BY DEF Local
LEMMA Put_extra == \A r \in Local : \A v \in MaybeLetter : [r EXCEPT !.extra = v] \in Local
BY DEF Local
LEMMA Put_last == \A r \in Local : \A v \in BOOLEAN : [r EXCEPT !.last = v] \in Local
BY DEF Local
LEMMA Put_complete == \A r \in Local : \A v \in BOOLEAN : [r EXCEPT !.complete = v] \in Local
BY DEF Local
LEMMA Put_bsc == \A r \in Local : \A v \in Nat : [r EXCEPT !.bsc = v] \in Local
BY DEF Local
LEMMA Put_brc == \A r \in Local : \A v \in Nat : [r EXCEPT !.brc = v] \in Local
BY DEF Local
LEMMA Put_waitgot == \A r \in Local : \A v \in BOOLEAN : [r EXCEPT !.waitgot = v] \in Local
BY DEF Local
LEMMA Put_sent == \A r \in Local : \A v \in BOOLEAN : [r EXCEPT !.sent = v] \in Local
BY DEF Local
LEMMA Put_rcvd == \A r \in Local : \A v \in BOOLEAN : [r EXCEPT !.rcvd = v] \in Local
BY DEF Local
LEMMA Put_frs == \A r \in Local : \A v \in {"nothing", "data", "didget", "skipping"} : [r EXCEPT !.frs = v] \in Local
BY DEF Local
LEMMA Put_empty == \A r \in Local : \A v \in 0..9 : [r EXCEPT !.empty = v] \in Local
BY DEF Local
LEMMA Put_contsend == \A r \in Local : \A v \in BOOLEAN : [r EXCEPT !.contsend = v] \in Local
BY DEF Local
LEMMA Put_nomore == \A r \in Local : \A v \in BOOLEAN : [r EXCEPT !.nomore = v] \in Local
BY DEF Local
LEMMA Put_rc == \A r \in Local : \A v \in {"noerror", "error", "remote", "local"} : [r EXCEPT !.rc = v] \in Local
BY DEF Local
LEMMA Put_cur == \A r \in Local : \A v \in File \cup {NoFile} : [r EXCEPT !.cur = v] \in Local
BY DEF Local
LEMMA Put_recv == \A r \in Local : \A v \in File \cup {NoFile} : [r EXCEPT !.recv = v] \in Local
BY DEF Local
LEMMA Put_out == \A r \in Local : \A v \in MaybeLetter : [r EXCEPT !.out = v] \in Local
BY DEF Local
LEMMA Put_canwrite == \A r \in Local : \A v \in BOOLEAN : [r EXCEPT !.canwrite = v] \in Local
BY DEF Local
LEMMA Put_got == \A r \in Local : \A v \in {"none", "header", "block", "cut"} : [r EXCEPT !.got = v] \in Local
BY DEF Local
LEMMA Put_buf == \A r \in Local : \A v \in MaybeLetter : [r EXCEPT !.buf = v] \in Local
BY DEF Local
LEMMA Put_want == \A r \in Local : \A v \in {"none", "header", "body"} : [r EXCEPT !.want = v] \in Local
BY DEF Local

LEMMA FieldTypes ==
  ASSUME NEW r \in Local
  PROVE  /\ r.NR \in BOOLEAN /\ r.MB \in BOOLEAN /\ r.rx \subseteq RxOutcome
         /\ r.pc \in {"top", "batch", "select", "recv", "write", "ended"}
         /\ r.phase \in {0, 2, 5, 100}
         /\ r.extra \in MaybeLetter
         /\ r.last \in BOOLEAN
         /\ r.complete \in BOOLEAN
         /\ r.bsc \in Nat
         /\ r.brc \in Nat
         /\ r.waitgot \in BOOLEAN
         /\ r.sent \in BOOLEAN
         /\ r.rcvd \in BOOLEAN
         /\ r.frs \in {"nothing", "data", "didget", "skipping"}
         /\ r.empty \in 0..9
         /\ r.contsend \in BOOLEAN
         /\ r.nomore \in BOOLEAN
         /\ r.rc \in {"noerror", "error", "remote", "local"}
         /\ r.cur \in File \cup {NoFile}
         /\ r.recv \in File \cup {NoFile}
         /\ r.out \in MaybeLetter
         /\ r.canwrite \in BOOLEAN
         /\ r.got \in {"none", "header", "block", "cut"}
         /\ r.buf \in MaybeLetter
         /\ r.want \in {"none", "header", "body"}
BY DEF Local

\* Where a turn goes on says nothing but the program counter.
Runs(r) == r \in Local /\ (r.canwrite => r.out # NoMsg) /\ (r.frs = "data" => r.recv \in File)

LEMMA AfterOk ==
  ASSUME NEW r, Runs(r)
  PROVE  LocalOk(AfterGet(r)) /\ LocalOk(AfterRecv(r)) /\ LocalOk(AfterSelect(r))
<1>1. r \in Local
  BY DEF Runs
<1>2. LocalOk(AfterGet(r))
  BY <1>1 DEF Runs, LocalOk, AfterGet, Local
<1>3. LocalOk(AfterRecv(r))
  BY <1>1 DEF Runs, LocalOk, AfterRecv, Local
<1>4. LocalOk([r EXCEPT !.pc = "recv"])
  BY <1>1 DEF Runs, LocalOk, Local
<1> QED
  BY <1>2, <1>3, <1>4 DEF AfterSelect

\* A mailer's own state is sound between its steps.
LEMMA LocalRuns ==
  ASSUME TypeInv, NEW p \in Node
  PROVE  LocalOk(b[p]) /\ Runs(b[p]) /\ b[p] \in Local /\ Peer(p) \in Node
BY TwoNodes DEF TypeInv, LocalOk, Runs

\* The other mailer's state stays.
LEMMA BecomesOk ==
  ASSUME TypeInv, NEW p \in Node, NEW r, Becomes(p, r), LocalOk(r)
  PROVE  b' \in [Node -> Local] /\ \A n \in Node : LocalOk(b'[n])
BY DEF TypeInv, Becomes, LocalOk

\* A session may end at any time.
LEMMA EndsOk ==
  ASSUME TypeInv, NEW p \in Node, NEW c \in {"noerror", "error", "remote", "local"}, Ends(p, c)
  PROVE  b' \in [Node -> Local] /\ \A n \in Node : LocalOk(b'[n])
<1> DEFINE s == [b[p] EXCEPT !.pc = "ended", !.rc = c]
<1>1. s \in Local
  BY LocalRuns, Put_pc, Put_rc
<1>2. s.pc = "ended" /\ s.canwrite = b[p].canwrite /\ s.out = b[p].out /\ s.frs = b[p].frs /\ s.recv = b[p].recv
  BY LocalRuns DEF Local
<1>3. LocalOk(s)
  BY <1>1, <1>2, LocalRuns DEF LocalOk
<1> QED
  BY <1>3, BecomesOk DEF Ends

\* Nothing but the state of one mailer changes in many steps.
LEMMA OwnOk ==
  ASSUME TypeInv, UNCHANGED <<queue, snd, rcv, chan, inbound, gone>>,
         b' \in [Node -> Local], \A n \in Node : LocalOk(b'[n])
  PROVE  TypeInv'
BY DEF TypeInv

-----------------------------------------------------------------------------
(* Types are kept                                                           *)

\* Commands made here.
LEMMA Letters ==
  /\ \A f \in File, k \in Int : Block("FILE", f, k) \in Letter
  /\ \A f \in File, k \in Nat, n \in Nat : Data(f, k, n) \in Letter /\ Block("GET", f, k) \in Letter
  /\ \A f \in File : Block("GOT", f, 0) \in Letter /\ Block("SKIP", f, 0) \in Letter
  /\ Block("EOB", NoFile, 0) \in Letter /\ Block("ERR", NoFile, 0) \in Letter
  /\ Block("JUNK", NoFile, 0) \in Letter
  /\ NoMsg \notin Letter
BY DEF Letter, Msg, Cmds, About, Block, Data, NoMsg

\* What getforsend, the select and the receiver leave behind.
LEMMA SameSide ==
  ASSUME NEW r \in Local, NEW s \in Local, Runs(r),
         s.canwrite = r.canwrite /\ s.frs = r.frs /\ s.recv = r.recv,
         s.out # NoMsg \/ s.out = r.out
  PROVE  Runs(s)
BY DEF Runs

\* binkp_getforsend.
LEMMA StartRuns ==
  ASSUME TypeInv, NEW p \in Node
  PROVE  /\ Start(p) \in Local /\ Runs(Start(p))
         /\ Start(p) = [b[p] EXCEPT !.nomore = Start(p).nomore, !.contsend = FALSE]
<1> DEFINE r == Start(p)
<1>1. b[p] \in Local /\ Runs(b[p])
  BY LocalRuns
<1>2. NoMoreToSend(p) \in BOOLEAN
  BY <1>1, FieldTypes DEF NoMoreToSend
<1>3. r \in Local
  BY <1>1, <1>2, Put_nomore, Put_contsend DEF Start
<1>4. r.canwrite = b[p].canwrite /\ r.frs = b[p].frs /\ r.recv = b[p].recv /\ r.out = b[p].out
      /\ r.nomore = NoMoreToSend(p)
  BY <1>1 DEF Local, Start
<1> QED
  BY <1>1, <1>3, <1>4, SameSide DEF Start

LEMMA GetforsendTypes ==
  ASSUME TypeInv, NEW p \in Node, Getforsend(p) \/ LoopExit(p)
  PROVE  TypeInv'
<1> DEFINE r == Start(p)
<1>1. r \in Local /\ Runs(r)
  BY StartRuns
<1>0. b[p] \in Local /\ LocalOk(b[p]) /\ Runs(b[p])
  BY LocalRuns
<1>2. CASE LoopExit(p)
  <2>1. b[p].rc \in {"noerror", "error", "remote", "local"}
    BY <1>0, FieldTypes
  <2> QED
    BY <1>2, <2>1, EndsOk, OwnOk DEF LoopExit
<1>3. CASE GetNothing(p)
  BY <1>1, <1>3, AfterOk, BecomesOk, OwnOk DEF GetNothing
<1>4. CASE SendExtra(p)
  <2> DEFINE s == [r EXCEPT !.out = b[p].extra, !.extra = NoMsg,
                  !.phase = IF b[p].last THEN 100 ELSE @,
                  !.complete = @ \/ b[p].last]
  <2>1. b[p].extra \in MaybeLetter /\ b[p].last \in BOOLEAN /\ b[p].extra # NoMsg
    BY <1>0, <1>4, FieldTypes DEF SendExtra
  <2>2. r.phase \in {0, 2, 5, 100} /\ r.complete \in BOOLEAN /\ NoMsg \in MaybeLetter
    BY <1>1, FieldTypes DEF MaybeLetter
  <2>3. s = [r EXCEPT !.out = b[p].extra, !.extra = NoMsg, !.phase = IF b[p].last THEN 100 ELSE r.phase,
                  !.complete = r.complete \/ b[p].last]
    BY <1>1 DEF Local
  <2>4. s \in Local
    <3> DEFINE k == IF b[p].last THEN 100 ELSE r.phase
               c == r.complete \/ b[p].last
               s1 == [r EXCEPT !.out = b[p].extra]
               s2 == [s1 EXCEPT !.extra = NoMsg]
               s3 == [s2 EXCEPT !.phase = k]
    <3>1. k \in {0, 2, 5, 100} /\ c \in BOOLEAN
      BY <2>1, <2>2
    <3> HIDE DEF k, c, r
    <3>2. s1 \in Local
      BY <2>1, <1>1, Put_out
    <3> HIDE DEF s1
    <3>3. s2 \in Local
      BY <2>2, <3>2, Put_extra
    <3> HIDE DEF s2
    <3>4. s3 \in Local
      BY <3>1, <3>3, Put_phase
    <3> HIDE DEF s3
    <3>5. [s3 EXCEPT !.complete = c] \in Local
      BY <3>1, <3>4, Put_complete
    <3> QED
      BY <2>3, <3>5 DEF k, c, s1, s2, s3, r
  <2>5. s.out = b[p].extra /\ s.canwrite = r.canwrite /\ s.frs = r.frs /\ s.recv = r.recv
    BY <1>1 DEF Local
  <2>6. Runs(s)
    BY <2>1, <2>4, <2>5, <1>1, SameSide
  <2> QED
    BY <2>6, <1>4, AfterOk, BecomesOk, OwnOk DEF SendExtra
<1>5. CASE SendFile(p)
  <2> DEFINE f == Head(queue[p])
             m == Block("FILE", f, IF b[p].NR THEN -1 ELSE 0)
             s == [r EXCEPT !.cur = f, !.waitgot = TRUE, !.sent = TRUE, !.out = m,
                            !.phase = IF b[p].NR THEN 0 ELSE 2, !.nomore = b[p].NR]
  <2>1. f \in File /\ Tail(queue[p]) \in Seq(File)
    BY <1>5, HeadTailProperties DEF SendFile, TypeInv
  <2>2. m \in Letter /\ m # NoMsg /\ b[p].NR \in BOOLEAN
    <3>1. (IF b[p].NR THEN -1 ELSE 0) \in Int
      OBVIOUS
    <3>2. m \in Letter /\ NoMsg \notin Letter
      BY <2>1, <3>1, Letters
    <3> QED
      BY <3>2, <1>0, FieldTypes
  <2>3. s \in Local
    BY <2>1, <2>2, <1>1, Put_cur, Put_waitgot, Put_sent, Put_out, Put_phase, Put_nomore DEF MaybeLetter
  <2>4. s.out = m /\ s.canwrite = r.canwrite /\ s.frs = r.frs /\ s.recv = r.recv
    BY <1>1 DEF Local
  <2>5. Runs(s)
    BY <2>2, <2>3, <2>4, <1>1, SameSide
  <2>6. Becomes(p, AfterGet(s))
    BY <1>5 DEF SendFile
  <2>7. b' \in [Node -> Local] /\ \A n \in Node : LocalOk(b'[n])
    BY <2>5, <2>6, AfterOk, BecomesOk
  <2>8. snd' \in [File -> Sinfo] /\ queue' \in [Node -> Seq(File)]
    BY <1>5, <2>1 DEF SendFile, TypeInv, Sinfo, SendStatus
  <2> QED
    BY <2>7, <2>8, <1>5 DEF SendFile, TypeInv
<1>6. CASE SendEOB(p)
  <2> DEFINE m == Block("EOB", NoFile, 0)
             s == [r EXCEPT !.out = m, !.bsc = @ + 1, !.phase = 5]
  <2>1. m \in Letter /\ m # NoMsg /\ r.bsc + 1 \in Nat
    BY <1>1, Letters, FieldTypes
  <2>2. s = [r EXCEPT !.out = m, !.bsc = r.bsc + 1, !.phase = 5]
    BY <1>1 DEF Local
  <2>3. s \in Local
    BY <2>1, <2>2, <1>1, Put_out, Put_bsc, Put_phase DEF MaybeLetter
  <2>4. s.out = m /\ s.canwrite = r.canwrite /\ s.frs = r.frs /\ s.recv = r.recv
    BY <1>1 DEF Local
  <2>5. Runs(s)
    BY <2>1, <2>3, <2>4, <1>1, SameSide
  <2> QED
    BY <2>5, <1>6, AfterOk, BecomesOk, OwnOk DEF SendEOB
<1>7. CASE SendData(p)
  <2> DEFINE f == b[p].cur
             left == Real[f] - snd[f].pos
             k == IF left < Chunk THEN left ELSE Chunk
             m == Data(f, snd[f].pos, k)
             s == [r EXCEPT !.out = m]
  <2>1. f \in File /\ snd[f].pos < Real[f]
    BY <1>0, <1>7, FieldTypes DEF SendData
  <2>2. snd[f] \in Sinfo /\ snd[f].pos \in Nat
    BY <2>1 DEF TypeInv, Sinfo
  <2>3. k \in Nat
    BY <2>1, <2>2, FileAssumption, OptionAssumption
  <2>4. m \in Letter /\ m # NoMsg
    BY <2>1, <2>2, <2>3, Letters
  <2>5. s \in Local
    BY <2>4, <1>1, Put_out DEF MaybeLetter
  <2>6. s.out = m /\ s.canwrite = r.canwrite /\ s.frs = r.frs /\ s.recv = r.recv
    BY <1>1 DEF Local
  <2>7. Runs(s)
    BY <2>4, <2>5, <2>6, <1>1, SameSide
  <2>8. Becomes(p, AfterGet(s)) /\ snd' = [snd EXCEPT ![f].pos = @ + k]
    BY <1>7 DEF SendData
  <2>9. b' \in [Node -> Local] /\ \A n \in Node : LocalOk(b'[n])
    BY <2>7, <2>8, AfterOk, BecomesOk
  <2>10. [snd[f] EXCEPT !.pos = @ + k] \in Sinfo
    BY <2>2, <2>3 DEF Sinfo
  <2>11. snd' \in [File -> Sinfo]
    BY <2>1, <2>8, <2>10 DEF TypeInv
  <2> QED
    BY <2>9, <2>11, <1>7 DEF SendData, TypeInv
<1>8. CASE EndOfFile(p)
  <2> DEFINE f == b[p].cur
             s == [b[p] EXCEPT !.phase = 0]
  <2>1. f \in File
    BY <1>0, <1>8, FieldTypes DEF EndOfFile
  <2>2. s \in Local
    BY <1>0, Put_phase
  <2>3. LocalOk(s)
    <3>1. s.out = b[p].out /\ s.canwrite = b[p].canwrite /\ s.frs = b[p].frs /\ s.recv = b[p].recv
          /\ s.pc = b[p].pc /\ s.bsc = b[p].bsc /\ s.brc = b[p].brc
      BY <1>0 DEF Local
    <3> QED
      BY <3>1, <2>2, <1>0 DEF LocalOk
  <2>4. snd' = [snd EXCEPT ![f].status = "waitack"] /\ snd[f] \in Sinfo
    BY <1>8, <2>1 DEF EndOfFile, TypeInv
  <2>5. snd' \in [File -> Sinfo]
    BY <2>1, <2>4 DEF TypeInv, Sinfo, SendStatus
  <2>6. b' \in [Node -> Local] /\ \A n \in Node : LocalOk(b'[n])
    BY <2>3, <1>8, BecomesOk DEF EndOfFile
  <2> QED
    BY <2>5, <2>6, <1>8 DEF EndOfFile, TypeInv
<1>9. CASE ReadClosed(p)
  BY <1>9, EndsOk, OwnOk DEF ReadClosed
<1>10. CASE SendNothing(p)
  <2> DEFINE s == [r EXCEPT !.nomore = TRUE, !.complete = @ \/ b[p].phase = 100]
  <2>1. r.complete \in BOOLEAN
    BY <1>1, FieldTypes
  <2>2. s = [r EXCEPT !.nomore = TRUE, !.complete = r.complete \/ b[p].phase = 100]
    BY <1>1 DEF Local
  <2>3. s \in Local
    BY <2>1, <2>2, <1>1, Put_nomore, Put_complete
  <2>4. s.out = r.out /\ s.canwrite = r.canwrite /\ s.frs = r.frs /\ s.recv = r.recv
    BY <1>1 DEF Local
  <2>5. Runs(s)
    BY <2>3, <2>4, <1>1, SameSide
  <2> QED
    BY <2>5, <1>10, AfterOk, BecomesOk, OwnOk DEF SendNothing
<1> QED
  BY <1>2, <1>3, <1>4, <1>5, <1>6, <1>7, <1>8, <1>9, <1>10 DEF Getforsend

\* The middle of the loop.
LEMMA BatchTypes ==
  ASSUME TypeInv, NEW p \in Node, Batch(p)
  PROVE  TypeInv'
<1> DEFINE r == b[p]
<1>0. r \in Local /\ LocalOk(r) /\ Runs(r)
  BY LocalRuns
<1>1. CASE NextBatch(p)
  <2> DEFINE s == [r EXCEPT !.bsc = @ - 1, !.brc = @ - 1,
                     !.sent = FALSE, !.rcvd = FALSE, !.nomore = FALSE,
                     !.phase = 0, !.frs = "nothing", !.want = "header", !.pc = "top"]
  <2>1. r.bsc \in Nat /\ r.brc \in Nat /\ r.bsc > 0 /\ r.brc > 0
    BY <1>0, <1>1, FieldTypes DEF NextBatch, BatchOver, LocalOk
  <2>2. s = [r EXCEPT !.bsc = r.bsc - 1, !.brc = r.brc - 1,
                     !.sent = FALSE, !.rcvd = FALSE, !.nomore = FALSE,
                     !.phase = 0, !.frs = "nothing", !.want = "header", !.pc = "top"]
    BY <1>0 DEF Local
  <2>3. r.bsc - 1 \in Nat /\ r.brc - 1 \in Nat
    BY <2>1
  <2>4. [r EXCEPT !.bsc = r.bsc - 1, !.brc = r.brc - 1, !.sent = FALSE, !.rcvd = FALSE] \in Local
    BY <2>3, <1>0, Put_bsc, Put_brc, Put_sent, Put_rcvd
  <2>5. s \in Local
    BY <2>2, <2>4, Put_nomore, Put_phase, Put_frs, Put_want, Put_pc
  <2>6. s.out = r.out /\ s.canwrite = r.canwrite /\ s.frs = "nothing" /\ s.pc = "top"
    BY <1>0 DEF Local
  <2>7. LocalOk(s)
    BY <2>5, <2>6, <1>0 DEF LocalOk
  <2> QED
    BY <2>7, <1>1, BecomesOk, OwnOk DEF NextBatch
<1>2. CASE Complete(p)
  <2> DEFINE s == [r EXCEPT !.complete = TRUE, !.want = "none", !.pc = "select"]
  <2>1. s \in Local
    BY <1>0, Put_complete, Put_want, Put_pc
  <2>2. s.out = r.out /\ s.canwrite = r.canwrite /\ s.frs = r.frs /\ s.recv = r.recv /\ s.pc = "select"
    BY <1>0 DEF Local
  <2>3. LocalOk(s)
    BY <2>1, <2>2, <1>0 DEF LocalOk
  <2> QED
    BY <2>3, <1>2, BecomesOk, OwnOk DEF Complete
<1>3. CASE AwaitGot(p)
  <2> DEFINE s == [r EXCEPT !.pc = "select"]
  <2>1. s \in Local
    BY <1>0, Put_pc
  <2>2. s.out = r.out /\ s.canwrite = r.canwrite /\ s.frs = r.frs /\ s.recv = r.recv /\ s.pc = "select"
    BY <1>0 DEF Local
  <2>3. LocalOk(s)
    BY <2>1, <2>2, <1>0 DEF LocalOk
  <2> QED
    BY <2>3, <1>3, BecomesOk, OwnOk DEF AwaitGot
<1> QED
  BY <1>1, <1>2, <1>3 DEF Batch

\* tty_select, tty_read and tty_write.
LEMMA TransportTypes ==
  ASSUME TypeInv, NEW p \in Node, Transport(p)
  PROVE  TypeInv'
<1> DEFINE r == b[p]
<1>0. r \in Local /\ LocalOk(r) /\ Runs(r) /\ Peer(p) \in Node
  BY LocalRuns
<1>1. ASSUME NEW w \in {FALSE, CanWrite(p)} PROVE w \in BOOLEAN /\ (w => r.out # NoMsg)
  BY DEF CanWrite
<1>2. chan[p] \in Seq(Letter) /\ (chan[p] # <<>> => Head(chan[p]) \in Letter /\ Tail(chan[p]) \in Seq(Letter))
  BY HeadTailProperties DEF TypeInv
<1>3. CASE ReadHeader(p)
  <2>1. PICK w \in {FALSE, CanWrite(p)} :
          Becomes(p, AfterSelect([r EXCEPT !.got = "header", !.want = "body", !.canwrite = w]))
    BY <1>3 DEF ReadHeader
  <2> DEFINE s == [r EXCEPT !.got = "header", !.want = "body", !.canwrite = w]
  <2>2. s \in Local
    BY <1>0, <1>1, Put_got, Put_want, Put_canwrite
  <2>3. s.out = r.out /\ s.canwrite = w /\ s.frs = r.frs /\ s.recv = r.recv
    BY <1>0 DEF Local
  <2>4. Runs(s)
    BY <2>2, <2>3, <1>0, <1>1 DEF Runs
  <2> QED
    BY <2>1, <2>4, <1>3, AfterOk, BecomesOk, OwnOk DEF ReadHeader
<1>4. CASE ReadBody(p)
  <2>1. PICK w \in {FALSE, CanWrite(p)} :
          Becomes(p, AfterSelect([r EXCEPT !.got = "block", !.want = "none", !.buf = Head(chan[p]), !.canwrite = w]))
    BY <1>4 DEF ReadBody
  <2> DEFINE s == [r EXCEPT !.got = "block", !.want = "none", !.buf = Head(chan[p]), !.canwrite = w]
  <2>2. chan[p] # <<>> /\ Head(chan[p]) \in MaybeLetter
    BY <1>2, <1>4 DEF ReadBody, MaybeLetter
  <2>3. s \in Local
    BY <1>0, <1>1, <2>2, Put_got, Put_want, Put_buf, Put_canwrite
  <2>4. s.out = r.out /\ s.canwrite = w /\ s.frs = r.frs /\ s.recv = r.recv
    BY <1>0 DEF Local
  <2>5. Runs(s)
    BY <2>3, <2>4, <1>0, <1>1 DEF Runs
  <2>6. b' \in [Node -> Local] /\ \A n \in Node : LocalOk(b'[n])
    BY <2>1, <2>5, AfterOk, BecomesOk
  <2>7. chan' \in [Node -> Seq(Letter)]
    BY <1>2, <1>4, <2>2 DEF ReadBody, TypeInv
  <2> QED
    BY <2>6, <2>7, <1>4 DEF ReadBody, TypeInv
<1>5. CASE ReadAstray(p)
  <2>1. PICK w \in {FALSE, CanWrite(p)} :
          Becomes(p, AfterSelect([r EXCEPT !.got = IF @ = "header" THEN "cut" ELSE @,
                                   !.want = "none", !.canwrite = w]))
    BY <1>5 DEF ReadAstray
  <2> DEFINE g == IF r.got = "header" THEN "cut" ELSE r.got
             s == [r EXCEPT !.got = g, !.want = "none", !.canwrite = w]
  <2>2. g \in {"none", "header", "block", "cut"}
    BY <1>0, FieldTypes
  <2>3. s \in Local
    BY <1>0, <1>1, <2>2, Put_got, Put_want, Put_canwrite
  <2>4. s.out = r.out /\ s.canwrite = w /\ s.frs = r.frs /\ s.recv = r.recv
    BY <1>0 DEF Local
  <2>5. Runs(s)
    BY <2>3, <2>4, <1>0, <1>1 DEF Runs
  <2>6. b' \in [Node -> Local] /\ \A n \in Node : LocalOk(b'[n])
    BY <2>1, <2>5, AfterOk, BecomesOk
  <2>7. chan' = [chan EXCEPT ![p][1] = Block("JUNK", NoFile, 0)] /\ chan[p] # <<>>
    BY <1>5 DEF ReadAstray
  <2>8. [chan[p] EXCEPT ![1] = Block("JUNK", NoFile, 0)] \in Seq(Letter)
    <3>1. 1 \in 1..Len(chan[p])
      BY <1>2, <2>7, EmptySeq
    <3> QED
      BY <1>2, <3>1, Letters, ExceptSeq
  <2>9. chan' \in [Node -> Seq(Letter)]
    BY <2>7, <2>8 DEF TypeInv
  <2> QED
    BY <2>6, <2>9, <1>5 DEF ReadAstray, TypeInv
<1>6. CASE ReadShutdown(p)
  BY <1>6, EndsOk, OwnOk DEF ReadShutdown
<1>7. CASE OnlyWrite(p)
  <2> DEFINE s == [r EXCEPT !.canwrite = TRUE]
  <2>1. s \in Local
    BY <1>0, Put_canwrite
  <2>2. s.out = r.out /\ s.canwrite = TRUE /\ s.frs = r.frs /\ s.recv = r.recv
    BY <1>0 DEF Local
  <2>3. Runs(s)
    BY <2>1, <2>2, <1>0, <1>7 DEF Runs, OnlyWrite, CanWrite
  <2> QED
    BY <2>3, <1>7, AfterOk, BecomesOk, OwnOk DEF OnlyWrite
<1>8. CASE EmptyLoop(p)
  <2> DEFINE k == IF DEBUG THEN r.empty + 1 ELSE r.empty
             s == [r EXCEPT !.empty = k]
  <2>1. CASE k = 10
    BY <2>1, <1>8, EndsOk, OwnOk DEF EmptyLoop
  <2>2. CASE k # 10
    <3>1. r.empty \in 0..9
      BY <1>0, FieldTypes
    <3>2. k \in 0..9
      BY <3>1, <2>2
    <3>3. s \in Local
      BY <1>0, <3>2, Put_empty
    <3>4. s.out = r.out /\ s.canwrite = r.canwrite /\ s.frs = r.frs /\ s.recv = r.recv
      BY <1>0 DEF Local
    <3>5. Runs(s)
      BY <3>3, <3>4, <1>0, SameSide
    <3>6. Becomes(p, AfterSelect(s))
      BY <1>8, <2>2 DEF EmptyLoop
    <3> QED
      BY <3>5, <3>6, <1>8, AfterOk, BecomesOk, OwnOk DEF EmptyLoop
  <2> QED
    BY <2>1, <2>2
<1>9. CASE Timeout(p)
  BY <1>9, EndsOk, OwnOk DEF Timeout
<1>10. CASE Write(p)
  <2> DEFINE s == [r EXCEPT !.out = NoMsg, !.canwrite = FALSE, !.pc = "top"]
  <2>1. NoMsg \in MaybeLetter /\ r.out \in Letter
    BY <1>0, <1>10, FieldTypes DEF MaybeLetter, Write, LocalOk
  <2>2. s \in Local
    BY <1>0, <2>1, Put_out, Put_canwrite, Put_pc
  <2>3. s.canwrite = FALSE /\ s.pc = "top" /\ s.frs = r.frs /\ s.recv = r.recv
    BY <1>0 DEF Local
  <2>4. LocalOk(s)
    BY <2>2, <2>3, <1>0 DEF LocalOk
  <2>5. b' \in [Node -> Local] /\ \A n \in Node : LocalOk(b'[n])
    BY <2>4, <1>10, BecomesOk DEF Write
  <2>6. Append(chan[Peer(p)], r.out) \in Seq(Letter)
    BY <1>0, <2>1, AppendProperties DEF TypeInv
  <2>7. chan' \in [Node -> Seq(Letter)]
    BY <1>0, <1>10, <2>6 DEF Write, TypeInv
  <2> QED
    BY <2>5, <2>7, <1>10 DEF Write, TypeInv
<1>11. CASE WriteFails(p)
  BY <1>11, EndsOk, OwnOk DEF WriteFails
<1> QED
  BY <1>3, <1>4, <1>5, <1>6, <1>7, <1>8, <1>9, <1>10, <1>11 DEF Transport

\* A block accepted leaves the rest of the state it was given.
LEMMA AcceptsOk ==
  ASSUME TypeInv, NEW p \in Node, NEW r, Runs(r), Accepts(p, r)
  PROVE  b' \in [Node -> Local] /\ \A n \in Node : LocalOk(b'[n])
<1> DEFINE s == [r EXCEPT !.got = "none", !.buf = NoMsg, !.want = "header"]
<1>1. r \in Local /\ NoMsg \in MaybeLetter
  BY DEF Runs, MaybeLetter
<1>2. s \in Local
  BY <1>1, Put_got, Put_buf, Put_want
<1>3. s.out = r.out /\ s.canwrite = r.canwrite /\ s.frs = r.frs /\ s.recv = r.recv
  BY <1>1 DEF Local
<1>4. Runs(s)
  BY <1>1, <1>2, <1>3, SameSide
<1> QED
  BY <1>4, AfterOk, BecomesOk DEF Accepts

LEMMA KeepsOk ==
  ASSUME TypeInv, NEW p \in Node, Keeps(p)
  PROVE  b' \in [Node -> Local] /\ \A n \in Node : LocalOk(b'[n])
<1> DEFINE k == b[p].rcvd \/ Whole(p, "FILE")
           s == [b[p] EXCEPT !.rcvd = k]
<1>1. b[p] \in Local /\ Runs(b[p])
  BY LocalRuns
<1>2. k \in BOOLEAN
  BY <1>1, FieldTypes DEF Whole
<1>3. s \in Local
  BY <1>1, <1>2, Put_rcvd
<1>4. s.out = b[p].out /\ s.canwrite = b[p].canwrite /\ s.frs = b[p].frs /\ s.recv = b[p].recv
  BY <1>1 DEF Local
<1>5. Runs(s)
  BY <1>1, <1>3, <1>4, SameSide
<1>6. Becomes(p, AfterRecv(s))
  BY DEF Keeps
<1> QED
  BY <1>5, <1>6, AfterOk, BecomesOk

\* PROTO_ERROR, and an answer left in extracmd.
LEMMA ErrorRuns ==
  ASSUME NEW r, Runs(r)
  PROVE  Runs(PROTO_ERROR(r))
<1> DEFINE m == Block("ERR", NoFile, 0)
           s == [r EXCEPT !.rc = "local", !.extra = m, !.last = TRUE]
<1>1. r \in Local /\ m \in MaybeLetter
  BY Letters DEF Runs, MaybeLetter
<1>2. s \in Local
  BY <1>1, Put_rc, Put_extra, Put_last
<1>3. s.out = r.out /\ s.canwrite = r.canwrite /\ s.frs = r.frs /\ s.recv = r.recv
  BY <1>1 DEF Local
<1> QED
  BY <1>1, <1>2, <1>3, SameSide DEF PROTO_ERROR

LEMMA ExtraRuns ==
  ASSUME NEW r, Runs(r), NEW m \in Letter
  PROVE  Runs(WithExtra(r, m))
<1> DEFINE s == [r EXCEPT !.extra = m, !.last = FALSE]
<1>1. r \in Local /\ m \in MaybeLetter
  BY DEF Runs, MaybeLetter
<1>2. s \in Local
  BY <1>1, Put_extra, Put_last
<1>3. s.out = r.out /\ s.canwrite = r.canwrite /\ s.frs = r.frs /\ s.recv = r.recv
  BY <1>1 DEF Local
<1> QED
  BY <1>1, <1>2, <1>3, SameSide DEF WithExtra

\* The receiver's state: another command of the batch, another state.
LEMMA PutRuns ==
  ASSUME NEW r, Runs(r)
  PROVE  /\ Runs([r EXCEPT !.rcvd = TRUE])
         /\ \A f \in File : Runs([r EXCEPT !.recv = f])
         /\ \A c \in {"nothing", "didget", "skipping"} : Runs([r EXCEPT !.frs = c])
         /\ r.recv \in File => Runs([r EXCEPT !.frs = "data"])
<1>1. r \in Local
  BY DEF Runs
<1>2. Runs([r EXCEPT !.rcvd = TRUE])
  <2> DEFINE s == [r EXCEPT !.rcvd = TRUE]
  <2>1. s \in Local
    BY <1>1, Put_rcvd
  <2>2. s.out = r.out /\ s.canwrite = r.canwrite /\ s.frs = r.frs /\ s.recv = r.recv
    BY <1>1 DEF Local
  <2> QED
    BY <1>1, <2>1, <2>2, SameSide
<1>3. ASSUME NEW f \in File PROVE Runs([r EXCEPT !.recv = f])
  <2> DEFINE s == [r EXCEPT !.recv = f]
  <2>1. s \in Local
    BY <1>1, Put_recv
  <2>2. s.out = r.out /\ s.canwrite = r.canwrite /\ s.recv = f
    BY <1>1 DEF Local
  <2> QED
    BY <2>1, <2>2 DEF Runs
<1>4. ASSUME NEW c \in {"nothing", "data", "didget", "skipping"}, c = "data" => r.recv \in File
      PROVE Runs([r EXCEPT !.frs = c])
  <2> DEFINE s == [r EXCEPT !.frs = c]
  <2>1. s \in Local
    BY <1>1, Put_frs
  <2>2. s.out = r.out /\ s.canwrite = r.canwrite /\ s.recv = r.recv /\ s.frs = c
    BY <1>1 DEF Local
  <2> QED
    BY <2>1, <2>2, <1>4 DEF Runs
<1> QED
  BY <1>2, <1>3, <1>4

\* The file of a whole block.
LEMMA WholeBlock ==
  ASSUME TypeInv, NEW p \in Node, NEW c \in About \cup {"DATA"}, Whole(p, c)
  PROVE  /\ b[p].buf \in Letter /\ FileOf(p) \in File /\ OffsOf(p) \in Int /\ b[p].buf.len \in Nat
         /\ c = "GET" => OffsOf(p) \in Nat
<1>1. b[p].buf \in MaybeLetter
  BY LocalRuns, FieldTypes
<1>2. b[p].buf.cmd = c /\ c # NoMsg.cmd
  BY DEF Whole, NoMsg, Block, About
<1> QED
  BY <1>1, <1>2 DEF MaybeLetter, Letter, Msg, FileOf, OffsOf

\* The state after M_FILE.
LEMMA ReplyRuns ==
  ASSUME TypeInv, NEW p \in Node, NEW f \in File, NEW d
  PROVE  Runs(Reply(p, f, d))
<1> DEFINE s == [b[p] EXCEPT !.rcvd = TRUE, !.recv = f]
           k == Fopened(p, f, d).skip
<1>1. Runs([b[p] EXCEPT !.rcvd = TRUE])
  BY LocalRuns, PutRuns
<1>2. Runs(s)
  BY <1>1, PutRuns
<1>3. s.recv = f
  BY LocalRuns DEF Local
<1>4. k \in Nat
  <2>1. rcv[f] \in Rinfo
    BY DEF TypeInv
  <2>2. rcv[f].skip \in Nat /\ rcv[f].bytes \in Nat
    BY <2>1 DEF Rinfo
  <2> QED
    BY <2>1, <2>2 DEF Fopened, Rinfo
<1>5. Runs([s EXCEPT !.frs = "data"])
  BY <1>2, <1>3, PutRuns
<1>6. Runs([WithExtra(s, Block("GET", f, k)) EXCEPT !.frs = "didget"])
  BY <1>2, <1>4, Letters, ExtraRuns, PutRuns
<1>7. \A c \in {"SKIP", "GOT"} : Runs([WithExtra(s, Block(c, f, 0)) EXCEPT !.frs = "skipping"])
  BY <1>2, Letters, ExtraRuns, PutRuns
<1> QED
  BY <1>5, <1>6, <1>7 DEF Reply

\* What opening a file and writing a block make of the receiver's record.
LEMMA RxTypes ==
  ASSUME TypeInv, NEW p \in Node
  PROVE  /\ \A f \in File : rcv[f] \in Rinfo
         /\ \A f \in File, d \in {"open", "refuse", "skip", "move"} : Fopened(p, f, d) \in Rinfo
         /\ Storing(p) => /\ b[p].recv \in File /\ Appended(p) \in Rinfo
                          /\ \A s \in SendStatus, o \in BOOLEAN :
                               [Appended(p) EXCEPT !.status = s, !.open = o] \in Rinfo
<1>1. \A f \in File : rcv[f] \in Rinfo
  BY DEF TypeInv
<1>2. ASSUME NEW f \in File, NEW d \in {"open", "refuse", "skip", "move"}
      PROVE Fopened(p, f, d) \in Rinfo
  BY <1>1 DEF Fopened, Rinfo, SendStatus
<1>3. ASSUME Storing(p)
      PROVE  /\ b[p].recv \in File /\ Appended(p) \in Rinfo
             /\ \A s \in SendStatus, o \in BOOLEAN :
                  [Appended(p) EXCEPT !.status = s, !.open = o] \in Rinfo
  <2> DEFINE f == b[p].recv
             g == rcv[f].good /\ FileOf(p) = f /\ OffsOf(p) = rcv[f].bytes
             a == [rcv[f] EXCEPT !.bytes = rcv[f].bytes + b[p].buf.len, !.good = g]
  <2>1. f \in File /\ b[p].buf.len \in Nat
    BY <1>3, LocalRuns, WholeBlock DEF Storing, Runs
  <2>2. rcv[f] \in Rinfo
    BY <1>1, <2>1
  <2>3. rcv[f].bytes + b[p].buf.len \in Nat /\ g \in BOOLEAN
    BY <2>1, <2>2 DEF Rinfo
  <2>4. a \in Rinfo
    BY <2>2, <2>3 DEF Rinfo
  <2>5. Appended(p) = a
    BY <2>2 DEF Appended, Rinfo
  <2>6. Appended(p) \in Rinfo
    BY <2>4, <2>5
  <2>7. \A s \in SendStatus, o \in BOOLEAN : [Appended(p) EXCEPT !.status = s, !.open = o] \in Rinfo
    BY <2>6 DEF Rinfo
  <2> QED
    BY <2>1, <2>6, <2>7
<1> QED
  BY <1>1, <1>2, <1>3

\* binkp_doreceiveblock.
LEMMA ReceiveTypes ==
  ASSUME TypeInv, NEW p \in Node, Doreceiveblock(p)
  PROVE  TypeInv'
<1> DEFINE r == b[p]
<1>0. r \in Local /\ LocalOk(r) /\ Runs(r) /\ Runs([r EXCEPT !.rcvd = TRUE])
  BY LocalRuns, PutRuns
<1>1. CASE HeaderOnly(p)
  BY <1>0, <1>1, ErrorRuns, AcceptsOk, OwnOk DEF HeaderOnly
<1>2. CASE BrokenBlock(p)
  BY <1>0, <1>2, ErrorRuns, AcceptsOk, OwnOk DEF BrokenBlock
<1>3. CASE FileError(p)
  BY <1>0, <1>3, ErrorRuns, AcceptsOk, OwnOk DEF FileError
<1>4. CASE FileAfterGet(p)
  <2>1. FileOf(p) \in File
    BY <1>4, WholeBlock DEF FileAfterGet, About
  <2>2. CASE Wanted(p) /\ Accepts(p, [r EXCEPT !.rcvd = TRUE, !.frs = "data"])
    <3>1. [r EXCEPT !.rcvd = TRUE].recv \in File
      BY <2>1, <2>2, <1>0 DEF Wanted, Local
    <3>2. Runs([r EXCEPT !.rcvd = TRUE, !.frs = "data"])
      BY <3>1, <1>0, PutRuns
    <3> QED
      BY <3>2, <2>2, <1>4, AcceptsOk, OwnOk DEF FileAfterGet
  <2>3. CASE Keeps(p)
    BY <2>3, <1>4, KeepsOk, OwnOk DEF FileAfterGet
  <2>4. CASE Accepts(p, WithExtra([r EXCEPT !.rcvd = TRUE], Block("SKIP", FileOf(p), 0)))
    BY <2>1, <2>4, <1>0, <1>4, Letters, ExtraRuns, AcceptsOk, OwnOk DEF FileAfterGet
  <2> QED
    BY <1>4, <2>2, <2>3, <2>4 DEF FileAfterGet
<1>5. CASE FileOpen(p)
  <2> DEFINE f == FileOf(p)
  <2>1. PICK d \in FopenResults(p, f) :
           /\ rcv' = [rcv EXCEPT ![f] = Fopened(p, f, d)]
           /\ inbound' = IF d = "move" THEN inbound \cup {f} ELSE inbound
           /\ Accepts(p, Reply(p, f, d))
    BY <1>5 DEF FileOpen
  <2>2. f \in File
    BY <1>5, WholeBlock DEF FileOpen, About
  <2>3. d \in {"open", "refuse", "skip", "move"}
    BY <2>1 DEF FopenResults
  <2>4. Fopened(p, f, d) \in Rinfo
    BY <2>2, <2>3, RxTypes
  <2>5. b' \in [Node -> Local] /\ \A n \in Node : LocalOk(b'[n])
    BY <2>1, <2>2, ReplyRuns, AcceptsOk
  <2>6. rcv' \in [File -> Rinfo] /\ inbound' \subseteq File
    BY <2>1, <2>2, <2>4 DEF TypeInv
  <2> QED
    BY <2>5, <2>6, <1>5 DEF FileOpen, TypeInv
<1>6. CASE Suspend(p)
  BY <1>6, KeepsOk, OwnOk DEF Suspend
<1>7. CASE ReceiveEOB(p)
  <2> DEFINE s == [r EXCEPT !.brc = r.brc + 1]
  <2>1. r.brc + 1 \in Nat
    BY <1>0, FieldTypes
  <2>2. s \in Local
    BY <2>1, <1>0, Put_brc
  <2>3. s.out = r.out /\ s.canwrite = r.canwrite /\ s.frs = r.frs /\ s.recv = r.recv
    BY <1>0 DEF Local
  <2>4. Runs(s)
    BY <2>2, <2>3, <1>0, SameSide
  <2> QED
    BY <2>4, <1>7, AcceptsOk, OwnOk DEF ReceiveEOB
<1>8. CASE ReceiveERR(p)
  <2> DEFINE s == [r EXCEPT !.rc = "remote", !.complete = TRUE]
  <2>1. s \in Local
    BY <1>0, Put_rc, Put_complete
  <2>2. s.out = r.out /\ s.canwrite = r.canwrite /\ s.frs = r.frs /\ s.recv = r.recv
    BY <1>0 DEF Local
  <2>3. Runs(s)
    BY <2>1, <2>2, <1>0, SameSide
  <2> QED
    BY <2>3, <1>8, AfterOk, BecomesOk, OwnOk DEF ReceiveERR
<1>9. CASE Ack(p)
  <2> DEFINE f == FileOf(p)
             s == [snd EXCEPT ![f].status = AckStatus(p), ![f].open = FALSE]
             c == IF Aborts(p) THEN NoFile ELSE r.cur
             h == IF Aborts(p) THEN 0 ELSE r.phase
             w == r.waitgot /\ ~AllConfirmed(p, s)
             t == [r EXCEPT !.cur = c, !.phase = h, !.waitgot = w]
  <2>1. f \in File
    BY <1>9, WholeBlock DEF Ack, IsAck, About
  <2>2. c \in File \cup {NoFile} /\ h \in {0, 2, 5, 100} /\ w \in BOOLEAN
    BY <1>0, FieldTypes
  <2>3. t \in Local
    <3>1. [r EXCEPT !.cur = c] \in Local
      BY <2>2, <1>0, Put_cur
    <3>2. [r EXCEPT !.cur = c, !.phase = h] \in Local
      BY <2>2, <3>1, Put_phase
    <3> QED
      BY <2>2, <3>2, Put_waitgot
  <2>4. t.out = r.out /\ t.canwrite = r.canwrite /\ t.frs = r.frs /\ t.recv = r.recv
    BY <1>0 DEF Local
  <2>5. Runs(t)
    BY <2>3, <2>4, <1>0, SameSide
  <2>6. Accepts(p, t) /\ snd' = s /\ gone' = IF AckStatus(p) \in Stored THEN gone \cup {f} ELSE gone
    BY <1>9 DEF Ack
  <2>7. AckStatus(p) \in SendStatus
    BY DEF AckStatus, SendStatus
  <2>8. snd' \in [File -> Sinfo] /\ gone' \subseteq File
    BY <2>1, <2>6, <2>7 DEF TypeInv, Sinfo
  <2>9. b' \in [Node -> Local] /\ \A n \in Node : LocalOk(b'[n])
    BY <2>5, <2>6, AcceptsOk
  <2> QED
    BY <2>8, <2>9, <1>9 DEF Ack, TypeInv
<1>10. CASE GetHere(p) \/ GetRewind(p)
  <2> DEFINE f == FileOf(p)
             k == OffsOf(p)
  <2>1. f \in File /\ k \in Nat
    BY <1>10, WholeBlock DEF GetHere, GetRewind, About
  <2>2. ASSUME NEW s, Runs(s) PROVE Runs(Resent(p, s))
    <3> DEFINE e == WithExtra(s, Block("FILE", f, k))
               t == [e EXCEPT !.phase = 2, !.contsend = TRUE]
    <3>1. Runs(e)
      BY <2>1, <2>2, Letters, ExtraRuns
    <3>2. e \in Local
      BY <3>1 DEF Runs
    <3>3. t \in Local
      BY <3>2, Put_phase, Put_contsend
    <3>4. t.out = e.out /\ t.canwrite = e.canwrite /\ t.frs = e.frs /\ t.recv = e.recv
      BY <3>2 DEF Local
    <3> QED
      BY <3>1, <3>2, <3>3, <3>4, SameSide DEF Resent
  <2>3. CASE GetHere(p)
    BY <2>2, <2>3, <1>0, AcceptsOk, OwnOk DEF GetHere
  <2>4. CASE GetRewind(p)
    <3> DEFINE w == r.waitgot \/ r.cur # f
               s == [r EXCEPT !.cur = f, !.waitgot = w]
    <3>1. w \in BOOLEAN
      BY <1>0, FieldTypes
    <3>2. s \in Local
      BY <3>1, <2>1, <1>0, Put_cur, Put_waitgot
    <3>3. s.out = r.out /\ s.canwrite = r.canwrite /\ s.frs = r.frs /\ s.recv = r.recv
      BY <1>0 DEF Local
    <3>4. Runs(s)
      BY <3>2, <3>3, <1>0, SameSide
    <3>5. s = [r EXCEPT !.cur = f, !.waitgot = @ \/ r.cur # f]
      BY <1>0 DEF Local
    <3>6. b' \in [Node -> Local] /\ \A n \in Node : LocalOk(b'[n])
      BY <3>4, <3>5, <2>2, <2>4, AcceptsOk DEF GetRewind
    <3>7. snd[f] \in Sinfo /\ snd' = [snd EXCEPT ![f].pos = k, ![f].status = IF r.cur = f THEN @ ELSE "process"]
      BY <2>1, <2>4 DEF GetRewind, TypeInv
    <3>8. [snd[f] EXCEPT !.pos = k, !.status = IF r.cur = f THEN @ ELSE "process"] \in Sinfo
      BY <2>1, <3>7 DEF Sinfo, SendStatus
    <3>9. snd' \in [File -> Sinfo]
      BY <2>1, <3>7, <3>8 DEF TypeInv
    <3> QED
      BY <3>6, <3>9, <2>4 DEF GetRewind, TypeInv
  <2> QED
    BY <1>10, <2>3, <2>4
<1>11. CASE DataError(p)
  BY <1>0, <1>11, ErrorRuns, AcceptsOk, OwnOk DEF DataError
<1>12. CASE DataDropped(p)
  BY <1>0, <1>12, AcceptsOk, OwnOk DEF DataDropped
<1>13. CASE DataStored(p)
  <2>1. b' \in [Node -> Local] /\ \A n \in Node : LocalOk(b'[n])
    BY <1>0, <1>13, AcceptsOk DEF DataStored
  <2>2. rcv' \in [File -> Rinfo]
    BY <1>13, RxTypes DEF DataStored, TypeInv
  <2> QED
    BY <2>1, <2>2, <1>13 DEF DataStored, TypeInv
<1>14. CASE FileStored(p)
  <2> DEFINE f == r.recv
  <2>1. Storing(p) /\ f \in File
    BY <1>14, RxTypes DEF FileStored
  <2>2. Runs(WithExtra([r EXCEPT !.frs = "nothing"], Block("GOT", f, 0)))
    BY <2>1, <1>0, PutRuns, ExtraRuns, Letters
  <2>3. b' \in [Node -> Local] /\ \A n \in Node : LocalOk(b'[n])
    BY <2>2, <1>14, AcceptsOk DEF FileStored
  <2>4. [Appended(p) EXCEPT !.status = "success", !.open = FALSE] \in Rinfo
    BY <2>1, RxTypes DEF SendStatus
  <2>5. rcv' \in [File -> Rinfo] /\ inbound' \subseteq File
    BY <2>1, <2>4, <1>14 DEF FileStored, TypeInv
  <2>6. queue[p] \o Answers[f] \in Seq(File)
    BY <2>1, FileAssumption, ConcatProperties DEF TypeInv
  <2>7. queue' \in [Node -> Seq(File)]
    BY <2>6, <1>14 DEF FileStored, TypeInv
  <2> QED
    BY <2>3, <2>5, <2>7, <1>14 DEF FileStored, TypeInv
<1>15. CASE CloseFails(p)
  <2> DEFINE f == r.recv
  <2>1. Storing(p) /\ f \in File
    BY <1>15, RxTypes DEF CloseFails
  <2>2. Runs(WithExtra([r EXCEPT !.frs = "nothing"], Block("SKIP", f, 0)))
    BY <2>1, <1>0, PutRuns, ExtraRuns, Letters
  <2>3. b' \in [Node -> Local] /\ \A n \in Node : LocalOk(b'[n])
    BY <2>2, <1>15, AcceptsOk DEF CloseFails
  <2>4. [Appended(p) EXCEPT !.status = "refused", !.open = FALSE] \in Rinfo
    BY <2>1, RxTypes DEF SendStatus
  <2>5. rcv' \in [File -> Rinfo]
    BY <2>1, <2>4, <1>15 DEF CloseFails, TypeInv
  <2> QED
    BY <2>3, <2>5, <1>15 DEF CloseFails, TypeInv
<1>16. CASE TooMuchData(p)
  <2> DEFINE f == r.recv
  <2>1. Storing(p) /\ f \in File
    BY <1>16, RxTypes DEF TooMuchData
  <2>2. Runs(PROTO_ERROR([r EXCEPT !.frs = "skipping"]))
    BY <2>1, <1>0, PutRuns, ErrorRuns
  <2>3. b' \in [Node -> Local] /\ \A n \in Node : LocalOk(b'[n])
    BY <2>2, <1>16, AcceptsOk DEF TooMuchData
  <2>4. [Appended(p) EXCEPT !.status = "refused", !.open = FALSE] \in Rinfo
    BY <2>1, RxTypes DEF SendStatus
  <2>5. rcv' \in [File -> Rinfo]
    BY <2>1, <2>4, <1>16 DEF TooMuchData, TypeInv
  <2> QED
    BY <2>3, <2>5, <1>16 DEF TooMuchData, TypeInv
<1>17. CASE DataFails(p)
  <2> DEFINE f == r.recv
  <2>1. Storing(p) /\ f \in File
    BY <1>17, RxTypes DEF DataFails
  <2>2. PICK o \in {"werror", "vanish"} :
           /\ rcv' = [rcv EXCEPT ![f].open = FALSE,
                          ![f].status = IF o = "werror" THEN "refused" ELSE "skipped",
                          ![f].bytes = IF o = "werror" THEN @ ELSE 0,
                          ![f].good = (o = "vanish") \/ @]
           /\ Accepts(p, WithExtra([r EXCEPT !.frs = "skipping"],
                             Block(IF o = "werror" THEN "SKIP" ELSE "GOT", f, 0)))
    BY <1>17 DEF DataFails
  <2>3. Block(IF o = "werror" THEN "SKIP" ELSE "GOT", f, 0) \in Letter
    BY <2>1, Letters
  <2>4. Runs(WithExtra([r EXCEPT !.frs = "skipping"], Block(IF o = "werror" THEN "SKIP" ELSE "GOT", f, 0)))
    BY <2>3, <1>0, PutRuns, ExtraRuns
  <2>5. b' \in [Node -> Local] /\ \A n \in Node : LocalOk(b'[n])
    BY <2>2, <2>4, AcceptsOk
  <2>6. rcv' \in [File -> Rinfo]
    <3> DEFINE s == [rcv[f] EXCEPT !.open = FALSE,
                          !.status = IF o = "werror" THEN "refused" ELSE "skipped",
                          !.bytes = IF o = "werror" THEN @ ELSE 0,
                          !.good = (o = "vanish") \/ @]
    <3>1. rcv[f] \in Rinfo
      BY <2>1, RxTypes
    <3>2. s \in Rinfo
      BY <3>1 DEF Rinfo, SendStatus
    <3>3. rcv' = [rcv EXCEPT ![f] = s]
      BY <2>1, <2>2, <3>1 DEF TypeInv, Rinfo
    <3> QED
      BY <2>1, <3>2, <3>3 DEF TypeInv
  <2> QED
    BY <2>5, <2>6, <1>17 DEF DataFails, TypeInv
<1> QED
  BY <1>1, <1>2, <1>3, <1>4, <1>5, <1>6, <1>7, <1>8, <1>9, <1>10, <1>11, <1>12, <1>13, <1>14,
     <1>15, <1>16, <1>17 DEF Doreceiveblock

\* A step of one mailer.
LEMMA TypesKept == TypeInv /\ [Next]_vars => TypeInv'
<1> SUFFICES ASSUME TypeInv, [Next]_vars PROVE TypeInv'
  OBVIOUS
<1>1. CASE UNCHANGED vars
  BY <1>1 DEF TypeInv, vars
<1>2. ASSUME NEW p \in Node, Loop(p) PROVE TypeInv'
  BY <1>2, GetforsendTypes, BatchTypes, TransportTypes, ReceiveTypes DEF Loop
<1> QED
  BY <1>1, <1>2 DEF Next, SessionOver

(***************************************************************************)
(* Types are correct in every state: lengths, positions and counters stay  *)
(* natural numbers, in particular the two batch counters, which are        *)
(* decremented (prot_binkp.c: batch_send_count, batch_recv_count), and     *)
(* emptyloop stays below the 10 at which the loop is given up.             *)
(***************************************************************************)
THEOREM WellTyped == Spec => []TypeOK
<1>1. TypeInv => TypeOK
  <2> SUFFICES ASSUME TypeInv PROVE TypeOK
    OBVIOUS
  <2>1. Letter \subseteq Msg /\ MaybeLetter \subseteq MaybeMsg
    BY DEF Letter, MaybeLetter, MaybeMsg
  <2> DEFINE Wide == [pc : {"top", "batch", "select", "recv", "write", "ended"},
                       NR : BOOLEAN, MB : BOOLEAN, rx : SUBSET RxOutcome,
                       phase : {0, 2, 5, 100}, extra : MaybeMsg, last : BOOLEAN,
                       complete : BOOLEAN, bsc : Nat, brc : Nat, waitgot : BOOLEAN,
                       sent : BOOLEAN, rcvd : BOOLEAN,
                       frs : {"nothing", "data", "didget", "skipping"},
                       empty : 0..10, contsend : BOOLEAN, nomore : BOOLEAN,
                       rc : {"noerror", "error", "remote", "local"},
                       cur : File \cup {NoFile}, recv : File \cup {NoFile},
                       out : MaybeMsg, canwrite : BOOLEAN,
                       got : {"none", "header", "block", "cut"}, buf : MaybeMsg,
                       want : {"none", "header", "body"}]
  <2>2. \A r \in Local : r \in Wide
    BY <2>1, FieldTypes DEF Local
  <2>3. chan \in [Node -> Seq(Msg)]
    <3>1. \A n \in Node : chan[n] \in Seq(Msg)
      BY <2>1, SeqMonotonic DEF TypeInv
    <3> QED
      BY <3>1 DEF TypeInv
  <2>4. b \in [Node -> Wide]
    <3> HIDE DEF Wide
    <3> QED
      BY <2>2 DEF TypeInv
  <2> QED
    BY <2>3, <2>4 DEF TypeInv, TypeOK, Sinfo, Rinfo
<1> QED
  BY <1>1, InitTypes, TypesKept, PTL DEF Spec

-----------------------------------------------------------------------------
(* Every file is in one place                                               *)

LEMMA Places ==
  /\ \A n \in Node : /\ At("extra", n, 0) \in Place /\ At("out", n, 0) \in Place
                     /\ At("buf", n, 0) \in Place /\ At("data", n, 0) \in Place
  /\ \A n \in Node, i \in Nat : At("queue", n, i) \in Place /\ At("chan", n, i) \in Place
  /\ \A f \in File, i \in Nat : At("answer", f, i) \in Place /\ At("gone", f, i) \in Place
BY DEF Place, At

LEMMA AtFields ==
  /\ \A k, n, i : At(k, n, i).at = k /\ At(k, n, i).n = n /\ At(k, n, i).i = i
  /\ \A x \in Place : x = At(x.at, x.n, x.i) /\ x.i \in Nat
BY DEF At, Place

LEMMA AtNext ==
  ASSUME NEW k, NEW n, NEW i \in Nat, NEW j \in Nat, At(k, n, i + 1) = At(k, n, j + 1)
  PROVE  i = j
<1>1. At(k, n, i + 1).i = i + 1 /\ At(k, n, j + 1).i = j + 1
  BY DEF At
<1>2. i + 1 = j + 1
  BY <1>1
<1> QED
  BY <1>2

\* A command about a file is a place of the file.
LEMMA TellsHolds ==
  ASSUME NEW x \in Place, NEW k \in About, NEW f \in File, Tells(x, k, f)
  PROVE  Holds(x, f)
BY DEF Tells, Says, Speaks, Holds

(***************************************************************************)
(* What a step may do.  Each place of the new state is one that a file has *)
(* left, and no two are the same one (m); what was said about a file is    *)
(* said on; only of one file g, if of any, the records change.             *)
(***************************************************************************)
Recorded(g) ==
  /\ \A f \in File \ {g} : /\ rcv'[f].status = rcv[f].status
                           /\ snd'[f].open = snd[f].open
                           /\ f \in gone' => f \in gone
  /\ inbound \subseteq inbound'

LEMMA Moved ==
  ASSUME TInv, NEW m \in [Place -> Place], NEW g,
         \A f \in File, x \in Place : Holds(x, f)' => Holds(m[x], f),
         \A f \in File, x, y \in Place : Holds(x, f)' /\ Holds(y, f)' /\ m[x] = m[y] => x = y,
         \A f \in File \ {g}, x \in Place, k \in About : Tells(x, k, f)' => Tells(m[x], k, f),
         Recorded(g),
         g \in File => (Acknowledged(g)' => Kept(g)') /\ (Announced(g)' => snd'[g].open)
  PROVE  OnePlace' /\ AckedKept' /\ AnnouncedOpen'
<1>1. OnePlace'
  BY DEF TInv, OnePlace
<1>2. ASSUME NEW f \in File, Acknowledged(f)' PROVE Kept(f)'
  <2>1. CASE f = g
    BY <1>2, <2>1
  <2>2. CASE f # g
    <3>1. Acknowledged(f)
      BY <1>2, <2>2 DEF Acknowledged, Recorded, About
    <3> QED
      BY <2>2, <3>1 DEF TInv, AckedKept, Kept, Recorded
  <2> QED
    BY <2>1, <2>2
<1>3. ASSUME NEW f \in File, Announced(f)' PROVE snd'[f].open
  <2>1. CASE f = g
    BY <1>3, <2>1
  <2>2. CASE f # g
    <3>1. Announced(f)
      BY <1>3, <2>2 DEF Announced, About
    <3> QED
      BY <2>2, <3>1 DEF TInv, AnnouncedOpen, Recorded
  <2> QED
    BY <2>1, <2>2
<1> QED
  BY <1>1, <1>2, <1>3 DEF AckedKept, AnnouncedOpen

\* One file goes from a to c, or is lost (c = a), and the others stay.
LEMMA Passed ==
  ASSUME TInv, NEW g \in File, NEW a \in Place, NEW c \in Place, Holds(a, g),
         \A f \in File, x \in Place : Holds(x, f)' => (x = c /\ f = g) \/ (Holds(x, f) /\ x # a),
         \A f \in File, x \in Place, k \in About : Tells(x, k, f)' => (x = c /\ f = g) \/ Tells(x, k, f),
         Recorded(g),
         g \in gone' \/ Tells(c, "GOT", g)' => Kept(g)',
         Tells(c, "FILE", g)' \/ Tells(c, "GET", g)' => snd'[g].open
  PROVE  OnePlace' /\ AckedKept' /\ AnnouncedOpen'
<1>1. \A x \in Place : Holds(x, g)' => x = c
  BY DEF TInv, OnePlace
<1>2. OnePlace'
  <2>1. \A f \in File \ {g}, x \in Place : Holds(x, f)' => Holds(x, f)
    OBVIOUS
  <2> QED
    BY <1>1, <2>1 DEF TInv, OnePlace
<1>3. \A x \in Place, k \in About : Tells(x, k, g)' => x = c
  BY <1>1 DEF Tells, Says, Speaks, Holds
<1>4. ASSUME NEW f \in File, Acknowledged(f)' PROVE Kept(f)'
  <2>1. CASE f = g
    BY <1>3, <1>4, <2>1 DEF Acknowledged, About
  <2>2. CASE f # g
    <3>1. Acknowledged(f)
      BY <1>4, <2>2 DEF Acknowledged, Recorded, About
    <3> QED
      BY <2>2, <3>1 DEF TInv, AckedKept, Kept, Recorded
  <2> QED
    BY <2>1, <2>2
<1>5. ASSUME NEW f \in File, Announced(f)' PROVE snd'[f].open
  <2>1. CASE f = g
    BY <1>3, <1>5, <2>1 DEF Announced, About
  <2>2. CASE f # g
    <3>1. Announced(f)
      BY <1>5, <2>2 DEF Announced, About
    <3> QED
      BY <2>2, <3>1 DEF TInv, AnnouncedOpen, Recorded
  <2> QED
    BY <2>1, <2>2
<1> QED
  BY <1>2, <1>4, <1>5 DEF AckedKept, AnnouncedOpen

\* No mailer turns to another file.
Steady == \A n \in Node : b'[n].cur = b[n].cur

\* Commands that do not overtake each other leave the order as it is.
LEMMA OrderStays ==
  ASSUME TInv, Steady, NEW m \in [Place -> Place],
         \A f \in File, x \in Place : Live(x, f)' => Live(m[x], f),
         \A n \in Node, f, g \in File, x, y \in Place :
             Live(x, f)' /\ Live(y, g)' /\ Ahead(n, m[x], m[y]) => Ahead(n, x, y)
  PROVE  CurLast'
<1> SUFFICES ASSUME NEW f \in File, f # b'[Sender[f]].cur, NEW x \in Place, Live(x, f)'
             PROVE  /\ b'[Sender[f]].cur # NoFile
                    /\ \A y \in Place : Live(y, b[Sender[f]].cur)' => Ahead(Sender[f], x, y)
  BY DEF CurLast, Behind
<1>1. PICK c : c = b[Sender[f]].cur
  OBVIOUS
<1>2. Sender[f] \in Node /\ b'[Sender[f]].cur = c /\ c \in File \cup {NoFile}
  BY <1>1, FileAssumption, LocalRuns, FieldTypes DEF Steady, TInv
<1>3. Behind(f, c) /\ Live(m[x], f) /\ m[x] \in Place
  BY <1>1, <1>2 DEF TInv, CurLast
<1>4. c # NoFile /\ \A y \in Place : Live(y, c) => Ahead(Sender[f], m[x], y)
  BY <1>3 DEF Behind
<1>5. ASSUME NEW y \in Place, Live(y, c)' PROVE Ahead(Sender[f], x, y)
  <2>1. c \in File /\ Live(m[y], c) /\ m[y] \in Place
    BY <1>2, <1>4, <1>5
  <2>2. Ahead(Sender[f], m[x], m[y])
    BY <1>4, <2>1
  <2> QED
    BY <1>2, <1>5, <2>1, <2>2
<1> QED
  BY <1>2, <1>4, <1>5

\* Nothing is said or received that was not, and the records say the same.
Silent ==
  /\ \A f \in File, x \in Place : Holds(x, f)' => Holds(x, f)
  /\ \A f \in File, x \in Place, k \in About : Tells(x, k, f)' => Tells(x, k, f)
Calm ==
  /\ \A f \in File : rcv'[f].status = rcv[f].status /\ rcv'[f].open = rcv[f].open
  /\ \A f \in File : snd'[f].open = snd[f].open
  /\ inbound' = inbound /\ gone' = gone
  /\ \A n \in Node : b'[n].frs = "data" => b[n].frs = "data" /\ b'[n].recv = b[n].recv
  /\ Steady

LEMMA OpenStays ==
  ASSUME TInv, Calm
  PROVE  OpenOk'
BY DEF TInv, Calm, OpenOk

LEMMA CalmStep ==
  ASSUME TInv, Silent, Calm, TypeInv'
  PROVE  TInv'
<1> DEFINE m == [x \in Place |-> x]
<1>1. OnePlace'
  BY DEF TInv, OnePlace, Silent
<1>2. \A f \in File : Acknowledged(f)' => Acknowledged(f)
  BY DEF Acknowledged, Silent, Calm, About
<1>3. \A f \in File : Announced(f)' => Announced(f)
  BY DEF Announced, Silent, About
<1>4. Sides'
  BY DEF TInv, Sides, Silent, Calm, Steady
<1>5. CurLast'
  <2>1. m \in [Place -> Place] /\ \A x \in Place : m[x] = x
    OBVIOUS
  <2> HIDE DEF m
  <2>2. Steady
    BY DEF Calm
  <2>3. \A f \in File, x \in Place : Live(x, f)' => Live(m[x], f)
    BY <2>1 DEF Silent, Live
  <2>4. \A n \in Node, f, g \in File, x, y \in Place :
             Live(x, f)' /\ Live(y, g)' /\ Ahead(n, m[x], m[y]) => Ahead(n, x, y)
    BY <2>1
  <2> QED
    BY <2>1, <2>2, <2>3, <2>4, OrderStays
<1> QED
  BY <1>1, <1>2, <1>3, <1>4, <1>5, OpenStays DEF TInv, AckedKept, AnnouncedOpen, Kept, Calm

\* What is received is opened, closed or stored by the mailer that has it.
LEMMA OpenKept ==
  ASSUME TInv, NEW p \in Node, NEW g \in File, NEW a \in Place, Holds(a, g), a.n = p,
         \A n \in Node \ {p} : b'[n] = b[n],
         \A f \in File \ {g} : rcv'[f].open = rcv[f].open /\ (f \in inbound' => f \in inbound),
         rcv'[g].open => g \notin inbound',
         b'[p].frs = "data" => b'[p].recv = g /\ rcv'[g].open
  PROVE  OpenOk'
<1>1. ASSUME NEW n \in Node, b'[n].frs = "data"
      PROVE  b'[n].recv \in File /\ rcv'[b'[n].recv].open
  <2>1. CASE n = p
    BY <1>1, <2>1
  <2>2. CASE n # p
    <3>1. b'[n] = b[n] /\ b[n].recv \in File /\ rcv[b[n].recv].open
      BY <1>1, <2>2 DEF TInv, OpenOk
    <3>2. b[n].recv # g
      <4>1. ASSUME b[n].recv = g PROVE Holds(At("data", n, 0), g)
        BY <1>1, <3>1, <4>1 DEF Holds, At
      <4>2. ASSUME b[n].recv = g PROVE a = At("data", n, 0)
        BY <4>1, <4>2, Places DEF TInv, OnePlace
      <4> QED
        BY <4>2, <2>2 DEF At
    <3> QED
      BY <3>1, <3>2
  <2> QED
    BY <2>1, <2>2
<1>2. \A f \in File : rcv'[f].open => f \notin inbound'
  BY DEF TInv, OpenOk
<1> QED
  BY <1>1, <1>2 DEF OpenOk

-----------------------------------------------------------------------------
(* What a step makes of a mailer's own state                                *)

\* extracmd, the output and the input buffer, and the receiver's state.
Now(p, e, o, i, d, v) ==
  /\ b'[p].extra = e /\ b'[p].out = o /\ b'[p].buf = i /\ b'[p].frs = d /\ b'[p].recv = v
  /\ \A n \in Node \ {p} : b'[n] = b[n]

\* A command that is not about a file, or was there before.
Same(m, old) == m = old \/ m.cmd \notin About

LEMMA NowSilent ==
  ASSUME NEW p \in Node, NEW e, NEW o, NEW i, NEW d, NEW v, Now(p, e, o, i, d, v),
         Same(e, b[p].extra), Same(o, b[p].out), Same(i, b[p].buf),
         d = "data" => b[p].frs = "data" /\ v = b[p].recv,
         \A n \in Node : DOMAIN chan'[n] = DOMAIN chan[n] /\ \A j \in DOMAIN chan[n] : Same(chan'[n][j], chan[n][j]),
         queue' = queue, inbound' = inbound, gone' = gone
  PROVE  Silent
<1>1. ASSUME NEW x \in Place, Here(x)'
      PROVE  Here(x) /\ Same(Command(x)', Command(x))
  <2>1. x.n \in Node /\ Here(x)
    BY <1>1 DEF Here
  <2>2. CASE x.n = p
    BY <2>1, <2>2 DEF Here, Command, Now, Same
  <2>3. CASE x.n # p
    BY <2>1, <2>3 DEF Here, Command, Now, Same
  <2> QED
    BY <2>2, <2>3
<1>2. \A f \in File, x \in Place, k \in About : Tells(x, k, f)' => Tells(x, k, f)
  BY <1>1 DEF Tells, Says, Same
<1>3. ASSUME NEW f \in File, NEW x \in Place, Holds(x, f)' PROVE Holds(x, f)
  <2>1. CASE Here(x)' /\ Speaks(Command(x), f)'
    BY <1>1, <2>1 DEF Holds, Speaks, Same
  <2>2. CASE x.at = "data" /\ x.n \in Node /\ x.i = 0 /\ b'[x.n].frs = "data" /\ b'[x.n].recv = f
    BY <2>2 DEF Holds, Now
  <2> QED
    BY <1>3, <2>1, <2>2 DEF Holds
<1> QED
  BY <1>2, <1>3 DEF Silent

LEMMA NowBecomes ==
  ASSUME TypeInv, NEW p \in Node, NEW s \in Local,
         \/ Becomes(p, s) \/ Becomes(p, AfterGet(s)) \/ Becomes(p, AfterRecv(s)) \/ Becomes(p, AfterSelect(s))
  PROVE  Now(p, s.extra, s.out, s.buf, s.frs, s.recv) /\ b'[p].cur = s.cur
<1>1. PICK t : Becomes(p, t) /\ (t = s \/ \E c : t = [s EXCEPT !.pc = c])
  BY DEF AfterGet, AfterRecv, AfterSelect
<1>2. t.extra = s.extra /\ t.out = s.out /\ t.buf = s.buf /\ t.frs = s.frs /\ t.recv = s.recv /\ t.cur = s.cur
  BY <1>1 DEF Local
<1>3. b' = [b EXCEPT ![p] = t]
  BY <1>1 DEF Becomes
<1>4. b'[p] = t /\ \A n \in Node \ {p} : b'[n] = b[n]
  BY <1>3 DEF TypeInv
<1> QED
  BY <1>2, <1>4 DEF Now

LEMMA NowAccepts ==
  ASSUME TypeInv, NEW p \in Node, NEW s \in Local, Accepts(p, s)
  PROVE  Now(p, s.extra, s.out, NoMsg, s.frs, s.recv) /\ b'[p].cur = s.cur
<1> DEFINE t == [s EXCEPT !.got = "none", !.buf = NoMsg, !.want = "header"]
<1>1. t \in Local
  BY Put_got, Put_buf, Put_want DEF MaybeLetter
<1>2. t.extra = s.extra /\ t.out = s.out /\ t.buf = NoMsg /\ t.frs = s.frs /\ t.recv = s.recv /\ t.cur = s.cur
  BY DEF Local
<1>3. Now(p, t.extra, t.out, t.buf, t.frs, t.recv) /\ b'[p].cur = t.cur
  BY <1>1, NowBecomes DEF Accepts
<1> QED
  BY <1>2, <1>3

\* The mailer's own state with nothing more to say.
Mute(p, s) ==
  /\ s \in Local
  /\ Same(s.extra, b[p].extra) /\ Same(s.out, b[p].out) /\ Same(s.buf, b[p].buf)
  /\ s.frs = "data" => b[p].frs = "data" /\ s.recv = b[p].recv
  /\ s.cur = b[p].cur

\* Only the mailer's own state changes, and it says nothing about a file.
LEMMA MuteSteps ==
  ASSUME TInv, TypeInv', NEW p \in Node, NEW s, Mute(p, s),
         \/ Becomes(p, s) \/ Becomes(p, AfterGet(s)) \/ Becomes(p, AfterRecv(s)) \/ Becomes(p, AfterSelect(s))
         \/ Accepts(p, s),
         chan' = chan \/ chan' = [chan EXCEPT ![p][1] = Block("JUNK", NoFile, 0)],
         queue' = queue, inbound' = inbound, gone' = gone,
         \A f \in File : rcv'[f].status = rcv[f].status /\ rcv'[f].open = rcv[f].open,
         \A f \in File : snd'[f].open = snd[f].open
  PROVE  TInv'
<1>1. NoMsg.cmd \notin About /\ Block("JUNK", NoFile, 0).cmd \notin About
  BY DEF NoMsg, Block, About
<1>2. TypeInv /\ s \in Local
  BY DEF TInv, Mute
<1>3. PICK i : Now(p, s.extra, s.out, i, s.frs, s.recv) /\ b'[p].cur = b[p].cur /\ Same(i, b[p].buf)
  BY <1>1, <1>2, NowBecomes, NowAccepts DEF Mute, Same
<1>4. \A n \in Node : DOMAIN chan'[n] = DOMAIN chan[n] /\ \A j \in DOMAIN chan[n] : Same(chan'[n][j], chan[n][j])
  <2>1. chan \in [Node -> Seq(Letter)]
    BY <1>2 DEF TypeInv
  <2>2. CASE chan' = chan
    BY <2>2 DEF Same
  <2>3. CASE chan' = [chan EXCEPT ![p][1] = Block("JUNK", NoFile, 0)]
    <3> DEFINE t == [chan[p] EXCEPT ![1] = Block("JUNK", NoFile, 0)]
    <3>1. chan[p] \in [1..Len(chan[p]) -> Letter]
      BY <2>1, LenProperties
    <3>2. DOMAIN t = DOMAIN chan[p] /\ \A j \in DOMAIN chan[p] : t[j] = chan[p][j] \/ t[j] = Block("JUNK", NoFile, 0)
      BY <3>1
    <3>3. chan'[p] = t /\ \A n \in Node \ {p} : chan'[n] = chan[n]
      BY <2>1, <2>3
    <3> QED
      BY <1>1, <3>2, <3>3 DEF Same
  <2> QED
    BY <2>2, <2>3
<1>5. Silent
  BY <1>3, <1>4, NowSilent DEF Mute
<1>6. Calm
  BY <1>3 DEF Calm, Steady, Now, Mute
<1> QED
  BY <1>5, <1>6, CalmStep

LEMMA SelfMute ==
  ASSUME TypeInv, NEW p \in Node
  PROVE  Mute(p, b[p])
BY LocalRuns DEF Mute, Same

-----------------------------------------------------------------------------
(* The steps that say nothing about a file                                  *)

\* All of them but those that pass a file on.
GetforsendCalm(p) ==
  LoopExit(p) \/ GetNothing(p) \/ SendEOB(p) \/ SendData(p) \/ EndOfFile(p) \/ ReadClosed(p) \/ SendNothing(p)
TransportCalm(p) ==
  ReadHeader(p) \/ ReadAstray(p) \/ ReadShutdown(p) \/ OnlyWrite(p) \/ EmptyLoop(p) \/ Timeout(p) \/ WriteFails(p)
ReceiveCalm(p) ==
  \/ HeaderOnly(p) \/ BrokenBlock(p) \/ FileError(p) \/ Suspend(p) \/ ReceiveEOB(p) \/ ReceiveERR(p)
  \/ DataError(p) \/ DataDropped(p) \/ DataStored(p)

\* An end of the session.
LEMMA EndsCalm ==
  ASSUME TInv, TypeInv', NEW p \in Node, NEW c \in {"noerror", "error", "remote", "local"}, Ends(p, c),
         UNCHANGED <<queue, snd, rcv, chan, inbound, gone>>
  PROVE  TInv'
<1> DEFINE s == [b[p] EXCEPT !.pc = "ended", !.rc = c]
<1>1. b[p] \in Local
  BY LocalRuns DEF TInv
<1>2. s \in Local
  BY <1>1, Put_pc, Put_rc
<1>3. s.extra = b[p].extra /\ s.out = b[p].out /\ s.buf = b[p].buf /\ s.frs = b[p].frs /\ s.recv = b[p].recv /\ s.cur = b[p].cur
  BY <1>1 DEF Local
<1>4. Mute(p, s)
  BY <1>2, <1>3 DEF Mute, Same
<1> QED
  BY <1>4, MuteSteps DEF Ends

LEMMA GetforsendSilent ==
  ASSUME TInv, TypeInv', NEW p \in Node, GetforsendCalm(p)
  PROVE  TInv'
<1> DEFINE r == Start(p)
<1>1. TypeInv /\ b[p] \in Local /\ LocalOk(b[p]) /\ r \in Local /\ r = [b[p] EXCEPT !.nomore = r.nomore, !.contsend = FALSE]
  BY LocalRuns, StartRuns DEF TInv
<1>2. r.extra = b[p].extra /\ r.out = b[p].out /\ r.buf = b[p].buf /\ r.frs = b[p].frs /\ r.recv = b[p].recv /\ r.cur = b[p].cur
  BY <1>1 DEF Local
<1>3. Mute(p, r)
  BY <1>1, <1>2 DEF Mute, Same
<1>4. CASE LoopExit(p)
  <2>1. b[p].rc \in {"noerror", "error", "remote", "local"}
    BY <1>1, FieldTypes
  <2> QED
    BY <1>4, <2>1, EndsCalm DEF LoopExit
<1>5. CASE GetNothing(p)
  BY <1>3, <1>5, MuteSteps DEF GetNothing
<1>6. CASE SendEOB(p)
  <2> DEFINE m == Block("EOB", NoFile, 0)
             s == [r EXCEPT !.out = m, !.bsc = r.bsc + 1, !.phase = 5]
  <2>1. m \in MaybeLetter /\ r.bsc + 1 \in Nat /\ m.cmd \notin About
    BY <1>1, Letters, FieldTypes DEF MaybeLetter, Block, About
  <2>2. s \in Local
    BY <2>1, <1>1, Put_out, Put_bsc, Put_phase
  <2>3. s.extra = r.extra /\ s.out = m /\ s.buf = r.buf /\ s.frs = r.frs /\ s.recv = r.recv /\ s.cur = r.cur
    BY <1>1 DEF Local
  <2>4. Mute(p, s)
    BY <1>3, <2>1, <2>2, <2>3 DEF Mute, Same
  <2>5. Becomes(p, AfterGet(s))
    BY <1>6, <1>1 DEF SendEOB, Local
  <2> QED
    BY <1>6, <2>4, <2>5, MuteSteps DEF SendEOB
<1>7. CASE SendData(p)
  <2> DEFINE f == b[p].cur
             left == Real[f] - snd[f].pos
             k == IF left < Chunk THEN left ELSE Chunk
             m == Data(f, snd[f].pos, k)
             s == [r EXCEPT !.out = m]
  <2>1. f \in File
    BY <1>1, <1>7, FieldTypes DEF SendData
  <2>2. snd[f] \in Sinfo /\ Becomes(p, AfterGet(s)) /\ snd' = [snd EXCEPT ![f].pos = @ + k]
    BY <1>1, <1>7, <2>1 DEF SendData, TypeInv
  <2>3. Real[f] \in Nat /\ snd[f].pos \in Nat /\ snd[f].pos < Real[f]
    BY <1>7, <2>1, <2>2, FileAssumption DEF Sinfo, SendData
  <2>4. k \in Nat
    BY <2>3, OptionAssumption
  <2>5. m \in MaybeLetter /\ m.cmd \notin About
    BY <2>1, <2>3, <2>4, Letters DEF MaybeLetter, Data, About
  <2>6. s \in Local
    BY <2>5, <1>1, Put_out
  <2>7. s.extra = r.extra /\ s.out = m /\ s.buf = r.buf /\ s.frs = r.frs /\ s.recv = r.recv /\ s.cur = r.cur
    BY <1>1 DEF Local
  <2>8. Mute(p, s)
    BY <1>3, <2>5, <2>6, <2>7 DEF Mute, Same
  <2>9. \A g \in File : snd'[g].open = snd[g].open
    BY <1>1, <2>1, <2>2 DEF TypeInv, Sinfo
  <2> QED
    BY <1>7, <2>2, <2>8, <2>9, MuteSteps DEF SendData
<1>8. CASE EndOfFile(p)
  <2> DEFINE f == b[p].cur
             s == [b[p] EXCEPT !.phase = 0]
  <2>1. f \in File
    BY <1>1, <1>8, FieldTypes DEF EndOfFile
  <2>2. s \in Local
    BY <1>1, Put_phase
  <2>3. s.extra = b[p].extra /\ s.out = b[p].out /\ s.buf = b[p].buf /\ s.frs = b[p].frs /\ s.recv = b[p].recv /\ s.cur = b[p].cur
    BY <1>1 DEF Local
  <2>4. Mute(p, s)
    BY <2>2, <2>3 DEF Mute, Same
  <2>5. snd' = [snd EXCEPT ![f].status = "waitack"] /\ Becomes(p, s)
    BY <1>8 DEF EndOfFile
  <2>6. \A g \in File : snd'[g].open = snd[g].open
    BY <1>1, <2>1, <2>5 DEF TypeInv, Sinfo
  <2> QED
    BY <1>8, <2>4, <2>5, <2>6, MuteSteps DEF EndOfFile
<1>9. CASE ReadClosed(p)
  BY <1>9, EndsCalm DEF ReadClosed
<1>10. CASE SendNothing(p)
  <2> DEFINE s == [r EXCEPT !.nomore = TRUE, !.complete = r.complete \/ b[p].phase = 100]
  <2>1. r.complete \in BOOLEAN
    BY <1>1, FieldTypes
  <2>2. s \in Local
    BY <2>1, <1>1, Put_nomore, Put_complete
  <2>3. s.extra = r.extra /\ s.out = r.out /\ s.buf = r.buf /\ s.frs = r.frs /\ s.recv = r.recv /\ s.cur = r.cur
    BY <1>1 DEF Local
  <2>4. Mute(p, s)
    BY <1>3, <2>2, <2>3 DEF Mute, Same
  <2>5. Becomes(p, AfterGet(s))
    BY <1>10, <1>1 DEF SendNothing, Local
  <2> QED
    BY <1>10, <2>4, <2>5, MuteSteps DEF SendNothing
<1> QED
  BY <1>4, <1>5, <1>6, <1>7, <1>8, <1>9, <1>10 DEF GetforsendCalm

LEMMA BatchSilent ==
  ASSUME TInv, TypeInv', NEW p \in Node, Batch(p)
  PROVE  TInv'
<1>1. TypeInv /\ b[p] \in Local /\ LocalOk(b[p])
  BY LocalRuns DEF TInv
<1>2. CASE NextBatch(p)
  <2> DEFINE s == [b[p] EXCEPT !.bsc = b[p].bsc - 1, !.brc = b[p].brc - 1,
                     !.sent = FALSE, !.rcvd = FALSE, !.nomore = FALSE,
                     !.phase = 0, !.frs = "nothing", !.want = "header", !.pc = "top"]
  <2>1. Becomes(p, s)
    BY <1>1, <1>2 DEF NextBatch, Local
  <2>2. b'[p] = s /\ b'[p] \in Local
    BY <1>1, <2>1 DEF Becomes, TypeInv
  <2>3. s.extra = b[p].extra /\ s.out = b[p].out /\ s.buf = b[p].buf /\ s.frs = "nothing" /\ s.cur = b[p].cur
    BY <1>1 DEF Local
  <2>4. Mute(p, s)
    BY <2>2, <2>3 DEF Mute, Same
  <2> QED
    BY <1>2, <2>1, <2>4, MuteSteps DEF NextBatch
<1>3. CASE Complete(p)
  <2> DEFINE s == [b[p] EXCEPT !.complete = TRUE, !.want = "none", !.pc = "select"]
  <2>1. s \in Local
    BY <1>1, Put_complete, Put_want, Put_pc
  <2>2. s.extra = b[p].extra /\ s.out = b[p].out /\ s.buf = b[p].buf /\ s.frs = b[p].frs /\ s.recv = b[p].recv /\ s.cur = b[p].cur
    BY <1>1 DEF Local
  <2>3. Mute(p, s)
    BY <2>1, <2>2 DEF Mute, Same
  <2> QED
    BY <1>3, <2>3, MuteSteps DEF Complete
<1>4. CASE AwaitGot(p)
  <2> DEFINE s == [b[p] EXCEPT !.pc = "select"]
  <2>1. s \in Local
    BY <1>1, Put_pc
  <2>2. s.extra = b[p].extra /\ s.out = b[p].out /\ s.buf = b[p].buf /\ s.frs = b[p].frs /\ s.recv = b[p].recv /\ s.cur = b[p].cur
    BY <1>1 DEF Local
  <2>3. Mute(p, s)
    BY <2>1, <2>2 DEF Mute, Same
  <2> QED
    BY <1>4, <2>3, MuteSteps DEF AwaitGot
<1> QED
  BY <1>2, <1>3, <1>4 DEF Batch

LEMMA TransportSilent ==
  ASSUME TInv, TypeInv', NEW p \in Node, TransportCalm(p)
  PROVE  TInv'
<1> DEFINE r == b[p]
<1>1. TypeInv /\ r \in Local /\ LocalOk(r)
  BY LocalRuns DEF TInv
<1>2. ASSUME NEW w \in {FALSE, CanWrite(p)} PROVE w \in BOOLEAN
  BY DEF CanWrite
<1>3. CASE ReadHeader(p)
  <2>1. PICK w \in {FALSE, CanWrite(p)} :
          Becomes(p, AfterSelect([r EXCEPT !.got = "header", !.want = "body", !.canwrite = w]))
    BY <1>3 DEF ReadHeader
  <2> DEFINE s == [r EXCEPT !.got = "header", !.want = "body", !.canwrite = w]
  <2>2. s \in Local
    BY <1>1, <1>2, Put_got, Put_want, Put_canwrite
  <2>3. s.extra = r.extra /\ s.out = r.out /\ s.buf = r.buf /\ s.frs = r.frs /\ s.recv = r.recv /\ s.cur = r.cur
    BY <1>1 DEF Local
  <2>4. Mute(p, s)
    BY <2>2, <2>3 DEF Mute, Same
  <2> QED
    BY <1>3, <2>1, <2>4, MuteSteps DEF ReadHeader
<1>4. CASE ReadAstray(p)
  <2>1. PICK w \in {FALSE, CanWrite(p)} :
          Becomes(p, AfterSelect([r EXCEPT !.got = IF @ = "header" THEN "cut" ELSE @,
                                   !.want = "none", !.canwrite = w]))
    BY <1>4 DEF ReadAstray
  <2> DEFINE g == IF r.got = "header" THEN "cut" ELSE r.got
             s == [r EXCEPT !.got = g, !.want = "none", !.canwrite = w]
  <2>2. g \in {"none", "header", "block", "cut"}
    BY <1>1, FieldTypes
  <2>3. s \in Local
    BY <1>1, <1>2, <2>2, Put_got, Put_want, Put_canwrite
  <2>4. s.extra = r.extra /\ s.out = r.out /\ s.buf = r.buf /\ s.frs = r.frs /\ s.recv = r.recv /\ s.cur = r.cur
    BY <1>1 DEF Local
  <2>5. Mute(p, s)
    BY <2>3, <2>4 DEF Mute, Same
  <2> QED
    BY <1>4, <2>1, <2>5, MuteSteps DEF ReadAstray
<1>5. CASE ReadShutdown(p)
  BY <1>5, EndsCalm DEF ReadShutdown
<1>6. CASE OnlyWrite(p)
  <2> DEFINE s == [r EXCEPT !.canwrite = TRUE]
  <2>1. s \in Local
    BY <1>1, Put_canwrite
  <2>2. s.extra = r.extra /\ s.out = r.out /\ s.buf = r.buf /\ s.frs = r.frs /\ s.recv = r.recv /\ s.cur = r.cur
    BY <1>1 DEF Local
  <2>3. Mute(p, s)
    BY <2>1, <2>2 DEF Mute, Same
  <2> QED
    BY <1>6, <2>3, MuteSteps DEF OnlyWrite
<1>7. CASE EmptyLoop(p)
  <2> DEFINE k == IF DEBUG THEN r.empty + 1 ELSE r.empty
             s == [r EXCEPT !.empty = k]
  <2>1. CASE k = 10
    BY <2>1, <1>7, EndsCalm DEF EmptyLoop
  <2>2. CASE k # 10
    <3>1. r.empty \in 0..9
      BY <1>1, FieldTypes
    <3>2. k \in 0..9
      BY <3>1, <2>2
    <3>3. s \in Local
      BY <1>1, <3>2, Put_empty
    <3>4. s.extra = r.extra /\ s.out = r.out /\ s.buf = r.buf /\ s.frs = r.frs /\ s.recv = r.recv /\ s.cur = r.cur
      BY <1>1 DEF Local
    <3>5. Mute(p, s)
      BY <3>3, <3>4 DEF Mute, Same
    <3>6. Becomes(p, AfterSelect(s))
      BY <1>7, <2>2 DEF EmptyLoop
    <3> QED
      BY <1>7, <3>5, <3>6, MuteSteps DEF EmptyLoop
  <2> QED
    BY <2>1, <2>2
<1>8. CASE Timeout(p)
  BY <1>8, EndsCalm DEF Timeout
<1>9. CASE WriteFails(p)
  BY <1>9, EndsCalm DEF WriteFails
<1> QED
  BY <1>3, <1>4, <1>5, <1>6, <1>7, <1>8, <1>9 DEF TransportCalm

\* An error says nothing about a file, nor does what is noted of a block.
LEMMA MuteError ==
  ASSUME TInv, NEW p \in Node
  PROVE  /\ Mute(p, b[p]) /\ Mute(p, PROTO_ERROR(b[p]))
         /\ \A k \in BOOLEAN : LET s == [b[p] EXCEPT !.rcvd = k] IN Mute(p, s) /\ Mute(p, PROTO_ERROR(s))
<1>1. TypeInv /\ b[p] \in Local
  BY LocalRuns DEF TInv
<1>2. Mute(p, b[p])
  BY <1>1, SelfMute
<1>3. ASSUME NEW s, Mute(p, s) PROVE Mute(p, PROTO_ERROR(s))
  <2> DEFINE m == Block("ERR", NoFile, 0)
             t == [s EXCEPT !.rc = "local", !.extra = m, !.last = TRUE]
  <2>1. m \in MaybeLetter /\ m.cmd \notin About /\ s \in Local
    BY <1>3, Letters DEF MaybeLetter, Block, About, Mute
  <2>2. t \in Local
    BY <2>1, Put_rc, Put_extra, Put_last
  <2>3. t.extra = m /\ t.out = s.out /\ t.buf = s.buf /\ t.frs = s.frs /\ t.recv = s.recv /\ t.cur = s.cur
    BY <2>1 DEF Local
  <2> QED
    BY <1>3, <2>1, <2>2, <2>3 DEF Mute, Same, PROTO_ERROR
<1>4. ASSUME NEW k \in BOOLEAN PROVE Mute(p, [b[p] EXCEPT !.rcvd = k])
  <2> DEFINE s == [b[p] EXCEPT !.rcvd = k]
  <2>1. s \in Local
    BY <1>1, Put_rcvd
  <2>2. s.extra = b[p].extra /\ s.out = b[p].out /\ s.buf = b[p].buf /\ s.frs = b[p].frs /\ s.recv = b[p].recv /\ s.cur = b[p].cur
    BY <1>1 DEF Local
  <2> QED
    BY <2>1, <2>2 DEF Mute, Same
<1> QED
  BY <1>2, <1>3, <1>4

LEMMA KeepsCalm ==
  ASSUME TInv, TypeInv', NEW p \in Node, Keeps(p), UNCHANGED <<queue, snd, rcv, chan, inbound, gone>>
  PROVE  TInv'
<1> DEFINE k == b[p].rcvd \/ Whole(p, "FILE")
<1>1. k \in BOOLEAN
  BY LocalRuns, FieldTypes DEF TInv, Whole
<1>2. Mute(p, [b[p] EXCEPT !.rcvd = k]) /\ Becomes(p, AfterRecv([b[p] EXCEPT !.rcvd = k]))
  BY <1>1, MuteError DEF Keeps
<1> QED
  BY <1>2, MuteSteps

LEMMA ReceiveSilent ==
  ASSUME TInv, TypeInv', NEW p \in Node, ReceiveCalm(p)
  PROVE  TInv'
<1> DEFINE r == b[p]
<1>1. TypeInv /\ r \in Local
  BY LocalRuns DEF TInv
<1>2. CASE HeaderOnly(p)
  BY <1>2, MuteError, MuteSteps DEF HeaderOnly
<1>3. CASE BrokenBlock(p)
  BY <1>3, MuteError, MuteSteps DEF BrokenBlock
<1>4. CASE FileError(p)
  BY <1>4, MuteError, MuteSteps DEF FileError
<1>5. CASE Suspend(p)
  BY <1>5, KeepsCalm DEF Suspend
<1>6. CASE ReceiveEOB(p)
  <2> DEFINE s == [r EXCEPT !.brc = r.brc + 1]
  <2>1. r.brc + 1 \in Nat
    BY <1>1, FieldTypes
  <2>2. s \in Local
    BY <2>1, <1>1, Put_brc
  <2>3. s.extra = r.extra /\ s.out = r.out /\ s.buf = r.buf /\ s.frs = r.frs /\ s.recv = r.recv /\ s.cur = r.cur
    BY <1>1 DEF Local
  <2>4. Mute(p, s)
    BY <2>2, <2>3 DEF Mute, Same
  <2> QED
    BY <1>6, <2>4, MuteSteps DEF ReceiveEOB
<1>7. CASE ReceiveERR(p)
  <2> DEFINE s == [r EXCEPT !.rc = "remote", !.complete = TRUE]
  <2>1. s \in Local
    BY <1>1, Put_rc, Put_complete
  <2>2. s.extra = r.extra /\ s.out = r.out /\ s.buf = r.buf /\ s.frs = r.frs /\ s.recv = r.recv /\ s.cur = r.cur
    BY <1>1 DEF Local
  <2>3. Mute(p, s)
    BY <2>1, <2>2 DEF Mute, Same
  <2> QED
    BY <1>7, <2>3, MuteSteps DEF ReceiveERR
<1>8. CASE DataError(p)
  BY <1>8, MuteError, MuteSteps DEF DataError
<1>9. CASE DataDropped(p)
  BY <1>9, MuteError, MuteSteps DEF DataDropped
<1>10. CASE DataStored(p)
  <2>1. Storing(p) /\ rcv' = [rcv EXCEPT ![r.recv] = Appended(p)] /\ r.recv \in File
    BY <1>1, <1>10, RxTypes DEF DataStored
  <2>2. rcv[r.recv] \in Rinfo
    BY <1>1, <2>1 DEF TypeInv
  <2>3. Appended(p).status = rcv[r.recv].status /\ Appended(p).open = rcv[r.recv].open
    BY <2>2 DEF Appended, Rinfo
  <2>4. \A f \in File : rcv'[f].status = rcv[f].status /\ rcv'[f].open = rcv[f].open
    BY <1>1, <2>1, <2>3 DEF TypeInv
  <2> QED
    BY <1>10, <2>4, MuteError, MuteSteps DEF DataStored
<1> QED
  BY <1>2, <1>3, <1>4, <1>5, <1>6, <1>7, <1>8, <1>9, <1>10 DEF ReceiveCalm

-----------------------------------------------------------------------------
(* The steps that pass a command on                                         *)

\* A place about whose order something may be said after the step.
Carried(x) == x.at = "data" \/ (Here(x)' /\ Command(x)'.cmd \in About)

\* Every command was somewhere else, or is where it was, and none overtakes
\* another; nothing else changes.
LEMMA Relocated ==
  ASSUME TInv, TypeInv', Steady, NEW m \in [Place -> Place],
         \A x \in Place : x.at \notin {"extra", "out", "buf", "chan"} => m[x] = x,
         \A x \in Place : Here(x)' /\ Command(x)'.cmd \in About => Here(m[x]) /\ Command(m[x]) = Command(x)',
         \A x, y \in Place : Here(x)' /\ Command(x)'.cmd \in About /\ Here(y)' /\ Command(y)'.cmd \in About =>
                                (m[x] = m[y] => x = y),
         \A n \in Node, x \in Place : Here(x)' /\ Command(x)'.cmd \in About => (Outward(m[x], n) <=> Outward(x, n)),
         \A n \in Node, x, y \in Place : Carried(x) /\ Carried(y) /\ Ahead(n, m[x], m[y]) => Ahead(n, x, y),
         UNCHANGED <<queue, snd, rcv, inbound, gone>>,
         \A n \in Node : b'[n].frs = b[n].frs /\ b'[n].recv = b[n].recv
  PROVE  TInv'
<1>1. \A x \in Place : Here(x) \/ Here(x)' => x.at \in {"extra", "out", "buf", "chan"}
  BY DEF Here
<1>2. ASSUME NEW f \in File, NEW x \in Place, Holds(x, f)'
      PROVE  /\ Holds(m[x], f)
             /\ x.at \in {"extra", "out", "buf", "chan"} =>
                  Here(x)' /\ Command(x)'.cmd \in About /\ Here(m[x])
  <2>1. CASE Here(x)' /\ Speaks(Command(x), f)'
    BY <2>1 DEF Holds, Speaks
  <2>2. CASE ~(Here(x)' /\ Speaks(Command(x), f)')
    <3>1. x.at \notin {"extra", "out", "buf", "chan"} /\ Holds(x, f)
      BY <1>2, <2>2 DEF Holds
    <3> QED
      BY <3>1
  <2> QED
    BY <2>1, <2>2
<1>3. ASSUME NEW f \in File, NEW x \in Place, NEW y \in Place, Holds(x, f)', Holds(y, f)', m[x] = m[y]
      PROVE  x = y
  <2>1. CASE x.at \in {"extra", "out", "buf", "chan"} /\ y.at \in {"extra", "out", "buf", "chan"}
    BY <1>2, <1>3, <2>1
  <2>2. CASE x.at \notin {"extra", "out", "buf", "chan"}
    BY <1>1, <1>2, <1>3, <2>2
  <2>3. CASE y.at \notin {"extra", "out", "buf", "chan"}
    BY <1>1, <1>2, <1>3, <2>3
  <2> QED
    BY <2>1, <2>2, <2>3
<1>4. \A f \in File, x \in Place, k \in About : Tells(x, k, f)' => Tells(m[x], k, f)
  BY DEF Tells, Says
<1>5. Recorded(NoFile) /\ NoFile \notin File
  BY FileAssumption DEF Recorded
<1>6. OnePlace' /\ AckedKept' /\ AnnouncedOpen'
  <2>1. \A f \in File, x \in Place : Holds(x, f)' => Holds(m[x], f)
    BY <1>2
  <2>2. \A f \in File, x, y \in Place : Holds(x, f)' /\ Holds(y, f)' /\ m[x] = m[y] => x = y
    BY <1>3
  <2> QED
    BY <1>4, <1>5, <2>1, <2>2, Moved
<1>7. OpenOk'
  BY OpenStays DEF Calm
<1>8. Sides'
  <2>1. ASSUME NEW f \in File, NEW x \in Place, NEW k \in About, Tells(x, k, f)'
        PROVE  k = "FILE" <=> Outward(x, Sender[f])
    <3>1. Tells(m[x], k, f) /\ m[x] \in Place /\ Sender[f] \in Node
      BY <1>4, <2>1, FileAssumption
    <3>2. Outward(m[x], Sender[f]) <=> Outward(x, Sender[f])
      BY <2>1, <3>1 DEF Tells, Says
    <3> QED
      BY <3>1, <3>2 DEF TInv, Sides
  <2>2. \A f \in File, x \in Place : Holds(x, f)' => /\ x.at = "queue" => x.n = Sender[f]
                                                     /\ x.at = "data" => x.n # Sender[f]
    BY <1>2 DEF TInv, Sides
  <2>3. \A n \in Node : b'[n].cur \in File => Sender[b'[n].cur] = n
    BY DEF TInv, Sides, Steady
  <2> QED
    BY <2>1, <2>2, <2>3 DEF Sides
<1>9. CurLast'
  <2>1. ASSUME NEW f \in File, NEW x \in Place, Live(x, f)' PROVE Live(m[x], f) /\ Carried(x)
    <3>1. x.at \in {"extra", "out", "chan", "buf", "data"} /\ Holds(x, f)'
      BY <2>1 DEF Live
    <3>2. CASE x.at = "data"
      BY <1>2, <3>1, <3>2 DEF Live, Carried
    <3>3. CASE x.at # "data"
      <4>1. Here(x)' /\ Command(x)'.cmd \in About /\ Here(m[x]) /\ Holds(m[x], f)
        BY <1>2, <3>1, <3>3
      <4> QED
        BY <1>1, <4>1 DEF Live, Carried
    <3> QED
      BY <3>2, <3>3
  <2> QED
    BY <2>1, OrderStays
<1> QED
  BY <1>6, <1>7, <1>8, <1>9 DEF TInv

\* extracmd becomes the next command.
LEMMA SendExtraStep ==
  ASSUME TInv, TypeInv', NEW p \in Node, SendExtra(p)
  PROVE  TInv'
<1> DEFINE r == Start(p)
           s == [r EXCEPT !.out = b[p].extra, !.extra = NoMsg,
                  !.phase = IF b[p].last THEN 100 ELSE @,
                  !.complete = @ \/ b[p].last]
           m == [x \in Place |-> IF x = At("out", p, 0) THEN At("extra", p, 0) ELSE x]
<1>1. TypeInv /\ b[p] \in Local /\ r \in Local /\ r = [b[p] EXCEPT !.nomore = r.nomore, !.contsend = FALSE]
  BY LocalRuns, StartRuns DEF TInv
<1>2. r.buf = b[p].buf /\ r.frs = b[p].frs /\ r.recv = b[p].recv /\ r.cur = b[p].cur
  BY <1>1 DEF Local
<1>3. b'[p] = AfterGet(s) /\ \A n \in Node \ {p} : b'[n] = b[n]
  BY <1>1 DEF SendExtra, Becomes, TypeInv
<1>4. s.extra = NoMsg /\ s.out = b[p].extra /\ s.buf = b[p].buf /\ s.frs = b[p].frs /\ s.recv = b[p].recv
      /\ s.cur = b[p].cur
  BY <1>1, <1>2 DEF Local
<1>5. b'[p].extra = NoMsg /\ b'[p].out = b[p].extra /\ b'[p].buf = b[p].buf
      /\ b'[p].frs = b[p].frs /\ b'[p].recv = b[p].recv /\ b'[p].cur = b[p].cur
  BY <1>1, <1>3, <1>4 DEF AfterGet, Local
<1>6. NoMsg.cmd \notin About
  BY DEF NoMsg, Block, About
<1>7. m \in [Place -> Place] /\ \A x \in Place : m[x] = IF x = At("out", p, 0) THEN At("extra", p, 0) ELSE x
  BY Places
<1> HIDE DEF m
<1>8. \A x \in Place : x.at \notin {"extra", "out", "buf", "chan"} => m[x] = x
  BY <1>7 DEF At
<1>9. ASSUME NEW x \in Place, Here(x)', Command(x)'.cmd \in About
      PROVE  Here(m[x]) /\ Command(m[x]) = Command(x)' /\ m[x] = (IF x = At("out", p, 0) THEN At("extra", p, 0) ELSE x)
             /\ x # At("extra", p, 0)
  <2>0. x.n \in Node /\ chan' = chan
    BY <1>9 DEF Here, SendExtra
  <2>1. CASE x = At("out", p, 0)
    BY <1>5, <1>7, <2>1 DEF Here, Command, At
  <2>2. CASE x # At("out", p, 0)
    <3>1. x.n = p => x.at # "out"
      BY <1>9, <2>2 DEF Here, At, Place
    <3>2. x.n = p => x.at # "extra"
      BY <1>5, <1>6, <1>9 DEF Command
    <3>3. Command(x)' = Command(x) /\ Here(x)
      BY <1>3, <1>5, <1>9, <2>0, <3>1, <3>2 DEF Command, Here
    <3> QED
      BY <1>7, <2>2, <3>2, <3>3 DEF At
  <2> QED
    BY <2>1, <2>2
<1>10. \A x, y \in Place : Here(x)' /\ Command(x)'.cmd \in About /\ Here(y)' /\ Command(y)'.cmd \in About =>
                              (m[x] = m[y] => x = y)
  <2> SUFFICES ASSUME NEW x \in Place, NEW y \in Place, Here(x)', Command(x)'.cmd \in About,
                      Here(y)', Command(y)'.cmd \in About, m[x] = m[y]
               PROVE  x = y
    OBVIOUS
  <2>1. x # At("extra", p, 0) /\ y # At("extra", p, 0)
    BY <1>9
  <2> QED
    BY <1>7, <2>1
<1>11. \A n \in Node : b'[n].frs = b[n].frs /\ b'[n].recv = b[n].recv
  BY <1>3, <1>5
<1>12. Steady
  BY <1>3, <1>5 DEF Steady
<1>13. \A n \in Node, x \in Place : Here(x)' /\ Command(x)'.cmd \in About => (Outward(m[x], n) <=> Outward(x, n))
  BY <1>7 DEF Outward, At
<1>14. ASSUME NEW n \in Node, NEW x \in Place, NEW y \in Place, Carried(x), Carried(y), Ahead(n, m[x], m[y])
       PROVE  Ahead(n, x, y)
  <2>1. \A z \in Place : Carried(z) => /\ z.n = p => z.at # "extra"
                                       /\ z.n = p /\ z.at = "out" => z = At("out", p, 0)
                                       /\ m[z] = (IF z = At("out", p, 0) THEN At("extra", p, 0) ELSE z)
                                       /\ z.at \in {"extra", "out"} => z.n \in Node /\ z.i = 0
    <3> TAKE z \in Place
    <3> HAVE Carried(z)
    <3>1. CASE z.at = "data"
      BY <1>7, <3>1 DEF At
    <3>2. CASE z.at # "data"
      <4>1. Here(z)' /\ Command(z)'.cmd \in About /\ z \in Place
        BY <3>2 DEF Carried
      <4>2. z # At("extra", p, 0) /\ z.n \in Node /\ (z.at \in {"extra", "out"} => z.i = 0)
        BY <1>9, <4>1 DEF Here
      <4>3. z = At(z.at, z.n, z.i)
        BY AtFields
      <4> QED
        BY <1>7, <4>2, <4>3
    <3> QED
      BY <3>1, <3>2
  <2>2. CASE x # At("out", p, 0) /\ y # At("out", p, 0)
    BY <1>14, <2>1, <2>2
  <2>3. CASE x = At("out", p, 0) /\ y # At("out", p, 0)
    <3>1. m[x] = At("extra", p, 0) /\ m[y] = y /\ (y.n = p => y.at \notin {"extra", "out"})
      BY <1>14, <2>1, <2>3
    <3>2. CASE n = p
      BY <1>14, <2>3, <3>1, <3>2 DEF Ahead, Stage, At
    <3>3. CASE n # p
      BY <1>14, <2>1, <2>3, <3>1, <3>3, TwoNodes DEF Ahead, Stage, At
    <3> QED
      BY <3>2, <3>3
  <2>4. CASE y = At("out", p, 0) /\ x # At("out", p, 0)
    <3>1. m[y] = At("extra", p, 0) /\ m[x] = x /\ (x.n = p => x.at \notin {"extra", "out"})
      BY <1>14, <2>1, <2>4
    <3>2. CASE n = p
      BY <1>14, <2>4, <2>1, <3>1, <3>2 DEF Ahead, Stage, At
    <3>3. CASE n # p
      BY <1>14, <2>1, <2>4, <3>1, <3>3, TwoNodes DEF Ahead, Stage, At
    <3> QED
      BY <3>2, <3>3
  <2>5. CASE x = At("out", p, 0) /\ y = At("out", p, 0)
    <3>1. m[x] = At("extra", p, 0) /\ m[y] = At("extra", p, 0)
      BY <1>7, <2>5
    <3> QED
      BY <1>14, <3>1 DEF Ahead, Stage, At
  <2> QED
    BY <2>2, <2>3, <2>4, <2>5
<1> QED
  BY <1>7, <1>8, <1>9, <1>10, <1>11, <1>12, <1>13, <1>14, Relocated DEF SendExtra

\* The first block of the channel becomes the one that is handled.
LEMMA ReadBodyStep ==
  ASSUME TInv, TypeInv', NEW p \in Node, ReadBody(p)
  PROVE  TInv'
<1> DEFINE Source(x) == IF x = At("buf", p, 0) THEN At("chan", p, 1)
                        ELSE IF x.at = "chan" /\ x.n = p THEN At("chan", p, x.i + 1) ELSE x
           m == [x \in Place |-> Source(x)]
<1>1. TypeInv /\ b[p] \in Local /\ chan[p] \in Seq(Letter) /\ chan[p] # <<>>
  BY LocalRuns DEF TInv, TypeInv, ReadBody
<1>2. PICK w : Becomes(p, AfterSelect([b[p] EXCEPT !.got = "block", !.want = "none", !.buf = Head(chan[p]), !.canwrite = w]))
               /\ w \in BOOLEAN
  BY DEF ReadBody, CanWrite
<1> DEFINE s == [b[p] EXCEPT !.got = "block", !.want = "none", !.buf = Head(chan[p]), !.canwrite = w]
<1>3. s \in Local
  <2>1. Head(chan[p]) \in MaybeLetter
    BY <1>1, HeadTailProperties DEF MaybeLetter
  <2> QED
    BY <1>1, <1>2, <2>1, Put_got, Put_want, Put_buf, Put_canwrite
<1>4. s.extra = b[p].extra /\ s.out = b[p].out /\ s.buf = Head(chan[p]) /\ s.frs = b[p].frs /\ s.recv = b[p].recv
      /\ s.cur = b[p].cur
  BY <1>1 DEF Local
<1>5. Now(p, b[p].extra, b[p].out, Head(chan[p]), b[p].frs, b[p].recv) /\ b'[p].cur = b[p].cur
  BY <1>1, <1>2, <1>3, <1>4, NowBecomes
<1>6. /\ chan'[p] = Tail(chan[p]) /\ \A n \in Node \ {p} : chan'[n] = chan[n]
      /\ Head(chan[p]) = chan[p][1] /\ 1 \in DOMAIN chan[p]
      /\ \A i \in DOMAIN Tail(chan[p]) : i + 1 \in DOMAIN chan[p] /\ Tail(chan[p])[i] = chan[p][i + 1] /\ i \in Nat \ {0}
  BY <1>1 DEF ReadBody, TypeInv
<1>7. ASSUME NEW x \in Place PROVE Source(x) \in Place
  BY Places DEF Place, At
<1>8. m \in [Place -> Place] /\ \A x \in Place : m[x] = Source(x)
  BY <1>7
<1> HIDE DEF m
<1>9. \A x \in Place : x.at \notin {"extra", "out", "buf", "chan"} => m[x] = x
  BY <1>8 DEF At
<1>10. ASSUME NEW x \in Place, Here(x)', Command(x)'.cmd \in About
       PROVE  Here(m[x]) /\ Command(m[x]) = Command(x)' /\ (m[x] = At("chan", p, 1) => x = At("buf", p, 0))
              /\ (x.at = "chan" => x.i # 0) /\ (x.n = p /\ x.at = "buf" => x = At("buf", p, 0))
  <2>1. x.n \in Node /\ (x.at = "chan" \/ (x.at \in {"extra", "out", "buf"} /\ x.i = 0))
    BY <1>10 DEF Here
  <2>2. CASE x.n = p /\ x.at = "buf"
    <3>1. x = At("buf", p, 0)
      BY <2>1, <2>2 DEF Place, At
    <3> QED
      BY <1>5, <1>6, <1>8, <2>2, <3>1 DEF Here, Command, At, Now
  <2>3. CASE x.n = p /\ x.at = "chan"
    <3>1. x.i \in DOMAIN Tail(chan[p])
      BY <1>6, <1>10, <2>3 DEF Here
    <3>2. x.i + 1 \in DOMAIN chan[p] /\ Tail(chan[p])[x.i] = chan[p][x.i + 1] /\ x.i \in Nat \ {0}
      BY <1>6, <3>1
    <3>3. m[x] = At("chan", p, x.i + 1)
      BY <1>8, <2>3 DEF At
    <3>4. x.i + 1 # 1
      BY <3>2
    <3>5. Command(x)' = chan[p][x.i + 1]
      BY <1>6, <2>3, <3>2 DEF Command
    <3>6. Here(m[x]) /\ Command(m[x]) = chan[p][x.i + 1]
      BY <3>2, <3>3 DEF Here, Command, At
    <3>7. m[x] # At("chan", p, 1)
      BY <3>3, <3>4 DEF At
    <3> QED
      BY <2>3, <3>2, <3>5, <3>6, <3>7
  <2>4. CASE x.n # p \/ x.at \in {"extra", "out"}
    <3>1. m[x] = x
      BY <1>8, <2>4 DEF At
    <3>2. Command(x)' = Command(x) /\ Here(x)
      BY <1>5, <1>6, <1>10, <2>1, <2>4 DEF Command, Here, Now
    <3>3. x.at = "chan" => x.i # 0
      <4>1. x.n # p /\ x.at = "chan" => x.i \in DOMAIN chan[x.n] /\ chan[x.n] \in Seq(Letter)
        BY <1>1, <2>1, <3>2 DEF Here, TypeInv
      <4> QED
        BY <2>4, <4>1
    <3> QED
      BY <2>4, <3>1, <3>2, <3>3 DEF At
  <2> QED
    BY <2>1, <2>2, <2>3, <2>4
<1>11. \A x, y \in Place : Here(x)' /\ Command(x)'.cmd \in About /\ Here(y)' /\ Command(y)'.cmd \in About =>
                              (m[x] = m[y] => x = y)
  <2> SUFFICES ASSUME NEW x \in Place, NEW y \in Place, Here(x)', Command(x)'.cmd \in About,
                      Here(y)', Command(y)'.cmd \in About, m[x] = m[y]
               PROVE  x = y
    OBVIOUS
  <2>1. CASE x = At("buf", p, 0) \/ y = At("buf", p, 0)
    <3>1. m[x] = At("chan", p, 1) /\ m[y] = At("chan", p, 1)
      BY <1>8, <2>1
    <3> QED
      BY <1>10, <3>1
  <2>2. CASE x # At("buf", p, 0) /\ y # At("buf", p, 0)
    <3>1. m[x] = (IF x.at = "chan" /\ x.n = p THEN At("chan", p, x.i + 1) ELSE x)
          /\ m[y] = (IF y.at = "chan" /\ y.n = p THEN At("chan", p, y.i + 1) ELSE y)
      BY <1>8, <2>2
    <3>2. CASE x.at = "chan" /\ x.n = p /\ y.at = "chan" /\ y.n = p
      <4>1. m[x] = At("chan", p, x.i + 1) /\ m[y] = At("chan", p, y.i + 1)
        BY <3>1, <3>2
      <4>2. x.i \in Nat /\ y.i \in Nat
        BY AtFields
      <4>3. x.i = y.i
        BY <4>1, <4>2, AtNext
      <4> QED
        BY <3>2, <4>3, AtFields
    <3>3. CASE ~(x.at = "chan" /\ x.n = p /\ y.at = "chan" /\ y.n = p)
      <4>1. CASE x.at = "chan" /\ x.n = p
        <5>1. m[x] = At("chan", p, x.i + 1) /\ m[y] = y
          BY <3>1, <3>3, <4>1
        <5>2. m[x].at = "chan" /\ m[x].n = p
          BY <5>1 DEF At
        <5> QED
          BY <3>3, <4>1, <5>1, <5>2
      <4>2. CASE y.at = "chan" /\ y.n = p
        <5>1. m[y] = At("chan", p, y.i + 1) /\ m[x] = x
          BY <3>1, <3>3, <4>2
        <5>2. m[y].at = "chan" /\ m[y].n = p
          BY <5>1 DEF At
        <5> QED
          BY <3>3, <4>2, <5>1, <5>2
      <4>3. CASE ~(x.at = "chan" /\ x.n = p) /\ ~(y.at = "chan" /\ y.n = p)
        BY <3>1, <4>3
      <4> QED
        BY <4>1, <4>2, <4>3
    <3> QED
      BY <3>2, <3>3
  <2> QED
    BY <2>1, <2>2
<1>12. \A n \in Node : b'[n].frs = b[n].frs /\ b'[n].recv = b[n].recv
  BY <1>5 DEF Now
<1>13. \A x \in Place : Here(x)' /\ Command(x)'.cmd \in About => Here(m[x]) /\ Command(m[x]) = Command(x)'
  BY <1>10
<1>14. Steady
  BY <1>5 DEF Steady, Now
<1>15. \A n \in Node, x \in Place : Here(x)' /\ Command(x)'.cmd \in About => (Outward(m[x], n) <=> Outward(x, n))
  <2> SUFFICES ASSUME NEW n \in Node, NEW x \in Place, Here(x)' PROVE Outward(m[x], n) <=> Outward(x, n)
    OBVIOUS
  <2>1. CASE x = At("buf", p, 0)
    BY <1>8, <2>1 DEF Outward, At
  <2>2. CASE x # At("buf", p, 0)
    BY <1>8, <2>2 DEF Outward, At
  <2> QED
    BY <2>1, <2>2
<1>16. ASSUME NEW n \in Node, NEW x \in Place, NEW y \in Place, Carried(x), Carried(y), Ahead(n, m[x], m[y])
       PROVE  Ahead(n, x, y)
  <2>1. \A z \in Place : Carried(z) => /\ z.i \in Nat
                                       /\ z.at = "data" => m[z] = z
                                       /\ z.at # "data" => z.n \in Node
                                       /\ z.at = "chan" => z.i # 0
                                       /\ z.n = p /\ z.at = "buf" => z = At("buf", p, 0)
    BY <1>9, <1>10, AtFields DEF Carried, Here
  <2>2. ASSUME NEW z \in Place, Carried(z)
        PROVE  \/ z = At("buf", p, 0) /\ Stage(n, m[z]) = Stage(n, z) + 1 /\ m[z].i = 1 /\ z.i = 0
               \/ z.at = "chan" /\ z.n = p /\ Stage(n, m[z]) = Stage(n, z) /\ m[z].i = z.i + 1
               \/ m[z] = z /\ ~(z.n = p /\ z.at \in {"buf", "chan"})
    <3>1. CASE z = At("buf", p, 0)
      BY <1>8, <3>1 DEF Stage, At
    <3>2. CASE z.at = "chan" /\ z.n = p
      <4>1. m[z] = At("chan", p, z.i + 1)
        BY <1>8, <3>2 DEF At
      <4> QED
        BY <3>2, <4>1 DEF Stage, At
    <3>3. CASE z # At("buf", p, 0) /\ ~(z.at = "chan" /\ z.n = p)
      BY <1>8, <2>1, <2>2, <3>3
    <3> QED
      BY <3>1, <3>2, <3>3
  <2>3. \A z \in Place : Stage(n, z) \in 0..8
    BY DEF Stage
  <2>4. Stage(n, At("buf", p, 0)) = (IF n = p THEN 0 ELSE 5)
    BY DEF Stage, At
  <2>5. ASSUME NEW z \in Place, Carried(z), ~(z.n = p /\ z.at \in {"buf", "chan"})
        PROVE  IF n = p THEN Stage(n, z) \notin {0, 1} ELSE Stage(n, z) \notin {5, 6}
    <3>1. z.at # "data" => z.n \in Node
      BY <2>1, <2>5
    <3>2. CASE n = p
      BY <2>5, <3>1, <3>2 DEF Stage
    <3>3. CASE n # p
      BY <2>5, <3>1, <3>3, TwoNodes DEF Stage
    <3> QED
      BY <3>2, <3>3
  <2>6. x.i \in Nat /\ y.i \in Nat /\ Stage(n, x) \in 0..8 /\ Stage(n, y) \in 0..8
    BY <1>16, <2>1, <2>3
  <2>7. Stage(n, m[x]) < Stage(n, m[y]) \/ (Stage(n, m[x]) = Stage(n, m[y]) /\ m[x].i < m[y].i)
    BY <1>16 DEF Ahead
  <2>8. \A z \in Place : z.at = "chan" /\ z.n = p => Stage(n, z) = (IF n = p THEN 1 ELSE 6)
    BY DEF Stage
  <2> SUFFICES Stage(n, x) < Stage(n, y) \/ (Stage(n, x) = Stage(n, y) /\ x.i < y.i)
    BY DEF Ahead
  <2>9. CASE x = At("buf", p, 0)
    BY <1>16, <2>1, <2>2, <2>4, <2>5, <2>6, <2>7, <2>8, <2>9
  <2>10. CASE x.at = "chan" /\ x.n = p
    BY <1>16, <2>1, <2>2, <2>4, <2>5, <2>6, <2>7, <2>8, <2>10
  <2>11. CASE x # At("buf", p, 0) /\ ~(x.at = "chan" /\ x.n = p)
    BY <1>16, <2>1, <2>2, <2>4, <2>5, <2>6, <2>7, <2>8, <2>11
  <2> QED
    BY <2>9, <2>10, <2>11
<1> QED
  BY <1>8, <1>9, <1>11, <1>12, <1>13, <1>14, <1>15, <1>16, Relocated DEF ReadBody

\* The block in the output buffer goes into the other mailer's channel, or is lost.
LEMMA WriteStep ==
  ASSUME TInv, TypeInv', NEW p \in Node, Write(p)
  PROVE  TInv'
<1> DEFINE q == Peer(p)
           k == Len(chan[q]) + 1
           Source(x) == IF x = At("chan", q, k) THEN At("out", p, 0) ELSE x
           m == [x \in Place |-> Source(x)]
<1>1. TypeInv /\ b[p] \in Local /\ LocalOk(b[p]) /\ q \in Node /\ chan[q] \in Seq(Letter) /\ k \in Nat
  <2>1. TypeInv /\ b[p] \in Local /\ LocalOk(b[p]) /\ q \in Node
    BY LocalRuns DEF TInv
  <2>2. chan[q] \in Seq(Letter)
    BY <2>1 DEF TypeInv
  <2> QED
    BY <2>1, <2>2, LenProperties
<1> DEFINE s == [b[p] EXCEPT !.out = NoMsg, !.canwrite = FALSE, !.pc = "top"]
<1>2. s \in Local
  BY <1>1, Put_out, Put_canwrite, Put_pc DEF MaybeLetter
<1>3. s.extra = b[p].extra /\ s.out = NoMsg /\ s.buf = b[p].buf /\ s.frs = b[p].frs /\ s.recv = b[p].recv
      /\ s.cur = b[p].cur
  BY <1>1 DEF Local
<1>4. Now(p, b[p].extra, NoMsg, b[p].buf, b[p].frs, b[p].recv) /\ b'[p].cur = b[p].cur
  BY <1>1, <1>2, <1>3, NowBecomes DEF Write
<1>5. NoMsg.cmd \notin About
  BY DEF NoMsg, Block, About
<1>6. /\ \A n \in Node \ {q} : chan'[n] = chan[n]
      /\ \A i \in DOMAIN chan'[q] : \/ i \in DOMAIN chan[q] /\ i # k /\ chan'[q][i] = chan[q][i]
                                    \/ i = k /\ chan'[q][i] = b[p].out
      /\ k \notin DOMAIN chan[q]
  <2>1. CASE chan' = chan
    BY <1>1, <2>1
  <2>2. CASE chan' = [chan EXCEPT ![q] = Append(@, b[p].out)]
    BY <1>1, <2>2 DEF TypeInv
  <2> QED
    BY <2>1, <2>2 DEF Write
<1>7. m \in [Place -> Place] /\ \A x \in Place : m[x] = Source(x)
  BY <1>1, Places
<1> HIDE DEF m
<1>8. \A x \in Place : x.at \notin {"extra", "out", "buf", "chan"} => m[x] = x
  BY <1>7 DEF At
<1>9. ASSUME NEW x \in Place, Here(x)', Command(x)'.cmd \in About
      PROVE  Here(m[x]) /\ Command(m[x]) = Command(x)' /\ x # At("out", p, 0)
  <2>1. x.n \in Node /\ (x.at = "chan" \/ (x.at \in {"extra", "out", "buf"} /\ x.i = 0))
    BY <1>9 DEF Here
  <2>2. ~(x.n = p /\ x.at = "out")
    BY <1>4, <1>5, <1>9 DEF Command, Now
  <2>3. CASE x = At("chan", q, k)
    <3>1. chan'[q][k] = b[p].out
      BY <1>6, <1>9, <2>3 DEF Here, At
    <3> QED
      BY <1>7, <2>2, <2>3, <3>1 DEF Here, Command, At
  <2>4. CASE x # At("chan", q, k)
    <3>1. x.n = q /\ x.at = "chan" => x.i # k
      BY <2>4 DEF At, Place
    <3>2. Command(x)' = Command(x) /\ Here(x)
      <4>1. CASE x.at = "chan"
        BY <1>6, <1>9, <2>1, <3>1, <4>1 DEF Command, Here
      <4>2. CASE x.at # "chan"
        BY <1>4, <2>1, <2>2, <4>2 DEF Command, Here, Now
      <4> QED
        BY <4>1, <4>2
    <3> QED
      BY <1>7, <2>2, <2>4, <3>2 DEF At
  <2> QED
    BY <2>3, <2>4
<1>10. \A x, y \in Place : Here(x)' /\ Command(x)'.cmd \in About /\ Here(y)' /\ Command(y)'.cmd \in About =>
                              (m[x] = m[y] => x = y)
  <2> SUFFICES ASSUME NEW x \in Place, NEW y \in Place, Here(x)', Command(x)'.cmd \in About,
                      Here(y)', Command(y)'.cmd \in About, m[x] = m[y]
               PROVE  x = y
    OBVIOUS
  <2>1. x # At("out", p, 0) /\ y # At("out", p, 0)
    BY <1>9
  <2> QED
    BY <1>7, <2>1
<1>11. \A n \in Node : b'[n].frs = b[n].frs /\ b'[n].recv = b[n].recv
  BY <1>4 DEF Now
<1>12. \A x \in Place : Here(x)' /\ Command(x)'.cmd \in About => Here(m[x]) /\ Command(m[x]) = Command(x)'
  BY <1>9
<1>13. Steady
  BY <1>4 DEF Steady, Now
<1>14. \A n \in Node, x \in Place : Here(x)' /\ Command(x)'.cmd \in About => (Outward(m[x], n) <=> Outward(x, n))
  <2> SUFFICES ASSUME NEW n \in Node, NEW x \in Place PROVE Outward(m[x], n) <=> Outward(x, n)
    OBVIOUS
  <2>1. CASE x = At("chan", q, k)
    BY <1>7, <2>1, TwoNodes DEF Outward, At
  <2>2. CASE x # At("chan", q, k)
    BY <1>7, <2>2
  <2> QED
    BY <2>1, <2>2
<1>15. ASSUME NEW n \in Node, NEW x \in Place, NEW y \in Place, Carried(x), Carried(y), Ahead(n, m[x], m[y])
       PROVE  Ahead(n, x, y)
  <2>1. ASSUME NEW z \in Place, Carried(z)
        PROVE  \/ z.at = "data" /\ m[z] = z
               \/ z = At("chan", q, k) /\ m[z] = At("out", p, 0)
               \/ /\ z.at \in {"extra", "out", "buf", "chan"} /\ m[z] = z /\ z.n \in Node
                  /\ z.at # "chan" => z.i = 0
                  /\ z.n = p => z.at # "out"
                  /\ z.n = q /\ z.at = "chan" => z.i < k
    <3>1. CASE z.at = "data"
      BY <1>7, <3>1 DEF At
    <3>2. CASE z = At("chan", q, k)
      BY <1>7, <3>2
    <3>3. CASE z.at # "data" /\ z # At("chan", q, k)
      <4>1. Here(z)' /\ Command(z)'.cmd \in About
        BY <2>1, <3>3 DEF Carried
      <4>2. z # At("out", p, 0) /\ z.n \in Node /\ (z.at # "chan" => z.i = 0) /\ z.at \in {"extra", "out", "buf", "chan"}
        BY <1>9, <4>1 DEF Here
      <4>3. z = At(z.at, z.n, z.i)
        BY AtFields
      <4>4. z.n = q /\ z.at = "chan" => z.i < k
        <5>1. z.n = q /\ z.at = "chan" => z.i \in DOMAIN chan[q]
          BY <1>6, <3>3, <4>1, <4>3 DEF Here
        <5>2. \A i \in DOMAIN chan[q] : i < k
          BY <1>1
        <5> QED
          BY <5>1, <5>2
      <4> QED
        BY <1>7, <3>3, <4>2, <4>3, <4>4
    <3> QED
      BY <3>1, <3>2, <3>3
  <2>2. q # p /\ (n = p \/ n = q) /\ \A z \in Node : z = p \/ z = q
    BY TwoNodes
  <2>3. /\ Stage(n, At("chan", q, k)) = (IF n = p THEN 6 ELSE 1) /\ Stage(n, At("out", p, 0)) = (IF n = p THEN 7 ELSE 2)
        /\ At("chan", q, k).i = k /\ At("out", p, 0).i = 0
    BY <2>2 DEF Stage, At
  <2>4. ASSUME NEW z \in Place, Carried(z), m[z] = z
        PROVE  /\ Stage(n, z) \in 0..8 /\ Stage(n, z) # (IF n = p THEN 7 ELSE 2)
               /\ Stage(n, z) = (IF n = p THEN 6 ELSE 1) => z.i < k
    <3>1. CASE z.at = "data"
      BY <3>1 DEF Stage
    <3>2. z # At("chan", q, k)
      <4>1. At("chan", q, k) # At("out", p, 0)
        BY DEF At
      <4> QED
        BY <1>7, <2>4, <4>1
    <3>3. CASE z.at # "data"
      <4>1. /\ z.at \in {"extra", "out", "buf", "chan"} /\ z.n \in Node
            /\ z.n = p => z.at # "out"
            /\ z.n = q /\ z.at = "chan" => z.i < k
        BY <2>1, <2>4, <3>2, <3>3
      <4>2. CASE n = p
        BY <2>2, <3>3, <4>1, <4>2 DEF Stage
      <4>3. CASE n = q
        BY <2>2, <3>3, <4>1, <4>3 DEF Stage
      <4> QED
        BY <2>2, <4>2, <4>3
    <3> QED
      BY <3>1, <3>3
  <2>5. \A z \in Place : Carried(z) => m[z] = z \/ (z = At("chan", q, k) /\ m[z] = At("out", p, 0))
    BY <2>1
  <2>6. Stage(n, m[x]) < Stage(n, m[y]) \/ (Stage(n, m[x]) = Stage(n, m[y]) /\ m[x].i < m[y].i)
    BY <1>15 DEF Ahead
  <2>7. x.i \in Nat /\ y.i \in Nat
    BY AtFields
  <2> SUFFICES Stage(n, x) < Stage(n, y) \/ (Stage(n, x) = Stage(n, y) /\ x.i < y.i)
    BY DEF Ahead
  <2>8. CASE m[x] = x /\ m[y] = y
    BY <2>6, <2>8
  <2>9. CASE x = At("chan", q, k) /\ m[x] = At("out", p, 0) /\ m[y] = y
    BY <1>15, <2>3, <2>4, <2>6, <2>7, <2>9
  <2>10. CASE m[x] = x /\ y = At("chan", q, k) /\ m[y] = At("out", p, 0)
    BY <1>1, <1>15, <2>3, <2>4, <2>6, <2>7, <2>10
  <2>11. CASE m[x] = At("out", p, 0) /\ m[y] = At("out", p, 0)
    BY <2>3, <2>6, <2>11
  <2> QED
    BY <1>15, <2>5, <2>8, <2>9, <2>10, <2>11
<1> QED
  BY <1>7, <1>8, <1>10, <1>11, <1>12, <1>13, <1>14, <1>15, Relocated DEF Write

-----------------------------------------------------------------------------
(* The steps that answer a command, or end a file                           *)

\* The block that is handled is the file's place.
LEMMA Heard ==
  ASSUME TypeInv, NEW p \in Node, NEW k \in About, Whole(p, k)
  PROVE  /\ FileOf(p) \in File /\ Tells(At("buf", p, 0), k, FileOf(p))
         /\ Holds(At("buf", p, 0), FileOf(p))
         /\ k = "GET" => OffsOf(p) \in Nat
<1>1. b[p].buf \in Letter
  BY LocalRuns, FieldTypes DEF Whole, MaybeLetter, NoMsg, Block, About
<1>2. FileOf(p) \in File /\ (k = "GET" => OffsOf(p) \in Nat)
  BY <1>1 DEF Whole, FileOf, OffsOf, Letter
<1>3. Tells(At("buf", p, 0), k, FileOf(p))
  BY DEF Tells, Says, Here, Command, At, Whole, FileOf
<1> QED
  BY <1>2, <1>3, Places, TellsHolds

\* Mailer p takes file g from a, its input buffer or what it receives, to c.
Hands(p, g, a, c, e, d, v) ==
  /\ Now(p, e, b[p].out, NoMsg, d, v) /\ chan' = chan
  /\ Same(e, b[p].extra) \/ (e.file = g /\ c = At("extra", p, 0))
  /\ d = "data" => \/ b[p].frs = "data" /\ v = b[p].recv /\ a = At("buf", p, 0)
                   \/ v = g /\ c = At("data", p, 0)
  /\ inbound \subseteq inbound' /\ gone' \subseteq gone \cup {g}
  /\ g \in gone' \ gone => c = At("gone", g, 0)

LEMMA Handled ==
  ASSUME NEW p \in Node, NEW g \in File, NEW a \in {At("buf", p, 0), At("data", p, 0)}, NEW c,
         NEW e, NEW d, NEW v, Hands(p, g, a, c, e, d, v)
  PROVE  /\ \A f \in File, x \in Place : x.at # "queue" /\ Holds(x, f)' =>
                                           (x = c /\ f = g) \/ (Holds(x, f) /\ x # a)
         /\ \A f \in File, x \in Place, k \in About : Tells(x, k, f)' =>
                                           (x = c /\ f = g) \/ Tells(x, k, f)
<1>0. NoMsg.cmd \notin About
  BY DEF NoMsg, Block, About
<1>1. ASSUME NEW x \in Place, Here(x)', Command(x)'.cmd \in About
      PROVE  \/ x = c /\ Command(x)'.file = g
             \/ Here(x) /\ Command(x)' = Command(x) /\ x # a
  <2>1. x.n \in Node /\ Here(x) /\ (x.at # "chan" => x.i = 0) /\ x.at \in {"extra", "out", "buf", "chan"}
    BY <1>1 DEF Here, Hands
  <2>2. CASE x.n # p
    <3>1. Command(x)' = Command(x)
      BY <2>1, <2>2 DEF Command, Now, Hands
    <3> QED
      BY <2>1, <2>2, <3>1 DEF At
  <2>3. CASE x.n = p /\ x.at = "extra"
    <3>1. x = At("extra", p, 0) /\ Command(x)' = e /\ Command(x) = b[p].extra
      BY <2>1, <2>3 DEF Command, Now, Hands, At, Place
    <3> QED
      BY <1>1, <2>1, <3>1 DEF Same, At, Hands
  <2>4. CASE x.n = p /\ x.at = "buf"
    BY <1>0, <1>1, <2>4 DEF Command, Now, Hands
  <2>5. CASE x.n = p /\ x.at \in {"out", "chan"}
    <3>1. Command(x)' = Command(x)
      BY <2>1, <2>5 DEF Command, Now, Hands
    <3> QED
      BY <2>1, <2>5, <3>1 DEF At
  <2> QED
    BY <2>1, <2>2, <2>3, <2>4, <2>5
<1>2. ASSUME NEW f \in File, NEW x \in Place, x.at # "queue", Holds(x, f)'
      PROVE  (x = c /\ f = g) \/ (Holds(x, f) /\ x # a)
  <2>1. CASE Here(x)' /\ Speaks(Command(x), f)'
    BY <1>1, <2>1 DEF Holds, Speaks
  <2>2. CASE x.at = "data" /\ x.n \in Node /\ x.i = 0 /\ b'[x.n].frs = "data" /\ b'[x.n].recv = f
    <3>1. x = At("data", x.n, 0)
      BY <2>2, AtFields
    <3> QED
      BY <2>2, <3>1 DEF Holds, Now, At, Hands
  <2>3. CASE x.at = "answer" /\ x.n \in File \ inbound' /\ x.i \in DOMAIN Answers[x.n] /\ Answers[x.n][x.i] = f
    BY <2>3 DEF Holds, At, Hands
  <2>4. CASE x.at = "gone" /\ x.n = f /\ x.i = 0 /\ f \in gone'
    <3>1. x = At("gone", f, 0)
      BY <2>4, AtFields
    <3> QED
      BY <2>4, <3>1 DEF Holds, At, Hands
  <2> QED
    BY <1>2, <2>1, <2>2, <2>3, <2>4 DEF Holds
<1> QED
  BY <1>1, <1>2 DEF Tells, Says

(***************************************************************************)
(* Whose turn it is.  The receiver takes a file or answers for it, and     *)
(* stays with the file it sends itself.  The sender announces it again and *)
(* turns to it, or is done with it and may turn to none.                   *)
(***************************************************************************)
Turn(p, g, a, c, e, d, v) ==
  \/ /\ p # Sender[g] /\ b'[p].cur = b[p].cur
     /\ c \in {At("extra", p, 0), At("data", p, 0)}
     /\ c = At("extra", p, 0) => e.file = g /\ e.cmd \in {"GET", "GOT", "SKIP"} /\ d # "data"
     /\ c = At("data", p, 0) /\ d = "data" => v = g
  \/ /\ p = Sender[g] /\ a = At("buf", p, 0)
     /\ \/ c = At("extra", p, 0) /\ e.file = g /\ e.cmd = "FILE" /\ b'[p].cur = g
        \/ /\ c \in {At("gone", g, 0), a}
           /\ b'[p].cur = b[p].cur \/ (b[p].cur = g /\ b'[p].cur = NoFile)

\* So the order on the way stays what it was.
LEMMA HandedOrder ==
  ASSUME TInv, NEW p \in Node, NEW g \in File,
         NEW a \in {At("buf", p, 0), At("data", p, 0)}, Holds(a, g),
         NEW c, NEW e, NEW d, NEW v, Hands(p, g, a, c, e, d, v), Turn(p, g, a, c, e, d, v),
         \A f \in File, x \in Place : x.at = "queue" /\ Holds(x, f)' => x.n = Sender[f]
  PROVE  Sides' /\ CurLast'
<1>0. NoMsg.cmd \notin About /\ NoFile \notin File /\ \A f \in File : Sender[f] \in Node
  BY FileAssumption DEF NoMsg, Block, About
<1>1. /\ \A f \in File, x \in Place : x.at # "queue" /\ Holds(x, f)' => (x = c /\ f = g) \/ (Holds(x, f) /\ x # a)
      /\ \A f \in File, x \in Place, k \in About : Tells(x, k, f)' => (x = c /\ f = g) \/ Tells(x, k, f)
  BY Handled
<1>2. a \in Place /\ a.n = p /\ a.i = 0 /\ c \in Place /\ c.i = 0 /\ Live(a, g)
  <2>1. a \in Place /\ a.n = p /\ a.i = 0 /\ a.at \in {"buf", "data"}
    <3>1. a \in Place
      BY Places
    <3> QED
      BY <3>1, AtFields
  <2>2. c \in {At("extra", p, 0), At("data", p, 0), At("gone", g, 0), a}
    BY DEF Turn
  <2>3. c \in Place
    BY <2>1, <2>2, Places
  <2>4. c.i = 0
    BY <2>1, <2>2 DEF At
  <2> QED
    BY <2>1, <2>3, <2>4 DEF Live
<1>3. b'[p].extra = e /\ b'[p].buf = NoMsg /\ b'[p].frs = d /\ b'[p].recv = v /\ \A n \in Node \ {p} : b'[n] = b[n]
  BY DEF Hands, Now
<1>4. ASSUME NEW f \in File, NEW x \in Place, Live(x, f)'
      PROVE  (x = c /\ f = g) \/ (Live(x, f) /\ x # a)
  BY <1>1, <1>4 DEF Live
<1>5. Sides'
  <2>1. ASSUME NEW f \in File, NEW x \in Place, NEW k \in About, Tells(x, k, f)'
        PROVE  k = "FILE" <=> Outward(x, Sender[f])
    <3>1. CASE Tells(x, k, f)
      BY <3>1 DEF TInv, Sides
    <3>2. CASE x = c /\ f = g
      <4>1. c # At("gone", g, 0) /\ c # At("data", p, 0)
        BY <2>1, <3>2 DEF Tells, Here, At
      <4>2. c # At("buf", p, 0)
        BY <1>0, <1>3, <2>1, <3>2 DEF Tells, Says, Command, At
      <4>3. c = At("extra", p, 0)
        BY <4>1, <4>2 DEF Turn
      <4>4. e.cmd = k
        BY <1>3, <2>1, <3>2, <4>3 DEF Tells, Says, Command, At
      <4>5. At("extra", p, 0) # a /\ At("extra", p, 0) # At("gone", g, 0)
        BY DEF At
      <4>6. Outward(c, Sender[g]) <=> p = Sender[g]
        BY <4>3 DEF Outward, At
      <4> QED
        BY <3>2, <4>3, <4>4, <4>5, <4>6 DEF Turn
    <3> QED
      BY <1>1, <2>1, <3>1, <3>2
  <2>2. ASSUME NEW f \in File, NEW x \in Place, Holds(x, f)', x.at = "data"
        PROVE  x.n # Sender[f]
    <3>1. CASE Holds(x, f)
      BY <2>2, <3>1 DEF TInv, Sides
    <3>2. CASE x = c /\ f = g
      <4>1. c.n = p /\ p # Sender[g]
        BY <2>2, <3>2 DEF Turn, At
      <4> QED
        BY <3>2, <4>1
    <3> QED
      BY <1>1, <2>2, <3>1, <3>2
  <2>3. ASSUME NEW n \in Node, b'[n].cur \in File PROVE Sender[b'[n].cur] = n
    <3>1. CASE b'[n].cur = b[n].cur
      BY <2>3, <3>1 DEF TInv, Sides
    <3>2. CASE b'[n].cur # b[n].cur
      BY <1>0, <1>3, <2>3, <3>2 DEF Turn
    <3> QED
      BY <3>1, <3>2
  <2> QED
    BY <2>1, <2>2, <2>3 DEF Sides
<1>6. ASSUME NEW f \in File, f # b'[Sender[f]].cur, b'[Sender[f]].cur = b[Sender[f]].cur, NEW x \in Place, Live(x, f)',
             c.at \notin {"gone", "buf"}, p # Sender[g]
      PROVE  /\ b[Sender[f]].cur # NoFile
             /\ \A y \in Place : Live(y, b[Sender[f]].cur)' => Ahead(Sender[f], x, y)
  <2>1. PICK n \in Node : n = Sender[f]
    BY <1>0
  <2>2. PICK k : k = b[n].cur
    OBVIOUS
  <2>3. k \in File \cup {NoFile} /\ (k \in File => Sender[k] = n) /\ Behind(f, k)
    BY <1>6, <2>1, <2>2, LocalRuns, FieldTypes DEF TInv, Sides, CurLast
  <2>4. k # NoFile /\ \E z \in Place : Live(z, f)
    BY <1>2, <1>4, <1>6, <2>3 DEF Behind
  <2>5. ASSUME NEW y \in Place, Live(y, k)' PROVE Ahead(n, x, y)
    <3>1. CASE x = c /\ f = g
      <4>1. Live(y, k)
        BY <1>4, <1>6, <2>1, <2>2, <2>3, <2>4, <2>5, <3>1
      <4>2. Ahead(n, a, y)
        BY <1>2, <2>1, <2>3, <3>1, <4>1 DEF Behind
      <4>3. Stage(n, c) < Stage(n, a) \/ c = a
        <5>1. n # p
          BY <1>6, <2>1, <3>1
        <5> QED
          BY <1>6, <5>1 DEF Turn, Stage, At
      <4>4. Stage(n, c) \in 0..8 /\ Stage(n, a) \in 0..8 /\ Stage(n, y) \in 0..8
        BY DEF Stage
      <4> QED
        BY <3>1, <4>2, <4>3, <4>4 DEF Ahead
    <3>2. CASE Live(x, f) /\ x # a /\ Live(y, k)
      BY <2>1, <2>3, <3>2 DEF Behind
    <3>3. CASE f # g /\ y = c /\ k = g
      <4>1. Live(x, f) /\ x # a
        BY <1>4, <1>6, <3>3
      <4>2. Ahead(n, x, a) /\ n # p
        BY <1>2, <1>6, <2>1, <2>3, <3>3, <4>1 DEF Behind
      <4>3. ~(x.at = "data" /\ x.n = n)
        BY <2>1, <4>1 DEF TInv, Sides, Live
      <4>4. x.at \in {"extra", "out", "chan", "buf", "data"} /\ x.n \in Node /\ (x.at # "chan" => x.i = 0) /\ Holds(x, f)'
        BY <1>6, <4>1 DEF Live, Holds, Here
      <4>5. x.at = "extra" /\ x.n = p => c # At("extra", p, 0)
        <5>1. ASSUME x.at = "extra", x.n = p PROVE b'[p].extra.file = f
          BY <4>4, <5>1 DEF Holds, Speaks, Command
        <5> QED
          BY <1>3, <1>6, <3>3, <5>1 DEF Turn
      <4>6. x.at = "data" /\ x.n = p => c \notin {At("data", p, 0), At("extra", p, 0)}
        <5>1. ASSUME x.at = "data", x.n = p PROVE b'[p].frs = "data" /\ b'[p].recv = f
          BY <4>4, <5>1 DEF Holds, Here
        <5> QED
          BY <1>3, <1>6, <3>3, <5>1 DEF Turn
      <4>7. c \in {At("data", p, 0), At("extra", p, 0)}
        BY <1>6 DEF Turn
      <4>8. n = Peer(p) /\ (x.n = n \/ x.n = p)
        BY <4>2, <4>4, TwoNodes
      <4>9. Stage(n, x) # 4 /\ (c = At("extra", p, 0) => Stage(n, x) # 3)
        <5>1. x.at # "data"
          BY <4>3, <4>6, <4>7, <4>8
        <5> QED
          BY <4>2, <4>4, <4>5, <4>8, <5>1 DEF Stage
      <4>10. Stage(n, c) = (IF c = At("extra", p, 0) THEN 3 ELSE 4)
        BY <4>2, <4>7 DEF Stage, At
      <4>11. Stage(n, a) \in {4, 5} /\ Stage(n, x) \in 0..8
        BY <4>2 DEF Stage, At
      <4>12. Stage(n, x) # Stage(n, a)
        <5>1. CASE a = At("data", p, 0)
          BY <4>9, <5>1 DEF Stage, At
        <5>2. CASE a = At("buf", p, 0)
          <6>1. Stage(n, a) = 5
            BY <4>2, <5>2 DEF Stage, At
          <6>2. Stage(n, x) = 5 => x.at = "buf" /\ x.n = p
            BY <4>2, <4>8 DEF Stage
          <6>3. x.at = "buf" /\ x.n = p => x = a
            BY <4>4, <5>2, AtFields
          <6> QED
            BY <4>1, <6>1, <6>2, <6>3
        <5> QED
          BY <5>1, <5>2
      <4>13. Stage(n, x) < Stage(n, a)
        BY <4>2, <4>12 DEF Ahead
      <4>14. Stage(n, x) < Stage(n, c)
        BY <4>7, <4>9, <4>10, <4>11, <4>13
      <4> QED
        BY <3>3, <4>14 DEF Ahead
    <3> QED
      BY <1>4, <1>6, <2>1, <2>2, <2>4, <2>5, <3>1, <3>2, <3>3, <2>3
  <2> QED
    BY <1>6, <2>1, <2>2, <2>4, <2>5
<1>7. CASE p # Sender[g]
  <2>1. Steady /\ c.at \notin {"gone", "buf"}
    BY <1>3, <1>7 DEF Steady, Turn, At
  <2>2. \A f \in File : b'[Sender[f]].cur = b[Sender[f]].cur
    BY <1>0, <2>1 DEF Steady
  <2>3. CurLast'
    BY <1>6, <1>7, <2>1, <2>2 DEF CurLast, Behind
  <2> QED
    BY <1>5, <2>3
<1>8. CASE p = Sender[g]
  <2> SUFFICES ASSUME NEW f \in File, f # b'[Sender[f]].cur, NEW x \in Place, Live(x, f)'
               PROVE  /\ b'[Sender[f]].cur # NoFile
                      /\ \A y \in Place : Live(y, b[Sender[f]].cur)' => Ahead(Sender[f], x, y)
    BY <1>5 DEF CurLast, Behind
  <2>1. PICK n \in Node : n = Sender[f]
    BY <1>0
  <2>2. PICK k : k = b'[n].cur
    OBVIOUS
  <2>3. PICK j : j = b[n].cur
    OBVIOUS
  <2>4. j \in File \cup {NoFile} /\ (j \in File => Sender[j] = n) /\ (f # j => Behind(f, j))
    BY <2>1, <2>3, LocalRuns, FieldTypes DEF TInv, Sides, CurLast
  <2>5. a = At("buf", p, 0) /\ Stage(p, a) = 0
    BY <1>8 DEF Turn, Stage, At
  <2>6. CASE n # p
    <3>1. k = j /\ f # g /\ j # g
      BY <1>3, <1>8, <2>1, <2>2, <2>3, <2>4, <2>6
    <3>2. Live(x, f) /\ Behind(f, j) /\ j # NoFile /\ j \in File
      BY <1>4, <2>1, <2>2, <2>4, <3>1 DEF Behind
    <3>3. \A y \in Place : Live(y, j)' => Live(y, j)
      BY <1>4, <3>1, <3>2
    <3> QED
      BY <2>1, <2>2, <2>3, <3>1, <3>2, <3>3 DEF Behind
  <2>7. CASE n = p /\ c = At("extra", p, 0)
    <3>1. e.file = g /\ k = g
      <4>1. At("extra", p, 0) # At("gone", g, 0) /\ At("extra", p, 0) # a
        BY DEF At
      <4> QED
        BY <1>8, <2>2, <2>7, <4>1 DEF Turn
    <3>2. ASSUME NEW y \in Place, Live(y, g)' PROVE y = c
      <4>1. CASE Live(y, g) /\ y # a
        BY <1>2, <4>1 DEF Live, TInv, OnePlace
      <4> QED
        BY <1>4, <3>2, <4>1
    <3>3. x.at \in {"extra", "out", "chan", "buf", "data"} /\ x.n \in Node /\ (x.at # "chan" => x.i = 0) /\ Holds(x, f)'
      BY DEF Live, Holds, Here
    <3>4. ~(x.at = "extra" /\ x.n = p)
      <4>1. ASSUME x.at = "extra", x.n = p PROVE b'[p].extra.file = f
        BY <3>3, <4>1 DEF Holds, Speaks, Command
      <4> QED
        BY <1>3, <2>1, <2>2, <2>7, <3>1, <4>1
    <3>5. Stage(p, x) < 8 /\ Stage(p, c) = 8
      BY <2>7, <3>4 DEF Stage, At
    <3>6. Ahead(p, x, c)
      BY <3>5 DEF Ahead
    <3> QED
      BY <1>0, <2>1, <2>2, <2>7, <3>1, <3>2, <3>6, <1>5
  <2>8. CASE n = p /\ c # At("extra", p, 0)
    <3>1. c \in {At("gone", g, 0), At("buf", p, 0)} /\ (k = j \/ (j = g /\ k = NoFile))
      BY <1>8, <2>2, <2>3, <2>5, <2>8 DEF Turn
    <3>2. ~Live(c, g)'
      <4>1. CASE c = At("gone", g, 0)
        BY <4>1 DEF Live, At
      <4>2. CASE c = At("buf", p, 0)
        BY <1>0, <1>3, <4>2 DEF Live, Holds, Speaks, Command, At
      <4> QED
        BY <3>1, <4>1, <4>2
    <3>3. \A h \in File, y \in Place : Live(y, h)' => Live(y, h) /\ y # a
      BY <1>4, <3>2
    <3>4. Live(x, f) /\ x # a /\ x.i \in Nat
      BY <3>3, AtFields
    <3>5. CASE k = j
      <4>1. j # NoFile /\ Behind(f, j)
        BY <2>1, <2>2, <2>4, <3>4, <3>5 DEF Behind
      <4> QED
        BY <2>1, <2>2, <2>3, <2>4, <3>3, <3>4, <3>5, <4>1 DEF Behind
    <3>6. CASE k # j
      <4>1. f # g
        <5>1. ASSUME f = g PROVE x = a
          BY <1>2, <3>4, <5>1 DEF TInv, OnePlace, Live
        <5> QED
          BY <3>4, <5>1
      <4>2. Ahead(p, x, a)
        BY <1>2, <2>1, <2>4, <2>8, <3>1, <3>4, <3>6, <4>1 DEF Behind
      <4>3. Stage(p, x) \in 0..8
        BY DEF Stage
      <4> QED
        BY <1>2, <2>5, <3>4, <4>2, <4>3 DEF Ahead
    <3> QED
      BY <3>5, <3>6
  <2> QED
    BY <2>6, <2>7, <2>8
<1> QED
  BY <1>7, <1>8

LEMMA Answered ==
  ASSUME TInv, TypeInv', OpenOk', NEW p \in Node, NEW g \in File,
         NEW a \in {At("buf", p, 0), At("data", p, 0)}, Holds(a, g),
         NEW c \in {At("extra", p, 0), At("data", p, 0), At("gone", g, 0), a},
         NEW e, NEW d, NEW v, Hands(p, g, a, c, e, d, v), Turn(p, g, a, c, e, d, v),
         queue' = queue, Recorded(g),
         g \in gone' \/ (c = At("extra", p, 0) /\ e.cmd = "GOT") => Kept(g)',
         c = At("extra", p, 0) /\ e.cmd \in {"FILE", "GET"} => snd'[g].open
  PROVE  TInv'
<1>1. a \in Place /\ c \in Place
  BY Places
<1>2. /\ \A f \in File, x \in Place : x.at # "queue" /\ Holds(x, f)' =>
                                           (x = c /\ f = g) \/ (Holds(x, f) /\ x # a)
      /\ \A f \in File, x \in Place, k \in About : Tells(x, k, f)' =>
                                           (x = c /\ f = g) \/ Tells(x, k, f)
  BY Handled
<1>3. \A f \in File, x \in Place : x.at = "queue" /\ Holds(x, f)' => Holds(x, f) /\ x # a
  BY DEF Holds, At, Here
<1>4. \A f \in File, x \in Place : Holds(x, f)' => (x = c /\ f = g) \/ (Holds(x, f) /\ x # a)
  BY <1>2, <1>3
<1>5. \A k \in About : Tells(c, k, g)' => c = At("extra", p, 0) /\ e.cmd = k
  <2>1. NoMsg.cmd \notin About
    BY DEF NoMsg, Block, About
  <2>2. CASE c = At("extra", p, 0)
    BY <2>2 DEF Tells, Says, Command, At, Now, Hands
  <2>3. CASE c = At("buf", p, 0)
    BY <2>1, <2>3 DEF Tells, Says, Command, At, Now, Hands
  <2>4. CASE c \in {At("data", p, 0), At("gone", g, 0)}
    BY <2>4 DEF Tells, Here, At
  <2> QED
    BY <2>2, <2>3, <2>4
<1>6. OnePlace' /\ AckedKept' /\ AnnouncedOpen'
  BY <1>1, <1>2, <1>4, <1>5, Passed DEF About
<1>7. Sides' /\ CurLast'
  <2>1. \A f \in File, x \in Place : x.at = "queue" /\ Holds(x, f)' => x.n = Sender[f]
    BY <1>3 DEF TInv, Sides
  <2> QED
    BY <2>1, HandedOrder
<1> QED
  BY <1>6, <1>7 DEF TInv

LEMMA ExtraFields ==
  ASSUME NEW r \in Local, NEW m \in MaybeLetter
  PROVE  /\ WithExtra(r, m) \in Local /\ WithExtra(r, m).extra = m /\ WithExtra(r, m).out = r.out
         /\ WithExtra(r, m).buf = r.buf /\ WithExtra(r, m).frs = r.frs /\ WithExtra(r, m).recv = r.recv
         /\ WithExtra(r, m).cur = r.cur
<1>1. WithExtra(r, m) \in Local
  BY Put_extra, Put_last DEF WithExtra
<1> QED
  BY <1>1 DEF WithExtra, Local

\* Only what is said changes, not what is open to be received.
LEMMA OpenSame ==
  ASSUME TInv, NEW p \in Node, NEW e, NEW o, NEW i, NEW d, NEW v, Now(p, e, o, i, d, v),
         d = "data" => b[p].frs = "data" /\ v = b[p].recv,
         rcv' = rcv, inbound' = inbound
  PROVE  OpenOk'
BY DEF TInv, OpenOk, Now

\* A file in the mailer's hands has not been unlinked by its sender.
LEMMA NotGone ==
  ASSUME TInv, NEW p \in Node, NEW f \in File, NEW a \in {At("buf", p, 0), At("data", p, 0)}, Holds(a, f)
  PROVE  f \notin gone
<1>1. ASSUME f \in gone PROVE a = At("gone", f, 0)
  <2>1. Holds(At("gone", f, 0), f)
    BY <1>1 DEF Holds, At
  <2> QED
    BY <2>1, Places DEF TInv, OnePlace
<1> QED
  BY <1>1 DEF At

\* An M_FILE is handled by the file's receiver, an answer by its sender.
LEMMA WhoHears ==
  ASSUME TInv, NEW p \in Node, NEW k \in About, Whole(p, k)
  PROVE  k = "FILE" <=> p # Sender[FileOf(p)]
<1>1. FileOf(p) \in File /\ Tells(At("buf", p, 0), k, FileOf(p)) /\ At("buf", p, 0) \in Place
  BY Heard, Places DEF TInv
<1>2. Outward(At("buf", p, 0), Sender[FileOf(p)]) <=> p # Sender[FileOf(p)]
  BY DEF Outward, At
<1> QED
  BY <1>1, <1>2 DEF TInv, Sides

LEMMA FileAfterGetStep ==
  ASSUME TInv, TypeInv', NEW p \in Node, FileAfterGet(p)
  PROVE  TInv'
<1> DEFINE r == b[p]
           f == FileOf(p)
           a == At("buf", p, 0)
<1>1. TypeInv /\ r \in Local /\ f \in File /\ Holds(a, f) /\ Tells(a, "FILE", f)
  BY LocalRuns, Heard DEF TInv, FileAfterGet, About
<1>2. [r EXCEPT !.rcvd = TRUE] \in Local /\ [r EXCEPT !.rcvd = TRUE, !.frs = "data"] \in Local
  BY <1>1, Put_rcvd, Put_frs
<1>3. f \notin gone
  BY <1>1, NotGone
<1>4. Recorded(f) /\ inbound' = inbound /\ gone' = gone /\ chan' = chan /\ queue' = queue /\ rcv' = rcv
  BY DEF FileAfterGet, Recorded
<1>5. p # Sender[f]
  BY WhoHears DEF FileAfterGet, About
<1>6. CASE Wanted(p) /\ Accepts(p, [r EXCEPT !.rcvd = TRUE, !.frs = "data"])
  <2> DEFINE s == [r EXCEPT !.rcvd = TRUE, !.frs = "data"]
  <2>1. s.extra = r.extra /\ s.out = r.out /\ s.frs = "data" /\ s.recv = f /\ s.cur = r.cur
    BY <1>1, <1>6 DEF Local, Wanted
  <2>2. Now(p, r.extra, r.out, NoMsg, "data", f) /\ b'[p].cur = r.cur
    BY <1>1, <1>2, <1>6, <2>1, NowAccepts
  <2>3. Hands(p, f, a, At("data", p, 0), r.extra, "data", f)
    BY <1>4, <2>2 DEF Hands, Same
  <2>4. OpenOk'
    <3>1. rcv[f].open /\ f \notin inbound
      BY <1>1, <1>6 DEF Wanted, TInv, OpenOk
    <3>2. a.n = p
      BY DEF At
    <3> QED
      BY <1>1, <1>4, <2>2, <3>1, <3>2, Places, OpenKept DEF Now
  <2>5. At("data", p, 0) # At("extra", p, 0)
    BY DEF At
  <2>6. Turn(p, f, a, At("data", p, 0), r.extra, "data", f)
    BY <1>5, <2>2, <2>5 DEF Turn
  <2> QED
    BY <1>1, <1>3, <1>4, <2>3, <2>4, <2>5, <2>6, Answered
<1>7. CASE Keeps(p)
  BY <1>7, KeepsCalm DEF FileAfterGet
<1>8. CASE Accepts(p, WithExtra([r EXCEPT !.rcvd = TRUE], Block("SKIP", f, 0)))
  <2> DEFINE s == [r EXCEPT !.rcvd = TRUE]
             e == Block("SKIP", f, 0)
  <2>1. s.out = r.out /\ s.frs = r.frs /\ s.recv = r.recv /\ s.cur = r.cur /\ e \in MaybeLetter
    BY <1>1, Letters DEF Local, MaybeLetter
  <2>2. Now(p, e, r.out, NoMsg, r.frs, r.recv) /\ b'[p].cur = r.cur
    <3> DEFINE t == WithExtra(s, e)
    <3>1. t \in Local /\ t.extra = e /\ t.out = s.out /\ t.frs = s.frs /\ t.recv = s.recv /\ t.cur = s.cur
      BY <1>2, <2>1, ExtraFields
    <3>2. Accepts(p, t)
      BY <1>8
    <3> HIDE DEF t
    <3> QED
      BY <1>1, <2>1, <3>1, <3>2, NowAccepts
  <2>3. e.file = f /\ e.cmd = "SKIP"
    BY DEF Block
  <2>4. r.frs # "data"
    BY DEF FileAfterGet
  <2>5. Hands(p, f, a, At("extra", p, 0), e, r.frs, r.recv)
    BY <1>4, <2>2, <2>3, <2>4 DEF Hands
  <2>6. OpenOk'
    BY <1>4, <2>2, <2>4, OpenSame
  <2>7. At("data", p, 0) # At("extra", p, 0)
    BY DEF At
  <2>8. Turn(p, f, a, At("extra", p, 0), e, r.frs, r.recv)
    BY <1>5, <2>2, <2>3, <2>4, <2>7 DEF Turn
  <2> QED
    BY <1>1, <1>3, <1>4, <2>3, <2>5, <2>6, <2>8, Answered
<1> QED
  BY <1>6, <1>7, <1>8 DEF FileAfterGet

\* M_GET is answered with M_FILE.
LEMMA ResentNow ==
  ASSUME TypeInv, NEW p \in Node, NEW r \in Local, FileOf(p) \in File, OffsOf(p) \in Nat,
         r.out = b[p].out, r.frs = b[p].frs, r.recv = b[p].recv, Accepts(p, Resent(p, r))
  PROVE  /\ Now(p, Block("FILE", FileOf(p), OffsOf(p)), b[p].out, NoMsg, b[p].frs, b[p].recv)
         /\ b'[p].cur = r.cur
<1> DEFINE e == Block("FILE", FileOf(p), OffsOf(p))
           s == WithExtra(r, e)
           t == [s EXCEPT !.phase = 2, !.contsend = TRUE]
<1>1. e \in MaybeLetter
  BY Letters DEF MaybeLetter
<1>2. s \in Local /\ s.extra = e /\ s.out = r.out /\ s.frs = r.frs /\ s.recv = r.recv /\ s.cur = r.cur
  BY <1>1, ExtraFields
<1> HIDE DEF s
<1>3. t \in Local /\ t.extra = e /\ t.out = r.out /\ t.frs = r.frs /\ t.recv = r.recv /\ t.cur = r.cur
  <2>1. t \in Local
    BY <1>2, Put_phase, Put_contsend
  <2> QED
    BY <1>2, <2>1 DEF Local
<1>4. Accepts(p, t)
  BY DEF Resent, s
<1> QED
  BY <1>3, <1>4, NowAccepts

LEMMA GetStep ==
  ASSUME TInv, TypeInv', NEW p \in Node, GetHere(p) \/ GetRewind(p)
  PROVE  TInv'
<1> DEFINE r == b[p]
           f == FileOf(p)
           a == At("buf", p, 0)
           e == Block("FILE", f, OffsOf(p))
<1>1. TypeInv /\ r \in Local /\ f \in File /\ Holds(a, f) /\ Tells(a, "GET", f) /\ OffsOf(p) \in Nat
  BY LocalRuns, Heard DEF TInv, GetHere, GetRewind, About
<1>2. f \notin gone
  BY <1>1, NotGone
<1>3. /\ inbound' = inbound /\ gone' = gone /\ chan' = chan /\ queue' = queue /\ rcv' = rcv
      /\ \A g \in File : snd'[g].open = snd[g].open
  <2>1. CASE GetHere(p)
    BY <2>1 DEF GetHere
  <2>2. CASE GetRewind(p)
    <3> DEFINE w == [snd[f] EXCEPT !.pos = OffsOf(p), !.status = IF r.cur = f THEN @ ELSE "process"]
    <3>1. snd \in [File -> Sinfo] /\ snd' = [snd EXCEPT ![f] = w]
      BY <1>1, <2>2 DEF TypeInv, GetRewind
    <3>2. w.open = snd[f].open
      BY <1>1, <3>1 DEF Sinfo
    <3> QED
      BY <1>1, <2>2, <3>1, <3>2 DEF GetRewind
  <2> QED
    BY <2>1, <2>2
<1>4. Now(p, e, r.out, NoMsg, r.frs, r.recv) /\ b'[p].cur = f
  <2>1. CASE GetHere(p)
    BY <1>1, <2>1, ResentNow DEF GetHere, GetMatches
  <2>2. CASE GetRewind(p)
    <3> DEFINE w == r.waitgot \/ r.cur # f
               s == [r EXCEPT !.cur = f, !.waitgot = w]
    <3>1. w \in BOOLEAN
      BY <1>1, FieldTypes
    <3>2. s \in Local
      BY <1>1, <3>1, Put_cur, Put_waitgot
    <3>3. s.out = r.out /\ s.frs = r.frs /\ s.recv = r.recv /\ s.cur = f
      BY <1>1 DEF Local
    <3>4. Accepts(p, Resent(p, s))
      BY <2>2 DEF GetRewind
    <3> QED
      BY <1>1, <3>2, <3>3, <3>4, ResentNow
  <2> QED
    BY <2>1, <2>2
<1>5. snd'[f].open
  <2>1. Announced(f)
    BY <1>1, Places DEF Announced
  <2> QED
    BY <1>1, <1>3, <2>1 DEF TInv, AnnouncedOpen
<1>6. e.file = f /\ e.cmd = "FILE"
  BY DEF Block
<1>7. Hands(p, f, a, At("extra", p, 0), e, r.frs, r.recv) /\ Recorded(f)
  BY <1>3, <1>4, <1>6 DEF Hands, Recorded
<1>8. OpenOk'
  BY <1>3, <1>4, OpenSame
<1>9. p = Sender[f]
  BY WhoHears DEF GetHere, GetRewind, About
<1>10. Turn(p, f, a, At("extra", p, 0), e, r.frs, r.recv)
  BY <1>4, <1>6, <1>9 DEF Turn
<1> QED
  BY <1>1, <1>2, <1>3, <1>5, <1>6, <1>7, <1>8, <1>10, Answered

LEMMA ExtraNow ==
  ASSUME TypeInv, NEW p \in Node, NEW s \in Local, NEW e \in MaybeLetter, s.out = b[p].out,
         Accepts(p, WithExtra(s, e))
  PROVE  Now(p, e, b[p].out, NoMsg, s.frs, s.recv) /\ b'[p].cur = s.cur
<1> DEFINE t == WithExtra(s, e)
<1>1. t \in Local /\ t.extra = e /\ t.out = s.out /\ t.frs = s.frs /\ t.recv = s.recv /\ t.cur = s.cur
  BY ExtraFields
<1>2. Accepts(p, t)
  OBVIOUS
<1> HIDE DEF t
<1> QED
  BY <1>1, <1>2, NowAccepts

\* M_GOT: the file is unlinked; M_SKIP: it is kept, and nothing more is said.
LEMMA AckStep ==
  ASSUME TInv, TypeInv', NEW p \in Node, Ack(p)
  PROVE  TInv'
<1>0. PICK f : f = FileOf(p)
  OBVIOUS
<1> DEFINE r == b[p]
           a == At("buf", p, 0)
           s == [snd EXCEPT ![f].status = AckStatus(p), ![f].open = FALSE]
           n == IF Aborts(p) THEN NoFile ELSE r.cur
           h == IF Aborts(p) THEN 0 ELSE r.phase
           w == r.waitgot /\ ~AllConfirmed(p, s)
           t == [r EXCEPT !.cur = n, !.phase = h, !.waitgot = w]
<1>1. TypeInv /\ r \in Local
  BY LocalRuns DEF TInv
<1>2. f \in File /\ Holds(a, f) /\ (Tells(a, "GOT", f) \/ Whole(p, "SKIP"))
  <2>1. CASE Whole(p, "GOT")
    BY <1>0, <1>1, <2>1, Heard DEF About
  <2>2. CASE Whole(p, "SKIP")
    BY <1>0, <1>1, <2>2, Heard DEF About
  <2> QED
    BY <2>1, <2>2 DEF Ack, IsAck
<1>3. f \notin gone
  BY <1>2, NotGone
<1>4. n \in File \cup {NoFile} /\ h \in {0, 2, 5, 100} /\ w \in BOOLEAN
  BY <1>1, FieldTypes
<1>5. t \in Local
  <2>1. [r EXCEPT !.cur = n] \in Local
    BY <1>1, <1>4, Put_cur
  <2>2. [r EXCEPT !.cur = n, !.phase = h] \in Local
    BY <1>4, <2>1, Put_phase
  <2> QED
    BY <1>4, <2>2, Put_waitgot
<1>6. t.extra = r.extra /\ t.out = r.out /\ t.frs = r.frs /\ t.recv = r.recv /\ t.cur = n
  BY <1>1 DEF Local
<1>7. Accepts(p, t)
  BY <1>0 DEF Ack
<1>8. Now(p, r.extra, r.out, NoMsg, r.frs, r.recv) /\ b'[p].cur = n
  BY <1>1, <1>5, <1>6, <1>7, NowAccepts
<1>9. /\ inbound' = inbound /\ chan' = chan /\ queue' = queue /\ rcv' = rcv
      /\ gone' = IF AckStatus(p) \in Stored THEN gone \cup {f} ELSE gone
  BY <1>0 DEF Ack
<1>10. \A g \in File \ {f} : snd'[g] = snd[g]
  BY <1>0, <1>1, <1>2 DEF Ack, TypeInv
<1>11. Recorded(f)
  BY <1>9, <1>10 DEF Recorded
<1>12. OpenOk'
  BY <1>8, <1>9, OpenSame
<1>13. a # At("extra", p, 0) /\ At("gone", f, 0) # At("extra", p, 0)
  BY DEF At
<1>14. p = Sender[f] /\ (n = r.cur \/ (r.cur = f /\ n = NoFile))
  <2>1. p = Sender[f]
    BY <1>0, WhoHears DEF Ack, IsAck, About
  <2> QED
    BY <1>0, <2>1 DEF Aborts
<1>15. CASE AckStatus(p) \in Stored
  <2>1. ~Whole(p, "SKIP")
    BY <1>15 DEF AckStatus, Stored, Whole
  <2>2. Kept(f)
    BY <1>2, <2>1, Places DEF TInv, AckedKept, Acknowledged
  <2>3. Kept(f)'
    BY <1>9, <2>2 DEF Kept
  <2>4. Hands(p, f, a, At("gone", f, 0), r.extra, r.frs, r.recv)
    BY <1>8, <1>9, <1>15 DEF Hands, Same
  <2>5. Turn(p, f, a, At("gone", f, 0), r.extra, r.frs, r.recv)
    BY <1>8, <1>14 DEF Turn
  <2> QED
    BY <1>2, <1>9, <1>11, <1>12, <1>13, <2>3, <2>4, <2>5, Answered
<1>16. CASE AckStatus(p) \notin Stored
  <2>1. Hands(p, f, a, a, r.extra, r.frs, r.recv)
    BY <1>8, <1>9, <1>16 DEF Hands, Same
  <2>2. Turn(p, f, a, a, r.extra, r.frs, r.recv)
    BY <1>8, <1>14 DEF Turn
  <2> QED
    BY <1>2, <1>3, <1>9, <1>11, <1>12, <1>13, <1>16, <2>1, <2>2, Answered
<1> QED
  BY <1>15, <1>16

\* M_FILE is taken, or answered with M_GET, M_SKIP or M_GOT.
LEMMA FileOpenStep ==
  ASSUME TInv, TypeInv', NEW p \in Node, FileOpen(p)
  PROVE  TInv'
<1>0. PICK f : f = FileOf(p)
  OBVIOUS
<1> DEFINE r == b[p]
           a == At("buf", p, 0)
           s == [r EXCEPT !.rcvd = TRUE, !.recv = f]
<1>1. TypeInv /\ r \in Local /\ f \in File /\ Holds(a, f) /\ Tells(a, "FILE", f) /\ f \notin gone
  BY <1>0, LocalRuns, Heard, NotGone DEF TInv, FileOpen, About
<1>2. PICK d \in FopenResults(p, f) :
           /\ rcv' = [rcv EXCEPT ![f] = Fopened(p, f, d)]
           /\ inbound' = IF d = "move" THEN inbound \cup {f} ELSE inbound
           /\ Accepts(p, Reply(p, f, d))
  BY <1>0 DEF FileOpen
<1>3. rcv \in [File -> Rinfo] /\ rcv[f] \in Rinfo /\ rcv'[f] = Fopened(p, f, d)
  BY <1>1, <1>2 DEF TypeInv
<1>4. Fopened(p, f, d) \in Rinfo /\ Fopened(p, f, d).skip \in Nat
  <2>1. d \in {"open", "refuse", "skip", "move"}
    BY <1>2 DEF FopenResults
  <2> QED
    BY <1>1, <2>1, RxTypes DEF Rinfo
<1>5. /\ rcv'[f].open <=> d = "open"
      /\ d = "open" => f \notin inbound
      /\ d \in {"skip", "move"} => rcv'[f].status = "skipped"
  <2>1. CASE Duplicate(p, f)
    BY <1>1, <1>2, <1>3, <2>1 DEF FopenResults, Fopened, TInv, OpenOk, Duplicate
  <2>2. CASE ~Duplicate(p, f)
    BY <1>1, <1>2, <1>3, <2>2 DEF FopenResults, Fopened, Rinfo
  <2> QED
    BY <2>1, <2>2
<1>6. s \in Local /\ s.extra = r.extra /\ s.out = r.out /\ s.buf = r.buf /\ s.frs = r.frs /\ s.recv = f /\ s.cur = r.cur
  <2>1. s \in Local
    BY <1>1, Put_rcvd, Put_recv
  <2> QED
    BY <1>1, <2>1 DEF Local
<1>7. chan' = chan /\ queue' = queue /\ gone' = gone /\ snd' = snd /\ inbound \subseteq inbound' /\ r.frs # "data"
  BY <1>2 DEF FileOpen
<1>8. Recorded(f)
  BY <1>1, <1>2, <1>7 DEF Recorded, TypeInv
<1>9. \A g \in File \ {f} : rcv'[g].open = rcv[g].open /\ (g \in inbound' => g \in inbound)
  BY <1>1, <1>2 DEF TypeInv
<1>10. rcv'[f].open => f \notin inbound'
  BY <1>2, <1>5
<1>11. a \in Place /\ a.n = p
  BY Places DEF At
<1>12. p # Sender[f] /\ At("data", p, 0) # At("extra", p, 0)
  <2>1. p # Sender[f]
    BY <1>0, WhoHears DEF FileOpen, About
  <2> QED
    BY <2>1 DEF At
<1>13. CASE d = "open" /\ Fopened(p, f, d).skip = OffsOf(p)
  <2> DEFINE t == [s EXCEPT !.frs = "data"]
  <2>1. t \in Local /\ t.extra = r.extra /\ t.out = r.out /\ t.frs = "data" /\ t.recv = f /\ t.cur = r.cur
    <3>1. t \in Local
      BY <1>6, Put_frs
    <3> QED
      BY <1>6, <3>1 DEF Local
  <2>2. Accepts(p, t)
    BY <1>0, <1>2, <1>13 DEF Reply
  <2> HIDE DEF t
  <2>3. Now(p, r.extra, r.out, NoMsg, "data", f) /\ b'[p].cur = r.cur
    BY <1>1, <2>1, <2>2, NowAccepts
  <2>4. Hands(p, f, a, At("data", p, 0), r.extra, "data", f)
    BY <1>7, <2>3 DEF Hands, Same
  <2>5. OpenOk'
    BY <1>1, <1>5, <1>9, <1>10, <1>11, <1>13, <2>3, OpenKept DEF Now
  <2>6. Turn(p, f, a, At("data", p, 0), r.extra, "data", f)
    BY <1>12, <2>3 DEF Turn
  <2> QED
    BY <1>1, <1>7, <1>8, <1>12, <2>4, <2>5, <2>6, Answered
<1>14. CASE ~(d = "open" /\ Fopened(p, f, d).skip = OffsOf(p))
  <2> DEFINE k == Fopened(p, f, d).skip
             e == IF d = "open" THEN Block("GET", f, k) ELSE Block(IF d = "refuse" THEN "SKIP" ELSE "GOT", f, 0)
             o == IF d = "open" THEN "didget" ELSE "skipping"
             u == WithExtra(s, e)
             t == [u EXCEPT !.frs = o]
  <2>1. e \in MaybeLetter /\ e.file = f /\ e.cmd = (IF d = "open" THEN "GET" ELSE IF d = "refuse" THEN "SKIP" ELSE "GOT")
    BY <1>1, <1>4, Letters DEF MaybeLetter, Block
  <2>2. Accepts(p, t)
    BY <1>0, <1>2, <1>14 DEF Reply
  <2> HIDE DEF e
  <2>3. u \in Local /\ u.extra = e /\ u.out = r.out /\ u.recv = f /\ u.cur = r.cur
    BY <1>6, <2>1, ExtraFields
  <2> HIDE DEF u
  <2>4. t \in Local /\ t.extra = e /\ t.out = r.out /\ t.frs = o /\ t.recv = f /\ t.cur = r.cur
    <3>1. t \in Local
      BY <2>3, Put_frs
    <3> QED
      BY <2>3, <3>1 DEF Local
  <2> HIDE DEF t
  <2>5. Now(p, e, r.out, NoMsg, o, f) /\ o # "data" /\ b'[p].cur = r.cur
    BY <1>1, <2>2, <2>4, NowAccepts
  <2>6. Hands(p, f, a, At("extra", p, 0), e, o, f)
    BY <1>7, <2>1, <2>5 DEF Hands
  <2>7. OpenOk'
    BY <1>1, <1>9, <1>10, <1>11, <2>5, OpenKept DEF Now
  <2>8. e.cmd = "GOT" => Kept(f)'
    <3>1. e.cmd = "GOT" => d \in {"skip", "move"}
      BY <1>2, <2>1 DEF FopenResults
    <3> QED
      BY <1>5, <3>1 DEF Kept
  <2>9. snd'[f].open
    <3>1. Announced(f)
      BY <1>1, <1>11 DEF Announced
    <3> QED
      BY <1>1, <1>7, <3>1 DEF TInv, AnnouncedOpen
  <2>10. Turn(p, f, a, At("extra", p, 0), e, o, f)
    BY <1>12, <2>1, <2>5 DEF Turn
  <2> QED
    BY <1>1, <1>7, <1>8, <2>6, <2>7, <2>8, <2>9, <2>10, Answered
<1> QED
  BY <1>13, <1>14

\* The receiver gives up what it receives.
LEMMA ClosedStep ==
  ASSUME TInv, TypeInv', NEW p \in Node, NEW f, f = b[p].recv, b[p].frs = "data",
         NEW c \in {At("extra", p, 0), At("data", p, 0)}, NEW e, NEW d, d # "data",
         Now(p, e, b[p].out, NoMsg, d, f), b'[p].cur = b[p].cur, UNCHANGED <<queue, snd, chan, inbound, gone>>,
         IF c = At("data", p, 0) THEN Same(e, b[p].extra) ELSE e.file = f /\ e.cmd \in {"GOT", "SKIP"},
         c = At("extra", p, 0) /\ e.cmd = "GOT" => rcv'[f].status = "skipped",
         \A g \in File \ {f} : rcv'[g] = rcv[g], ~rcv'[f].open
  PROVE  TInv'
<1> DEFINE a == At("data", p, 0)
<1>1. f \in File /\ Holds(a, f) /\ a \in Place /\ a.n = p
  BY Places DEF TInv, OpenOk, Holds, At
<1>2. f \notin gone
  BY <1>1, NotGone
<1>3. Hands(p, f, a, c, e, d, f) /\ Recorded(f)
  BY DEF Hands, Recorded
<1>4. OpenOk'
  BY <1>1, OpenKept DEF Now
<1>5. a # At("extra", p, 0)
  BY DEF At
<1>6. c = At("extra", p, 0) /\ e.cmd = "GOT" => Kept(f)'
  BY DEF Kept
<1>7. Turn(p, f, a, c, e, d, f)
  <2>1. p # Sender[f]
    BY <1>1 DEF TInv, Sides, At
  <2> QED
    BY <1>5, <2>1 DEF Turn
<1> QED
  BY <1>1, <1>2, <1>3, <1>4, <1>5, <1>6, <1>7, Answered

LEMMA StoringOk ==
  ASSUME TInv, NEW p \in Node, Storing(p)
  PROVE  /\ TypeInv /\ b[p] \in Local /\ b[p].frs = "data" /\ b[p].recv \in File /\ b[p].extra = NoMsg
         /\ \A d \in {"nothing", "skipping"} :
               LET s == [b[p] EXCEPT !.frs = d] IN
               s \in Local /\ s.out = b[p].out /\ s.frs = d /\ s.recv = b[p].recv /\ s.extra = b[p].extra /\ s.cur = b[p].cur
         /\ \A k \in {"GOT", "SKIP"} : /\ Block(k, b[p].recv, 0) \in MaybeLetter
                                       /\ Block(k, b[p].recv, 0).file = b[p].recv
                                       /\ Block(k, b[p].recv, 0).cmd = k
<1>1. TypeInv /\ b[p] \in Local /\ b[p].frs = "data" /\ b[p].recv \in File /\ b[p].extra = NoMsg
  BY LocalRuns DEF TInv, OpenOk, Storing
<1>2. ASSUME NEW d \in {"nothing", "skipping"}
      PROVE  LET s == [b[p] EXCEPT !.frs = d] IN
             s \in Local /\ s.out = b[p].out /\ s.frs = d /\ s.recv = b[p].recv /\ s.extra = b[p].extra /\ s.cur = b[p].cur
  <2>1. [b[p] EXCEPT !.frs = d] \in Local
    BY <1>1, Put_frs
  <2> QED
    BY <1>1, <2>1 DEF Local
<1>3. \A k \in {"GOT", "SKIP"} : Block(k, b[p].recv, 0) \in MaybeLetter
                                 /\ Block(k, b[p].recv, 0).file = b[p].recv /\ Block(k, b[p].recv, 0).cmd = k
  BY <1>1, Letters DEF MaybeLetter, Block
<1> QED
  BY <1>1, <1>2, <1>3

LEMMA CloseFailsStep ==
  ASSUME TInv, TypeInv', NEW p \in Node, CloseFails(p)
  PROVE  TInv'
<1>0. PICK f : f = b[p].recv
  OBVIOUS
<1> DEFINE s == [b[p] EXCEPT !.frs = "nothing"]
           e == Block("SKIP", f, 0)
           w == [Appended(p) EXCEPT !.status = "refused", !.open = FALSE]
<1>1. Storing(p)
  BY DEF CloseFails
<1>2. /\ TypeInv /\ b[p] \in Local /\ b[p].frs = "data" /\ f \in File
      /\ s \in Local /\ s.out = b[p].out /\ s.frs = "nothing" /\ s.recv = f /\ s.cur = b[p].cur
      /\ e \in MaybeLetter /\ e.file = f /\ e.cmd = "SKIP"
  BY <1>0, <1>1, StoringOk
<1>3. Accepts(p, WithExtra(s, e)) /\ rcv' = [rcv EXCEPT ![f] = w] /\ UNCHANGED <<queue, snd, chan, inbound, gone>>
  BY <1>0 DEF CloseFails
<1>4. Now(p, e, b[p].out, NoMsg, "nothing", f) /\ b'[p].cur = b[p].cur
  BY <1>2, <1>3, ExtraNow
<1>5. ~w.open
  BY <1>1, RxTypes, <1>2 DEF Rinfo
<1> HIDE DEF w, e, s
<1>6. (\A g \in File \ {f} : rcv'[g] = rcv[g]) /\ ~rcv'[f].open
  BY <1>2, <1>3, <1>5 DEF TypeInv
<1>7. At("extra", p, 0) # At("data", p, 0)
  BY DEF At
<1> QED
  BY <1>0, <1>2, <1>3, <1>4, <1>6, <1>7, ClosedStep

LEMMA TooMuchDataStep ==
  ASSUME TInv, TypeInv', NEW p \in Node, TooMuchData(p)
  PROVE  TInv'
<1>0. PICK f : f = b[p].recv
  OBVIOUS
<1> DEFINE s == [b[p] EXCEPT !.frs = "skipping"]
           t == PROTO_ERROR(s)
           w == [Appended(p) EXCEPT !.status = "refused", !.open = FALSE]
<1>1. Storing(p)
  BY DEF TooMuchData
<1>2. /\ TypeInv /\ b[p] \in Local /\ b[p].frs = "data" /\ f \in File
      /\ s \in Local /\ s.out = b[p].out /\ s.frs = "skipping" /\ s.recv = f /\ s.cur = b[p].cur
  BY <1>0, <1>1, StoringOk
<1>3. Accepts(p, t) /\ rcv' = [rcv EXCEPT ![f] = w] /\ UNCHANGED <<queue, snd, chan, inbound, gone>>
  BY <1>0 DEF TooMuchData
<1>4. ~w.open
  BY <1>1, RxTypes, <1>2 DEF Rinfo
<1> HIDE DEF w, s
<1>5. t \in Local /\ t.out = b[p].out /\ t.frs = "skipping" /\ t.recv = f /\ t.extra = Block("ERR", NoFile, 0)
      /\ t.cur = b[p].cur
  <2>1. [s EXCEPT !.rc = "local"] \in Local
    BY <1>2, Put_rc
  <2>2. Block("ERR", NoFile, 0) \in MaybeLetter
    BY Letters DEF MaybeLetter
  <2>3. [s EXCEPT !.rc = "local", !.extra = Block("ERR", NoFile, 0)] \in Local
    BY <2>1, <2>2, Put_extra
  <2>4. t \in Local
    BY <2>3, Put_last DEF PROTO_ERROR
  <2> QED
    BY <1>2, <2>4 DEF Local, PROTO_ERROR
<1> HIDE DEF t
<1>6. Now(p, Block("ERR", NoFile, 0), b[p].out, NoMsg, "skipping", f) /\ b'[p].cur = b[p].cur
  BY <1>2, <1>3, <1>5, NowAccepts
<1>7. (\A g \in File \ {f} : rcv'[g] = rcv[g]) /\ ~rcv'[f].open
  BY <1>2, <1>3, <1>4 DEF TypeInv
<1>8. Same(Block("ERR", NoFile, 0), b[p].extra)
  BY DEF Same, Block, About
<1>9. At("extra", p, 0) # At("data", p, 0)
  BY DEF At
<1> QED
  BY <1>0, <1>2, <1>3, <1>6, <1>7, <1>8, <1>9, ClosedStep

LEMMA DataFailsStep ==
  ASSUME TInv, TypeInv', NEW p \in Node, DataFails(p)
  PROVE  TInv'
<1>0. PICK f : f = b[p].recv
  OBVIOUS
<1>1. Storing(p)
  BY DEF DataFails
<1>2. PICK o \in {"werror", "vanish"} :
           /\ rcv' = [rcv EXCEPT ![f].open = FALSE,
                          ![f].status = IF o = "werror" THEN "refused" ELSE "skipped",
                          ![f].bytes = IF o = "werror" THEN @ ELSE 0,
                          ![f].good = (o = "vanish") \/ @]
           /\ Accepts(p, WithExtra([b[p] EXCEPT !.frs = "skipping"],
                             Block(IF o = "werror" THEN "SKIP" ELSE "GOT", f, 0)))
  BY <1>0 DEF DataFails
<1> DEFINE s == [b[p] EXCEPT !.frs = "skipping"]
           k == IF o = "werror" THEN "SKIP" ELSE "GOT"
           e == Block(k, f, 0)
<1>3. /\ TypeInv /\ b[p] \in Local /\ b[p].frs = "data" /\ f \in File
      /\ s \in Local /\ s.out = b[p].out /\ s.frs = "skipping" /\ s.recv = f /\ s.cur = b[p].cur
      /\ e \in MaybeLetter /\ e.file = f /\ e.cmd = k
  BY <1>0, <1>1, StoringOk
<1>4. Now(p, e, b[p].out, NoMsg, "skipping", f) /\ b'[p].cur = b[p].cur
  BY <1>2, <1>3, ExtraNow
<1> HIDE DEF s, e
<1>5. (\A g \in File \ {f} : rcv'[g] = rcv[g]) /\ ~rcv'[f].open /\ (k = "GOT" => rcv'[f].status = "skipped")
  <2> DEFINE w == [rcv[f] EXCEPT !.open = FALSE,
                          !.status = IF o = "werror" THEN "refused" ELSE "skipped",
                          !.bytes = IF o = "werror" THEN @ ELSE 0,
                          !.good = (o = "vanish") \/ @]
  <2>1. rcv \in [File -> Rinfo] /\ rcv' = [rcv EXCEPT ![f] = w]
    BY <1>2, <1>3 DEF TypeInv
  <2>2. ~w.open /\ (k = "GOT" => w.status = "skipped")
    BY <1>3, <2>1 DEF Rinfo
  <2> HIDE DEF w
  <2> QED
    BY <1>3, <2>1, <2>2
<1>6. At("extra", p, 0) # At("data", p, 0)
  BY DEF At
<1>7. UNCHANGED <<queue, snd, chan, inbound, gone>>
  BY DEF DataFails
<1> QED
  BY <1>0, <1>3, <1>4, <1>5, <1>6, <1>7, ClosedStep

\* A file of the queue is announced.
LEMMA SendFileStep ==
  ASSUME TInv, TypeInv', NEW p \in Node, SendFile(p)
  PROVE  TInv'
<1>0. PICK f : f = Head(queue[p])
  OBVIOUS
<1> DEFINE r == Start(p)
           e == Block("FILE", f, IF b[p].NR THEN -1 ELSE 0)
           s == [r EXCEPT !.cur = f, !.waitgot = TRUE, !.sent = TRUE, !.out = e,
                          !.phase = IF b[p].NR THEN 0 ELSE 2, !.nomore = b[p].NR]
           Source(x) == IF x = At("out", p, 0) THEN At("queue", p, 1)
                        ELSE IF x.at = "queue" /\ x.n = p THEN At("queue", p, x.i + 1) ELSE x
           m == [x \in Place |-> Source(x)]
<1>1. TypeInv /\ b[p] \in Local /\ r \in Local /\ r = [b[p] EXCEPT !.nomore = r.nomore, !.contsend = FALSE]
      /\ queue[p] \in Seq(File) /\ queue[p] # <<>>
  BY LocalRuns, StartRuns DEF TInv, TypeInv, SendFile
<1>2. f \in File /\ f = queue[p][1] /\ 1 \in DOMAIN queue[p]
  BY <1>0, <1>1
<1>3. e \in MaybeLetter /\ e.file = f /\ e.cmd = "FILE" /\ b[p].NR \in BOOLEAN
  <2>1. (IF b[p].NR THEN -1 ELSE 0) \in Int
    OBVIOUS
  <2> QED
    BY <1>1, <1>2, <2>1, Letters, FieldTypes DEF MaybeLetter, Block
<1>4. r.extra = b[p].extra /\ r.buf = b[p].buf /\ r.frs = b[p].frs /\ r.recv = b[p].recv
  BY <1>1 DEF Local
<1>5. Becomes(p, AfterGet(s))
  BY <1>0 DEF SendFile
<1> HIDE DEF e
<1>6. s \in Local /\ s.extra = b[p].extra /\ s.out = e /\ s.buf = b[p].buf /\ s.frs = b[p].frs /\ s.recv = b[p].recv
      /\ s.cur = f
  <2>1. s \in Local
    BY <1>1, <1>2, <1>3, Put_cur, Put_waitgot, Put_sent, Put_out, Put_phase, Put_nomore
  <2> QED
    BY <1>1, <1>4, <2>1 DEF Local
<1> HIDE DEF s
<1>7. Now(p, b[p].extra, e, b[p].buf, b[p].frs, b[p].recv) /\ b'[p].cur = f
  BY <1>1, <1>5, <1>6, NowBecomes
<1>8. /\ queue'[p] = Tail(queue[p]) /\ \A n \in Node \ {p} : queue'[n] = queue[n]
      /\ \A i \in DOMAIN Tail(queue[p]) : i + 1 \in DOMAIN queue[p] /\ Tail(queue[p])[i] = queue[p][i + 1] /\ i \in Nat \ {0}
  BY <1>1 DEF SendFile, TypeInv
<1>9. /\ rcv' = rcv /\ chan' = chan /\ inbound' = inbound /\ gone' = gone /\ snd'[f].open
      /\ \A g \in File \ {f} : snd'[g] = snd[g]
  BY <1>0, <1>1, <1>2 DEF SendFile, TypeInv
<1>10. m \in [Place -> Place] /\ \A x \in Place : m[x] = Source(x)
  BY Places DEF Place, At
<1> HIDE DEF m
<1>11. Holds(At("queue", p, 1), f) /\ At("queue", p, 1) \in Place
  BY <1>2, Places DEF Holds, At
<1>12. ASSUME NEW x \in Place, Here(x)'
       PROVE  \/ x = At("out", p, 0) /\ Command(x)' = e
              \/ x # At("out", p, 0) /\ x.at # "queue" /\ Here(x) /\ Command(x)' = Command(x)
  <2>1. x.n \in Node /\ Here(x) /\ (x.at # "chan" => x.i = 0) /\ x.at \in {"extra", "out", "buf", "chan"}
    BY <1>9, <1>12 DEF Here
  <2>2. CASE x.n = p /\ x.at = "out"
    <3>1. x = At("out", p, 0)
      BY <2>1, <2>2, AtFields
    <3> QED
      BY <1>7, <2>2, <3>1 DEF Command, Now
  <2>3. CASE ~(x.n = p /\ x.at = "out")
    <3>1. x # At("out", p, 0)
      BY <2>3 DEF At
    <3>2. Command(x)' = Command(x)
      BY <1>7, <1>9, <2>1, <2>3 DEF Command, Now
    <3> QED
      BY <2>1, <3>1, <3>2
  <2> QED
    BY <2>2, <2>3
<1>13. ASSUME NEW g \in File, NEW x \in Place, Holds(x, g)'
       PROVE  Holds(m[x], g) /\ (x.n = p /\ x.at = "queue" => x.i # 0)
  <2>1. CASE Here(x)' /\ Speaks(Command(x), g)'
    <3>1. CASE x = At("out", p, 0)
      <4>1. Command(x)' = e
        BY <1>12, <2>1, <3>1
      <4>2. g = f
        BY <1>3, <2>1, <4>1 DEF Speaks
      <4> QED
        BY <1>10, <1>11, <3>1, <4>2 DEF At
    <3>2. CASE x # At("out", p, 0)
      <4>1. Here(x) /\ Command(x)' = Command(x) /\ x.at # "queue"
        BY <1>12, <2>1, <3>2
      <4>2. Holds(x, g)
        BY <2>1, <4>1 DEF Holds, Speaks
      <4> QED
        BY <1>10, <3>2, <4>1, <4>2
    <3> QED
      BY <3>1, <3>2
  <2>2. CASE x.at = "queue" /\ x.n = p
    <3>1. x.i \in DOMAIN Tail(queue[p]) /\ Tail(queue[p])[x.i] = g
      BY <1>8, <1>13, <2>2 DEF Holds, Here
    <3>2. x.i + 1 \in DOMAIN queue[p] /\ queue[p][x.i + 1] = g /\ x.i \in Nat \ {0}
      BY <1>8, <3>1
    <3>3. m[x] = At("queue", p, x.i + 1)
      BY <1>10, <2>2 DEF At
    <3>4. Holds(At("queue", p, x.i + 1), g)
      BY <3>2 DEF Holds, At
    <3> QED
      BY <3>2, <3>3, <3>4
  <2>3. CASE ~(Here(x)' /\ Speaks(Command(x), g)') /\ ~(x.at = "queue" /\ x.n = p)
    <3>1. x # At("out", p, 0)
      <4>1. ASSUME x = At("out", p, 0) PROVE FALSE
        BY <1>13, <2>3, <4>1 DEF Holds, At
      <4> QED
        BY <4>1
    <3>2. Holds(x, g)
      BY <1>7, <1>8, <1>9, <1>13, <2>3 DEF Holds, Now
    <3> QED
      BY <1>10, <2>3, <3>1, <3>2
  <2> QED
    BY <2>1, <2>2, <2>3
<1>14. ASSUME NEW g \in File, NEW x \in Place, NEW y \in Place, Holds(x, g)', Holds(y, g)', m[x] = m[y]
       PROVE  x = y
  <2>1. (x.n = p /\ x.at = "queue" => x.i # 0) /\ (y.n = p /\ y.at = "queue" => y.i # 0)
    BY <1>13, <1>14
  <2>2. x.i \in Nat /\ y.i \in Nat
    BY AtFields
  <2>3. m[x] = Source(x) /\ m[y] = Source(y)
    BY <1>10
  <2>4. CASE x.at = "queue" /\ x.n = p /\ y.at = "queue" /\ y.n = p
    <3>1. m[x] = At("queue", p, x.i + 1) /\ m[y] = At("queue", p, y.i + 1)
      BY <2>3, <2>4 DEF At
    <3>2. x.i = y.i
      BY <1>14, <2>2, <3>1, AtNext
    <3> QED
      BY <2>4, <3>2, AtFields
  <2>5. CASE x.at = "queue" /\ x.n = p /\ ~(y.at = "queue" /\ y.n = p)
    <3>1. m[x] = At("queue", p, x.i + 1)
      BY <2>3, <2>5 DEF At
    <3>2. m[y] = (IF y = At("out", p, 0) THEN At("queue", p, 1) ELSE y)
      BY <2>3, <2>5
    <3>3. x.i + 1 # 1
      BY <2>1, <2>2, <2>5
    <3>4. CASE y = At("out", p, 0)
      <4>1. At("queue", p, x.i + 1).i = x.i + 1 /\ At("queue", p, 1).i = 1
        BY DEF At
      <4> QED
        BY <1>14, <3>1, <3>2, <3>3, <3>4, <4>1
    <3>5. CASE y # At("out", p, 0)
      <4>1. y = At("queue", p, x.i + 1)
        BY <1>14, <3>1, <3>2, <3>5
      <4> QED
        BY <2>5, <4>1, AtFields
    <3> QED
      BY <3>4, <3>5
  <2>6. CASE y.at = "queue" /\ y.n = p /\ ~(x.at = "queue" /\ x.n = p)
    <3>1. m[y] = At("queue", p, y.i + 1)
      BY <2>3, <2>6 DEF At
    <3>2. m[x] = (IF x = At("out", p, 0) THEN At("queue", p, 1) ELSE x)
      BY <2>3, <2>6
    <3>3. y.i + 1 # 1
      BY <2>1, <2>2, <2>6
    <3>4. CASE x = At("out", p, 0)
      <4>1. At("queue", p, y.i + 1).i = y.i + 1 /\ At("queue", p, 1).i = 1
        BY DEF At
      <4> QED
        BY <1>14, <3>1, <3>2, <3>3, <3>4, <4>1
    <3>5. CASE x # At("out", p, 0)
      <4>1. x = At("queue", p, y.i + 1)
        BY <1>14, <3>1, <3>2, <3>5
      <4> QED
        BY <2>6, <4>1, AtFields
    <3> QED
      BY <3>4, <3>5
  <2>7. CASE ~(x.at = "queue" /\ x.n = p) /\ ~(y.at = "queue" /\ y.n = p)
    <3>1. m[x] = (IF x = At("out", p, 0) THEN At("queue", p, 1) ELSE x)
          /\ m[y] = (IF y = At("out", p, 0) THEN At("queue", p, 1) ELSE y)
      BY <2>3, <2>7
    <3>2. x # At("queue", p, 1) /\ y # At("queue", p, 1)
      BY <2>7 DEF At
    <3> QED
      BY <1>14, <3>1, <3>2
  <2> QED
    BY <2>4, <2>5, <2>6, <2>7
<1>15. ASSUME NEW g \in File \ {f}, NEW x \in Place, NEW k \in About, Tells(x, k, g)'
       PROVE  Tells(m[x], k, g)
  <2>1. x # At("out", p, 0)
    BY <1>3, <1>12, <1>15 DEF Tells, Says
  <2>2. x.at # "queue" /\ Tells(x, k, g)
    BY <1>12, <1>15, <2>1 DEF Tells, Says
  <2> QED
    BY <1>10, <2>1, <2>2
<1>16. Recorded(f)
  BY <1>9 DEF Recorded
<1>17. ~Acknowledged(f)'
  <2>1. f \notin gone
    <3>1. ASSUME f \in gone PROVE Holds(At("gone", f, 0), f)
      BY <3>1 DEF Holds, At
    <3>2. At("gone", f, 0) # At("queue", p, 1)
      BY DEF At
    <3> QED
      BY <1>2, <1>11, <3>1, <3>2, Places DEF TInv, OnePlace
  <2>2. ASSUME NEW x \in Place, Tells(x, "GOT", f)' PROVE FALSE
    <3>1. x # At("out", p, 0)
      BY <1>3, <1>12, <2>2 DEF Tells, Says
    <3>2. x.at # "queue" /\ Tells(x, "GOT", f)
      BY <1>12, <2>2, <3>1 DEF Tells, Says
    <3>3. Holds(x, f)
      BY <1>2, <3>2, TellsHolds DEF About
    <3> QED
      BY <1>2, <1>11, <3>2, <3>3 DEF TInv, OnePlace, At
  <2> QED
    BY <1>9, <2>1, <2>2 DEF Acknowledged
<1>18. OnePlace' /\ AckedKept' /\ AnnouncedOpen'
  BY <1>2, <1>9, <1>10, <1>13, <1>14, <1>15, <1>16, <1>17, Moved
<1>19. OpenOk'
  BY <1>7, <1>9, OpenSame
<1>20. Sender[f] = p
  BY <1>2, <1>11 DEF TInv, Sides, At
<1>21. Sides'
  <2>1. ASSUME NEW g \in File, NEW x \in Place, NEW k \in About, Tells(x, k, g)'
        PROVE  k = "FILE" <=> Outward(x, Sender[g])
    <3>1. CASE x = At("out", p, 0) /\ Command(x)' = e
      <4>1. g = f /\ k = "FILE"
        BY <1>3, <2>1, <3>1 DEF Tells, Says
      <4> QED
        BY <1>20, <3>1, <4>1 DEF Outward, At
    <3>2. CASE Here(x) /\ Command(x)' = Command(x)
      BY <2>1, <3>2 DEF TInv, Sides, Tells, Says
    <3> QED
      BY <1>12, <2>1, <3>1, <3>2 DEF Tells
  <2>2. ASSUME NEW g \in File, NEW x \in Place, Holds(x, g)'
        PROVE  /\ x.at = "queue" => x.n = Sender[g]
               /\ x.at = "data" => x.n # Sender[g]
    <3>1. Holds(m[x], g) /\ m[x] \in Place
      BY <1>10, <1>13, <2>2
    <3>2. x.at \in {"queue", "data"} => m[x].at = x.at /\ m[x].n = x.n
      BY <1>10 DEF At
    <3> QED
      BY <3>1, <3>2 DEF TInv, Sides
  <2>3. \A n \in Node : b'[n].cur \in File => Sender[b'[n].cur] = n
    BY <1>7, <1>20 DEF TInv, Sides, Now
  <2> QED
    BY <2>1, <2>2, <2>3 DEF Sides
<1>22. CurLast'
  <2> SUFFICES ASSUME NEW g \in File, g # b'[Sender[g]].cur, NEW x \in Place, Live(x, g)'
               PROVE  /\ b'[Sender[g]].cur # NoFile
                      /\ \A y \in Place : Live(y, b[Sender[g]].cur)' => Ahead(Sender[g], x, y)
    BY DEF CurLast, Behind
  <2>1. PICK n \in Node : n = Sender[g]
    BY FileAssumption
  <2>2. PICK k : k = b'[n].cur
    OBVIOUS
  <2>3. g # f
    BY <1>7, <1>20, <2>1
  <2>4. \A h \in File \ {f}, y \in Place : Live(y, h)' => Live(y, h) /\ y # At("out", p, 0)
    <3> SUFFICES ASSUME NEW h \in File \ {f}, NEW y \in Place, Live(y, h)'
                 PROVE  Live(y, h) /\ y # At("out", p, 0)
      OBVIOUS
    <3>1. y.at \in {"extra", "out", "chan", "buf", "data"} /\ Holds(y, h)'
      BY DEF Live
    <3>2. y # At("out", p, 0)
      <4>1. ASSUME y = At("out", p, 0) PROVE Command(y)' = e /\ Speaks(Command(y), h)'
        BY <1>12, <3>1, <4>1 DEF Holds, At
      <4> QED
        BY <1>3, <4>1 DEF Speaks
    <3>3. m[y] = y
      BY <1>10, <3>1, <3>2
    <3> QED
      BY <1>13, <3>1, <3>2, <3>3 DEF Live
  <2>5. CASE n = p
    <3>1. k = f /\ f # NoFile
      BY <1>2, <1>7, <2>2, <2>5, FileAssumption
    <3>2. At("out", p, 0) \in Place /\ Holds(At("out", p, 0), f)'
      <4>1. Command(At("out", p, 0))' = e /\ Here(At("out", p, 0))' /\ At("out", p, 0) \in Place
        BY <1>7, Places DEF Now, Command, Here, At
      <4> QED
        BY <1>3, <4>1 DEF Holds, Speaks, About
    <3>3. \A y \in Place : Live(y, f)' => y = At("out", p, 0)
      BY <1>2, <1>18, <3>2 DEF OnePlace, Live
    <3>4. Live(x, g) /\ x # At("out", p, 0) /\ x.at \in {"extra", "out", "chan", "buf", "data"}
      BY <2>3, <2>4 DEF Live
    <3>5. ~(x.at = "extra" /\ x.n = p)
      <4>1. b[p].extra.cmd \notin About
        BY DEF SendFile, InPhase, NoMsg, Block, About
      <4> QED
        BY <3>4, <4>1 DEF Live, Holds, Speaks, Command
    <3>6. ~(x.at = "out" /\ x.n = p)
      BY <3>4, AtFields DEF Live, Holds, Here
    <3>7. Stage(p, x) < 7 /\ Stage(p, At("out", p, 0)) = 7
      BY <3>4, <3>5, <3>6 DEF Stage, At
    <3>8. Ahead(p, x, At("out", p, 0))
      BY <3>7 DEF Ahead
    <3> QED
      BY <1>7, <2>1, <2>5, <3>1, <3>3, <3>8
  <2>6. CASE n # p
    <3>1. k = b[n].cur /\ k \in File \cup {NoFile} /\ k # f
      <4>1. k = b[n].cur
        BY <1>7, <2>2, <2>6 DEF Now
      <4>2. k \in File \cup {NoFile}
        BY <4>1, LocalRuns, FieldTypes DEF TInv
      <4>3. k \in File => Sender[k] = n
        BY <4>1 DEF TInv, Sides
      <4> QED
        BY <1>2, <1>20, <2>6, <4>1, <4>2, <4>3
    <3>2. Live(x, g) /\ g # k
      BY <2>1, <2>2, <2>3, <2>4
    <3>3. k # NoFile /\ \A y \in Place : Live(y, k) => Ahead(n, x, y)
      BY <2>1, <3>1, <3>2 DEF TInv, CurLast, Behind
    <3>4. \A y \in Place : Live(y, k)' => Live(y, k)
      BY <2>4, <3>1, <3>3
    <3> QED
      BY <2>1, <2>2, <3>3, <3>4
  <2> QED
    BY <2>5, <2>6
<1> QED
  BY <1>18, <1>19, <1>21, <1>22 DEF TInv

\* The file is complete: it is in the inbound, and its answers are queued.
LEMMA FileStoredStep ==
  ASSUME TInv, TypeInv', NEW p \in Node, FileStored(p)
  PROVE  TInv'
<1>0. PICK f : f = b[p].recv
  OBVIOUS
<1> DEFINE L == Len(queue[p])
           s == [b[p] EXCEPT !.frs = "nothing"]
           e == Block("GOT", f, 0)
           w == [Appended(p) EXCEPT !.status = "success", !.open = FALSE]
           a == At("data", p, 0)
           c == At("extra", p, 0)
           Source(x) == IF x = c THEN a
                        ELSE IF x.at = "queue" /\ x.n = p /\ x.i > L THEN At("answer", f, x.i - L) ELSE x
           m == [x \in Place |-> Source(x)]
<1>1. Storing(p)
  BY DEF FileStored
<1>2. /\ TypeInv /\ b[p] \in Local /\ b[p].frs = "data" /\ f \in File /\ b[p].extra = NoMsg
      /\ s \in Local /\ s.out = b[p].out /\ s.frs = "nothing" /\ s.recv = f /\ s.cur = b[p].cur
      /\ e \in MaybeLetter /\ e.file = f /\ e.cmd = "GOT"
  BY <1>0, <1>1, StoringOk
<1>3. /\ Accepts(p, WithExtra(s, e)) /\ rcv' = [rcv EXCEPT ![f] = w]
      /\ inbound' = inbound \cup {f} /\ queue' = [queue EXCEPT ![p] = @ \o Answers[f]]
      /\ snd' = snd /\ chan' = chan /\ gone' = gone
  BY <1>0 DEF FileStored
<1>4. Now(p, e, b[p].out, NoMsg, "nothing", f) /\ b'[p].cur = b[p].cur
  BY <1>2, <1>3, ExtraNow
<1>5. ~w.open
  BY <1>1, RxTypes, <1>2 DEF Rinfo
<1> HIDE DEF w, e, s
<1>6. (\A g \in File \ {f} : rcv'[g] = rcv[g]) /\ ~rcv'[f].open
  BY <1>2, <1>3, <1>5 DEF TypeInv
<1>7. f \notin inbound
  BY <1>0, <1>2 DEF TInv, OpenOk
<1>8. /\ queue[p] \in Seq(File) /\ Answers[f] \in Seq(File) /\ L \in Nat
      /\ queue'[p] = queue[p] \o Answers[f] /\ \A n \in Node \ {p} : queue'[n] = queue[n]
  <2>1. queue \in [Node -> Seq(File)] /\ Answers[f] \in Seq(File)
    BY <1>2, FileAssumption DEF TypeInv
  <2>2. queue[p] \in Seq(File)
    BY <2>1
  <2> QED
    BY <1>3, <2>1, <2>2, LenProperties
<1>9. ASSUME NEW i \in DOMAIN (queue[p] \o Answers[f])
      PROVE  /\ i \in Nat
             /\ i <= L => i \in DOMAIN queue[p] /\ (queue[p] \o Answers[f])[i] = queue[p][i]
             /\ i > L => i - L \in Nat /\ i - L \in DOMAIN Answers[f] /\ (queue[p] \o Answers[f])[i] = Answers[f][i - L]
  <2> DEFINE q == queue[p]
             t == Answers[f]
  <2>1. q \in Seq(File) /\ t \in Seq(File)
    BY <1>8
  <2> HIDE DEF q, t
  <2>2. i \in DOMAIN (q \o t)
    BY <1>9 DEF q, t
  <2>3. /\ i \in Nat
        /\ i <= Len(q) => i \in DOMAIN q /\ (q \o t)[i] = q[i]
        /\ i > Len(q) => i - Len(q) \in Nat /\ i - Len(q) \in DOMAIN t /\ (q \o t)[i] = t[i - Len(q)]
    BY <2>1, <2>2, ConcatProperties, LenProperties
  <2> QED
    BY <2>3 DEF q, t
<1>10. a \in Place /\ c \in Place /\ Holds(a, f)
  BY <1>0, <1>2, Places DEF Holds, At
<1>11. ASSUME NEW x \in Place PROVE Source(x) \in Place
  <2>1. CASE x = c
    BY <1>10, <2>1
  <2>2. CASE x # c /\ x.at = "queue" /\ x.n = p /\ x.i > L
    <3>1. x.i - L \in Nat
      BY <1>8, <2>2, AtFields
    <3>2. Source(x) = At("answer", f, x.i - L)
      BY <2>2
    <3> QED
      BY <1>2, <3>1, <3>2, Places
  <2>3. CASE x # c /\ ~(x.at = "queue" /\ x.n = p /\ x.i > L)
    <3>1. Source(x) = x
      BY <2>3
    <3> QED
      BY <3>1
  <2> QED
    BY <2>1, <2>2, <2>3
<1>12. m \in [Place -> Place] /\ \A x \in Place : m[x] = Source(x)
  BY <1>11
<1> HIDE DEF m
<1>13. Hands(p, f, a, c, e, "nothing", f)
  BY <1>2, <1>3, <1>4 DEF Hands
<1>14. /\ \A g \in File, x \in Place : x.at # "queue" /\ Holds(x, g)' => (x = c /\ g = f) \/ (Holds(x, g) /\ x # a)
       /\ \A g \in File, x \in Place, k \in About : Tells(x, k, g)' => (x = c /\ g = f) \/ Tells(x, k, g)
  BY <1>2, <1>13, Handled
<1>15. NoMsg.cmd \notin About
  BY DEF NoMsg, Block, About
<1>16. \A g \in File : ~Holds(c, g)
  BY <1>2, <1>15 DEF Holds, Here, Speaks, Command, At
<1>17. ASSUME NEW g \in File, NEW x \in Place, Holds(x, g)'
       PROVE  /\ Holds(m[x], g)
              /\ \/ x = c /\ m[x] = a
                 \/ x.at = "queue" /\ x.n = p /\ x.i > L /\ m[x] = At("answer", f, x.i - L)
                 \/ x # c /\ x # a /\ m[x] = x /\ ~(x.at = "answer" /\ x.n = f)
  <2>1. CASE x = c
    <3>1. g = f
      BY <1>14, <1>16, <1>17, <2>1 DEF At
    <3> QED
      BY <1>10, <1>12, <2>1, <3>1
  <2>2. CASE x.at = "queue" /\ x.n = p
    <3>1. x.i \in DOMAIN (queue[p] \o Answers[f]) /\ (queue[p] \o Answers[f])[x.i] = g
      BY <1>8, <1>17, <2>2 DEF Holds, Here
    <3>2. x # c /\ x # a
      BY <2>2 DEF At
    <3>3. CASE x.i <= L
      <4>1. x.i \in DOMAIN queue[p] /\ queue[p][x.i] = g /\ ~(x.i > L)
        BY <1>8, <1>9, <3>1, <3>3
      <4>2. m[x] = x
        BY <1>12, <3>2, <4>1
      <4> QED
        BY <2>2, <3>2, <4>1, <4>2 DEF Holds
    <3>4. CASE x.i > L
      <4>1. x.i - L \in Nat /\ x.i - L \in DOMAIN Answers[f] /\ Answers[f][x.i - L] = g
        BY <1>9, <3>1, <3>4
      <4>2. m[x] = At("answer", f, x.i - L)
        BY <1>12, <2>2, <3>2, <3>4
      <4>3. Holds(At("answer", f, x.i - L), g)
        BY <1>2, <1>7, <4>1 DEF Holds, At
      <4> QED
        BY <2>2, <3>4, <4>2, <4>3
    <3> QED
      BY <1>8, <1>9, <3>1, <3>3, <3>4
  <2>3. CASE x.at = "queue" /\ x.n # p
    <3>1. Holds(x, g) /\ x # c /\ x # a
      BY <1>8, <1>17, <2>3 DEF Holds, Here, At
    <3> QED
      BY <1>12, <2>3, <3>1
  <2>4. CASE x.at # "queue" /\ x # c
    <3>1. Holds(x, g) /\ x # a
      BY <1>14, <1>17, <2>4
    <3>2. ~(x.at = "answer" /\ x.n = f)
      BY <1>3, <1>17 DEF Holds, Here
    <3> QED
      BY <1>12, <2>4, <3>1, <3>2
  <2> QED
    BY <2>1, <2>2, <2>3, <2>4
<1>18. ASSUME NEW g \in File, NEW x \in Place, NEW y \in Place, Holds(x, g)', Holds(y, g)', m[x] = m[y]
       PROVE  x = y
  <2>1. /\ \/ x = c /\ m[x] = a
           \/ x.at = "queue" /\ x.n = p /\ x.i > L /\ m[x] = At("answer", f, x.i - L)
           \/ x # c /\ x # a /\ m[x] = x /\ ~(x.at = "answer" /\ x.n = f)
        /\ \/ y = c /\ m[y] = a
           \/ y.at = "queue" /\ y.n = p /\ y.i > L /\ m[y] = At("answer", f, y.i - L)
           \/ y # c /\ y # a /\ m[y] = y /\ ~(y.at = "answer" /\ y.n = f)
    BY <1>17, <1>18
  <2>2. \A i : At("answer", f, i) # a /\ At("answer", f, i).at = "answer" /\ At("answer", f, i).n = f
    BY DEF At
  <2>3. CASE x.at = "queue" /\ x.n = p /\ m[x] = At("answer", f, x.i - L) /\ y.at = "queue" /\ y.n = p /\ m[y] = At("answer", f, y.i - L)
    <3>1. x.i - L = y.i - L
      <4>1. At("answer", f, x.i - L).i = x.i - L /\ At("answer", f, y.i - L).i = y.i - L
        BY DEF At
      <4> QED
        BY <1>18, <2>3, <4>1
    <3>2. x.i \in Nat /\ y.i \in Nat
      BY AtFields
    <3>3. x.i = y.i
      BY <1>8, <3>1, <3>2
    <3> QED
      BY <2>3, <3>3, AtFields
  <2> QED
    BY <1>18, <2>1, <2>2, <2>3
<1>19. ASSUME NEW g \in File \ {f}, NEW x \in Place, NEW k \in About, Tells(x, k, g)'
       PROVE  Tells(m[x], k, g)
  <2>1. Tells(x, k, g)
    BY <1>14, <1>19
  <2>2. x # c /\ x.at # "queue"
    BY <1>16, <2>1, TellsHolds, <1>10 DEF Tells, Here
  <2> QED
    BY <1>12, <2>1, <2>2
<1>20. Recorded(f)
  BY <1>3, <1>6 DEF Recorded
<1>21. Kept(f)'
  BY <1>3 DEF Kept
<1>22. ~Announced(f)'
  <2>1. ASSUME NEW x \in Place, NEW k \in {"FILE", "GET"}, Tells(x, k, f)' PROVE FALSE
    <3>1. x # c
      BY <1>2, <1>4, <2>1 DEF Tells, Says, Command, Now, At
    <3>2. Tells(x, k, f)
      BY <1>2, <1>14, <2>1, <3>1 DEF About
    <3>3. Holds(x, f)
      BY <1>2, <3>2, TellsHolds DEF About
    <3> QED
      BY <1>2, <1>10, <3>2, <3>3 DEF TInv, OnePlace, Tells, Here, At
  <2> QED
    BY <2>1 DEF Announced
<1>23. OnePlace' /\ AckedKept' /\ AnnouncedOpen'
  BY <1>2, <1>12, <1>17, <1>18, <1>19, <1>20, <1>21, <1>22, Moved
<1>24. OpenOk'
  <2>1. a.n = p
    BY DEF At
  <2>2. \A g \in File \ {f} : g \in inbound' => g \in inbound
    BY <1>3
  <2> QED
    BY <1>2, <1>4, <1>6, <1>10, <2>1, <2>2, OpenKept DEF Now
<1>25. Sides' /\ CurLast'
  <2>1. p # Sender[f] /\ a.at = "data" /\ At("data", p, 0) # At("extra", p, 0)
    BY <1>2, <1>10 DEF TInv, Sides, At
  <2>2. Turn(p, f, a, c, e, "nothing", f)
    BY <1>2, <1>4, <2>1 DEF Turn
  <2>3. ASSUME NEW g \in File, NEW x \in Place, x.at = "queue", Holds(x, g)'
        PROVE  x.n = Sender[g]
    <3>1. CASE x.n = p /\ x.i > L /\ m[x] = At("answer", f, x.i - L)
      <4>1. Holds(At("answer", f, x.i - L), g)
        BY <1>17, <2>3, <3>1
      <4>2. x.i - L \in DOMAIN Answers[f] /\ Answers[f][x.i - L] = g
        BY <4>1 DEF Holds, Here, At
      <4>3. Sender[g] # Sender[f] /\ Sender[g] \in Node /\ Sender[f] \in Node
        BY <1>2, <4>2, FileAssumption
      <4> QED
        BY <2>1, <3>1, <4>3, TwoNodes
    <3>2. CASE m[x] = x
      BY <1>17, <2>3, <3>2 DEF TInv, Sides
    <3> QED
      BY <1>17, <2>3, <3>1, <3>2 DEF At
  <2> QED
    BY <1>2, <1>10, <1>13, <2>2, <2>3, HandedOrder
<1> QED
  BY <1>23, <1>24, <1>25 DEF TInv

-----------------------------------------------------------------------------
(* The invariant, and what follows from it                                  *)

\* Nothing is on its way, and no two entries of the file lists are the same.
LEMMA InitPlaces == Init => TInv
<1> SUFFICES ASSUME Init PROVE TInv
  OBVIOUS
<1>1. TypeInv
  BY InitTypes
<1>2. PICK s \in Sessions : Init!(s)
  BY DEF Init
<1>3. NoMsg.cmd \notin About
  BY DEF NoMsg, Block, About
<1>4. \A n \in Node : /\ b[n].extra = NoMsg /\ b[n].out = NoMsg /\ b[n].buf = NoMsg /\ b[n].frs = "nothing"
                      /\ chan[n] = <<>>
  BY <1>2
<1>5. queue = s.queue /\ gone = {} /\ inbound = {}
  BY <1>2
<1>6. ASSUME NEW x \in Place, Here(x) PROVE Command(x).cmd \notin About
  BY <1>3, <1>4, <1>6 DEF Here, Command
<1>7. ASSUME NEW f \in File, NEW x \in Place, Holds(x, f)
      PROVE  \/ x.at = "queue" /\ x.n \in Node /\ x.i \in DOMAIN s.queue[x.n] /\ s.queue[x.n][x.i] = f
             \/ x.at = "answer" /\ x.n \in File /\ x.i \in DOMAIN Answers[x.n] /\ Answers[x.n][x.i] = f
  <2>1. ~(Here(x) /\ Speaks(Command(x), f))
    BY <1>6 DEF Speaks
  <2>2. ~(x.at = "data" /\ x.n \in Node /\ x.i = 0 /\ b[x.n].frs = "data")
    BY <1>4
  <2> QED
    BY <1>5, <1>7, <2>1, <2>2 DEF Holds
<1>8. OnePlace
  <2> SUFFICES ASSUME NEW f \in File, NEW x \in Place, NEW y \in Place, Holds(x, f), Holds(y, f)
               PROVE  x = y
    BY DEF OnePlace
  <2>1. CASE x.at = "queue" /\ y.at = "queue"
    <3>1. x.n = y.n /\ x.i = y.i
      BY <1>7, <2>1, OnceAssumption
    <3> QED
      BY <2>1, <3>1, AtFields
  <2>2. CASE x.at = "answer" /\ y.at = "answer"
    <3>1. x.n = y.n /\ x.i = y.i
      BY <1>7, <2>2, OnceAssumption
    <3> QED
      BY <2>2, <3>1, AtFields
  <2>3. CASE x.at = "queue" /\ y.at = "answer"
    BY <1>7, <2>3, OnceAssumption
  <2>4. CASE x.at = "answer" /\ y.at = "queue"
    BY <1>7, <2>4, OnceAssumption
  <2> QED
    BY <1>7, <2>1, <2>2, <2>3, <2>4
<1>9. AckedKept /\ AnnouncedOpen
  <2>1. \A f \in File, x \in Place, k \in About : ~Tells(x, k, f)
    BY <1>6 DEF Tells, Says
  <2> QED
    BY <1>5, <2>1 DEF AckedKept, AnnouncedOpen, Acknowledged, Announced, About
<1>10. OpenOk
  BY <1>4, <1>5 DEF OpenOk
<1>11. Sides /\ CurLast
  <2>1. \A f \in File, x \in Place : ~Live(x, f)
    BY <1>7 DEF Live
  <2>2. \A f \in File, x \in Place, k \in About : ~Tells(x, k, f)
    BY <1>6 DEF Tells, Says
  <2>3. \A n \in Node : b[n].cur = NoFile /\ NoFile \notin File
    BY <1>2, FileAssumption
  <2>4. \A f \in File, x \in Place : Holds(x, f) => x.at # "data" /\ (x.at = "queue" => x.n = Sender[f])
    <3>1. \A n \in Node : \A i \in DOMAIN s.queue[n] : Sender[s.queue[n][i]] = n
      BY FileAssumption
    <3> QED
      BY <1>7, <3>1
  <2> QED
    BY <2>1, <2>2, <2>3, <2>4 DEF Sides, CurLast, Behind
<1> QED
  BY <1>1, <1>8, <1>9, <1>10, <1>11 DEF TInv

LEMMA PlacesKept == TInv /\ [Next]_vars => TInv'
<1> SUFFICES ASSUME TInv, [Next]_vars PROVE TInv'
  OBVIOUS
<1>1. TypeInv'
  BY TypesKept DEF TInv
<1>2. CASE UNCHANGED vars
  BY <1>1, <1>2, CalmStep DEF vars, Calm, Steady, Silent, Holds, Tells, Here, Command
<1>3. ASSUME NEW p \in Node, Loop(p) PROVE TInv'
  <2>1. CASE LoopExit(p) \/ Getforsend(p)
    BY <1>1, <2>1, GetforsendSilent, SendExtraStep, SendFileStep DEF Getforsend, GetforsendCalm
  <2>2. CASE Batch(p)
    BY <1>1, <2>2, BatchSilent
  <2>3. CASE Transport(p)
    BY <1>1, <2>3, TransportSilent, ReadBodyStep, WriteStep DEF Transport, TransportCalm
  <2>4. CASE Doreceiveblock(p)
    BY <1>1, <2>4, ReceiveSilent, FileAfterGetStep, FileOpenStep, AckStep, GetStep, FileStoredStep,
       CloseFailsStep, TooMuchDataStep, DataFailsStep DEF Doreceiveblock, ReceiveCalm
  <2> QED
    BY <1>3, <2>1, <2>2, <2>3, <2>4 DEF Loop
<1> QED
  BY <1>2, <1>3 DEF Next, SessionOver

(***************************************************************************)
(* No file is lost: what the sender has marked as sent and unlinked (its   *)
(* M_GOT came, prot_binkp.c: p_tx_fclose) is in the receiver's inbound, or *)
(* is one the receiver will never take.  The M_GOT is sent when the file   *)
(* has been moved there or skipped, and until it arrives the file is       *)
(* nowhere else: no second answer to it, no second copy of it, can be on   *)
(* its way and undo the first.                                             *)
(***************************************************************************)
THEOREM AcknowledgedKept == Spec => []NoFileLost
<1>1. TInv => NoFileLost
  BY DEF TInv, AckedKept, Acknowledged, Kept, TypeInv, NoFileLost
<1> QED
  BY <1>1, InitPlaces, PlacesKept, PTL DEF Spec

(***************************************************************************)
(* Every answer of the receiver finds its file (binkp_doreceiveblock).  An *)
(* M_GET finds it open: only an M_GOT or M_SKIP closes a file, and none is *)
(* on its way while the M_GET is.  An M_GOT or M_SKIP finds pi->send set,  *)
(* whose name it is compared with: it is cleared only by the answer to the *)
(* last file announced, and all others are answered before that.           *)
(***************************************************************************)
THEOREM AnswersFind == Spec => []AnswersFindFile
<1>1. TInv => GetFindsOpen
  <2> SUFFICES ASSUME TInv, NEW p \in Node, Whole(p, "GET")
               PROVE  snd[FileOf(p)].open
    BY DEF GetFindsOpen
  <2>1. FileOf(p) \in File /\ Tells(At("buf", p, 0), "GET", FileOf(p))
    BY Heard DEF TInv, About
  <2> QED
    BY <2>1, Places DEF TInv, AnnouncedOpen, Announced
<1>2. TInv => AckFindsFile
  <2> SUFFICES ASSUME TInv, NEW p \in Node, NEW k \in {"GOT", "SKIP"}, Whole(p, k)
               PROVE  b[p].cur # NoFile
    BY DEF AckFindsFile, IsAck
  <2>1. PICK f \in File : f = FileOf(p) /\ Holds(At("buf", p, 0), f) /\ p = Sender[f]
    BY Heard, WhoHears DEF TInv, About
  <2>2. Live(At("buf", p, 0), f) /\ At("buf", p, 0) \in Place
    BY <2>1, Places DEF Live, At
  <2>3. CASE b[p].cur = f
    BY <2>1, <2>3, FileAssumption
  <2>4. CASE b[p].cur # f
    BY <2>1, <2>2, <2>4 DEF TInv, CurLast, Behind
  <2> QED
    BY <2>3, <2>4
<1> QED
  BY <1>1, <1>2, InitPlaces, PlacesKept, PTL DEF Spec, AnswersFindFile

(***************************************************************************)
(* A file that has been moved to the inbound has the length that was       *)
(* announced, and no later step of the session touches it or takes it away *)
(* (p_rx_writefile, p_rx_fclose and the whole file in the temporary        *)
(* inbound of p_rx_fopen).  That it is made of its own blocks is not       *)
(* stated here: it is not so in every session.                             *)
(***************************************************************************)
StoredWhole == \A f \in inbound : rcv[f].bytes = Size[f]
Untouched == \A f \in inbound : f \in inbound' /\ rcv'[f].bytes = rcv[f].bytes /\ rcv'[f].good = rcv[f].good

\* Only the length of a file that is open grows.
LEMMA Stores ==
  ASSUME TInv, [Next]_vars
  PROVE  Untouched /\ \A f \in inbound' \ inbound : rcv'[f].bytes = Size[f]
<1>1. TypeInv /\ rcv \in [File -> Rinfo] /\ inbound \subseteq File
  BY DEF TInv, TypeInv
<1>2. ASSUME rcv' = rcv, inbound' = inbound
      PROVE  Untouched /\ \A f \in inbound' \ inbound : rcv'[f].bytes = Size[f]
  BY <1>2 DEF Untouched
<1>3. ASSUME NEW p \in Node, Loop(p)
      PROVE  Untouched /\ \A f \in inbound' \ inbound : rcv'[f].bytes = Size[f]
  <2>1. CASE FileOpen(p)
    <3>0. PICK g : g = FileOf(p)
      OBVIOUS
    <3>1. g \in File
      BY <1>1, <2>1, <3>0, Heard DEF FileOpen, About
    <3>2. PICK d \in FopenResults(p, g) :
             /\ rcv' = [rcv EXCEPT ![g] = Fopened(p, g, d)]
             /\ inbound' = IF d = "move" THEN inbound \cup {g} ELSE inbound
      BY <2>1, <3>0 DEF FileOpen
    <3>3. rcv[g] \in Rinfo /\ rcv'[g] = Fopened(p, g, d) /\ \A f \in File \ {g} : rcv'[f] = rcv[f]
      BY <1>1, <3>1, <3>2
    <3>4. rcv'[g].bytes = rcv[g].bytes /\ rcv'[g].good = rcv[g].good
      BY <3>3 DEF Fopened, Rinfo
    <3>5. d = "move" => rcv[g].bytes = Size[g]
      BY <3>2 DEF FopenResults, TempWhole
    <3> QED
      BY <1>1, <3>2, <3>3, <3>4, <3>5 DEF Untouched
  <2>2. CASE Storing(p) /\ (DataStored(p) \/ FileStored(p) \/ CloseFails(p) \/ TooMuchData(p) \/ DataFails(p))
    <3>0. PICK g : g = b[p].recv
      OBVIOUS
    <3>1. g \in File /\ g \notin inbound
      BY <2>2, <3>0, StoringOk DEF TInv, OpenOk
    <3>2. \A f \in File \ {g} : rcv'[f] = rcv[f]
      BY <1>1, <2>2, <3>0, <3>1 DEF DataStored, FileStored, CloseFails, TooMuchData, DataFails
    <3>3. CASE FileStored(p)
      <4> DEFINE w == [Appended(p) EXCEPT !.status = "success", !.open = FALSE]
      <4>1. Appended(p) \in Rinfo /\ Appended(p).bytes = Size[g]
        BY <1>1, <2>2, <3>0, <3>3, RxTypes DEF FileStored
      <4>2. w.bytes = Size[g]
        BY <4>1 DEF Rinfo
      <4>3. rcv' = [rcv EXCEPT ![g] = w] /\ inbound' = inbound \cup {g}
        BY <3>0, <3>3 DEF FileStored
      <4> HIDE DEF w
      <4> QED
        BY <1>1, <3>1, <3>2, <4>2, <4>3 DEF Untouched
    <3>4. CASE ~FileStored(p)
      <4>1. inbound' = inbound
        BY <2>2, <3>4 DEF DataStored, CloseFails, TooMuchData, DataFails
      <4> QED
        BY <1>1, <3>1, <3>2, <4>1 DEF Untouched
    <3> QED
      BY <3>3, <3>4
  <2>3. CASE LoopExit(p) \/ Getforsend(p)
    BY <1>2, <2>3 DEF LoopExit, Getforsend, GetNothing, SendExtra, SendFile, SendEOB, SendData, EndOfFile, ReadClosed, SendNothing
  <2>4. CASE Batch(p)
    BY <1>2, <2>4 DEF Batch, NextBatch, Complete, AwaitGot
  <2>5. CASE Transport(p)
    BY <1>2, <2>5 DEF Transport, ReadHeader, ReadBody, ReadAstray, ReadShutdown, OnlyWrite, EmptyLoop, Timeout, Write, WriteFails
  <2>6. CASE Doreceiveblock(p)
    <3>1. CASE HeaderOnly(p) \/ BrokenBlock(p) \/ FileError(p) \/ FileAfterGet(p) \/ Suspend(p) \/ ReceiveEOB(p)
               \/ ReceiveERR(p) \/ Ack(p) \/ GetHere(p) \/ GetRewind(p) \/ DataError(p) \/ DataDropped(p)
      BY <1>2, <3>1 DEF HeaderOnly, BrokenBlock, FileError, FileAfterGet, Suspend, ReceiveEOB, ReceiveERR, Ack,
                        GetHere, GetRewind, DataError, DataDropped
    <3> QED
      BY <2>1, <2>2, <2>6, <3>1 DEF Doreceiveblock, DataStored, FileStored, CloseFails, TooMuchData, DataFails
  <2> QED
    BY <1>3, <2>3, <2>4, <2>5, <2>6 DEF Loop
<1> QED
  BY <1>2, <1>3 DEF Next, SessionOver, vars

THEOREM InboundFinal == Spec => []StoredWhole /\ [][Untouched]_vars
<1>1. Init => StoredWhole
  BY DEF Init, StoredWhole
<1>2. TInv /\ StoredWhole /\ [Next]_vars => StoredWhole'
  <2> SUFFICES ASSUME TInv, StoredWhole, [Next]_vars PROVE StoredWhole'
    OBVIOUS
  <2>1. Untouched /\ \A f \in inbound' \ inbound : rcv'[f].bytes = Size[f]
    BY Stores
  <2> QED
    BY <2>1 DEF StoredWhole, Untouched
<1>3. TInv /\ [Next]_vars => [Untouched]_vars
  BY Stores
<1> QED
  BY <1>1, <1>2, <1>3, InitPlaces, PlacesKept, PTL DEF Spec
=============================================================================

---------------------------- MODULE HydraProofs ----------------------------
(***************************************************************************)
(* Proofs about Hydra: a session that ends well has disposed of every      *)
(* file, a file in the inbound is whole, and a sender that unlinks a file  *)
(* knows what became of it.  The first holds for every session, the others *)
(* as long as no timer expires while its answer is on the way.             *)
(***************************************************************************)
EXTENDS Hydra, SequenceTheorems, TLAPS

-----------------------------------------------------------------------------
(* Types                                                                    *)

TxState == {"START", "SWAIT", "INIT", "INITACK", "RINIT", "NextFile", "FINFO", "FINFOACK",
            "DATA", "EOF", "EOFACK", "REND", "END", "ENDACK", "DONE"}
RxState == {"INIT", "FINFO", "DATA", "RPOS", "RPosAck", "Skip", "SkipAck", "DONE"}

Local == [tx : TxState, rx : RxState, txtries : Nat, rxtries : Nat, eob : BOOLEAN,
          lastpos : Int, cur : File \cup {NoFile}, recv : File \cup {NoFile},
          rid : Nat, sid : Int, batch : {1, 2}, moved : BOOLEAN, rc : {"run", "ok", "error"}]

Status == {"none", "process", "success", "skipped", "refused"}
Sinfo == [status : Status, pos : Nat, eof : BOOLEAN, open : BOOLEAN, there : BOOLEAN]
Rinfo == [status : Status, bytes : Nat, open : BOOLEAN, good : BOOLEAN]

Mine(p) == {f \in File : Sender[f] = p}

Idle == {"START", "INIT", "INITACK", "END", "JUNK"}
Forward == {"FINFO", "DATA", "EOF"}
Backward == {"FINFOACK", "RPOS", "EOFACK"}
Long == 0..LongMod - 1

\* What p sends about a file is about a file of its own.
Packets(p) ==
  {m \in [type : Idle \cup Forward \cup Backward, file : File \cup {NoFile},
          offs : Long, id : Nat, len : Nat] :
     /\ m.type \in Forward => m.file \in Mine(p) \cup {NoFile}
     /\ m.type \in {"DATA", "EOF"} => m.file # NoFile}

LocalsOk ==
  /\ h \in [Node -> Local]
  /\ \A p \in Node : h[p].cur \in Mine(p) \cup {NoFile} /\ h[p].recv \in Mine(Peer(p)) \cup {NoFile}

FilesOk ==
  /\ queue \in [Node -> Seq(File)] /\ \A p \in Node : queue[p] \in Seq(Mine(p))
  /\ snd \in [File -> Sinfo]
  /\ rcv \in [File -> Rinfo]

\* Nothing is left for a mailer that has hung up.
LinesOk ==
  /\ DOMAIN chan = Node
  /\ \A p \in Node : chan[p] \in Seq(Packets(Peer(p))) /\ (~Running(p) => chan[p] = << >>)

TypeOK == sess \in Sessions /\ LocalsOk /\ FilesOk /\ LinesOk

-----------------------------------------------------------------------------
(* Constants, the two nodes, longs on the line                              *)

LEMMA Nodes ==
  ASSUME NEW p \in Node
  PROVE  Peer(p) \in Node /\ Peer(p) # p /\ Peer(Peer(p)) = p /\ Node = {p, Peer(p)}
<1>1. PICK a, b \in Node : a # b /\ Node = {a, b}
  BY HydraAssumption
<1>2. \A x, y \in Node : x # y => Node = {x, y}
  BY <1>1
<1>3. \A x \in Node : Peer(x) \in Node /\ Peer(x) # x
  <2> SUFFICES ASSUME NEW x \in Node PROVE Peer(x) \in Node /\ Peer(x) # x
    OBVIOUS
  <2>1. \E y \in Node : y # x
    BY <1>1
  <2> QED BY <2>1 DEF Peer
<1> QED BY <1>2, <1>3

LEMMA Constants ==
  /\ NoFile \notin File /\ Size \in [File -> Nat] /\ Real \in [File -> Nat]
  /\ \A f \in File : Sender[f] \in Node /\ 2 * Size[f] < LongMod /\ 2 * Real[f] < LongMod
  /\ MaxTries \in Nat /\ RposIds \in Nat \ {0} /\ LongMod \in Nat /\ LongMod > 4
  /\ \A s \in Sessions :
       /\ s \in Session
       /\ \A f \in File : 2 * s.have[f] < LongMod
       /\ \A p \in Node : \A i, j \in DOMAIN s.queue[p] :
            Sender[s.queue[p][i]] = p /\ (s.queue[p][i] = s.queue[p][j] => i = j)
BY HydraAssumption

LEMMA Owners ==
  /\ \A p \in Node : Mine(p) \subseteq File /\ NoFile \notin Mine(p) /\ Mine(p) \cap Mine(Peer(p)) = {}
  /\ \A f \in File : \E p \in Node : f \in Mine(p)
BY Nodes, Constants DEF Mine

\* What a long is on the line, and what it is again at the other end.
LEMMA Longs ==
  ASSUME sess.wide \in BOOLEAN
  PROVE  /\ \A v \in Int : putlong(v) \in Long
         /\ \A v \in Long : putlong(v) = v
         /\ putlong(-1) = LongMod - 1 /\ putlong(-2) = LongMod - 2
         /\ \A o \in Long : /\ getlong(o) \in Int /\ getlong(o) < LongMod
                            /\ getlong(o) >= 0 => getlong(o) = o /\ (~sess.wide => 2 * o < LongMod)
                            /\ getlong(o) < 0 => ~sess.wide
         /\ \A v \in Long : 2 * v < LongMod => getlong(v) = v
         /\ getlong(LongMod - 1) = IF sess.wide THEN LongMod - 1 ELSE -1
         /\ getlong(LongMod - 2) = IF sess.wide THEN LongMod - 2 ELSE -2
<1>0. LongMod \in Nat /\ LongMod > 4
  BY Constants
<1>1. \A v \in Int : v % LongMod \in Long
  BY <1>0 DEF Long
<1>2. \A v \in Long : v % LongMod = v
  BY <1>0 DEF Long
<1>3. (-1) % LongMod = LongMod - 1 /\ (-2) % LongMod = LongMod - 2
  BY <1>0
<1>4. \A o \in Long : /\ getlong(o) \in Int /\ getlong(o) < LongMod
                      /\ getlong(o) >= 0 => getlong(o) = o /\ (~sess.wide => 2 * o < LongMod)
                      /\ getlong(o) < 0 => ~sess.wide
  BY <1>0 DEF Long, getlong
<1>5. /\ \A v \in Long : 2 * v < LongMod => getlong(v) = v
      /\ getlong(LongMod - 1) = IF sess.wide THEN LongMod - 1 ELSE -1
      /\ getlong(LongMod - 2) = IF sess.wide THEN LongMod - 2 ELSE -2
  BY <1>0 DEF Long, getlong
<1> QED BY <1>1, <1>2, <1>3, <1>4, <1>5 DEF putlong

\* A position in a file survives the line, and is not taken for a refusal.
LEMMA Positions ==
  ASSUME sess.wide \in BOOLEAN
  PROVE  /\ \A v \in Nat : 2 * v < LongMod => v \in Long /\ getlong(putlong(v)) = v
         /\ getlong(putlong(-1)) = IF sess.wide THEN LongMod - 1 ELSE -1
         /\ getlong(putlong(-2)) = IF sess.wide THEN LongMod - 2 ELSE -2
<1>1. \A v \in Nat : 2 * v < LongMod => v \in Long
  BY Constants DEF Long
<1> QED BY <1>1, Longs

LEMMA Wide == ASSUME sess \in Sessions PROVE sess.wide \in BOOLEAN
BY Constants DEF Session

-----------------------------------------------------------------------------
(* A mailer goes on with another record                                     *)

Goes(n, r) == Becomes(n, r) \/ Moves(n, r)

\* All but r.moved.
Like(x, r) ==
  /\ x.tx = r.tx /\ x.rx = r.rx /\ x.txtries = r.txtries /\ x.rxtries = r.rxtries
  /\ x.eob = r.eob /\ x.lastpos = r.lastpos /\ x.cur = r.cur /\ x.recv = r.recv
  /\ x.rid = r.rid /\ x.sid = r.sid /\ x.batch = r.batch /\ x.rc = r.rc

LEMMA GoesIs ==
  ASSUME TypeOK, NEW n \in Node, NEW r \in Local, Goes(n, r)
  PROVE  /\ h' \in [Node -> Local] /\ Like(h'[n], r)
         /\ \A o \in Node : o # n => h'[o] = h[o]
<1>1. PICK b \in BOOLEAN : h' = [h EXCEPT ![n] = [r EXCEPT !.moved = b]]
  BY DEF Goes, Becomes, Moves
<1> DEFINE t == [r EXCEPT !.moved = b]
<1>2. t \in Local /\ Like(t, r)
  BY DEF Local, Like
<1> HIDE DEF t
<1>3. h' = [h EXCEPT ![n] = t]
  BY <1>1 DEF t
<1> QED BY <1>2, <1>3 DEF TypeOK, LocalsOk

\* One field of the locals at a time.
LEMMA Fields ==
  ASSUME NEW r \in Local
  PROVE  /\ \A x \in TxState : [r EXCEPT !.tx = x] \in Local
         /\ \A x \in RxState : [r EXCEPT !.rx = x] \in Local
         /\ \A x \in Nat : [r EXCEPT !.txtries = x] \in Local
         /\ \A x \in Nat : [r EXCEPT !.rxtries = x] \in Local
         /\ \A x \in BOOLEAN : [r EXCEPT !.eob = x] \in Local
         /\ \A x \in Int : [r EXCEPT !.lastpos = x] \in Local
         /\ \A x \in File \cup {NoFile} : [r EXCEPT !.cur = x] \in Local
         /\ \A x \in File \cup {NoFile} : [r EXCEPT !.recv = x] \in Local
         /\ \A x \in Nat : [r EXCEPT !.rid = x] \in Local
         /\ \A x \in Int : [r EXCEPT !.sid = x] \in Local
         /\ \A x \in {"run", "ok", "error"} : [r EXCEPT !.rc = x] \in Local
BY DEF Local

LEMMA LocalFacts ==
  ASSUME TypeOK, NEW p \in Node
  PROVE  /\ h[p] \in Local /\ h[p].tx \in TxState /\ h[p].rx \in RxState
         /\ h[p].txtries \in Nat /\ h[p].rxtries \in Nat
         /\ h[p].txtries + 1 \in Nat /\ h[p].rxtries + 1 \in Nat
         /\ h[p].rid \in Nat /\ (h[p].rid + 1) % RposIds \in Nat
         /\ h[p].lastpos \in Int /\ h[p].sid \in Int /\ h[p].eob \in BOOLEAN
         /\ h[p].cur \in Mine(p) \cup {NoFile} /\ h[p].recv \in Mine(Peer(p)) \cup {NoFile}
         /\ h[p].cur \in File \cup {NoFile} /\ h[p].recv \in File \cup {NoFile}
         /\ h[p].batch \in {1, 2} /\ h[p].rc \in {"run", "ok", "error"}
<1>1. h[p] \in Local
  BY DEF TypeOK, LocalsOk
<1>2. h[p].cur \in Mine(p) \cup {NoFile} /\ h[p].recv \in Mine(Peer(p)) \cup {NoFile}
  BY DEF TypeOK, LocalsOk
<1>3. \A i \in Nat : (i + 1) % RposIds \in Nat
  BY Constants
<1> QED BY <1>1, <1>2, <1>3 DEF Local

-----------------------------------------------------------------------------
(* The lines                                                                *)

\* The packets on the way to x are old ones, k fewer, and behind them perhaps
\* one of S; others say nothing of files.
Passed(x, k, S) ==
  \A i \in DOMAIN chan'[x] :
    \/ i + k \in DOMAIN chan[x] /\ chan'[x][i] = chan[x][i + k]
    \/ chan'[x][i].type \in Idle
    \/ i + k = Len(chan[x]) + 1 /\ chan'[x][i] \in S /\ Running(x)

LEMMA FirstPacket ==
  ASSUME TypeOK, NEW p \in Node, chan[p] # << >>
  PROVE  /\ chan[p][1] \in Packets(Peer(p)) /\ 1 \in DOMAIN chan[p]
         /\ Tail(chan[p]) \in Seq(Packets(Peer(p))) /\ Len(Tail(chan[p])) = Len(chan[p]) - 1
         /\ Len(chan[p]) \in Nat \ {0} /\ DOMAIN chan[p] = 1..Len(chan[p])
         /\ DOMAIN Tail(chan[p]) = 1..Len(chan[p]) - 1
         /\ \A i \in 1..Len(chan[p]) - 1 : Tail(chan[p])[i] = chan[p][i + 1]
         /\ chan[p][1].id \in Nat /\ chan[p][1].len \in Nat /\ chan[p][1].offs \in Long
         /\ chan[p][1].file \in File \cup {NoFile}
<1>1. chan[p] \in Seq(Packets(Peer(p)))
  BY DEF TypeOK, LinesOk
<1>2. Len(chan[p]) \in Nat /\ DOMAIN chan[p] = 1..Len(chan[p])
  BY <1>1, LenProperties
<1>3. Len(chan[p]) \in Nat \ {0}
  BY <1>1, <1>2, EmptySeq
<1>4. /\ Tail(chan[p]) \in Seq(Packets(Peer(p))) /\ Len(Tail(chan[p])) = Len(chan[p]) - 1
      /\ \A i \in 1..Len(chan[p]) - 1 : Tail(chan[p])[i] = chan[p][i + 1]
  BY <1>1, HeadTailProperties
<1>5. DOMAIN Tail(chan[p]) = 1..Len(Tail(chan[p]))
  BY <1>4, LenProperties
<1>6. 1 \in DOMAIN chan[p] /\ chan[p][1] \in Packets(Peer(p))
  BY <1>1, <1>2, <1>3, ElementOfSeq
<1>7. /\ chan[p][1].id \in Nat /\ chan[p][1].len \in Nat /\ chan[p][1].offs \in Long
      /\ chan[p][1].file \in File \cup {NoFile}
  BY <1>6 DEF Packets
<1> QED BY <1>1, <1>2, <1>3, <1>4, <1>5, <1>6, <1>7

\* A sequence and one more.
LEMMA Appended ==
  ASSUME NEW S, NEW c \in Seq(S), NEW m \in S
  PROVE  /\ c \o <<m>> \in Seq(S) /\ c \o << >> = c
         /\ DOMAIN (c \o <<m>>) = 1..Len(c) + 1
         /\ \A i \in 1..Len(c) : (c \o <<m>>)[i] = c[i]
         /\ (c \o <<m>>)[Len(c) + 1] = m
<1>1. /\ Len(c) \in Nat /\ Len(<<m>>) = 1 /\ <<m>> \in Seq(S) /\ <<m>>[1] = m
  BY LenProperties
<1>2. /\ c \o <<m>> \in Seq(S) /\ Len(c \o <<m>>) = Len(c) + 1
      /\ \A i \in 1..Len(c) + 1 : (c \o <<m>>)[i] = IF i <= Len(c) THEN c[i] ELSE <<m>>[i - Len(c)]
  BY <1>1, ConcatProperties
<1>3. DOMAIN (c \o <<m>>) = 1..Len(c) + 1
  BY <1>2, LenProperties
<1>4. Len(c) + 1 \in 1..Len(c) + 1 /\ ~(Len(c) + 1 <= Len(c)) /\ (Len(c) + 1) - Len(c) = 1
  BY <1>1
<1>5. (c \o <<m>>)[Len(c) + 1] = m
  BY <1>1, <1>2, <1>4
<1>6. ASSUME NEW i \in 1..Len(c) PROVE (c \o <<m>>)[i] = c[i]
  BY <1>1, <1>2
<1>7. c \o << >> = c
  BY ConcatEmptySeq
<1> QED BY <1>2, <1>3, <1>5, <1>6, <1>7

\* Nobody hangs up.
Online == \A p \in Node : h'[p].rc = h[p].rc

LEMMA LinesKept ==
  ASSUME TypeOK, DOMAIN chan' = Node,
         \A p \in Node : chan'[p] \in Seq(Packets(Peer(p))) /\ (h'[p].rc # "run" => chan'[p] = << >>)
  PROVE  LinesOk'
<1>1. \A p \in Node : Packets(Peer(p))' = Packets(Peer(p))
  BY DEF Packets, Mine, Peer
<1> QED BY <1>1 DEF LinesOk, Running

LEMMA LineIs ==
  ASSUME TypeOK, NEW p \in Node
  PROVE  /\ chan[p] \in Seq(Packets(Peer(p))) /\ Len(chan[p]) \in Nat /\ DOMAIN chan[p] = 1..Len(chan[p])
         /\ \A i \in DOMAIN chan[p] : chan[p][i] \in Packets(Peer(p))
         /\ ~Running(p) => chan[p] = << >>
<1>1. chan[p] \in Seq(Packets(Peer(p)))
  BY DEF TypeOK, LinesOk
<1>2. Len(chan[p]) \in Nat /\ DOMAIN chan[p] = 1..Len(chan[p])
  BY <1>1, LenProperties
<1> QED BY <1>1, <1>2, ElementOfSeq DEF TypeOK, LinesOk

LEMMA Unchanged ==
  ASSUME TypeOK, NEW p \in Node, chan'[p] = chan[p], NEW S
  PROVE  Passed(p, 0, S)
BY LineIs DEF Passed

LEMMA SendsOne ==
  ASSUME TypeOK, Online, NEW n \in Node, NEW m \in Packets(n), Sends(n, <<m>>)
  PROVE  /\ LinesOk'
         /\ Passed(Peer(n), 0, {m}) /\ Passed(n, 0, {}) /\ chan'[n] = chan[n]
<1> DEFINE q == Peer(n)
           c == chan[q]
<1>1. q \in Node /\ q # n /\ Node = {n, q} /\ Peer(q) = n
  BY Nodes
<1>2. c \in Seq(Packets(n)) /\ Len(c) \in Nat /\ DOMAIN c = 1..Len(c)
  BY <1>1, LineIs
<1>3. /\ c \o <<m>> \in Seq(Packets(n))
      /\ DOMAIN (c \o <<m>>) = 1..Len(c) + 1
      /\ \A i \in 1..Len(c) : (c \o <<m>>)[i] = c[i]
      /\ (c \o <<m>>)[Len(c) + 1] = m
  BY <1>2, Appended
<1>4. /\ DOMAIN chan' = Node /\ chan'[n] = chan[n]
      /\ chan'[q] = IF Running(q) THEN c \o <<m>> ELSE c
  BY <1>1 DEF Sends, TypeOK, LinesOk
<1>5. \A p \in Node : chan'[p] \in Seq(Packets(Peer(p))) /\ (h'[p].rc # "run" => chan'[p] = << >>)
  BY <1>1, <1>2, <1>3, <1>4, LineIs DEF Online, Running
<1>6. ASSUME NEW i \in DOMAIN chan'[q]
      PROVE  \/ i + 0 \in DOMAIN c /\ chan'[q][i] = c[i + 0]
             \/ i + 0 = Len(c) + 1 /\ chan'[q][i] = m /\ Running(q)
  <2>1. CASE Running(q)
    BY <1>2, <1>3, <1>4, <1>6, <2>1
  <2>2. CASE ~Running(q)
    BY <1>2, <1>4, <1>6, <2>2
  <2> QED BY <2>1, <2>2
<1> QED BY <1>1, <1>4, <1>5, <1>6, LinesKept, Unchanged DEF Passed

\* The first packet on the way to n is taken.
LEMMA Taken ==
  ASSUME TypeOK, NEW n \in Node, chan[n] # << >>, chan'[n] = Tail(chan[n]), NEW S
  PROVE  Passed(n, 1, S)
<1>1. /\ Len(chan[n]) \in Nat \ {0} /\ DOMAIN chan[n] = 1..Len(chan[n])
      /\ DOMAIN Tail(chan[n]) = 1..Len(chan[n]) - 1
      /\ \A i \in 1..Len(chan[n]) - 1 : Tail(chan[n])[i] = chan[n][i + 1]
  BY FirstPacket
<1>2. ASSUME NEW i \in DOMAIN chan'[n] PROVE i + 1 \in DOMAIN chan[n] /\ chan'[n][i] = chan[n][i + 1]
  BY <1>1, <1>2
<1> QED BY <1>2 DEF Passed

LEMMA AnswersAre ==
  ASSUME TypeOK, Online, NEW n \in Node, Running(n), chan[n] # << >>,
         NEW ms \in Seq(Packets(n)), Answers(n, ms)
  PROVE  /\ LinesOk'
         /\ Passed(n, 1, {})
         /\ chan'[Peer(n)] = IF Running(Peer(n)) THEN chan[Peer(n)] \o ms ELSE chan[Peer(n)]
<1> DEFINE q == Peer(n)
           c == chan[q]
<1>1. q \in Node /\ q # n /\ Node = {n, q} /\ Peer(q) = n
  BY Nodes
<1>2. c \in Seq(Packets(n)) /\ c \o ms \in Seq(Packets(n))
  BY <1>1, LineIs, ConcatProperties
<1>3. Tail(chan[n]) \in Seq(Packets(q))
  BY FirstPacket
<1>4. /\ DOMAIN chan' = Node /\ chan'[n] = Tail(chan[n])
      /\ chan'[q] = IF Running(q) THEN c \o ms ELSE c
  BY <1>1 DEF Answers, TypeOK, LinesOk
<1>5. \A p \in Node : chan'[p] \in Seq(Packets(Peer(p))) /\ (h'[p].rc # "run" => chan'[p] = << >>)
  BY <1>1, <1>2, <1>3, <1>4, LineIs DEF Online, Running
<1> QED BY <1>4, <1>5, LinesKept, Taken

LEMMA AnswersNothing ==
  ASSUME TypeOK, Online, NEW n \in Node, Running(n), chan[n] # << >>, Answers(n, << >>)
  PROVE  LinesOk' /\ Passed(n, 1, {}) /\ Passed(Peer(n), 0, {})
<1>1. Peer(n) \in Node
  BY Nodes
<1>2. chan[Peer(n)] \o << >> = chan[Peer(n)]
  BY <1>1, LineIs, ConcatEmptySeq
<1>3. << >> \in Seq(Packets(n))
  OBVIOUS
<1>4. /\ LinesOk' /\ Passed(n, 1, {})
      /\ chan'[Peer(n)] = chan[Peer(n)]
  BY <1>2, <1>3, AnswersAre
<1> QED BY <1>1, <1>4, Unchanged

LEMMA AnswersOne ==
  ASSUME TypeOK, Online, NEW n \in Node, Running(n), chan[n] # << >>,
         NEW m \in Packets(n), Answers(n, <<m>>)
  PROVE  LinesOk' /\ Passed(n, 1, {}) /\ Passed(Peer(n), 0, {m})
<1> DEFINE q == Peer(n)
           c == chan[q]
<1>1. q \in Node /\ Peer(q) = n
  BY Nodes
<1>2. c \in Seq(Packets(n)) /\ Len(c) \in Nat /\ DOMAIN c = 1..Len(c)
  BY <1>1, LineIs
<1>3. /\ DOMAIN (c \o <<m>>) = 1..Len(c) + 1
      /\ \A i \in 1..Len(c) : (c \o <<m>>)[i] = c[i]
      /\ (c \o <<m>>)[Len(c) + 1] = m
  BY <1>2, Appended
<1>4. <<m>> \in Seq(Packets(n))
  OBVIOUS
<1>5. /\ LinesOk' /\ Passed(n, 1, {})
      /\ chan'[q] = IF Running(q) THEN c \o <<m>> ELSE c
  BY <1>4, AnswersAre
<1>6. ASSUME NEW i \in DOMAIN chan'[q]
      PROVE  \/ i + 0 \in DOMAIN c /\ chan'[q][i] = c[i + 0]
             \/ i + 0 = Len(c) + 1 /\ chan'[q][i] = m /\ Running(q)
  <2>1. CASE Running(q)
    BY <1>2, <1>3, <1>5, <1>6, <2>1
  <2>2. CASE ~Running(q)
    BY <1>2, <1>5, <1>6, <2>2
  <2> QED BY <2>1, <2>2
<1> QED BY <1>5, <1>6 DEF Passed

\* Packets that say nothing of files.
LEMMA AnswersIdle ==
  ASSUME TypeOK, Online, NEW n \in Node, Running(n), chan[n] # << >>,
         NEW ms \in Seq(Packets(n)), \A i \in DOMAIN ms : ms[i].type \in Idle, Answers(n, ms)
  PROVE  LinesOk' /\ Passed(n, 1, {}) /\ Passed(Peer(n), 0, {})
<1> DEFINE q == Peer(n)
           c == chan[q]
<1>1. q \in Node /\ Peer(q) = n
  BY Nodes
<1>2. c \in Seq(Packets(n)) /\ Len(c) \in Nat /\ DOMAIN c = 1..Len(c)
  BY <1>1, LineIs
<1>3. /\ LinesOk' /\ Passed(n, 1, {})
      /\ chan'[q] = IF Running(q) THEN c \o ms ELSE c
  BY AnswersAre
<1>4. Len(ms) \in Nat /\ DOMAIN ms = 1..Len(ms)
  BY LenProperties
<1>5. /\ Len(c \o ms) = Len(c) + Len(ms)
      /\ \A i \in 1..Len(c) + Len(ms) : (c \o ms)[i] = IF i <= Len(c) THEN c[i] ELSE ms[i - Len(c)]
      /\ DOMAIN (c \o ms) = 1..Len(c) + Len(ms)
  BY <1>2, ConcatProperties, LenProperties
<1>6. ASSUME NEW i \in DOMAIN chan'[q]
      PROVE  \/ i + 0 \in DOMAIN c /\ chan'[q][i] = c[i + 0]
             \/ chan'[q][i].type \in Idle
  <2>1. CASE Running(q) /\ i <= Len(c)
    BY <1>2, <1>3, <1>4, <1>5, <1>6, <2>1
  <2>2. CASE Running(q) /\ ~(i <= Len(c))
    <3>1. i - Len(c) \in DOMAIN ms /\ chan'[q][i] = ms[i - Len(c)]
      BY <1>2, <1>3, <1>4, <1>5, <1>6, <2>2
    <3> QED BY <3>1
  <2>3. CASE ~Running(q)
    BY <1>2, <1>3, <1>6, <2>3
  <2> QED BY <2>1, <2>2, <2>3
<1> QED BY <1>3, <1>6 DEF Passed

LEMMA SendsIdle ==
  ASSUME TypeOK, Online, NEW n \in Node, NEW m \in Packets(n), m.type \in Idle, Sends(n, <<m>>)
  PROVE  LinesOk' /\ Passed(Peer(n), 0, {}) /\ Passed(n, 0, {})
<1>1. LinesOk' /\ Passed(Peer(n), 0, {m}) /\ Passed(n, 0, {})
  BY SendsOne
<1> QED BY <1>1 DEF Passed

LEMMA SameLines ==
  ASSUME TypeOK, Online, chan' = chan
  PROVE  LinesOk' /\ \A p \in Node : Passed(p, 0, {})
<1>1. \A p \in Node : chan'[p] \in Seq(Packets(Peer(p))) /\ (h'[p].rc # "run" => chan'[p] = << >>)
  BY LineIs DEF Online, Running
<1> QED BY <1>1, LinesKept, Unchanged DEF TypeOK, LinesOk

LEMMA PktIs ==
  ASSUME TypeOK, NEW n \in Node, NEW t \in Idle \cup Forward \cup Backward,
         NEW f \in File \cup {NoFile}, NEW o \in Int,
         t \in Forward => f \in Mine(n) \cup {NoFile}, t \in {"DATA", "EOF"} => f # NoFile
  PROVE  /\ Pkt(t, f, o) \in Packets(n)
         /\ Pkt(t, f, o).type = t /\ Pkt(t, f, o).file = f /\ Pkt(t, f, o).offs = putlong(o)
         /\ \A i \in Nat : /\ [Pkt(t, f, o) EXCEPT !.id = i] \in Packets(n)
                           /\ [Pkt(t, f, o) EXCEPT !.id = i].type = t
                           /\ [Pkt(t, f, o) EXCEPT !.id = i].offs = putlong(o)
         /\ \A i \in Nat : /\ [Pkt(t, f, o) EXCEPT !.len = i] \in Packets(n)
                           /\ [Pkt(t, f, o) EXCEPT !.len = i].type = t
                           /\ [Pkt(t, f, o) EXCEPT !.len = i].file = f
                           /\ [Pkt(t, f, o) EXCEPT !.len = i].offs = putlong(o)
                           /\ [Pkt(t, f, o) EXCEPT !.len = i].len = i
<1>1. putlong(o) \in Long
  BY Longs, Wide DEF TypeOK
<1> QED BY <1>1 DEF Pkt, Packets

LEMMA PlainIs ==
  ASSUME TypeOK, NEW n \in Node, NEW t \in Idle
  PROVE  Plain(t) \in Packets(n) /\ Plain(t).type = t
<1>1. t \notin Forward /\ t \notin {"DATA", "EOF"} /\ t \in Idle \cup Forward \cup Backward
  BY DEF Idle, Forward
<1> QED BY <1>1, PktIs DEF Plain

-----------------------------------------------------------------------------
(* What a step does to the locals of n: those of its sender, or those of    *)
(* its receiver.                                                            *)

HTx(n, t, c, e) ==
  /\ LocalsOk' /\ Online
  /\ h'[n].tx = t /\ h'[n].cur = c /\ h'[n].eob = e
  /\ h'[n].rx = h[n].rx /\ h'[n].recv = h[n].recv /\ h'[n].batch = h[n].batch
  /\ h'[Peer(n)] = h[Peer(n)]

HRx(n, x, v) ==
  /\ LocalsOk' /\ Online
  /\ h'[n].rx = x /\ h'[n].recv = v
  /\ h'[n].tx = h[n].tx /\ h'[n].cur = h[n].cur /\ h'[n].eob = h[n].eob /\ h'[n].batch = h[n].batch
  /\ h'[Peer(n)] = h[Peer(n)]

LEMMA LocalsKept ==
  ASSUME TypeOK, NEW n \in Node, NEW r \in Local, Goes(n, r),
         r.cur \in Mine(n) \cup {NoFile}, r.recv \in Mine(Peer(n)) \cup {NoFile}
  PROVE  LocalsOk'
<1>1. /\ h' \in [Node -> Local] /\ Like(h'[n], r)
      /\ \A o \in Node : o # n => h'[o] = h[o]
  BY GoesIs
<1>2. \A o \in Node : Mine(o)' = Mine(o) /\ Peer(o)' = Peer(o)
  BY DEF Mine, Peer
<1>3. \A o \in Node : h'[o].cur \in Mine(o) \cup {NoFile} /\ h'[o].recv \in Mine(Peer(o)) \cup {NoFile}
  BY <1>1, Nodes DEF Like, TypeOK, LocalsOk
<1> QED BY <1>1, <1>2, <1>3 DEF LocalsOk

LEMMA TxIs ==
  ASSUME TypeOK, NEW n \in Node, NEW r \in Local, Goes(n, r),
         r.cur \in Mine(n) \cup {NoFile},
         r.rx = h[n].rx, r.recv = h[n].recv, r.batch = h[n].batch, r.rc = h[n].rc
  PROVE  HTx(n, r.tx, r.cur, r.eob)
<1>1. /\ Like(h'[n], r) /\ \A o \in Node : o # n => h'[o] = h[o]
  BY GoesIs
<1>2. LocalsOk'
  BY LocalsKept, LocalFacts
<1> QED BY <1>1, <1>2, Nodes DEF Like, HTx, Online

LEMMA RxIs ==
  ASSUME TypeOK, NEW n \in Node, NEW r \in Local, Goes(n, r),
         r.recv \in Mine(Peer(n)) \cup {NoFile},
         r.tx = h[n].tx, r.cur = h[n].cur, r.eob = h[n].eob, r.batch = h[n].batch, r.rc = h[n].rc
  PROVE  HRx(n, r.rx, r.recv)
<1>1. /\ Like(h'[n], r) /\ \A o \in Node : o # n => h'[o] = h[o]
  BY GoesIs
<1>2. LocalsOk'
  BY LocalsKept, LocalFacts
<1> QED BY <1>1, <1>2, Nodes DEF Like, HRx, Online

\* The sender's own states.
LEMMA TxGoes ==
  ASSUME TypeOK, NEW n \in Node, NEW t \in TxState, NEW k \in Nat
  PROVE  /\ Goes(n, [h[n] EXCEPT !.tx = t]) => HTx(n, t, h[n].cur, h[n].eob)
         /\ Goes(n, [h[n] EXCEPT !.txtries = k, !.tx = t]) => HTx(n, t, h[n].cur, h[n].eob)
         /\ \A c \in Mine(n) \cup {NoFile}, e \in BOOLEAN :
              Goes(n, [h[n] EXCEPT !.cur = c, !.eob = e, !.txtries = k, !.tx = t]) => HTx(n, t, c, e)
         /\ Goes(n, [h[n] EXCEPT !.cur = NoFile, !.tx = t]) => HTx(n, t, NoFile, h[n].eob)
         /\ \A i \in Int : Goes(n, [h[n] EXCEPT !.sid = i, !.tx = t]) => HTx(n, t, h[n].cur, h[n].eob)
         /\ \A i \in Int : Goes(n, ToEof([h[n] EXCEPT !.sid = i])) => HTx(n, "EOF", h[n].cur, h[n].eob)
<1>1. h[n] \in Local /\ h[n].cur \in Mine(n) \cup {NoFile} /\ Mine(n) \subseteq File
  BY LocalFacts, Owners
<1>2. ASSUME NEW r \in Local,
             r \in {[h[n] EXCEPT !.tx = t], [h[n] EXCEPT !.txtries = k, !.tx = t]}, Goes(n, r)
      PROVE  HTx(n, t, h[n].cur, h[n].eob)
  <2>1. /\ r.tx = t /\ r.cur = h[n].cur /\ r.eob = h[n].eob
        /\ r.rx = h[n].rx /\ r.recv = h[n].recv /\ r.batch = h[n].batch /\ r.rc = h[n].rc
    BY <1>1, <1>2 DEF Local
  <2> QED BY <1>1, <1>2, <2>1, TxIs
<1>3. [h[n] EXCEPT !.tx = t] \in Local /\ [h[n] EXCEPT !.txtries = k, !.tx = t] \in Local
  BY <1>1, Fields
<1>4. ASSUME NEW c \in Mine(n) \cup {NoFile}, NEW e \in BOOLEAN,
             Goes(n, [h[n] EXCEPT !.cur = c, !.eob = e, !.txtries = k, !.tx = t])
      PROVE  HTx(n, t, c, e)
  <2> DEFINE r == [h[n] EXCEPT !.cur = c, !.eob = e, !.txtries = k, !.tx = t]
  <2>1. [h[n] EXCEPT !.cur = c, !.eob = e] \in Local
    BY <1>1, Fields
  <2>2. [h[n] EXCEPT !.cur = c, !.eob = e, !.txtries = k] \in Local
    BY <2>1, Fields
  <2>3. r \in Local
    BY <2>2, Fields
  <2>4. /\ r.tx = t /\ r.cur = c /\ r.eob = e
        /\ r.rx = h[n].rx /\ r.recv = h[n].recv /\ r.batch = h[n].batch /\ r.rc = h[n].rc
    BY <1>1 DEF Local
  <2> HIDE DEF r
  <2> QED BY <1>4, <2>3, <2>4, TxIs DEF r
<1>5. ASSUME Goes(n, [h[n] EXCEPT !.cur = NoFile, !.tx = t]) PROVE HTx(n, t, NoFile, h[n].eob)
  <2> DEFINE r == [h[n] EXCEPT !.cur = NoFile, !.tx = t]
  <2>1. r \in Local
    BY <1>1, Fields
  <2>2. /\ r.tx = t /\ r.cur = NoFile /\ r.eob = h[n].eob
        /\ r.rx = h[n].rx /\ r.recv = h[n].recv /\ r.batch = h[n].batch /\ r.rc = h[n].rc
    BY <1>1 DEF Local
  <2> HIDE DEF r
  <2> QED BY <1>5, <2>1, <2>2, TxIs DEF r
<1>6. ASSUME NEW i \in Int, Goes(n, [h[n] EXCEPT !.sid = i, !.tx = t])
      PROVE  HTx(n, t, h[n].cur, h[n].eob)
  <2> DEFINE r == [h[n] EXCEPT !.sid = i, !.tx = t]
  <2>1. r \in Local
    BY <1>1, Fields
  <2>2. /\ r.tx = t /\ r.cur = h[n].cur /\ r.eob = h[n].eob
        /\ r.rx = h[n].rx /\ r.recv = h[n].recv /\ r.batch = h[n].batch /\ r.rc = h[n].rc
    BY <1>1 DEF Local
  <2> HIDE DEF r
  <2> QED BY <1>1, <1>6, <2>1, <2>2, TxIs DEF r
<1>7. ASSUME NEW i \in Int, Goes(n, ToEof([h[n] EXCEPT !.sid = i]))
      PROVE  HTx(n, "EOF", h[n].cur, h[n].eob)
  <2> DEFINE r == [[h[n] EXCEPT !.sid = i] EXCEPT !.txtries = 0, !.tx = "EOF"]
  <2>1. [h[n] EXCEPT !.sid = i] \in Local /\ "EOF" \in TxState
    BY <1>1, Fields DEF TxState
  <2>2. r \in Local
    BY <2>1, Fields
  <2>3. /\ r.tx = "EOF" /\ r.cur = h[n].cur /\ r.eob = h[n].eob
        /\ r.rx = h[n].rx /\ r.recv = h[n].recv /\ r.batch = h[n].batch /\ r.rc = h[n].rc
    BY <1>1 DEF Local
  <2>4. Goes(n, r)
    BY <1>7 DEF ToEof
  <2> HIDE DEF r
  <2> QED BY <1>1, <2>2, <2>3, <2>4, TxIs
<1> QED BY <1>2, <1>3, <1>4, <1>5, <1>6, <1>7

\* Neither of them.
LEMMA Rests ==
  ASSUME TypeOK, NEW n \in Node, Goes(n, h[n])
  PROVE  HTx(n, h[n].tx, h[n].cur, h[n].eob) /\ HRx(n, h[n].rx, h[n].recv)
BY LocalFacts, TxIs, RxIs

\* The receiver's own states.
LEMMA RxGoes ==
  ASSUME TypeOK, NEW n \in Node, NEW x \in RxState, NEW k \in Nat, NEW i \in Int
  PROVE  /\ Goes(n, [h[n] EXCEPT !.rx = x]) => HRx(n, x, h[n].recv)
         /\ Goes(n, [h[n] EXCEPT !.rxtries = k, !.rx = x]) => HRx(n, x, h[n].recv)
         /\ Goes(n, [h[n] EXCEPT !.lastpos = i, !.rx = x]) => HRx(n, x, h[n].recv)
         /\ Goes(n, [h[n] EXCEPT !.lastpos = i]) => HRx(n, h[n].rx, h[n].recv)
         /\ \A v \in Mine(Peer(n)) \cup {NoFile} :
              Goes(n, [h[n] EXCEPT !.recv = v, !.rx = x, !.lastpos = i]) => HRx(n, x, v)
         /\ Goes(n, Repositions(h[n])) => HRx(n, "RPOS", h[n].recv)
         /\ Goes(n, Repositions([h[n] EXCEPT !.lastpos = i])) => HRx(n, "RPOS", h[n].recv)
         /\ Goes(n, TurnsAway([h[n] EXCEPT !.lastpos = i])) => HRx(n, "Skip", h[n].recv)
<1> DEFINE Kept(r) == /\ r.tx = h[n].tx /\ r.cur = h[n].cur /\ r.eob = h[n].eob
                      /\ r.batch = h[n].batch /\ r.rc = h[n].rc
<1>1. h[n] \in Local /\ h[n].recv \in Mine(Peer(n)) \cup {NoFile} /\ Mine(Peer(n)) \subseteq File
  BY LocalFacts, Owners, Nodes
<1>2. ASSUME NEW r \in Local, NEW y, Kept(r), r.rx = y, r.recv = h[n].recv, Goes(n, r)
      PROVE  HRx(n, y, h[n].recv)
  BY <1>1, <1>2, RxIs
<1>3. /\ [h[n] EXCEPT !.rx = x] \in Local /\ [h[n] EXCEPT !.rxtries = k] \in Local
      /\ [h[n] EXCEPT !.lastpos = i] \in Local
  BY <1>1, Fields
<1>4. [h[n] EXCEPT !.rxtries = k, !.rx = x] \in Local /\ [h[n] EXCEPT !.lastpos = i, !.rx = x] \in Local
  BY <1>3, Fields
<1>5. \A r \in {[h[n] EXCEPT !.rx = x], [h[n] EXCEPT !.rxtries = k, !.rx = x], [h[n] EXCEPT !.lastpos = i, !.rx = x]} :
        Kept(r) /\ r.rx = x /\ r.recv = h[n].recv
  BY <1>1 DEF Local
<1>6. Kept([h[n] EXCEPT !.lastpos = i]) /\ [h[n] EXCEPT !.lastpos = i].rx = h[n].rx
      /\ [h[n] EXCEPT !.lastpos = i].recv = h[n].recv /\ [h[n] EXCEPT !.lastpos = i].rid = h[n].rid
  BY <1>1 DEF Local
<1>7. ASSUME NEW v \in Mine(Peer(n)) \cup {NoFile},
             Goes(n, [h[n] EXCEPT !.recv = v, !.rx = x, !.lastpos = i])
      PROVE  HRx(n, x, v)
  <2> DEFINE r == [h[n] EXCEPT !.recv = v, !.rx = x, !.lastpos = i]
  <2>1. [h[n] EXCEPT !.recv = v] \in Local
    BY <1>1, Fields
  <2>2. [h[n] EXCEPT !.recv = v, !.rx = x] \in Local
    BY <2>1, Fields
  <2>3. r \in Local
    BY <2>2, Fields
  <2>4. Kept(r) /\ r.rx = x /\ r.recv = v
    BY <1>1 DEF Local
  <2> HIDE DEF r
  <2> QED BY <1>7, <2>3, <2>4, RxIs DEF r
<1>8. ASSUME NEW s \in Local, Kept(s), s.recv = h[n].recv, s.rid \in Nat, NEW y \in {"RPOS", "Skip"},
             Goes(n, [s EXCEPT !.rid = (@ + 1) % RposIds, !.rxtries = 0, !.rx = y])
      PROVE  HRx(n, y, h[n].recv)
  <2>1. PICK d \in Nat : d = (s.rid + 1) % RposIds
    BY <1>8, Constants
  <2> DEFINE r == [s EXCEPT !.rid = d, !.rxtries = 0, !.rx = y]
  <2>2. [s EXCEPT !.rid = d] \in Local /\ y \in RxState
    BY <1>8, Fields DEF RxState
  <2>3. [s EXCEPT !.rid = d, !.rxtries = 0] \in Local
    BY <2>2, Fields
  <2>4. r \in Local
    BY <2>2, <2>3, Fields
  <2>5. Kept(r) /\ r.rx = y /\ r.recv = h[n].recv
    BY <1>8 DEF Local
  <2>6. Goes(n, r)
    BY <1>8, <2>1
  <2> HIDE DEF r
  <2> QED BY <1>2, <2>4, <2>5, <2>6
<1>9. Goes(n, Repositions(h[n])) => HRx(n, "RPOS", h[n].recv)
  BY <1>1, <1>8, LocalFacts DEF Repositions
<1>10. Goes(n, Repositions([h[n] EXCEPT !.lastpos = i])) => HRx(n, "RPOS", h[n].recv)
  BY <1>3, <1>6, <1>8, LocalFacts DEF Repositions
<1>11. Goes(n, TurnsAway([h[n] EXCEPT !.lastpos = i])) => HRx(n, "Skip", h[n].recv)
  BY <1>3, <1>6, <1>8, LocalFacts DEF TurnsAway
<1> HIDE DEF Kept
<1> QED BY <1>2, <1>3, <1>4, <1>5, <1>6, <1>7, <1>9, <1>10, <1>11

-----------------------------------------------------------------------------
(***************************************************************************)
(* What each step of a sender does.  A mailer n that acts as a sender      *)
(* leaves what belongs to the receiver alone, takes k packets, and sends   *)
(* at most one that is about a file.                                       *)
(***************************************************************************)
TxLines(n, k, S) ==
  /\ LinesOk' /\ Passed(n, k, {}) /\ Passed(Peer(n), 0, S)
  /\ Running(n) /\ sess' = sess
  /\ k = 1 => chan[n] # << >>
  /\ UNCHANGED <<rcv, inbound>>

Closing == {"REND", "END", "ENDACK", "DONE"}
Busy == {"FINFO", "FINFOACK", "DATA", "EOF", "EOFACK"}
Sending == {"DATA", "EOF", "EOFACK"}

\* Steps outside a file, and packets that are ignored.
TxIdle(n) ==
  \/ SendStart(n) \/ SendInit(n) \/ RemoteEnd(n) \/ SendEnd(n)
  \/ RecvStart(n) \/ RecvInitAck(n) \/ RecvEnd(n) \/ RecvRposIgnored(n) \/ RecvEofAckIgnored(n)
  \/ SendTimer(n) /\ h[n].tx \notin {"FINFOACK", "EOFACK"}
  \/ RecvEobAck(n) /\ h[n].tx # "FINFOACK"

LEMMA TxIdleIs ==
  ASSUME TypeOK, NEW n \in Node, TxIdle(n)
  PROVE  /\ UNCHANGED files
         /\ TxLines(n, 0, {}) \/ TxLines(n, 1, {})
         /\ \E t : /\ HTx(n, t, h[n].cur, h[n].eob)
                   /\ \/ t = h[n].tx
                      \/ h[n].tx \notin Busy /\ t \notin Busy /\ (t \in Closing => h[n].tx \in Closing)
<1> DEFINE To(t) == /\ HTx(n, t, h[n].cur, h[n].eob)
                    /\ \/ t = h[n].tx
                       \/ h[n].tx \notin Busy /\ t \notin Busy /\ (t \in Closing => h[n].tx \in Closing)
<1>0. h[n].txtries + 1 \in Nat /\ 0 \in Nat /\ TxIdle(n)
  BY LocalFacts
<1>1. \A t, c, e : HTx(n, t, c, e) => Online
  BY DEF HTx
<1>2. CASE SendStart(n) \/ SendInit(n) \/ SendEnd(n)
  <2>1. PICK t \in {"SWAIT", "INITACK", "ENDACK"}, y \in {"START", "INIT", "END"} :
          /\ Becomes(n, Tried(n, t)) /\ Sends(n, <<Plain(y)>>)
          /\ UNCHANGED <<files, sess>> /\ Running(n)
          /\ h[n].tx \notin Busy /\ (t \in Closing => h[n].tx \in Closing)
    BY <1>2 DEF SendStart, SendInit, SendEnd, Busy, Closing
  <2>2. t \in TxState /\ y \in Idle /\ t \notin Busy
    BY DEF TxState, Idle, Busy
  <2>3. Goes(n, [h[n] EXCEPT !.txtries = h[n].txtries + 1, !.tx = t])
    BY <2>1 DEF Tried, Goes
  <2>4. HTx(n, t, h[n].cur, h[n].eob)
    BY <1>0, <2>2, <2>3, TxGoes
  <2>5. TxLines(n, 0, {})
    BY <1>1, <2>1, <2>2, <2>4, PlainIs, SendsIdle DEF TxLines, files
  <2> QED BY <2>1, <2>2, <2>4, <2>5
<1>3. CASE RemoteEnd(n)
  <2>1. Goes(n, [h[n] EXCEPT !.txtries = 0, !.tx = "END"]) /\ "END" \in TxState
    BY <1>3 DEF RemoteEnd, Goes, TxState
  <2>2. HTx(n, "END", h[n].cur, h[n].eob)
    BY <1>0, <2>1, TxGoes
  <2>3. /\ UNCHANGED <<files, chan, sess>> /\ Running(n) /\ h[n].tx = "REND"
    BY <1>3 DEF RemoteEnd
  <2>4. TxLines(n, 0, {})
    BY <1>1, <2>2, <2>3, SameLines, Nodes DEF TxLines, files
  <2> QED BY <2>2, <2>3, <2>4 DEF Busy, Closing
<1>4. CASE SendTimer(n) /\ h[n].tx \notin {"FINFOACK", "EOFACK"}
  <2>1. PICK t \in {"START", "INIT", "END"} :
          /\ Becomes(n, [h[n] EXCEPT !.tx = t]) /\ h[n].tx \notin Busy /\ (t \in Closing => h[n].tx \in Closing)
          /\ UNCHANGED <<files, chan, sess>> /\ Running(n)
    BY <1>4 DEF SendTimer, SendTimeout, Busy, Closing
  <2>2. t \in TxState /\ t \notin Busy
    BY DEF TxState, Busy
  <2>3. HTx(n, t, h[n].cur, h[n].eob)
    BY <1>0, <2>1, <2>2, TxGoes DEF Goes
  <2>4. TxLines(n, 0, {})
    BY <1>1, <2>1, <2>3, SameLines, Nodes DEF TxLines, files
  <2> QED BY <2>1, <2>2, <2>3, <2>4
<1>5. CASE \/ RecvStart(n) \/ RecvInitAck(n) \/ RecvEnd(n) \/ RecvRposIgnored(n) \/ RecvEofAckIgnored(n)
           \/ RecvEobAck(n) /\ h[n].tx # "FINFOACK"
  <2>1. UNCHANGED <<files, sess>> /\ Running(n) /\ chan[n] # << >>
    BY <1>5 DEF RecvStart, RecvInitAck, RecvEnd, RecvRposIgnored, RecvEofAckIgnored, RecvEobAck, Takes
  <2>2. Becomes(n, h[n]) \/
        \E t \in {"INIT", "RINIT", "DONE"} :
          /\ Becomes(n, [h[n] EXCEPT !.txtries = 0, !.tx = t])
          /\ h[n].tx \notin Busy /\ (t \in Closing => h[n].tx \in Closing)
    BY <1>5 DEF RecvStart, RecvInitAck, RecvEnd, RecvRposIgnored, RecvEofAckIgnored, RecvEobAck, Busy, Closing
  <2>3. \E t : To(t)
    <3>1. CASE Becomes(n, h[n])
      BY <3>1, Rests DEF Goes
    <3>2. ASSUME NEW t \in {"INIT", "RINIT", "DONE"},
                 Becomes(n, [h[n] EXCEPT !.txtries = 0, !.tx = t]),
                 h[n].tx \notin Busy, t \in Closing => h[n].tx \in Closing
          PROVE  To(t)
      <4>1. t \in TxState /\ t \notin Busy
        BY DEF TxState, Busy
      <4> QED BY <1>0, <3>2, <4>1, TxGoes DEF Goes
    <3> QED BY <2>2, <3>1, <3>2
  <2>4. Online
    BY <1>1, <2>3
  <2>5. Answers(n, << >>) \/ Answers(n, <<Plain("END"), Plain("END"), Plain("END")>>)
    BY <1>5 DEF RecvStart, RecvInitAck, RecvEnd, RecvRposIgnored, RecvEofAckIgnored, RecvEobAck
  <2>6. LinesOk' /\ Passed(n, 1, {}) /\ Passed(Peer(n), 0, {})
    <3>1. CASE Answers(n, << >>)
      BY <2>1, <2>4, <3>1, AnswersNothing
    <3>2. CASE Answers(n, <<Plain("END"), Plain("END"), Plain("END")>>)
      <4>1. PICK e : e = Plain("END")
        OBVIOUS
      <4>2. e \in Packets(n) /\ e.type \in Idle
        BY <4>1, PlainIs DEF Idle
      <4>3. PICK ms : ms = <<e, e, e>>
        OBVIOUS
      <4>4. ms \in Seq(Packets(n)) /\ \A i \in DOMAIN ms : ms[i].type \in Idle
        BY <4>2, <4>3
      <4>5. Answers(n, ms)
        BY <3>2, <4>1, <4>3
      <4> QED BY <2>1, <2>4, <4>4, <4>5, AnswersIdle
    <3> QED BY <2>5, <3>1, <3>2
  <2>7. TxLines(n, 1, {})
    BY <2>1, <2>6 DEF TxLines, files
  <2> QED BY <2>1, <2>3, <2>7
<1> QED BY <1>0, <1>2, <1>3, <1>4, <1>5 DEF TxIdle

LEMMA InQueue ==
  ASSUME TypeOK, NEW n \in Node, NEW i \in DOMAIN queue[n]
  PROVE  queue[n][i] \in Mine(n) /\ queue[n][i] \in File /\ queue[n][i] # NoFile
BY ElementOfSeq, LenProperties, Owners DEF TypeOK, FilesOk

\* What may be lost about a current file: a step within it.
LEMMA OpenNextIs ==
  ASSUME TypeOK, NEW n \in Node, OpenNext(n)
  PROVE  /\ h[n].tx \in {"NextFile", "RINIT"} /\ UNCHANGED gone
         /\ \E i \in DOMAIN queue[n] :
              /\ HTx(n, "FINFOACK", queue[n][i], FALSE)
              /\ TxLines(n, 0, {Pkt("FINFO", queue[n][i], 0)})
              /\ queue' = [queue EXCEPT ![n] = Without(@, i)]
              /\ snd' = [snd EXCEPT ![queue[n][i]].status = "process", ![queue[n][i]].open = TRUE]
<1>1. PICK i \in Due(n) : LET f == queue[n][i] IN
        /\ Becomes(n, [h[n] EXCEPT !.cur = f, !.eob = FALSE, !.txtries = 1, !.tx = "FINFOACK"])
        /\ queue' = [queue EXCEPT ![n] = Without(@, i)]
        /\ snd' = [snd EXCEPT ![f].status = "process", ![f].open = TRUE]
        /\ Sends(n, <<Pkt("FINFO", f, 0)>>)
  BY DEF OpenNext
<1>2. i \in DOMAIN queue[n]
  BY DEF Due
<1>3. PICK f : f = queue[n][i]
  OBVIOUS
<1>4. f \in Mine(n) /\ f \in File
  BY <1>2, <1>3, InQueue
<1>5. HTx(n, "FINFOACK", f, FALSE)
  <2>1. Goes(n, [h[n] EXCEPT !.cur = f, !.eob = FALSE, !.txtries = 1, !.tx = "FINFOACK"])
    BY <1>1, <1>3 DEF Goes
  <2>2. "FINFOACK" \in TxState /\ 1 \in Nat /\ FALSE \in BOOLEAN
    BY DEF TxState
  <2> QED BY <1>4, <2>1, <2>2, TxGoes
<1>6. UNCHANGED <<rcv, inbound, gone, sess>> /\ Running(n) /\ h[n].tx \in {"NextFile", "RINIT"}
  BY DEF OpenNext, Opening
<1>7. Pkt("FINFO", f, 0) \in Packets(n)
  BY <1>4, PktIs DEF Forward
<1>8. TxLines(n, 0, {Pkt("FINFO", f, 0)})
  BY <1>1, <1>3, <1>5, <1>6, <1>7, SendsOne DEF HTx, TxLines
<1> QED BY <1>1, <1>2, <1>3, <1>5, <1>6, <1>8

LEMMA EndBatchIs ==
  ASSUME TypeOK, NEW n \in Node, EndBatch(n)
  PROVE  /\ h[n].tx \in {"NextFile", "RINIT"} /\ UNCHANGED <<queue, snd, gone>> /\ Due(n) = {}
         /\ HTx(n, "FINFOACK", NoFile, TRUE)
         /\ TxLines(n, 0, {Pkt("FINFO", NoFile, 0)})
<1>1. HTx(n, "FINFOACK", NoFile, TRUE)
  <2>1. Goes(n, [h[n] EXCEPT !.cur = NoFile, !.eob = TRUE, !.txtries = 1, !.tx = "FINFOACK"])
    BY DEF EndBatch, Goes
  <2>2. "FINFOACK" \in TxState /\ 1 \in Nat /\ TRUE \in BOOLEAN
    BY DEF TxState
  <2> QED BY <2>1, <2>2, TxGoes
<1>2. UNCHANGED <<files, sess>> /\ Running(n) /\ h[n].tx \in {"NextFile", "RINIT"} /\ Due(n) = {}
      /\ Sends(n, <<Pkt("FINFO", NoFile, 0)>>)
  BY DEF EndBatch, Opening
<1>3. Pkt("FINFO", NoFile, 0) \in Packets(n)
  BY PktIs DEF Forward
<1>4. TxLines(n, 0, {Pkt("FINFO", NoFile, 0)})
  BY <1>1, <1>2, <1>3, SendsOne DEF HTx, TxLines, files
<1> QED BY <1>1, <1>2, <1>4 DEF files

LEMMA SendFinfoIs ==
  ASSUME TypeOK, NEW n \in Node, SendFinfo(n)
  PROVE  /\ h[n].tx = "FINFO" /\ UNCHANGED <<queue, snd, gone>>
         /\ HTx(n, "FINFOACK", h[n].cur, h[n].eob)
         /\ TxLines(n, 0, {Pkt("FINFO", h[n].cur, 0)})
<1>1. HTx(n, "FINFOACK", h[n].cur, h[n].eob)
  <2>1. Goes(n, [h[n] EXCEPT !.txtries = h[n].txtries + 1, !.tx = "FINFOACK"])
    BY DEF SendFinfo, Tried, Goes
  <2>2. "FINFOACK" \in TxState
    BY DEF TxState
  <2> QED BY <2>1, <2>2, TxGoes, LocalFacts
<1>2. UNCHANGED <<files, sess>> /\ Running(n) /\ h[n].tx = "FINFO" /\ Sends(n, <<Pkt("FINFO", h[n].cur, 0)>>)
  BY DEF SendFinfo
<1>3. Pkt("FINFO", h[n].cur, 0) \in Packets(n)
  <2>1. PICK c \in File \cup {NoFile} : c = h[n].cur /\ c \in Mine(n) \cup {NoFile}
    BY LocalFacts
  <2>2. Pkt("FINFO", c, 0) \in Packets(n)
    BY <2>1, PktIs DEF Forward
  <2> QED BY <2>1, <2>2
<1>4. TxLines(n, 0, {Pkt("FINFO", h[n].cur, 0)})
  BY <1>1, <1>2, <1>3, SendsOne DEF HTx, TxLines, files
<1> QED BY <1>1, <1>2, <1>4 DEF files

\* A block of k bytes.
Block(f, o, k) == [Pkt("DATA", f, o) EXCEPT !.len = k]

LEMMA SendDataIs ==
  ASSUME TypeOK, NEW n \in Node, SendData(n)
  PROVE  LET c == h[n].cur IN
         /\ h[n].tx = "DATA" /\ c \in Mine(n) /\ UNCHANGED <<queue, gone>>
         /\ \E k \in 1..(Real[c] - snd[c].pos), eof \in BOOLEAN, t \in {"DATA", "EOF"} :
              /\ t = "EOF" => eof
              /\ snd' = [snd EXCEPT ![c].pos = @ + k, ![c].eof = eof]
              /\ HTx(n, t, c, h[n].eob)
              /\ TxLines(n, 0, {Block(c, snd[c].pos, k)})
<1>1. PICK c : c = h[n].cur
  OBVIOUS
<1>2. /\ Running(n) /\ h[n].tx = "DATA" /\ c # NoFile
      /\ UNCHANGED <<queue, rcv, inbound, gone, sess>>
  BY <1>1 DEF SendData, Reading
<1>3. c \in Mine(n) /\ c \in File
  BY <1>1, <1>2, LocalFacts, Owners
<1>4. PICK k \in 1..(Real[c] - snd[c].pos) : \E eof \in {FALSE, k = Real[c] - snd[c].pos} :
             /\ snd' = [snd EXCEPT ![c].pos = @ + k, ![c].eof = eof]
             /\ Moves(n, IF eof THEN ToEof(h[n]) ELSE h[n])
             /\ Sends(n, <<[Pkt("DATA", c, snd[c].pos) EXCEPT !.len = k]>>)
  BY <1>1 DEF SendData
<1>5. PICK eof \in BOOLEAN :
             /\ snd' = [snd EXCEPT ![c].pos = @ + k, ![c].eof = eof]
             /\ Moves(n, IF eof THEN ToEof(h[n]) ELSE h[n])
             /\ Sends(n, <<[Pkt("DATA", c, snd[c].pos) EXCEPT !.len = k]>>)
  BY <1>4
<1>6. PICK t \in {"DATA", "EOF"} : (t = "EOF" => eof) /\ HTx(n, t, c, h[n].eob)
  <2>1. CASE eof
    <3>1. Goes(n, [h[n] EXCEPT !.txtries = 0, !.tx = "EOF"]) /\ "EOF" \in TxState /\ 0 \in Nat
      BY <1>5, <2>1 DEF Goes, ToEof, TxState
    <3>2. HTx(n, "EOF", c, h[n].eob)
      BY <1>1, <3>1, TxGoes
    <3> QED BY <2>1, <3>2
  <2>2. CASE ~eof
    <3>1. Goes(n, h[n])
      BY <1>5, <2>2 DEF Goes
    <3>2. HTx(n, "DATA", c, h[n].eob)
      BY <1>1, <1>2, <3>1, Rests
    <3> QED BY <3>2
  <2> QED BY <2>1, <2>2
<1>7. snd[c].pos \in Nat /\ k \in Nat
  BY <1>3, Constants DEF TypeOK, FilesOk, Sinfo
<1>8. Block(c, snd[c].pos, k) \in Packets(n)
  <2>1. PICK o \in Int : o = snd[c].pos
    BY <1>7
  <2>2. c \in File \cup {NoFile} /\ c # NoFile /\ "DATA" \in Idle \cup Forward \cup Backward
    BY <1>3, Constants DEF Forward
  <2>3. \A i \in Nat : [Pkt("DATA", c, o) EXCEPT !.len = i] \in Packets(n)
    BY <1>3, <2>2, PktIs
  <2> QED BY <1>7, <2>1, <2>3 DEF Block
<1>9. TxLines(n, 0, {Block(c, snd[c].pos, k)})
  BY <1>2, <1>5, <1>6, <1>8, SendsOne DEF HTx, TxLines, Block
<1> QED BY <1>1, <1>2, <1>3, <1>5, <1>6, <1>9

LEMMA SendNoDataIs ==
  ASSUME TypeOK, NEW n \in Node, SendNoData(n)
  PROVE  /\ h[n].tx = "DATA" /\ h[n].cur \in Mine(n) /\ UNCHANGED <<queue, gone>>
         /\ snd' = [snd EXCEPT ![h[n].cur].eof = TRUE]
         /\ HTx(n, "EOF", h[n].cur, h[n].eob)
         /\ TxLines(n, 0, {})
<1>1. /\ Running(n) /\ h[n].tx = "DATA" /\ h[n].cur # NoFile
      /\ UNCHANGED <<queue, rcv, inbound, gone, chan, sess>>
      /\ snd' = [snd EXCEPT ![h[n].cur].eof = TRUE]
  BY DEF SendNoData, Reading
<1>2. Goes(n, [h[n] EXCEPT !.txtries = 0, !.tx = "EOF"]) /\ "EOF" \in TxState /\ 0 \in Nat
  BY DEF SendNoData, Goes, ToEof, TxState
<1>3. HTx(n, "EOF", h[n].cur, h[n].eob)
  BY <1>2, TxGoes
<1>4. TxLines(n, 0, {})
  BY <1>1, <1>3, SameLines, Nodes DEF TxLines, HTx
<1> QED BY <1>1, <1>3, <1>4, LocalFacts

LEMMA ReadVanishedIs ==
  ASSUME TypeOK, NEW n \in Node, ReadVanished(n)
  PROVE  LET c == h[n].cur IN
         /\ h[n].tx = "DATA" /\ c \in Mine(n) /\ UNCHANGED <<queue, gone>>
         /\ snd' = [snd EXCEPT ![c].status = "skipped", ![c].eof = FALSE, ![c].there = FALSE]
         /\ HTx(n, "EOF", c, h[n].eob)
         /\ TxLines(n, 0, {})
<1>1. /\ Running(n) /\ h[n].tx = "DATA" /\ h[n].cur # NoFile
      /\ UNCHANGED <<queue, rcv, inbound, gone, chan, sess>>
      /\ snd' = [snd EXCEPT ![h[n].cur].status = "skipped", ![h[n].cur].eof = FALSE,
                            ![h[n].cur].there = FALSE]
  BY DEF ReadVanished, Reading
<1>2. Goes(n, [h[n] EXCEPT !.txtries = 0, !.tx = "EOF"]) /\ "EOF" \in TxState /\ 0 \in Nat
  BY DEF ReadVanished, Goes, ToEof, TxState
<1>3. HTx(n, "EOF", h[n].cur, h[n].eob)
  BY <1>2, TxGoes
<1>4. TxLines(n, 0, {})
  BY <1>1, <1>3, SameLines, Nodes DEF TxLines, HTx
<1> QED BY <1>1, <1>3, <1>4, LocalFacts

LEMMA SendEofIs ==
  ASSUME TypeOK, NEW n \in Node, SendEof(n), h[n].cur # NoFile
  PROVE  /\ h[n].tx = "EOF" /\ UNCHANGED <<queue, snd, gone>>
         /\ HTx(n, "EOFACK", h[n].cur, h[n].eob)
         /\ TxLines(n, 0, {Pkt("EOF", h[n].cur, EofOffset(h[n].cur))})
<1>1. HTx(n, "EOFACK", h[n].cur, h[n].eob)
  <2>1. Goes(n, [h[n] EXCEPT !.txtries = h[n].txtries + 1, !.tx = "EOFACK"])
    BY DEF SendEof, Tried, Goes
  <2>2. "EOFACK" \in TxState
    BY DEF TxState
  <2> QED BY <2>1, <2>2, TxGoes, LocalFacts
<1>2. /\ UNCHANGED <<files, sess>> /\ Running(n) /\ h[n].tx = "EOF"
      /\ Sends(n, <<Pkt("EOF", h[n].cur, EofOffset(h[n].cur))>>)
  BY DEF SendEof
<1>3. Pkt("EOF", h[n].cur, EofOffset(h[n].cur)) \in Packets(n)
  <2>1. PICK c \in File : c = h[n].cur /\ c \in Mine(n) \cup {NoFile}
    BY LocalFacts
  <2>2. EofOffset(c) \in Int
    BY DEF TypeOK, FilesOk, Sinfo, EofOffset
  <2>3. PICK o \in Int : o = EofOffset(c)
    BY <2>2
  <2>4. c # NoFile
    BY Constants
  <2>5. Pkt("EOF", c, o) \in Packets(n)
    BY <2>1, <2>4, PktIs DEF Forward
  <2> QED BY <2>1, <2>3, <2>5
<1>4. TxLines(n, 0, {Pkt("EOF", h[n].cur, EofOffset(h[n].cur))})
  BY <1>1, <1>2, <1>3, SendsOne DEF HTx, TxLines, files
<1> QED BY <1>1, <1>2, <1>4 DEF files

\* A timer of the sender, within a file.
LEMMA SendTimerIs ==
  ASSUME TypeOK, NEW n \in Node, SendTimer(n), h[n].tx \in {"FINFOACK", "EOFACK"}
  PROVE  /\ UNCHANGED <<queue, snd, gone>> /\ (Unanswered(n) \/ Late)
         /\ HTx(n, IF h[n].tx = "FINFOACK" THEN "FINFO" ELSE "EOF", h[n].cur, h[n].eob)
         /\ TxLines(n, 0, {})
<1>1. PICK t \in {"FINFO", "EOF"} :
        /\ t = (IF h[n].tx = "FINFOACK" THEN "FINFO" ELSE "EOF")
        /\ Becomes(n, [h[n] EXCEPT !.tx = t])
  BY DEF SendTimer, SendTimeout
<1>2. HTx(n, t, h[n].cur, h[n].eob)
  BY <1>1, TxGoes DEF Goes, TxState
<1>3. UNCHANGED <<files, chan, sess>> /\ Running(n) /\ (Unanswered(n) \/ Late)
  BY DEF SendTimer
<1>4. TxLines(n, 0, {})
  BY <1>2, <1>3, SameLines, Nodes DEF TxLines, HTx, files
<1> QED BY <1>1, <1>2, <1>3, <1>4 DEF files

\* Nothing is answered to an answer.
LEMMA TakesOne ==
  ASSUME TypeOK, Online, NEW n \in Node, Running(n), chan[n] # << >>, Answers(n, << >>),
         UNCHANGED <<rcv, inbound, sess>>
  PROVE  TxLines(n, 1, {})
BY AnswersNothing DEF TxLines

LEMMA RecvEobAckIs ==
  ASSUME TypeOK, NEW n \in Node, RecvEobAck(n), h[n].tx = "FINFOACK"
  PROVE  /\ h[n].eob /\ chan[n] # << >> /\ chan[n][1].type = "FINFOACK" /\ UNCHANGED <<queue, snd, gone>>
         /\ HTx(n, "REND", h[n].cur, h[n].eob)
         /\ TxLines(n, 1, {})
<1>1. Goes(n, [h[n] EXCEPT !.txtries = 0, !.tx = "REND"]) /\ "REND" \in TxState /\ 0 \in Nat
  BY DEF RecvEobAck, Goes, TxState
<1>2. HTx(n, "REND", h[n].cur, h[n].eob)
  BY <1>1, TxGoes
<1>3. /\ h[n].eob /\ UNCHANGED <<files, sess>> /\ Running(n) /\ chan[n] # << >>
      /\ chan[n][1].type = "FINFOACK" /\ Answers(n, << >>)
  BY DEF RecvEobAck, Takes
<1> QED BY <1>2, <1>3, TakesOne DEF HTx, files

LEMMA RecvFinfoAckIs ==
  ASSUME TypeOK, NEW n \in Node, RecvFinfoAck(n)
  PROVE  /\ h[n].tx = "FINFOACK" /\ ~h[n].eob
         /\ chan[n] # << >> /\ chan[n][1].type = "FINFOACK" /\ Arg(n) >= 0 /\ UNCHANGED <<queue, gone>>
         /\ snd' = [snd EXCEPT ![h[n].cur].pos = Arg(n)]
         /\ HTx(n, "DATA", h[n].cur, h[n].eob)
         /\ TxLines(n, 1, {})
<1>1. Goes(n, [h[n] EXCEPT !.txtries = 0, !.tx = "DATA"]) /\ "DATA" \in TxState /\ 0 \in Nat
  BY DEF RecvFinfoAck, Goes, TxState
<1>2. HTx(n, "DATA", h[n].cur, h[n].eob)
  BY <1>1, TxGoes
<1>3. /\ h[n].tx = "FINFOACK" /\ ~h[n].eob /\ Running(n) /\ chan[n] # << >>
      /\ chan[n][1].type = "FINFOACK" /\ Answers(n, << >>) /\ Arg(n) >= 0
      /\ UNCHANGED <<queue, gone, rcv, inbound, sess>>
      /\ snd' = [snd EXCEPT ![h[n].cur].pos = Arg(n)]
  BY DEF RecvFinfoAck, Takes
<1> QED BY <1>2, <1>3, TakesOne DEF HTx

LEMMA RecvFinfoNakIs ==
  ASSUME TypeOK, NEW n \in Node, RecvFinfoNak(n)
  PROVE  LET status == IF Arg(n) = -1 THEN "skipped" ELSE "refused" IN
         /\ h[n].tx = "FINFOACK" /\ ~h[n].eob
         /\ chan[n] # << >> /\ chan[n][1].type = "FINFOACK" /\ Arg(n) < 0 /\ UNCHANGED queue
         /\ snd' = Fclosed(h[n].cur, status)
         /\ gone' = GoneWith(h[n].cur, status)
         /\ HTx(n, "NextFile", NoFile, h[n].eob)
         /\ TxLines(n, 1, {})
<1>1. Goes(n, [h[n] EXCEPT !.cur = NoFile, !.tx = "NextFile"]) /\ "NextFile" \in TxState /\ 0 \in Nat
  BY DEF RecvFinfoNak, Goes, TxState
<1>2. HTx(n, "NextFile", NoFile, h[n].eob)
  BY <1>1, TxGoes
<1>3. /\ h[n].tx = "FINFOACK" /\ ~h[n].eob /\ Running(n) /\ chan[n] # << >>
      /\ chan[n][1].type = "FINFOACK" /\ Answers(n, << >>) /\ Arg(n) < 0
      /\ UNCHANGED <<queue, rcv, inbound, sess>>
  BY DEF RecvFinfoNak, Takes
<1>4. LET status == IF Arg(n) = -1 THEN "skipped" ELSE "refused" IN
      snd' = Fclosed(h[n].cur, status) /\ gone' = GoneWith(h[n].cur, status)
  BY DEF RecvFinfoNak
<1> QED BY <1>2, <1>3, <1>4, TakesOne DEF HTx

LEMMA RecvRposIs ==
  ASSUME TypeOK, NEW n \in Node, RecvRpos(n)
  PROVE  /\ h[n].tx \in Sending
         /\ chan[n] # << >> /\ chan[n][1].type = "RPOS" /\ Arg(n) >= 0 /\ UNCHANGED <<queue, gone>>
         /\ snd' = [snd EXCEPT ![h[n].cur].eof = FALSE, ![h[n].cur].pos = Arg(n)]
         /\ HTx(n, "DATA", h[n].cur, h[n].eob)
         /\ TxLines(n, 1, {})
<1>1. /\ h[n].tx \in Sending /\ Running(n) /\ chan[n] # << >>
      /\ chan[n][1].type = "RPOS" /\ Answers(n, << >>) /\ Arg(n) >= 0
      /\ UNCHANGED <<queue, gone, rcv, inbound, sess>>
      /\ snd' = [snd EXCEPT ![h[n].cur].eof = FALSE, ![h[n].cur].pos = Arg(n)]
  BY DEF RecvRpos, Takes, Rposable, Sending
<1>2. PICK i \in Int : i = chan[n][1].id
  <2>1. chan[n][1].id \in Int
    BY <1>1, FirstPacket
  <2> QED BY <2>1
<1>3. Goes(n, [h[n] EXCEPT !.sid = i, !.tx = "DATA"]) /\ "DATA" \in TxState /\ 0 \in Nat
  BY <1>2 DEF RecvRpos, Goes, TxState
<1>4. HTx(n, "DATA", h[n].cur, h[n].eob)
  BY <1>3, TxGoes
<1> QED BY <1>1, <1>4, TakesOne DEF HTx

LEMMA RecvRposSkipIs ==
  ASSUME TypeOK, NEW n \in Node, RecvRposSkip(n)
  PROVE  /\ h[n].tx \in Sending
         /\ chan[n] # << >> /\ chan[n][1].type = "RPOS" /\ Arg(n) < 0 /\ UNCHANGED <<queue, gone>>
         /\ snd' = [snd EXCEPT ![h[n].cur].status = IF Arg(n) = -1 THEN "skipped" ELSE "refused"]
         /\ HTx(n, "EOF", h[n].cur, h[n].eob)
         /\ TxLines(n, 1, {})
<1>1. /\ h[n].tx \in Sending /\ Running(n) /\ chan[n] # << >>
      /\ chan[n][1].type = "RPOS" /\ Answers(n, << >>) /\ Arg(n) < 0
      /\ UNCHANGED <<queue, gone, rcv, inbound, sess>>
      /\ snd' = [snd EXCEPT ![h[n].cur].status = IF Arg(n) = -1 THEN "skipped" ELSE "refused"]
  BY DEF RecvRposSkip, Takes, Rposable, Sending
<1>2. PICK i \in Int : i = chan[n][1].id
  <2>1. chan[n][1].id \in Int
    BY <1>1, FirstPacket
  <2> QED BY <2>1
<1>3. Goes(n, ToEof([h[n] EXCEPT !.sid = i])) /\ "EOF" \in TxState /\ 0 \in Nat
  BY <1>2 DEF RecvRposSkip, Goes, TxState
<1>4. HTx(n, "EOF", h[n].cur, h[n].eob)
  BY <1>3, TxGoes
<1> QED BY <1>1, <1>4, TakesOne DEF HTx

LEMMA RecvEofAckIs ==
  ASSUME TypeOK, NEW n \in Node, RecvEofAck(n)
  PROVE  LET status == EofAckStatus(h[n].cur) IN
         /\ h[n].tx \in {"EOF", "EOFACK"}
         /\ chan[n] # << >> /\ chan[n][1].type = "EOFACK" /\ UNCHANGED queue
         /\ snd' = Fclosed(h[n].cur, status)
         /\ gone' = GoneWith(h[n].cur, status)
         /\ HTx(n, "NextFile", NoFile, h[n].eob)
         /\ TxLines(n, 1, {})
<1>1. Goes(n, [h[n] EXCEPT !.cur = NoFile, !.tx = "NextFile"]) /\ "NextFile" \in TxState /\ 0 \in Nat
  BY DEF RecvEofAck, Goes, TxState
<1>2. HTx(n, "NextFile", NoFile, h[n].eob)
  BY <1>1, TxGoes
<1>3. /\ h[n].tx \in {"EOF", "EOFACK"} /\ Running(n) /\ chan[n] # << >>
      /\ chan[n][1].type = "EOFACK" /\ Answers(n, << >>)
      /\ UNCHANGED <<queue, rcv, inbound, sess>>
  BY DEF RecvEofAck, Takes
<1>4. LET status == EofAckStatus(h[n].cur) IN
      snd' = Fclosed(h[n].cur, status) /\ gone' = GoneWith(h[n].cur, status)
  BY DEF RecvEofAck
<1> QED BY <1>2, <1>3, <1>4, TakesOne DEF HTx

-----------------------------------------------------------------------------
(* What each step of a receiver does.                                       *)

RxLines(n, k, S) ==
  /\ LinesOk' /\ Passed(n, k, {}) /\ Passed(Peer(n), 0, S)
  /\ Running(n) /\ sess' = sess
  /\ k = 1 => chan[n] # << >>
  /\ UNCHANGED <<queue, snd, gone>>

Taking == {"DATA", "RPOS", "RPosAck"}
Turning == {"Skip", "SkipAck"}

\* Steps that leave the file, if there is one, as it is, and packets that are ignored.
RxIdle(n) ==
  \/ RecvTimer(n) \/ RecvJunk(n) \/ RecvInit(n) \/ RecvDataElsewhere(n) \/ RecvDataIgnored(n)
  \/ RecvEofElsewhere(n) \/ RecvEofNotSkipped(n)
  \/ RecvFinfoAgain(n) /\ h[n].rx # "DONE"
  \/ RecvEofUnexpected(n) /\ Arg(n) # -2

LEMMA RxIdleIs ==
  ASSUME TypeOK, NEW n \in Node, RxIdle(n)
  PROVE  /\ UNCHANGED <<rcv, inbound>>
         /\ RxLines(n, 0, {}) \/ RxLines(n, 1, {})
         /\ \E x : /\ HRx(n, x, h[n].recv)
                   /\ x \in Taking <=> h[n].rx \in Taking
                   /\ x \in Turning <=> h[n].rx \in Turning
<1> DEFINE To(x) == /\ HRx(n, x, h[n].recv)
                    /\ x \in Taking <=> h[n].rx \in Taking
                    /\ x \in Turning <=> h[n].rx \in Turning
<1>0. 0 \in Nat /\ h[n].rxtries + 1 \in Nat /\ 0 \in Int
  BY LocalFacts
<1>1. \A x : To(x) => Online
  BY DEF HRx
<1>2. CASE RecvTimer(n)
  <2>1. PICK x \in {"Skip", "RPOS"} :
          Becomes(n, [h[n] EXCEPT !.rx = x]) /\ (x \in Taking <=> h[n].rx \in Taking)
          /\ (x \in Turning <=> h[n].rx \in Turning)
    BY <1>2 DEF RecvTimer, Taking, Turning
  <2>2. x \in RxState
    BY DEF RxState
  <2>3. HRx(n, x, h[n].recv)
    BY <1>0, <2>1, <2>2, RxGoes DEF Goes
  <2>4. UNCHANGED <<files, chan, sess>> /\ Running(n)
    BY <1>2 DEF RecvTimer
  <2>5. RxLines(n, 0, {})
    BY <2>3, <2>4, SameLines, Nodes DEF HRx, RxLines, files
  <2> QED BY <2>1, <2>3, <2>4, <2>5 DEF files
<1>3. CASE ~RecvTimer(n)
  <2>1. UNCHANGED <<files, sess>> /\ Running(n) /\ chan[n] # << >>
    BY <1>3 DEF RxIdle, RecvJunk, RecvInit, RecvDataElsewhere, RecvDataIgnored, RecvEofElsewhere,
                RecvEofNotSkipped, RecvFinfoAgain, RecvEofUnexpected, Takes
  <2>2. Arg(n) \in Int
    <3>1. sess.wide \in BOOLEAN
      BY Wide DEF TypeOK
    <3>2. chan[n][1].offs \in Long
      BY <2>1, FirstPacket
    <3> QED BY <3>1, <3>2, Longs DEF Arg
  <2>3. \E x : To(x)
    <3>1. \A x \in Taking : "RPOS" \in Taking /\ x \notin Turning /\ "RPOS" \notin Turning
      BY DEF Taking, Turning
    <3>2. CASE RecvJunk(n)
      <4>1. CASE h[n].rx = "DATA"
        <5>1. Goes(n, Repositions(h[n])) /\ h[n].rx \in Taking
          BY <3>2, <4>1 DEF RecvJunk, Goes, Taking
        <5>2. HRx(n, "RPOS", h[n].recv)
          BY <1>0, <5>1, LocalFacts, RxGoes
        <5> QED BY <3>1, <5>1, <5>2
      <4>2. CASE h[n].rx # "DATA"
        BY <3>2, <4>2, Rests DEF RecvJunk, Goes
      <4> QED BY <4>1, <4>2
    <3>3. CASE RecvInit(n)
      <4>1. CASE h[n].rx = "INIT"
        <5>1. Goes(n, [h[n] EXCEPT !.rxtries = 0, !.rx = "FINFO"]) /\ "FINFO" \in RxState
          BY <3>3, <4>1 DEF RecvInit, Goes, RxState
        <5>2. HRx(n, "FINFO", h[n].recv)
          BY <1>0, <5>1, RxGoes
        <5> QED BY <4>1, <5>2 DEF Taking, Turning
      <4>2. CASE h[n].rx # "INIT"
        BY <3>3, <4>2, Rests DEF RecvInit, Goes
      <4> QED BY <4>1, <4>2
    <3>4. CASE RecvDataElsewhere(n)
      <4>1. PICK i \in Int : i = Arg(n)
        BY <2>2
      <4>2. h[n].rx \in {"DATA", "RPosAck"} /\ h[n].rx \in Taking /\ "RPOS" \in RxState
        BY <3>4 DEF RecvDataElsewhere, Taking, RxState
      <4>3. \/ Goes(n, Repositions([h[n] EXCEPT !.lastpos = i]))
            \/ Goes(n, [h[n] EXCEPT !.lastpos = i, !.rx = "RPOS"])
            \/ Goes(n, [h[n] EXCEPT !.lastpos = i])
        BY <3>4, <4>1 DEF RecvDataElsewhere, Goes
      <4>4. HRx(n, "RPOS", h[n].recv) \/ HRx(n, h[n].rx, h[n].recv)
        BY <1>0, <4>2, <4>3, RxGoes
      <4> QED BY <3>1, <4>2, <4>4
    <3>5. CASE RecvEofElsewhere(n)
      <4>1. PICK i \in Int : i = Arg(n)
        BY <2>2
      <4>2. h[n].rx \in Taking /\ h[n].rx \in RxState /\ Goes(n, Repositions([h[n] EXCEPT !.lastpos = i]))
        BY <3>5, <4>1, LocalFacts DEF RecvEofElsewhere, Taking, Goes
      <4>3. HRx(n, "RPOS", h[n].recv)
        BY <1>0, <4>2, RxGoes
      <4> QED BY <3>1, <4>2, <4>3
    <3>6. CASE RecvEofNotSkipped(n)
      <4>1. Goes(n, [h[n] EXCEPT !.rx = "Skip"]) /\ "Skip" \in RxState /\ h[n].rx = "SkipAck"
        BY <3>6 DEF RecvEofNotSkipped, Goes, RxState
      <4>2. HRx(n, "Skip", h[n].recv)
        BY <1>0, <4>1, RxGoes
      <4> QED BY <4>1, <4>2 DEF Taking, Turning
    <3>7. CASE RecvDataIgnored(n) \/ RecvFinfoAgain(n) \/ RecvEofUnexpected(n)
      <4>1. Goes(n, h[n])
        BY <3>7 DEF RecvDataIgnored, RecvFinfoAgain, RecvEofUnexpected, Goes
      <4> QED BY <4>1, Rests
    <3> QED BY <1>3, <3>2, <3>3, <3>4, <3>5, <3>6, <3>7 DEF RxIdle
  <2>4. Online
    BY <1>1, <2>3
  <2>5. Answers(n, << >>) \/ Answers(n, <<Plain("INITACK")>>)
    BY <1>3 DEF RxIdle, RecvJunk, RecvInit, RecvDataElsewhere, RecvDataIgnored, RecvEofElsewhere,
                RecvEofNotSkipped, RecvFinfoAgain, RecvEofUnexpected
  <2>6. LinesOk' /\ Passed(n, 1, {}) /\ Passed(Peer(n), 0, {})
    <3>1. CASE Answers(n, << >>)
      BY <2>1, <2>4, <3>1, AnswersNothing
    <3>2. CASE Answers(n, <<Plain("INITACK")>>)
      <4>1. PICK e : e = Plain("INITACK")
        OBVIOUS
      <4>2. e \in Packets(n) /\ e.type \in Idle
        BY <4>1, PlainIs DEF Idle
      <4>3. PICK ms : ms = <<e>>
        OBVIOUS
      <4>4. ms \in Seq(Packets(n)) /\ \A i \in DOMAIN ms : ms[i].type \in Idle
        BY <4>2, <4>3
      <4>5. Answers(n, ms)
        BY <3>2, <4>1, <4>3
      <4> QED BY <2>1, <2>4, <4>4, <4>5, AnswersIdle
    <3> QED BY <2>5, <3>1, <3>2
  <2>7. RxLines(n, 1, {})
    BY <2>1, <2>6 DEF RxLines, files
  <2> QED BY <2>1, <2>3, <2>7 DEF files
<1> QED BY <1>2, <1>3

\* What RPOS asks for.
Asking(n) ==
  IF h[n].rx = "RPOS" THEN rcv[h[n].recv].bytes
  ELSE IF rcv[h[n].recv].status = "skipped" THEN -1 ELSE -2

LEMMA SendRposIs ==
  ASSUME TypeOK, NEW n \in Node, SendRpos(n), h[n].recv # NoFile
  PROVE  /\ h[n].rx \in {"RPOS", "Skip"} /\ UNCHANGED <<rcv, inbound>>
         /\ HRx(n, IF h[n].rx = "RPOS" THEN "RPosAck" ELSE "SkipAck", h[n].recv)
         /\ \E m \in Packets(n) : /\ m.type = "RPOS" /\ m.offs = putlong(Asking(n))
                                  /\ RxLines(n, 0, {m})
<1>1. PICK x \in {"RPosAck", "SkipAck"} :
        /\ x = (IF h[n].rx = "RPOS" THEN "RPosAck" ELSE "SkipAck")
        /\ Goes(n, [h[n] EXCEPT !.rxtries = h[n].rxtries + 1, !.rx = x])
  BY DEF SendRpos, Goes
<1>2. x \in RxState /\ 0 \in Int /\ h[n].rxtries + 1 \in Nat
  BY LocalFacts DEF RxState
<1>3. HRx(n, x, h[n].recv)
  BY <1>1, <1>2, RxGoes
<1>4. /\ h[n].rx \in {"RPOS", "Skip"} /\ UNCHANGED <<files, sess>> /\ Running(n)
      /\ Sends(n, <<[Pkt("RPOS", h[n].recv, Asking(n)) EXCEPT !.id = h[n].rid]>>)
  BY DEF SendRpos, Asking
<1>5. PICK f \in File : f = h[n].recv
  BY LocalFacts
<1>6. Asking(n) \in Int
  <2>1. rcv[f].bytes \in Int
    BY DEF TypeOK, FilesOk, Rinfo
  <2> QED BY <1>5, <2>1 DEF Asking
<1>7. PICK o \in Int, i \in Nat : o = Asking(n) /\ i = h[n].rid
  BY <1>6, LocalFacts
<1>8. PICK m : m = [Pkt("RPOS", f, o) EXCEPT !.id = i]
  OBVIOUS
<1>9. m \in Packets(n) /\ m.type = "RPOS" /\ m.offs = putlong(o)
  <2>1. "RPOS" \notin Forward /\ "RPOS" \notin {"DATA", "EOF"} /\ "RPOS" \in Idle \cup Forward \cup Backward
    BY DEF Forward, Backward
  <2> QED BY <1>8, <2>1, PktIs
<1>10. Sends(n, <<m>>)
  BY <1>4, <1>5, <1>7, <1>8
<1>11. RxLines(n, 0, {m})
  BY <1>3, <1>4, <1>9, <1>10, SendsOne DEF HRx, RxLines, files
<1> QED BY <1>1, <1>3, <1>4, <1>7, <1>9, <1>11 DEF files

\* The answer to a FINFO or an EOF.
LEMMA AnswerIs ==
  ASSUME TypeOK, Online, NEW n \in Node, Running(n), chan[n] # << >>, UNCHANGED <<queue, snd, gone, sess>>,
         NEW t \in {"FINFOACK", "EOFACK"}, NEW f \in File \cup {NoFile}, NEW o \in Int,
         Answers(n, <<Pkt(t, f, o)>>)
  PROVE  RxLines(n, 1, {Pkt(t, f, o)})
<1>1. t \notin Forward /\ t \notin {"DATA", "EOF"} /\ t \in Idle \cup Forward \cup Backward
  BY DEF Forward, Backward
<1>2. PICK m : m = Pkt(t, f, o)
  OBVIOUS
<1>3. m \in Packets(n)
  BY <1>1, <1>2, PktIs
<1>4. Answers(n, <<m>>)
  BY <1>2
<1>5. LinesOk' /\ Passed(n, 1, {}) /\ Passed(Peer(n), 0, {m})
  BY <1>3, <1>4, AnswersOne
<1> QED BY <1>2, <1>5 DEF RxLines

LEMMA NoAnswerIs ==
  ASSUME TypeOK, Online, NEW n \in Node, Running(n), chan[n] # << >>, UNCHANGED <<queue, snd, gone, sess>>,
         Answers(n, << >>)
  PROVE  RxLines(n, 1, {})
BY AnswersNothing DEF RxLines

LEMMA RecvFinfoIs ==
  ASSUME TypeOK, NEW n \in Node, RecvFinfo(n)
  PROVE  LET f == chan[n][1].file IN
         /\ h[n].rx = "FINFO" /\ chan[n][1].type = "FINFO" /\ f \in Mine(Peer(n)) /\ UNCHANGED inbound
         /\ \E r \in FopenResults(n, f) \cap {0, 1, 2} :
              /\ r = 0 => f \notin inbound
              /\ rcv' = [rcv EXCEPT ![f] = Fopened(f, r)]
              /\ HRx(n, IF r = 0 THEN "DATA" ELSE "FINFO", f)
              /\ RxLines(n, 1, {Pkt("FINFOACK", f, CASE r = 0 -> rcv[f].bytes [] r = 1 -> -2 [] r = 2 -> -1)})
<1>1. PICK f : f = chan[n][1].file
  OBVIOUS
<1>2. /\ h[n].rx = "FINFO" /\ Running(n) /\ chan[n] # << >> /\ chan[n][1].type = "FINFO" /\ f # NoFile
      /\ UNCHANGED <<queue, snd, inbound, gone, sess>>
  BY <1>1 DEF RecvFinfo, Takes
<1>3. f \in Mine(Peer(n)) /\ f \in File
  <2>1. chan[n][1] \in Packets(Peer(n)) /\ Peer(n) \in Node
    BY <1>2, FirstPacket, Nodes
  <2> QED BY <1>1, <1>2, <2>1, Owners DEF Packets, Forward
<1>4. PICK r \in FopenResults(n, f) :
          /\ rcv' = [rcv EXCEPT ![f] = Fopened(f, r)]
          /\ Becomes(n, [h[n] EXCEPT !.recv = f, !.rx = IF r = 0 THEN "DATA" ELSE @,
                                     !.lastpos = IF r = 0 THEN -1 ELSE @])
          /\ Answers(n, <<Pkt("FINFOACK", f, CASE r = 0 -> rcv[f].bytes
                                               [] r = 1 -> -2 [] r = 2 -> -1)>>)
  BY <1>1 DEF RecvFinfo
<1>5. r \in {0, 1, 2} /\ (r = 0 => f \notin inbound)
  BY DEF FopenResults
<1>6. PICK x, i : x = (IF r = 0 THEN "DATA" ELSE "FINFO") /\ i = (IF r = 0 THEN -1 ELSE h[n].lastpos)
  OBVIOUS
<1>7. x \in RxState /\ i \in Int /\ 0 \in Nat
  BY <1>6, LocalFacts DEF RxState
<1>8. Goes(n, [h[n] EXCEPT !.recv = f, !.rx = x, !.lastpos = i])
  BY <1>2, <1>4, <1>6 DEF Goes
<1>9. HRx(n, x, f)
  BY <1>3, <1>7, <1>8, RxGoes
<1>10. PICK o : o = (CASE r = 0 -> rcv[f].bytes [] r = 1 -> -2 [] r = 2 -> -1)
  OBVIOUS
<1>11. o \in Int
  <2>1. rcv[f].bytes \in Int
    BY <1>3 DEF TypeOK, FilesOk, Rinfo
  <2> QED BY <1>5, <1>10, <2>1
<1>12. RxLines(n, 1, {Pkt("FINFOACK", f, o)})
  BY <1>2, <1>3, <1>4, <1>9, <1>10, <1>11, AnswerIs DEF HRx
<1> QED BY <1>1, <1>2, <1>3, <1>4, <1>5, <1>6, <1>9, <1>10, <1>12

LEMMA RecvEobIs ==
  ASSUME TypeOK, NEW n \in Node, RecvEob(n)
  PROVE  /\ h[n].rx = "FINFO" /\ chan[n][1].type = "FINFO" /\ chan[n][1].file = NoFile
         /\ UNCHANGED <<rcv, inbound>>
         /\ HRx(n, "DONE", h[n].recv)
         /\ RxLines(n, 1, {Pkt("FINFOACK", NoFile, 0)})
<1>1. /\ h[n].rx = "FINFO" /\ Running(n) /\ chan[n] # << >> /\ chan[n][1].type = "FINFO"
      /\ chan[n][1].file = NoFile /\ UNCHANGED <<files, sess>>
      /\ Answers(n, <<Pkt("FINFOACK", NoFile, 0)>>)
  BY DEF RecvEob, Takes
<1>2. Goes(n, [h[n] EXCEPT !.rx = "DONE"]) /\ "DONE" \in RxState /\ 0 \in Nat /\ 0 \in Int
  BY DEF RecvEob, Goes, RxState
<1>3. HRx(n, "DONE", h[n].recv)
  BY <1>2, RxGoes
<1>4. RxLines(n, 1, {Pkt("FINFOACK", NoFile, 0)})
  <2>1. Online /\ UNCHANGED <<queue, snd, gone, sess>> /\ "FINFOACK" \in {"FINFOACK", "EOFACK"} /\ 0 \in Int
    BY <1>1, <1>3 DEF HRx, files
  <2> QED BY <1>1, <2>1, AnswerIs
<1> QED BY <1>1, <1>3, <1>4 DEF files

LEMMA RecvFinfoAgainIs ==
  ASSUME TypeOK, NEW n \in Node, RecvFinfoAgain(n), h[n].rx = "DONE"
  PROVE  /\ chan[n][1].type = "FINFO" /\ UNCHANGED <<rcv, inbound>>
         /\ HRx(n, h[n].rx, h[n].recv)
         /\ RxLines(n, 1, {Pkt("FINFOACK", NoFile, -2)})
<1>1. /\ Running(n) /\ chan[n] # << >> /\ chan[n][1].type = "FINFO" /\ UNCHANGED <<files, sess>>
      /\ Answers(n, <<Pkt("FINFOACK", NoFile, -2)>>)
  BY DEF RecvFinfoAgain, Takes
<1>2. HRx(n, h[n].rx, h[n].recv)
  BY Rests DEF RecvFinfoAgain, Goes
<1>3. RxLines(n, 1, {Pkt("FINFOACK", NoFile, -2)})
  <2>1. Online /\ UNCHANGED <<queue, snd, gone, sess>> /\ "FINFOACK" \in {"FINFOACK", "EOFACK"} /\ -2 \in Int
    BY <1>1, <1>2 DEF HRx, files
  <2> QED BY <1>1, <2>1, AnswerIs
<1> QED BY <1>1, <1>2, <1>3 DEF files

LEMMA ArgIs ==
  ASSUME TypeOK, NEW n \in Node, chan[n] # << >>
  PROVE  /\ Arg(n) \in Int /\ Arg(n) < LongMod /\ Arg(n) = getlong(chan[n][1].offs)
         /\ Arg(n) >= 0 => Arg(n) = chan[n][1].offs /\ Arg(n) \in Long /\ (~sess.wide => 2 * Arg(n) < LongMod)
         /\ Arg(n) < 0 => ~sess.wide
<1>1. sess.wide \in BOOLEAN
  BY Wide DEF TypeOK
<1>2. chan[n][1].offs \in Long
  BY FirstPacket
<1> QED BY <1>1, <1>2, Longs DEF Arg

LEMMA RecvDataIs ==
  ASSUME TypeOK, NEW n \in Node, RecvData(n)
  PROVE  LET f == h[n].recv IN
         /\ h[n].rx \in Taking /\ chan[n][1].type = "DATA" /\ UNCHANGED inbound
         /\ Arg(n) = rcv[f].bytes
         /\ rcv' = [rcv EXCEPT ![f].bytes = @ + chan[n][1].len,
                               ![f].good = @ /\ chan[n][1].file = f /\ chan[n][1].offs = rcv[f].bytes]
         /\ HRx(n, "DATA", f)
         /\ RxLines(n, 1, {})
<1>1. /\ h[n].rx \in Taking /\ Running(n) /\ chan[n] # << >> /\ chan[n][1].type = "DATA"
      /\ UNCHANGED <<queue, snd, inbound, gone, sess>> /\ Answers(n, << >>)
      /\ Arg(n) = rcv[h[n].recv].bytes
  BY DEF RecvData, Takes, Taking, InPlace
<1>2. PICK i \in Int : i = Arg(n)
  BY <1>1, ArgIs
<1>3. Goes(n, [h[n] EXCEPT !.lastpos = i, !.rx = "DATA"]) /\ "DATA" \in RxState /\ 0 \in Nat
  BY <1>2 DEF RecvData, Goes, RxState
<1>4. HRx(n, "DATA", h[n].recv)
  BY <1>3, RxGoes
<1>5. RxLines(n, 1, {})
  BY <1>1, <1>4, NoAnswerIs DEF HRx
<1>6. rcv' = [rcv EXCEPT ![h[n].recv].bytes = @ + chan[n][1].len,
                         ![h[n].recv].good = @ /\ chan[n][1].file = h[n].recv
                                               /\ chan[n][1].offs = rcv[h[n].recv].bytes]
  BY DEF RecvData
<1> QED BY <1>1, <1>4, <1>5, <1>6

LEMMA WriteFailsIs ==
  ASSUME TypeOK, NEW n \in Node, WriteFails(n)
  PROVE  /\ h[n].rx \in Taking /\ chan[n][1].type = "DATA" /\ UNCHANGED inbound
         /\ \E s \in {"skipped", "refused"} : rcv' = [rcv EXCEPT ![h[n].recv].status = s]
         /\ HRx(n, "Skip", h[n].recv)
         /\ RxLines(n, 1, {})
<1>1. /\ h[n].rx \in Taking /\ Running(n) /\ chan[n] # << >> /\ chan[n][1].type = "DATA"
      /\ UNCHANGED <<queue, snd, inbound, gone, sess>> /\ Answers(n, << >>)
  BY DEF WriteFails, Takes, Taking
<1>2. PICK i \in Int : i = Arg(n)
  BY <1>1, ArgIs
<1>3. Goes(n, TurnsAway([h[n] EXCEPT !.lastpos = i])) /\ "DATA" \in RxState /\ 0 \in Nat
  BY <1>2 DEF WriteFails, Goes, RxState
<1>4. HRx(n, "Skip", h[n].recv)
  BY <1>3, RxGoes
<1>5. RxLines(n, 1, {})
  BY <1>1, <1>4, NoAnswerIs DEF HRx
<1>6. \E s \in {"skipped", "refused"} : rcv' = [rcv EXCEPT ![h[n].recv].status = s]
  BY DEF WriteFails
<1> QED BY <1>1, <1>4, <1>5, <1>6

LEMMA RecvEofIs ==
  ASSUME TypeOK, NEW n \in Node, RecvEof(n), h[n].recv # NoFile
  PROVE  LET f == h[n].recv IN
         /\ h[n].rx \in Taking /\ chan[n][1].type = "EOF" /\ chan[n] # << >>
         /\ rcv[f].bytes = Size[f]
         /\ rcv' = [rcv EXCEPT ![f].status = "success", ![f].open = FALSE]
         /\ inbound' = inbound \cup {f}
         /\ HRx(n, "FINFO", f)
         /\ RxLines(n, 1, {Pkt("EOFACK", f, 0)})
<1>1. PICK f \in File : f = h[n].recv
  BY LocalFacts
<1>2. /\ h[n].rx \in Taking /\ Running(n) /\ chan[n] # << >> /\ chan[n][1].type = "EOF"
      /\ UNCHANGED <<queue, snd, gone, sess>>
      /\ rcv[f].bytes = Size[f] /\ Answers(n, <<Pkt("EOFACK", f, 0)>>)
      /\ rcv' = [rcv EXCEPT ![f].status = "success", ![f].open = FALSE]
      /\ inbound' = inbound \cup {f}
  BY <1>1 DEF RecvEof, AtEof, Takes, Taking
<1>3. Goes(n, [h[n] EXCEPT !.rxtries = 0, !.rx = "FINFO"]) /\ "FINFO" \in RxState /\ 0 \in Nat /\ 0 \in Int
  BY DEF RecvEof, Goes, RxState
<1>4. HRx(n, "FINFO", h[n].recv)
  BY <1>3, RxGoes
<1>5. RxLines(n, 1, {Pkt("EOFACK", f, 0)})
  BY <1>2, <1>3, <1>4, AnswerIs DEF HRx
<1> QED BY <1>1, <1>2, <1>4, <1>5

LEMMA CloseFailsIs ==
  ASSUME TypeOK, NEW n \in Node, CloseFails(n)
  PROVE  /\ h[n].rx \in Taking /\ chan[n][1].type = "EOF" /\ UNCHANGED inbound
         /\ rcv' = [rcv EXCEPT ![h[n].recv].status = "refused", ![h[n].recv].open = FALSE]
         /\ HRx(n, "Skip", h[n].recv)
         /\ RxLines(n, 1, {})
<1>1. /\ h[n].rx \in Taking /\ Running(n) /\ chan[n] # << >> /\ chan[n][1].type = "EOF"
      /\ UNCHANGED <<queue, snd, inbound, gone, sess>> /\ Answers(n, << >>)
      /\ rcv' = [rcv EXCEPT ![h[n].recv].status = "refused", ![h[n].recv].open = FALSE]
  BY DEF CloseFails, AtEof, Takes, Taking
<1>2. Goes(n, [h[n] EXCEPT !.rxtries = 0, !.rx = "Skip"]) /\ "Skip" \in RxState /\ 0 \in Nat /\ 0 \in Int
  BY DEF CloseFails, Goes, RxState
<1>3. HRx(n, "Skip", h[n].recv)
  BY <1>2, RxGoes
<1>4. RxLines(n, 1, {})
  BY <1>1, <1>3, NoAnswerIs DEF HRx
<1> QED BY <1>1, <1>3, <1>4

LEMMA RecvEofSkippedIs ==
  ASSUME TypeOK, NEW n \in Node, RecvEofSkipped(n), h[n].recv # NoFile
  PROVE  LET f == h[n].recv IN
         /\ h[n].rx = "SkipAck" /\ chan[n][1].type = "EOF" /\ UNCHANGED inbound
         /\ rcv' = [rcv EXCEPT ![f].open = FALSE]
         /\ HRx(n, "FINFO", f)
         /\ RxLines(n, 1, {Pkt("EOFACK", f, 0)})
<1>1. PICK f \in File : f = h[n].recv
  BY LocalFacts
<1>2. /\ h[n].rx = "SkipAck" /\ Running(n) /\ chan[n] # << >> /\ chan[n][1].type = "EOF"
      /\ UNCHANGED <<queue, snd, inbound, gone, sess>>
      /\ Answers(n, <<Pkt("EOFACK", f, 0)>>)
      /\ rcv' = [rcv EXCEPT ![f].open = FALSE]
  BY <1>1 DEF RecvEofSkipped, Takes
<1>3. Goes(n, [h[n] EXCEPT !.rxtries = 0, !.rx = "FINFO"]) /\ "FINFO" \in RxState /\ 0 \in Nat /\ 0 \in Int
  BY DEF RecvEofSkipped, Goes, RxState
<1>4. HRx(n, "FINFO", h[n].recv)
  BY <1>3, RxGoes
<1>5. RxLines(n, 1, {Pkt("EOFACK", f, 0)})
  BY <1>2, <1>3, <1>4, AnswerIs DEF HRx
<1> QED BY <1>1, <1>2, <1>4, <1>5

LEMMA RecvEofUnexpectedIs ==
  ASSUME TypeOK, NEW n \in Node, RecvEofUnexpected(n), Arg(n) = -2
  PROVE  /\ h[n].rx \notin {"DATA", "SkipAck", "RPOS", "Skip"} /\ chan[n][1].type = "EOF" /\ chan[n] # << >>
         /\ UNCHANGED <<rcv, inbound>>
         /\ HRx(n, h[n].rx, h[n].recv)
         /\ RxLines(n, 1, {Pkt("EOFACK", chan[n][1].file, 0)})
<1>1. /\ h[n].rx \notin {"DATA", "SkipAck", "RPOS", "Skip"} /\ Running(n) /\ chan[n] # << >>
      /\ chan[n][1].type = "EOF" /\ UNCHANGED <<files, sess>>
      /\ Answers(n, <<Pkt("EOFACK", chan[n][1].file, 0)>>)
  BY DEF RecvEofUnexpected, Takes, Pending
<1>2. PICK f \in File \cup {NoFile} : f = chan[n][1].file
  BY <1>1, FirstPacket
<1>3. HRx(n, h[n].rx, h[n].recv)
  BY Rests DEF RecvEofUnexpected, Goes
<1>4. RxLines(n, 1, {Pkt("EOFACK", f, 0)})
  <2>1. Online /\ UNCHANGED <<queue, snd, gone, sess>> /\ 0 \in Int /\ Answers(n, <<Pkt("EOFACK", f, 0)>>)
    BY <1>1, <1>2, <1>3 DEF HRx, files
  <2> QED BY <1>1, <2>1, AnswerIs
<1> QED BY <1>1, <1>2, <1>3, <1>4 DEF files

-----------------------------------------------------------------------------
(* Steps of neither, or of both.                                            *)

LEMMA NextBatchIs ==
  ASSUME TypeOK, NEW n \in Node, NextBatch(n)
  PROVE  /\ Running(n) /\ h[n].tx = "DONE" /\ h[n].rx = "DONE" /\ h[n].batch = 1
         /\ UNCHANGED <<files, sess>> /\ LocalsOk' /\ LinesOk' /\ Online
         /\ h'[n].tx = "START" /\ h'[n].cur = NoFile /\ h'[n].eob = FALSE
         /\ h'[n].rx = "INIT" /\ h'[n].recv = h[n].recv
         /\ h'[Peer(n)] = h[Peer(n)]
         /\ \A p \in Node : Passed(p, 0, {})
<1>1. /\ Running(n) /\ h[n].tx = "DONE" /\ h[n].rx = "DONE" /\ h[n].batch = 1
      /\ UNCHANGED <<files, chan, sess>>
  BY DEF NextBatch, BatchDone
<1> DEFINE r == [Fresh EXCEPT !.batch = 2, !.rid = h[n].rid, !.sid = h[n].sid, !.recv = h[n].recv]
<1>2. r \in Local /\ r.tx = "START" /\ r.cur = NoFile /\ r.eob = FALSE /\ r.rx = "INIT"
      /\ r.recv = h[n].recv /\ r.rc = "run"
  <2>1. /\ Fresh \in Local /\ Fresh.tx = "START" /\ Fresh.cur = NoFile /\ Fresh.eob = FALSE
        /\ Fresh.rx = "INIT" /\ Fresh.rc = "run"
    BY DEF Fresh, Local, TxState, RxState
  <2>2. [Fresh EXCEPT !.batch = 2] \in Local
    BY <2>1 DEF Local
  <2>3. [Fresh EXCEPT !.batch = 2, !.rid = h[n].rid] \in Local
    BY <2>2, LocalFacts, Fields
  <2>4. [Fresh EXCEPT !.batch = 2, !.rid = h[n].rid, !.sid = h[n].sid] \in Local
    BY <2>3, LocalFacts, Fields
  <2>5. r \in Local
    BY <2>4, LocalFacts, Fields
  <2> QED BY <2>1, <2>5 DEF Local
<1>3. Goes(n, r)
  BY DEF NextBatch, Goes
<1> HIDE DEF r
<1>4. /\ Like(h'[n], r) /\ \A o \in Node : o # n => h'[o] = h[o]
  BY <1>2, <1>3, GoesIs
<1>5. LocalsOk'
  BY <1>2, <1>3, LocalsKept, LocalFacts
<1>6. Online
  BY <1>1, <1>2, <1>4 DEF Like, Online, Running
<1>7. LinesOk' /\ \A p \in Node : Passed(p, 0, {})
  BY <1>1, <1>6, SameLines
<1> QED BY <1>1, <1>2, <1>4, <1>5, <1>6, <1>7, Nodes DEF Like

\* n leaves the session.
Stop(n) == TooManyTries(n) \/ DeadTimer(n) \/ Drop(n) \/ RemoteGone(n) \/ SessionDone(n)

LEMMA StopIs ==
  ASSUME TypeOK, NEW n \in Node, Stop(n)
  PROVE  /\ Running(n) /\ LocalsOk' /\ LinesOk'
         /\ h'[n].rc \in {"error", "ok"} /\ h'[Peer(n)] = h[Peer(n)]
         /\ h'[n].rc = "ok" => h[n].tx = "DONE" /\ h[n].rx = "DONE" /\ h[n].batch = 2
         /\ h'[n].recv = h[n].recv /\ h'[n].cur = h[n].cur /\ h'[n].rx = h[n].rx /\ h'[n].tx = h[n].tx
         /\ chan'[n] = << >> /\ chan'[Peer(n)] = chan[Peer(n)]
         /\ UNCHANGED <<queue, inbound, sess>>
         /\ snd' \in [File -> Sinfo] /\ rcv' \in [File -> Rinfo]
         /\ \A f \in File : /\ snd'[f].status = snd[f].status /\ snd'[f].pos = snd[f].pos
                            /\ snd'[f].eof = snd[f].eof /\ snd'[f].there = snd[f].there
                            /\ rcv'[f].status = rcv[f].status /\ rcv'[f].bytes = rcv[f].bytes
                            /\ rcv'[f].good = rcv[f].good
         /\ \/ gone' = gone
            \/ /\ h[n].cur # NoFile /\ snd[h[n].cur].status \in Stored
               /\ gone' = gone \cup {h[n].cur}
<1>1. PICK code \in {"error", "ok"} :
        /\ Running(n) /\ Ends(n, code)
        /\ code = "ok" => h[n].tx = "DONE" /\ h[n].rx = "DONE" /\ h[n].batch = 2
  <2>1. ASSUME SessionDone(n) PROVE Ends(n, "ok") /\ h[n].tx = "DONE" /\ h[n].rx = "DONE" /\ h[n].batch = 2 /\ Running(n)
    BY <2>1 DEF SessionDone, BatchDone
  <2>2. ASSUME ~SessionDone(n) PROVE Ends(n, "error") /\ Running(n)
    BY <2>2 DEF Stop, TooManyTries, DeadTimer, Drop, RemoteGone
  <2> QED BY <2>1, <2>2
<1>2. PICK f, g : f = h[n].cur /\ g = h[n].recv
  OBVIOUS
<1>3. f \in File \cup {NoFile} /\ g \in File \cup {NoFile} /\ f \in Mine(n) \cup {NoFile}
      /\ g \in Mine(Peer(n)) \cup {NoFile}
  BY <1>2, LocalFacts
<1>4. /\ Goes(n, [h[n] EXCEPT !.rc = code])
      /\ snd' = IF f = NoFile THEN snd ELSE [snd EXCEPT ![f].open = FALSE]
      /\ gone' = IF f # NoFile /\ snd[f].open /\ snd[f].status \in Stored THEN gone \cup {f} ELSE gone
      /\ rcv' = IF g = NoFile THEN rcv ELSE [rcv EXCEPT ![g].open = FALSE]
      /\ chan' = [chan EXCEPT ![n] = << >>]
      /\ UNCHANGED <<queue, inbound, sess>>
  BY <1>1, <1>2 DEF Ends, Goes
<1> DEFINE r == [h[n] EXCEPT !.rc = code]
<1>5. r \in Local
  BY LocalFacts, Fields
<1>6. r.rc = code /\ r.recv = g /\ r.cur = f /\ r.rx = h[n].rx /\ r.tx = h[n].tx
  BY <1>2, LocalFacts DEF Local
<1>7. Goes(n, r)
  BY <1>4
<1> HIDE DEF r
<1>8. /\ Like(h'[n], r) /\ \A o \in Node : o # n => h'[o] = h[o]
  BY <1>5, <1>7, GoesIs
<1>9. LocalsOk'
  BY <1>3, <1>5, <1>6, <1>7, LocalsKept
<1>10. /\ h'[n].rc = code /\ h'[n].recv = g /\ h'[n].cur = f /\ h'[n].rx = h[n].rx /\ h'[n].tx = h[n].tx
       /\ h'[Peer(n)] = h[Peer(n)]
  BY <1>6, <1>8, Nodes DEF Like
<1>11. chan'[n] = << >> /\ DOMAIN chan' = Node /\ chan'[Peer(n)] = chan[Peer(n)]
  BY <1>4, Nodes DEF TypeOK, LinesOk
<1>12. LinesOk'
  <2>1. chan'[n] \in Seq(Packets(Peer(n))) /\ chan'[Peer(n)] \in Seq(Packets(Peer(Peer(n))))
    BY <1>11, Nodes, LineIs
  <2>2. \A p \in Node : h'[p].rc # "run" => chan'[p] = << >>
    BY <1>10, <1>11, Nodes, LineIs DEF Running
  <2> QED BY <1>11, <2>1, <2>2, Nodes, LinesKept
<1>13. /\ snd' \in [File -> Sinfo]
       /\ \A x \in File : /\ snd'[x].status = snd[x].status /\ snd'[x].pos = snd[x].pos
                          /\ snd'[x].eof = snd[x].eof /\ snd'[x].there = snd[x].there
  BY <1>3, <1>4 DEF TypeOK, FilesOk, Sinfo
<1>14. /\ rcv' \in [File -> Rinfo]
       /\ \A x \in File : /\ rcv'[x].status = rcv[x].status /\ rcv'[x].bytes = rcv[x].bytes
                          /\ rcv'[x].good = rcv[x].good
  BY <1>3, <1>4 DEF TypeOK, FilesOk, Rinfo
<1> QED BY <1>1, <1>2, <1>4, <1>9, <1>10, <1>11, <1>12, <1>13, <1>14

LEMMA GarbleIs ==
  ASSUME TypeOK, NEW n \in Node, Garble(n)
  PROVE  /\ UNCHANGED <<h, files, sess>> /\ Running(n) /\ chan[n] # << >> /\ LinesOk'
         /\ Passed(n, 0, {}) \/ Passed(n, 1, {})
         /\ Passed(Peer(n), 0, {})
<1> DEFINE q == Peer(n)
<1>1. /\ UNCHANGED <<h, files, sess>> /\ Running(n) /\ chan[n] # << >>
  BY DEF Garble
<1>2. q \in Node /\ q # n /\ Node = {n, q}
  BY Nodes
<1>3. PICK e : e = Plain("JUNK")
  OBVIOUS
<1>4. e \in Packets(q) /\ e.type = "JUNK"
  BY <1>2, <1>3, PlainIs DEF Idle
<1>5. PICK c : c = Tail(chan[n])
  OBVIOUS
<1>6. /\ c \in Seq(Packets(q)) /\ Len(c) = Len(chan[n]) - 1 /\ Len(chan[n]) \in Nat \ {0}
      /\ DOMAIN chan[n] = 1..Len(chan[n])
      /\ \A i \in 1..Len(chan[n]) - 1 : c[i] = chan[n][i + 1]
  BY <1>1, <1>5, FirstPacket
<1>7. /\ DOMAIN chan' = Node /\ chan'[q] = chan[q]
      /\ chan'[n] = <<e>> \o c \/ chan'[n] = c
  BY <1>2, <1>3, <1>5 DEF Garble, TypeOK, LinesOk
<1>8. /\ <<e>> \in Seq(Packets(q)) /\ Len(<<e>>) = 1 /\ <<e>>[1] = e
  BY <1>4
<1>9. /\ <<e>> \o c \in Seq(Packets(q)) /\ Len(<<e>> \o c) = Len(chan[n])
      /\ \A i \in 1..Len(chan[n]) : (<<e>> \o c)[i] = IF i <= 1 THEN <<e>>[i] ELSE c[i - 1]
  BY <1>6, <1>8, ConcatProperties
<1>10. LinesOk'
  <2>1. \A p \in Node : chan'[p] \in Seq(Packets(Peer(p)))
    BY <1>2, <1>6, <1>7, <1>9, LineIs
  <2>2. \A p \in Node : h'[p].rc # "run" => chan'[p] = << >>
    BY <1>1, <1>2, <1>7, LineIs DEF Running
  <2> QED BY <1>7, <2>1, <2>2, LinesKept
<1>11. Passed(n, 0, {}) \/ Passed(n, 1, {})
  <2>1. CASE chan'[n] = <<e>> \o c
    <3>1. DOMAIN chan'[n] = 1..Len(chan[n])
      BY <1>9, <2>1, LenProperties
    <3>2. ASSUME NEW i \in DOMAIN chan'[n]
          PROVE  (i + 0 \in DOMAIN chan[n] /\ chan'[n][i] = chan[n][i + 0]) \/ chan'[n][i].type \in Idle
      <4>1. CASE i = 1
        <5>1. chan'[n][i] = e
          BY <1>6, <1>8, <1>9, <2>1, <4>1
        <5> QED BY <1>4, <5>1 DEF Idle
      <4>2. CASE i # 1
        <5>1. i \in 1..Len(chan[n]) /\ ~(i <= 1) /\ i - 1 \in 1..Len(chan[n]) - 1 /\ (i - 1) + 1 = i
          BY <1>6, <3>1, <3>2, <4>2
        <5>2. chan'[n][i] = chan[n][i]
          BY <1>6, <1>9, <2>1, <5>1
        <5> QED BY <1>6, <5>1, <5>2
      <4> QED BY <4>1, <4>2
    <3> QED BY <3>2 DEF Passed
  <2>2. CASE chan'[n] = c
    BY <1>1, <1>5, <2>2, Taken
  <2> QED BY <1>7, <2>1, <2>2
<1> QED BY <1>1, <1>2, <1>7, <1>10, <1>11, Unchanged

-----------------------------------------------------------------------------
(* The records of one file                                                  *)

Snds(c, s, e, k, t) ==
  /\ snd' \in [File -> Sinfo]
  /\ \A f \in File : f # c => snd'[f] = snd[f]
  /\ snd'[c].status = s /\ snd'[c].eof = e /\ snd'[c].pos = k /\ snd'[c].there = t

LEMMA SndPut ==
  ASSUME TypeOK, NEW c \in File, NEW k \in Nat, NEW s \in Status
  PROVE  /\ snd[c].pos \in Nat /\ snd[c].status \in Status /\ snd[c].eof \in BOOLEAN /\ snd[c].there \in BOOLEAN
         /\ snd' = [snd EXCEPT ![c].status = "process", ![c].open = TRUE] =>
              Snds(c, "process", snd[c].eof, snd[c].pos, snd[c].there)
         /\ \A e \in BOOLEAN : snd' = [snd EXCEPT ![c].pos = @ + k, ![c].eof = e] =>
              Snds(c, snd[c].status, e, snd[c].pos + k, snd[c].there)
         /\ snd' = [snd EXCEPT ![c].eof = TRUE] =>
              Snds(c, snd[c].status, TRUE, snd[c].pos, snd[c].there)
         /\ snd' = [snd EXCEPT ![c].status = "skipped", ![c].eof = FALSE, ![c].there = FALSE] =>
              Snds(c, "skipped", FALSE, snd[c].pos, FALSE)
         /\ snd' = [snd EXCEPT ![c].pos = k] => Snds(c, snd[c].status, snd[c].eof, k, snd[c].there)
         /\ snd' = [snd EXCEPT ![c].eof = FALSE, ![c].pos = k] =>
              Snds(c, snd[c].status, FALSE, k, snd[c].there)
         /\ snd' = [snd EXCEPT ![c].status = s] => Snds(c, s, snd[c].eof, snd[c].pos, snd[c].there)
         /\ snd' = Fclosed(c, s) => Snds(c, s, snd[c].eof, snd[c].pos, snd[c].there)
<1>1. /\ snd \in [File -> Sinfo] /\ snd[c] \in Sinfo
      /\ snd[c].pos \in Nat /\ snd[c].status \in Status /\ snd[c].eof \in BOOLEAN /\ snd[c].there \in BOOLEAN
  BY DEF TypeOK, FilesOk, Sinfo
<1>2. ASSUME NEW r \in Sinfo, snd' = [snd EXCEPT ![c] = r]
      PROVE  Snds(c, r.status, r.eof, r.pos, r.there)
  BY <1>1, <1>2 DEF Snds
<1>3. ASSUME snd' = [snd EXCEPT ![c].status = "process", ![c].open = TRUE]
      PROVE  Snds(c, "process", snd[c].eof, snd[c].pos, snd[c].there)
  <2>1. PICK r : r = [snd[c] EXCEPT !.status = "process", !.open = TRUE]
    OBVIOUS
  <2>2. /\ r \in Sinfo /\ r.status = "process" /\ r.eof = snd[c].eof /\ r.pos = snd[c].pos
        /\ r.there = snd[c].there
    BY <1>1, <2>1 DEF Sinfo, Status
  <2>3. snd' = [snd EXCEPT ![c] = r]
    BY <1>1, <1>3, <2>1
  <2> QED BY <1>2, <2>2, <2>3
<1>4. ASSUME NEW e \in BOOLEAN, snd' = [snd EXCEPT ![c].pos = @ + k, ![c].eof = e]
      PROVE  Snds(c, snd[c].status, e, snd[c].pos + k, snd[c].there)
  <2>1. PICK d \in Nat : d = snd[c].pos + k
    BY <1>1
  <2>2. PICK r : r = [snd[c] EXCEPT !.pos = d, !.eof = e]
    OBVIOUS
  <2>3. /\ r \in Sinfo /\ r.status = snd[c].status /\ r.eof = e /\ r.pos = d
        /\ r.there = snd[c].there
    BY <1>1, <2>2 DEF Sinfo
  <2>4. snd' = [snd EXCEPT ![c] = r]
    <3>1. snd' = [snd EXCEPT ![c] = [snd[c] EXCEPT !.pos = snd[c].pos + k, !.eof = e]]
      BY <1>1, <1>4
    <3> QED BY <2>1, <2>2, <3>1
  <2> QED BY <1>2, <2>1, <2>3, <2>4
<1>5. ASSUME snd' = [snd EXCEPT ![c].eof = TRUE]
      PROVE  Snds(c, snd[c].status, TRUE, snd[c].pos, snd[c].there)
  <2>1. PICK r : r = [snd[c] EXCEPT !.eof = TRUE]
    OBVIOUS
  <2>2. /\ r \in Sinfo /\ r.status = snd[c].status /\ r.eof = TRUE /\ r.pos = snd[c].pos
        /\ r.there = snd[c].there
    BY <1>1, <2>1 DEF Sinfo
  <2>3. snd' = [snd EXCEPT ![c] = r]
    BY <1>1, <1>5, <2>1
  <2> QED BY <1>2, <2>2, <2>3
<1>6. ASSUME snd' = [snd EXCEPT ![c].status = "skipped", ![c].eof = FALSE, ![c].there = FALSE]
      PROVE  Snds(c, "skipped", FALSE, snd[c].pos, FALSE)
  <2>1. PICK r : r = [snd[c] EXCEPT !.status = "skipped", !.eof = FALSE, !.there = FALSE]
    OBVIOUS
  <2>2. /\ r \in Sinfo /\ r.status = "skipped" /\ r.eof = FALSE /\ r.pos = snd[c].pos
        /\ r.there = FALSE
    BY <1>1, <2>1 DEF Sinfo, Status
  <2>3. snd' = [snd EXCEPT ![c] = r]
    BY <1>1, <1>6, <2>1
  <2> QED BY <1>2, <2>2, <2>3
<1>7. ASSUME snd' = [snd EXCEPT ![c].pos = k] PROVE Snds(c, snd[c].status, snd[c].eof, k, snd[c].there)
  <2>1. PICK r : r = [snd[c] EXCEPT !.pos = k]
    OBVIOUS
  <2>2. /\ r \in Sinfo /\ r.status = snd[c].status /\ r.eof = snd[c].eof /\ r.pos = k
        /\ r.there = snd[c].there
    BY <1>1, <2>1 DEF Sinfo
  <2>3. snd' = [snd EXCEPT ![c] = r]
    BY <1>1, <1>7, <2>1
  <2> QED BY <1>2, <2>2, <2>3
<1>8. ASSUME snd' = [snd EXCEPT ![c].eof = FALSE, ![c].pos = k]
      PROVE  Snds(c, snd[c].status, FALSE, k, snd[c].there)
  <2>1. PICK r : r = [snd[c] EXCEPT !.eof = FALSE, !.pos = k]
    OBVIOUS
  <2>2. /\ r \in Sinfo /\ r.status = snd[c].status /\ r.eof = FALSE /\ r.pos = k
        /\ r.there = snd[c].there
    BY <1>1, <2>1 DEF Sinfo
  <2>3. snd' = [snd EXCEPT ![c] = r]
    BY <1>1, <1>8, <2>1
  <2> QED BY <1>2, <2>2, <2>3
<1>9. ASSUME snd' = [snd EXCEPT ![c].status = s] PROVE Snds(c, s, snd[c].eof, snd[c].pos, snd[c].there)
  <2>1. PICK r : r = [snd[c] EXCEPT !.status = s]
    OBVIOUS
  <2>2. /\ r \in Sinfo /\ r.status = s /\ r.eof = snd[c].eof /\ r.pos = snd[c].pos
        /\ r.there = snd[c].there
    BY <1>1, <2>1 DEF Sinfo
  <2>3. snd' = [snd EXCEPT ![c] = r]
    BY <1>1, <1>9, <2>1
  <2> QED BY <1>2, <2>2, <2>3
<1>10. ASSUME snd' = Fclosed(c, s) PROVE Snds(c, s, snd[c].eof, snd[c].pos, snd[c].there)
  <2>1. PICK r : r = [snd[c] EXCEPT !.status = s, !.open = FALSE]
    OBVIOUS
  <2>2. /\ r \in Sinfo /\ r.status = s /\ r.eof = snd[c].eof /\ r.pos = snd[c].pos
        /\ r.there = snd[c].there
    BY <1>1, <2>1 DEF Sinfo
  <2>3. snd' = [snd EXCEPT ![c] = r]
    BY <1>1, <1>10, <2>1 DEF Fclosed
  <2> QED BY <1>2, <2>2, <2>3
<1> QED BY <1>1, <1>3, <1>4, <1>5, <1>6, <1>7, <1>8, <1>9, <1>10

\* The receiver's record.
Rcvs(f, s, k, g) ==
  /\ rcv' \in [File -> Rinfo]
  /\ \A x \in File : x # f => rcv'[x] = rcv[x]
  /\ rcv'[f].status = s /\ rcv'[f].bytes = k /\ rcv'[f].good = g

LEMMA RcvPut ==
  ASSUME TypeOK, NEW f \in File, NEW s \in Status, NEW b \in BOOLEAN
  PROVE  /\ rcv[f].bytes \in Nat /\ rcv[f].status \in Status /\ rcv[f].good \in BOOLEAN
         /\ rcv' = [rcv EXCEPT ![f].status = s] => Rcvs(f, s, rcv[f].bytes, rcv[f].good)
         /\ rcv' = [rcv EXCEPT ![f].open = b] => Rcvs(f, rcv[f].status, rcv[f].bytes, rcv[f].good)
         /\ rcv' = [rcv EXCEPT ![f].status = s, ![f].open = b] => Rcvs(f, s, rcv[f].bytes, rcv[f].good)
         /\ rcv' = [rcv EXCEPT ![f] = [rcv[f] EXCEPT !.open = b, !.status = s]] =>
              Rcvs(f, s, rcv[f].bytes, rcv[f].good)
         /\ \A k \in Nat, g \in BOOLEAN : rcv' = [rcv EXCEPT ![f].bytes = @ + k, ![f].good = @ /\ g] =>
              Rcvs(f, rcv[f].status, rcv[f].bytes + k, rcv[f].good /\ g)
<1>1. /\ rcv \in [File -> Rinfo] /\ rcv[f] \in Rinfo
      /\ rcv[f].bytes \in Nat /\ rcv[f].status \in Status /\ rcv[f].good \in BOOLEAN
  BY DEF TypeOK, FilesOk, Rinfo
<1>2. ASSUME NEW r \in Rinfo, rcv' = [rcv EXCEPT ![f] = r]
      PROVE  Rcvs(f, r.status, r.bytes, r.good)
  BY <1>1, <1>2 DEF Rcvs
<1>3. ASSUME rcv' = [rcv EXCEPT ![f].status = s] PROVE Rcvs(f, s, rcv[f].bytes, rcv[f].good)
  <2>1. PICK r : r = [rcv[f] EXCEPT !.status = s]
    OBVIOUS
  <2>2. r \in Rinfo /\ r.status = s /\ r.bytes = rcv[f].bytes /\ r.good = rcv[f].good
    BY <1>1, <2>1 DEF Rinfo
  <2>3. rcv' = [rcv EXCEPT ![f] = r]
    BY <1>1, <1>3, <2>1
  <2> QED BY <1>2, <2>2, <2>3
<1>4. ASSUME rcv' = [rcv EXCEPT ![f].open = b] PROVE Rcvs(f, rcv[f].status, rcv[f].bytes, rcv[f].good)
  <2>1. PICK r : r = [rcv[f] EXCEPT !.open = b]
    OBVIOUS
  <2>2. r \in Rinfo /\ r.status = rcv[f].status /\ r.bytes = rcv[f].bytes /\ r.good = rcv[f].good
    BY <1>1, <2>1 DEF Rinfo
  <2>3. rcv' = [rcv EXCEPT ![f] = r]
    BY <1>1, <1>4, <2>1
  <2> QED BY <1>2, <2>2, <2>3
<1>5. ASSUME \/ rcv' = [rcv EXCEPT ![f].status = s, ![f].open = b]
             \/ rcv' = [rcv EXCEPT ![f] = [rcv[f] EXCEPT !.open = b, !.status = s]]
      PROVE  Rcvs(f, s, rcv[f].bytes, rcv[f].good)
  <2>1. PICK r : r = [rcv[f] EXCEPT !.open = b, !.status = s]
    OBVIOUS
  <2>2. /\ r \in Rinfo /\ r.status = s /\ r.bytes = rcv[f].bytes /\ r.good = rcv[f].good
        /\ r = [rcv[f] EXCEPT !.status = s, !.open = b]
    BY <1>1, <2>1 DEF Rinfo
  <2>3. rcv' = [rcv EXCEPT ![f] = r]
    BY <1>1, <1>5, <2>1, <2>2
  <2> QED BY <1>2, <2>2, <2>3
<1>6. ASSUME NEW k \in Nat, NEW g \in BOOLEAN, rcv' = [rcv EXCEPT ![f].bytes = @ + k, ![f].good = @ /\ g]
      PROVE  Rcvs(f, rcv[f].status, rcv[f].bytes + k, rcv[f].good /\ g)
  <2>1. PICK d \in BOOLEAN : d = (rcv[f].good /\ g)
    BY <1>1
  <2>2. PICK t \in Nat : t = rcv[f].bytes + k
    BY <1>1
  <2>3. PICK r : r = [rcv[f] EXCEPT !.bytes = t, !.good = d]
    OBVIOUS
  <2>4. r \in Rinfo /\ r.status = rcv[f].status /\ r.bytes = t /\ r.good = d
    BY <1>1, <2>3 DEF Rinfo
  <2>5. rcv' = [rcv EXCEPT ![f] = r]
    <3>1. rcv' = [rcv EXCEPT ![f] = [rcv[f] EXCEPT !.bytes = rcv[f].bytes + k, !.good = rcv[f].good /\ g]]
      BY <1>1, <1>6
    <3> QED BY <2>1, <2>2, <2>3, <3>1
  <2> QED BY <1>2, <2>1, <2>2, <2>4, <2>5
<1> QED BY <1>1, <1>3, <1>4, <1>5, <1>6

-----------------------------------------------------------------------------
(***************************************************************************)
(* A mailer's own books: which file is the current one, what has become of *)
(* it, and when the queue is empty.  They hold whatever the remote does.   *)
(***************************************************************************)
Asked == {"skipped", "refused"}

Tidy(p) ==
  LET c == h[p].cur IN
  /\ Running(p) =>
       /\ h[p].tx \notin Busy => c = NoFile
       /\ h[p].tx \in {"FINFO", "FINFOACK"} =>
            (h[p].eob <=> c = NoFile) /\ (c # NoFile => snd[c].status = "process")
       /\ h[p].tx \in Sending => c # NoFile /\ snd[c].status \in {"process"} \cup Asked
       /\ h[p].tx \in {"EOF", "EOFACK"} => snd[c].eof \/ snd[c].status \in Asked
       /\ \A i \in DOMAIN queue[p] : queue[p][i] # c
       /\ h[p].batch = 2 /\ (h[p].tx \in Closing \/ (h[p].tx \in {"FINFO", "FINFOACK"} /\ h[p].eob)) =>
            queue[p] = << >>
  /\ \A i, j \in DOMAIN queue[p] : queue[p][i] = queue[p][j] => i = j
  /\ \A f \in Mine(p) : snd[f].status = "process" /\ h[p].rc # "error" => Running(p) /\ f = c
  /\ h[p].rc = "ok" => queue[p] = << >>

Receives(p) == h[p].rx \in Taking \cup Turning => h[p].recv # NoFile

Books == TypeOK /\ \A p \in Node : Tidy(p) /\ Receives(p)

LEMMA MineSame == ASSUME NEW p \in Node PROVE Mine(p)' = Mine(p)
BY DEF Mine

\* The files of the other mailer are as they were.
LEMMA TidyElsewhere ==
  ASSUME NEW p \in Node, Tidy(p), queue'[p] = queue[p], h'[p].rc = h[p].rc,
         h'[p].tx = h[p].tx, h'[p].cur = h[p].cur, h'[p].eob = h[p].eob, h'[p].batch = h[p].batch,
         h[p].cur \in Mine(p) \cup {NoFile},
         \A f \in Mine(p) : snd'[f].status = snd[f].status /\ snd'[f].eof = snd[f].eof
  PROVE  Tidy(p)'
<1>1. h[p].cur # NoFile => snd'[h[p].cur].status = snd[h[p].cur].status /\ snd'[h[p].cur].eof = snd[h[p].cur].eof
  OBVIOUS
<1> QED BY <1>1, MineSame DEF Tidy, Running, Busy, Sending

LEMMA WithoutIs ==
  ASSUME NEW S, NEW q \in Seq(S), NEW i \in DOMAIN q
  PROVE  /\ Without(q, i) \in Seq(S) /\ DOMAIN Without(q, i) = 1..Len(q) - 1
         /\ \A j \in 1..Len(q) - 1 : Without(q, i)[j] = IF j < i THEN q[j] ELSE q[j + 1]
<1>1. Len(q) \in Nat /\ DOMAIN q = 1..Len(q) /\ i \in 1..Len(q) /\ i \in Int
  BY LenProperties
<1> DEFINE a == SubSeq(q, 1, i - 1)
           b == SubSeq(q, i + 1, Len(q))
<1>2. \A j \in 1..Len(q) : q[j] \in S
  BY ElementOfSeq
<1>3. /\ a \in Seq(S) /\ Len(a) = i - 1
      /\ \A j \in 1..i - 1 : a[j] = q[j]
  <2>1. \A j \in 1..i - 1 : q[j] \in S
    BY <1>1, <1>2
  <2>2. 1 \in Int /\ i - 1 \in Int
    BY <1>1
  <2>3. /\ a \in Seq(S) /\ Len(a) = (IF 1 <= i - 1 THEN (i - 1) - 1 + 1 ELSE 0)
        /\ \A j \in 1..(i - 1) - 1 + 1 : a[j] = q[1 + j - 1]
    BY <2>1, <2>2, SubSeqProperties
  <2>4. ASSUME NEW j \in 1..i - 1 PROVE a[j] = q[j]
    <3>1. j \in 1..(i - 1) - 1 + 1 /\ 1 + j - 1 = j
      BY <1>1
    <3> QED BY <2>3, <3>1
  <2> QED BY <1>1, <2>3, <2>4
<1>4. /\ b \in Seq(S) /\ Len(b) = Len(q) - i
      /\ \A j \in 1..Len(q) - i : b[j] = q[i + j]
  <2>1. \A j \in i + 1..Len(q) : q[j] \in S
    BY <1>1, <1>2
  <2>2. i + 1 \in Int /\ Len(q) \in Int
    BY <1>1
  <2>3. /\ b \in Seq(S) /\ Len(b) = (IF i + 1 <= Len(q) THEN Len(q) - (i + 1) + 1 ELSE 0)
        /\ \A j \in 1..Len(q) - (i + 1) + 1 : b[j] = q[i + 1 + j - 1]
    BY <2>1, <2>2, SubSeqProperties
  <2>4. ASSUME NEW j \in 1..Len(q) - i PROVE b[j] = q[i + j]
    <3>1. j \in 1..Len(q) - (i + 1) + 1 /\ i + 1 + j - 1 = i + j
      BY <1>1
    <3> QED BY <2>3, <3>1
  <2> QED BY <1>1, <2>3, <2>4
<1> HIDE DEF a, b
<1>5. Without(q, i) = a \o b
  BY DEF a, b, Without
<1>6. /\ a \o b \in Seq(S) /\ Len(a \o b) = Len(a) + Len(b)
      /\ \A j \in 1..Len(a) + Len(b) : (a \o b)[j] = IF j <= Len(a) THEN a[j] ELSE b[j - Len(a)]
  BY <1>3, <1>4, ConcatProperties
<1>7. Len(a) + Len(b) = Len(q) - 1
  BY <1>1, <1>3, <1>4
<1>8. DOMAIN (a \o b) = 1..Len(q) - 1
  BY <1>6, <1>7, LenProperties
<1>9. ASSUME NEW j \in 1..Len(q) - 1 PROVE (a \o b)[j] = IF j < i THEN q[j] ELSE q[j + 1]
  <2>1. CASE j < i
    BY <1>1, <1>3, <1>6, <1>7, <2>1
  <2>2. CASE ~(j < i)
    <3>1. j - (i - 1) \in 1..Len(q) - i /\ i + (j - (i - 1)) = j + 1 /\ ~(j <= i - 1)
      BY <1>1, <2>2
    <3>2. (a \o b)[j] = b[j - (i - 1)]
      BY <1>3, <1>6, <1>7, <3>1
    <3>3. b[j - (i - 1)] = q[i + (j - (i - 1))]
      BY <1>4, <3>1
    <3> QED BY <2>2, <3>1, <3>2, <3>3
  <2> QED BY <2>1, <2>2
<1> QED BY <1>5, <1>6, <1>8, <1>9

\* One file less in the queue: the others stay, and are different.
LEMMA QueueShorter ==
  ASSUME TypeOK, NEW n \in Node, Tidy(n), NEW i \in DOMAIN queue[n],
         queue' = [queue EXCEPT ![n] = Without(@, i)]
  PROVE  /\ queue' \in [Node -> Seq(File)] /\ \A p \in Node : queue'[p] \in Seq(Mine(p))
         /\ \A p \in Node : p # n => queue'[p] = queue[p]
         /\ \A j \in DOMAIN queue'[n] : queue'[n][j] # queue[n][i]
         /\ \A j \in DOMAIN queue'[n] : \E k \in DOMAIN queue[n] : queue'[n][j] = queue[n][k]
         /\ \A j, k \in DOMAIN queue'[n] : queue'[n][j] = queue'[n][k] => j = k
<1> DEFINE q == queue[n]
           w == Without(q, i)
<1>1. /\ q \in Seq(Mine(n)) /\ q \in Seq(File)
      /\ \A j, k \in DOMAIN q : q[j] = q[k] => j = k
  BY DEF TypeOK, FilesOk, Tidy
<1>2. /\ w \in Seq(Mine(n)) /\ w \in Seq(File) /\ DOMAIN w = 1..Len(q) - 1
      /\ \A j \in 1..Len(q) - 1 : w[j] = IF j < i THEN q[j] ELSE q[j + 1]
  BY <1>1, WithoutIs
<1>3. Len(q) \in Nat /\ DOMAIN q = 1..Len(q) /\ i \in 1..Len(q)
  BY <1>1, LenProperties
<1>4. /\ queue'[n] = w /\ \A p \in Node : p # n => queue'[p] = queue[p]
      /\ queue' \in [Node -> Seq(File)]
  BY <1>2 DEF TypeOK, FilesOk
<1> HIDE DEF w
<1>5. ASSUME NEW j \in DOMAIN w
      PROVE  \E k \in DOMAIN q : k # i /\ w[j] = q[k] /\ k = IF j < i THEN j ELSE j + 1
  <2>1. CASE j < i
    BY <1>2, <1>3, <1>5, <2>1
  <2>2. CASE ~(j < i)
    <3>1. j + 1 \in DOMAIN q /\ j + 1 # i
      BY <1>2, <1>3, <1>5, <2>2
    <3> QED BY <1>2, <1>5, <2>2, <3>1
  <2> QED BY <2>1, <2>2
<1>6. ASSUME NEW j \in DOMAIN w, NEW k \in DOMAIN w, w[j] = w[k] PROVE j = k
  <2>1. PICK x \in DOMAIN q : w[j] = q[x] /\ x = IF j < i THEN j ELSE j + 1
    BY <1>5
  <2>2. PICK y \in DOMAIN q : w[k] = q[y] /\ y = IF k < i THEN k ELSE k + 1
    BY <1>5
  <2>3. x = y
    BY <1>1, <1>6, <2>1, <2>2
  <2> QED BY <1>2, <1>3, <2>1, <2>2, <2>3
<1>7. \A p \in Node : queue'[p] \in Seq(Mine(p))
  BY <1>2, <1>4 DEF TypeOK, FilesOk, w
<1>8. ASSUME NEW j \in DOMAIN w PROVE w[j] # q[i] /\ \E k \in DOMAIN q : w[j] = q[k]
  BY <1>1, <1>5, <1>8
<1> QED BY <1>4, <1>6, <1>7, <1>8

\* The files of the remote are none of n's business, but for those it receives.
OwnFiles(n) ==
  /\ queue'[Peer(n)] = queue[Peer(n)] /\ gone' \subseteq gone \cup Mine(n)
  /\ \A f \in Mine(Peer(n)) : snd'[f] = snd[f] /\ (f \in gone' <=> f \in gone)

FilesSame ==
  /\ queue' \in [Node -> Seq(File)] /\ \A p \in Node : queue'[p] \in Seq(Mine(p))
  /\ snd' \in [File -> Sinfo] /\ rcv' \in [File -> Rinfo]

LEMMA TypesKept ==
  ASSUME TypeOK, sess' = sess, LocalsOk', LinesOk', FilesSame
  PROVE  TypeOK'
<1>1. \A p \in Node : Mine(p)' = Mine(p)
  BY MineSame
<1> QED BY <1>1 DEF TypeOK, FilesOk, FilesSame

\* A step within the current file c.
Stays(n, c, s, e, o, there, t, d, b) ==
  /\ Running(n) /\ Snds(c, s, e, o, there) /\ queue' = queue /\ HTx(n, t, d, b)
  /\ d \in {c, NoFile} /\ t \notin Closing /\ t \notin {"FINFO", "FINFOACK"}
  /\ t \notin Busy => d = NoFile
  /\ t \in Sending => d = c /\ s \in {"process"} \cup Asked
  /\ t \in {"EOF", "EOFACK"} => e \/ s \in Asked
  /\ s = "process" => d = c

LEMMA TidyWithin ==
  ASSUME TypeOK, NEW n \in Node, Tidy(n), NEW c \in Mine(n), h[n].cur = c,
         NEW s, NEW e, NEW o, NEW there, NEW t, NEW d, NEW b, Stays(n, c, s, e, o, there, t, d, b)
  PROVE  /\ snd' \in [File -> Sinfo] /\ queue'[Peer(n)] = queue[Peer(n)]
         /\ \A f \in Mine(Peer(n)) : snd'[f] = snd[f]
         /\ Tidy(n)'
<1> /\ Running(n) /\ Snds(c, s, e, o, there) /\ queue' = queue /\ HTx(n, t, d, b)
    /\ d \in {c, NoFile} /\ t \notin Closing /\ t \notin {"FINFO", "FINFOACK"}
    /\ t \notin Busy => d = NoFile
    /\ t \in Sending => d = c /\ s \in {"process"} \cup Asked
    /\ t \in {"EOF", "EOFACK"} => e \/ s \in Asked
    /\ s = "process" => d = c
  BY DEF Stays
<1>1. c \in File /\ c # NoFile /\ c \notin Mine(Peer(n)) /\ Mine(n) \subseteq File /\ Mine(Peer(n)) \subseteq File
  BY Owners, Nodes
<1>2. /\ snd' \in [File -> Sinfo] /\ \A f \in Mine(Peer(n)) : snd'[f] = snd[f]
      /\ \A f \in Mine(n) : f # c => snd'[f] = snd[f]
  BY <1>1 DEF Snds
<1>3. /\ snd'[c].status = s /\ snd'[c].eof = e /\ h'[n].tx = t /\ h'[n].cur = d /\ h'[n].rc = "run"
      /\ h[n].rc = "run"
  BY DEF Snds, HTx, Online, Running
<1>4. \A i \in DOMAIN queue'[n] : queue'[n][i] # d
  <2>1. \A i \in DOMAIN queue[n] : queue[n][i] # c
    BY DEF Tidy
  <2> QED BY <2>1, InQueue
<1>5. \A f \in Mine(n) : snd'[f].status = "process" => f = d
  BY <1>2, <1>3 DEF Tidy
<1>6. \A i, j \in DOMAIN queue'[n] : queue'[n][i] = queue'[n][j] => i = j
  BY DEF Tidy
<1>7. /\ t \notin Busy => d = NoFile
      /\ t \in Sending => d # NoFile /\ snd'[d].status \in {"process"} \cup Asked
      /\ t \in {"EOF", "EOFACK"} => snd'[d].eof \/ snd'[d].status \in Asked
  BY <1>1, <1>3 DEF Sending
<1>8. Tidy(n)'
  BY <1>3, <1>4, <1>5, <1>6, <1>7, MineSame DEF Tidy, Running
<1> QED BY <1>2, <1>8

\* A step that does not touch the records of the files.
LEMMA TidyQuiet ==
  ASSUME TypeOK, NEW n \in Node, Running(n), Tidy(n), UNCHANGED <<queue, snd>>,
         NEW t, NEW d \in {h[n].cur, NoFile}, NEW b, HTx(n, t, d, b),
         t \notin Busy => d = NoFile,
         t \in {"FINFO", "FINFOACK"} => (b <=> d = NoFile) /\ (d # NoFile => snd[d].status = "process"),
         t \in Sending => d = h[n].cur /\ h[n].tx \in Sending,
         t \in {"EOF", "EOFACK"} => h[n].tx \in {"EOF", "EOFACK"},
         h[n].batch = 2 /\ (t \in Closing \/ (t \in {"FINFO", "FINFOACK"} /\ b)) => queue[n] = << >>,
         h[n].cur # NoFile => d = h[n].cur
  PROVE  Tidy(n)'
<1>1. h[n].rc = "run" /\ h'[n].rc = "run" /\ h'[n].tx = t /\ h'[n].cur = d /\ h'[n].eob = b
      /\ h'[n].batch = h[n].batch
  BY DEF HTx, Online, Running
<1>2. \A i \in DOMAIN queue'[n] : queue'[n][i] # d
  <2>1. \A i \in DOMAIN queue[n] : queue[n][i] # h[n].cur
    BY DEF Tidy
  <2> QED BY <2>1, InQueue
<1>3. \A f \in Mine(n) : snd'[f].status = "process" => f = d
  BY <1>1, Owners DEF Tidy
<1>4. /\ t \in Sending => d # NoFile /\ snd'[d].status \in {"process"} \cup Asked
      /\ t \in {"EOF", "EOFACK"} => snd'[d].eof \/ snd'[d].status \in Asked
  <2>1. t \in {"EOF", "EOFACK"} => t \in Sending
    BY DEF Sending
  <2> QED BY <2>1 DEF Tidy
<1>5. \A i, j \in DOMAIN queue'[n] : queue'[n][i] = queue'[n][j] => i = j
  BY DEF Tidy
<1> QED BY <1>1, <1>2, <1>3, <1>4, <1>5, MineSame DEF Tidy, Running

LEMMA Fixed ==
  ASSUME TypeOK, UNCHANGED <<queue, snd, gone>>, rcv' = rcv, NEW n \in Node
  PROVE  FilesSame /\ OwnFiles(n)
BY DEF TypeOK, FilesOk, FilesSame, OwnFiles

LEMMA TxIdleTidy ==
  ASSUME TypeOK, NEW n \in Node, Tidy(n), TxIdle(n)
  PROVE  TypeOK' /\ Tidy(n)' /\ OwnFiles(n)
<1>1. /\ UNCHANGED files /\ (TxLines(n, 0, {}) \/ TxLines(n, 1, {}))
  BY TxIdleIs
<1>2. PICK t : /\ HTx(n, t, h[n].cur, h[n].eob)
               /\ \/ t = h[n].tx
                  \/ h[n].tx \notin Busy /\ t \notin Busy /\ (t \in Closing => h[n].tx \in Closing)
  BY TxIdleIs
<1>3. Running(n) /\ sess' = sess /\ LinesOk' /\ LocalsOk' /\ UNCHANGED <<queue, snd, gone, rcv>>
  BY <1>1, <1>2 DEF TxLines, HTx, files
<1>4. Tidy(n)'
  <2>1. h[n].tx \notin Busy => h[n].cur = NoFile
    BY <1>3 DEF Tidy
  <2>2. t \in {"FINFO", "FINFOACK"} \cup Sending => t = h[n].tx
    BY <1>2 DEF Busy, Sending
  <2>3. h[n].tx \in {"FINFO", "FINFOACK"} =>
            (h[n].eob <=> h[n].cur = NoFile) /\ (h[n].cur # NoFile => snd[h[n].cur].status = "process")
    BY <1>3 DEF Tidy
  <2>4. h[n].batch = 2 /\ (t \in Closing \/ (t \in {"FINFO", "FINFOACK"} /\ h[n].eob)) => queue[n] = << >>
    BY <1>2, <1>3, <2>2 DEF Tidy
  <2>5. t \notin Busy => h[n].tx \notin Busy
    BY <1>2
  <2>6. t \in {"EOF", "EOFACK"} => t \in Sending
    BY DEF Sending
  <2> QED BY <1>2, <1>3, <2>1, <2>2, <2>3, <2>4, <2>5, <2>6, TidyQuiet
<1> QED BY <1>3, <1>4, Fixed, TypesKept

TxFile(n) ==
  \/ OpenNext(n) \/ EndBatch(n) \/ SendFinfo(n) \/ SendData(n) \/ SendNoData(n) \/ ReadVanished(n)
  \/ SendEof(n)
  \/ SendTimer(n) /\ h[n].tx \in {"FINFOACK", "EOFACK"}
  \/ RecvEobAck(n) /\ h[n].tx = "FINFOACK"
  \/ RecvFinfoAck(n) \/ RecvFinfoNak(n) \/ RecvRpos(n) \/ RecvRposSkip(n) \/ RecvEofAck(n)

\* Only packets of the sender's kind are sent.
TxSays(n) ==
  /\ \E t, c, e : HTx(n, t, c, e)
  /\ \E k \in {0, 1} : \E S : TxLines(n, k, S) /\ \A m \in S : m.type \in Forward

LEMMA OneSaid ==
  ASSUME NEW n \in Node, NEW t \in Forward, NEW f, NEW o, NEW x, NEW c, NEW e,
         HTx(n, x, c, e), TxLines(n, 0, {Pkt(t, f, o)})
  PROVE  TxSays(n)
<1>1. \A m \in {Pkt(t, f, o)} : m.type \in Forward
  BY DEF Pkt
<1> QED BY <1>1 DEF TxSays

LEMMA NoneSaid ==
  ASSUME NEW n \in Node, NEW x, NEW c, NEW e, HTx(n, x, c, e), TxLines(n, 0, {}) \/ TxLines(n, 1, {})
  PROVE  TxSays(n)
BY DEF TxSays

LEMMA CurrentIs ==
  ASSUME TypeOK, NEW n \in Node, Running(n), Tidy(n)
  PROVE  /\ h[n].tx \in Sending => h[n].cur \in Mine(n) /\ h[n].cur \in File
         /\ h[n].tx \in {"FINFO", "FINFOACK"} /\ ~h[n].eob => h[n].cur \in Mine(n) /\ h[n].cur \in File
         /\ h[n].cur # NoFile => h[n].cur \in Mine(n) /\ h[n].cur \in File
BY LocalFacts, Owners DEF Tidy

LEMMA OpenNextTidy ==
  ASSUME TypeOK, NEW n \in Node, Tidy(n), OpenNext(n)
  PROVE  TypeOK' /\ Tidy(n)' /\ OwnFiles(n) /\ TxSays(n)
<1>1. PICK i \in DOMAIN queue[n] :
              /\ HTx(n, "FINFOACK", queue[n][i], FALSE)
              /\ TxLines(n, 0, {Pkt("FINFO", queue[n][i], 0)})
              /\ queue' = [queue EXCEPT ![n] = Without(@, i)]
              /\ snd' = [snd EXCEPT ![queue[n][i]].status = "process", ![queue[n][i]].open = TRUE]
  BY OpenNextIs
<1>2. PICK c \in File : c = queue[n][i] /\ c \in Mine(n) /\ c # NoFile
  BY InQueue
<1>3. Running(n) /\ sess' = sess /\ rcv' = rcv /\ gone' = gone /\ LinesOk' /\ LocalsOk'
      /\ h[n].tx \in {"NextFile", "RINIT"}
  BY <1>1, OpenNextIs DEF TxLines, HTx
<1>4. Snds(c, "process", snd[c].eof, snd[c].pos, snd[c].there)
  BY <1>1, <1>2, SndPut DEF Status
<1>5. /\ queue' \in [Node -> Seq(File)] /\ \A p \in Node : queue'[p] \in Seq(Mine(p))
      /\ \A p \in Node : p # n => queue'[p] = queue[p]
      /\ \A j \in DOMAIN queue'[n] : queue'[n][j] # c
      /\ \A j, k \in DOMAIN queue'[n] : queue'[n][j] = queue'[n][k] => j = k
  <2>1. queue' = [queue EXCEPT ![n] = Without(@, i)]
    BY <1>1
  <2>2. \A j \in DOMAIN queue'[n] : queue'[n][j] # queue[n][i]
    BY <1>1, <2>1, QueueShorter
  <2> QED BY <1>1, <1>2, <2>1, <2>2, QueueShorter
<1>6. FilesSame /\ OwnFiles(n)
  BY <1>2, <1>3, <1>4, <1>5, Owners, Nodes DEF FilesSame, OwnFiles, Snds, TypeOK, FilesOk
<1>7. Tidy(n)'
  <2>1. h[n].rc = "run" /\ h'[n].rc = "run" /\ h'[n].tx = "FINFOACK" /\ h'[n].cur = c /\ h'[n].eob = FALSE
    BY <1>1, <1>2, <1>3 DEF HTx, Online, Running
  <2>2. h[n].cur = NoFile
    BY <1>3 DEF Tidy, Busy
  <2>3. \A f \in Mine(n) : snd'[f].status = "process" => f = c
    BY <1>3, <1>4, <2>1, <2>2, Owners DEF Snds, Tidy
  <2> QED BY <1>2, <1>4, <1>5, <2>1, <2>3, MineSame DEF Tidy, Running, Busy, Sending, Closing, Snds
<1> QED BY <1>1, <1>3, <1>6, <1>7, TypesKept, OneSaid DEF Forward

LEMMA AskingTidy ==
  ASSUME TypeOK, NEW n \in Node, Tidy(n), EndBatch(n) \/ SendFinfo(n)
  PROVE  TypeOK' /\ Tidy(n)' /\ OwnFiles(n) /\ TxSays(n)
<1>1. CASE EndBatch(n)
  <2>1. /\ HTx(n, "FINFOACK", NoFile, TRUE) /\ TxLines(n, 0, {Pkt("FINFO", NoFile, 0)})
        /\ UNCHANGED <<queue, snd, gone>> /\ h[n].tx \in {"NextFile", "RINIT"} /\ Due(n) = {}
    BY <1>1, EndBatchIs
  <2>2. Running(n) /\ sess' = sess /\ rcv' = rcv /\ LinesOk' /\ LocalsOk'
    BY <2>1 DEF TxLines, HTx
  <2>3. h[n].cur = NoFile
    BY <2>1, <2>2 DEF Tidy, Busy
  <2>4. h[n].batch = 2 => queue[n] = << >>
    <3>1. SUFFICES ASSUME h[n].batch = 2, queue[n] # << >> PROVE FALSE
      OBVIOUS
    <3>2. queue[n] \in Seq(File)
      BY DEF TypeOK, FilesOk
    <3>3. 1 \in DOMAIN queue[n] /\ 1..1 - 1 = {}
      BY <3>1, <3>2, LenProperties, EmptySeq
    <3>4. 1 \in Due(n)
      BY <3>1, <3>3 DEF Due, Eligible
    <3> QED BY <2>1, <3>4
  <2>5. Tidy(n)'
    <3>1. "FINFOACK" \notin Sending /\ "FINFOACK" \notin Closing /\ "FINFOACK" \in Busy
      BY DEF Sending, Closing, Busy
    <3> QED BY <2>1, <2>2, <2>3, <2>4, <3>1, TidyQuiet
  <2> QED BY <2>1, <2>2, <2>5, Fixed, TypesKept, OneSaid DEF Forward
<1>2. CASE SendFinfo(n)
  <2>1. /\ HTx(n, "FINFOACK", h[n].cur, h[n].eob) /\ TxLines(n, 0, {Pkt("FINFO", h[n].cur, 0)})
        /\ UNCHANGED <<queue, snd, gone>> /\ h[n].tx = "FINFO"
    BY <1>2, SendFinfoIs
  <2>2. Running(n) /\ sess' = sess /\ rcv' = rcv /\ LinesOk' /\ LocalsOk'
    BY <2>1 DEF TxLines, HTx
  <2>3. Tidy(n)'
    <3>1. "FINFOACK" \notin Sending /\ "FINFOACK" \notin Closing /\ "FINFOACK" \in Busy
      BY DEF Sending, Closing, Busy
    <3>2. /\ h[n].eob <=> h[n].cur = NoFile
          /\ h[n].cur # NoFile => snd[h[n].cur].status = "process"
          /\ h[n].batch = 2 /\ h[n].eob => queue[n] = << >>
      BY <2>1, <2>2 DEF Tidy
    <3> QED BY <2>1, <2>2, <3>1, <3>2, TidyQuiet
  <2> QED BY <2>1, <2>2, <2>3, Fixed, TypesKept, OneSaid DEF Forward
<1> QED BY <1>1, <1>2

LEMMA EndsTidy ==
  ASSUME TypeOK, NEW n \in Node, Tidy(n),
         SendEof(n) \/ (SendTimer(n) /\ h[n].tx \in {"FINFOACK", "EOFACK"}) \/ (RecvEobAck(n) /\ h[n].tx = "FINFOACK")
  PROVE  TypeOK' /\ Tidy(n)' /\ OwnFiles(n) /\ TxSays(n)
<1>1. CASE SendEof(n)
  <2>1. Running(n) /\ h[n].tx = "EOF"
    BY <1>1 DEF SendEof
  <2>2. h[n].cur # NoFile
    BY <2>1 DEF Tidy, Sending
  <2>3. /\ HTx(n, "EOFACK", h[n].cur, h[n].eob) /\ TxLines(n, 0, {Pkt("EOF", h[n].cur, EofOffset(h[n].cur))})
        /\ UNCHANGED <<queue, snd, gone>>
    BY <1>1, <2>2, SendEofIs
  <2>4. sess' = sess /\ rcv' = rcv /\ LinesOk' /\ LocalsOk'
    BY <2>3 DEF TxLines, HTx
  <2>5. Tidy(n)'
    <3>1. "EOFACK" \in Sending /\ "EOF" \in Sending /\ "EOFACK" \notin Closing /\ "EOFACK" \in Busy
      BY DEF Sending, Closing, Busy
    <3> QED BY <2>1, <2>3, <3>1, TidyQuiet
  <2> QED BY <2>3, <2>4, <2>5, Fixed, TypesKept, OneSaid DEF Forward
<1>2. CASE SendTimer(n) /\ h[n].tx \in {"FINFOACK", "EOFACK"}
  <2>1. PICK t \in {"FINFO", "EOF"} :
          /\ HTx(n, t, h[n].cur, h[n].eob) /\ t = (IF h[n].tx = "FINFOACK" THEN "FINFO" ELSE "EOF")
    BY <1>2, SendTimerIs
  <2>2. TxLines(n, 0, {}) /\ UNCHANGED <<queue, snd, gone>>
    BY <1>2, SendTimerIs
  <2>3. Running(n) /\ sess' = sess /\ rcv' = rcv /\ LinesOk' /\ LocalsOk'
    BY <2>1, <2>2 DEF TxLines, HTx
  <2>4. Tidy(n)'
    <3>1. /\ "FINFO" \notin Sending /\ t \notin Closing /\ t \in Busy
          /\ "EOFACK" \in Sending
      BY DEF Sending, Closing, Busy
    <3>2. /\ h[n].tx = "FINFOACK" => /\ h[n].eob <=> h[n].cur = NoFile
                                     /\ h[n].cur # NoFile => snd[h[n].cur].status = "process"
                                     /\ h[n].batch = 2 /\ h[n].eob => queue[n] = << >>
      BY <2>3 DEF Tidy
    <3> QED BY <1>2, <2>1, <2>2, <2>3, <3>1, <3>2, TidyQuiet
  <2> QED BY <2>1, <2>2, <2>3, <2>4, Fixed, TypesKept, NoneSaid
<1>3. CASE RecvEobAck(n) /\ h[n].tx = "FINFOACK"
  <2>1. /\ HTx(n, "REND", h[n].cur, h[n].eob) /\ TxLines(n, 1, {})
        /\ UNCHANGED <<queue, snd, gone>> /\ h[n].eob
    BY <1>3, RecvEobAckIs
  <2>2. Running(n) /\ sess' = sess /\ rcv' = rcv /\ LinesOk' /\ LocalsOk'
    BY <2>1 DEF TxLines, HTx
  <2>3. h[n].cur = NoFile /\ (h[n].batch = 2 => queue[n] = << >>)
    BY <1>3, <2>1, <2>2 DEF Tidy
  <2>4. Tidy(n)'
    <3>1. "REND" \notin Sending /\ "REND" \notin Busy
      BY DEF Sending, Busy
    <3> QED BY <2>1, <2>2, <2>3, <3>1, TidyQuiet
  <2> QED BY <2>1, <2>2, <2>4, Fixed, TypesKept, NoneSaid
<1> QED BY <1>1, <1>2, <1>3

\* A step of n within its current file c, which is given up when d is NoFile.
Within(n, k, S) ==
  \E s, e, o, there, t, d, b :
    /\ Stays(n, h[n].cur, s, e, o, there, t, d, b)
    /\ TxLines(n, k, S) /\ gone' \in {gone, gone \cup {h[n].cur}}

LEMMA WithinTidy ==
  ASSUME TypeOK, NEW n \in Node, Tidy(n), h[n].cur \in Mine(n), NEW k \in {0, 1}, NEW S, Within(n, k, S),
         \A m \in S : m.type \in Forward
  PROVE  TypeOK' /\ Tidy(n)' /\ OwnFiles(n) /\ TxSays(n)
<1>1. PICK c : c = h[n].cur /\ c \in Mine(n)
  OBVIOUS
<1>2. PICK s, e, o, there, t, d, b :
    Stays(n, c, s, e, o, there, t, d, b) /\ TxLines(n, k, S) /\ gone' \in {gone, gone \cup {c}}
  BY <1>1 DEF Within
<1>3. /\ HTx(n, t, d, b) /\ queue' = queue /\ sess' = sess /\ rcv' = rcv /\ LinesOk' /\ LocalsOk'
  BY <1>2 DEF Stays, TxLines, HTx
<1>4. /\ snd' \in [File -> Sinfo] /\ queue'[Peer(n)] = queue[Peer(n)]
      /\ \A f \in Mine(Peer(n)) : snd'[f] = snd[f]
      /\ Tidy(n)'
  BY <1>1, <1>2, TidyWithin
<1>5. FilesSame
  BY <1>3, <1>4 DEF FilesSame, TypeOK, FilesOk
<1>6. OwnFiles(n)
  BY <1>1, <1>2, <1>4, Owners DEF OwnFiles
<1>7. TxSays(n)
  BY <1>2, <1>3 DEF TxSays
<1> QED BY <1>3, <1>4, <1>5, <1>6, <1>7, TypesKept

\* The steps within a file are such.
InFile(n) ==
  \/ SendData(n) \/ SendNoData(n) \/ ReadVanished(n)
  \/ RecvFinfoAck(n) \/ RecvFinfoNak(n) \/ RecvRpos(n) \/ RecvRposSkip(n) \/ RecvEofAck(n)

LEMMA InFileCurrent ==
  ASSUME TypeOK, NEW n \in Node, Tidy(n), InFile(n)
  PROVE  h[n].cur \in Mine(n) /\ h[n].cur \in File /\ Running(n)
<1>1. CASE SendData(n) \/ SendNoData(n) \/ ReadVanished(n)
  <2>1. Reading(n)
    BY <1>1 DEF SendData, SendNoData, ReadVanished
  <2> QED BY <2>1, LocalFacts, Owners DEF Reading
<1>2. CASE RecvFinfoAck(n) \/ RecvFinfoNak(n)
  <2>1. Running(n) /\ h[n].tx = "FINFOACK" /\ ~h[n].eob
    BY <1>2 DEF RecvFinfoAck, RecvFinfoNak, Takes
  <2> QED BY <2>1, CurrentIs
<1>3. CASE RecvRpos(n) \/ RecvRposSkip(n) \/ RecvEofAck(n)
  <2>1. Running(n) /\ h[n].tx \in Sending
    BY <1>3 DEF RecvRpos, RecvRposSkip, RecvEofAck, Takes, Rposable, Sending
  <2> QED BY <2>1, CurrentIs
<1> QED BY <1>1, <1>2, <1>3 DEF InFile

LEMMA InFileIs ==
  ASSUME TypeOK, NEW n \in Node, Tidy(n), InFile(n)
  PROVE  \E k \in {0, 1} : \E S : Within(n, k, S) /\ \A m \in S : m.type \in Forward
<1> PICK c : c = h[n].cur
  OBVIOUS
<1>0. c \in Mine(n) /\ c \in File /\ Running(n)
  BY InFileCurrent
<1>1. CASE SendData(n)
  <2>1. PICK k \in 1..(Real[c] - snd[c].pos), eof \in BOOLEAN, t \in {"DATA", "EOF"} :
          /\ t = "EOF" => eof
          /\ snd' = [snd EXCEPT ![c].pos = @ + k, ![c].eof = eof]
          /\ HTx(n, t, c, h[n].eob)
          /\ TxLines(n, 0, {Block(c, snd[c].pos, k)})
    BY <1>1, SendDataIs
  <2>2. k \in Nat /\ h[n].tx = "DATA" /\ queue' = queue /\ gone' = gone
    <3>1. h[n].tx = "DATA" /\ queue' = queue /\ gone' = gone
      BY <1>1, SendDataIs
    <3>2. Real[c] \in Nat /\ snd[c].pos \in Nat
      BY <1>0, SndPut, Constants DEF Status
    <3> QED BY <2>1, <3>1, <3>2
  <2>3. Snds(c, snd[c].status, eof, snd[c].pos + k, snd[c].there)
    BY <1>0, <2>1, <2>2, SndPut DEF Status
  <2>4. snd[c].status \in {"process"} \cup Asked
    BY <1>0, <2>2 DEF Tidy, Sending
  <2>5. Block(c, snd[c].pos, k).type \in Forward
    BY DEF Block, Pkt, Forward
  <2>6. Stays(n, c, snd[c].status, eof, snd[c].pos + k, snd[c].there, t, c, h[n].eob)
    BY <1>0, <2>1, <2>2, <2>3, <2>4 DEF Stays, Closing, Busy, Sending
  <2> QED BY <2>1, <2>2, <2>5, <2>6 DEF Within
<1>2. CASE SendNoData(n)
  <2>1. /\ h[n].tx = "DATA" /\ UNCHANGED <<queue, gone>> /\ snd' = [snd EXCEPT ![c].eof = TRUE]
        /\ HTx(n, "EOF", c, h[n].eob) /\ TxLines(n, 0, {})
    BY <1>2, SendNoDataIs
  <2>2. Snds(c, snd[c].status, TRUE, snd[c].pos, snd[c].there)
    BY <1>0, <2>1, SndPut DEF Status
  <2>3. snd[c].status \in {"process"} \cup Asked
    BY <1>0, <2>1 DEF Tidy, Sending
  <2>4. Stays(n, c, snd[c].status, TRUE, snd[c].pos, snd[c].there, "EOF", c, h[n].eob)
    BY <1>0, <2>1, <2>2, <2>3 DEF Stays, Closing, Busy, Sending
  <2>5. Within(n, 0, {})
    BY <2>1, <2>4 DEF Within
  <2> QED BY <2>5
<1>3. CASE ReadVanished(n)
  <2>1. /\ UNCHANGED <<queue, gone>>
        /\ snd' = [snd EXCEPT ![c].status = "skipped", ![c].eof = FALSE, ![c].there = FALSE]
        /\ HTx(n, "EOF", c, h[n].eob) /\ TxLines(n, 0, {})
    BY <1>3, ReadVanishedIs
  <2>2. Snds(c, "skipped", FALSE, snd[c].pos, FALSE)
    BY <1>0, <2>1, SndPut DEF Status
  <2>4. Stays(n, c, "skipped", FALSE, snd[c].pos, FALSE, "EOF", c, h[n].eob)
    BY <1>0, <2>1, <2>2 DEF Stays, Closing, Busy, Sending, Asked
  <2>5. Within(n, 0, {})
    BY <2>1, <2>4 DEF Within
  <2> QED BY <2>5
<1>4. CASE RecvFinfoAck(n)
  <2>1. PICK k : k = Arg(n)
    OBVIOUS
  <2>2. /\ h[n].tx = "FINFOACK" /\ ~h[n].eob /\ chan[n] # << >> /\ k >= 0 /\ UNCHANGED <<queue, gone>>
        /\ snd' = [snd EXCEPT ![c].pos = k] /\ HTx(n, "DATA", c, h[n].eob) /\ TxLines(n, 1, {})
    BY <1>4, <2>1, RecvFinfoAckIs
  <2>3. k \in Nat
    BY <2>1, <2>2, ArgIs
  <2>4. Snds(c, snd[c].status, snd[c].eof, k, snd[c].there)
    BY <1>0, <2>2, <2>3, SndPut DEF Status
  <2>5. snd[c].status = "process"
    BY <1>0, <2>2, Owners DEF Tidy
  <2>6. Stays(n, c, "process", snd[c].eof, k, snd[c].there, "DATA", c, h[n].eob)
    BY <1>0, <2>2, <2>4, <2>5 DEF Stays, Closing, Busy, Sending
  <2>7. Within(n, 1, {})
    BY <2>2, <2>6 DEF Within
  <2> QED BY <2>7
<1>5. CASE RecvFinfoNak(n)
  <2>1. PICK s \in Asked : s = IF Arg(n) = -1 THEN "skipped" ELSE "refused"
    BY DEF Asked
  <2>2. /\ queue' = queue /\ snd' = Fclosed(c, s) /\ gone' = GoneWith(c, s)
        /\ HTx(n, "NextFile", NoFile, h[n].eob) /\ TxLines(n, 1, {})
    BY <1>5, <2>1, RecvFinfoNakIs
  <2>3. Snds(c, s, snd[c].eof, snd[c].pos, snd[c].there)
    BY <1>0, <2>2, SndPut DEF Status, Asked
  <2>4. Stays(n, c, s, snd[c].eof, snd[c].pos, snd[c].there, "NextFile", NoFile, h[n].eob)
    BY <1>0, <2>1, <2>2, <2>3 DEF Stays, Closing, Busy, Sending, Asked
  <2>5. gone' \in {gone, gone \cup {c}}
    BY <2>2 DEF GoneWith
  <2>6. Within(n, 1, {})
    BY <2>2, <2>4, <2>5 DEF Within
  <2> QED BY <2>6
<1>6. CASE RecvRpos(n)
  <2>1. PICK k : k = Arg(n)
    OBVIOUS
  <2>2. /\ h[n].tx \in Sending /\ chan[n] # << >> /\ k >= 0 /\ UNCHANGED <<queue, gone>>
        /\ snd' = [snd EXCEPT ![c].eof = FALSE, ![c].pos = k] /\ HTx(n, "DATA", c, h[n].eob) /\ TxLines(n, 1, {})
    BY <1>6, <2>1, RecvRposIs
  <2>3. k \in Nat
    BY <2>1, <2>2, ArgIs
  <2>4. Snds(c, snd[c].status, FALSE, k, snd[c].there)
    BY <1>0, <2>2, <2>3, SndPut DEF Status
  <2>5. snd[c].status \in {"process"} \cup Asked
    BY <1>0, <2>2 DEF Tidy
  <2>6. Stays(n, c, snd[c].status, FALSE, k, snd[c].there, "DATA", c, h[n].eob)
    BY <1>0, <2>2, <2>4, <2>5 DEF Stays, Closing, Busy, Sending
  <2>7. Within(n, 1, {})
    BY <2>2, <2>6 DEF Within
  <2> QED BY <2>7
<1>7. CASE RecvRposSkip(n)
  <2>1. PICK s \in Asked : s = IF Arg(n) = -1 THEN "skipped" ELSE "refused"
    BY DEF Asked
  <2>2. /\ UNCHANGED <<queue, gone>> /\ snd' = [snd EXCEPT ![c].status = s]
        /\ HTx(n, "EOF", c, h[n].eob) /\ TxLines(n, 1, {})
    BY <1>7, <2>1, RecvRposSkipIs
  <2>3. Snds(c, s, snd[c].eof, snd[c].pos, snd[c].there)
    BY <1>0, <2>2, SndPut DEF Status, Asked
  <2>4. Stays(n, c, s, snd[c].eof, snd[c].pos, snd[c].there, "EOF", c, h[n].eob)
    BY <1>0, <2>1, <2>2, <2>3 DEF Stays, Closing, Busy, Sending, Asked
  <2> QED BY <2>2, <2>4 DEF Within
<1>8. CASE RecvEofAck(n)
  <2>1. PICK s : s = EofAckStatus(c)
    OBVIOUS
  <2>2. /\ queue' = queue /\ snd' = Fclosed(c, s) /\ gone' = GoneWith(c, s)
        /\ HTx(n, "NextFile", NoFile, h[n].eob) /\ TxLines(n, 1, {}) /\ h[n].tx \in {"EOF", "EOFACK"}
    BY <1>8, <2>1, RecvEofAckIs
  <2>3. s \in {"success"} \cup Asked
    BY <1>0, <2>1, <2>2 DEF Tidy, EofAckStatus, Asked
  <2>4. Snds(c, s, snd[c].eof, snd[c].pos, snd[c].there)
    BY <1>0, <2>2, <2>3, SndPut DEF Status, Asked
  <2>5. Stays(n, c, s, snd[c].eof, snd[c].pos, snd[c].there, "NextFile", NoFile, h[n].eob)
    BY <1>0, <2>2, <2>3, <2>4 DEF Stays, Closing, Busy, Sending, Asked
  <2>6. gone' \in {gone, gone \cup {c}}
    BY <2>2 DEF GoneWith
  <2> QED BY <2>2, <2>5, <2>6 DEF Within
<1> QED BY <1>1, <1>2, <1>3, <1>4, <1>5, <1>6, <1>7, <1>8 DEF InFile

LEMMA TxFileTidy ==
  ASSUME TypeOK, NEW n \in Node, Tidy(n), TxFile(n)
  PROVE  TypeOK' /\ Tidy(n)' /\ OwnFiles(n) /\ TxSays(n)
<1>1. CASE OpenNext(n)
  BY <1>1, OpenNextTidy
<1>2. CASE EndBatch(n) \/ SendFinfo(n)
  BY <1>2, AskingTidy
<1>3. CASE \/ SendEof(n) \/ (SendTimer(n) /\ h[n].tx \in {"FINFOACK", "EOFACK"})
           \/ (RecvEobAck(n) /\ h[n].tx = "FINFOACK")
  BY <1>3, EndsTidy
<1>4. CASE InFile(n)
  BY <1>4, InFileIs, InFileCurrent, WithinTidy
<1> QED BY <1>1, <1>2, <1>3, <1>4 DEF TxFile, InFile
-----------------------------------------------------------------------------
(* A receiver's own books: it knows which file it receives.                 *)
RxFile(n) ==
  \/ SendRpos(n) \/ RecvFinfo(n) \/ RecvEob(n)
  \/ RecvFinfoAgain(n) /\ h[n].rx = "DONE"
  \/ RecvData(n) \/ WriteFails(n) \/ RecvEof(n) \/ CloseFails(n) \/ RecvEofSkipped(n)
  \/ RecvEofUnexpected(n) /\ Arg(n) = -2

\* A step of a receiver that changes at most the record of one file of the remote,
\* and sends only answers.
Serves(n) ==
  /\ \E x, v : HRx(n, x, v) /\ (x \in Taking \cup Turning => v # NoFile)
  /\ \E k \in {0, 1} : \E S : RxLines(n, k, S) /\ \A m \in S : m.type \in Backward
  /\ \/ UNCHANGED <<rcv, inbound>>
     \/ \E f \in Mine(Peer(n)) : \E s, o, g : Rcvs(f, s, o, g) /\ inbound' \in {inbound, inbound \cup {f}}

\* What is sent and received by others stays as it is.
Theirs(n) ==
  /\ \A f \in Mine(n) : rcv'[f] = rcv[f] /\ (f \in inbound' <=> f \in inbound)
  /\ inbound' \subseteq inbound \cup Mine(Peer(n))

LEMMA ServesKeeps ==
  ASSUME TypeOK, NEW n \in Node, Serves(n)
  PROVE  TypeOK' /\ Receives(n)' /\ Theirs(n) /\ UNCHANGED <<queue, snd, gone>>
<1>1. PICK x, v : HRx(n, x, v) /\ (x \in Taking \cup Turning => v # NoFile)
  BY DEF Serves
<1>2. UNCHANGED <<queue, snd, gone, sess>> /\ LinesOk' /\ LocalsOk'
  BY <1>1 DEF Serves, RxLines, HRx
<1>3. Receives(n)'
  BY <1>1 DEF Receives, HRx, Taking, Turning
<1>4. rcv' \in [File -> Rinfo] /\ Theirs(n)
  <2>1. CASE UNCHANGED <<rcv, inbound>>
    BY <2>1 DEF Theirs, TypeOK, FilesOk
  <2>2. CASE \E f \in Mine(Peer(n)) : \E s, o, g : Rcvs(f, s, o, g) /\ inbound' \in {inbound, inbound \cup {f}}
    <3>1. PICK f, s, o, g : f \in Mine(Peer(n)) /\ Rcvs(f, s, o, g) /\ inbound' \in {inbound, inbound \cup {f}}
      BY <2>2
    <3>2. \A x1 \in Mine(n) : x1 # f /\ x1 \in File
      BY <3>1, Owners
    <3> QED BY <3>1, <3>2 DEF Theirs, Rcvs
  <2> QED BY <2>1, <2>2 DEF Serves
<1>5. FilesSame
  BY <1>2, <1>4 DEF FilesSame, TypeOK, FilesOk
<1> QED BY <1>2, <1>3, <1>4, <1>5, TypesKept

LEMMA RecvIs ==
  ASSUME TypeOK, NEW n \in Node, Receives(n), h[n].rx \in Taking \cup Turning
  PROVE  h[n].recv \in Mine(Peer(n)) /\ h[n].recv \in File /\ h[n].recv # NoFile
BY LocalFacts, Owners, Nodes DEF Receives

LEMMA IdleServes ==
  ASSUME TypeOK, NEW n \in Node, Receives(n), RxIdle(n)
  PROVE  Serves(n)
<1>1. UNCHANGED <<rcv, inbound>>
  BY RxIdleIs
<1>2. \E k \in {0, 1} : \E S : RxLines(n, k, S) /\ \A m \in S : m.type \in Backward
  <2>1. RxLines(n, 0, {}) \/ RxLines(n, 1, {})
    BY RxIdleIs
  <2> QED BY <2>1
<1>3. PICK x : /\ HRx(n, x, h[n].recv)
               /\ x \in Taking <=> h[n].rx \in Taking
               /\ x \in Turning <=> h[n].rx \in Turning
  BY RxIdleIs
<1>4. x \in Taking \cup Turning => h[n].recv # NoFile
  BY <1>3, RecvIs
<1> QED BY <1>1, <1>2, <1>3, <1>4 DEF Serves

\* One answer.
LEMMA Says ==
  ASSUME NEW n \in Node, NEW t \in Backward, NEW f, NEW o, RxLines(n, 1, {Pkt(t, f, o)})
  PROVE  \E k \in {0, 1} : \E S : RxLines(n, k, S) /\ \A m \in S : m.type \in Backward
<1>1. \A m \in {Pkt(t, f, o)} : m.type \in Backward
  BY DEF Pkt
<1> QED BY <1>1

LEMMA SaysNothing ==
  ASSUME NEW n \in Node, RxLines(n, 1, {})
  PROVE  \E k \in {0, 1} : \E S : RxLines(n, k, S) /\ \A m \in S : m.type \in Backward
OBVIOUS

LEMMA FileServes ==
  ASSUME TypeOK, NEW n \in Node, Receives(n), RxFile(n)
  PROVE  Serves(n)
<1> PICK c : c = h[n].recv
  OBVIOUS
<1>0. h[n].rx \in Taking \cup Turning => c \in Mine(Peer(n)) /\ c \in File /\ c # NoFile
  BY RecvIs
<1>1. CASE SendRpos(n)
  <2>1. h[n].rx \in Taking \cup Turning
    BY <1>1 DEF SendRpos, Taking, Turning
  <2>2. /\ UNCHANGED <<rcv, inbound>> /\ HRx(n, IF h[n].rx = "RPOS" THEN "RPosAck" ELSE "SkipAck", c)
        /\ \E m \in Packets(n) : m.type = "RPOS" /\ RxLines(n, 0, {m})
    BY <1>0, <1>1, <2>1, SendRposIs
  <2>3. \E k \in {0, 1} : \E S : RxLines(n, k, S) /\ \A m \in S : m.type \in Backward
    <3>1. PICK m : m.type = "RPOS" /\ RxLines(n, 0, {m})
      BY <2>2
    <3> QED BY <3>1 DEF Backward
  <2> QED BY <1>0, <2>1, <2>2, <2>3 DEF Serves
<1>2. CASE RecvFinfo(n)
  <2> PICK f : f = chan[n][1].file
    OBVIOUS
  <2>1. PICK r \in FopenResults(n, f) \cap {0, 1, 2} :
              /\ rcv' = [rcv EXCEPT ![f] = Fopened(f, r)]
              /\ HRx(n, IF r = 0 THEN "DATA" ELSE "FINFO", f)
              /\ RxLines(n, 1, {Pkt("FINFOACK", f, CASE r = 0 -> rcv[f].bytes [] r = 1 -> -2 [] r = 2 -> -1)})
    BY <1>2, RecvFinfoIs
  <2>2. f \in Mine(Peer(n)) /\ f \in File /\ f # NoFile /\ inbound' = inbound
    BY <1>2, RecvFinfoIs, Owners, Nodes
  <2>3. PICK s \in Status, b \in BOOLEAN : Fopened(f, r) = [rcv[f] EXCEPT !.open = b, !.status = s]
    <3>1. PICK s : s = CASE r = 0 -> "process" [] r = 1 -> "refused" [] r = 2 -> "skipped"
      OBVIOUS
    <3>2. PICK b \in BOOLEAN : b = (r = 0)
      OBVIOUS
    <3>3. s \in Status
      BY <2>1, <3>1 DEF Status
    <3>4. Fopened(f, r) = [rcv[f] EXCEPT !.open = b, !.status = s]
      BY <3>1, <3>2 DEF Fopened
    <3> QED BY <3>3, <3>4
  <2>4. Rcvs(f, s, rcv[f].bytes, rcv[f].good)
    BY <2>1, <2>2, <2>3, RcvPut
  <2>5. \E k \in {0, 1} : \E S : RxLines(n, k, S) /\ \A m \in S : m.type \in Backward
    BY <2>1, Says DEF Backward
  <2> QED BY <2>1, <2>2, <2>4, <2>5 DEF Serves
<1>3. CASE RecvEob(n)
  <2>1. UNCHANGED <<rcv, inbound>> /\ HRx(n, "DONE", c) /\ RxLines(n, 1, {Pkt("FINFOACK", NoFile, 0)})
    BY <1>3, RecvEobIs
  <2>2. \E k \in {0, 1} : \E S : RxLines(n, k, S) /\ \A m \in S : m.type \in Backward
    BY <2>1, Says DEF Backward
  <2> QED BY <2>1, <2>2 DEF Serves, Taking, Turning
<1>4. CASE RecvFinfoAgain(n) /\ h[n].rx = "DONE"
  <2>1. UNCHANGED <<rcv, inbound>> /\ HRx(n, "DONE", c) /\ RxLines(n, 1, {Pkt("FINFOACK", NoFile, -2)})
    BY <1>4, RecvFinfoAgainIs
  <2>2. \E k \in {0, 1} : \E S : RxLines(n, k, S) /\ \A m \in S : m.type \in Backward
    BY <2>1, Says DEF Backward
  <2> QED BY <2>1, <2>2 DEF Serves, Taking, Turning
<1>5. CASE RecvData(n)
  <2>1. /\ h[n].rx \in Taking /\ inbound' = inbound
        /\ rcv' = [rcv EXCEPT ![c].bytes = @ + chan[n][1].len,
                              ![c].good = @ /\ chan[n][1].file = c /\ chan[n][1].offs = rcv[c].bytes]
        /\ HRx(n, "DATA", c) /\ RxLines(n, 1, {})
    BY <1>5, RecvDataIs
  <2>2. chan[n][1].len \in Nat
    BY <1>5, FirstPacket DEF RecvData, Takes
  <2>3. PICK g \in BOOLEAN : g = (chan[n][1].file = c /\ chan[n][1].offs = rcv[c].bytes)
    OBVIOUS
  <2>4. rcv' = [rcv EXCEPT ![c].bytes = @ + chan[n][1].len, ![c].good = @ /\ g]
    BY <2>1, <2>3
  <2>5. Rcvs(c, rcv[c].status, rcv[c].bytes + chan[n][1].len, rcv[c].good /\ g)
    BY <1>0, <2>1, <2>2, <2>4, RcvPut DEF Status
  <2>6. \E k \in {0, 1} : \E S : RxLines(n, k, S) /\ \A m \in S : m.type \in Backward
    BY <2>1, SaysNothing
  <2> QED BY <1>0, <2>1, <2>5, <2>6 DEF Serves
<1>6. CASE WriteFails(n)
  <2>1. /\ h[n].rx \in Taking /\ inbound' = inbound /\ HRx(n, "Skip", c) /\ RxLines(n, 1, {})
        /\ \E s \in {"skipped", "refused"} : rcv' = [rcv EXCEPT ![c].status = s]
    BY <1>6, WriteFailsIs
  <2>2. PICK s \in Status : rcv' = [rcv EXCEPT ![c].status = s]
    BY <2>1 DEF Status
  <2>3. Rcvs(c, s, rcv[c].bytes, rcv[c].good)
    BY <1>0, <2>1, <2>2, RcvPut
  <2>6. \E k \in {0, 1} : \E S : RxLines(n, k, S) /\ \A m \in S : m.type \in Backward
    BY <2>1, SaysNothing
  <2> QED BY <1>0, <2>1, <2>3, <2>6 DEF Serves
<1>7. CASE RecvEof(n)
  <2>0. h[n].rx \in Taking
    BY <1>7 DEF RecvEof, AtEof, Taking
  <2>1. /\ rcv' = [rcv EXCEPT ![c].status = "success", ![c].open = FALSE]
        /\ inbound' = inbound \cup {c} /\ HRx(n, "FINFO", c) /\ RxLines(n, 1, {Pkt("EOFACK", c, 0)})
    BY <1>0, <1>7, <2>0, RecvEofIs
  <2>3. Rcvs(c, "success", rcv[c].bytes, rcv[c].good)
    BY <1>0, <2>0, <2>1, RcvPut DEF Status
  <2>6. \E k \in {0, 1} : \E S : RxLines(n, k, S) /\ \A m \in S : m.type \in Backward
    BY <2>1, Says DEF Backward
  <2> QED BY <1>0, <2>0, <2>1, <2>3, <2>6 DEF Serves, Taking, Turning
<1>8. CASE CloseFails(n)
  <2>1. /\ h[n].rx \in Taking /\ inbound' = inbound /\ HRx(n, "Skip", c) /\ RxLines(n, 1, {})
        /\ rcv' = [rcv EXCEPT ![c].status = "refused", ![c].open = FALSE]
    BY <1>8, CloseFailsIs
  <2>3. Rcvs(c, "refused", rcv[c].bytes, rcv[c].good)
    BY <1>0, <2>1, RcvPut DEF Status
  <2>6. \E k \in {0, 1} : \E S : RxLines(n, k, S) /\ \A m \in S : m.type \in Backward
    BY <2>1, SaysNothing
  <2> QED BY <1>0, <2>1, <2>3, <2>6 DEF Serves
<1>9. CASE RecvEofSkipped(n)
  <2>0. h[n].rx \in Turning
    BY <1>9 DEF RecvEofSkipped, Turning
  <2>1. /\ inbound' = inbound /\ rcv' = [rcv EXCEPT ![c].open = FALSE]
        /\ HRx(n, "FINFO", c) /\ RxLines(n, 1, {Pkt("EOFACK", c, 0)})
    BY <1>0, <1>9, <2>0, RecvEofSkippedIs
  <2>3. Rcvs(c, rcv[c].status, rcv[c].bytes, rcv[c].good)
    BY <1>0, <2>0, <2>1, RcvPut DEF Status
  <2>6. \E k \in {0, 1} : \E S : RxLines(n, k, S) /\ \A m \in S : m.type \in Backward
    BY <2>1, Says DEF Backward
  <2> QED BY <1>0, <2>0, <2>1, <2>3, <2>6 DEF Serves, Taking, Turning
<1>10. CASE RecvEofUnexpected(n) /\ Arg(n) = -2
  <2>1. /\ h[n].rx \notin {"DATA", "SkipAck", "RPOS", "Skip"} /\ UNCHANGED <<rcv, inbound>>
        /\ HRx(n, h[n].rx, c) /\ RxLines(n, 1, {Pkt("EOFACK", chan[n][1].file, 0)})
    BY <1>10, RecvEofUnexpectedIs
  <2>2. \E k \in {0, 1} : \E S : RxLines(n, k, S) /\ \A m \in S : m.type \in Backward
    BY <2>1, Says DEF Backward
  <2> QED BY <1>0, <2>1, <2>2 DEF Serves
<1> QED BY <1>1, <1>2, <1>3, <1>4, <1>5, <1>6, <1>7, <1>8, <1>9, <1>10 DEF RxFile
-----------------------------------------------------------------------------
(* The books are kept by every step.                                        *)
LEMMA Kinds ==
  ASSUME Next
  PROVE  \/ \E n \in Node : \/ TxIdle(n) \/ TxFile(n) \/ RxIdle(n) \/ RxFile(n)
                            \/ NextBatch(n) \/ Stop(n) \/ Garble(n)
         \/ UNCHANGED vars
<1>1. CASE SessionOver
  BY <1>1 DEF SessionOver
<1>2. ASSUME NEW n \in Node, Loop(n) \/ DeadTimer(n) \/ Drop(n) \/ Garble(n)
      PROVE  TxIdle(n) \/ TxFile(n) \/ RxIdle(n) \/ RxFile(n) \/ NextBatch(n) \/ Stop(n) \/ Garble(n)
  <2>1. CASE Tx(n)
    BY <2>1 DEF Tx, TxIdle, TxFile
  <2>2. CASE Rx(n) \/ SessionDone(n) \/ RemoteGone(n) \/ DeadTimer(n) \/ Drop(n)
    BY <2>2 DEF Rx, RxFile, Stop
  <2>3. CASE Timers(n)
    BY <2>3 DEF Timers, TxIdle, TxFile, RxIdle
  <2>4. CASE Packet(n)
    BY <2>4 DEF Packet, TxIdle, TxFile, RxIdle, RxFile
  <2> QED BY <1>2, <2>1, <2>2, <2>3, <2>4 DEF Loop
<1> QED BY <1>1, <1>2 DEF Next

\* A step of n as a sender.
LEMMA BooksTx ==
  ASSUME Books, NEW n \in Node, TypeOK', Tidy(n)', OwnFiles(n), \E t, c, e : HTx(n, t, c, e)
  PROVE  Books'
<1>1. h'[Peer(n)] = h[Peer(n)] /\ h'[n].rx = h[n].rx /\ h'[n].recv = h[n].recv
  BY DEF HTx
<1>2. Tidy(Peer(n))'
  <2>1. Peer(n) \in Node /\ Tidy(Peer(n)) /\ TypeOK
    BY Nodes DEF Books
  <2>2. h[Peer(n)].cur \in Mine(Peer(n)) \cup {NoFile}
    BY <2>1, LocalFacts
  <2>3. queue'[Peer(n)] = queue[Peer(n)] /\ \A f \in Mine(Peer(n)) : snd'[f] = snd[f]
    BY DEF OwnFiles
  <2> QED BY <1>1, <2>1, <2>2, <2>3, TidyElsewhere
<1>3. \A p \in Node : p = n \/ p = Peer(n)
  BY Nodes
<1>4. \A p \in Node : Receives(p)'
  BY <1>1, <1>3 DEF Books, Receives
<1> QED BY <1>2, <1>3, <1>4 DEF Books

\* A step of n as a receiver.
LEMMA BooksRx ==
  ASSUME Books, NEW n \in Node, Serves(n)
  PROVE  Books'
<1>1. TypeOK' /\ Receives(n)' /\ UNCHANGED <<queue, snd>>
  BY ServesKeeps DEF Books
<1>2. PICK x, v : HRx(n, x, v)
  BY DEF Serves
<1>3. \A p \in Node : p = n \/ p = Peer(n)
  BY Nodes
<1>4. \A p \in Node : /\ h'[p].rc = h[p].rc /\ h'[p].tx = h[p].tx /\ h'[p].cur = h[p].cur
                      /\ h'[p].eob = h[p].eob /\ h'[p].batch = h[p].batch
  BY <1>2, <1>3 DEF HRx, Online
<1>5. \A p \in Node : Tidy(p)'
  <2> TAKE p \in Node
  <2>1. h[p].cur \in Mine(p) \cup {NoFile} /\ Tidy(p)
    BY LocalFacts DEF Books
  <2> QED BY <1>1, <1>4, <2>1, TidyElsewhere
<1>6. h'[Peer(n)] = h[Peer(n)]
  BY <1>2 DEF HRx
<1>7. \A p \in Node : Receives(p)'
  BY <1>1, <1>3, <1>6 DEF Books, Receives
<1> QED BY <1>1, <1>5, <1>7 DEF Books

LEMMA BooksBatch ==
  ASSUME Books, NEW n \in Node, NextBatch(n)
  PROVE  Books'
<1>1. /\ Running(n) /\ h[n].tx = "DONE" /\ UNCHANGED <<files, sess>> /\ LocalsOk' /\ LinesOk' /\ Online
      /\ h'[n].tx = "START" /\ h'[n].cur = NoFile /\ h'[n].rx = "INIT"
      /\ h'[Peer(n)] = h[Peer(n)]
  BY NextBatchIs DEF Books
<1>2. TypeOK'
  BY <1>1, TypesKept DEF Books, FilesSame, files, TypeOK, FilesOk
<1>3. h[n].cur = NoFile
  BY <1>1 DEF Books, Tidy, Busy
<1>4. Tidy(n)'
  <2>1. /\ "START" \notin Busy /\ "START" \notin Sending /\ "START" \notin Closing
    BY DEF Busy, Sending, Closing
  <2>2. queue' = queue /\ snd' = snd /\ h'[n].rc = "run" /\ h[n].rc = "run"
    BY <1>1 DEF files, Online, Running
  <2>3. \A i \in DOMAIN queue[n] : queue[n][i] # NoFile
    BY InQueue DEF Books
  <2>4. Tidy(n)
    BY DEF Books
  <2> QED BY <1>1, <1>3, <2>1, <2>2, <2>3, <2>4, MineSame DEF Tidy, Running
<1>5. Tidy(Peer(n))'
  <2>1. Peer(n) \in Node /\ Tidy(Peer(n)) /\ TypeOK
    BY Nodes DEF Books
  <2>2. h[Peer(n)].cur \in Mine(Peer(n)) \cup {NoFile}
    BY <2>1, LocalFacts
  <2> QED BY <1>1, <2>1, <2>2, TidyElsewhere DEF files
<1>6. \A p \in Node : p = n \/ p = Peer(n)
  BY Nodes
<1>7. \A p \in Node : Receives(p)'
  BY <1>1, <1>6 DEF Books, Receives, Taking, Turning
<1> QED BY <1>2, <1>4, <1>5, <1>6, <1>7 DEF Books

LEMMA BooksStop ==
  ASSUME Books, NEW n \in Node, Stop(n)
  PROVE  Books'
<1>1. /\ Running(n) /\ LocalsOk' /\ LinesOk' /\ h'[n].rc \in {"error", "ok"} /\ h'[Peer(n)] = h[Peer(n)]
      /\ h'[n].rc = "ok" => h[n].tx = "DONE" /\ h[n].batch = 2
      /\ h'[n].recv = h[n].recv /\ h'[n].rx = h[n].rx
      /\ UNCHANGED <<queue, sess>> /\ snd' \in [File -> Sinfo] /\ rcv' \in [File -> Rinfo]
      /\ \A f \in File : snd'[f].status = snd[f].status /\ snd'[f].eof = snd[f].eof
  BY StopIs DEF Books
<1>2. TypeOK'
  BY <1>1, TypesKept DEF Books, FilesSame, TypeOK, FilesOk
<1>3. Tidy(n)'
  <2>1. Tidy(n) /\ h[n].rc = "run" /\ h'[n].rc # "run"
    BY <1>1 DEF Books, Running
  <2>2. h'[n].rc = "ok" => queue[n] = << >> /\ h[n].cur = NoFile
    BY <1>1, <2>1 DEF Tidy, Closing, Busy
  <2>3. Mine(n) \subseteq File /\ NoFile \notin Mine(n)
    BY Owners
  <2>4. \A f \in Mine(n) : snd'[f].status = "process" => h'[n].rc = "error"
    BY <1>1, <2>1, <2>2, <2>3 DEF Tidy, Running
  <2> QED BY <1>1, <2>1, <2>2, <2>4, MineSame DEF Tidy, Running
<1>4. Tidy(Peer(n))'
  <2>1. Peer(n) \in Node /\ Tidy(Peer(n)) /\ TypeOK /\ Mine(Peer(n)) \subseteq File
    BY Nodes, Owners DEF Books
  <2>2. h[Peer(n)].cur \in Mine(Peer(n)) \cup {NoFile}
    BY <2>1, LocalFacts
  <2> QED BY <1>1, <2>1, <2>2, TidyElsewhere
<1>5. \A p \in Node : p = n \/ p = Peer(n)
  BY Nodes
<1>6. \A p \in Node : Receives(p)'
  BY <1>1, <1>5 DEF Books, Receives
<1> QED BY <1>2, <1>3, <1>4, <1>5, <1>6 DEF Books

LEMMA BooksSame ==
  ASSUME Books, LinesOk', UNCHANGED <<h, files, sess>>
  PROVE  Books'
<1>1. LocalsOk' /\ FilesSame
  BY MineSame DEF Books, TypeOK, LocalsOk, FilesSame, FilesOk, files
<1>2. TypeOK'
  BY <1>1, TypesKept DEF Books
<1>3. \A p \in Node : Tidy(p)' /\ Receives(p)'
  <2> TAKE p \in Node
  <2>1. h[p].cur \in Mine(p) \cup {NoFile} /\ Tidy(p) /\ Receives(p)
    BY LocalFacts DEF Books
  <2> QED BY <2>1, TidyElsewhere DEF Receives, files
<1> QED BY <1>2, <1>3 DEF Books

LEMMA BooksStep == Books /\ [Next]_vars => Books'
<1> SUFFICES ASSUME Books, [Next]_vars PROVE Books'
  OBVIOUS
<1>0. TypeOK /\ \A p \in Node : Tidy(p) /\ Receives(p)
  BY DEF Books
<1>1. CASE UNCHANGED vars
  <2>1. LinesOk'
    BY <1>0, <1>1 DEF vars, TypeOK, LinesOk, Packets, Long, Mine, Running, Peer
  <2> QED BY <1>1, <2>1, BooksSame DEF vars
<1>2. ASSUME NEW n \in Node,
             TxIdle(n) \/ TxFile(n) \/ RxIdle(n) \/ RxFile(n) \/ NextBatch(n) \/ Stop(n) \/ Garble(n)
      PROVE  Books'
  <2>1. CASE TxIdle(n)
    <3>1. \E t, c, e : HTx(n, t, c, e)
      BY <1>0, <2>1, TxIdleIs
    <3> QED BY <1>0, <2>1, <3>1, TxIdleTidy, BooksTx
  <2>2. CASE TxFile(n)
    BY <1>0, <2>2, TxFileTidy, BooksTx DEF TxSays
  <2>3. CASE RxIdle(n) \/ RxFile(n)
    BY <1>0, <2>3, IdleServes, FileServes, BooksRx
  <2>4. CASE NextBatch(n)
    BY <2>4, BooksBatch
  <2>5. CASE Stop(n)
    BY <2>5, BooksStop
  <2>6. CASE Garble(n)
    BY <1>0, <2>6, GarbleIs, BooksSame
  <2> QED BY <1>2, <2>1, <2>2, <2>3, <2>4, <2>5, <2>6
<1> QED BY <1>1, <1>2, Kinds

LEMMA BooksInit == Init => Books
<1> SUFFICES ASSUME Init PROVE Books
  OBVIOUS
<1>1. PICK s \in Sessions :
        /\ sess = s /\ h = [p \in Node |-> Fresh] /\ queue = s.queue
        /\ snd = [f \in File |-> [status |-> "none", pos |-> 0, eof |-> FALSE,
                                  open |-> FALSE, there |-> TRUE]]
        /\ rcv = [f \in File |-> [status |-> "none", bytes |-> s.have[f],
                                  open |-> FALSE, good |-> TRUE]]
        /\ chan = [p \in Node |-> <<>>]
  BY DEF Init
<1>2. Fresh \in Local
  BY DEF Fresh, Local, TxState, RxState
<1>3. LocalsOk
  BY <1>1, <1>2 DEF LocalsOk, Fresh
<1>4. s.queue \in [Node -> Seq(File)] /\ s.have \in [File -> Nat]
  BY Constants DEF Session
<1>5. \A p \in Node : s.queue[p] \in Seq(Mine(p))
  <2> TAKE p \in Node
  <2>1. s.queue[p] \in Seq(File)
    BY <1>4
  <2>2. \A i \in DOMAIN s.queue[p] : Sender[s.queue[p][i]] = p
    BY Constants
  <2>3. Len(s.queue[p]) \in Nat /\ DOMAIN s.queue[p] = 1..Len(s.queue[p])
    BY <2>1, LenProperties
  <2>4. \A i \in 1..Len(s.queue[p]) : s.queue[p][i] \in Mine(p)
    BY <2>1, <2>2, <2>3, ElementOfSeq DEF Mine
  <2>5. s.queue[p] = [i \in 1..Len(s.queue[p]) |-> s.queue[p][i]]
    BY <2>1, SeqDef
  <2> QED BY <2>3, <2>4, <2>5, SeqDef
<1>6. FilesOk
  BY <1>1, <1>4, <1>5 DEF FilesOk, Sinfo, Rinfo, Status
<1>7. LinesOk
  <2>1. \A p \in Node : << >> \in Seq(Packets(Peer(p)))
    BY EmptySeq
  <2> QED BY <1>1, <2>1 DEF LinesOk
<1>8. TypeOK
  BY <1>1, <1>3, <1>6, <1>7 DEF TypeOK
<1>9. ASSUME NEW p \in Node PROVE Tidy(p) /\ Receives(p)
  <2>1. h[p].tx = "START" /\ h[p].rx = "INIT" /\ h[p].cur = NoFile /\ h[p].rc = "run"
    BY <1>1 DEF Fresh
  <2>2. \A i, j \in DOMAIN queue[p] : queue[p][i] = queue[p][j] => i = j
    BY <1>1, Constants
  <2>3. \A i \in DOMAIN queue[p] : queue[p][i] # NoFile
    BY <1>8, InQueue
  <2>4. \A f \in Mine(p) : snd[f].status = "none"
    BY <1>1, Owners
  <2> QED BY <2>1, <2>2, <2>3, <2>4 DEF Tidy, Receives, Busy, Sending, Closing, Taking, Turning
<1> QED BY <1>8, <1>9 DEF Books

\* A session that ends well on both sides has disposed of every file: hydra()
\* returns 0 only after its second batch, and a batch ends when
\* prot_get_next_file() finds nothing else to send.
THEOREM GoodEnd == Spec => []EndedSettled
<1>1. Books => EndedSettled
  <2> SUFFICES ASSUME Books, \A p \in Node : h[p].rc = "ok"
               PROVE  (\A p \in Node : queue[p] = <<>>) /\ \A f \in File : snd[f].status # "process"
    BY DEF EndedSettled
  <2>1. \A p \in Node : queue[p] = <<>>
    BY DEF Books, Tidy
  <2>2. \A f \in File : snd[f].status # "process"
    BY Owners DEF Books, Tidy, Running
  <2> QED BY <2>1, <2>2
<1> QED BY <1>1, BooksInit, BooksStep, PTL DEF Spec
-----------------------------------------------------------------------------
(***************************************************************************)
(* One direction: the sender p, the receiver of its files, what p has sent *)
(* and what was answered.  A FINFO is the last packet about files that was *)
(* sent, and has no answer yet; a block and an end of file are about the   *)
(* file that is received; and an answer is still true when it arrives.     *)
(* That the last holds is what a late timer may spoil.                     *)
(***************************************************************************)
Off(m) == getlong(m.offs)
Engaged(q) == Running(q) /\ h[q].rx \in Taking \cup Turning
Answered(p) == \E i \in DOMAIN chan[p] : chan[p][i].type = "FINFOACK"

\* On the way to x, no packet of B is behind one of A.
Ordered(x, A, B) ==
  \A i, j \in DOMAIN chan[x] : i < j /\ chan[x][i].type \in A => chan[x][j].type \notin B

RcvOk(q) ==
  Running(q) =>
    /\ h[q].rx \in Taking => rcv[h[q].recv].status = "process" /\ h[q].recv \notin inbound
    /\ h[q].rx \in Turning => rcv[h[q].recv].status \in Asked

Linked(p) ==
  Running(p) =>
    /\ h[p].tx \in Sending =>
         /\ snd[h[p].cur].status = "refused" => rcv[h[p].cur].status \in Asked
         /\ snd[h[p].cur].status = "skipped" => rcv[h[p].cur].status = "skipped" \/ ~snd[h[p].cur].there
    /\ Engaged(Peer(p)) => h[p].tx \in Busy /\ h[Peer(p)].recv = h[p].cur

\* A packet p has sent as a sender.
Fore(p, m) ==
  /\ m.type = "FINFO" =>
       /\ m.file # NoFile => snd[m.file].status = "process" /\ m.file \notin gone
       /\ Running(p) => h[p].tx = "FINFOACK" /\ m.file = h[p].cur /\ ~Answered(p)
  /\ m.type = "DATA" => m.offs + m.len <= Real[m.file]
  /\ m.type \in {"DATA", "EOF"} /\ Engaged(Peer(p)) => m.file = h[Peer(p)].recv
  /\ m.type = "EOF" =>
       /\ Off(m) = -2 => rcv[m.file].status \in Asked
       /\ Running(p) => ~Answered(p) /\ (h[p].tx \in Sending => m.file = h[p].cur)

\* An answer to p.
Backs(p, m) ==
  /\ m.type = "FINFOACK" =>
       /\ h[p].tx = "FINFOACK"
       /\ Off(m) = -1 => h[p].cur # NoFile /\ rcv[h[p].cur].status = "skipped"
       /\ Off(m) < 0 \/ h[p].cur = NoFile => ~Engaged(Peer(p))
  /\ m.type = "RPOS" =>
       /\ h[p].cur # NoFile
       /\ Off(m) < 0 => rcv[h[p].cur].status \in Asked
       /\ Off(m) = -1 => rcv[h[p].cur].status = "skipped"
  /\ m.type = "EOFACK" /\ h[p].tx \in Sending =>
       /\ h[p].cur \in inbound \/ rcv[h[p].cur].status \in Asked
       /\ ~Engaged(Peer(p))

\* An RPOS is obeyed if it arrives while a file is sent: not behind FINFO.
Heeded(p, i) ==
  h[p].tx \in Sending \/ \E j \in DOMAIN chan[p] : j < i /\ chan[p][j].type = "FINFOACK"

Past(p) ==
  \A f \in Mine(p) : f \in gone =>
    /\ Settled(f) \/ (rcv[f].status = "refused" /\ snd[f].eof)
    /\ Running(p) => f # h[p].cur
    /\ \A i \in DOMAIN queue[p] : queue[p][i] # f

Sizes(p) ==
  \A f \in Mine(p) :
    /\ rcv[f].good /\ 2 * rcv[f].bytes < LongMod
    /\ ~sess.wide => 2 * snd[f].pos < LongMod
    /\ f \in inbound => rcv[f].bytes = Size[f]

Direction(p) ==
  /\ RcvOk(Peer(p)) /\ Linked(p)
  /\ Ordered(Peer(p), {"FINFO"}, Forward) /\ Ordered(p, {"FINFOACK"}, {"FINFOACK", "EOFACK"})
  /\ \A i \in DOMAIN chan[Peer(p)] : Fore(p, chan[Peer(p)][i])
  /\ \A i \in DOMAIN chan[p] : (chan[p][i].type = "RPOS" => Heeded(p, i)) => Backs(p, chan[p][i])
  /\ Past(p) /\ Sizes(p)

\* What passes stays in order.
LEMMA OrderedKept ==
  ASSUME TypeOK, LinesOk', NEW x \in Node, NEW A, NEW B, Ordered(x, A, B), NEW k \in {0, 1}, NEW S,
         Passed(x, k, S), A \cap Idle = {}, B \cap Idle = {},
         (\A m \in S : m.type \notin B) \/ (\A i \in DOMAIN chan[x] : i > k => chan[x][i].type \notin A)
  PROVE  Ordered(x, A, B)'
<1>1. DOMAIN chan[x] = 1..Len(chan[x]) /\ Len(chan[x]) \in Nat
  BY LineIs
<1>2. DOMAIN chan'[x] = 1..Len(chan'[x]) /\ Len(chan'[x]) \in Nat
  BY LenProperties DEF LinesOk
<1>3. SUFFICES ASSUME NEW i \in DOMAIN chan'[x], NEW j \in DOMAIN chan'[x], i < j, chan'[x][i].type \in A
               PROVE  chan'[x][j].type \notin B
  BY DEF Ordered
<1>4. i \in Nat \ {0} /\ j \in Nat \ {0} /\ i + k > k
  BY <1>2
<1>5. \/ i + k \in DOMAIN chan[x] /\ chan'[x][i] = chan[x][i + k]
      \/ i + k = Len(chan[x]) + 1
  BY <1>3 DEF Passed
<1>6. \/ j + k \in DOMAIN chan[x] /\ chan'[x][j] = chan[x][j + k]
      \/ chan'[x][j].type \in Idle
      \/ j + k = Len(chan[x]) + 1 /\ chan'[x][j] \in S
  BY DEF Passed
<1>7. CASE i + k = Len(chan[x]) + 1
  <2>1. j + k > Len(chan[x]) + 1
    BY <1>1, <1>3, <1>4, <1>7
  <2>2. chan'[x][j].type \in Idle
    BY <1>1, <1>4, <1>6, <2>1
  <2> QED BY <2>2
<1>8. CASE i + k \in DOMAIN chan[x] /\ chan'[x][i] = chan[x][i + k]
  <2>1. CASE j + k \in DOMAIN chan[x] /\ chan'[x][j] = chan[x][j + k]
    <3>1. i + k < j + k
      BY <1>3, <1>4
    <3> QED BY <1>3, <1>8, <2>1, <3>1 DEF Ordered
  <2>2. CASE chan'[x][j].type \in Idle
    BY <2>2
  <2>3. CASE j + k = Len(chan[x]) + 1 /\ chan'[x][j] \in S
    BY <1>3, <1>4, <1>8, <2>3
  <2> QED BY <1>6, <2>1, <2>2, <2>3
<1> QED BY <1>5, <1>7, <1>8

\* What is on the way is old, says nothing of files, or was just sent.
LEMMA ItemIs ==
  ASSUME TypeOK, LinesOk', NEW x \in Node, NEW k \in {0, 1}, NEW S, Passed(x, k, S), NEW i \in DOMAIN chan'[x]
  PROVE  \/ /\ i + k \in DOMAIN chan[x] /\ chan'[x][i] = chan[x][i + k] /\ i + k > k /\ i \in Nat
         \/ chan'[x][i].type \in Idle
         \/ chan'[x][i] \in S /\ Running(x)
<1>1. DOMAIN chan'[x] = 1..Len(chan'[x]) /\ Len(chan'[x]) \in Nat
  BY LenProperties DEF LinesOk
<1> QED BY <1>1 DEF Passed

\* Answers stay heeded, and new ones appear only when they are sent.
LEMMA HeededKept ==
  ASSUME TypeOK, LinesOk', NEW p \in Node, NEW k \in {0, 1}, NEW S, Passed(p, k, S),
         NEW i \in DOMAIN chan'[p], i + k \in DOMAIN chan[p], Heeded(p, i)'
  PROVE  h'[p].tx \in Sending \/ Heeded(p, i + k)
<1>1. DOMAIN chan[p] = 1..Len(chan[p]) /\ Len(chan[p]) \in Nat
  BY LineIs
<1>2. DOMAIN chan'[p] = 1..Len(chan'[p]) /\ Len(chan'[p]) \in Nat
  BY LenProperties DEF LinesOk
<1>3. SUFFICES ASSUME NEW j \in DOMAIN chan'[p], j < i, chan'[p][j].type = "FINFOACK"
               PROVE  Heeded(p, i + k)
  BY DEF Heeded
<1>4. j + k < i + k /\ j + k # Len(chan[p]) + 1
  BY <1>1, <1>2, <1>3
<1>5. j + k \in DOMAIN chan[p] /\ chan'[p][j] = chan[p][j + k]
  BY <1>3, <1>4 DEF Passed, Idle
<1> QED BY <1>3, <1>4, <1>5 DEF Heeded

LEMMA AnsweredKept ==
  ASSUME TypeOK, LinesOk', NEW p \in Node, NEW k \in {0, 1}, NEW S, Passed(p, k, S),
         \A m \in S : m.type # "FINFOACK", Answered(p)'
  PROVE  \E i \in DOMAIN chan[p] : i > k /\ chan[p][i].type = "FINFOACK"
<1>1. PICK i \in DOMAIN chan'[p] : chan'[p][i].type = "FINFOACK"
  BY DEF Answered
<1>2. i + k \in DOMAIN chan[p] /\ chan'[p][i] = chan[p][i + k] /\ i + k > k
  BY <1>1, ItemIs DEF Idle
<1> QED BY <1>1, <1>2

\* The other direction: nothing of it changes, but for packets that pass.
SameSender(p) ==
  /\ h'[p].rc = h[p].rc /\ h'[p].cur = h[p].cur
  /\ h'[p].tx \in Sending <=> h[p].tx \in Sending
  /\ h'[p].tx \in Busy <=> h[p].tx \in Busy
  /\ h'[p].tx = "FINFOACK" <=> h[p].tx = "FINFOACK"
  /\ queue'[p] = queue[p]
  /\ \A f \in Mine(p) : /\ snd'[f].status = snd[f].status /\ snd'[f].pos = snd[f].pos
                        /\ snd'[f].eof = snd[f].eof /\ snd'[f].there = snd[f].there
                        /\ f \in gone' <=> f \in gone
SameReceiver(q) ==
  /\ h'[q].rc = h[q].rc /\ h'[q].recv = h[q].recv
  /\ h'[q].rx \in Taking <=> h[q].rx \in Taking
  /\ h'[q].rx \in Turning <=> h[q].rx \in Turning
  /\ \A f \in Mine(Peer(q)) : /\ rcv'[f].status = rcv[f].status /\ rcv'[f].bytes = rcv[f].bytes
                              /\ rcv'[f].good = rcv[f].good /\ (f \in inbound' <=> f \in inbound)

LEMMA Items ==
  ASSUME TypeOK, NEW p \in Node
  PROVE  /\ \A i \in DOMAIN chan[p] : /\ chan[p][i] \in Packets(Peer(p)) /\ Running(p)
                                      /\ chan[p][i].file \in Mine(Peer(p)) \cup {NoFile} \/ chan[p][i].type \notin Forward
                                      /\ chan[p][i].type \in {"DATA", "EOF"} => chan[p][i].file \in Mine(Peer(p))
<1>1. \A i \in DOMAIN chan[p] : chan[p][i] \in Packets(Peer(p))
  BY LineIs
<1>2. ASSUME NEW i \in DOMAIN chan[p] PROVE Running(p)
  BY LineIs, EmptySeq
<1> QED BY <1>1, <1>2 DEF Packets, Forward

LEMMA OffSame == ASSUME sess' = sess, NEW m PROVE Off(m)' = Off(m)
BY DEF Off, getlong

\* The packets one by one.
LEMMA ForeAll ==
  ASSUME NEW p \in Node, \A i \in DOMAIN chan'[Peer(p)] : \A m : m = chan'[Peer(p)][i] => Fore(p, m)'
  PROVE  (\A i \in DOMAIN chan[Peer(p)] : Fore(p, chan[Peer(p)][i]))'
BY DEF Fore, Off, getlong

LEMMA BacksAll ==
  ASSUME NEW p \in Node,
         \A i \in DOMAIN chan'[p] : \A m :
            m = chan'[p][i] /\ (m.type = "RPOS" => Heeded(p, i)') => Backs(p, m)'
  PROVE  (\A i \in DOMAIN chan[p] : (chan[p][i].type = "RPOS" => Heeded(p, i)) => Backs(p, chan[p][i]))'
BY DEF Backs, Off, getlong

LEMMA Elsewhere ==
  ASSUME TypeOK, LinesOk', sess' = sess, NEW p \in Node, Tidy(p), Receives(Peer(p)), Direction(p),
         SameSender(p), SameReceiver(Peer(p)),
         NEW k \in {0, 1}, NEW S, Passed(p, k, S), \A m \in S : m.type \notin Backward,
         NEW l \in {0, 1}, NEW T, Passed(Peer(p), l, T), \A m \in T : m.type \notin Forward
  PROVE  Direction(p)'
<1> DEFINE q == Peer(p)
<1>0. q \in Node /\ Peer(q) = p /\ Mine(p) \subseteq File /\ NoFile \notin Mine(p)
  BY Nodes, Owners
<1>1. /\ h[p].cur \in Mine(p) \cup {NoFile} /\ h[q].recv \in Mine(p) \cup {NoFile}
      /\ Running(p) /\ h[p].tx \in Sending => h[p].cur \in Mine(p)
      /\ h[q].rx \in Taking \cup Turning => h[q].recv \in Mine(p)
  BY <1>0, LocalFacts DEF Tidy, Receives
<1>2. /\ Running(p)' <=> Running(p)
      /\ Engaged(q)' <=> Engaged(q)
      /\ Running(q)' <=> Running(q)
  BY DEF SameSender, SameReceiver, Running, Engaged
<1>3. RcvOk(q)'
  BY <1>0, <1>1, <1>2 DEF RcvOk, Direction, SameReceiver
<1>4. Linked(p)'
  BY <1>0, <1>1, <1>2 DEF Linked, Direction, SameSender, SameReceiver
<1>5. Ordered(q, {"FINFO"}, Forward)'
  BY <1>0, OrderedKept DEF Direction, Idle, Forward
<1>6. Ordered(p, {"FINFOACK"}, {"FINFOACK", "EOFACK"})'
  BY OrderedKept DEF Direction, Idle, Backward
<1>7. Answered(p)' => Answered(p)
  BY AnsweredKept DEF Answered, Backward
<1>8. ASSUME NEW i \in DOMAIN chan'[q], NEW m, m = chan'[q][i] PROVE Fore(p, m)'
  <2>2. CASE i + l \in DOMAIN chan[q] /\ m = chan[q][i + l]
    <3>1. Fore(p, m)
      BY <2>2 DEF Direction
    <3>2. /\ m.type = "FINFO" => m.file \in Mine(p) \cup {NoFile}
          /\ m.type \in {"DATA", "EOF"} => m.file \in Mine(p)
      BY <1>0, <2>2, Items DEF Forward
    <3>3. Off(m)' = Off(m)
      BY OffSame
    <3>4. m.type = "FINFO" => /\ m.file # NoFile => snd'[m.file].status = "process" /\ m.file \notin gone'
                              /\ Running(p)' => h'[p].tx = "FINFOACK" /\ m.file = h'[p].cur /\ ~Answered(p)'
      BY <1>2, <1>7, <3>1, <3>2 DEF Fore, SameSender
    <3>5. /\ m.type = "DATA" => m.offs + m.len <= Real[m.file]
          /\ m.type \in {"DATA", "EOF"} /\ Engaged(q)' => m.file = h'[q].recv
      BY <1>2, <3>1 DEF Fore, SameReceiver
    <3>6. m.type = "EOF" => /\ Off(m)' = -2 => rcv'[m.file].status \in Asked
                            /\ Running(p)' => ~Answered(p)' /\ (h'[p].tx \in Sending => m.file = h'[p].cur)
      BY <1>0, <1>2, <1>7, <3>1, <3>2, <3>3 DEF Fore, SameSender, SameReceiver
    <3> QED BY <3>4, <3>5, <3>6 DEF Fore
  <2>3. CASE m.type \in Idle \/ m \in T
    <3>1. m.type \notin Forward
      BY <2>3 DEF Idle, Forward
    <3> QED BY <3>1 DEF Fore, Forward
  <2> QED BY <1>0, <1>8, <2>2, <2>3, ItemIs
<1>9. ASSUME NEW i \in DOMAIN chan'[p], NEW m, m = chan'[p][i], m.type = "RPOS" => Heeded(p, i)'
      PROVE  Backs(p, m)'
  <2>2. CASE i + k \in DOMAIN chan[p] /\ m = chan[p][i + k]
    <3>1. m.type = "RPOS" => Heeded(p, i + k)
      BY <1>9, <2>2, HeededKept DEF Heeded, SameSender
    <3>2. Backs(p, m) /\ Running(p)
      BY <2>2, <3>1, Items DEF Direction
    <3>3. Off(m)' = Off(m)
      BY OffSame
    <3>4. h[p].cur # NoFile => h[p].cur \in Mine(p)
      BY <1>1
    <3>5. m.type = "FINFOACK" =>
             /\ h'[p].tx = "FINFOACK"
             /\ Off(m)' = -1 => h'[p].cur # NoFile /\ rcv'[h'[p].cur].status = "skipped"
             /\ Off(m)' < 0 \/ h'[p].cur = NoFile => ~Engaged(q)'
      BY <1>0, <1>2, <3>2, <3>3, <3>4 DEF Backs, SameSender, SameReceiver
    <3>6. /\ m.type = "RPOS" =>
               /\ h'[p].cur # NoFile
               /\ Off(m)' < 0 => rcv'[h'[p].cur].status \in Asked
               /\ Off(m)' = -1 => rcv'[h'[p].cur].status = "skipped"
          /\ m.type = "EOFACK" /\ h'[p].tx \in Sending =>
               /\ h'[p].cur \in inbound' \/ rcv'[h'[p].cur].status \in Asked
               /\ ~Engaged(q)'
      BY <1>0, <1>1, <1>2, <3>2, <3>3, <3>4 DEF Backs, SameSender, SameReceiver
    <3> QED BY <3>5, <3>6 DEF Backs
  <2>3. CASE m.type \in Idle \/ m \in S
    <3>1. m.type \notin Backward
      BY <2>3 DEF Idle, Backward
    <3> QED BY <3>1 DEF Backs, Backward
  <2> QED BY <1>9, <2>2, <2>3, ItemIs
<1>10. Past(p)'
  BY <1>0, <1>2, MineSame DEF Past, Settled, Direction, SameSender, SameReceiver
<1>11. Sizes(p)'
  BY <1>0, MineSame DEF Sizes, Direction, SameSender, SameReceiver
<1>12. (\A i \in DOMAIN chan[Peer(p)] : Fore(p, chan[Peer(p)][i]))'
  BY <1>8, ForeAll
<1>13. (\A i \in DOMAIN chan[p] : (chan[p][i].type = "RPOS" => Heeded(p, i)) => Backs(p, chan[p][i]))'
  BY <1>9, BacksAll
<1> QED BY <1>3, <1>4, <1>5, <1>6, <1>10, <1>11, <1>12, <1>13 DEF Direction

\* A step of n as a sender, in its own direction.  No FINFO is on the way any
\* more, and no answer to one is left.
Forwards(n, k, S, t, d) ==
  /\ TxLines(n, k, S) /\ \E b : HTx(n, t, d, b)
  /\ \A i \in DOMAIN chan[Peer(n)] : chan[Peer(n)][i].type # "FINFO"
  /\ \A i \in DOMAIN chan[n] : i > k => chan[n][i].type # "FINFOACK"
  /\ t \in Sending => /\ d = h[n].cur /\ d \in Mine(n)
                      /\ h[n].tx \in Sending \/ (k = 1 /\ chan[n][1].type = "FINFOACK")
  /\ Engaged(Peer(n)) => t \in Busy /\ h[Peer(n)].recv = d

LEMMA NoneLeft ==
  ASSUME TypeOK, NEW n \in Node, NEW k \in {0, 1}, NEW S, NEW t, NEW d, Forwards(n, k, S, t, d)
  PROVE  ~Answered(n)'
BY AnsweredKept DEF Forwards, TxLines

LEMMA Ahead ==
  ASSUME TypeOK, NEW n \in Node, Receives(Peer(n)), Direction(n), NEW k \in {0, 1}, NEW S, NEW t, NEW d,
         Forwards(n, k, S, t, d),
         t \in Sending => /\ snd'[d].status = "refused" => rcv[d].status \in Asked
                          /\ snd'[d].status = "skipped" => rcv[d].status = "skipped" \/ ~snd'[d].there,
         \A m \in S : m.type \in Forward /\ Fore(n, m)',
         Past(n)', Sizes(n)'
  PROVE  Direction(n)'
<1> DEFINE q == Peer(n)
<1>0. q \in Node /\ Peer(q) = n /\ Mine(n) \subseteq File /\ NoFile \notin Mine(n)
  BY Nodes, Owners
<1>1. /\ LinesOk' /\ Passed(n, k, {}) /\ Passed(q, 0, S) /\ sess' = sess /\ rcv' = rcv /\ inbound' = inbound
      /\ Running(n) /\ (k = 1 => chan[n] # << >>)
      /\ h'[n].rc = "run" /\ h'[n].tx = t /\ h'[n].cur = d /\ h'[q] = h[q]
  BY DEF Forwards, TxLines, HTx, Online, Running
<1>2. /\ Running(n)'
      /\ Running(q)' <=> Running(q)
      /\ Engaged(q)' <=> Engaged(q)
  BY <1>1 DEF Running, Engaged
<1>3. RcvOk(q)'
  BY <1>1, <1>2 DEF RcvOk, Direction
<1>4. Linked(n)'
  BY <1>1, <1>2 DEF Linked, Forwards
<1>5. Ordered(q, {"FINFO"}, Forward)'
  <2>1. \A i \in DOMAIN chan[q] : i > 0 => chan[q][i].type \notin {"FINFO"}
    BY DEF Forwards
  <2> QED BY <1>0, <1>1, <2>1, OrderedKept DEF Direction, Idle, Forward
<1>6. Ordered(n, {"FINFOACK"}, {"FINFOACK", "EOFACK"})'
  BY <1>1, OrderedKept DEF Direction, Idle
<1>7. ~Answered(n)'
  BY NoneLeft
<1>8. ASSUME NEW i \in DOMAIN chan'[q], NEW m, m = chan'[q][i] PROVE Fore(n, m)'
  <2>2. CASE i \in DOMAIN chan[q] /\ m = chan[q][i]
    <3>1. Fore(n, m) /\ m.type # "FINFO"
      BY <2>2 DEF Direction, Forwards
    <3>2. Off(m)' = Off(m)
      BY <1>1, OffSame
    <3>3. m.type = "EOF" /\ t \in Sending => m.file = d
      <4>1. SUFFICES ASSUME m.type = "EOF", t \in Sending PROVE m.file = d
        OBVIOUS
      <4>2. CASE h[n].tx \in Sending
        BY <1>1, <3>1, <4>1, <4>2 DEF Fore, Forwards
      <4>3. CASE k = 1 /\ chan[n][1].type = "FINFOACK"
        <5>1. 1 \in DOMAIN chan[n]
          BY <1>1, <4>3, FirstPacket
        <5>2. Answered(n)
          BY <4>3, <5>1 DEF Answered
        <5> QED BY <1>1, <3>1, <4>1, <5>2 DEF Fore
      <4> QED BY <4>1, <4>2, <4>3 DEF Forwards
    <3>4. /\ m.type = "DATA" => m.offs + m.len <= Real[m.file]
          /\ m.type \in {"DATA", "EOF"} /\ Engaged(q)' => m.file = h'[q].recv
          /\ m.type = "EOF" /\ Off(m)' = -2 => rcv'[m.file].status \in Asked
      BY <1>1, <1>2, <3>1, <3>2 DEF Fore
    <3> QED BY <1>1, <1>7, <3>1, <3>3, <3>4 DEF Fore
  <2>3. CASE m \in S
    BY <2>3
  <2>4. CASE m.type \in Idle
    BY <2>4 DEF Idle, Fore
  <2>5. i + 0 = i \/ i \notin Nat
    OBVIOUS
  <2> QED BY <1>0, <1>1, <1>8, <2>2, <2>3, <2>4, <2>5, ItemIs
<1>9. ASSUME NEW i \in DOMAIN chan'[n], NEW m, m = chan'[n][i], m.type = "RPOS" => Heeded(n, i)'
      PROVE  Backs(n, m)'
  <2>2. CASE i + k \in DOMAIN chan[n] /\ m = chan[n][i + k] /\ i + k > k
    <3>1. m.type # "FINFOACK"
      BY <2>2 DEF Forwards
    <3>2. m.type = "RPOS" => t \in Sending
      <4>1. SUFFICES ASSUME Heeded(n, i)' PROVE h'[n].tx \in Sending
        BY <1>1, <1>9
      <4> QED BY <1>7, <4>1 DEF Heeded, Answered
    <3>3. SUFFICES ASSUME t \in Sending, m.type \in {"RPOS", "EOFACK"} PROVE Backs(n, m)'
      BY <1>1, <3>1, <3>2 DEF Backs
    <3>4. d = h[n].cur /\ d # NoFile
      BY <1>0, <3>3 DEF Forwards
    <3>5. Off(m)' = Off(m)
      BY <1>1, OffSame
    <3>6. CASE h[n].tx \in Sending
      <4>1. Backs(n, m)
        BY <2>2, <3>6 DEF Direction, Heeded
      <4> QED BY <1>1, <1>2, <3>1, <3>4, <3>5, <3>6, <4>1 DEF Backs
    <3>7. CASE k = 1 /\ chan[n][1].type = "FINFOACK"
      <4>1. 1 \in DOMAIN chan[n] /\ 1 < i + k
        BY <1>1, <2>2, <3>7, FirstPacket
      <4>2. m.type = "RPOS"
        BY <2>2, <3>3, <3>7, <4>1 DEF Direction, Ordered
      <4>3. Heeded(n, i + k)
        BY <3>7, <4>1 DEF Heeded
      <4>4. Backs(n, m)
        BY <2>2, <4>3 DEF Direction
      <4> QED BY <1>1, <3>4, <3>5, <4>2, <4>4 DEF Backs
    <3> QED BY <3>3, <3>6, <3>7 DEF Forwards
  <2>4. CASE m.type \in Idle
    BY <2>4 DEF Idle, Backs
  <2> QED BY <1>1, <1>9, <2>2, <2>4, ItemIs
<1>10. (\A i \in DOMAIN chan[Peer(n)] : Fore(n, chan[Peer(n)][i]))'
  BY <1>8, ForeAll
<1>11. (\A i \in DOMAIN chan[n] : (chan[n][i].type = "RPOS" => Heeded(n, i)) => Backs(n, chan[n][i]))'
  BY <1>9, BacksAll
<1> QED BY <1>3, <1>4, <1>5, <1>6, <1>10, <1>11 DEF Direction

\* After a step of the sender about its file c, which may be given up.
LEMMA PastWithin ==
  ASSUME TypeOK, NEW n \in Node, Tidy(n), Direction(n), Running(n), NEW c \in Mine(n), h[n].cur = c,
         UNCHANGED <<rcv, inbound, queue>>, h'[n].cur \in {c, NoFile},
         \A f \in File : f # c => snd'[f] = snd[f],
         gone' \in {gone, gone \cup {c}},
         c \in gone' => /\ h'[n].cur = NoFile
                        /\ \/ c \in inbound \/ rcv[c].status = "skipped" \/ ~snd'[c].there
                           \/ rcv[c].status = "refused" /\ snd'[c].eof
  PROVE  Past(n)'
<1>1. Mine(n) \subseteq File /\ NoFile \notin Mine(n)
  BY Owners
<1>2. \A i \in DOMAIN queue[n] : queue[n][i] # c
  BY DEF Tidy
<1>3. SUFFICES ASSUME NEW f \in Mine(n), f \in gone'
               PROVE  /\ Settled(f)' \/ (rcv'[f].status = "refused" /\ snd'[f].eof)
                      /\ f # h'[n].cur
                      /\ \A i \in DOMAIN queue'[n] : queue'[n][i] # f
  BY MineSame DEF Past
<1>4. CASE f = c
  BY <1>1, <1>2, <1>3, <1>4 DEF Settled
<1>5. CASE f # c
  <2>1. f \in gone
    BY <1>3, <1>5
  <2> QED BY <1>1, <1>5, <2>1 DEF Direction, Past, Settled
<1> QED BY <1>4, <1>5

LEMMA SizesWithin ==
  ASSUME TypeOK, NEW n \in Node, Direction(n), NEW c \in File, UNCHANGED <<rcv, inbound, sess>>,
         \A f \in File : f # c => snd'[f] = snd[f],
         ~sess.wide => 2 * snd'[c].pos < LongMod
  PROVE  Sizes(n)'
<1>1. Mine(n) \subseteq File
  BY Owners
<1>2. ~sess.wide => \A f \in Mine(n) : 2 * snd'[f].pos < LongMod
  BY <1>1 DEF Direction, Sizes
<1> QED BY <1>2, MineSame DEF Direction, Sizes

\* When the sender acts about a file, its last FINFO has arrived and its
\* answer is here: a timer fires only if neither is on the way.
LEMMA NothingPends ==
  ASSUME TypeOK, NEW n \in Node, Direction(n), TxFile(n), "late" \notin sess.faults
  PROVE  /\ Running(n)
         /\ \A i \in DOMAIN chan[Peer(n)] : chan[Peer(n)][i].type # "FINFO"
         /\ \/ \A i \in DOMAIN chan[n] : chan[n][i].type # "FINFOACK"
            \/ /\ h[n].tx = "FINFOACK" /\ chan[n] # << >> /\ chan[n][1].type = "FINFOACK"
               /\ \A i \in DOMAIN chan[n] : i > 1 => chan[n][i].type \notin {"FINFOACK", "EOFACK"}
<1>0. Running(n)
  BY DEF TxFile, OpenNext, EndBatch, Opening, SendFinfo, SendData, SendNoData, ReadVanished, Reading, SendEof,
         SendTimer, RecvEobAck, RecvFinfoAck, RecvFinfoNak, RecvRpos, RecvRposSkip, RecvEofAck, Takes
<1>1. CASE h[n].tx # "FINFOACK"
  BY <1>0, <1>1 DEF Direction, Fore, Backs
<1>2. CASE h[n].tx = "FINFOACK" /\ SendTimer(n)
  <2>1. Unanswered(n)
    BY <1>2 DEF SendTimer, Late
  <2> QED BY <1>0, <2>1 DEF Unanswered, TxPkts
<1>3. CASE h[n].tx = "FINFOACK" /\ ~SendTimer(n)
  <2>1. RecvEobAck(n) \/ RecvFinfoAck(n) \/ RecvFinfoNak(n)
    BY <1>3 DEF TxFile, OpenNext, EndBatch, Opening, SendFinfo, SendData, SendNoData, ReadVanished, Reading, SendEof,
                RecvRpos, RecvRposSkip, RecvEofAck, Rposable
  <2>2. chan[n] # << >> /\ chan[n][1].type = "FINFOACK"
    BY <2>1 DEF RecvEobAck, RecvFinfoAck, RecvFinfoNak, Takes
  <2>3. 1 \in DOMAIN chan[n]
    BY <2>2, FirstPacket
  <2>4. Answered(n)
    BY <2>2, <2>3 DEF Answered
  <2>5. \A i \in DOMAIN chan[n] : i > 1 => chan[n][i].type \notin {"FINFOACK", "EOFACK"}
    BY <2>2, <2>3 DEF Direction, Ordered
  <2> QED BY <1>0, <1>3, <2>2, <2>4, <2>5 DEF Direction, Fore
<1> QED BY <1>1, <1>2, <1>3

LEMMA QuietBooks ==
  ASSUME NEW n \in Node, Direction(n), Running(n), UNCHANGED <<queue, snd, gone, rcv, inbound, sess>>,
         h'[n].cur \in {h[n].cur, NoFile}
  PROVE  Past(n)' /\ Sizes(n)'
<1>1. NoFile \notin Mine(n)
  BY Owners
<1>2. Past(n)'
  BY <1>1, MineSame DEF Direction, Past, Settled
<1>3. Sizes(n)'
  BY MineSame DEF Direction, Sizes
<1> QED BY <1>2, <1>3

\* A new FINFO says what the sender's books say.
LEMMA FinfoSays ==
  ASSUME NEW n \in Node, NEW f, ~Answered(n)', h'[n].tx = "FINFOACK", h'[n].cur = f,
         f # NoFile => snd'[f].status = "process" /\ f \notin gone'
  PROVE  \A m \in {Pkt("FINFO", f, 0)} : m.type \in Forward /\ Fore(n, m)'
<1> SUFFICES ASSUME NEW m, m = Pkt("FINFO", f, 0) PROVE m.type \in Forward /\ Fore(n, m)'
  OBVIOUS
<1>1. m.type = "FINFO" /\ m.file = f
  BY DEF Pkt
<1> QED BY <1>1 DEF Fore, Forward

LEMMA NextAhead ==
  ASSUME TypeOK, NEW n \in Node, Tidy(n), Receives(Peer(n)), Direction(n), "late" \notin sess.faults,
         OpenNext(n)
  PROVE  Direction(n)'
<1>1. PICK i \in DOMAIN queue[n] :
              /\ HTx(n, "FINFOACK", queue[n][i], FALSE)
              /\ TxLines(n, 0, {Pkt("FINFO", queue[n][i], 0)})
              /\ queue' = [queue EXCEPT ![n] = Without(@, i)]
              /\ snd' = [snd EXCEPT ![queue[n][i]].status = "process", ![queue[n][i]].open = TRUE]
  BY OpenNextIs
<1>2. PICK c \in File : c = queue[n][i] /\ c \in Mine(n) /\ c # NoFile
  BY InQueue
<1>3. /\ HTx(n, "FINFOACK", c, FALSE) /\ TxLines(n, 0, {Pkt("FINFO", c, 0)})
      /\ h[n].tx \in {"NextFile", "RINIT"} /\ gone' = gone /\ rcv' = rcv /\ inbound' = inbound /\ sess' = sess
      /\ h'[n].tx = "FINFOACK" /\ h'[n].cur = c /\ Running(n)
  BY <1>1, <1>2, OpenNextIs DEF TxLines, HTx
<1>4. Snds(c, "process", snd[c].eof, snd[c].pos, snd[c].there)
  BY <1>1, <1>2, SndPut DEF Status
<1>5. ~Engaged(Peer(n))
  BY <1>3 DEF Direction, Linked, Busy
<1>6. Forwards(n, 0, {Pkt("FINFO", c, 0)}, "FINFOACK", c)
  BY <1>3, <1>5, NothingPends DEF Forwards, TxFile, Sending
<1>7. ~Answered(n)'
  BY <1>6, NoneLeft
<1>8. c \notin gone
  BY <1>2 DEF Direction, Past
<1>9. \A m \in {Pkt("FINFO", c, 0)} : m.type \in Forward /\ Fore(n, m)'
  BY <1>3, <1>4, <1>7, <1>8, FinfoSays DEF Snds
<1>10. Past(n)'
  <2>1. queue' = [queue EXCEPT ![n] = Without(@, i)]
    BY <1>1
  <2>2. \A j \in DOMAIN queue'[n] : \E k \in DOMAIN queue[n] : queue'[n][j] = queue[n][k]
    <3>1. i \in DOMAIN queue[n]
      BY <1>1
    <3>2. \A j \in DOMAIN queue'[n] : \E k \in DOMAIN queue[n] : queue'[n][j] = queue[n][k]
      BY <2>1, <3>1, QueueShorter
    <3> QED BY <3>2
  <2>3. SUFFICES ASSUME NEW f \in Mine(n), f \in gone
                 PROVE  /\ Settled(f)' \/ (rcv'[f].status = "refused" /\ snd'[f].eof)
                        /\ f # c
                        /\ \A j \in DOMAIN queue'[n] : queue'[n][j] # f
    BY <1>3, MineSame DEF Past
  <2>4. f # c /\ snd'[f] = snd[f]
    BY <1>4, <1>8, <2>3, Owners DEF Snds
  <2>5. \A j \in DOMAIN queue'[n] : queue'[n][j] # f
    BY <2>2, <2>3 DEF Direction, Past
  <2> QED BY <1>3, <2>3, <2>4, <2>5 DEF Direction, Past, Settled
<1>11. Sizes(n)'
  BY <1>2, <1>3, <1>4, SizesWithin DEF Snds, Direction, Sizes
<1> QED BY <1>6, <1>9, <1>10, <1>11, Ahead DEF Sending

LEMMA FinfoAhead ==
  ASSUME TypeOK, NEW n \in Node, Tidy(n), Receives(Peer(n)), Direction(n), "late" \notin sess.faults,
         EndBatch(n) \/ SendFinfo(n)
  PROVE  Direction(n)'
<1>0. PICK c : c = h[n].cur
  OBVIOUS
<1>1. /\ \E b : HTx(n, "FINFOACK", c, b) /\ TxLines(n, 0, {Pkt("FINFO", c, 0)})
      /\ UNCHANGED <<queue, snd, gone>> /\ h[n].tx \in {"NextFile", "RINIT", "FINFO"}
      /\ c # NoFile => h[n].tx = "FINFO"
  <2>1. CASE EndBatch(n)
    <3>1. Running(n) /\ h[n].tx \in {"NextFile", "RINIT"}
      BY <2>1 DEF EndBatch, Opening
    <3>2. c = NoFile
      BY <1>0, <3>1 DEF Tidy, Busy
    <3> QED BY <2>1, <3>2, EndBatchIs
  <2>2. CASE SendFinfo(n)
    BY <1>0, <2>2, SendFinfoIs
  <2> QED BY <2>1, <2>2
<1>2. /\ rcv' = rcv /\ inbound' = inbound /\ sess' = sess
      /\ h'[n].tx = "FINFOACK" /\ h'[n].cur = c /\ Running(n)
  BY <1>1 DEF TxLines, HTx
<1>3. Engaged(Peer(n)) => h[Peer(n)].recv = c
  BY <1>0, <1>2 DEF Direction, Linked
<1>4. Forwards(n, 0, {Pkt("FINFO", c, 0)}, "FINFOACK", c)
  BY <1>1, <1>3, NothingPends DEF Forwards, TxFile, Sending, Busy
<1>5. ~Answered(n)'
  BY <1>4, NoneLeft
<1>6. c # NoFile => snd[c].status = "process" /\ c \in Mine(n)
  BY <1>0, <1>1, <1>2, LocalFacts DEF Tidy
<1>7. c # NoFile => c \notin gone
  BY <1>0, <1>2, <1>6 DEF Direction, Past
<1>8. \A m \in {Pkt("FINFO", c, 0)} : m.type \in Forward /\ Fore(n, m)'
  BY <1>1, <1>2, <1>5, <1>6, <1>7, FinfoSays
<1>9. Past(n)' /\ Sizes(n)'
  BY <1>0, <1>1, <1>2, QuietBooks
<1> QED BY <1>4, <1>8, <1>9, Ahead DEF Sending

\* EOF(-2) is only sent for a file the receiver has turned away.
LEMMA EofOffsetIs ==
  ASSUME TypeOK, NEW f \in File, snd[f].eof \/ snd[f].status \in Asked,
         ~sess.wide => 2 * snd[f].pos < LongMod
  PROVE  EofOffset(f) \in Int /\ (getlong(putlong(EofOffset(f))) = -2 => snd[f].status = "refused")
<1> PICK o : o = EofOffset(f)
  OBVIOUS
<1>1. sess.wide \in BOOLEAN /\ LongMod \in Nat /\ LongMod > 4
  BY Wide, Constants DEF TypeOK
<1>2. snd[f].pos \in Nat
  BY DEF TypeOK, FilesOk, Sinfo
<1>3. CASE snd[f].status = "skipped"
  <2>1. o = -1
    BY <1>3 DEF EofOffset
  <2> QED BY <1>1, <2>1, Positions
<1>4. CASE snd[f].status = "refused"
  BY <1>4 DEF EofOffset
<1>5. CASE snd[f].status \notin Asked
  <2>1. o = snd[f].pos
    BY <1>5 DEF EofOffset, Asked
  <2>2. getlong(putlong(o)) # -2
    <3>1. CASE sess.wide
      <4>1. putlong(o) \in Long
        BY <1>1, <1>2, <2>1, Longs
      <4>2. getlong(putlong(o)) >= 0
        BY <1>1, <3>1, <4>1, Longs
      <4> QED BY <4>2
    <3>2. CASE ~sess.wide
      BY <1>1, <1>2, <2>1, <3>2, Positions
    <3> QED BY <3>1, <3>2
  <2> QED BY <1>2, <2>1, <2>2
<1> QED BY <1>3, <1>4, <1>5 DEF Asked

LEMMA EofAhead ==
  ASSUME TypeOK, NEW n \in Node, Tidy(n), Receives(Peer(n)), Direction(n), "late" \notin sess.faults,
         SendEof(n)
  PROVE  Direction(n)'
<1>0. PICK c : c = h[n].cur
  OBVIOUS
<1>1. Running(n) /\ h[n].tx = "EOF"
  BY DEF SendEof
<1>2. c # NoFile /\ c \in Mine(n) /\ c \in File
  BY <1>0, <1>1, CurrentIs, Owners DEF Sending
<1>3. PICK o \in Int : /\ o = EofOffset(c) /\ (getlong(putlong(o)) = -2 => snd[c].status = "refused")
  <2>1. snd[c].eof \/ snd[c].status \in Asked
    BY <1>0, <1>1 DEF Tidy
  <2>2. ~sess.wide => 2 * snd[c].pos < LongMod
    BY <1>2 DEF Direction, Sizes
  <2> QED BY <1>2, <2>1, <2>2, EofOffsetIs
<1>4. /\ \E b : HTx(n, "EOFACK", c, b) /\ TxLines(n, 0, {Pkt("EOF", c, o)})
      /\ UNCHANGED <<queue, snd, gone>>
  BY <1>0, <1>2, <1>3, SendEofIs
<1>5. /\ rcv' = rcv /\ inbound' = inbound /\ sess' = sess
      /\ h'[n].tx = "EOFACK" /\ h'[n].cur = c /\ h'[Peer(n)] = h[Peer(n)]
  BY <1>4 DEF TxLines, HTx
<1>6. /\ Engaged(Peer(n)) => h[Peer(n)].recv = c
      /\ snd[c].status = "refused" => rcv[c].status \in Asked
      /\ snd[c].status = "skipped" => rcv[c].status = "skipped" \/ ~snd[c].there
  BY <1>0, <1>1 DEF Direction, Linked, Sending
<1>7. Forwards(n, 0, {Pkt("EOF", c, o)}, "EOFACK", c)
  BY <1>0, <1>1, <1>2, <1>4, <1>6, NothingPends DEF Forwards, TxFile, Sending, Busy
<1>8. ~Answered(n)'
  BY <1>7, NoneLeft
<1>9. ASSUME NEW m, m = Pkt("EOF", c, o) PROVE m.type \in Forward /\ Fore(n, m)'
  <2>1. m.type = "EOF" /\ m.file = c /\ m.offs = putlong(o)
    BY <1>9 DEF Pkt
  <2>2. Engaged(Peer(n))' <=> Engaged(Peer(n))
    BY <1>5 DEF Engaged, Running
  <2>3. Off(m)' = -2 => rcv[c].status \in Asked
    BY <1>3, <1>5, <1>6, <2>1, OffSame DEF Off
  <2> QED BY <1>5, <1>6, <1>8, <2>1, <2>2, <2>3 DEF Fore, Forward
<1>10. Past(n)' /\ Sizes(n)'
  BY <1>0, <1>1, <1>4, <1>5, QuietBooks
<1>11. \A m \in {Pkt("EOF", c, o)} : m.type \in Forward /\ Fore(n, m)'
  BY <1>9
<1> QED BY <1>4, <1>5, <1>6, <1>7, <1>10, <1>11, Ahead

LEMMA WaitAhead ==
  ASSUME TypeOK, NEW n \in Node, Tidy(n), Receives(Peer(n)), Direction(n), "late" \notin sess.faults,
         (SendTimer(n) /\ h[n].tx \in {"FINFOACK", "EOFACK"}) \/ (RecvEobAck(n) /\ h[n].tx = "FINFOACK")
  PROVE  Direction(n)'
<1>0. PICK c : c = h[n].cur
  OBVIOUS
<1>1. CASE SendTimer(n) /\ h[n].tx \in {"FINFOACK", "EOFACK"}
  <2>1. PICK t \in {"FINFO", "EOF"} :
          /\ \E b : HTx(n, t, c, b) /\ t = (IF h[n].tx = "FINFOACK" THEN "FINFO" ELSE "EOF")
    BY <1>0, <1>1, SendTimerIs
  <2>2. TxLines(n, 0, {}) /\ UNCHANGED <<queue, snd, gone>> /\ Unanswered(n)
    BY <1>1, SendTimerIs DEF Late
  <2>3. /\ rcv' = rcv /\ inbound' = inbound /\ sess' = sess /\ h'[n].tx = t /\ h'[n].cur = c /\ Running(n)
    BY <2>1, <2>2 DEF TxLines, HTx
  <2>4. t \in Sending => h[n].tx \in Sending /\ c \in Mine(n)
    BY <1>0, <1>1, <2>1, <2>3, CurrentIs DEF Sending
  <2>5. /\ Engaged(Peer(n)) => h[Peer(n)].recv = c
        /\ h[n].tx \in Sending => /\ snd[c].status = "refused" => rcv[c].status \in Asked
                                  /\ snd[c].status = "skipped" => rcv[c].status = "skipped" \/ ~snd[c].there
    BY <1>0, <2>3 DEF Direction, Linked
  <2>6. \A i \in DOMAIN chan[n] : chan[n][i].type # "FINFOACK"
    BY <2>2 DEF Unanswered, TxPkts
  <2>7. Forwards(n, 0, {}, t, c)
    BY <1>0, <1>1, <2>1, <2>2, <2>4, <2>5, <2>6, NothingPends DEF Forwards, TxFile, Busy
  <2>8. Past(n)' /\ Sizes(n)'
    BY <1>0, <2>2, <2>3, QuietBooks
  <2> QED BY <2>2, <2>4, <2>5, <2>7, <2>8, Ahead
<1>2. CASE RecvEobAck(n) /\ h[n].tx = "FINFOACK"
  <2>1. /\ \E b : HTx(n, "REND", c, b) /\ TxLines(n, 1, {})
        /\ UNCHANGED <<queue, snd, gone>> /\ h[n].eob /\ chan[n] # << >> /\ chan[n][1].type = "FINFOACK"
    BY <1>0, <1>2, RecvEobAckIs
  <2>2. /\ rcv' = rcv /\ inbound' = inbound /\ sess' = sess /\ h'[n].cur = c /\ Running(n)
    BY <2>1 DEF TxLines, HTx
  <2>3. c = NoFile
    BY <1>0, <1>2, <2>1, <2>2 DEF Tidy
  <2>4. 1 \in DOMAIN chan[n]
    BY <2>1, FirstPacket
  <2>5. ~Engaged(Peer(n))
    BY <1>0, <2>1, <2>3, <2>4 DEF Direction, Backs
  <2>6. \A i \in DOMAIN chan[n] : i > 1 => chan[n][i].type # "FINFOACK"
    BY <2>1, <2>4 DEF Direction, Ordered
  <2>7. Forwards(n, 1, {}, "REND", c)
    BY <1>2, <2>1, <2>5, <2>6, NothingPends DEF Forwards, TxFile, Sending
  <2>8. Past(n)' /\ Sizes(n)'
    BY <1>0, <2>1, <2>2, QuietBooks
  <2> QED BY <2>7, <2>8, Ahead DEF Sending
<1> QED BY <1>1, <1>2

\* A step within the current file c, or its end.
Proceeds(n, c, s, e, o, there, d) ==
  /\ Snds(c, s, e, o, there) /\ queue' = queue /\ gone' \in {gone, gone \cup {c}} /\ d \in {c, NoFile}
  /\ s = "refused" => rcv[c].status \in Asked
  /\ s = "skipped" => rcv[c].status = "skipped" \/ ~there
  /\ ~sess.wide => 2 * o < LongMod
  /\ gone' # gone => /\ d = NoFile
                     /\ c \in inbound \/ rcv[c].status = "skipped" \/ ~there \/ (rcv[c].status = "refused" /\ e)

LEMMA WithinAhead ==
  ASSUME TypeOK, NEW n \in Node, Tidy(n), Receives(Peer(n)), Direction(n), Running(n),
         NEW c \in Mine(n), c = h[n].cur, NEW s, NEW e, NEW o, NEW there, NEW d,
         Proceeds(n, c, s, e, o, there, d),
         NEW k \in {0, 1}, NEW S, NEW t, Forwards(n, k, S, t, d),
         \A m \in S : m.type \in Forward /\ Fore(n, m)'
  PROVE  Direction(n)'
<1>1. c \in File /\ c # NoFile
  BY Owners
<1>2. /\ rcv' = rcv /\ inbound' = inbound /\ sess' = sess /\ h'[n].cur = d
  BY DEF Forwards, TxLines, HTx
<1>3. /\ \A f \in File : f # c => snd'[f] = snd[f]
      /\ snd'[c].status = s /\ snd'[c].eof = e /\ snd'[c].pos = o /\ snd'[c].there = there
      /\ queue' = queue /\ gone' \in {gone, gone \cup {c}} /\ d \in {c, NoFile}
  BY DEF Proceeds, Snds
<1>4. c \notin gone
  BY DEF Direction, Past
<1>5. Past(n)'
  <2>1. c \in gone' => gone' # gone
    BY <1>4
  <2>2. c \in gone' => /\ h'[n].cur = NoFile
                       /\ \/ c \in inbound \/ rcv[c].status = "skipped" \/ ~snd'[c].there
                          \/ rcv[c].status = "refused" /\ snd'[c].eof
    BY <1>2, <1>3, <2>1 DEF Proceeds
  <2> QED BY <1>2, <1>3, <2>2, PastWithin
<1>6. Sizes(n)'
  BY <1>1, <1>2, <1>3, SizesWithin DEF Proceeds
<1>7. t \in Sending => /\ snd'[d].status = "refused" => rcv[d].status \in Asked
                       /\ snd'[d].status = "skipped" => rcv[d].status = "skipped" \/ ~snd'[d].there
  BY <1>3 DEF Proceeds, Forwards
<1> QED BY <1>5, <1>6, <1>7, Ahead

\* What is known of the file that is sent.
LEMMA SendingFacts ==
  ASSUME TypeOK, NEW n \in Node, Tidy(n), Direction(n), Running(n), NEW c \in Mine(n), c = h[n].cur
  PROVE  /\ c \in File /\ c # NoFile /\ snd[c].pos \in Nat
         /\ ~sess.wide => 2 * snd[c].pos < LongMod
         /\ Engaged(Peer(n)) => h[Peer(n)].recv = c
         /\ h[n].tx \in Sending => /\ snd[c].status \in {"process"} \cup Asked
                                   /\ snd[c].status = "refused" => rcv[c].status \in Asked
                                   /\ snd[c].status = "skipped" => rcv[c].status = "skipped" \/ ~snd[c].there
<1>1. c \in File /\ c # NoFile
  BY Owners
<1>2. snd[c].pos \in Nat
  BY <1>1 DEF TypeOK, FilesOk, Sinfo
<1> QED BY <1>1, <1>2 DEF Direction, Linked, Sizes, Tidy

LEMMA DataAhead ==
  ASSUME TypeOK, NEW n \in Node, Tidy(n), Receives(Peer(n)), Direction(n), "late" \notin sess.faults,
         SendData(n)
  PROVE  Direction(n)'
<1> PICK c : c = h[n].cur
  OBVIOUS
<1>0. c \in Mine(n) /\ c \in File /\ Running(n)
  BY InFileCurrent DEF InFile
<1>1. PICK k \in 1..(Real[c] - snd[c].pos), eof \in BOOLEAN, t \in {"DATA", "EOF"} :
        /\ t = "EOF" => eof
        /\ snd' = [snd EXCEPT ![c].pos = @ + k, ![c].eof = eof]
        /\ HTx(n, t, c, h[n].eob)
        /\ TxLines(n, 0, {Block(c, snd[c].pos, k)})
  BY SendDataIs
<1>2. h[n].tx = "DATA" /\ queue' = queue /\ gone' = gone
  BY SendDataIs
<1>3. PICK o : o = snd[c].pos
  OBVIOUS
<1>4. /\ o \in Nat /\ c # NoFile /\ (Engaged(Peer(n)) => h[Peer(n)].recv = c)
      /\ snd[c].status = "refused" => rcv[c].status \in Asked
      /\ snd[c].status = "skipped" => rcv[c].status = "skipped" \/ ~snd[c].there
  BY <1>0, <1>2, <1>3, SendingFacts DEF Sending
<1>5. Real[c] \in Nat /\ LongMod \in Nat /\ 2 * Real[c] < LongMod
  BY <1>0, Constants
<1>6. k \in Nat /\ o + k <= Real[c] /\ 2 * (o + k) < LongMod /\ o < LongMod /\ 2 * o < LongMod
  BY <1>1, <1>3, <1>4, <1>5
<1>7. Snds(c, snd[c].status, eof, o + k, snd[c].there)
  <2>1. snd' = [snd EXCEPT ![c].pos = @ + k, ![c].eof = eof]
    BY <1>1
  <2>2. Snds(c, snd[c].status, eof, snd[c].pos + k, snd[c].there)
    BY <1>0, <1>6, <2>1, SndPut DEF Status
  <2> QED BY <1>3, <2>2
<1>8. Proceeds(n, c, snd[c].status, eof, o + k, snd[c].there, c)
  BY <1>2, <1>4, <1>6, <1>7 DEF Proceeds
<1>9. TxLines(n, 0, {Block(c, o, k)}) /\ HTx(n, t, c, h[n].eob)
  BY <1>1, <1>3
<1>10. Forwards(n, 0, {Block(c, o, k)}, t, c)
  BY <1>0, <1>2, <1>4, <1>9, NothingPends DEF Forwards, TxFile, Sending, Busy
<1>11. ASSUME NEW m, m = Block(c, o, k) PROVE m.type \in Forward /\ Fore(n, m)'
  <2>1. m.type = "DATA" /\ m.file = c /\ m.offs = putlong(o) /\ m.len = k
    BY <1>11 DEF Block, Pkt
  <2>2. m.offs = o
    BY <1>4, <1>6, <2>1, Positions, Longs, Wide DEF TypeOK
  <2>3. Engaged(Peer(n))' <=> Engaged(Peer(n))
    BY <1>1 DEF HTx, Engaged, Running
  <2>4. h'[Peer(n)] = h[Peer(n)]
    BY <1>1 DEF HTx
  <2> QED BY <1>4, <1>6, <2>1, <2>2, <2>3, <2>4 DEF Fore, Forward
<1>12. \A m \in {Block(c, o, k)} : m.type \in Forward /\ Fore(n, m)'
  BY <1>11
<1>13. PICK S, s, p, there : S = {Block(c, o, k)} /\ s = snd[c].status /\ p = o + k /\ there = snd[c].there
  OBVIOUS
<1>14. /\ Proceeds(n, c, s, eof, p, there, c) /\ Forwards(n, 0, S, t, c)
       /\ \A m \in S : m.type \in Forward /\ Fore(n, m)'
  BY <1>8, <1>10, <1>12, <1>13
<1> QED BY <1>0, <1>14, WithinAhead

LEMMA ReadAhead ==
  ASSUME TypeOK, NEW n \in Node, Tidy(n), Receives(Peer(n)), Direction(n), "late" \notin sess.faults,
         SendNoData(n) \/ ReadVanished(n)
  PROVE  Direction(n)'
<1> PICK c : c = h[n].cur
  OBVIOUS
<1>0. c \in Mine(n) /\ c \in File /\ Running(n)
  BY InFileCurrent DEF InFile
<1>1. PICK s, e, o, there :
        /\ Snds(c, s, e, o, there) /\ o = snd[c].pos
        /\ (s = snd[c].status /\ there = snd[c].there) \/ (s = "skipped" /\ there = FALSE)
  <2>1. CASE SendNoData(n)
    <3>1. snd' = [snd EXCEPT ![c].eof = TRUE]
      BY <2>1, SendNoDataIs
    <3>2. Snds(c, snd[c].status, TRUE, snd[c].pos, snd[c].there)
      BY <1>0, <3>1, SndPut DEF Status
    <3> QED BY <3>2
  <2>2. CASE ReadVanished(n)
    <3>1. snd' = [snd EXCEPT ![c].status = "skipped", ![c].eof = FALSE, ![c].there = FALSE]
      BY <2>2, ReadVanishedIs
    <3> QED BY <1>0, <3>1, SndPut DEF Status
  <2> QED BY <2>1, <2>2
<1>2. /\ h[n].tx = "DATA" /\ queue' = queue /\ gone' = gone
      /\ HTx(n, "EOF", c, h[n].eob) /\ TxLines(n, 0, {})
  BY SendNoDataIs, ReadVanishedIs
<1>3. /\ Engaged(Peer(n)) => h[Peer(n)].recv = c
      /\ ~sess.wide => 2 * snd[c].pos < LongMod
      /\ snd[c].status = "refused" => rcv[c].status \in Asked
      /\ snd[c].status = "skipped" => rcv[c].status = "skipped" \/ ~snd[c].there
  BY <1>0, <1>2, SendingFacts DEF Sending
<1>4. Proceeds(n, c, s, e, o, there, c)
  BY <1>1, <1>2, <1>3 DEF Proceeds
<1>5. Forwards(n, 0, {}, "EOF", c)
  BY <1>0, <1>2, <1>3, NothingPends DEF Forwards, TxFile, Sending, Busy
<1>6. PICK S : S = {}
  OBVIOUS
<1>7. Forwards(n, 0, S, "EOF", c) /\ \A m \in S : m.type \in Forward /\ Fore(n, m)'
  BY <1>5, <1>6
<1> QED BY <1>0, <1>4, <1>7, WithinAhead

\* The answer at hand is as it was when it was sent.
LEMMA AnswerFacts ==
  ASSUME TypeOK, NEW n \in Node, Tidy(n), Direction(n), chan[n] # << >>, NEW c \in Mine(n), c = h[n].cur
  PROVE  /\ chan[n][1].type = "FINFOACK" =>
              /\ Arg(n) = -1 => rcv[c].status = "skipped"
              /\ Arg(n) < 0 => ~Engaged(Peer(n))
         /\ chan[n][1].type = "RPOS" /\ h[n].tx \in Sending =>
              /\ Arg(n) < 0 => rcv[c].status \in Asked
              /\ Arg(n) = -1 => rcv[c].status = "skipped"
         /\ chan[n][1].type = "EOFACK" /\ h[n].tx \in Sending =>
              /\ c \in inbound \/ rcv[c].status \in Asked
              /\ ~Engaged(Peer(n))
<1>1. 1 \in DOMAIN chan[n]
  BY FirstPacket
<1>2. Arg(n) = Off(chan[n][1])
  BY DEF Arg, Off
<1>3. chan[n][1].type = "RPOS" /\ h[n].tx \in Sending => Heeded(n, 1)
  BY DEF Heeded
<1>4. (chan[n][1].type = "RPOS" => h[n].tx \in Sending) => Backs(n, chan[n][1])
  BY <1>1, <1>3 DEF Direction
<1> QED BY <1>2, <1>4 DEF Backs

LEMMA FinfoAckAhead ==
  ASSUME TypeOK, NEW n \in Node, Tidy(n), Receives(Peer(n)), Direction(n), "late" \notin sess.faults,
         RecvFinfoAck(n) \/ RecvFinfoNak(n)
  PROVE  Direction(n)'
<1> PICK c : c = h[n].cur
  OBVIOUS
<1>0. c \in Mine(n) /\ c \in File /\ Running(n)
  BY InFileCurrent DEF InFile
<1>1. /\ h[n].tx = "FINFOACK" /\ ~h[n].eob /\ chan[n] # << >> /\ chan[n][1].type = "FINFOACK"
  BY RecvFinfoAckIs, RecvFinfoNakIs
<1>2. 1 \in DOMAIN chan[n]
  BY <1>1, FirstPacket
<1>3. \A i \in DOMAIN chan[n] : i > 1 => chan[n][i].type # "FINFOACK"
  BY <1>1, <1>2 DEF Direction, Ordered
<1>4. /\ c # NoFile /\ snd[c].pos \in Nat /\ snd[c].status = "process"
      /\ Engaged(Peer(n)) => h[Peer(n)].recv = c
      /\ ~sess.wide => 2 * snd[c].pos < LongMod
  BY <1>0, <1>1, SendingFacts DEF Tidy
<1>5. PICK S : S = {}
  OBVIOUS
<1>6. \A m \in S : m.type \in Forward /\ Fore(n, m)'
  BY <1>5
<1>7. CASE RecvFinfoAck(n)
  <2>1. PICK k : k = Arg(n)
    OBVIOUS
  <2>2. /\ k >= 0 /\ UNCHANGED <<queue, gone>> /\ snd' = [snd EXCEPT ![c].pos = k]
        /\ HTx(n, "DATA", c, h[n].eob) /\ TxLines(n, 1, {})
    BY <1>7, <2>1, RecvFinfoAckIs
  <2>3. k \in Nat /\ (~sess.wide => 2 * k < LongMod)
    BY <1>1, <2>1, <2>2, ArgIs
  <2>4. Snds(c, snd[c].status, snd[c].eof, k, snd[c].there)
    BY <1>0, <2>2, <2>3, SndPut DEF Status
  <2>5. PICK s, e, there : s = "process" /\ e = snd[c].eof /\ there = snd[c].there
    OBVIOUS
  <2>6. Proceeds(n, c, s, e, k, there, c)
    BY <1>4, <2>2, <2>3, <2>4, <2>5 DEF Proceeds
  <2>7. Forwards(n, 1, S, "DATA", c)
    BY <1>0, <1>1, <1>3, <1>4, <1>5, <1>7, <2>2, NothingPends DEF Forwards, TxFile, Busy
  <2> QED BY <1>0, <1>6, <2>6, <2>7, WithinAhead
<1>8. CASE RecvFinfoNak(n)
  <2>1. PICK s \in Asked : s = IF Arg(n) = -1 THEN "skipped" ELSE "refused"
    BY DEF Asked
  <2>2. /\ queue' = queue /\ snd' = Fclosed(c, s) /\ gone' = GoneWith(c, s) /\ Arg(n) < 0
        /\ HTx(n, "NextFile", NoFile, h[n].eob) /\ TxLines(n, 1, {})
    BY <1>8, <2>1, RecvFinfoNakIs
  <2>3. PICK e, o, there : e = snd[c].eof /\ o = snd[c].pos /\ there = snd[c].there
    OBVIOUS
  <2>4. Snds(c, s, e, o, there)
    BY <1>0, <2>2, <2>3, SndPut DEF Status, Asked
  <2>5. /\ Arg(n) = -1 => rcv[c].status = "skipped"
        /\ ~Engaged(Peer(n))
    BY <1>0, <1>1, <2>2, AnswerFacts
  <2>6. s = "skipped" => rcv[c].status = "skipped"
    BY <2>1, <2>5
  <2>7. \A i \in DOMAIN chan[Peer(n)] : chan[Peer(n)][i].type # "FINFO"
    BY <1>8, NothingPends DEF TxFile
  <2>8. Forwards(n, 1, S, "NextFile", NoFile)
    BY <1>3, <1>5, <2>2, <2>5, <2>7 DEF Forwards, Sending
  <2>9. gone' \in {gone, gone \cup {c}} /\ (gone' # gone => s = "skipped")
    BY <2>1, <2>2 DEF GoneWith, Stored
  <2>10. CASE s = "skipped"
    <3>1. Proceeds(n, c, s, e, o, there, NoFile)
      BY <1>4, <2>2, <2>3, <2>4, <2>6, <2>9, <2>10 DEF Proceeds
    <3> QED BY <1>0, <1>6, <2>8, <3>1, WithinAhead
  <2>11. CASE s = "refused"
    \* The sender gives up the file: what its record says matters no more.
    <3>1. gone' = gone
      BY <2>9, <2>11
    <3>2. Past(n)'
      <4>1. c \notin gone'
        BY <1>0, <3>1 DEF Direction, Past
      <4> QED BY <1>0, <2>2, <2>4, <3>1, <4>1, PastWithin DEF TxLines, HTx, Snds
    <3>3. Sizes(n)'
      BY <1>0, <1>4, <2>2, <2>3, <2>4, SizesWithin DEF TxLines, Snds
    <3> QED BY <1>6, <2>8, <3>2, <3>3, Ahead DEF Sending
  <2> QED BY <2>10, <2>11 DEF Asked
<1> QED BY <1>7, <1>8

LEMMA RposAhead ==
  ASSUME TypeOK, NEW n \in Node, Tidy(n), Receives(Peer(n)), Direction(n), "late" \notin sess.faults,
         RecvRpos(n) \/ RecvRposSkip(n)
  PROVE  Direction(n)'
<1> PICK c : c = h[n].cur
  OBVIOUS
<1>0. c \in Mine(n) /\ c \in File /\ Running(n)
  BY InFileCurrent DEF InFile
<1>1. /\ h[n].tx \in Sending /\ chan[n] # << >> /\ chan[n][1].type = "RPOS" /\ UNCHANGED <<queue, gone>>
      /\ TxLines(n, 1, {})
  BY RecvRposIs, RecvRposSkipIs
<1>2. /\ c # NoFile /\ snd[c].pos \in Nat
      /\ Engaged(Peer(n)) => h[Peer(n)].recv = c
      /\ ~sess.wide => 2 * snd[c].pos < LongMod
      /\ snd[c].status = "refused" => rcv[c].status \in Asked
      /\ snd[c].status = "skipped" => rcv[c].status = "skipped" \/ ~snd[c].there
  BY <1>0, <1>1, SendingFacts
<1>3. \A i \in DOMAIN chan[n] : i > 1 => chan[n][i].type # "FINFOACK"
  BY <1>1 DEF Direction, Backs, Sending
<1>4. PICK S : S = {}
  OBVIOUS
<1>5. \A m \in S : m.type \in Forward /\ Fore(n, m)'
  BY <1>4
<1>6. \A i \in DOMAIN chan[Peer(n)] : chan[Peer(n)][i].type # "FINFO"
  BY NothingPends DEF TxFile
<1>7. CASE RecvRpos(n)
  <2>1. PICK k : k = Arg(n)
    OBVIOUS
  <2>2. /\ k >= 0 /\ snd' = [snd EXCEPT ![c].eof = FALSE, ![c].pos = k] /\ HTx(n, "DATA", c, h[n].eob)
    BY <1>7, <2>1, RecvRposIs
  <2>3. k \in Nat /\ (~sess.wide => 2 * k < LongMod)
    BY <1>1, <2>1, <2>2, ArgIs
  <2>4. Snds(c, snd[c].status, FALSE, k, snd[c].there)
    BY <1>0, <2>2, <2>3, SndPut DEF Status
  <2>5. PICK s, e, there : s = snd[c].status /\ e = FALSE /\ there = snd[c].there
    OBVIOUS
  <2>6. Proceeds(n, c, s, e, k, there, c)
    BY <1>1, <1>2, <2>3, <2>4, <2>5 DEF Proceeds
  <2>7. Forwards(n, 1, S, "DATA", c)
    BY <1>0, <1>1, <1>2, <1>3, <1>4, <1>6, <2>2 DEF Forwards, Busy
  <2> QED BY <1>0, <1>5, <2>6, <2>7, WithinAhead
<1>8. CASE RecvRposSkip(n)
  <2>1. PICK s \in Asked : s = IF Arg(n) = -1 THEN "skipped" ELSE "refused"
    BY DEF Asked
  <2>2. snd' = [snd EXCEPT ![c].status = s] /\ Arg(n) < 0 /\ HTx(n, "EOF", c, h[n].eob)
    BY <1>8, <2>1, RecvRposSkipIs
  <2>3. PICK e, o, there : e = snd[c].eof /\ o = snd[c].pos /\ there = snd[c].there
    OBVIOUS
  <2>4. Snds(c, s, e, o, there)
    BY <1>0, <2>2, <2>3, SndPut DEF Status, Asked
  <2>5. /\ rcv[c].status \in Asked
        /\ s = "skipped" => rcv[c].status = "skipped"
    BY <1>0, <1>1, <2>1, <2>2, AnswerFacts
  <2>6. Proceeds(n, c, s, e, o, there, c)
    BY <1>1, <1>2, <2>3, <2>4, <2>5 DEF Proceeds
  <2>7. Forwards(n, 1, S, "EOF", c)
    BY <1>0, <1>1, <1>2, <1>3, <1>4, <1>6, <2>2 DEF Forwards, Busy
  <2> QED BY <1>0, <1>5, <2>6, <2>7, WithinAhead
<1> QED BY <1>7, <1>8

\* The sender gives up a file when the receiver has it or has turned it away.
LEMMA EofAckAhead ==
  ASSUME TypeOK, NEW n \in Node, Tidy(n), Receives(Peer(n)), Direction(n), "late" \notin sess.faults,
         RecvEofAck(n)
  PROVE  Direction(n)'
<1> PICK c : c = h[n].cur
  OBVIOUS
<1>0. c \in Mine(n) /\ c \in File /\ Running(n)
  BY InFileCurrent DEF InFile
<1>1. PICK s : s = EofAckStatus(c)
  OBVIOUS
<1>2. /\ h[n].tx \in Sending /\ chan[n] # << >> /\ chan[n][1].type = "EOFACK" /\ queue' = queue
      /\ snd' = Fclosed(c, s) /\ gone' = GoneWith(c, s)
      /\ HTx(n, "NextFile", NoFile, h[n].eob) /\ TxLines(n, 1, {}) /\ h[n].tx \in {"EOF", "EOFACK"}
  BY <1>1, RecvEofAckIs DEF Sending
<1>3. /\ snd[c].pos \in Nat
      /\ ~sess.wide => 2 * snd[c].pos < LongMod
      /\ snd[c].status \in {"process"} \cup Asked
      /\ snd[c].status = "refused" => rcv[c].status \in Asked
      /\ snd[c].status = "skipped" => rcv[c].status = "skipped" \/ ~snd[c].there
  BY <1>0, <1>2, SendingFacts
<1>4. /\ c \in inbound \/ rcv[c].status \in Asked
      /\ ~Engaged(Peer(n))
  BY <1>0, <1>2, AnswerFacts
<1>5. \A i \in DOMAIN chan[n] : i > 1 => chan[n][i].type # "FINFOACK"
  BY <1>2 DEF Direction, Backs, Sending
<1>6. PICK e, o, there : e = snd[c].eof /\ o = snd[c].pos /\ there = snd[c].there
  OBVIOUS
<1>7. s = (IF e THEN "success" ELSE snd[c].status)
  BY <1>1, <1>6 DEF EofAckStatus
<1>8. Snds(c, s, e, o, there)
  <2>1. s \in Status
    BY <1>3, <1>7 DEF Status, Asked
  <2> QED BY <1>0, <1>2, <1>3, <1>6, <2>1, SndPut
<1>9. gone' \in {gone, gone \cup {c}} /\ (gone' # gone => s \in Stored)
  BY <1>2 DEF GoneWith
<1>10. gone' # gone => c \in inbound \/ rcv[c].status = "skipped" \/ ~there \/ (rcv[c].status = "refused" /\ e)
  <2>1. CASE e
    BY <1>4, <2>1 DEF Asked
  <2>2. CASE ~e
    BY <1>3, <1>6, <1>7, <1>9, <2>2 DEF Stored, Asked
  <2> QED BY <2>1, <2>2
<1>11. Proceeds(n, c, s, e, o, there, NoFile)
  <2>1. s \in {"success", "process"} \cup Asked /\ (s \in Asked => s = snd[c].status)
    BY <1>3, <1>7 DEF Asked
  <2> QED BY <1>2, <1>3, <1>6, <1>8, <1>9, <1>10, <2>1 DEF Proceeds, Asked
<1>12. \A i \in DOMAIN chan[Peer(n)] : chan[Peer(n)][i].type # "FINFO"
  BY NothingPends DEF TxFile
<1>13. PICK S : S = {}
  OBVIOUS
<1>14. \A m \in S : m.type \in Forward /\ Fore(n, m)'
  BY <1>13
<1>15. Forwards(n, 1, S, "NextFile", NoFile)
  BY <1>2, <1>4, <1>5, <1>12, <1>13 DEF Forwards, Sending
<1> QED BY <1>0, <1>11, <1>14, <1>15, WithinAhead

LEMMA TxFileAhead ==
  ASSUME TypeOK, NEW n \in Node, Tidy(n), Receives(Peer(n)), Direction(n), "late" \notin sess.faults,
         TxFile(n)
  PROVE  Direction(n)'
<1>1. CASE OpenNext(n) \/ EndBatch(n) \/ SendFinfo(n)
  BY <1>1, NextAhead, FinfoAhead
<1>2. CASE \/ SendEof(n) \/ (SendTimer(n) /\ h[n].tx \in {"FINFOACK", "EOFACK"})
           \/ (RecvEobAck(n) /\ h[n].tx = "FINFOACK")
  BY <1>2, EofAhead, WaitAhead
<1>3. CASE SendData(n) \/ SendNoData(n) \/ ReadVanished(n)
  BY <1>3, DataAhead, ReadAhead
<1>4. CASE RecvFinfoAck(n) \/ RecvFinfoNak(n) \/ RecvRpos(n) \/ RecvRposSkip(n) \/ RecvEofAck(n)
  BY <1>4, FinfoAckAhead, RposAhead, EofAckAhead
<1> QED BY <1>1, <1>2, <1>3, <1>4 DEF TxFile

\* A step of the receiver of p's files that revokes nothing,
Steady(p, v) ==
  /\ \A f \in Mine(p) : /\ rcv[f].status \in Asked => rcv'[f].status = rcv[f].status
                        /\ f \in inbound => f \in inbound'
  /\ Engaged(Peer(p))' => Engaged(Peer(p)) /\ v = h[Peer(p)].recv

\* and one that begins with another file.
Begins(p, k, v) ==
  /\ \A i \in DOMAIN chan[Peer(p)] : i > k => chan[Peer(p)][i].type \notin Forward
  /\ Running(p) => /\ h[p].tx = "FINFOACK" /\ ~Answered(p)
                   /\ Engaged(Peer(p))' => v = h[p].cur
  /\ \A f \in Mine(p) : f \in gone => rcv'[f].status = rcv[f].status /\ (f \in inbound => f \in inbound')

LEMMA Behind ==
  ASSUME TypeOK, NEW p \in Node, Tidy(p), Receives(Peer(p)), Direction(p),
         NEW k \in {0, 1}, NEW S, RxLines(Peer(p), k, S), NEW x, NEW v, HRx(Peer(p), x, v),
         Steady(p, v) \/ Begins(p, k, v),
         \A m \in S : m.type \in Backward,
         Running(p) => \A m \in S :
           /\ Backs(p, m)' /\ (m.type \in {"FINFOACK", "EOFACK"} => ~Answered(p))
           /\ m.type = "FINFOACK" => \A i \in DOMAIN chan[Peer(p)] : i > k => chan[Peer(p)][i].type \notin Forward,
         RcvOk(Peer(p))', Sizes(p)'
  PROVE  Direction(p)'
<1> DEFINE q == Peer(p)
<1>0. q \in Node /\ Peer(q) = p /\ Mine(p) \subseteq File /\ NoFile \notin Mine(p)
  BY Nodes, Owners
<1>1. /\ LinesOk' /\ Passed(q, k, {}) /\ Passed(p, 0, S) /\ sess' = sess /\ UNCHANGED <<queue, snd, gone>>
      /\ Running(q) /\ (k = 1 => chan[q] # << >>)
      /\ h'[p] = h[p] /\ h'[q].recv = v /\ h'[q].rx = x
  BY <1>0 DEF RxLines, HRx
<1>2. Running(p)' <=> Running(p)
  BY <1>1 DEF Running
<1>3. /\ h[p].cur \in Mine(p) \cup {NoFile}
      /\ Running(p) /\ h[p].tx \in Sending => h[p].cur \in Mine(p)
  BY LocalFacts DEF Tidy
<1>4. Linked(p)'
  <2>1. CASE Steady(p, v)
    BY <1>1, <1>2, <1>3, <2>1 DEF Linked, Direction, Steady, Asked
  <2>2. CASE Begins(p, k, v)
    BY <1>1, <1>2, <2>2 DEF Linked, Begins, Sending, Busy
  <2> QED BY <2>1, <2>2
<1>5. Ordered(q, {"FINFO"}, Forward)'
  BY <1>0, <1>1, OrderedKept DEF Direction, Idle, Forward
<1>6. Ordered(p, {"FINFOACK"}, {"FINFOACK", "EOFACK"})'
  <2>1. CASE \A m \in S : m.type \notin {"FINFOACK", "EOFACK"}
    BY <1>1, <2>1, OrderedKept DEF Direction, Idle
  <2>2. CASE \E m \in S : m.type \in {"FINFOACK", "EOFACK"}
    <3>1. \A i \in DOMAIN chan[p] : i > 0 => chan[p][i].type \notin {"FINFOACK"}
      BY <2>2, Items DEF Answered
    <3> QED BY <1>1, <3>1, OrderedKept DEF Direction, Idle
  <2> QED BY <2>1, <2>2
<1>7. Answered(p)' => Answered(p) \/ (Running(p) /\ \E m \in S : m.type = "FINFOACK")
  <2>1. SUFFICES ASSUME Answered(p)' PROVE Answered(p) \/ (Running(p) /\ \E m \in S : m.type = "FINFOACK")
    OBVIOUS
  <2>2. PICK i \in DOMAIN chan'[p] : chan'[p][i].type = "FINFOACK"
    BY <2>1 DEF Answered
  <2>3. CASE i + 0 \in DOMAIN chan[p] /\ chan'[p][i] = chan[p][i + 0]
    BY <2>2, <2>3 DEF Answered
  <2>4. CASE chan'[p][i] \in S /\ Running(p)
    BY <2>2, <2>4
  <2> QED BY <1>1, <2>2, <2>3, <2>4, ItemIs DEF Idle
<1>8. ASSUME NEW i \in DOMAIN chan'[q], NEW m, m = chan'[q][i] PROVE Fore(p, m)'
  <2>1. CASE i + k \in DOMAIN chan[q] /\ m = chan[q][i + k] /\ i + k > k /\ m.type \in Forward
    <3>1. Fore(p, m) /\ (m.type \in {"DATA", "EOF"} => m.file \in Mine(p))
      BY <1>0, <2>1, Items DEF Direction
    <3>2. Steady(p, v)
      BY <2>1 DEF Begins
    <3>3. Off(m)' = Off(m)
      BY <1>1, OffSame
    <3>4. Running(p) /\ ~Answered(p) => ~Answered(p)'
      BY <1>7, <2>1
    <3> QED BY <1>1, <1>2, <3>1, <3>2, <3>3, <3>4 DEF Fore, Steady, Asked
  <2>2. CASE m.type \notin Forward
    BY <2>2 DEF Forward, Fore
  <2>3. m.type \in Idle => m.type \notin Forward
    BY DEF Idle, Forward
  <2> QED BY <1>0, <1>1, <1>8, <2>1, <2>2, <2>3, ItemIs
<1>9. ASSUME NEW i \in DOMAIN chan'[p], NEW m, m = chan'[p][i], m.type = "RPOS" => Heeded(p, i)'
      PROVE  Backs(p, m)'
  <2>1. CASE i + 0 \in DOMAIN chan[p] /\ m = chan[p][i + 0] /\ m.type \in Backward
    <3>1. m.type = "RPOS" => Heeded(p, i + 0)
      <4>1. SUFFICES ASSUME Heeded(p, i)' PROVE Heeded(p, i + 0)
        BY <1>9
      <4>2. h'[p].tx \in Sending \/ Heeded(p, i + 0)
        BY <1>1, <2>1, <4>1, HeededKept
      <4> QED BY <1>1, <4>2 DEF Heeded
    <3>2. Backs(p, m) /\ Running(p)
      BY <2>1, <3>1, Items DEF Direction
    <3>3. Off(m)' = Off(m)
      BY <1>1, OffSame
    <3>4. CASE Steady(p, v)
      <4>1. m.type = "FINFOACK" => Backs(p, m)'
        BY <1>1, <1>3, <3>2, <3>3, <3>4 DEF Backs, Steady, Asked
      <4>2. m.type = "RPOS" => Backs(p, m)'
        BY <1>1, <1>3, <3>2, <3>3, <3>4 DEF Backs, Steady, Asked
      <4>3. m.type = "EOFACK" => Backs(p, m)'
        BY <1>1, <1>3, <3>2, <3>4 DEF Backs, Steady, Asked
      <4> QED BY <2>1, <4>1, <4>2, <4>3 DEF Backward
    <3>5. CASE Begins(p, k, v)
      <4>1. h[p].tx = "FINFOACK" /\ ~Answered(p)
        BY <3>2, <3>5 DEF Begins
      <4>2. m.type # "FINFOACK"
        BY <2>1, <4>1 DEF Answered
      <4>3. m.type # "RPOS"
        BY <3>1, <4>1 DEF Heeded, Answered, Sending
      <4> QED BY <1>1, <4>1, <4>2, <4>3 DEF Backs, Sending
    <3> QED BY <3>4, <3>5
  <2>2. CASE m.type \notin Backward
    BY <2>2 DEF Backward, Backs
  <2>3. CASE m \in S /\ Running(p)
    BY <2>3
  <2>4. m.type \in Idle => m.type \notin Backward
    BY DEF Idle, Backward
  <2> QED BY <1>1, <1>9, <2>1, <2>2, <2>3, <2>4, ItemIs
<1>10. Past(p)'
  <2>1. SUFFICES ASSUME NEW f \in Mine(p), f \in gone
                 PROVE  /\ Settled(f)' \/ (rcv'[f].status = "refused" /\ snd'[f].eof)
                        /\ Running(p)' => f # h'[p].cur
                        /\ \A i \in DOMAIN queue'[p] : queue'[p][i] # f
    BY <1>1, MineSame DEF Past
  <2>2. /\ rcv[f].status \in Asked => rcv'[f].status = rcv[f].status
        /\ f \in inbound => f \in inbound'
    BY <2>1 DEF Steady, Begins
  <2> QED BY <1>1, <1>2, <2>1, <2>2 DEF Direction, Past, Settled, Asked
<1>11. (\A i \in DOMAIN chan[Peer(p)] : Fore(p, chan[Peer(p)][i]))'
  BY <1>8, ForeAll
<1>12. (\A i \in DOMAIN chan[p] : (chan[p][i].type = "RPOS" => Heeded(p, i)) => Backs(p, chan[p][i]))'
  BY <1>9, BacksAll
<1> QED BY <1>4, <1>5, <1>6, <1>10, <1>11, <1>12 DEF Direction

\* The packet the receiver takes.
LEMMA Heard ==
  ASSUME TypeOK, NEW p \in Node, Direction(p), chan[Peer(p)] # << >>,
         NEW m, m = chan[Peer(p)][1]
  PROVE  /\ Fore(p, m) /\ Arg(Peer(p)) = Off(m)
         /\ m.type = "FINFO" => \A i \in DOMAIN chan[Peer(p)] : i > 1 => chan[Peer(p)][i].type \notin Forward
         /\ m.type \in {"DATA", "EOF"} => m.file \in Mine(p)
<1>1. Peer(p) \in Node /\ Peer(Peer(p)) = p
  BY Nodes
<1>2. 1 \in DOMAIN chan[Peer(p)]
  BY <1>1, FirstPacket
<1>3. m.type = "FINFO" => \A i \in DOMAIN chan[Peer(p)] : i > 1 => chan[Peer(p)][i].type \notin Forward
  BY <1>2 DEF Direction, Ordered
<1>4. m.type \in {"DATA", "EOF"} => m.file \in Mine(p)
  BY <1>1, <1>2, Items
<1> QED BY <1>2, <1>3, <1>4 DEF Direction, Off, Arg

LEMMA SizesReceived ==
  ASSUME TypeOK, NEW p \in Node, Direction(p), sess' = sess, snd' = snd,
         \A f \in Mine(p) : /\ rcv'[f].good /\ 2 * rcv'[f].bytes < LongMod
                            /\ f \in inbound' => rcv'[f].bytes = Size[f]
  PROVE  Sizes(p)'
BY MineSame DEF Sizes, Direction

LEMMA SizesSame ==
  ASSUME TypeOK, NEW p \in Node, Direction(p), sess' = sess, snd' = snd, inbound' = inbound,
         \A f \in Mine(p) : rcv'[f].good = rcv[f].good /\ rcv'[f].bytes = rcv[f].bytes
  PROVE  Sizes(p)'
BY MineSame DEF Sizes, Direction

\* The file that is received is the one that is sent.
LEMMA Reception ==
  ASSUME TypeOK, NEW p \in Node, Receives(Peer(p)), Direction(p), Running(Peer(p)),
         h[Peer(p)].rx \in Taking \cup Turning
  PROVE  /\ Engaged(Peer(p)) /\ h[Peer(p)].recv \in Mine(p) /\ h[Peer(p)].recv \in File
         /\ Running(p) => h[p].cur = h[Peer(p)].recv /\ h[p].cur # NoFile
         /\ 2 * rcv[h[Peer(p)].recv].bytes < LongMod /\ rcv[h[Peer(p)].recv].bytes \in Nat
<1>1. Peer(p) \in Node /\ Peer(Peer(p)) = p
  BY Nodes
<1>2. h[Peer(p)].recv \in Mine(p) /\ h[Peer(p)].recv \in File /\ h[Peer(p)].recv # NoFile
  BY <1>1, RecvIs
<1>3. Engaged(Peer(p))
  BY DEF Engaged
<1>4. rcv[h[Peer(p)].recv].bytes \in Nat
  BY <1>2 DEF TypeOK, FilesOk, Rinfo
<1> QED BY <1>2, <1>3, <1>4 DEF Direction, Linked, Sizes

LEMMA RposBehind ==
  ASSUME TypeOK, NEW p \in Node, Tidy(p), Receives(Peer(p)), Direction(p), SendRpos(Peer(p))
  PROVE  Direction(p)'
<1> DEFINE q == Peer(p)
<1>0. q \in Node /\ Peer(q) = p
  BY Nodes
<1> PICK c, x : c = h[q].recv /\ x = IF h[q].rx = "RPOS" THEN "RPosAck" ELSE "SkipAck"
  OBVIOUS
<1>1. h[q].rx \in Taking \cup Turning /\ Running(q) /\ h[q].rx \in {"RPOS", "Skip"}
  BY DEF SendRpos, Taking, Turning
<1>2. /\ Engaged(q) /\ c \in Mine(p) /\ c \in File /\ 2 * rcv[c].bytes < LongMod /\ rcv[c].bytes \in Nat
      /\ Running(p) => h[p].cur = c /\ c # NoFile
  BY <1>1, Reception
<1>3. c # NoFile
  BY <1>2, Constants
<1>4. /\ UNCHANGED <<rcv, inbound>> /\ HRx(q, x, c)
      /\ \E m \in Packets(q) : /\ m.type = "RPOS" /\ m.offs = putlong(Asking(q)) /\ RxLines(q, 0, {m})
  BY <1>0, <1>3, SendRposIs
<1>5. PICK m \in Packets(q) : m.type = "RPOS" /\ m.offs = putlong(Asking(q)) /\ RxLines(q, 0, {m})
  BY <1>4
<1>6. /\ h'[p] = h[p] /\ h'[q].rx = x /\ h'[q].recv = c /\ sess' = sess /\ snd' = snd
      /\ Running(p)' <=> Running(p)
  BY <1>0, <1>4, <1>5 DEF HRx, RxLines, Running
<1>7. Steady(p, c)
  BY <1>2, <1>4, <1>6 DEF Steady
<1>8. rcv[c].status \in Asked \/ h[q].rx = "RPOS"
  BY <1>1 DEF Direction, RcvOk, Turning
<1>9. Off(m) < 0 => rcv[c].status \in Asked
  <2>1. CASE h[q].rx = "RPOS"
    <3>1. Off(m) = rcv[c].bytes
      BY <1>2, <1>5, <2>1, Positions, Wide DEF Off, Asking, TypeOK
    <3> QED BY <1>2, <3>1
  <2> QED BY <1>8, <2>1
<1>10. Off(m) = -1 => rcv[c].status = "skipped"
  <2>1. CASE h[q].rx = "RPOS"
    <3>1. Off(m) = rcv[c].bytes
      BY <1>2, <1>5, <2>1, Positions, Wide DEF Off, Asking, TypeOK
    <3> QED BY <1>2, <3>1
  <2>2. CASE h[q].rx # "RPOS" /\ rcv[c].status # "skipped"
    <3>1. m.offs = putlong(-2)
      BY <1>5, <2>2 DEF Asking
    <3>2. Off(m) = IF sess.wide THEN LongMod - 2 ELSE -2
      BY <3>1, Positions, Wide DEF Off, TypeOK
    <3> QED BY <3>2, Constants
  <2> QED BY <2>1, <2>2
<1>11. Running(p) => Backs(p, m)'
  BY <1>2, <1>4, <1>5, <1>6, <1>9, <1>10, OffSame DEF Backs
<1>12. RcvOk(q)'
  BY <1>1, <1>2, <1>4, <1>6 DEF Direction, RcvOk, Taking, Turning, Engaged
<1>13. Sizes(p)'
  BY <1>4, <1>6, SizesSame
<1> QED BY <1>4, <1>5, <1>7, <1>11, <1>12, <1>13, Behind DEF Backward

LEMMA FopenedIs ==
  ASSUME TypeOK, NEW f \in File, NEW r \in {0, 1, 2}, rcv' = [rcv EXCEPT ![f] = Fopened(f, r)]
  PROVE  Rcvs(f, CASE r = 0 -> "process" [] r = 1 -> "refused" [] r = 2 -> "skipped",
              rcv[f].bytes, rcv[f].good)
<1>1. PICK s : s = CASE r = 0 -> "process" [] r = 1 -> "refused" [] r = 2 -> "skipped"
  OBVIOUS
<1>2. PICK b \in BOOLEAN : b = (r = 0)
  OBVIOUS
<1>3. s \in Status
  BY <1>1 DEF Status
<1>4. Fopened(f, r) = [rcv[f] EXCEPT !.open = b, !.status = s]
  BY <1>1, <1>2 DEF Fopened
<1> QED BY <1>1, <1>3, <1>4, RcvPut

\* The answer to a FINFO, in the receiver's state x.
LEMMA FinfoAnswered ==
  ASSUME TypeOK, NEW p \in Node, Tidy(p), Receives(Peer(p)), Direction(p),
         chan[Peer(p)] # << >>, chan[Peer(p)][1].type = "FINFO",
         NEW x, NEW v, HRx(Peer(p), x, v), NEW o \in Int, NEW a,
         RxLines(Peer(p), 1, {Pkt("FINFOACK", a, o)}),
         Running(p) =>
           /\ o = -1 => h[p].cur # NoFile /\ rcv'[h[p].cur].status = "skipped"
           /\ o < 0 \/ h[p].cur = NoFile => x \notin Taking \cup Turning
           /\ x \in Taking \cup Turning => v = h[p].cur,
         o >= 0 => 2 * o < LongMod, o >= -2,
         \A f \in Mine(p) : f \in gone => rcv'[f].status = rcv[f].status /\ (f \in inbound => f \in inbound'),
         RcvOk(Peer(p))', Sizes(p)'
  PROVE  Direction(p)'
<1> DEFINE q == Peer(p)
<1>0. q \in Node /\ Peer(q) = p
  BY Nodes
<1>1. PICK m : m = chan[q][1]
  OBVIOUS
<1>2. /\ Fore(p, m) /\ m.type = "FINFO"
      /\ \A i \in DOMAIN chan[q] : i > 1 => chan[q][i].type \notin Forward
  BY <1>1, Heard
<1>3. Running(p) => h[p].tx = "FINFOACK" /\ ~Answered(p)
  BY <1>2 DEF Fore
<1>4. h'[p] = h[p] /\ h'[q].rx = x /\ sess' = sess /\ (Running(p)' <=> Running(p))
  BY <1>0 DEF HRx, RxLines, Running
<1>5. Begins(p, 1, v)
  BY <1>2, <1>3, <1>4 DEF Begins, Engaged
<1>6. PICK b : b = Pkt("FINFOACK", a, o)
  OBVIOUS
<1>7. b.type = "FINFOACK" /\ b.offs = putlong(o)
  BY <1>6 DEF Pkt
<1>8. (Off(b) < 0 => o < 0) /\ (Off(b) = -1 => o = -1)
  <2>1. CASE o >= 0
    <3>1. o \in Nat /\ 2 * o < LongMod
      BY <2>1
    <3>2. Off(b) = o
      BY <1>7, <3>1, Positions, Wide DEF Off, TypeOK
    <3> QED BY <2>1, <3>2
  <2>2. CASE o = -2
    <3>1. Off(b) = IF sess.wide THEN LongMod - 2 ELSE -2
      BY <1>7, <2>2, Positions, Wide DEF Off, TypeOK
    <3> QED BY <2>2, <3>1, Constants
  <2> QED BY <2>1, <2>2
<1>9. Running(p) => Backs(p, b)'
  BY <1>3, <1>4, <1>7, <1>8, OffSame DEF Backs, Engaged
<1> QED BY <1>2, <1>3, <1>5, <1>6, <1>7, <1>9, Behind DEF Backward

LEMMA FinfoBehind ==
  ASSUME TypeOK, NEW p \in Node, Tidy(p), Receives(Peer(p)), Direction(p), RecvFinfo(Peer(p))
  PROVE  Direction(p)'
<1> DEFINE q == Peer(p)
<1>0. q \in Node /\ Peer(q) = p
  BY Nodes
<1> PICK f : f = chan[q][1].file
  OBVIOUS
<1>1. /\ chan[q] # << >> /\ Running(q) /\ chan[q][1].type = "FINFO" /\ f \in Mine(p) /\ f \in File /\ f # NoFile
      /\ inbound' = inbound /\ h[q].rx = "FINFO"
  BY <1>0, RecvFinfoIs, Owners DEF RecvFinfo, Takes
<1>2. PICK r \in {0, 1, 2} :
        /\ r = 0 => f \notin inbound
        /\ rcv' = [rcv EXCEPT ![f] = Fopened(f, r)]
        /\ HRx(q, IF r = 0 THEN "DATA" ELSE "FINFO", f)
        /\ RxLines(q, 1, {Pkt("FINFOACK", f, CASE r = 0 -> rcv[f].bytes [] r = 1 -> -2 [] r = 2 -> -1)})
  BY <1>0, RecvFinfoIs
<1>3. PICK x : x = IF r = 0 THEN "DATA" ELSE "FINFO"
  OBVIOUS
<1>4. PICK o : o = CASE r = 0 -> rcv[f].bytes [] r = 1 -> -2 [] r = 2 -> -1
  OBVIOUS
<1>5. PICK s : s = CASE r = 0 -> "process" [] r = 1 -> "refused" [] r = 2 -> "skipped"
  OBVIOUS
<1>6. Rcvs(f, s, rcv[f].bytes, rcv[f].good)
  BY <1>1, <1>2, <1>5, FopenedIs
<1>7. rcv[f].bytes \in Nat /\ 2 * rcv[f].bytes < LongMod
  BY <1>1 DEF TypeOK, FilesOk, Rinfo, Direction, Sizes
<1>8. HRx(q, x, f) /\ RxLines(q, 1, {Pkt("FINFOACK", f, o)})
  BY <1>2, <1>3, <1>4
<1>9. /\ o \in Int /\ (o >= 0 => 2 * o < LongMod) /\ o >= -2
      /\ (o < 0 => r # 0) /\ (o = -1 => s = "skipped")
  BY <1>4, <1>5, <1>7
<1>10. /\ f \notin gone
       /\ Running(p) => f = h[p].cur
  BY <1>1, Heard DEF Fore
<1>11. /\ rcv'[f].status = s /\ rcv'[f].bytes = rcv[f].bytes /\ rcv'[f].good = rcv[f].good
       /\ \A g \in Mine(p) : g # f => rcv'[g] = rcv[g]
  BY <1>0, <1>6, Owners DEF Rcvs
<1>12. x \in Taking \cup Turning => r = 0 /\ x = "DATA"
  BY <1>3 DEF Taking, Turning
<1>13. RcvOk(q)'
  <2>1. h'[q].rx = x /\ h'[q].recv = f
    BY <1>8 DEF HRx
  <2>2. r = 0 => s = "process"
    BY <1>5
  <2> QED BY <1>1, <1>2, <1>11, <1>12, <2>1, <2>2 DEF RcvOk, Turning
<1>14. Sizes(p)'
  <2>1. \A g \in Mine(p) : rcv'[g].good = rcv[g].good /\ rcv'[g].bytes = rcv[g].bytes
    BY <1>11
  <2> QED BY <1>1, <1>8, <2>1, SizesSame DEF RxLines
<1>15. \A g \in Mine(p) : g \in gone => rcv'[g].status = rcv[g].status /\ (g \in inbound => g \in inbound')
  BY <1>1, <1>10, <1>11
<1>16. Running(p) =>
           /\ o = -1 => h[p].cur # NoFile /\ rcv'[h[p].cur].status = "skipped"
           /\ o < 0 \/ h[p].cur = NoFile => x \notin Taking \cup Turning
           /\ x \in Taking \cup Turning => f = h[p].cur
  BY <1>1, <1>9, <1>10, <1>11, <1>12
<1> QED BY <1>1, <1>8, <1>9, <1>13, <1>14, <1>15, <1>16, FinfoAnswered

LEMMA EobBehind ==
  ASSUME TypeOK, NEW p \in Node, Tidy(p), Receives(Peer(p)), Direction(p),
         RecvEob(Peer(p)) \/ (RecvFinfoAgain(Peer(p)) /\ h[Peer(p)].rx = "DONE")
  PROVE  Direction(p)'
<1> DEFINE q == Peer(p)
<1>0. q \in Node /\ Peer(q) = p
  BY Nodes
<1>1. PICK o \in {0, -2} :
        /\ chan[q] # << >> /\ chan[q][1].type = "FINFO" /\ UNCHANGED <<rcv, inbound>>
        /\ HRx(q, "DONE", h[q].recv) /\ RxLines(q, 1, {Pkt("FINFOACK", NoFile, o)})
  <2>1. CASE RecvEob(q)
    <3>1. /\ chan[q] # << >> /\ chan[q][1].type = "FINFO" /\ UNCHANGED <<rcv, inbound>>
          /\ HRx(q, "DONE", h[q].recv) /\ RxLines(q, 1, {Pkt("FINFOACK", NoFile, 0)})
      BY <1>0, <2>1, RecvEobIs DEF RecvEob, Takes
    <3> QED BY <3>1
  <2>2. CASE RecvFinfoAgain(q) /\ h[q].rx = "DONE"
    <3>1. /\ chan[q] # << >> /\ chan[q][1].type = "FINFO" /\ UNCHANGED <<rcv, inbound>>
          /\ HRx(q, "DONE", h[q].recv) /\ RxLines(q, 1, {Pkt("FINFOACK", NoFile, -2)})
      BY <1>0, <2>2, RecvFinfoAgainIs DEF RecvFinfoAgain, Takes
    <3> QED BY <3>1
  <2> QED BY <2>1, <2>2
<1>2. "DONE" \notin Taking \cup Turning
  BY DEF Taking, Turning
<1>3. o \in Int /\ (o >= 0 => 2 * o < LongMod) /\ o >= -2 /\ o # -1
  BY Constants
<1>4. RcvOk(q)'
  BY <1>1, <1>2 DEF RcvOk, HRx
<1>5. Sizes(p)'
  BY <1>1, SizesSame DEF RxLines
<1> QED BY <1>1, <1>2, <1>3, <1>4, <1>5, FinfoAnswered

\* The block or the end of file that the receiver takes is about the file it receives.
LEMMA Heeds ==
  ASSUME TypeOK, NEW p \in Node, Tidy(p), Receives(Peer(p)), Direction(p), Running(Peer(p)),
         chan[Peer(p)] # << >>, chan[Peer(p)][1].type \in {"DATA", "EOF"}, h[Peer(p)].rx \in Taking
  PROVE  /\ chan[Peer(p)][1].file = h[Peer(p)].recv
         /\ rcv[h[Peer(p)].recv].status = "process" /\ h[Peer(p)].recv \notin inbound
         /\ h[Peer(p)].recv \in Mine(p) /\ h[Peer(p)].recv \in File
         /\ Running(p) => h[p].cur = h[Peer(p)].recv
<1>1. /\ Engaged(Peer(p)) /\ h[Peer(p)].recv \in Mine(p) /\ h[Peer(p)].recv \in File
      /\ Running(p) => h[p].cur = h[Peer(p)].recv
  BY Reception
<1>2. chan[Peer(p)][1].file = h[Peer(p)].recv
  BY <1>1, Heard DEF Fore
<1> QED BY <1>1, <1>2 DEF Direction, RcvOk

LEMMA DataBehind ==
  ASSUME TypeOK, NEW p \in Node, Tidy(p), Receives(Peer(p)), Direction(p), RecvData(Peer(p))
  PROVE  Direction(p)'
<1> DEFINE q == Peer(p)
<1>0. q \in Node /\ Peer(q) = p
  BY Nodes
<1> PICK f, m : f = h[q].recv /\ m = chan[q][1]
  OBVIOUS
<1>1. /\ h[q].rx \in Taking /\ m.type = "DATA" /\ inbound' = inbound /\ chan[q] # << >> /\ Running(q)
      /\ Arg(q) = rcv[f].bytes
      /\ rcv' = [rcv EXCEPT ![f].bytes = @ + m.len, ![f].good = @ /\ m.file = f /\ m.offs = rcv[f].bytes]
      /\ HRx(q, "DATA", f) /\ RxLines(q, 1, {})
  BY <1>0, RecvDataIs DEF RecvData, Takes
<1>2. /\ m.file = f /\ rcv[f].status = "process" /\ f \notin inbound /\ f \in Mine(p) /\ f \in File
  BY <1>1, Heeds
<1>3. rcv[f].bytes \in Nat /\ m.len \in Nat /\ rcv[f].good \in BOOLEAN
  BY <1>0, <1>1, <1>2, FirstPacket DEF TypeOK, FilesOk, Rinfo
<1>4. m.offs = rcv[f].bytes
  BY <1>0, <1>1, <1>3, ArgIs
<1>5. PICK g \in BOOLEAN : g = (m.file = f /\ m.offs = rcv[f].bytes)
  OBVIOUS
<1>6. rcv' = [rcv EXCEPT ![f].bytes = @ + m.len, ![f].good = @ /\ g]
  BY <1>1, <1>5
<1>7. Rcvs(f, rcv[f].status, rcv[f].bytes + m.len, rcv[f].good /\ g)
  BY <1>2, <1>3, <1>6, RcvPut DEF Status
<1>8. /\ rcv'[f].status = "process" /\ rcv'[f].bytes = rcv[f].bytes + m.len /\ rcv'[f].good = rcv[f].good
      /\ \A x \in Mine(p) : x # f => rcv'[x] = rcv[x]
  BY <1>0, <1>2, <1>3, <1>4, <1>5, <1>7, Owners DEF Rcvs
<1>9. rcv'[f].bytes <= Real[f]
  BY <1>1, <1>2, <1>4, <1>8, Heard DEF Fore
<1>10. 2 * rcv'[f].bytes < LongMod
  <2>1. Real[f] \in Nat /\ 2 * Real[f] < LongMod /\ LongMod \in Nat /\ rcv'[f].bytes \in Nat
    BY <1>2, <1>3, <1>8, Constants
  <2> QED BY <1>9, <2>1
<1>11. Sizes(p)'
  <2>1. \A x \in Mine(p) : /\ rcv'[x].good /\ 2 * rcv'[x].bytes < LongMod
                           /\ x \in inbound' => rcv'[x].bytes = Size[x]
    BY <1>1, <1>2, <1>8, <1>10 DEF Direction, Sizes
  <2> QED BY <1>1, <2>1, SizesReceived DEF RxLines
<1>12. Steady(p, f)
  BY <1>1, <1>2, <1>8 DEF Steady, Engaged, Asked, HRx
<1>13. RcvOk(q)'
  BY <1>1, <1>2, <1>8 DEF RcvOk, HRx, Turning
<1> QED BY <1>1, <1>11, <1>12, <1>13, Behind

LEMMA WriteBehind ==
  ASSUME TypeOK, NEW p \in Node, Tidy(p), Receives(Peer(p)), Direction(p),
         WriteFails(Peer(p)) \/ CloseFails(Peer(p))
  PROVE  Direction(p)'
<1> DEFINE q == Peer(p)
<1>0. q \in Node /\ Peer(q) = p
  BY Nodes
<1> PICK f : f = h[q].recv
  OBVIOUS
<1>1. /\ h[q].rx \in Taking /\ chan[q][1].type \in {"DATA", "EOF"} /\ inbound' = inbound
      /\ chan[q] # << >> /\ Running(q) /\ HRx(q, "Skip", f) /\ RxLines(q, 1, {})
  <2>1. CASE WriteFails(q)
    BY <1>0, <2>1, WriteFailsIs DEF WriteFails, Takes
  <2>2. CASE CloseFails(q)
    BY <1>0, <2>2, CloseFailsIs DEF CloseFails, AtEof, Takes
  <2> QED BY <2>1, <2>2
<1>2. rcv[f].status = "process" /\ f \notin inbound /\ f \in Mine(p) /\ f \in File
  BY <1>1, Heeds
<1>3. PICK s \in Asked : Rcvs(f, s, rcv[f].bytes, rcv[f].good)
  <2>1. CASE WriteFails(q)
    <3>1. PICK s \in {"skipped", "refused"} : rcv' = [rcv EXCEPT ![f].status = s]
      BY <1>0, <2>1, WriteFailsIs
    <3>2. s \in Status
      BY DEF Status
    <3>3. Rcvs(f, s, rcv[f].bytes, rcv[f].good)
      BY <1>2, <3>1, <3>2, RcvPut
    <3> QED BY <3>3 DEF Asked
  <2>2. CASE CloseFails(q)
    <3>1. rcv' = [rcv EXCEPT ![f].status = "refused", ![f].open = FALSE]
      BY <1>0, <2>2, CloseFailsIs
    <3>2. Rcvs(f, "refused", rcv[f].bytes, rcv[f].good)
      BY <1>2, <3>1, RcvPut DEF Status
    <3> QED BY <3>2 DEF Asked
  <2> QED BY <2>1, <2>2
<1>4. /\ rcv'[f].status \in Asked /\ rcv'[f].bytes = rcv[f].bytes /\ rcv'[f].good = rcv[f].good
      /\ \A x \in Mine(p) : x # f => rcv'[x] = rcv[x]
  BY <1>0, <1>3, Owners DEF Rcvs
<1>5. Sizes(p)'
  <2>1. \A x \in Mine(p) : rcv'[x].good = rcv[x].good /\ rcv'[x].bytes = rcv[x].bytes
    BY <1>4
  <2> QED BY <1>1, <2>1, SizesSame DEF RxLines
<1>6. Steady(p, f)
  BY <1>1, <1>2, <1>4 DEF Steady, Engaged, Asked, HRx
<1>7. RcvOk(q)'
  BY <1>1, <1>4 DEF RcvOk, HRx, Taking
<1> QED BY <1>1, <1>5, <1>6, <1>7, Behind

\* An end of file that is answered: the receiver has taken the file, or has
\* turned it away, and waits for the next one.
LEMMA EofAnswered ==
  ASSUME TypeOK, NEW p \in Node, Tidy(p), Receives(Peer(p)), Direction(p),
         chan[Peer(p)] # << >>, chan[Peer(p)][1].type = "EOF", ~Engaged(Peer(p))',
         NEW x, HRx(Peer(p), x, h[Peer(p)].recv), NEW a, RxLines(Peer(p), 1, {Pkt("EOFACK", a, 0)}),
         Running(p) /\ h[p].tx \in Sending => h[p].cur \in inbound' \/ rcv'[h[p].cur].status \in Asked,
         \A f \in Mine(p) : /\ rcv[f].status \in Asked => rcv'[f].status = rcv[f].status
                            /\ f \in inbound => f \in inbound',
         Sizes(p)'
  PROVE  Direction(p)'
<1> DEFINE q == Peer(p)
<1>0. q \in Node /\ Peer(q) = p
  BY Nodes
<1>1. Running(p) => ~Answered(p)
  BY Heard DEF Fore
<1>2. h'[p] = h[p] /\ (Running(p)' <=> Running(p))
  BY <1>0 DEF HRx, Running
<1>3. Steady(p, h[q].recv)
  BY DEF Steady
<1>4. PICK b : b = Pkt("EOFACK", a, 0)
  OBVIOUS
<1>5. b.type = "EOFACK"
  BY <1>4 DEF Pkt
<1>6. Running(p) => Backs(p, b)'
  BY <1>2, <1>5 DEF Backs
<1>7. RcvOk(q)'
  BY DEF RcvOk, Engaged
<1> QED BY <1>1, <1>3, <1>4, <1>5, <1>6, <1>7, Behind DEF Backward

LEMMA EofBehind ==
  ASSUME TypeOK, NEW p \in Node, Tidy(p), Receives(Peer(p)), Direction(p), RecvEof(Peer(p))
  PROVE  Direction(p)'
<1> DEFINE q == Peer(p)
<1>0. q \in Node /\ Peer(q) = p
  BY Nodes
<1> PICK f : f = h[q].recv
  OBVIOUS
<1>1. h[q].rx \in Taking /\ Running(q) /\ chan[q] # << >> /\ chan[q][1].type = "EOF"
  BY DEF RecvEof, AtEof, Takes, Taking
<1>2. /\ rcv[f].status = "process" /\ f \in Mine(p) /\ f \in File /\ f # NoFile
      /\ Running(p) => h[p].cur = f
  BY <1>1, Heeds, Constants
<1>3. /\ rcv[f].bytes = Size[f] /\ inbound' = inbound \cup {f}
      /\ rcv' = [rcv EXCEPT ![f].status = "success", ![f].open = FALSE]
      /\ HRx(q, "FINFO", f) /\ RxLines(q, 1, {Pkt("EOFACK", f, 0)})
  BY <1>0, <1>2, RecvEofIs
<1>4. Rcvs(f, "success", rcv[f].bytes, rcv[f].good)
  BY <1>2, <1>3, RcvPut DEF Status
<1>5. /\ rcv'[f].bytes = rcv[f].bytes /\ rcv'[f].good = rcv[f].good
      /\ \A x \in Mine(p) : x # f => rcv'[x] = rcv[x]
  BY <1>0, <1>4, Owners DEF Rcvs
<1>6. Sizes(p)'
  <2>1. \A x \in Mine(p) : /\ rcv'[x].good /\ 2 * rcv'[x].bytes < LongMod
                           /\ x \in inbound' => rcv'[x].bytes = Size[x]
    BY <1>3, <1>5 DEF Direction, Sizes
  <2> QED BY <1>3, <2>1, SizesReceived DEF RxLines
<1>7. ~Engaged(q)'
  BY <1>3 DEF Engaged, HRx, Taking, Turning
<1>8. \A x \in Mine(p) : /\ rcv[x].status \in Asked => rcv'[x].status = rcv[x].status
                         /\ x \in inbound => x \in inbound'
  BY <1>2, <1>3, <1>5 DEF Asked
<1> QED BY <1>1, <1>2, <1>3, <1>6, <1>7, <1>8, EofAnswered

LEMMA SkippedBehind ==
  ASSUME TypeOK, NEW p \in Node, Tidy(p), Receives(Peer(p)), Direction(p), RecvEofSkipped(Peer(p))
  PROVE  Direction(p)'
<1> DEFINE q == Peer(p)
<1>0. q \in Node /\ Peer(q) = p
  BY Nodes
<1> PICK f : f = h[q].recv
  OBVIOUS
<1>1. h[q].rx \in Turning /\ Running(q) /\ chan[q] # << >> /\ chan[q][1].type = "EOF"
  BY DEF RecvEofSkipped, Takes, Turning
<1>2. /\ f \in Mine(p) /\ f \in File /\ f # NoFile /\ (Running(p) => h[p].cur = f)
      /\ rcv[f].status \in Asked
  BY <1>1, Reception, Constants DEF Direction, RcvOk
<1>3. /\ inbound' = inbound /\ rcv' = [rcv EXCEPT ![f].open = FALSE]
      /\ HRx(q, "FINFO", f) /\ RxLines(q, 1, {Pkt("EOFACK", f, 0)})
  BY <1>0, <1>2, RecvEofSkippedIs
<1>4. Rcvs(f, rcv[f].status, rcv[f].bytes, rcv[f].good)
  BY <1>2, <1>3, RcvPut DEF Status
<1>5. \A x \in Mine(p) : /\ rcv'[x].status = rcv[x].status /\ rcv'[x].bytes = rcv[x].bytes
                         /\ rcv'[x].good = rcv[x].good
  BY <1>0, <1>4, Owners DEF Rcvs
<1>6. Sizes(p)'
  BY <1>3, <1>5, SizesSame DEF RxLines
<1>7. ~Engaged(q)'
  BY <1>3 DEF Engaged, HRx, Taking, Turning
<1> QED BY <1>1, <1>2, <1>3, <1>5, <1>6, <1>7, EofAnswered

\* EOF(-2) in any other state: the file was turned away before.
LEMMA UnexpectedBehind ==
  ASSUME TypeOK, NEW p \in Node, Tidy(p), Receives(Peer(p)), Direction(p),
         RecvEofUnexpected(Peer(p)), Arg(Peer(p)) = -2
  PROVE  Direction(p)'
<1> DEFINE q == Peer(p)
<1>0. q \in Node /\ Peer(q) = p
  BY Nodes
<1> PICK m : m = chan[q][1]
  OBVIOUS
<1>1. /\ Running(q) /\ chan[q] # << >> /\ m.type = "EOF" /\ UNCHANGED <<rcv, inbound>>
      /\ h[q].rx \notin {"DATA", "SkipAck", "RPOS", "Skip"}
      /\ HRx(q, h[q].rx, h[q].recv) /\ RxLines(q, 1, {Pkt("EOFACK", m.file, 0)})
  BY <1>0, RecvEofUnexpectedIs DEF RecvEofUnexpected, Takes
<1>2. rcv[m.file].status \in Asked /\ (Running(p) /\ h[p].tx \in Sending => m.file = h[p].cur)
  BY <1>1, Heard DEF Fore
<1>3. ~Engaged(q)
  <2>1. SUFFICES ASSUME h[q].rx \in Taking PROVE FALSE
    BY <1>1 DEF Engaged, Turning
  <2>2. m.file = h[q].recv /\ rcv[h[q].recv].status = "process"
    BY <1>1, <2>1, Heeds
  <2> QED BY <1>2, <2>2 DEF Asked
<1>4. ~Engaged(q)'
  BY <1>1, <1>3 DEF Engaged, HRx, Running
<1>5. Sizes(p)'
  BY <1>1, SizesSame DEF RxLines
<1> QED BY <1>1, <1>2, <1>4, <1>5, EofAnswered

LEMMA RxFileBehind ==
  ASSUME TypeOK, NEW p \in Node, Tidy(p), Receives(Peer(p)), Direction(p), RxFile(Peer(p))
  PROVE  Direction(p)'
BY RposBehind, FinfoBehind, EobBehind, DataBehind, WriteBehind, EofBehind, SkippedBehind,
   UnexpectedBehind DEF RxFile

-----------------------------------------------------------------------------
(* Both directions, whatever the step.                                      *)
Both == \A p \in Node : Direction(p)

\* A step of n as a sender does not touch the files it receives,
Transmits(n, t, c, e, k, S) == HTx(n, t, c, e) /\ TxLines(n, k, S) /\ \A m \in S : m.type \in Forward

LEMMA OtherWayTx ==
  ASSUME Books, Both, NEW n \in Node, OwnFiles(n), NEW t, NEW c, NEW e, NEW k \in {0, 1}, NEW S,
         Transmits(n, t, c, e, k, S)
  PROVE  Direction(Peer(n))'
<1> DEFINE p == Peer(n)
<1>0. p \in Node /\ Peer(p) = n /\ Mine(p) \subseteq File
  BY Nodes, Owners
<1>1. /\ TypeOK /\ Tidy(p) /\ Receives(n) /\ Direction(p)
  BY <1>0 DEF Books, Both
<1>2. /\ h'[p] = h[p] /\ h'[n].rc = h[n].rc /\ h'[n].rx = h[n].rx /\ h'[n].recv = h[n].recv
      /\ UNCHANGED <<rcv, inbound, sess>> /\ LinesOk' /\ Passed(n, k, {}) /\ Passed(p, 0, S)
      /\ \A m \in S : m.type \notin Backward
  BY DEF Transmits, HTx, TxLines, Online, Forward, Backward
<1>3. SameSender(p)
  BY <1>2 DEF SameSender, OwnFiles
<1>4. SameReceiver(n)
  BY <1>2 DEF SameReceiver
<1> QED BY <1>0, <1>1, <1>2, <1>3, <1>4, Elsewhere

\* and a step as a receiver not those it sends.
LEMMA OtherWayRx ==
  ASSUME Books, Both, NEW n \in Node, Serves(n)
  PROVE  Direction(n)'
<1> DEFINE q == Peer(n)
<1>0. q \in Node /\ Peer(q) = n
  BY Nodes
<1>1. TypeOK /\ Tidy(n) /\ Receives(q) /\ Direction(n)
  BY <1>0 DEF Books, Both
<1>2. PICK x, v : HRx(n, x, v)
  BY DEF Serves
<1>8. PICK k \in {0, 1} : \E S : RxLines(n, k, S) /\ \A m \in S : m.type \in Backward
  BY DEF Serves
<1>3. PICK S : RxLines(n, k, S) /\ \A m \in S : m.type \in Backward
  BY <1>8
<1>4. Theirs(n) /\ UNCHANGED <<queue, snd, gone>>
  BY <1>1, ServesKeeps
<1>5. SameSender(n)
  BY <1>2, <1>4 DEF SameSender, HRx, Online
<1>6. SameReceiver(q)
  BY <1>0, <1>2, <1>4 DEF SameReceiver, HRx, Theirs
<1>7. /\ LinesOk' /\ sess' = sess /\ Passed(n, k, {}) /\ Passed(q, 0, S)
      /\ \A m \in S : m.type \notin Forward
  BY <1>3 DEF RxLines, Forward, Backward
<1> QED BY <1>1, <1>5, <1>6, <1>7, Elsewhere

\* Nothing happens to the files.
LEMMA NeitherWay ==
  ASSUME Books, Both, LinesOk', sess' = sess, NEW n \in Node, SameSender(n), SameReceiver(Peer(n)),
         NEW k \in {0, 1}, Passed(n, k, {}), NEW l \in {0, 1}, Passed(Peer(n), l, {})
  PROVE  Direction(n)'
<1>1. TypeOK /\ Tidy(n) /\ Receives(Peer(n)) /\ Direction(n)
  BY Nodes DEF Books, Both
<1> QED BY <1>1, Elsewhere

LEMMA BothTx ==
  ASSUME Books, Both, NEW n \in Node, "late" \notin sess.faults, TxIdle(n) \/ TxFile(n)
  PROVE  Both'
<1>0. TypeOK /\ Tidy(n) /\ Receives(Peer(n)) /\ Direction(n)
  BY Nodes DEF Books, Both
<1>1. CASE TxFile(n)
  <2>1. Direction(n)'
    BY <1>0, <1>1, TxFileAhead
  <2>2. OwnFiles(n) /\ TxSays(n)
    BY <1>0, <1>1, TxFileTidy
  <2>3. PICK t, c, e : HTx(n, t, c, e)
    BY <2>2 DEF TxSays
  <2>6. PICK k \in {0, 1} : \E S : TxLines(n, k, S) /\ \A m \in S : m.type \in Forward
    BY <2>2 DEF TxSays
  <2>4. PICK S : TxLines(n, k, S) /\ \A m \in S : m.type \in Forward
    BY <2>6
  <2>5. Direction(Peer(n))'
    BY <2>2, <2>3, <2>4, OtherWayTx DEF Transmits
  <2> QED BY <2>1, <2>5, Nodes DEF Both
<1>2. CASE TxIdle(n)
  <2>1. PICK t : /\ HTx(n, t, h[n].cur, h[n].eob)
                 /\ t = h[n].tx \/ (h[n].tx \notin Busy /\ t \notin Busy)
    BY <1>0, <1>2, TxIdleIs
  <2>2. PICK k \in {0, 1} : TxLines(n, k, {})
    BY <1>0, <1>2, TxIdleIs
  <2>3. UNCHANGED files
    BY <1>0, <1>2, TxIdleIs
  <2>4. SameSender(n)
    BY <2>1, <2>3 DEF SameSender, HTx, Online, Busy, Sending, files
  <2>5. SameReceiver(Peer(n))
    BY <2>1, <2>3 DEF SameReceiver, HTx, files
  <2>6. Direction(n)'
    BY <2>2, <2>4, <2>5, NeitherWay DEF TxLines
  <2>7. OwnFiles(n)
    BY <2>3 DEF OwnFiles, files
  <2>8. Direction(Peer(n))'
    BY <2>1, <2>2, <2>7, OtherWayTx DEF Transmits
  <2> QED BY <2>6, <2>8, Nodes DEF Both
<1> QED BY <1>1, <1>2

LEMMA BothRx ==
  ASSUME Books, Both, NEW n \in Node, RxIdle(n) \/ RxFile(n)
  PROVE  Both'
<1> DEFINE p == Peer(n)
<1>0. p \in Node /\ Peer(p) = n /\ TypeOK /\ Tidy(p) /\ Receives(n) /\ Direction(p)
  BY Nodes DEF Books, Both
<1>1. Direction(n)'
  BY <1>0, IdleServes, FileServes, OtherWayRx
<1>2. CASE RxFile(n)
  BY <1>0, <1>1, <1>2, RxFileBehind, Nodes DEF Both
<1>3. CASE RxIdle(n)
  <2>1. PICK x : /\ HRx(n, x, h[n].recv)
                 /\ x \in Taking <=> h[n].rx \in Taking
                 /\ x \in Turning <=> h[n].rx \in Turning
    BY <1>0, <1>3, RxIdleIs
  <2>2. PICK k \in {0, 1} : RxLines(n, k, {})
    BY <1>0, <1>3, RxIdleIs
  <2>3. UNCHANGED <<rcv, inbound, queue, snd, gone>>
    BY <1>0, <1>3, <2>2, RxIdleIs DEF RxLines
  <2>4. SameSender(p)
    BY <2>1, <2>3 DEF SameSender, HRx
  <2>5. SameReceiver(n)
    BY <2>1, <2>3 DEF SameReceiver, HRx, Online
  <2>6. Direction(p)'
    BY <1>0, <2>2, <2>4, <2>5, NeitherWay DEF RxLines
  <2> QED BY <1>1, <2>6, Nodes DEF Both
<1> QED BY <1>2, <1>3

LEMMA BothSame ==
  ASSUME Books, Both, LinesOk', UNCHANGED <<h, files, sess>>, NEW k \in {0, 1}, NEW n \in Node,
         Passed(n, k, {}), Passed(Peer(n), 0, {})
  PROVE  Both'
<1>1. \A p \in Node : SameSender(p) /\ SameReceiver(p)
  BY DEF SameSender, SameReceiver, files
<1>2. Peer(n) \in Node /\ Peer(Peer(n)) = n
  BY Nodes
<1>3. Direction(n)'
  BY <1>1, <1>2, NeitherWay
<1>4. Direction(Peer(n))'
  BY <1>1, <1>2, NeitherWay
<1> QED BY <1>3, <1>4, Nodes DEF Both

LEMMA BothBatch ==
  ASSUME Books, Both, NEW n \in Node, NextBatch(n)
  PROVE  Both'
<1>0. TypeOK /\ Tidy(n) /\ Peer(n) \in Node /\ Peer(Peer(n)) = n
  BY Nodes DEF Books
<1>1. /\ Running(n) /\ h[n].tx = "DONE" /\ h[n].rx = "DONE"
      /\ UNCHANGED <<files, sess>> /\ LinesOk' /\ Online
      /\ h'[n].tx = "START" /\ h'[n].cur = NoFile /\ h'[n].rx = "INIT" /\ h'[n].recv = h[n].recv
      /\ h'[Peer(n)] = h[Peer(n)] /\ Passed(n, 0, {}) /\ Passed(Peer(n), 0, {})
  BY <1>0, NextBatchIs
<1>2. h[n].cur = NoFile
  BY <1>0, <1>1 DEF Tidy, Busy
<1>3. SameSender(n) /\ SameSender(Peer(n))
  BY <1>1, <1>2 DEF SameSender, Online, Sending, Busy, files
<1>4. SameReceiver(n) /\ SameReceiver(Peer(n))
  BY <1>1 DEF SameReceiver, Online, Taking, Turning, files
<1>5. Direction(n)' /\ Direction(Peer(n))'
  BY <1>0, <1>1, <1>3, <1>4, NeitherWay
<1> QED BY <1>5, Nodes DEF Both

\* A sender that leaves has unlinked its file only if it was to be skipped.
LEMMA SenderStops ==
  ASSUME Books, Both, NEW n \in Node, Stop(n)
  PROVE  Direction(n)'
<1> DEFINE q == Peer(n)
<1> PICK c : c = h[n].cur
  OBVIOUS
<1>0. /\ TypeOK /\ Tidy(n) /\ Receives(q) /\ Direction(n) /\ q \in Node /\ Peer(q) = n
      /\ Mine(n) \subseteq File /\ NoFile \notin Mine(n) /\ c \in Mine(n) \cup {NoFile}
  BY Nodes, Owners, LocalFacts DEF Books, Both
<1>1. /\ Running(n) /\ LinesOk' /\ h'[n].rc \in {"error", "ok"} /\ h'[q] = h[q]
      /\ chan'[n] = << >> /\ chan'[q] = chan[q] /\ UNCHANGED <<queue, inbound, sess>>
      /\ \A f \in File : /\ snd'[f].status = snd[f].status /\ snd'[f].pos = snd[f].pos
                         /\ snd'[f].eof = snd[f].eof /\ snd'[f].there = snd[f].there
                         /\ rcv'[f].status = rcv[f].status /\ rcv'[f].bytes = rcv[f].bytes
                         /\ rcv'[f].good = rcv[f].good
      /\ \/ gone' = gone
         \/ c # NoFile /\ snd[c].status \in Stored /\ gone' = gone \cup {c}
  BY <1>0, StopIs
<1>2. ~Running(n)' /\ (Engaged(q)' <=> Engaged(q)) /\ (Running(q)' <=> Running(q))
  BY <1>1 DEF Running, Engaged
<1>3. h[q].rx \in Taking \cup Turning => h[q].recv \in Mine(n) /\ h[q].recv \in File
  BY <1>0, RecvIs
<1>4. c # NoFile /\ snd[c].status \in Stored => h[n].tx \in Sending /\ snd[c].status = "skipped"
  BY <1>0, <1>1 DEF Tidy, Busy, Sending, Stored, Asked
<1>5. RcvOk(q)'
  BY <1>0, <1>1, <1>2, <1>3 DEF RcvOk, Direction
<1>6. Linked(n)'
  BY <1>2 DEF Linked
<1>7. Ordered(q, {"FINFO"}, Forward)' /\ Ordered(n, {"FINFOACK"}, {"FINFOACK", "EOFACK"})'
  BY <1>0, <1>1 DEF Ordered, Direction
<1>8. ASSUME NEW i \in DOMAIN chan'[q], NEW m, m = chan'[q][i] PROVE Fore(n, m)'
  <2>1. m = chan[q][i] /\ i \in DOMAIN chan[q]
    BY <1>1, <1>8
  <2>2. /\ Fore(n, m) /\ (m.type \in {"DATA", "EOF"} => m.file \in Mine(n))
        /\ m.type = "FINFO" => m.file \in Mine(n) \cup {NoFile}
    BY <1>0, <2>1, Items DEF Direction, Forward
  <2>3. m.type = "FINFO" /\ m.file # NoFile => snd'[m.file].status = "process" /\ m.file \notin gone'
    BY <1>0, <1>1, <2>2 DEF Fore, Stored
  <2>4. Off(m)' = Off(m)
    BY <1>1, OffSame
  <2>5. /\ m.type = "DATA" => m.offs + m.len <= Real[m.file]
        /\ m.type \in {"DATA", "EOF"} /\ Engaged(q)' => m.file = h'[q].recv
    BY <1>1, <1>2, <2>2 DEF Fore
  <2>6. m.type = "EOF" /\ Off(m)' = -2 => rcv'[m.file].status \in Asked
    BY <1>0, <1>1, <2>2, <2>4 DEF Fore
  <2> QED BY <1>2, <2>3, <2>5, <2>6 DEF Fore
<1>9. Past(n)'
  <2>1. SUFFICES ASSUME NEW f \in Mine(n), f \in gone'
                 PROVE  /\ Settled(f)' \/ (rcv'[f].status = "refused" /\ snd'[f].eof)
                        /\ \A i \in DOMAIN queue'[n] : queue'[n][i] # f
    BY <1>2, MineSame DEF Past
  <2>2. CASE f \in gone
    BY <1>0, <1>1, <2>1, <2>2 DEF Direction, Past, Settled
  <2>3. CASE f = c /\ h[n].tx \in Sending /\ snd[c].status = "skipped"
    <3>1. rcv[c].status = "skipped" \/ ~snd[c].there
      BY <1>0, <1>1, <2>3 DEF Direction, Linked
    <3>2. \A i \in DOMAIN queue[n] : queue[n][i] # c
      BY <1>0, <1>1 DEF Tidy
    <3> QED BY <1>0, <1>1, <2>1, <2>3, <3>1, <3>2 DEF Settled
  <2> QED BY <1>1, <1>4, <2>1, <2>2, <2>3
<1>10. Sizes(n)'
  BY <1>0, <1>1, MineSame DEF Sizes, Direction
<1>11. (\A i \in DOMAIN chan[Peer(n)] : Fore(n, chan[Peer(n)][i]))'
  BY <1>0, <1>8, ForeAll
<1>12. DOMAIN chan'[n] = {}
  BY <1>1
<1>13. (\A i \in DOMAIN chan[n] : (chan[n][i].type = "RPOS" => Heeded(n, i)) => Backs(n, chan[n][i]))'
  BY <1>12, BacksAll
<1> QED BY <1>5, <1>6, <1>7, <1>9, <1>10, <1>11, <1>13 DEF Direction

LEMMA ReceiverStops ==
  ASSUME Books, Both, NEW n \in Node, Stop(n)
  PROVE  Direction(Peer(n))'
<1> DEFINE p == Peer(n)
<1>0. /\ TypeOK /\ Tidy(p) /\ Direction(p) /\ p \in Node /\ Peer(p) = n
      /\ Mine(p) \subseteq File /\ NoFile \notin Mine(p) /\ h[p].cur \in Mine(p) \cup {NoFile}
      /\ h[n].cur \notin Mine(p)
  BY Nodes, Owners, LocalFacts DEF Books, Both
<1>1. /\ LinesOk' /\ h'[n].rc \in {"error", "ok"} /\ h'[p] = h[p]
      /\ chan'[n] = << >> /\ chan'[p] = chan[p] /\ UNCHANGED <<queue, inbound, sess>>
      /\ \A f \in File : /\ snd'[f].status = snd[f].status /\ snd'[f].pos = snd[f].pos
                         /\ snd'[f].eof = snd[f].eof /\ snd'[f].there = snd[f].there
                         /\ rcv'[f].status = rcv[f].status /\ rcv'[f].bytes = rcv[f].bytes
                         /\ rcv'[f].good = rcv[f].good
      /\ gone' = gone \/ gone' = gone \cup {h[n].cur}
  BY <1>0, StopIs
<1>2. ~Engaged(n)' /\ ~Running(n)' /\ (Running(p)' <=> Running(p))
  BY <1>1 DEF Running, Engaged
<1>3. RcvOk(n)'
  BY <1>2 DEF RcvOk
<1>4. Running(p) /\ h[p].tx \in Sending => h[p].cur \in Mine(p) /\ h[p].cur \in File
  BY <1>0 DEF Tidy
<1>5. Linked(p)'
  BY <1>0, <1>1, <1>2, <1>4 DEF Linked, Direction
<1>6. Ordered(n, {"FINFO"}, Forward)' /\ Ordered(p, {"FINFOACK"}, {"FINFOACK", "EOFACK"})'
  BY <1>0, <1>1 DEF Ordered, Direction
<1>7. ASSUME NEW i \in DOMAIN chan'[p], NEW m, m = chan'[p][i], m.type = "RPOS" => Heeded(p, i)'
      PROVE  Backs(p, m)'
  <2>1. m = chan[p][i] /\ i \in DOMAIN chan[p] /\ (m.type = "RPOS" => Heeded(p, i))
    BY <1>1, <1>7 DEF Heeded
  <2>2. Backs(p, m) /\ Running(p)
    BY <1>0, <2>1, Items DEF Direction
  <2>3. Off(m)' = Off(m)
    BY <1>1, OffSame
  <2>4. h[p].cur # NoFile => h[p].cur \in File
    BY <1>0
  <2>5. m.type = "FINFOACK" => Backs(p, m)'
    BY <1>0, <1>1, <1>2, <2>2, <2>3, <2>4 DEF Backs
  <2>6. m.type = "RPOS" => Backs(p, m)'
    BY <1>1, <2>2, <2>3, <2>4 DEF Backs
  <2>7. m.type = "EOFACK" => Backs(p, m)'
    BY <1>0, <1>1, <1>2, <1>4, <2>2 DEF Backs
  <2> QED BY <2>5, <2>6, <2>7 DEF Backs
<1>8. Past(p)'
  BY <1>0, <1>1, <1>2, MineSame DEF Past, Settled, Direction
<1>9. Sizes(p)'
  BY <1>0, <1>1, MineSame DEF Sizes, Direction
<1>10. DOMAIN chan'[Peer(p)] = {}
  BY <1>0, <1>1
<1>11. (\A i \in DOMAIN chan[Peer(p)] : Fore(p, chan[Peer(p)][i]))'
  BY <1>0, <1>10, ForeAll
<1>12. (\A i \in DOMAIN chan[p] : (chan[p][i].type = "RPOS" => Heeded(p, i)) => Backs(p, chan[p][i]))'
  BY <1>0, <1>7, BacksAll
<1> QED BY <1>0, <1>3, <1>5, <1>6, <1>8, <1>9, <1>11, <1>12 DEF Direction

LEMMA BothGarble ==
  ASSUME Books, Both, NEW n \in Node, Garble(n)
  PROVE  Both'
<1>1. /\ UNCHANGED <<h, files, sess>> /\ LinesOk' /\ Passed(Peer(n), 0, {})
      /\ Passed(n, 0, {}) \/ Passed(n, 1, {})
  BY GarbleIs DEF Books
<1> QED BY <1>1, BothSame

Filed == inbound \subseteq File /\ gone \subseteq File

\* Everything together, as long as no timer is late.
Exchange == Books /\ Filed /\ Both

LEMMA FiledStep ==
  ASSUME Books, Filed, NEW n \in Node,
         \/ TxIdle(n) \/ TxFile(n) \/ RxIdle(n) \/ RxFile(n) \/ NextBatch(n) \/ Stop(n) \/ Garble(n)
  PROVE  Filed'
<1>0. /\ TypeOK /\ Tidy(n) /\ Receives(n) /\ Mine(n) \subseteq File /\ Mine(Peer(n)) \subseteq File
  BY Nodes, Owners DEF Books
<1>1. CASE TxIdle(n) \/ NextBatch(n) \/ Garble(n)
  <2>1. UNCHANGED files
    BY <1>0, <1>1, TxIdleIs, NextBatchIs, GarbleIs
  <2> QED BY <2>1 DEF files, Filed
<1>2. CASE TxFile(n)
  <2>1. OwnFiles(n) /\ TxSays(n)
    BY <1>0, <1>2, TxFileTidy
  <2>2. inbound' = inbound
    BY <2>1 DEF TxSays, TxLines
  <2> QED BY <1>0, <2>1, <2>2 DEF OwnFiles, Filed
<1>3. CASE RxIdle(n) \/ RxFile(n)
  <2>1. Theirs(n) /\ gone' = gone
    BY <1>0, <1>3, IdleServes, FileServes, ServesKeeps
  <2> QED BY <1>0, <2>1 DEF Theirs, Filed
<1>4. CASE Stop(n)
  <2>1. inbound' = inbound /\ (gone' = gone \/ (h[n].cur # NoFile /\ gone' = gone \cup {h[n].cur}))
    BY <1>0, <1>4, StopIs
  <2>2. h[n].cur \in File \cup {NoFile}
    BY <1>0, LocalFacts
  <2> QED BY <2>1, <2>2 DEF Filed
<1> QED BY <1>1, <1>2, <1>3, <1>4

LEMMA ExchangeInit == Init => Exchange
<1> SUFFICES ASSUME Init PROVE Exchange
  OBVIOUS
<1>1. Books
  BY BooksInit
<1>2. PICK s \in Sessions :
        /\ sess = s /\ h = [p \in Node |-> Fresh]
        /\ snd = [f \in File |-> [status |-> "none", pos |-> 0, eof |-> FALSE,
                                  open |-> FALSE, there |-> TRUE]]
        /\ rcv = [f \in File |-> [status |-> "none", bytes |-> s.have[f],
                                  open |-> FALSE, good |-> TRUE]]
        /\ chan = [p \in Node |-> <<>>] /\ inbound = {} /\ gone = {}
  BY DEF Init
<1>3. ASSUME NEW p \in Node PROVE Direction(p)
  <2>1. Peer(p) \in Node
    BY Nodes
  <2>2. /\ chan[p] = << >> /\ chan[Peer(p)] = << >>
        /\ h[p].tx = "START" /\ h[Peer(p)].rx = "INIT"
    BY <1>2, <2>1 DEF Fresh
  <2>3. RcvOk(Peer(p)) /\ Linked(p)
    BY <2>2 DEF RcvOk, Linked, Engaged, Taking, Turning, Sending
  <2>4. Ordered(Peer(p), {"FINFO"}, Forward) /\ Ordered(p, {"FINFOACK"}, {"FINFOACK", "EOFACK"})
    BY <2>2 DEF Ordered
  <2>5. /\ \A i \in DOMAIN chan[Peer(p)] : Fore(p, chan[Peer(p)][i])
        /\ \A i \in DOMAIN chan[p] : (chan[p][i].type = "RPOS" => Heeded(p, i)) => Backs(p, chan[p][i])
    BY <2>2
  <2>6. Past(p)
    BY <1>2 DEF Past
  <2>7. Sizes(p)
    <3>1. \A f \in File : /\ rcv[f].good /\ rcv[f].bytes = s.have[f] /\ snd[f].pos = 0
                          /\ 2 * s.have[f] < LongMod
      BY <1>2, Constants
    <3> QED BY <1>2, <3>1, Owners, Constants DEF Sizes
  <2> QED BY <2>3, <2>4, <2>5, <2>6, <2>7 DEF Direction
<1> QED BY <1>1, <1>2, <1>3 DEF Exchange, Filed, Both

LEMMA ExchangeStep ==
  ASSUME \A s \in Sessions : "late" \notin s.faults
  PROVE  Exchange /\ [Next]_vars => Exchange'
<1> SUFFICES ASSUME Exchange, [Next]_vars PROVE Exchange'
  OBVIOUS
<1>1. /\ Books /\ Filed /\ Both /\ TypeOK /\ "late" \notin sess.faults
      /\ \A p \in Node : Tidy(p) /\ Receives(p)
  BY DEF Exchange, Books, TypeOK
<1>2. Books'
  BY <1>1, BooksStep
<1>3. LinesOk'
  BY <1>2 DEF Books, TypeOK
<1>4. CASE UNCHANGED vars
  <2>1. \A p \in Node : Passed(p, 0, {}) /\ Peer(p) \in Node
    BY <1>1, <1>4, Unchanged, Nodes DEF vars
  <2>2. Both'
    <3>1. PICK n \in Node : TRUE
      BY HydraAssumption
    <3> QED BY <1>1, <1>3, <1>4, <2>1, BothSame DEF vars
  <2> QED BY <1>1, <1>2, <1>4, <2>2 DEF vars, files, Exchange, Filed
<1>5. ASSUME NEW n \in Node,
             TxIdle(n) \/ TxFile(n) \/ RxIdle(n) \/ RxFile(n) \/ NextBatch(n) \/ Stop(n) \/ Garble(n)
      PROVE  Exchange'
  <2>1. Filed'
    BY <1>1, <1>5, FiledStep
  <2>2. Both'
    <3>1. CASE Stop(n)
      BY <1>1, <3>1, SenderStops, ReceiverStops, Nodes DEF Both
    <3>2. CASE TxIdle(n) \/ TxFile(n)
      BY <1>1, <3>2, BothTx
    <3>3. CASE RxIdle(n) \/ RxFile(n)
      BY <1>1, <3>3, BothRx
    <3>4. CASE NextBatch(n) \/ Garble(n)
      BY <1>1, <3>4, BothBatch, BothGarble
    <3> QED BY <1>5, <3>1, <3>2, <3>3, <3>4
  <2> QED BY <1>2, <2>1, <2>2 DEF Exchange
<1> QED BY <1>4, <1>5, Kinds

\* As long as no timer expires while its answer is on the way, a file that
\* p_rx_fclose() moves to the inbound has the announced length and consists of
\* its own blocks, each once and in order, whatever is garbled, refused,
\* skipped, removed or broken off in between: HPKT_DATA is written only at the
\* offset that is expected, and only while its own file is received.
THEOREM Intact ==
  ASSUME \A s \in Sessions : "late" \notin s.faults
  PROVE  Spec => []StoredIntact
<1>1. Exchange => StoredIntact
  <2> SUFFICES ASSUME Exchange, NEW f \in inbound PROVE rcv[f].good /\ rcv[f].bytes = Size[f]
    BY DEF StoredIntact
  <2>1. f \in File
    BY DEF Exchange, Filed
  <2>2. PICK p \in Node : f \in Mine(p)
    BY <2>1, Owners
  <2> QED BY <2>2 DEF Exchange, Both, Direction, Sizes
<1>2. Exchange /\ [Next]_vars => Exchange'
  BY ExchangeStep
<1> QED BY <1>1, <1>2, ExchangeInit, PTL DEF Spec

\* As long as no timer expires while its answer is on the way, what
\* p_tx_fclose() marks as sent and out_flo_marksent() or unlink() removes is in the
\* receiver's inbound, or was skipped by it for good, or had vanished; but for a
\* file refused with RPOS(-2) after its end was read, because HTX_RPOS leaves
\* eofseen as it was.
THEOREM LostAtEof ==
  ASSUME \A s \in Sessions : "late" \notin s.faults
  PROVE  Spec => []LostOnlyAtEof
<1>1. Exchange => LostOnlyAtEof
  <2> SUFFICES ASSUME Exchange, NEW f \in gone
               PROVE  Settled(f) \/ (rcv[f].status = "refused" /\ snd[f].eof)
    BY DEF LostOnlyAtEof
  <2>1. f \in File
    BY DEF Exchange, Filed
  <2>2. PICK p \in Node : f \in Mine(p)
    BY <2>1, Owners
  <2> QED BY <2>2 DEF Exchange, Both, Direction, Past
<1>2. Exchange /\ [Next]_vars => Exchange'
  BY ExchangeStep
<1> QED BY <1>1, <1>2, ExchangeInit, PTL DEF Spec
=============================================================================

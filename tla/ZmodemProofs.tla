---------------------------- MODULE ZmodemProofs ----------------------------
(***************************************************************************)
(* Proofs about Zmodem: every block is written where it belongs in the     *)
(* file; a file that is alone in its batch arrives intact, or is left for  *)
(* another time only if it was refused, and a good end leaves nothing      *)
(* unsent, whatever is garbled, refused, repeated or answered too late.    *)
(***************************************************************************)
EXTENDS Zmodem, SequenceTheorems, TLAPS

-----------------------------------------------------------------------------
(* Types                                                                    *)

State == {"RQINIT", "NEXTFILE", "FINFO", "STARTDATA", "DATA", "EOF", "FIN", "INIT", "SENDRPOS",
          "RQINITACK", "FINFOACK", "READCHECK", "CRCWACK", "CRCQACK", "EOFACK", "FINACK",
          "NEXTREAD", "INITACK", "RPOSACK", "FILEDATA", "WAITDATA"}

Local == [phase : {1, 2}, st : State, tries : Nat, rinits : Nat, acked : BOOLEAN,
          cur : File \cup {NoFile}, sync : Int, last : Int, recv : File \cup {NoFile},
          init : {"RINIT", "SKIP", "FERR"}, rqinits : BOOLEAN, fins : Nat,
          dirty : BOOLEAN, moved : BOOLEAN, rc : {"run", "ok", "error", "crash"}]

Status == {"none", "process", "success", "skipped", "refused"}
Sinfo == [status : Status, pos : Nat, eof : BOOLEAN, there : BOOLEAN]
Rinfo == [status : Status, bytes : Nat, open : BOOLEAN, good : BOOLEAN]

\* What p has to send in this session.
Mine(p) == {sess.queue[p][i] : i \in DOMAIN sess.queue[p]}

Headers == {"RQINIT", "FILE", "FIN", "DATA", "EOF", "NAK", "RINIT", "SKIP", "FERR", "RPOS", "ACK", "BAD"}
Subpackets == {"SUB", "FINFO", "BADSUB"}

Shut(m) == m.kind \in {"W", "E"}

\* A subpacket without data ends the frame; one with data, or ZFILE's, is about a file.
From(p) ==
  [type : Headers, file : {NoFile}, pos : Nat, kind : {"-"}, len : {0}] \cup
  {m \in [type : Subpackets, file : Mine(p) \cup {NoFile}, pos : Nat, kind : {"G", "Q", "W", "E"}, len : Nat] :
     /\ m.len = 0 => Shut(m)
     /\ m.len > 0 \/ m.type = "FINFO" => m.file # NoFile
     /\ m.type = "FINFO" => m.len = 0}

OpenStates == {"STARTDATA", "DATA", "READCHECK", "CRCQACK"}
ShutStates == {"FINFO", "FINFOACK", "CRCWACK", "EOF", "EOFACK"}
RecvStates == {"SENDRPOS", "RPOSACK", "WAITDATA"}

\* A mailer knows the file it works on, and it is one of the right side.
LocalOk(p) ==
  /\ z[p].cur \in Mine(p) \cup {NoFile} /\ z[p].recv \in Mine(Peer(p)) \cup {NoFile}
  /\ Running(p) =>
       /\ z[p].st \in OpenStates \cup ShutStates => z[p].cur # NoFile
       /\ z[p].st \in RecvStates => z[p].recv # NoFile

LocalsOk == z \in [Node -> Local] /\ \A p \in Node : LocalOk(p)

FilesOk ==
  /\ queue \in [Node -> Seq(File)] /\ \A p \in Node : queue[p] \in Seq(Mine(p))
  /\ snd \in [File -> Sinfo]
  /\ rcv \in [File -> Rinfo]

LinesOk == DOMAIN chan = Node /\ \A p \in Node : chan[p] \in Seq(From(Peer(p)))

TypeOK == sess \in Sessions /\ LocalsOk /\ FilesOk /\ LinesOk

-----------------------------------------------------------------------------
(***************************************************************************)
(* What is on the line.  A receiver that waits for data is as good as a    *)
(* subpacket at the head of its channel that ends where its file ends; in  *)
(* other states, or after garbage, it is as good as one that ends a frame. *)
(***************************************************************************)
Ending(m) == m.pos + m.len
Source(m) == IsSub(m) \/ m.type = "DATA"

Received(q) ==
  IF z[q].st = "WAITDATA" /\ ~z[q].dirty
  THEN [EmptyE EXCEPT !.kind = "G", !.pos = rcv[z[q].recv].bytes] ELSE EmptyE
Behind(r, c) == [i \in 1..Len(c) + 1 |-> IF i = 1 THEN r ELSE c[i - 1]]
View(q) == Behind(Received(q), chan[q])

\* Data after a are not taken, or belong where a ends.
Leads(a, b) == b.len = 0 \/ Shut(a) \/ Ending(a) = b.pos

Chain(v) ==
  \A i, j \in DOMAIN v :
    /\ i < j /\ Source(v[i]) /\ IsSub(v[j])
    /\ \A k \in DOMAIN v : i < k /\ k < j => ~IsSub(v[k])
    => Leads(v[i], v[j])

\* The last subpacket, or a ZDATA after it.
Latest(v, i) == Source(v[i]) /\ \A k \in DOMAIN v : i < k => ~IsSub(v[k])
EndsAt(v, n) == \A i \in DOMAIN v : Latest(v, i) => Shut(v[i]) \/ Ending(v[i]) = n
EndsShut(v)  == \A i \in DOMAIN v : Latest(v, i) => Shut(v[i])

\* What p has sent to q, and where it may go on.
Flow(p) ==
  LET q == Peer(p) IN
  Running(q) =>
    /\ Chain(View(q))
    /\ Running(p) /\ z[p].st \in OpenStates => EndsAt(View(q), snd[z[p].cur].pos)
    /\ Running(p) /\ z[p].st \in ShutStates => EndsShut(View(q))

ZInv == TypeOK /\ \A p \in Node : Flow(p)

-----------------------------------------------------------------------------
(* Sequences of items                                                       *)

\* w is v with items weakened: garbled, or the receiver no longer takes data.
LEMMA Weakened ==
  ASSUME NEW n \in Nat, NEW v, NEW w, DOMAIN v = 1..n, DOMAIN w = 1..n,
         \A i \in 1..n :
           /\ IsSub(w[i]) <=> IsSub(v[i])
           /\ w[i].len = 0 \/ (w[i].len = v[i].len /\ w[i].pos = v[i].pos)
           /\ Source(w[i]) =>
                /\ Source(v[i])
                /\ Shut(w[i]) \/ (Ending(w[i]) = Ending(v[i]) /\ (Shut(v[i]) => Shut(w[i])))
  PROVE  /\ Chain(v) => Chain(w)
         /\ \A at : EndsAt(v, at) => EndsAt(w, at)
         /\ EndsShut(v) => EndsShut(w)
<1>1. ASSUME Chain(v) PROVE Chain(w)
  <2> SUFFICES ASSUME NEW i \in 1..n, NEW j \in 1..n, i < j, Source(w[i]), IsSub(w[j]),
                      \A k \in 1..n : i < k /\ k < j => ~IsSub(w[k])
               PROVE  Leads(w[i], w[j])
    BY DEF Chain
  <2>1. Leads(v[i], v[j])
    BY <1>1 DEF Chain
  <2> QED BY <2>1 DEF Leads
<1>2. \A i \in 1..n : Latest(w, i) => Latest(v, i)
  BY DEF Latest
<1> QED BY <1>1, <1>2 DEF EndsAt, EndsShut, Latest

\* w is v without its second item, which the receiver has taken.
LEMMA Taken ==
  ASSUME NEW n \in Nat \ {0}, NEW v, NEW w, DOMAIN v = 1..n + 1, DOMAIN w = 1..n,
         \A i \in 2..n : w[i] = v[i + 1],
         IsSub(w[1]), w[1].len = 0,
         \/ Shut(w[1])
         \/ ~IsSub(v[2]) /\ w[1] = v[1]
         \/ Source(v[2]) /\ ~Shut(v[2]) /\ Ending(w[1]) = Ending(v[2])
  PROVE  /\ Chain(v) => Chain(w)
         /\ \A at : EndsAt(v, at) => EndsAt(w, at)
         /\ EndsShut(v) => EndsShut(w)
<1>0. /\ \A k \in 3..n + 1 : k - 1 \in 2..n /\ k - 1 \in 1..n /\ w[k - 1] = v[k]
      /\ \A k \in 1..n + 1 : k = 1 \/ k = 2 \/ k \in 3..n + 1
  <2>1. ASSUME NEW k \in 3..n + 1 PROVE k - 1 \in 2..n /\ w[k - 1] = v[k]
    <3>1. k - 1 \in 2..n /\ (k - 1) + 1 = k
      OBVIOUS
    <3>2. w[k - 1] = v[(k - 1) + 1]
      BY <3>1
    <3> QED BY <3>1, <3>2
  <2> QED BY <2>1
<1>1. ASSUME Chain(v) PROVE Chain(w)
  <2> SUFFICES ASSUME NEW i \in 1..n, NEW j \in 1..n, i < j, Source(w[i]), IsSub(w[j]),
                      \A k \in 1..n : i < k /\ k < j => ~IsSub(w[k])
               PROVE  Leads(w[i], w[j])
    BY DEF Chain
  <2>1. j \in 2..n /\ j + 1 \in 1..n + 1 /\ w[j] = v[j + 1]
    OBVIOUS
  <2>2. \A k \in 3..n + 1 : i + 1 < k /\ k < j + 1 => ~IsSub(v[k])
    <3> SUFFICES ASSUME NEW k \in 3..n + 1, i + 1 < k, k < j + 1 PROVE ~IsSub(v[k])
      OBVIOUS
    <3>1. k - 1 \in 1..n /\ i < k - 1 /\ k - 1 < j /\ w[k - 1] = v[k]
      BY <1>0
    <3>2. ~IsSub(w[k - 1])
      BY <3>1
    <3> QED BY <3>1, <3>2
  <2>3. CASE i > 1
    <3>1. i \in 2..n /\ i + 1 \in 1..n + 1 /\ w[i] = v[i + 1] /\ i + 1 < j + 1
      BY <2>3
    <3>2. \A k \in 1..n + 1 : i + 1 < k /\ k < j + 1 => ~IsSub(v[k])
      BY <2>2, <3>1
    <3>3. Leads(v[i + 1], v[j + 1])
      BY <1>1, <2>1, <3>1, <3>2 DEF Chain
    <3> QED BY <2>1, <3>1, <3>3
  <2>4. CASE i = 1
    <3>1. 2 \in 1..n + 1 /\ 1 \in 1..n + 1 /\ 2 < j + 1 /\ 1 < j + 1
      BY <2>1
    <3>2. CASE Shut(w[1])
      BY <2>4, <3>2 DEF Leads
    <3>3. CASE ~IsSub(v[2]) /\ w[1] = v[1]
      <4>1. \A k \in 1..n + 1 : 1 < k /\ k < j + 1 => ~IsSub(v[k])
        BY <1>0, <2>2, <2>4, <3>3
      <4>2. Leads(v[1], v[j + 1])
        BY <1>1, <2>1, <2>4, <3>1, <3>3, <4>1 DEF Chain
      <4> QED BY <2>1, <2>4, <3>3, <4>2
    <3>4. CASE Source(v[2]) /\ ~Shut(v[2]) /\ Ending(w[1]) = Ending(v[2])
      <4>1. \A k \in 1..n + 1 : 2 < k /\ k < j + 1 => ~IsSub(v[k])
        BY <1>0, <2>2, <2>4
      <4>2. Leads(v[2], v[j + 1])
        BY <1>1, <2>1, <3>1, <3>4, <4>1 DEF Chain
      <4> QED BY <2>1, <2>4, <3>4, <4>2 DEF Leads
    <3> QED BY <3>2, <3>3, <3>4
  <2> QED BY <2>3, <2>4
<1>2. ASSUME NEW i \in 2..n, Latest(w, i) PROVE i + 1 \in 1..n + 1 /\ w[i] = v[i + 1] /\ Latest(v, i + 1)
  <2>1. i + 1 \in 1..n + 1 /\ w[i] = v[i + 1]
    OBVIOUS
  <2>2. ASSUME NEW k \in 1..n + 1, i + 1 < k PROVE ~IsSub(v[k])
    <3>1. k \in 3..n + 1 /\ k - 1 \in 1..n /\ i < k - 1 /\ w[k - 1] = v[k]
      BY <1>0, <2>2
    <3>2. ~IsSub(w[k - 1])
      BY <1>2, <3>1 DEF Latest
    <3> QED BY <3>1, <3>2
  <2> QED BY <1>2, <2>1, <2>2 DEF Latest
<1>3. ASSUME Latest(w, 1), ~Shut(w[1])
      PROVE  \E i \in {1, 2} : Latest(v, i) /\ ~Shut(v[i]) /\ Ending(v[i]) = Ending(w[1])
  <2>1. 1 \in 1..n + 1 /\ 2 \in 1..n + 1
    OBVIOUS
  <2>2. \A k \in 3..n + 1 : ~IsSub(v[k])
    <3> SUFFICES ASSUME NEW k \in 3..n + 1 PROVE ~IsSub(v[k])
      OBVIOUS
    <3>1. k - 1 \in 1..n /\ 1 < k - 1 /\ w[k - 1] = v[k]
      BY <1>0
    <3>2. ~IsSub(w[k - 1])
      BY <1>3, <3>1 DEF Latest
    <3> QED BY <3>1, <3>2
  <2>3. CASE ~IsSub(v[2]) /\ w[1] = v[1]
    <3>1. \A k \in 1..n + 1 : 1 < k => ~IsSub(v[k])
      BY <2>2, <2>3
    <3> QED BY <1>3, <2>3, <3>1 DEF Latest
  <2>4. CASE Source(v[2]) /\ ~Shut(v[2]) /\ Ending(w[1]) = Ending(v[2])
    <3>1. \A k \in 1..n + 1 : 2 < k => ~IsSub(v[k])
      BY <2>2
    <3> QED BY <1>3, <2>4, <3>1 DEF Latest
  <2> QED BY <1>3, <2>3, <2>4
<1>4. ASSUME NEW at, EndsAt(v, at) PROVE EndsAt(w, at)
  <2> SUFFICES ASSUME NEW i \in 1..n, Latest(w, i) PROVE Shut(w[i]) \/ Ending(w[i]) = at
    BY DEF EndsAt
  <2>1. CASE i = 1
    BY <1>3, <1>4, <2>1 DEF EndsAt
  <2>2. CASE i \in 2..n
    BY <1>2, <1>4, <2>2 DEF EndsAt
  <2> QED BY <2>1, <2>2
<1>5. ASSUME EndsShut(v) PROVE EndsShut(w)
  <2> SUFFICES ASSUME NEW i \in 1..n, Latest(w, i) PROVE Shut(w[i])
    BY DEF EndsShut
  <2>1. CASE i = 1
    BY <1>3, <1>5, <2>1 DEF EndsShut
  <2>2. CASE i \in 2..n
    BY <1>2, <1>5, <2>2 DEF EndsShut
  <2> QED BY <2>1, <2>2
<1> QED BY <1>1, <1>4, <1>5

\* w is v with one more item.
LEMMA Longer ==
  ASSUME NEW n \in Nat, NEW v, NEW w, DOMAIN v = 1..n, DOMAIN w = 1..n + 1,
         \A i \in 1..n : w[i] = v[i], Chain(v)
  PROVE  /\ ~Source(w[n + 1]) =>
              /\ Chain(w)
              /\ \A at : EndsAt(v, at) => EndsAt(w, at)
              /\ EndsShut(v) => EndsShut(w)
         /\ ~IsSub(w[n + 1]) /\ EndsAt(v, Ending(w[n + 1])) =>
              Chain(w) /\ EndsAt(w, Ending(w[n + 1]))
         /\ IsSub(w[n + 1]) /\ (w[n + 1].len = 0 \/ EndsAt(v, w[n + 1].pos)) =>
              /\ Chain(w) /\ EndsAt(w, Ending(w[n + 1]))
              /\ Shut(w[n + 1]) => EndsShut(w)
<1>0. n + 1 \in 1..n + 1 /\ \A i \in 1..n + 1 : i \in 1..n \/ i = n + 1
  OBVIOUS
<1>1. ASSUME ~IsSub(w[n + 1]) PROVE Chain(w) /\ \A i \in 1..n : Latest(w, i) => Latest(v, i)
  <2>1. ASSUME NEW i \in 1..n + 1, NEW j \in 1..n + 1, i < j, Source(w[i]), IsSub(w[j]),
               \A k \in 1..n + 1 : i < k /\ k < j => ~IsSub(w[k])
        PROVE  Leads(w[i], w[j])
    <3>1. j \in 1..n /\ i \in 1..n
      BY <1>0, <1>1, <2>1
    <3>2. \A k \in 1..n : i < k /\ k < j => ~IsSub(v[k])
      BY <2>1
    <3>3. Leads(v[i], v[j])
      BY <2>1, <3>1, <3>2 DEF Chain
    <3> QED BY <3>1, <3>3
  <2>2. \A i \in 1..n : Latest(w, i) => Latest(v, i)
    BY DEF Latest
  <2> QED BY <2>1, <2>2 DEF Chain
<1>2. ASSUME ~Source(w[n + 1])
      PROVE  /\ Chain(w)
             /\ \A at : EndsAt(v, at) => EndsAt(w, at)
             /\ EndsShut(v) => EndsShut(w)
  <2>1. ~IsSub(w[n + 1]) /\ ~Latest(w, n + 1)
    BY <1>2 DEF Source, Latest
  <2> QED BY <1>0, <1>1, <2>1 DEF EndsAt, EndsShut
<1>3. ASSUME ~IsSub(w[n + 1]), EndsAt(v, Ending(w[n + 1]))
      PROVE  Chain(w) /\ EndsAt(w, Ending(w[n + 1]))
  BY <1>0, <1>1, <1>3 DEF EndsAt
<1>4. ASSUME IsSub(w[n + 1]), w[n + 1].len = 0 \/ EndsAt(v, w[n + 1].pos)
      PROVE  /\ Chain(w) /\ EndsAt(w, Ending(w[n + 1]))
             /\ Shut(w[n + 1]) => EndsShut(w)
  <2>1. ASSUME NEW i \in 1..n + 1, NEW j \in 1..n + 1, i < j, Source(w[i]), IsSub(w[j]),
               \A k \in 1..n + 1 : i < k /\ k < j => ~IsSub(w[k])
        PROVE  Leads(w[i], w[j])
    <3>1. i \in 1..n
      BY <1>0, <2>1
    <3>2. CASE j \in 1..n
      <4>1. \A k \in 1..n : i < k /\ k < j => ~IsSub(v[k])
        BY <2>1
      <4> QED BY <2>1, <3>1, <3>2, <4>1 DEF Chain
    <3>3. CASE j = n + 1
      <4>1. Latest(v, i)
        BY <2>1, <3>1, <3>3 DEF Latest
      <4> QED BY <1>4, <3>1, <3>3, <4>1 DEF EndsAt, Leads
    <3> QED BY <1>0, <3>2, <3>3
  <2>2. \A i \in 1..n + 1 : Latest(w, i) => i = n + 1
    BY <1>0, <1>4 DEF Latest
  <2> QED BY <1>0, <2>1, <2>2 DEF Chain, EndsAt, EndsShut
<1> QED BY <1>2, <1>3, <1>4

\* w is a beginning of v.
LEMMA Shorter ==
  ASSUME NEW n \in Nat, NEW m \in 0..n, NEW v, NEW w, DOMAIN v = 1..n, DOMAIN w = 1..m,
         \A i \in 1..m : w[i] = v[i], Chain(v)
  PROVE  Chain(w)
<1> SUFFICES ASSUME NEW i \in 1..m, NEW j \in 1..m, i < j, Source(w[i]), IsSub(w[j]),
                    \A k \in 1..m : i < k /\ k < j => ~IsSub(w[k])
             PROVE  Leads(w[i], w[j])
  BY DEF Chain
<1>1. \A k \in 1..n : i < k /\ k < j => ~IsSub(v[k])
  OBVIOUS
<1> QED BY <1>1 DEF Chain

\* Another item on the line.
LEMMA BehindOne ==
  ASSUME NEW S, NEW c \in Seq(S), NEW m \in S, NEW r, Chain(Behind(r, c))
  PROVE  /\ ~Source(m) =>
              /\ Chain(Behind(r, c \o <<m>>))
              /\ \A at : EndsAt(Behind(r, c), at) => EndsAt(Behind(r, c \o <<m>>), at)
              /\ EndsShut(Behind(r, c)) => EndsShut(Behind(r, c \o <<m>>))
         /\ ~IsSub(m) /\ EndsAt(Behind(r, c), Ending(m)) =>
              Chain(Behind(r, c \o <<m>>)) /\ EndsAt(Behind(r, c \o <<m>>), Ending(m))
         /\ IsSub(m) /\ (m.len = 0 \/ EndsAt(Behind(r, c), m.pos)) =>
              /\ Chain(Behind(r, c \o <<m>>)) /\ EndsAt(Behind(r, c \o <<m>>), Ending(m))
              /\ Shut(m) => EndsShut(Behind(r, c \o <<m>>))
<1> DEFINE d == c \o <<m>>
           n == Len(c) + 1
           v == Behind(r, c)
           w == Behind(r, d)
<1>1. /\ Len(c) \in Nat /\ Len(<<m>>) = 1 /\ <<m>> \in Seq(S) /\ <<m>>[1] = m
  BY LenProperties
<1>2. /\ Len(d) = Len(c) + 1
      /\ \A i \in 1..Len(c) + 1 : d[i] = IF i <= Len(c) THEN c[i] ELSE <<m>>[i - Len(c)]
  BY <1>1, ConcatProperties
<1>3. n \in Nat /\ DOMAIN v = 1..n /\ DOMAIN w = 1..n + 1
  BY <1>1, <1>2 DEF Behind
<1>4. ASSUME NEW i \in 1..n PROVE w[i] = v[i]
  <2>1. i # 1 => i - 1 \in 1..Len(c) + 1 /\ i - 1 <= Len(c)
    BY <1>1
  <2>2. i \in 1..n + 1 /\ i \in 1..Len(d) + 1
    BY <1>1, <1>2
  <2> QED BY <1>2, <2>1, <2>2 DEF Behind
<1>5. w[n + 1] = m
  <2>1. n + 1 \in 1..Len(d) + 1 /\ (n + 1) - 1 = Len(c) + 1 /\ n + 1 # 1
    BY <1>1, <1>2
  <2>2. w[n + 1] = d[Len(c) + 1]
    BY <2>1 DEF Behind
  <2>3. Len(c) + 1 \in 1..Len(c) + 1 /\ ~(Len(c) + 1 <= Len(c)) /\ (Len(c) + 1) - Len(c) = 1
    BY <1>1
  <2> QED BY <1>1, <1>2, <2>2, <2>3
<1> HIDE DEF d, n, v, w
<1>6. Chain(v)
  BY DEF v
<1>7. /\ ~Source(w[n + 1]) =>
           /\ Chain(w)
           /\ \A at : EndsAt(v, at) => EndsAt(w, at)
           /\ EndsShut(v) => EndsShut(w)
      /\ ~IsSub(w[n + 1]) /\ EndsAt(v, Ending(w[n + 1])) =>
           Chain(w) /\ EndsAt(w, Ending(w[n + 1]))
      /\ IsSub(w[n + 1]) /\ (w[n + 1].len = 0 \/ EndsAt(v, w[n + 1].pos)) =>
           /\ Chain(w) /\ EndsAt(w, Ending(w[n + 1]))
           /\ Shut(w[n + 1]) => EndsShut(w)
  BY <1>3, <1>4, <1>6, Longer
<1>8. ASSUME ~Source(m)
      PROVE  /\ Chain(w)
             /\ \A at : EndsAt(v, at) => EndsAt(w, at)
             /\ EndsShut(v) => EndsShut(w)
  <2>1. ~Source(w[n + 1])
    BY <1>5, <1>8
  <2> QED BY <1>7, <2>1
<1>9. ASSUME ~IsSub(m), EndsAt(v, Ending(m)) PROVE Chain(w) /\ EndsAt(w, Ending(m))
  BY <1>5, <1>7, <1>9
<1>10. ASSUME IsSub(m), m.len = 0 \/ EndsAt(v, m.pos)
       PROVE  /\ Chain(w) /\ EndsAt(w, Ending(m))
              /\ Shut(m) => EndsShut(w)
  BY <1>5, <1>7, <1>10
<1> QED BY <1>8, <1>9, <1>10 DEF v, w, d

\* The first item has been taken, or a header has been lost.
LEMMA BehindTail ==
  ASSUME NEW S, NEW c \in Seq(S), c # << >>, NEW r, NEW q, IsSub(q), q.len = 0,
         \/ Shut(q)
         \/ ~IsSub(c[1]) /\ q = r
         \/ Source(c[1]) /\ ~Shut(c[1]) /\ Ending(q) = Ending(c[1])
  PROVE  /\ Chain(Behind(r, c)) => Chain(Behind(q, Tail(c)))
         /\ \A at : EndsAt(Behind(r, c), at) => EndsAt(Behind(q, Tail(c)), at)
         /\ EndsShut(Behind(r, c)) => EndsShut(Behind(q, Tail(c)))
<1> DEFINE n == Len(c)
           v == Behind(r, c)
           w == Behind(q, Tail(c))
<1>1. /\ n \in Nat \ {0} /\ Tail(c) \in Seq(S) /\ Len(Tail(c)) = n - 1
      /\ \A i \in 1..n - 1 : Tail(c)[i] = c[i + 1]
  BY HeadTailProperties, EmptySeq
<1>2. DOMAIN v = 1..n + 1 /\ DOMAIN w = 1..n /\ v[1] = r /\ v[2] = c[1] /\ w[1] = q
  BY <1>1 DEF Behind
<1>3. ASSUME NEW i \in 2..n PROVE w[i] = v[i + 1]
  <2>1. i \in 1..n /\ i # 1 /\ i - 1 \in 1..n - 1 /\ (i - 1) + 1 = i /\ i + 1 \in 1..n + 1
        /\ i + 1 # 1 /\ (i + 1) - 1 = i
    BY <1>1
  <2>2. w[i] = Tail(c)[i - 1]
    BY <1>1, <2>1 DEF Behind
  <2>3. v[i + 1] = c[i]
    BY <2>1 DEF Behind
  <2>4. Tail(c)[i - 1] = c[(i - 1) + 1]
    BY <1>1, <2>1
  <2> QED BY <2>1, <2>2, <2>3, <2>4
<1> HIDE DEF n, v, w
<1>4. /\ Chain(v) => Chain(w)
      /\ \A at : EndsAt(v, at) => EndsAt(w, at)
      /\ EndsShut(v) => EndsShut(w)
  <2>1. \/ Shut(w[1])
        \/ ~IsSub(v[2]) /\ w[1] = v[1]
        \/ Source(v[2]) /\ ~Shut(v[2]) /\ Ending(w[1]) = Ending(v[2])
    BY <1>2
  <2>2. IsSub(w[1]) /\ w[1].len = 0
    BY <1>2
  <2> QED BY <1>1, <1>2, <1>3, <2>1, <2>2, Taken
<1> QED BY <1>4 DEF v, w

\* The receiver takes no more data for now.
LEMMA BehindShut ==
  ASSUME NEW S, NEW c \in Seq(S), NEW r, NEW q, IsSub(r), IsSub(q), q.len = 0, Shut(q)
  PROVE  /\ Chain(Behind(r, c)) => Chain(Behind(q, c))
         /\ \A at : EndsAt(Behind(r, c), at) => EndsAt(Behind(q, c), at)
         /\ EndsShut(Behind(r, c)) => EndsShut(Behind(q, c))
<1> DEFINE n == Len(c) + 1
           v == Behind(r, c)
           w == Behind(q, c)
<1>1. n \in Nat /\ DOMAIN v = 1..n /\ DOMAIN w = 1..n
  BY LenProperties DEF Behind
<1>2. \A i \in 1..n : (i = 1 /\ v[i] = r /\ w[i] = q) \/ w[i] = v[i]
  BY DEF Behind
<1> HIDE DEF n, v, w
<1>3. \A i \in 1..n :
           /\ IsSub(w[i]) <=> IsSub(v[i])
           /\ w[i].len = 0 \/ (w[i].len = v[i].len /\ w[i].pos = v[i].pos)
           /\ Source(w[i]) =>
                /\ Source(v[i])
                /\ Shut(w[i]) \/ (Ending(w[i]) = Ending(v[i]) /\ (Shut(v[i]) => Shut(w[i])))
  BY <1>2 DEF Source
<1>4. /\ Chain(v) => Chain(w)
      /\ \A at : EndsAt(v, at) => EndsAt(w, at)
      /\ EndsShut(v) => EndsShut(w)
  BY <1>1, <1>3, Weakened
<1> QED BY <1>4 DEF v, w

\* The first item is garbled.
LEMMA BehindGarbled ==
  ASSUME NEW S, NEW c \in Seq(S), c # << >>, NEW r, NEW g \in S,
         IsSub(g) <=> IsSub(c[1]), IsSub(g) => g.len = c[1].len /\ g.pos = c[1].pos /\ g.kind = c[1].kind,
         ~IsSub(g) => g.type # "DATA" /\ g.len = 0
  PROVE  /\ Chain(Behind(r, c)) => Chain(Behind(r, <<g>> \o Tail(c)))
         /\ \A at : EndsAt(Behind(r, c), at) => EndsAt(Behind(r, <<g>> \o Tail(c)), at)
         /\ EndsShut(Behind(r, c)) => EndsShut(Behind(r, <<g>> \o Tail(c)))
<1> DEFINE n == Len(c) + 1
           d == <<g>> \o Tail(c)
           v == Behind(r, c)
           w == Behind(r, d)
<1>1. /\ Len(c) \in Nat \ {0} /\ Tail(c) \in Seq(S) /\ Len(Tail(c)) = Len(c) - 1
      /\ \A i \in 1..Len(c) - 1 : Tail(c)[i] = c[i + 1]
  BY HeadTailProperties, EmptySeq
<1>2. Len(<<g>>) = 1 /\ <<g>> \in Seq(S) /\ <<g>>[1] = g
  OBVIOUS
<1>3. /\ Len(d) = Len(c)
      /\ \A i \in 1..Len(c) : d[i] = IF i <= 1 THEN <<g>>[i] ELSE Tail(c)[i - 1]
  <2>1. 1 + Len(Tail(c)) = Len(c)
    BY <1>1
  <2> QED BY <1>1, <1>2, <2>1, ConcatProperties
<1>4. \A i \in 1..Len(c) : d[i] = IF i = 1 THEN g ELSE c[i]
  <2> SUFFICES ASSUME NEW i \in 1..Len(c) PROVE d[i] = IF i = 1 THEN g ELSE c[i]
    OBVIOUS
  <2>1. CASE i = 1
    BY <1>2, <1>3, <2>1
  <2>2. CASE i # 1
    <3>1. ~(i <= 1) /\ i - 1 \in 1..Len(c) - 1 /\ (i - 1) + 1 = i
      BY <1>1, <2>2
    <3>2. Tail(c)[i - 1] = c[(i - 1) + 1]
      BY <1>1, <3>1
    <3> QED BY <1>3, <2>2, <3>1, <3>2
  <2> QED BY <2>1, <2>2
<1>5. n \in Nat /\ DOMAIN v = 1..n /\ DOMAIN w = 1..n
  BY <1>1, <1>3 DEF Behind
<1>6. \A i \in 1..n : (v[i] = c[1] /\ w[i] = g) \/ w[i] = v[i]
  <2> SUFFICES ASSUME NEW i \in 1..n PROVE (v[i] = c[1] /\ w[i] = g) \/ w[i] = v[i]
    OBVIOUS
  <2>1. i = 1 \/ (i # 1 /\ i - 1 \in 1..Len(c))
    BY <1>1
  <2>2. v[i] = (IF i = 1 THEN r ELSE c[i - 1]) /\ w[i] = (IF i = 1 THEN r ELSE d[i - 1])
    BY <1>3 DEF Behind
  <2> QED BY <1>4, <2>1, <2>2
<1> HIDE DEF n, d, v, w
<1>7. \A i \in 1..n :
           /\ IsSub(w[i]) <=> IsSub(v[i])
           /\ w[i].len = 0 \/ (w[i].len = v[i].len /\ w[i].pos = v[i].pos)
           /\ Source(w[i]) =>
                /\ Source(v[i])
                /\ Shut(w[i]) \/ (Ending(w[i]) = Ending(v[i]) /\ (Shut(v[i]) => Shut(w[i])))
  BY <1>6 DEF Source, Ending, Shut
<1>8. /\ Chain(v) => Chain(w)
      /\ \A at : EndsAt(v, at) => EndsAt(w, at)
      /\ EndsShut(v) => EndsShut(w)
  BY <1>5, <1>7, Weakened
<1> QED BY <1>8 DEF v, w, d

\* What was sent last is thrown away.
LEMMA BehindCut ==
  ASSUME NEW S, NEW c \in Seq(S), NEW m \in 0..Len(c), NEW r, Chain(Behind(r, c))
  PROVE  SubSeq(c, 1, m) \in Seq(S) /\ Chain(Behind(r, SubSeq(c, 1, m)))
<1> DEFINE d == SubSeq(c, 1, m)
           v == Behind(r, c)
           w == Behind(r, d)
<1>1. Len(c) \in Nat /\ m \in Nat /\ \A i \in 1..m : c[i] \in S
  BY LenProperties, ElementOfSeq
<1>2. d \in Seq(S) /\ Len(d) = m /\ \A i \in 1..m : d[i] = c[i]
  <2>1. /\ d \in Seq(S) /\ Len(d) = (IF 1 <= m THEN m - 1 + 1 ELSE 0)
        /\ \A i \in 1..m - 1 + 1 : d[i] = c[1 + i - 1]
    BY <1>1, SubSeqProperties
  <2>2. m - 1 + 1 = m /\ \A i \in 1..m : 1 + i - 1 = i
    BY <1>1
  <2> QED BY <1>1, <2>1, <2>2
<1>3. DOMAIN v = 1..Len(c) + 1 /\ DOMAIN w = 1..m + 1 /\ Len(c) + 1 \in Nat /\ m + 1 \in 0..Len(c) + 1
  BY <1>1, <1>2 DEF Behind
<1>4. \A i \in 1..m + 1 : w[i] = v[i]
  <2> SUFFICES ASSUME NEW i \in 1..m + 1 PROVE w[i] = v[i]
    OBVIOUS
  <2>1. i \in 1..Len(c) + 1 /\ (i = 1 \/ i - 1 \in 1..m)
    BY <1>1
  <2> QED BY <1>2, <2>1 DEF Behind
<1> HIDE DEF d, v, w
<1>5. Chain(w)
  <2>1. Chain(v)
    BY DEF v
  <2> QED BY <1>3, <1>4, <2>1, Shorter
<1> QED BY <1>2, <1>5 DEF w, d

-----------------------------------------------------------------------------
(* The two directions of a line                                             *)

LEMMA Nodes ==
  ASSUME NEW p \in Node
  PROVE  /\ Peer(p) \in Node /\ Peer(p) # p /\ Peer(Peer(p)) = p
         /\ \A s \in Node : s = p \/ s = Peer(p)
BY ZmodemAssumption DEF Peer

LEMMA ReceivedIs ==
  ASSUME NEW p
  PROVE  /\ IsSub(Received(p)) /\ Received(p).len = 0
         /\ Received(p) = EmptyE \/ (z[p].st = "WAITDATA" /\ ~z[p].dirty)
         /\ IsSub(EmptyE) /\ Shut(EmptyE) /\ EmptyE.len = 0
BY DEF Received, EmptyE, Sub, IsSub, Shut

\* p takes an item and goes on to take data where it ends, or takes none.
Heard(p) ==
  \/ Shut(Received(p)')
  \/ ~IsSub(chan[p][1]) /\ Received(p)' = Received(p)
  \/ Source(chan[p][1]) /\ ~Shut(chan[p][1]) /\ Ending(Received(p)') = Ending(chan[p][1])

\* A step of p, seen from what is on the way to p.
LEMMA Hears ==
  ASSUME NEW p \in Node, Flow(Peer(p)), NEW S, chan[p] \in Seq(S),
         z'[Peer(p)] = z[Peer(p)],
         Running(Peer(p)) /\ z[Peer(p)].st \in OpenStates =>
           snd'[z[Peer(p)].cur].pos = snd[z[Peer(p)].cur].pos,
         Running(p)' =>
           /\ Running(p)
           /\ \/ chan'[p] = chan[p] /\ Received(p)' \in {Received(p), EmptyE}
              \/ chan[p] # << >> /\ chan'[p] = Tail(chan[p]) /\ Heard(p)
  PROVE  Flow(Peer(p))'
<1> DEFINE v == Behind(Received(p), chan[p])
           w == Behind(Received(p)', chan'[p])
<1>1. Peer(Peer(p)) = p
  BY Nodes
<1>2. CASE ~Running(p)'
  BY <1>1, <1>2 DEF Flow
<1>3. CASE Running(p)'
  <2>1. IsSub(Received(p)) /\ IsSub(Received(p)') /\ Received(p)'.len = 0
    <3>1. IsSub(Received(p)') /\ Received(p)'.len = 0
      BY DEF Received, EmptyE, Sub, IsSub
    <3> QED BY <3>1, ReceivedIs
  <2>2. /\ Chain(v) => Chain(w)
        /\ \A at : EndsAt(v, at) => EndsAt(w, at)
        /\ EndsShut(v) => EndsShut(w)
    <3>1. CASE chan'[p] = chan[p] /\ Received(p)' = Received(p)
      BY <3>1
    <3>2. CASE chan'[p] = chan[p] /\ Received(p)' = EmptyE
      BY <2>1, <3>2, ReceivedIs, BehindShut
    <3>3. CASE chan[p] # << >> /\ chan'[p] = Tail(chan[p]) /\ Heard(p)
      BY <2>1, <3>3, BehindTail DEF Heard
    <3> QED BY <1>3, <3>1, <3>2, <3>3
  <2>3. Chain(v) /\ (Running(Peer(p)) /\ z[Peer(p)].st \in OpenStates => EndsAt(v, snd[z[Peer(p)].cur].pos))
        /\ (Running(Peer(p)) /\ z[Peer(p)].st \in ShutStates => EndsShut(v))
    BY <1>1, <1>3 DEF Flow, View
  <2> HIDE DEF v, w
  <2>4. Chain(w) /\ (Running(Peer(p)) /\ z[Peer(p)].st \in OpenStates => EndsAt(w, snd'[z[Peer(p)].cur].pos))
        /\ (Running(Peer(p)) /\ z[Peer(p)].st \in ShutStates => EndsShut(w))
    BY <2>2, <2>3
  <2>5. Running(Peer(p))' = Running(Peer(p))
    BY DEF Running
  <2> QED BY <1>1, <2>4, <2>5 DEF w, Flow, View
<1> QED BY <1>2, <1>3

\* What p says leaves its peer as it is; p goes on where it may.
Unheard(p) ==
  /\ z'[Peer(p)] = z[Peer(p)]
  /\ Running(Peer(p)) => Received(Peer(p))' = Received(Peer(p))
GoesOn(p) ==
  Running(p)' =>
    /\ Running(p)
    /\ z'[p].st \in OpenStates =>
         \/ z[p].st \in OpenStates /\ snd'[z'[p].cur].pos = snd[z[p].cur].pos
         \/ z[p].st \in ShutStates
    /\ z'[p].st \in ShutStates => z[p].st \in ShutStates

LEMMA ShutIsAnywhere ==
  ASSUME NEW v, EndsShut(v)
  PROVE  \A at : EndsAt(v, at)
BY DEF EndsShut, EndsAt

\* p says nothing, or something that is no data.
LEMMA SaysNoData ==
  ASSUME NEW p \in Node, Flow(p), NEW S, chan[Peer(p)] \in Seq(S), Unheard(p), GoesOn(p),
         \/ chan'[Peer(p)] = chan[Peer(p)]
         \/ ~Running(Peer(p))
         \/ \E m \in S : ~Source(m) /\ chan'[Peer(p)] = chan[Peer(p)] \o <<m>>
  PROVE  Flow(p)'
<1> DEFINE q == Peer(p)
           v == Behind(Received(q), chan[q])
           w == Behind(Received(q)', chan'[q])
<1>1. Running(q)' = Running(q)
  BY DEF Running, Unheard
<1>2. CASE ~Running(q)
  BY <1>1, <1>2 DEF Flow
<1>3. CASE Running(q)
  <2>1. Chain(v) /\ (Running(p) /\ z[p].st \in OpenStates => EndsAt(v, snd[z[p].cur].pos))
        /\ (Running(p) /\ z[p].st \in ShutStates => EndsShut(v))
    BY <1>3 DEF Flow, View
  <2>2. /\ Chain(w)
        /\ \A at : EndsAt(v, at) => EndsAt(w, at)
        /\ EndsShut(v) => EndsShut(w)
    <3>1. CASE chan'[q] = chan[q]
      BY <1>3, <2>1, <3>1 DEF Unheard
    <3>2. ASSUME NEW m \in S, ~Source(m), chan'[q] = chan[q] \o <<m>>
          PROVE  /\ Chain(w)
                 /\ \A at : EndsAt(v, at) => EndsAt(w, at)
                 /\ EndsShut(v) => EndsShut(w)
      BY <1>3, <2>1, <3>2, BehindOne DEF Unheard
    <3> QED BY <1>3, <3>1, <3>2
  <2> HIDE DEF v, w
  <2>3. /\ Running(p)' /\ z'[p].st \in OpenStates => EndsAt(w, snd'[z'[p].cur].pos)
        /\ Running(p)' /\ z'[p].st \in ShutStates => EndsShut(w)
    BY <2>1, <2>2, ShutIsAnywhere DEF GoesOn
  <2> QED BY <2>2, <2>3 DEF w, Flow, View
<1> QED BY <1>2, <1>3

\* p ends the frame, or says what its file is; what it said last may be lost.
LEMMA SaysShut ==
  ASSUME NEW p \in Node, NEW S, NEW c \in Seq(S), NEW m \in S, Unheard(p),
         Running(Peer(p)) => Chain(Behind(Received(Peer(p)), c)),
         IsSub(m), Shut(m), m.len = 0,
         Running(Peer(p)) => chan'[Peer(p)] = c \o <<m>>
  PROVE  Flow(p)'
<1> DEFINE q == Peer(p)
           w == Behind(Received(q)', chan'[q])
<1>1. Running(q)' = Running(q)
  BY DEF Running, Unheard
<1>2. CASE ~Running(q)
  BY <1>1, <1>2 DEF Flow
<1>3. CASE Running(q)
  <2>1. Chain(w) /\ EndsShut(w)
    BY <1>3, BehindOne DEF Unheard
  <2> HIDE DEF w
  <2>2. \A at : EndsAt(w, at)
    BY <2>1, ShutIsAnywhere
  <2> QED BY <2>1, <2>2 DEF w, Flow, View
<1> QED BY <1>2, <1>3

\* p begins a frame, or sends a block of it.
LEMMA SaysData ==
  ASSUME NEW p \in Node, Flow(p), NEW S, chan[Peer(p)] \in Seq(S), NEW m \in S, Unheard(p),
         Running(p), z[p].st \in OpenStates,
         Running(Peer(p)) => chan'[Peer(p)] = chan[Peer(p)] \o <<m>>,
         \/ ~IsSub(m) /\ Ending(m) = snd[z[p].cur].pos
         \/ IsSub(m) /\ m.pos = snd[z[p].cur].pos,
         z'[p].st \in OpenStates => snd'[z'[p].cur].pos = Ending(m),
         z'[p].st \in ShutStates => IsSub(m) /\ Shut(m)
  PROVE  Flow(p)'
<1> DEFINE q == Peer(p)
           v == Behind(Received(q), chan[q])
           w == Behind(Received(q)', chan'[q])
<1>1. Running(q)' = Running(q)
  BY DEF Running, Unheard
<1>2. CASE ~Running(q)
  BY <1>1, <1>2 DEF Flow
<1>3. CASE Running(q)
  <2>1. Chain(v) /\ EndsAt(v, snd[z[p].cur].pos)
    BY <1>3 DEF Flow, View
  <2>2. Chain(w) /\ EndsAt(w, Ending(m)) /\ (IsSub(m) /\ Shut(m) => EndsShut(w))
    BY <1>3, <2>1, BehindOne DEF Unheard
  <2> HIDE DEF w
  <2> QED BY <2>2 DEF w, Flow, View
<1> QED BY <1>2, <1>3

-----------------------------------------------------------------------------
(* Types                                                                    *)

LEMMA Constants ==
  /\ Caller \in Node /\ NoFile \notin File /\ MaxTries \in Nat /\ Cap \in Nat
  /\ Size \in [File -> Nat]
  /\ \A s \in Sessions :
       /\ s \in Session
       /\ \A p, r \in Node : \A i \in DOMAIN s.queue[p], j \in DOMAIN s.queue[r] :
            s.queue[p][i] = s.queue[r][j] => p = r
BY ZmodemAssumption

LEMMA MineIs ==
  ASSUME sess \in Sessions, NEW p \in Node
  PROVE  Mine(p) \subseteq File /\ NoFile \notin Mine(p) /\ Mine(p) \cap Mine(Peer(p)) = {}
<1>1. sess.queue[p] \in Seq(File)
  BY Constants DEF Session
<1>2. Mine(p) \subseteq File
  BY <1>1, ElementOfSeq, LenProperties DEF Mine
<1>3. Mine(p) \cap Mine(Peer(p)) = {}
  BY Constants, Nodes DEF Mine
<1> QED BY <1>2, <1>3, Constants

LEMMA Places ==
  /\ \A st \in State : Again(st) \in State /\ AfterRead(st) \in State
  /\ \A st \in State : Again(st) \in ShutStates => st \in ShutStates
  /\ \A st \in State : Again(st) \in OpenStates => Again(st) = st
  /\ \A st \in State : Again(st) \in RecvStates => st \in RecvStates
  /\ \A st \in State : Again(st) = "WAITDATA" => st = "WAITDATA"
  /\ \A st \in State : AfterRead(st) \in OpenStates \cup ShutStates \cup RecvStates => AfterRead(st) = st
BY DEF State, Again, AfterRead, ShutStates, OpenStates, RecvStates

\* What p does to itself.
LEMMA LocalsKept ==
  ASSUME TypeOK, sess' = sess, NEW p \in Node, NEW r \in Local, Becomes(p, r) \/ Moves(p, r),
         r.cur \in Mine(p) \cup {NoFile}, r.recv \in Mine(Peer(p)) \cup {NoFile},
         r.rc = "run" =>
           /\ r.st \in OpenStates \cup ShutStates => r.cur # NoFile
           /\ r.st \in RecvStates => r.recv # NoFile
  PROVE  LocalsOk'
<1>1. PICK b \in BOOLEAN : z' = [z EXCEPT ![p] = [r EXCEPT !.moved = b]]
  BY DEF Becomes, Moves
<1> DEFINE t == [r EXCEPT !.moved = b]
<1>2. t \in Local /\ t.cur = r.cur /\ t.recv = r.recv /\ t.st = r.st /\ t.rc = r.rc
  BY DEF Local
<1> HIDE DEF t
<1>3. z' \in [Node -> Local] /\ z'[p] = t /\ \A s \in Node : s # p => z'[s] = z[s]
  BY <1>1, <1>2 DEF TypeOK, LocalsOk, t
<1>4. \A s \in Node : Mine(s)' = Mine(s)
  BY DEF Mine
<1>5. LocalOk(p)'
  BY <1>2, <1>3, <1>4, Nodes DEF LocalOk, Running
<1>6. ASSUME NEW s \in Node, s # p PROVE LocalOk(s)'
  BY <1>3, <1>4, <1>6, Nodes DEF LocalOk, Running, TypeOK, LocalsOk
<1> QED BY <1>3, <1>5, <1>6 DEF LocalsOk

LEMMA LocalFacts ==
  ASSUME TypeOK, NEW p \in Node
  PROVE  /\ z[p] \in Local /\ z[p].st \in State
         /\ z[p].cur \in Mine(p) \cup {NoFile} /\ z[p].recv \in Mine(Peer(p)) \cup {NoFile}
         /\ Running(p) => z[p].rc = "run"
         /\ Running(p) /\ z[p].st \in OpenStates \cup ShutStates => z[p].cur # NoFile
         /\ Running(p) /\ z[p].st \in RecvStates => z[p].recv # NoFile
<1>1. z[p] \in Local /\ LocalOk(p)
  BY DEF TypeOK, LocalsOk
<1>2. z[p].st \in State
  BY <1>1 DEF Local
<1> QED BY <1>1, <1>2 DEF LocalOk, Running

\* The locals stay locals when one of them is set.
LEMMA Updates ==
  ASSUME NEW r \in Local
  PROVE  /\ \A x \in State : [r EXCEPT !.st = x] \in Local
         /\ \A x \in Nat : [r EXCEPT !.tries = x] \in Local
         /\ \A x \in Nat : [r EXCEPT !.rinits = x] \in Local
         /\ \A x \in BOOLEAN : [r EXCEPT !.acked = x] \in Local
         /\ \A x \in File \cup {NoFile} : [r EXCEPT !.cur = x] \in Local
         /\ \A x \in Int : [r EXCEPT !.sync = x] \in Local
         /\ \A x \in Int : [r EXCEPT !.last = x] \in Local
         /\ \A x \in File \cup {NoFile} : [r EXCEPT !.recv = x] \in Local
         /\ \A x \in {"RINIT", "SKIP", "FERR"} : [r EXCEPT !.init = x] \in Local
         /\ \A x \in BOOLEAN : [r EXCEPT !.rqinits = x] \in Local
         /\ \A x \in Nat : [r EXCEPT !.fins = x] \in Local
         /\ \A x \in BOOLEAN : [r EXCEPT !.dirty = x] \in Local
         /\ \A x \in {"run", "ok", "error", "crash"} : [r EXCEPT !.rc = x] \in Local
BY DEF Local

\* A mailer that goes on with the same files.
LEMMA Stays ==
  ASSUME TypeOK, sess' = sess, NEW p \in Node, Running(p),
         NEW r \in Local, Becomes(p, r) \/ Moves(p, r),
         r.cur = z[p].cur, r.recv = z[p].recv,
         r.st \in OpenStates \cup ShutStates => z[p].st \in OpenStates \cup ShutStates,
         r.st \in RecvStates => z[p].st \in RecvStates
  PROVE  LocalsOk'
BY LocalFacts, LocalsKept

\* The first item on its way to p.
LEMMA FirstItem ==
  ASSUME TypeOK, NEW p \in Node, chan[p] # << >>
  PROVE  /\ chan[p][1] \in From(Peer(p)) /\ chan[p][1].pos \in Nat /\ chan[p][1].len \in Nat
         /\ Tail(chan[p]) \in Seq(From(Peer(p)))
<1>1. chan[p] \in Seq(From(Peer(p)))
  BY DEF TypeOK, LinesOk
<1>2. chan[p][1] \in From(Peer(p)) /\ Tail(chan[p]) \in Seq(From(Peer(p)))
  BY <1>1, HeadTailProperties, ElementOfSeq, EmptySeq
<1> QED BY <1>2 DEF From

\* A block, how it ends and what the sender does next.
NextState(k, look) ==
  CASE k = "E" -> "EOF" [] k = "W" -> "CRCWACK" [] k = "Q" -> "CRCQACK"
    [] k = "G" -> IF look THEN "READCHECK" ELSE "DATA"

LEMMA BlockSent ==
  ASSUME NEW p \in Node, SendBlock(p)
  PROVE  /\ At(p, {"DATA"}) /\ sess' = sess
         /\ UNCHANGED <<queue, rcv, inbound, gone, trouble, noise>>
         /\ \E n \in 0..(Size[z[p].cur] - snd[z[p].cur].pos), eof \in BOOLEAN,
              look \in BOOLEAN, k \in {"E", "W", "Q", "G"} :
              /\ n > 0 \/ k = "E"
              /\ snd' = [snd EXCEPT ![z[p].cur].pos = @ + n, ![z[p].cur].eof = eof]
              /\ Moves(p, [z[p] EXCEPT !.st = NextState(k, look), !.tries = IF k = "E" THEN 0 ELSE @])
              /\ Sends(p, <<[Sub("SUB", z[p].cur, k, n) EXCEPT !.pos = snd[z[p].cur].pos]>>)
<1> DEFINE f == z[p].cur
           rest == Size[f] - snd[f].pos
<1>1. /\ At(p, {"DATA"}) /\ sess' = sess
      /\ UNCHANGED <<queue, rcv, inbound, gone, trouble, noise>>
  BY DEF SendBlock
<1> DEFINE Sent(n, eof, look) ==
             LET k == DataType(p, n, eof)
                 st == CASE k = "E" -> "EOF" [] k = "W" -> "CRCWACK" [] k = "Q" -> "CRCQACK"
                         [] k = "G" -> IF look THEN "READCHECK" ELSE "DATA"
             IN  /\ n > 0 \/ eof
                 /\ look => k = "G"
                 /\ snd' = [snd EXCEPT ![f].pos = @ + n, ![f].eof = eof]
                 /\ Moves(p, [z[p] EXCEPT !.st = st, !.tries = IF k = "E" THEN 0 ELSE @])
                 /\ Sends(p, <<[Sub("SUB", f, k, n) EXCEPT !.pos = snd[f].pos]>>)
<1>2. PICK n \in 0..rest : \E eof \in {FALSE, n = rest} : \E look \in {FALSE, chan[p] # << >>} : Sent(n, eof, look)
  BY Zenon DEF SendBlock
<1>a. PICK eof \in {FALSE, n = rest} : \E look \in {FALSE, chan[p] # << >>} : Sent(n, eof, look)
  BY <1>2
<1>b. PICK look \in {FALSE, chan[p] # << >>} : Sent(n, eof, look)
  BY <1>a
<1>3. DataType(p, n, eof) \in {"E", "W", "Q", "G"} /\ (eof => DataType(p, n, eof) = "E")
  BY DEF DataType
<1>4. eof \in BOOLEAN /\ look \in BOOLEAN
  OBVIOUS
<1> DEFINE k == DataType(p, n, eof)
<1>5. /\ n > 0 \/ k = "E"
      /\ snd' = [snd EXCEPT ![f].pos = @ + n, ![f].eof = eof]
      /\ Moves(p, [z[p] EXCEPT !.st = NextState(k, look), !.tries = IF k = "E" THEN 0 ELSE @])
      /\ Sends(p, <<[Sub("SUB", f, k, n) EXCEPT !.pos = snd[f].pos]>>)
  BY <1>b, <1>3 DEF NextState
<1> HIDE DEF k
<1>6. k \in {"E", "W", "Q", "G"}
  BY <1>3 DEF k
<1> DEFINE Is(m, e, l, t) ==
             /\ m > 0 \/ t = "E"
             /\ snd' = [snd EXCEPT ![f].pos = @ + m, ![f].eof = e]
             /\ Moves(p, [z[p] EXCEPT !.st = NextState(t, l), !.tries = IF t = "E" THEN 0 ELSE @])
             /\ Sends(p, <<[Sub("SUB", f, t, m) EXCEPT !.pos = snd[f].pos]>>)
<1>7. Is(n, eof, look, k)
  BY <1>5
<1> HIDE DEF Is
<1>8. \E m \in 0..rest, e \in BOOLEAN, l \in BOOLEAN, t \in {"E", "W", "Q", "G"} : Is(m, e, l, t)
  BY <1>4, <1>6, <1>7
<1> QED BY <1>1, <1>8 DEF Is

LEMMA TxStays ==
  ASSUME TypeOK, NEW p \in Node,
         \/ SendRqinit(p) \/ SendFinfo(p) \/ StartData(p) \/ SendBlock(p)
         \/ ReadVanished(p) \/ SendEof(p) \/ SendFin(p)
         \/ TxRinit(p) \/ TxRinitFinfo(p) \/ TxSent(p) \/ TxSkipped(p) \/ TxRefused(p)
         \/ TxRinitFin(p) \/ TxAck(p) \/ TxRpos(p)
  PROVE  sess' = sess /\ LocalsOk'
<1> DEFINE Like(r) == r \in Local /\ r.cur = z[p].cur /\ r.recv = z[p].recv
<1>1. /\ z[p] \in Local /\ z[p].st \in State
      /\ z[p].tries + 1 \in Nat /\ z[p].rinits + 1 \in Nat /\ z[p].fins + 1 \in Nat
  BY LocalFacts DEF Local
<1>2. ASSUME NEW st \in State PROVE Like([z[p] EXCEPT !.st = st]) /\ [z[p] EXCEPT !.st = st].st = st
  BY <1>1, Updates DEF Local
<1>3. ASSUME NEW st \in State
      PROVE  /\ Like([z[p] EXCEPT !.tries = @ + 1, !.st = st])
             /\ [z[p] EXCEPT !.tries = @ + 1, !.st = st].st = st
  <2>1. [z[p] EXCEPT !.tries = @ + 1, !.st = st] \in Local
    BY <1>1, Updates
  <2> QED BY <1>1, <2>1 DEF Local
<1>4. ASSUME NEW st \in State, NEW n \in Nat
      PROVE  /\ Like([z[p] EXCEPT !.st = st, !.tries = n])
             /\ [z[p] EXCEPT !.st = st, !.tries = n].st = st
  <2>1. [z[p] EXCEPT !.st = st, !.tries = n] \in Local
    BY <1>1, Updates
  <2> QED BY <1>1, <2>1 DEF Local
<1> HIDE DEF Like
<1>5. CASE SendRqinit(p) \/ SendEof(p) \/ SendFin(p)
  <2>1. PICK st \in {"RQINITACK", "EOFACK", "FINACK"} :
          /\ sess' = sess /\ Running(p) /\ Becomes(p, [z[p] EXCEPT !.tries = @ + 1, !.st = st])
          /\ st = "EOFACK" => z[p].st = "EOF"
    BY <1>5 DEF SendRqinit, SendEof, SendFin, Tried, At
  <2>2. st \in State
    BY DEF State
  <2> QED BY <1>3, <2>1, <2>2, Stays DEF Like, OpenStates, ShutStates, RecvStates
<1>6. CASE StartData(p) \/ ReadVanished(p) \/ TxSent(p) \/ TxSkipped(p) \/ TxRefused(p) \/ TxRinitFin(p)
  <2>1. PICK st \in {"DATA", "NEXTREAD", "NEXTFILE", "FIN"} :
          /\ sess' = sess /\ Running(p)
          /\ Becomes(p, [z[p] EXCEPT !.st = st]) \/ Moves(p, [z[p] EXCEPT !.st = st])
          /\ st = "DATA" => z[p].st = "STARTDATA"
    BY <1>6 DEF StartData, ReadVanished, TxSent, TxSkipped, TxRefused, TxRinitFin, Disposed, Reads,
                Takes, At, Goes
  <2>2. st \in State
    BY DEF State
  <2> QED BY <1>2, <2>1, <2>2, Stays DEF Like, OpenStates, ShutStates, RecvStates
<1>7. CASE SendFinfo(p)
  <2> DEFINE r == [z[p] EXCEPT !.tries = @ + 1, !.rinits = 0, !.st = "FINFOACK"]
  <2>1. r \in Local
    BY <1>1, Updates DEF State
  <2>2. r.cur = z[p].cur /\ r.recv = z[p].recv /\ r.st = "FINFOACK"
    BY <1>1, <2>1 DEF Local
  <2> QED BY <1>7, <2>1, <2>2, Stays DEF SendFinfo, At, OpenStates, ShutStates, RecvStates
<1>8. CASE SendBlock(p)
  <2>1. PICK st \in {"EOF", "CRCWACK", "CRCQACK", "READCHECK", "DATA"}, k \in {"E", "W", "Q", "G"} :
          Moves(p, [z[p] EXCEPT !.st = st, !.tries = IF k = "E" THEN 0 ELSE @])
    <3>1. \A k \in {"E", "W", "Q", "G"} : \A look :
            NextState(k, look) \in {"EOF", "CRCWACK", "CRCQACK", "READCHECK", "DATA"}
      BY DEF NextState
    <3> QED BY <1>8, <3>1, BlockSent
  <2>2. (IF k = "E" THEN 0 ELSE z[p].tries) \in Nat
    BY <1>1 DEF Local
  <2>3. st \in State
    BY DEF State
  <2>4. sess' = sess /\ Running(p) /\ z[p].st = "DATA"
    BY <1>8 DEF SendBlock, At
  <2> QED BY <1>4, <2>1, <2>2, <2>3, <2>4, Stays DEF Like, OpenStates, ShutStates, RecvStates
<1>9. CASE TxRinit(p)
  <2> DEFINE r == [z[p] EXCEPT !.acked = TRUE, !.st = "NEXTFILE"]
  <2>1. r \in Local
    BY <1>1, Updates DEF State
  <2>2. r.cur = z[p].cur /\ r.recv = z[p].recv /\ r.st = "NEXTFILE"
    BY <1>1, <2>1 DEF Local
  <2> QED BY <1>9, <2>1, <2>2, Stays DEF TxRinit, Takes, At, OpenStates, ShutStates, RecvStates
<1>10. CASE TxRinitFinfo(p)
  <2> DEFINE st == IF z[p].rinits + 1 > 2 THEN "FINFO" ELSE z[p].st
             r == [z[p] EXCEPT !.rinits = z[p].rinits + 1, !.st = st]
  <2>1. st \in State /\ st \in {"FINFO", z[p].st}
    BY <1>1 DEF State
  <2>2. Becomes(p, r) /\ sess' = sess /\ Running(p) /\ z[p].st = "FINFOACK"
    BY <1>10 DEF TxRinitFinfo, Takes, At
  <2>3. r \in Local
    BY <1>1, <2>1, Updates
  <2>4. r.cur = z[p].cur /\ r.recv = z[p].recv /\ r.st = st
    BY <1>1, <2>3 DEF Local
  <2> HIDE DEF st, r
  <2> QED BY <2>1, <2>2, <2>3, <2>4, Stays DEF OpenStates, ShutStates, RecvStates
<1>11. CASE TxAck(p)
  <2> DEFINE st == IF z[p].st # "CRCWACK" THEN "DATA"
                   ELSE IF chan[p][1].pos = snd[z[p].cur].pos THEN "STARTDATA" ELSE z[p].st
             r == [z[p] EXCEPT !.last = chan[p][1].pos, !.st = st]
  <2>1. st \in State /\ st \in {"DATA", "STARTDATA", z[p].st}
    BY <1>1 DEF State
  <2>2. Becomes(p, r) /\ sess' = sess /\ Running(p) /\ z[p].st \in {"CRCWACK", "READCHECK", "CRCQACK"}
        /\ chan[p] # << >>
    BY <1>11 DEF TxAck, Takes, At, Streaming
  <2>3. chan[p][1].pos \in Int
    BY <2>2, FirstItem
  <2>4. r \in Local
    BY <1>1, <2>1, <2>3, Updates
  <2>5. r.cur = z[p].cur /\ r.recv = z[p].recv /\ r.st = st
    BY <1>1, <2>4 DEF Local
  <2> HIDE DEF st, r
  <2> QED BY <2>1, <2>2, <2>4, <2>5, Stays DEF OpenStates, ShutStates, RecvStates
<1>12. CASE TxRpos(p)
  <2> DEFINE n == chan[p][1].pos
             sync == IF z[p].st = "FINFOACK" THEN n - 1 ELSE n
             r == [z[p] EXCEPT !.last = n, !.st = "STARTDATA", !.sync = sync]
  <2>1. Becomes(p, r) /\ sess' = sess /\ Running(p) /\ z[p].st \in OnFile /\ chan[p] # << >>
    BY <1>12 DEF TxRpos, Takes, At
  <2>2. n \in Int /\ sync \in Int
    BY <2>1, FirstItem
  <2>3. r \in Local
    BY <1>1, <2>2, Updates DEF State
  <2>4. r.cur = z[p].cur /\ r.recv = z[p].recv /\ r.st = "STARTDATA"
    BY <1>1, <2>3 DEF Local
  <2> HIDE DEF r
  <2> QED BY <2>1, <2>3, <2>4, Stays DEF OnFile, OpenStates, ShutStates, RecvStates
<1> QED BY <1>5, <1>6, <1>7, <1>8, <1>9, <1>10, <1>11, <1>12

\* A receiver refuses, skips or asks for another position.
LEMMA Verdicts ==
  ASSUME NEW r \in Local
  PROVE  /\ Refusing(r) \in Local /\ Skipping(r) \in Local /\ Repositions(r) \in Local
         /\ \A t \in {Refusing(r), Skipping(r), Repositions(r)} :
              /\ t.cur = r.cur /\ t.recv = r.recv /\ t.rc = r.rc
              /\ t.st \in {"INIT", "SENDRPOS"}
         /\ Refusing(r).st = "INIT"
<1>1. /\ [r EXCEPT !.tries = 0, !.init = "FERR", !.st = "INIT"] \in Local
      /\ [r EXCEPT !.tries = 0, !.init = "SKIP", !.st = "INIT"] \in Local
      /\ [r EXCEPT !.tries = 0, !.st = "SENDRPOS"] \in Local
  BY Updates DEF State
<1>2. /\ [r EXCEPT !.tries = 0, !.init = "FERR", !.st = "INIT"].st = "INIT"
      /\ [r EXCEPT !.tries = 0, !.init = "SKIP", !.st = "INIT"].st = "INIT"
      /\ [r EXCEPT !.tries = 0, !.st = "SENDRPOS"].st = "SENDRPOS"
      /\ \A t \in {[r EXCEPT !.tries = 0, !.init = "FERR", !.st = "INIT"],
                   [r EXCEPT !.tries = 0, !.init = "SKIP", !.st = "INIT"],
                   [r EXCEPT !.tries = 0, !.st = "SENDRPOS"]} :
           t.cur = r.cur /\ t.recv = r.recv /\ t.rc = r.rc
  BY DEF Local
<1>3. /\ Refusing(r) = [r EXCEPT !.tries = 0, !.init = "FERR", !.st = "INIT"]
      /\ Repositions(r) = [r EXCEPT !.tries = 0, !.st = "SENDRPOS"]
      /\ Skipping(r) \in {[r EXCEPT !.tries = 0, !.init = "SKIP", !.st = "INIT"],
                          [r EXCEPT !.tries = 0, !.st = "SENDRPOS"]}
  BY DEF Refusing, Repositions, Skipping
<1> QED BY <1>1, <1>2, <1>3

LEMMA RxStays ==
  ASSUME TypeOK, NEW p \in Node,
         \/ SendInit(p) \/ SendRpos(p) \/ NotFile(p) \/ SwallowHeader(p)
         \/ RecvBlock(p) \/ WriteFails(p) \/ RecvBadBlock(p)
         \/ RxRqinit(p) \/ RxFile(p) \/ RxData(p) \/ RxEof(p) \/ CloseFails(p)
         \/ RxEofElsewhere(p) \/ RxFinDoubted(p)
  PROVE  sess' = sess /\ LocalsOk'
<1>1. /\ z[p] \in Local /\ z[p].st \in State /\ z[p].tries \in Nat
      /\ z[p].tries + 1 \in Nat /\ z[p].fins + 1 \in Nat
      /\ z[p].init \in {"RINIT", "SKIP", "FERR"}
  BY LocalFacts DEF Local
<1>2. CASE SendInit(p)
  <2> DEFINE i == IF z[p].init = "SKIP" THEN "RINIT" ELSE z[p].init
             r == [z[p] EXCEPT !.tries = @ + 1, !.st = "INITACK", !.init = i]
  <2>1. i \in {"RINIT", "SKIP", "FERR"}
    BY <1>1
  <2>2. Becomes(p, r) /\ sess' = sess /\ Running(p)
    BY <1>2 DEF SendInit, At
  <2> HIDE DEF i
  <2>3. r \in Local
    BY <1>1, <2>1, Updates DEF State
  <2>4. r.cur = z[p].cur /\ r.recv = z[p].recv /\ r.st = "INITACK"
    BY <1>1, <2>3 DEF Local
  <2> HIDE DEF r
  <2> QED BY <2>2, <2>3, <2>4, Stays DEF OpenStates, ShutStates, RecvStates
<1>3. CASE SendRpos(p)
  <2> DEFINE r == [z[p] EXCEPT !.tries = @ + 1, !.st = "RPOSACK"]
  <2>1. r \in Local
    BY <1>1, Updates DEF State
  <2>2. r.cur = z[p].cur /\ r.recv = z[p].recv /\ r.st = "RPOSACK"
    BY <1>1, <2>1 DEF Local
  <2> QED BY <1>3, <2>1, <2>2, Stays DEF SendRpos, Tried, At, OpenStates, ShutStates, RecvStates
<1>4. CASE NotFile(p) \/ RxEofElsewhere(p)
  <2>1. PICK st \in {"INITACK", "RPOSACK"} :
          /\ sess' = sess /\ Running(p) /\ Becomes(p, [z[p] EXCEPT !.st = st])
          /\ st = "RPOSACK" => z[p].st = "RPOSACK"
    BY <1>4 DEF NotFile, RxEofElsewhere, Reads, Goes, ReadsData, Takes, At
  <2> DEFINE r == [z[p] EXCEPT !.st = st]
  <2>2. r \in Local /\ st \in State
    BY <1>1, Updates DEF State
  <2>3. r.cur = z[p].cur /\ r.recv = z[p].recv /\ r.st = st
    BY <1>1, <2>2 DEF Local
  <2> HIDE DEF r
  <2> QED BY <2>1, <2>2, <2>3, Stays DEF r, OpenStates, ShutStates, RecvStates
<1>5. CASE SwallowHeader(p)
  <2> DEFINE r == [z[p] EXCEPT !.dirty = TRUE]
  <2>1. r \in Local
    BY <1>1, Updates
  <2>2. r.cur = z[p].cur /\ r.recv = z[p].recv /\ r.st = z[p].st
    BY <1>1, <2>1 DEF Local
  <2> QED BY <1>5, <2>1, <2>2, Stays DEF SwallowHeader, At
<1>6. CASE RecvBlock(p)
  <2>1. PICK st \in {"RPOSACK", z[p].st}, n \in {0, z[p].tries} :
          Moves(p, [z[p] EXCEPT !.st = st, !.tries = n])
    BY <1>6 DEF RecvBlock
  <2>2. sess' = sess /\ Running(p) /\ z[p].st = "WAITDATA"
    BY <1>6 DEF RecvBlock, GoodBlock, ReadsData, At
  <2> DEFINE r == [z[p] EXCEPT !.st = st, !.tries = n]
  <2>3. r \in Local
    BY <1>1, Updates DEF State
  <2>4. r.cur = z[p].cur /\ r.recv = z[p].recv /\ r.st = st
    BY <1>1, <2>3 DEF Local
  <2> HIDE DEF r
  <2> QED BY <2>1, <2>2, <2>3, <2>4, Stays DEF r, OpenStates, ShutStates, RecvStates
<1>7. CASE WriteFails(p) \/ RecvBadBlock(p) \/ CloseFails(p)
  <2>1. PICK r \in {Refusing(z[p]), Skipping(z[p]), Repositions(z[p])} : Becomes(p, r) \/ Moves(p, r)
    BY <1>7 DEF WriteFails, RecvBadBlock, CloseFails
  <2>2. sess' = sess /\ Running(p) /\ z[p].st \in RecvStates
    BY <1>7 DEF WriteFails, RecvBadBlock, CloseFails, GoodBlock, ReadsData, Takes, At, RecvStates
  <2>3. r \in Local /\ r.cur = z[p].cur /\ r.recv = z[p].recv /\ r.st \in {"INIT", "SENDRPOS"}
    BY <1>1, Verdicts
  <2> QED BY <2>1, <2>2, <2>3, Stays DEF OpenStates, ShutStates
<1>8. CASE RxRqinit(p)
  <2> DEFINE r == [z[p] EXCEPT !.rqinits = TRUE, !.st = "INIT"]
  <2>1. r \in Local
    BY <1>1, Updates DEF State
  <2>2. r.cur = z[p].cur /\ r.recv = z[p].recv /\ r.st = "INIT"
    BY <1>1, <2>1 DEF Local
  <2> QED BY <1>8, <2>1, <2>2, Stays DEF RxRqinit, Takes, At, OpenStates, ShutStates, RecvStates
<1>9. CASE RxFile(p)
  <2> DEFINE r == [z[p] EXCEPT !.init = "RINIT", !.dirty = FALSE, !.st = "FILEDATA"]
  <2>1. r \in Local
    BY <1>1, Updates DEF State
  <2>2. r.cur = z[p].cur /\ r.recv = z[p].recv /\ r.st = "FILEDATA"
    BY <1>1, <2>1 DEF Local
  <2> QED BY <1>9, <2>1, <2>2, Stays DEF RxFile, Takes, At, OpenStates, ShutStates, RecvStates
<1>10. CASE RxData(p)
  <2> DEFINE d == [z[p] EXCEPT !.dirty = FALSE, !.st = "WAITDATA"]
  <2>1. d \in Local
    BY <1>1, Updates DEF State
  <2>2. d.cur = z[p].cur /\ d.recv = z[p].recv /\ d.st = "WAITDATA"
    BY <1>1, <2>1 DEF Local
  <2>3. PICK r \in {d, Repositions(z[p])} : Becomes(p, r)
    BY <1>10 DEF RxData
  <2>4. sess' = sess /\ Running(p) /\ z[p].st = "RPOSACK"
    BY <1>10 DEF RxData, Takes, At
  <2> HIDE DEF d
  <2>5. r \in Local /\ r.cur = z[p].cur /\ r.recv = z[p].recv /\ r.st \in {"INIT", "SENDRPOS", "WAITDATA"}
    BY <1>1, <2>1, <2>2, <2>3, Verdicts
  <2> QED BY <2>3, <2>4, <2>5, Stays DEF OpenStates, ShutStates, RecvStates
<1>11. CASE RxEof(p)
  <2> DEFINE r == [z[p] EXCEPT !.tries = 0, !.init = "RINIT", !.st = "INIT"]
  <2>1. r \in Local
    BY <1>1, Updates DEF State
  <2>2. r.cur = z[p].cur /\ r.recv = z[p].recv /\ r.st = "INIT"
    BY <1>1, <2>1 DEF Local
  <2> QED BY <1>11, <2>1, <2>2, Stays DEF RxEof, Takes, At, OpenStates, ShutStates, RecvStates
<1>12. CASE RxFinDoubted(p)
  <2> DEFINE r == [z[p] EXCEPT !.fins = @ + 1, !.st = "INIT"]
  <2>1. r \in Local
    BY <1>1, Updates DEF State
  <2>2. r.cur = z[p].cur /\ r.recv = z[p].recv /\ r.st = "INIT"
    BY <1>1, <2>1 DEF Local
  <2> QED BY <1>12, <2>1, <2>2, Stays DEF RxFinDoubted, Takes, At, OpenStates, ShutStates, RecvStates
<1> QED BY <1>2, <1>3, <1>4, <1>5, <1>6, <1>7, <1>8, <1>9, <1>10, <1>11, <1>12

\* Where a timer leaves a mailer.
LEMMA TimedOut ==
  ASSUME NEW r \in Local, r.st \in Reading \cup {"FILEDATA", "WAITDATA"},
         NEW t, t = (IF r.st \in TxReading THEN TxTimeout(r) ELSE RxTimeout(r))
  PROVE  /\ t \in Local /\ t.cur = r.cur /\ t.recv = r.recv /\ t.rc = r.rc
         /\ t.st \in OpenStates => r.st \in {"READCHECK", "CRCWACK", "CRCQACK"}
         /\ t.st \in ShutStates => r.st \in ShutStates
         /\ t.st \in RecvStates => r.st \in RecvStates
         /\ t.st # "WAITDATA"
<1>0. r.st \in State
  BY DEF Local
<1>1. CASE r.st \in TxReading
  <2> DEFINE st == IF r.st \in {"READCHECK", "CRCWACK", "CRCQACK"} THEN "STARTDATA" ELSE AfterRead(Again(r.st))
  <2>1. st \in State
    BY <1>0, Places DEF State
  <2>2. /\ st \in OpenStates => r.st \in {"READCHECK", "CRCWACK", "CRCQACK"}
        /\ st \in ShutStates => r.st \in ShutStates
        /\ st \notin RecvStates
    BY <1>1 DEF TxReading, AfterRead, Again, OpenStates, ShutStates, RecvStates
  <2>3. t = [r EXCEPT !.st = st]
    BY <1>1 DEF TxTimeout
  <2> HIDE DEF st
  <2>4. [r EXCEPT !.st = st] \in Local
    BY <2>1, Updates
  <2>5. [r EXCEPT !.st = st].cur = r.cur /\ [r EXCEPT !.st = st].recv = r.recv
        /\ [r EXCEPT !.st = st].rc = r.rc /\ [r EXCEPT !.st = st].st = st
    BY DEF Local
  <2> QED BY <2>2, <2>3, <2>4, <2>5 DEF RecvStates
<1>2. CASE r.st \notin TxReading /\ r.st = "WAITDATA"
  <2>1. t = Repositions(r)
    BY <1>2 DEF RxTimeout
  <2>2. Repositions(r).st = "SENDRPOS"
    BY DEF Repositions, Local
  <2> QED BY <1>2, <2>1, <2>2, Verdicts DEF OpenStates, ShutStates, RecvStates
<1>3. CASE r.st \notin TxReading /\ r.st = "FILEDATA"
  <2> DEFINE u == [r EXCEPT !.tries = 0, !.st = "INIT"]
  <2>1. t = u
    BY <1>3 DEF RxTimeout
  <2>2. u \in Local
    BY Updates DEF State
  <2>3. u.cur = r.cur /\ u.recv = r.recv /\ u.rc = r.rc /\ u.st = "INIT"
    BY DEF Local
  <2> HIDE DEF u
  <2> QED BY <2>1, <2>2, <2>3 DEF OpenStates, ShutStates, RecvStates
<1>4. CASE r.st \notin TxReading /\ r.st \notin {"WAITDATA", "FILEDATA"}
  <2> DEFINE st == Again(r.st)
  <2>1. r.st \in {"INITACK", "RPOSACK"} /\ t = [r EXCEPT !.st = st]
    BY <1>4 DEF RxTimeout, Reading
  <2>2. st \in State /\ st \in {"INIT", "SENDRPOS"} /\ (st = "SENDRPOS" => r.st = "RPOSACK")
    BY <2>1 DEF State, Again
  <2> HIDE DEF st
  <2>3. [r EXCEPT !.st = st] \in Local
    BY <2>2, Updates
  <2>4. [r EXCEPT !.st = st].cur = r.cur /\ [r EXCEPT !.st = st].recv = r.recv
        /\ [r EXCEPT !.st = st].rc = r.rc /\ [r EXCEPT !.st = st].st = st
    BY DEF Local
  <2> QED BY <2>1, <2>2, <2>3, <2>4 DEF OpenStates, ShutStates, RecvStates
<1> QED BY <1>1, <1>2, <1>3, <1>4

LEMMA ReadersStay ==
  ASSUME TypeOK, NEW p \in Node, ReadNak(p) \/ ReadBad(p) \/ ReadIgnored(p) \/ Timer(p)
  PROVE  sess' = sess /\ LocalsOk'
<1>1. z[p] \in Local /\ z[p].st \in State
  BY LocalFacts DEF Local
<1>2. CASE ReadNak(p) \/ ReadBad(p) \/ ReadIgnored(p)
  <2>1. PICK st \in {Again(z[p].st), AfterRead(z[p].st), z[p].st} :
          sess' = sess /\ Running(p) /\ Becomes(p, [z[p] EXCEPT !.st = st])
    BY <1>2 DEF ReadNak, ReadBad, ReadIgnored, Reads, Goes, Takes, At
  <2> DEFINE r == [z[p] EXCEPT !.st = st]
  <2>2. /\ st \in State
        /\ st \in OpenStates \cup ShutStates => z[p].st \in OpenStates \cup ShutStates
        /\ st \in RecvStates => z[p].st \in RecvStates
    BY <1>1, <2>1, Places
  <2>3. r \in Local
    BY <1>1, <2>2, Updates
  <2>4. r.cur = z[p].cur /\ r.recv = z[p].recv /\ r.st = st
    BY <1>1, <2>3 DEF Local
  <2> HIDE DEF r
  <2> QED BY <2>1, <2>2, <2>3, <2>4, Stays DEF r
<1>3. CASE Timer(p)
  <2> DEFINE r == IF z[p].st \in TxReading THEN TxTimeout(z[p]) ELSE RxTimeout(z[p])
  <2>1. sess' = sess /\ Running(p) /\ Becomes(p, r) /\ z[p].st \in Reading \cup {"FILEDATA", "WAITDATA"}
    BY <1>3 DEF Timer, At
  <2> HIDE DEF r
  <2>2. /\ r \in Local /\ r.cur = z[p].cur /\ r.recv = z[p].recv
        /\ r.st \in OpenStates => z[p].st \in {"READCHECK", "CRCWACK", "CRCQACK"}
        /\ r.st \in ShutStates => z[p].st \in ShutStates
        /\ r.st \in RecvStates => z[p].st \in RecvStates
    BY <1>1, <2>1, TimedOut DEF r
  <2> QED BY <2>1, <2>2, Stays DEF OpenStates, ShutStates
<1> QED BY <1>2, <1>3

LEMMA StopsWell ==
  ASSUME TypeOK, sess' = sess, NEW p \in Node, NEW code \in {"error", "crash"}, Ends(p, code)
  PROVE  LocalsOk' /\ z'[p].rc = code /\ \A s \in Node : s # p => z'[s] = z[s]
<1> DEFINE r == [z[p] EXCEPT !.rc = code, !.cur = NoFile]
<1>1. z[p] \in Local /\ z[p].recv \in Mine(Peer(p)) \cup {NoFile}
  BY LocalFacts
<1>2. r \in Local
  BY <1>1, Updates
<1>3. r.rc = code /\ r.cur = NoFile /\ r.recv = z[p].recv
  BY <1>1, <1>2 DEF Local
<1>4. Becomes(p, r)
  BY DEF Ends
<1> HIDE DEF r
<1>5. LocalsOk'
  BY <1>1, <1>2, <1>3, <1>4, LocalsKept
<1>6. z' = [z EXCEPT ![p] = [r EXCEPT !.moved = FALSE]] /\ [r EXCEPT !.moved = FALSE].rc = code
  BY <1>2, <1>3, <1>4 DEF Becomes, Local
<1> QED BY <1>5, <1>6 DEF TypeOK, LocalsOk

LEMMA StartedIs ==
  ASSUME NEW p \in Node, NEW ph \in {1, 2}
  PROVE  /\ Started(p, ph) \in Local /\ Started(p, ph).cur = NoFile /\ Started(p, ph).recv = NoFile
         /\ Started(p, ph).st \in {"RQINIT", "INIT"} /\ ~Started(p, ph).dirty
<1>1. Fresh \in Local /\ Fresh.cur = NoFile /\ Fresh.recv = NoFile /\ ~Fresh.dirty /\ Fresh.st = "RQINIT"
  BY DEF Fresh, Local, State
<1>2. PICK st \in {"RQINIT", "INIT"} : Started(p, ph) = [Fresh EXCEPT !.phase = ph, !.st = st]
  BY DEF Started
<1>3. [Fresh EXCEPT !.phase = ph] \in Local /\ st \in State
  BY <1>1 DEF Local, State
<1>4. [Fresh EXCEPT !.phase = ph, !.st = st] \in Local
  BY <1>3, Updates
<1>5. /\ [Fresh EXCEPT !.phase = ph, !.st = st].cur = NoFile
      /\ [Fresh EXCEPT !.phase = ph, !.st = st].recv = NoFile
      /\ [Fresh EXCEPT !.phase = ph, !.st = st].st = st
      /\ ~[Fresh EXCEPT !.phase = ph, !.st = st].dirty
  BY DEF Fresh
<1> QED BY <1>2, <1>4, <1>5

\* The other half of a session, and the end of it.
LEMMA HalfDone ==
  ASSUME TypeOK, NEW p \in Node, PhaseDone(p)
  PROVE  /\ sess' = sess /\ LocalsOk'
         /\ \A s \in Node : s # p => z'[s] = z[s]
         /\ Running(p)' => z'[p].st \in {"RQINIT", "INIT"}
<1>1. /\ z[p] \in Local /\ z[p].recv \in Mine(Peer(p)) \cup {NoFile}
      /\ z[p].cur \in Mine(p) \cup {NoFile} /\ z \in [Node -> Local]
  BY LocalFacts DEF TypeOK, LocalsOk
<1>2. CASE Moves(p, Started(p, 2))
  <2>1. LocalsOk'
    BY <1>2, StartedIs, LocalsKept DEF PhaseDone, OpenStates, ShutStates, RecvStates
  <2>2. z'[p].st = Started(p, 2).st
    BY <1>1, <1>2, StartedIs DEF Moves, Local
  <2> QED BY <1>1, <1>2, <2>1, <2>2, StartedIs DEF PhaseDone, Moves
<1>3. CASE Becomes(p, [z[p] EXCEPT !.rc = "ok"])
  <2> DEFINE r == [z[p] EXCEPT !.rc = "ok"]
  <2>1. r \in Local
    BY <1>1, Updates
  <2>2. r.rc = "ok" /\ r.cur = z[p].cur /\ r.recv = z[p].recv
    BY <1>1, <2>1 DEF Local
  <2> HIDE DEF r
  <2>3. Becomes(p, r)
    BY <1>3 DEF r
  <2>4. LocalsOk'
    BY <1>1, <2>1, <2>2, <2>3, LocalsKept DEF PhaseDone
  <2>5. z'[p] = [r EXCEPT !.moved = FALSE] /\ [r EXCEPT !.moved = FALSE].rc = "ok"
        /\ \A s \in Node : s # p => z'[s] = z[s]
    BY <1>1, <2>1, <2>2, <2>3 DEF Becomes, Local
  <2> QED BY <2>4, <2>5 DEF PhaseDone, Running
<1> QED BY <1>2, <1>3 DEF PhaseDone

LEMMA OpensFile ==
  ASSUME TypeOK, NEW p \in Node, NextFile(p) \/ NoMoreFiles(p)
  PROVE  sess' = sess /\ LocalsOk'
<1>1. z[p] \in Local /\ z[p].recv \in Mine(Peer(p)) \cup {NoFile}
  BY LocalFacts
<1>2. CASE NextFile(p)
  <2> DEFINE f == Head(queue[p])
             r == [z[p] EXCEPT !.cur = f, !.tries = 1, !.rinits = 0, !.st = "FINFOACK"]
  <2>1. queue[p] \in Seq(Mine(p)) /\ queue[p] # << >> /\ sess' = sess
    BY <1>2 DEF NextFile, TypeOK, FilesOk
  <2>2. f \in Mine(p) /\ f \in File /\ f # NoFile
    BY <2>1, HeadTailProperties, MineIs DEF TypeOK
  <2>3. Becomes(p, r)
    BY <1>2 DEF NextFile
  <2> HIDE DEF f
  <2>4. r \in Local
    BY <1>1, <2>2, Updates DEF State
  <2>5. r.cur = f /\ r.recv = z[p].recv /\ r.st = "FINFOACK"
    BY <1>1, <2>4 DEF Local
  <2> HIDE DEF r
  <2> QED BY <1>1, <2>1, <2>2, <2>3, <2>4, <2>5, LocalsKept DEF RecvStates
<1>3. CASE NoMoreFiles(p)
  <2> DEFINE r == [z[p] EXCEPT !.cur = NoFile, !.tries = 1, !.st = "FINACK"]
  <2>1. Becomes(p, r) /\ sess' = sess
    BY <1>3 DEF NoMoreFiles
  <2>2. r \in Local
    BY <1>1, Updates DEF State
  <2>3. r.cur = NoFile /\ r.recv = z[p].recv /\ r.st = "FINACK"
    BY <1>1, <2>2 DEF Local
  <2> HIDE DEF r
  <2> QED BY <1>1, <2>1, <2>2, <2>3, LocalsKept DEF OpenStates, ShutStates, RecvStates
<1> QED BY <1>2, <1>3

\* A receiver takes ZFILE's subpacket: the file, the verdict and its state.
LEMMA Offers ==
  ASSUME TypeOK, NEW p \in Node, GotFile(p)
  PROVE  /\ sess' = sess /\ LocalsOk' /\ Running(p) /\ z[p].st = "FILEDATA" /\ chan[p] # << >>
         /\ chan[p][1].file \in Mine(Peer(p)) /\ z'[p].st \in {"INIT", "SENDRPOS"}
         /\ z'[p].recv = chan[p][1].file
         /\ \E r \in FopenResults(p, chan[p][1].file) :
              /\ r \in {0, 1, 2}
              /\ rcv' = [(IF z[p].recv = NoFile THEN rcv ELSE [rcv EXCEPT ![z[p].recv].open = FALSE])
                         EXCEPT ![chan[p][1].file] = Offered(chan[p][1].file, r)]
<1> DEFINE f == chan[p][1].file
           q == [z[p] EXCEPT !.recv = f]
<1>1. /\ z[p] \in Local /\ z[p].cur \in Mine(p) \cup {NoFile} /\ z \in [Node -> Local]
      /\ Running(p) => z[p].rc = "run"
  BY LocalFacts DEF TypeOK, LocalsOk
<1>2. /\ sess' = sess /\ Running(p) /\ z[p].st = "FILEDATA" /\ chan[p] # << >>
      /\ chan[p][1].type = "FINFO" /\ sess \in Sessions
  BY DEF GotFile, ReadsData, At, TypeOK
<1>3. f \in Mine(Peer(p)) /\ f \in File /\ f # NoFile
  <2>1. chan[p][1] \in From(Peer(p))
    BY <1>2, FirstItem
  <2>2. f \in Mine(Peer(p)) \cup {NoFile} /\ f # NoFile
    BY <1>2, <2>1 DEF From, Headers
  <2> QED BY <1>2, <2>2, MineIs, Nodes
<1>4. PICK r \in FopenResults(p, f) :
        /\ rcv' = [(IF z[p].recv = NoFile THEN rcv ELSE [rcv EXCEPT ![z[p].recv].open = FALSE])
                   EXCEPT ![f] = Offered(f, r)]
        /\ Becomes(p, CASE r = 0 -> Repositions(q) [] r = 1 -> Refusing(q) [] r = 2 -> Skipping(q))
  BY DEF GotFile
<1>5. r \in {0, 1, 2}
  BY DEF FopenResults
<1>6. PICK t \in {Repositions(q), Refusing(q), Skipping(q)} : Becomes(p, t)
  BY <1>4, <1>5
<1>7. q \in Local
  BY <1>1, <1>3, Updates
<1>8. q.recv = f /\ q.cur = z[p].cur /\ q.rc = z[p].rc
  BY <1>1, <1>7 DEF Local
<1> HIDE DEF q
<1>9. t \in Local /\ t.cur = z[p].cur /\ t.recv = f /\ t.st \in {"INIT", "SENDRPOS"}
  BY <1>6, <1>7, <1>8, Verdicts
<1>10. LocalsOk'
  BY <1>1, <1>2, <1>3, <1>6, <1>9, LocalsKept DEF OpenStates, ShutStates
<1>11. z'[p].recv = f /\ z'[p].st \in {"INIT", "SENDRPOS"}
  BY <1>1, <1>6, <1>9 DEF Becomes, Local
<1> QED BY <1>2, <1>3, <1>4, <1>5, <1>10, <1>11

-----------------------------------------------------------------------------
(* The files                                                                *)

\* What leaves all files as they are.
Quiet(p) ==
  \/ SendRqinit(p) \/ SendFinfo(p) \/ StartData(p) \/ SendEof(p) \/ SendFin(p)
  \/ TxRinit(p) \/ TxRinitFinfo(p) \/ TxRinitFin(p) \/ TxAck(p)
  \/ ReadNak(p) \/ ReadBad(p) \/ ReadIgnored(p) \/ Timer(p)
  \/ SendInit(p) \/ SendRpos(p) \/ NotFile(p) \/ SwallowHeader(p) \/ RecvBadBlock(p)
  \/ RxRqinit(p) \/ RxFile(p) \/ RxData(p) \/ RxEofElsewhere(p) \/ RxFinDoubted(p)

\* What ends a mailer's part.
Stop(p) == OutOfTries(p) \/ DeadTimer(p) \/ Drop(p) \/ RemoteGone(p) \/ WriteNull(p)

Step(p) ==
  \/ Quiet(p) \/ Stop(p) \/ TxFin(p) \/ RxFin(p) \/ Garble(p)
  \/ NextFile(p) \/ NoMoreFiles(p) \/ SendBlock(p) \/ ReadVanished(p)
  \/ TxSent(p) \/ TxSkipped(p) \/ TxRefused(p) \/ TxRpos(p)
  \/ GotFile(p) \/ RecvBlock(p) \/ WriteFails(p) \/ RxEof(p) \/ CloseFails(p)

LEMMA Steps ==
  Next => UNCHANGED vars \/ \E p \in Node : Step(p)
<1>1. ASSUME NEW p \in Node, Loop(p) \/ DeadTimer(p) \/ Drop(p) \/ Garble(p) PROVE Step(p)
  BY <1>1 DEF Loop, Tx, Rx, Step, Quiet, Stop
<1> QED BY <1>1 DEF Next, SessionOver

LEMMA QuietIs ==
  ASSUME NEW p, Quiet(p)
  PROVE  UNCHANGED <<files, sess>> /\ Running(p)
<1>1. CASE \/ SendRqinit(p) \/ SendFinfo(p) \/ StartData(p) \/ SendEof(p) \/ SendFin(p)
           \/ TxRinit(p) \/ TxRinitFinfo(p) \/ TxRinitFin(p) \/ TxAck(p)
  BY <1>1 DEF SendRqinit, SendFinfo, StartData, SendEof, SendFin, TxRinit, TxRinitFinfo, TxRinitFin,
              TxAck, At, Takes
<1>2. CASE ReadNak(p) \/ ReadBad(p) \/ ReadIgnored(p) \/ Timer(p)
  BY <1>2 DEF ReadNak, ReadBad, ReadIgnored, Timer, At, Takes
<1>3. CASE \/ SendInit(p) \/ SendRpos(p) \/ NotFile(p) \/ SwallowHeader(p) \/ RecvBadBlock(p)
           \/ RxRqinit(p) \/ RxFile(p) \/ RxData(p) \/ RxEofElsewhere(p) \/ RxFinDoubted(p)
  BY <1>3 DEF SendInit, SendRpos, NotFile, SwallowHeader, RecvBadBlock, RxRqinit, RxFile, RxData,
              RxEofElsewhere, RxFinDoubted, At, Takes, ReadsData
<1> QED BY <1>1, <1>2, <1>3 DEF Quiet

LEMMA StopIs ==
  ASSUME NEW p, Stop(p)
  PROVE  sess' = sess /\ Running(p) /\ \E code \in {"error", "crash"} : Ends(p, code)
BY DEF Stop, OutOfTries, DeadTimer, Drop, RemoteGone, WriteNull, Ends, At, GoodBlock, ReadsData

LEMMA FilesKept ==
  ASSUME TypeOK, NEW p \in Node, Step(p)
  PROVE  sess' = sess /\ FilesOk'
<1>1. /\ sess \in Sessions /\ FilesOk
      /\ z[p].cur \in File \cup {NoFile} /\ z[p].recv \in File \cup {NoFile}
      /\ Size \in [File -> Nat]
  BY LocalFacts, MineIs, Nodes, Constants DEF TypeOK
<1>2. ASSUME sess' = sess, snd' \in [File -> Sinfo], rcv' \in [File -> Rinfo], queue' = queue PROVE FilesOk'
  <2>1. \A s \in Node : Mine(s)' = Mine(s)
    BY <1>2 DEF Mine
  <2> QED BY <1>1, <1>2, <2>1 DEF FilesOk
<1>3. snd \in [File -> Sinfo] /\ rcv \in [File -> Rinfo]
  BY <1>1 DEF FilesOk
<1>4. CASE Quiet(p)
  BY <1>2, <1>3, <1>4, QuietIs DEF files
<1>5. CASE Garble(p)
  BY <1>2, <1>3, <1>5 DEF Garble, files
<1>6. CASE Stop(p) \/ TxFin(p) \/ RxFin(p)
  <2>1. /\ sess' = sess /\ UNCHANGED <<queue, snd>>
        /\ rcv' = IF z[p].recv = NoFile THEN rcv ELSE [rcv EXCEPT ![z[p].recv].open = FALSE]
    BY <1>6, StopIs DEF TxFin, RxFin, PhaseDone, Ends
  <2>2. rcv' \in [File -> Rinfo]
    BY <1>1, <1>3, <2>1 DEF Rinfo
  <2> QED BY <1>2, <1>3, <2>1, <2>2
<1>7. CASE NextFile(p)
  <2>1. queue[p] \in Seq(Mine(p)) /\ queue[p] # << >>
    BY <1>1, <1>7 DEF NextFile, FilesOk
  <2>2. Tail(queue[p]) \in Seq(Mine(p)) /\ Head(queue[p]) \in File /\ Tail(queue[p]) \in Seq(File)
    <3>1. Head(queue[p]) \in Mine(p) /\ Tail(queue[p]) \in Seq(Mine(p))
      BY <2>1, HeadTailProperties
    <3>2. queue[p] \in Seq(File)
      BY <1>1 DEF FilesOk
    <3>3. Tail(queue[p]) \in Seq(File)
      BY <2>1, <3>2, HeadTailProperties
    <3> QED BY <1>1, <3>1, <3>3, MineIs
  <2>3. /\ queue' = [queue EXCEPT ![p] = Tail(@)] /\ UNCHANGED <<rcv, sess>>
        /\ snd' = [snd EXCEPT ![Head(queue[p])].status = "process"]
    BY <1>7 DEF NextFile
  <2>4. snd' \in [File -> Sinfo]
    BY <1>3, <2>2, <2>3 DEF Sinfo, Status
  <2>5. \A s \in Node : Mine(s)' = Mine(s)
    BY <2>3 DEF Mine
  <2>6. rcv' \in [File -> Rinfo] /\ queue \in [Node -> Seq(File)] /\ \A s \in Node : queue[s] \in Seq(Mine(s))
    BY <1>1, <2>3 DEF FilesOk
  <2>7. queue' \in [Node -> Seq(File)] /\ \A s \in Node : queue'[s] \in Seq(Mine(s))
    BY <2>2, <2>3, <2>6
  <2> QED BY <2>3, <2>4, <2>5, <2>6, <2>7 DEF FilesOk
<1>8. CASE NoMoreFiles(p)
  BY <1>2, <1>3, <1>8 DEF NoMoreFiles
<1>9. CASE SendBlock(p)
  <2>1. sess' = sess /\ UNCHANGED <<queue, rcv>> /\ z[p].cur # NoFile
    BY <1>1, <1>9, BlockSent, LocalFacts DEF At, OpenStates
  <2>2. PICK n \in 0..(Size[z[p].cur] - snd[z[p].cur].pos), eof \in BOOLEAN :
          snd' = [snd EXCEPT ![z[p].cur].pos = @ + n, ![z[p].cur].eof = eof]
    BY <1>9, BlockSent
  <2>3. n \in Nat
    OBVIOUS
  <2>4. snd' \in [File -> Sinfo]
    BY <1>1, <1>3, <2>1, <2>2, <2>3 DEF Sinfo
  <2> QED BY <1>2, <1>3, <2>1, <2>4
<1>10. CASE ReadVanished(p) \/ TxSent(p) \/ TxSkipped(p) \/ TxRefused(p)
  <2>1. PICK status \in {"success", "skipped", "refused"} :
          /\ sess' = sess /\ UNCHANGED <<queue, rcv>>
          /\ snd' = [snd EXCEPT ![z[p].cur].status = status]
             \/ snd' = [snd EXCEPT ![z[p].cur].status = status, ![z[p].cur].there = FALSE]
    BY <1>10 DEF ReadVanished, TxSent, TxSkipped, TxRefused, Disposed
  <2>2. z[p].cur \in File
    BY <1>1, <1>10, LocalFacts DEF ReadVanished, TxSent, TxSkipped, TxRefused, At, Takes, OnFile, OpenStates, ShutStates
  <2>3. snd' \in [File -> Sinfo]
    BY <1>3, <2>1, <2>2 DEF Sinfo, Status
  <2> QED BY <1>2, <1>3, <2>1, <2>3
<1>11. CASE TxRpos(p)
  <2>1. /\ sess' = sess /\ UNCHANGED <<queue, rcv>> /\ chan[p] # << >>
        /\ snd' = [snd EXCEPT ![z[p].cur].pos = chan[p][1].pos, ![z[p].cur].eof = FALSE]
    BY <1>11 DEF TxRpos, Takes
  <2>2. z[p].cur \in File /\ chan[p][1].pos \in Nat
    BY <1>1, <1>11, <2>1, LocalFacts, FirstItem DEF TxRpos, At, Takes, OnFile, OpenStates, ShutStates
  <2>3. snd' \in [File -> Sinfo]
    BY <1>3, <2>1, <2>2 DEF Sinfo
  <2> QED BY <1>2, <1>3, <2>1, <2>3
<1>12. CASE GotFile(p)
  <2> DEFINE f == chan[p][1].file
             shut == IF z[p].recv = NoFile THEN rcv ELSE [rcv EXCEPT ![z[p].recv].open = FALSE]
  <2>1. PICK r \in {0, 1, 2} : rcv' = [shut EXCEPT ![f] = Offered(f, r)]
    BY <1>12, Offers
  <2>2. sess' = sess /\ f \in File /\ UNCHANGED <<queue, snd>>
    <3>1. f \in Mine(Peer(p)) /\ Mine(Peer(p)) \subseteq File
      BY <1>1, <1>12, Offers, MineIs, Nodes
    <3> QED BY <1>12, <3>1 DEF GotFile
  <2>3. shut \in [File -> Rinfo]
    BY <1>1, <1>3 DEF Rinfo
  <2>4. Offered(f, r) \in Rinfo
    <3> DEFINE status == CASE r = 0 -> "process" [] r = 1 -> "refused" [] r = 2 -> "skipped"
               bytes == IF r = 2 THEN SkipTo(f) ELSE rcv[f].bytes
    <3>1. Offered(f, r) = [rcv[f] EXCEPT !.open = (r = 0), !.status = status, !.bytes = bytes]
      BY DEF Offered
    <3>2. rcv[f] \in Rinfo /\ Size[f] \in Nat
      BY <1>1, <1>3, <2>2
    <3>3. status \in Status /\ bytes \in Nat
      BY <2>1, <3>2 DEF SkipTo, Rinfo, Status
    <3> HIDE DEF status, bytes, f
    <3> QED BY <3>1, <3>2, <3>3 DEF Rinfo
  <2> HIDE DEF f, shut
  <2>5. rcv' \in [File -> Rinfo]
    BY <2>1, <2>2, <2>3, <2>4
  <2> QED BY <1>2, <1>3, <2>2, <2>5
<1>13. CASE RecvBlock(p) \/ WriteFails(p) \/ RxEof(p) \/ CloseFails(p)
  <2>1. z[p].recv \in File /\ chan[p] # << >>
    BY <1>1, <1>13, LocalFacts DEF RecvBlock, WriteFails, RxEof, CloseFails, GoodBlock, ReadsData,
                                   Takes, At, RecvStates
  <2>2. chan[p][1].len \in Nat /\ rcv[z[p].recv] \in Rinfo
    BY <1>3, <2>1, FirstItem
  <2>3. sess' = sess /\ UNCHANGED <<queue, snd>>
    BY <1>13 DEF RecvBlock, WriteFails, RxEof, CloseFails
  <2>4. rcv' \in [File -> Rinfo]
    <3>1. CASE RecvBlock(p)
      <4> DEFINE good == rcv[z[p].recv].good /\ (chan[p][1].len = 0 \/ chan[p][1] =
                    [Sub("SUB", z[p].recv, chan[p][1].kind, chan[p][1].len) EXCEPT !.pos = rcv[z[p].recv].bytes])
      <4>1. rcv' = [rcv EXCEPT ![z[p].recv].bytes = rcv[z[p].recv].bytes + chan[p][1].len,
                               ![z[p].recv].good = good]
        BY <3>1 DEF RecvBlock
      <4>2. good \in BOOLEAN
        BY <2>2 DEF Rinfo
      <4> HIDE DEF good
      <4>3. rcv[z[p].recv].bytes + chan[p][1].len \in Nat
        BY <2>2 DEF Rinfo
      <4>4. \A b \in Nat, ok \in BOOLEAN : [rcv[z[p].recv] EXCEPT !.bytes = b, !.good = ok] \in Rinfo
        BY <2>2 DEF Rinfo
      <4>5. rcv' = [rcv EXCEPT ![z[p].recv] = [rcv[z[p].recv] EXCEPT
                                  !.bytes = rcv[z[p].recv].bytes + chan[p][1].len, !.good = good]]
        BY <1>3, <2>1, <4>1
      <4> QED BY <1>3, <2>1, <4>2, <4>3, <4>4, <4>5
    <3>2. CASE WriteFails(p)
      <4>1. PICK status \in {"refused", "skipped"} : rcv' = [rcv EXCEPT ![z[p].recv].status = status]
        BY <3>2 DEF WriteFails
      <4> QED BY <1>3, <2>1, <4>1 DEF Rinfo, Status
    <3>3. CASE RxEof(p)
      BY <1>3, <2>1, <3>3 DEF RxEof, Rinfo, Status
    <3>4. CASE CloseFails(p)
      BY <1>3, <2>1, <3>4 DEF CloseFails, Rinfo, Status
    <3> QED BY <1>13, <3>1, <3>2, <3>3, <3>4
  <2> QED BY <1>2, <1>3, <2>3, <2>4
<1> QED BY <1>4, <1>5, <1>6, <1>7, <1>8, <1>9, <1>10, <1>11, <1>12, <1>13 DEF Step

\* A step of p leaves its peer alone, and what is of the other side.
LEMMA Apart ==
  ASSUME TypeOK, NEW p \in Node, Step(p)
  PROVE  /\ sess' = sess /\ LocalsOk' /\ FilesOk' /\ Running(p) /\ Unheard(p)
         /\ Running(Peer(p)) /\ z[Peer(p)].st \in OpenStates =>
              snd'[z[Peer(p)].cur].pos = snd[z[Peer(p)].cur].pos
<1>1. sess' = sess /\ FilesOk'
  BY FilesKept
<1>2. /\ sess \in Sessions /\ z \in [Node -> Local] /\ snd \in [File -> Sinfo] /\ rcv \in [File -> Rinfo]
      /\ z[p].recv \in Mine(Peer(p)) \cup {NoFile} /\ z[Peer(p)].recv \in Mine(p) \cup {NoFile}
      /\ z[p].cur \in Mine(p) \cup {NoFile} /\ z[Peer(p)].cur \in Mine(Peer(p)) \cup {NoFile}
      /\ Peer(p) \in Node /\ Peer(p) # p
  BY LocalFacts, Nodes DEF TypeOK, LocalsOk, FilesOk
<1>3. Mine(p) \subseteq File /\ Mine(Peer(p)) \subseteq File /\ NoFile \notin File
      /\ Mine(p) \cap Mine(Peer(p)) = {}
  BY <1>2, MineIs, Constants
<1>4. Running(p) /\ LocalsOk' /\ z'[Peer(p)] = z[Peer(p)]
  <2>1. ASSUME Running(p), LocalsOk', NEW r, Becomes(p, r) \/ Moves(p, r)
        PROVE  Running(p) /\ LocalsOk' /\ z'[Peer(p)] = z[Peer(p)]
    BY <1>2, <2>1 DEF Becomes, Moves
  <2>2. CASE \/ SendRqinit(p) \/ SendFinfo(p) \/ StartData(p) \/ SendBlock(p)
             \/ ReadVanished(p) \/ SendEof(p) \/ SendFin(p)
             \/ TxRinit(p) \/ TxRinitFinfo(p) \/ TxSent(p) \/ TxSkipped(p) \/ TxRefused(p)
             \/ TxRinitFin(p) \/ TxAck(p) \/ TxRpos(p)
    <3>1. LocalsOk'
      BY <2>2, TxStays
    <3>2. Running(p)
      BY <2>2 DEF SendRqinit, SendFinfo, StartData, SendBlock, ReadVanished, SendEof, SendFin, TxRinit,
                  TxRinitFinfo, TxSent, TxSkipped, TxRefused, TxRinitFin, TxAck, TxRpos, At, Takes
    <3>3. CASE SendBlock(p)
      BY <2>1, <3>1, <3>2, <3>3, BlockSent
    <3>4. CASE ~SendBlock(p)
      <4>1. \E r : Becomes(p, r) \/ Moves(p, r)
        BY <2>2, <3>4 DEF SendRqinit, SendFinfo, StartData, ReadVanished, SendEof, SendFin, TxRinit,
                  TxRinitFinfo, TxSent, TxSkipped, TxRefused, TxRinitFin, TxAck, TxRpos,
                  Tried, Disposed, Reads, Goes
      <4> QED BY <2>1, <3>1, <3>2, <4>1
    <3> QED BY <3>3, <3>4
  <2>3. CASE \/ SendInit(p) \/ SendRpos(p) \/ NotFile(p) \/ SwallowHeader(p)
             \/ RecvBlock(p) \/ WriteFails(p) \/ RecvBadBlock(p)
             \/ RxRqinit(p) \/ RxFile(p) \/ RxData(p) \/ RxEof(p) \/ CloseFails(p)
             \/ RxEofElsewhere(p) \/ RxFinDoubted(p)
    <3>1. LocalsOk'
      BY <2>3, RxStays
    <3>2. Running(p)
      BY <2>3 DEF SendInit, SendRpos, NotFile, SwallowHeader, RecvBlock, WriteFails, RecvBadBlock, RxRqinit,
                  RxFile, RxData, RxEof, CloseFails, RxEofElsewhere, RxFinDoubted, GoodBlock, ReadsData, At, Takes
    <3>3. \E r : Becomes(p, r) \/ Moves(p, r)
      BY <2>3 DEF SendInit, SendRpos, NotFile, SwallowHeader, RecvBlock, WriteFails, RecvBadBlock, RxRqinit,
                  RxFile, RxData, RxEof, CloseFails, RxEofElsewhere, RxFinDoubted, Tried, Reads, Goes
    <3> QED BY <2>1, <3>1, <3>2, <3>3
  <2>4. CASE ReadNak(p) \/ ReadBad(p) \/ ReadIgnored(p) \/ Timer(p)
    <3>1. Running(p) /\ \E r : Becomes(p, r)
      BY <2>4 DEF ReadNak, ReadBad, ReadIgnored, Timer, Reads, Goes, At, Takes
    <3> QED BY <2>1, <2>4, <3>1, ReadersStay
  <2>5. CASE Stop(p)
    BY <1>2, <2>5, StopIs, StopsWell
  <2>6. CASE TxFin(p) \/ RxFin(p)
    <3>1. PhaseDone(p) /\ Running(p)
      BY <2>6 DEF TxFin, RxFin, At, Takes
    <3> QED BY <1>2, <3>1, HalfDone
  <2>7. CASE NextFile(p) \/ NoMoreFiles(p)
    <3>1. Running(p) /\ \E r : Becomes(p, r)
      BY <2>7 DEF NextFile, NoMoreFiles, At
    <3> QED BY <2>1, <2>7, <3>1, OpensFile
  <2>8. CASE GotFile(p)
    <3>1. \E r : Becomes(p, r)
      BY <2>8 DEF GotFile
    <3> QED BY <2>1, <2>8, <3>1, Offers
  <2>9. CASE Garble(p)
    <3>1. Running(p) /\ z' = z
      BY <2>9 DEF Garble
    <3>2. \A s \in Node : Mine(s)' = Mine(s)
      BY <1>1 DEF Mine
    <3>3. \A s \in Node : LocalOk(s)'
      BY <3>1, <3>2, Nodes DEF TypeOK, LocalsOk, LocalOk, Running
    <3> QED BY <3>1, <3>3 DEF TypeOK, LocalsOk
  <2> QED BY <2>2, <2>3, <2>4, <2>5, <2>6, <2>7, <2>8, <2>9 DEF Step, Quiet
<1>5. ASSUME Running(Peer(p)), z[Peer(p)].st \in OpenStates
      PROVE  snd'[z[Peer(p)].cur].pos = snd[z[Peer(p)].cur].pos
  <2>1. z[Peer(p)].cur \in Mine(Peer(p)) /\ z[Peer(p)].cur \in File
    BY <1>2, <1>3, <1>5, LocalFacts
  <2>2. snd' = snd \/ (\E f \in Mine(p) \cup {NoFile} : \E v : snd' = [snd EXCEPT ![f] = v]) \/ NextFile(p)
    <3>1. CASE Quiet(p) \/ Stop(p) \/ TxFin(p) \/ RxFin(p) \/ Garble(p) \/ NoMoreFiles(p) \/ GotFile(p)
               \/ RecvBlock(p) \/ WriteFails(p) \/ RxEof(p) \/ CloseFails(p)
      BY <3>1, QuietIs, StopIs DEF files, Ends, TxFin, RxFin, PhaseDone, Garble, NoMoreFiles, GotFile, RecvBlock,
              WriteFails, RxEof, CloseFails
    <3>2. CASE SendBlock(p)
      <4>1. PICK n, eof : snd' = [snd EXCEPT ![z[p].cur].pos = @ + n, ![z[p].cur].eof = eof]
        BY <3>2, BlockSent
      <4>2. snd' = [snd EXCEPT ![z[p].cur] = [snd[z[p].cur] EXCEPT !.pos = @ + n, !.eof = eof]]
        BY <1>2, <1>3, <4>1
      <4> QED BY <1>2, <4>2
    <3>3. CASE ReadVanished(p) \/ TxSent(p) \/ TxSkipped(p) \/ TxRefused(p) \/ TxRpos(p)
      <4>1. PICK w : snd' = [snd EXCEPT ![z[p].cur] = w]
        BY <3>3 DEF ReadVanished, TxSent, TxSkipped, TxRefused, TxRpos, Disposed
      <4> QED BY <1>2, <4>1
    <3> QED BY <3>1, <3>2, <3>3 DEF Step
  <2>3. CASE NextFile(p)
    BY <1>2, <2>1, <2>3 DEF NextFile
  <2> QED BY <1>2, <1>3, <2>1, <2>2, <2>3
<1>6. ASSUME Running(Peer(p)) PROVE Received(Peer(p))' = Received(Peer(p))
  <2> DEFINE g == z[Peer(p)].recv
  <2>1. CASE z[Peer(p)].st # "WAITDATA"
    BY <1>4, <2>1 DEF Received
  <2>2. CASE z[Peer(p)].st = "WAITDATA"
    <3>1. g \in Mine(p) /\ g \in File
      BY <1>2, <1>3, <1>6, <2>2, LocalFacts DEF RecvStates
    <3>2. CASE Quiet(p) \/ Garble(p) \/ NextFile(p) \/ NoMoreFiles(p) \/ SendBlock(p) \/ ReadVanished(p)
               \/ TxSent(p) \/ TxSkipped(p) \/ TxRefused(p) \/ TxRpos(p)
      <4>1. rcv' = rcv
        BY <3>2, QuietIs, BlockSent DEF files, Garble, NextFile, NoMoreFiles, ReadVanished, TxSent, TxSkipped,
                TxRefused, TxRpos, Disposed
      <4> QED BY <1>4, <4>1 DEF Received
    <3>3. CASE Stop(p) \/ TxFin(p) \/ RxFin(p) \/ WriteFails(p) \/ RxEof(p) \/ CloseFails(p)
      <4>1. rcv' = rcv \/ \E v : rcv' = [rcv EXCEPT ![z[p].recv] = v]
        BY <3>3, StopIs DEF Ends, TxFin, RxFin, PhaseDone, WriteFails, RxEof, CloseFails
      <4>2. rcv'[g] = rcv[g]
        BY <1>2, <1>3, <3>1, <4>1
      <4> QED BY <1>4, <4>2 DEF Received
    <3>4. CASE RecvBlock(p)
      <4>1. PICK b, ok : rcv' = [rcv EXCEPT ![z[p].recv].bytes = b, ![z[p].recv].good = ok]
        BY <3>4 DEF RecvBlock
      <4>2. rcv'[g] = rcv[g]
        BY <1>2, <1>3, <3>1, <4>1
      <4> QED BY <1>4, <4>2 DEF Received
    <3>5. CASE GotFile(p)
      <4>1. chan[p][1].file \in Mine(Peer(p)) /\ chan[p][1].file \in File
        BY <1>3, <3>5, Offers
      <4>2. PICK v, u : rcv' = [u EXCEPT ![chan[p][1].file] = v]
                        /\ u = IF z[p].recv = NoFile THEN rcv ELSE [rcv EXCEPT ![z[p].recv].open = FALSE]
        <5> DEFINE shut == IF z[p].recv = NoFile THEN rcv ELSE [rcv EXCEPT ![z[p].recv].open = FALSE]
        <5>1. PICK r \in {0, 1, 2} : rcv' = [shut EXCEPT ![chan[p][1].file] = Offered(chan[p][1].file, r)]
          BY <3>5, Offers
        <5> HIDE DEF shut
        <5>2. \E v, u : rcv' = [u EXCEPT ![chan[p][1].file] = v] /\ u = shut
          BY <5>1
        <5> QED BY <5>2 DEF shut
      <4>3. u[g] = rcv[g] /\ DOMAIN u = File
        BY <1>2, <1>3, <3>1, <4>2
      <4>4. rcv'[g] = rcv[g]
        BY <1>3, <3>1, <4>1, <4>2, <4>3
      <4> QED BY <1>4, <4>4 DEF Received
    <3> QED BY <3>2, <3>3, <3>4, <3>5 DEF Step
  <2> QED BY <2>1, <2>2
<1> QED BY <1>1, <1>4, <1>5, <1>6 DEF Unheard

-----------------------------------------------------------------------------
(* The lines                                                                *)

LEMMA Items ==
  ASSUME NEW p
  PROVE  /\ \A t \in Headers, n \in Nat :
              Hdr(t, n) \in From(p) /\ ~IsSub(Hdr(t, n)) /\ (t # "DATA" => ~Source(Hdr(t, n)))
              /\ Hdr(t, n).pos = n /\ Hdr(t, n).len = 0
         /\ EmptyE \in From(p) /\ IsSub(EmptyE) /\ Shut(EmptyE) /\ EmptyE.len = 0
         /\ \A f \in Mine(p) : f # NoFile =>
              /\ Sub("FINFO", f, "W", 0) \in From(p) /\ IsSub(Sub("FINFO", f, "W", 0))
              /\ Shut(Sub("FINFO", f, "W", 0)) /\ Sub("FINFO", f, "W", 0).len = 0
<1>1. ASSUME NEW t \in Headers, NEW n \in Nat
      PROVE  /\ Hdr(t, n) \in From(p) /\ ~IsSub(Hdr(t, n)) /\ (t # "DATA" => ~Source(Hdr(t, n)))
             /\ Hdr(t, n).pos = n /\ Hdr(t, n).len = 0
  BY <1>1 DEF From, Hdr, IsSub, Source
<1>2. ASSUME NEW t \in {"SUB", "FINFO"}, NEW f \in Mine(p) \cup {NoFile}, t = "FINFO" => f # NoFile,
             NEW k \in {"W", "E"}
      PROVE  Sub(t, f, k, 0) \in From(p) /\ IsSub(Sub(t, f, k, 0)) /\ Shut(Sub(t, f, k, 0)) /\ Sub(t, f, k, 0).len = 0
  BY <1>2 DEF From, Sub, IsSub, Shut, Subpackets
<1>3. EmptyE \in From(p) /\ IsSub(EmptyE) /\ Shut(EmptyE) /\ EmptyE.len = 0
  BY <1>2 DEF EmptyE
<1>4. ASSUME NEW f \in Mine(p), f # NoFile
      PROVE  /\ Sub("FINFO", f, "W", 0) \in From(p) /\ IsSub(Sub("FINFO", f, "W", 0))
             /\ Shut(Sub("FINFO", f, "W", 0)) /\ Sub("FINFO", f, "W", 0).len = 0
  BY <1>2, <1>4
<1> QED BY <1>1, <1>3, <1>4

\* p says ms.
LEMMA Said ==
  ASSUME TypeOK, sess' = sess, NEW p \in Node, NEW ms \in Seq(From(p)), Sends(p, ms)
  PROVE  /\ LinesOk' /\ chan'[p] = chan[p]
         /\ chan'[Peer(p)] = IF Running(Peer(p)) THEN chan[Peer(p)] \o ms ELSE chan[Peer(p)]
<1>1. /\ DOMAIN chan = Node /\ Peer(p) \in Node /\ Peer(p) # p /\ Peer(Peer(p)) = p
      /\ \A s \in Node : s = p \/ s = Peer(p)
      /\ chan[p] \in Seq(From(Peer(p))) /\ chan[Peer(p)] \in Seq(From(p))
  BY Nodes DEF TypeOK, LinesOk
<1>2. \A s \in Node : From(s)' = From(s)
  BY DEF From, Mine
<1>3. /\ DOMAIN chan' = Node /\ chan'[p] = chan[p]
      /\ chan'[Peer(p)] = IF Running(Peer(p)) THEN chan[Peer(p)] \o ms ELSE chan[Peer(p)]
  BY <1>1 DEF Sends
<1>4. chan[Peer(p)] \o ms \in Seq(From(p))
  BY <1>1, ConcatProperties
<1> QED BY <1>1, <1>2, <1>3, <1>4 DEF LinesOk

\* p takes the first item and says ms; "out" is what is left of what it said before.
LEMMA Answered ==
  ASSUME TypeOK, sess' = sess, NEW p \in Node, chan[p] # << >>, NEW out \in Seq(From(p)),
         chan' = [chan EXCEPT ![p] = Tail(@), ![Peer(p)] = IF Running(Peer(p)) THEN out ELSE @]
  PROVE  /\ LinesOk' /\ chan'[p] = Tail(chan[p])
         /\ chan'[Peer(p)] = IF Running(Peer(p)) THEN out ELSE chan[Peer(p)]
<1>1. /\ DOMAIN chan = Node /\ Peer(p) \in Node /\ Peer(p) # p /\ Peer(Peer(p)) = p
      /\ \A s \in Node : s = p \/ s = Peer(p)
      /\ chan[Peer(p)] \in Seq(From(p)) /\ Tail(chan[p]) \in Seq(From(Peer(p)))
  BY Nodes, FirstItem DEF TypeOK, LinesOk
<1>2. \A s \in Node : From(s)' = From(s)
  BY DEF From, Mine
<1>3. /\ DOMAIN chan' = Node /\ chan'[p] = Tail(chan[p])
      /\ chan'[Peer(p)] = IF Running(Peer(p)) THEN out ELSE chan[Peer(p)]
  BY <1>1
<1> QED BY <1>1, <1>2, <1>3 DEF LinesOk

LEMMA Answering ==
  ASSUME TypeOK, sess' = sess, NEW p \in Node, chan[p] # << >>, NEW ms \in Seq(From(p)), Answers(p, ms)
  PROVE  /\ LinesOk' /\ chan'[p] = Tail(chan[p])
         /\ chan'[Peer(p)] = IF Running(Peer(p)) THEN chan[Peer(p)] \o ms ELSE chan[Peer(p)]
<1>1. chan[Peer(p)] \o ms \in Seq(From(p))
  <2>1. chan[Peer(p)] \in Seq(From(p))
    BY Nodes DEF TypeOK, LinesOk
  <2> QED BY <2>1, ConcatProperties
<1>2. DOMAIN chan = Node /\ Peer(p) \in Node /\ Peer(p) # p
  BY Nodes DEF TypeOK, LinesOk
<1>3. chan' = [chan EXCEPT ![p] = Tail(@), ![Peer(p)] = IF Running(Peer(p)) THEN chan[Peer(p)] \o ms ELSE @]
  BY <1>2 DEF Answers
<1> QED BY <1>1, <1>3, Answered

\* Nothing follows what is said last.
LEMMA Nothing ==
  ASSUME NEW S, NEW c \in Seq(S)
  PROVE  c \o << >> = c /\ << >> \in Seq(S)
BY ConcatEmptySeq, EmptySeq

\* A receiver that takes no data next.
LEMMA NoData ==
  ASSUME NEW p, z'[p].st # "WAITDATA" \/ z'[p].dirty
  PROVE  Received(p)' = EmptyE
BY DEF Received

LEMMA After ==
  ASSUME TypeOK, NEW p \in Node, NEW r \in Local, Becomes(p, r) \/ Moves(p, r)
  PROVE  /\ z'[p].st = r.st /\ z'[p].cur = r.cur /\ z'[p].recv = r.recv
         /\ z'[p].dirty = r.dirty /\ z'[p].rc = r.rc
<1>1. PICK b \in BOOLEAN : z' = [z EXCEPT ![p] = [r EXCEPT !.moved = b]]
  BY DEF Becomes, Moves
<1>2. z'[p] = [r EXCEPT !.moved = b]
  BY <1>1 DEF TypeOK, LocalsOk
<1> QED BY <1>2 DEF Local

-----------------------------------------------------------------------------
(* What a mailer says, and what it hears                                    *)

Idle == State \ (OpenStates \cup ShutStates \cup {"WAITDATA"})
NoDatum(p) == {Hdr(t, n) : t \in Headers \ {"DATA"}, n \in Nat}

\* p takes no data next.
LEMMA Listens ==
  ASSUME ZInv, NEW p \in Node, Step(p),
         Running(p)' =>
           /\ z'[p].st # "WAITDATA" \/ z'[p].dirty
           /\ chan'[p] = chan[p] \/ (chan[p] # << >> /\ chan'[p] = Tail(chan[p]))
  PROVE  Flow(Peer(p))'
<1>1. Peer(p) \in Node /\ chan[p] \in Seq(From(Peer(p)))
  BY Nodes DEF ZInv, TypeOK, LinesOk
<1>2. /\ Running(p) /\ z'[Peer(p)] = z[Peer(p)]
      /\ Running(Peer(p)) /\ z[Peer(p)].st \in OpenStates =>
           snd'[z[Peer(p)].cur].pos = snd[z[Peer(p)].cur].pos
  BY Apart DEF ZInv, Unheard
<1>3. Running(p)' => Received(p)' = EmptyE /\ Shut(Received(p)')
  BY NoData, ReceivedIs
<1> QED BY <1>1, <1>2, <1>3, Hears DEF ZInv, Heard

\* p says no data and goes on with the same file, or with none.
LEMMA Speaks ==
  ASSUME ZInv, NEW p \in Node, Step(p), GoesOn(p),
         \/ chan'[Peer(p)] = chan[Peer(p)]
         \/ ~Running(Peer(p))
         \/ \E m \in NoDatum(p) : chan'[Peer(p)] = chan[Peer(p)] \o <<m>>
  PROVE  Flow(p)'
<1>1. chan[Peer(p)] \in Seq(From(p)) /\ Peer(p) \in Node
  BY Nodes DEF ZInv, TypeOK, LinesOk
<1>2. \A m \in NoDatum(p) : m \in From(p) /\ ~Source(m)
  BY Items DEF NoDatum
<1>3. Unheard(p)
  BY Apart DEF ZInv
<1> QED BY <1>1, <1>2, <1>3, SaysNoData DEF ZInv

\* p says one thing that is no data.
LEMMA SaysOne ==
  ASSUME ZInv, NEW p \in Node, Step(p), NEW m \in NoDatum(p), Sends(p, <<m>>),
         GoesOn(p), z'[p].st # "WAITDATA"
  PROVE  LinesOk' /\ Flow(p)' /\ Flow(Peer(p))'
<1>1. <<m>> \in Seq(From(p))
  BY Items DEF NoDatum
<1>2. /\ LinesOk' /\ chan'[p] = chan[p]
      /\ chan'[Peer(p)] = IF Running(Peer(p)) THEN chan[Peer(p)] \o <<m>> ELSE chan[Peer(p)]
  BY <1>1, Said, Apart DEF ZInv
<1> QED BY <1>2, Speaks, Listens

\* p takes an item that is no data to it, and says nothing or one thing.
LEMMA Replies ==
  ASSUME ZInv, NEW p \in Node, Step(p), chan[p] # << >>,
         NEW ms, ms = << >> \/ (\E m \in NoDatum(p) : ms = <<m>>), Answers(p, ms),
         GoesOn(p), Running(p)' => z'[p].st # "WAITDATA" \/ z'[p].dirty
  PROVE  LinesOk' /\ Flow(p)' /\ Flow(Peer(p))'
<1>1. ms \in Seq(From(p))
  <2>1. << >> \in Seq(From(p))
    BY EmptySeq
  <2>2. \A m \in NoDatum(p) : m \in From(p)
    BY Items DEF NoDatum
  <2>3. ASSUME NEW m \in NoDatum(p), ms = <<m>> PROVE ms \in Seq(From(p))
    BY <2>2, <2>3
  <2> QED BY <2>1, <2>3
<1>2. /\ LinesOk' /\ chan'[p] = Tail(chan[p])
      /\ chan'[Peer(p)] = IF Running(Peer(p)) THEN chan[Peer(p)] \o ms ELSE chan[Peer(p)]
  BY <1>1, Answering, Apart DEF ZInv
<1>3. chan[Peer(p)] \o << >> = chan[Peer(p)]
  BY Nothing, Nodes DEF ZInv, TypeOK, LinesOk
<1> QED BY <1>2, <1>3, Speaks, Listens

LEMMA Idles ==
  ASSUME NEW p, Running(p), Running(p)' => z'[p].st \in Idle
  PROVE  GoesOn(p) /\ (Running(p)' => z'[p].st # "WAITDATA")
BY DEF Idle, GoesOn

\* Headers that a mailer sends of its own accord.
LEMMA HeadersFlow ==
  ASSUME ZInv, NEW p \in Node,
         \/ SendRqinit(p) \/ SendEof(p) \/ SendFin(p) \/ SendInit(p) \/ SendRpos(p) \/ NoMoreFiles(p)
  PROVE  LinesOk' /\ Flow(p)' /\ Flow(Peer(p))'
<1>1. /\ z[p] \in Local /\ z[p].init \in {"RINIT", "SKIP", "FERR"} /\ z \in [Node -> Local] /\ Running(p)
      /\ z[p].st = "SENDRPOS" => z[p].recv \in File
      /\ z[p].st = "EOF" => z[p].cur \in File
      /\ snd \in [File -> Sinfo] /\ rcv \in [File -> Rinfo]
  <2>1. Running(p)
    BY DEF SendRqinit, SendEof, SendFin, SendInit, SendRpos, NoMoreFiles, At
  <2> QED BY <2>1, LocalFacts, MineIs, Nodes DEF ZInv, TypeOK, LocalsOk, FilesOk, Local, ShutStates, RecvStates
<1>2. Step(p)
  BY DEF Step, Quiet
<1>3. ASSUME NEW t \in Headers \ {"DATA"}, NEW n \in Nat, Sends(p, <<Hdr(t, n)>>), z'[p].st \in Idle
      PROVE  LinesOk' /\ Flow(p)' /\ Flow(Peer(p))'
  <2>1. Hdr(t, n) \in NoDatum(p)
    BY DEF NoDatum
  <2>2. z'[p].st # "WAITDATA"
    BY <1>3 DEF Idle
  <2> QED BY <1>1, <1>2, <1>3, <2>1, <2>2, Idles, SaysOne
<1>4. CASE SendRqinit(p)
  <2>1. z'[p].st = "RQINITACK"
    BY <1>1, <1>4 DEF SendRqinit, Tried, Becomes, Local
  <2> QED BY <1>3, <1>4, <2>1 DEF SendRqinit, Headers, Idle, State, OpenStates, ShutStates
<1>5. CASE SendFin(p)
  <2>1. z'[p].st = "FINACK"
    BY <1>1, <1>5 DEF SendFin, Tried, Becomes, Local
  <2> QED BY <1>3, <1>5, <2>1 DEF SendFin, Headers, Idle, State, OpenStates, ShutStates
<1>6. CASE SendInit(p)
  <2>1. z'[p].st = "INITACK"
    BY <1>1, <1>6 DEF SendInit, Becomes, Local
  <2> QED BY <1>1, <1>3, <1>6, <2>1 DEF SendInit, Headers, Idle, State, OpenStates, ShutStates
<1>7. CASE SendRpos(p)
  <2>1. z'[p].st = "RPOSACK" /\ z[p].st = "SENDRPOS"
    BY <1>1, <1>7 DEF SendRpos, Tried, Becomes, Local, At
  <2>2. rcv[z[p].recv].bytes \in Nat
    BY <1>1, <2>1 DEF Rinfo
  <2> QED BY <1>3, <1>7, <2>1, <2>2 DEF SendRpos, Headers, Idle, State, OpenStates, ShutStates
<1>8. CASE NoMoreFiles(p)
  <2>1. z'[p].st = "FINACK"
    BY <1>1, <1>8 DEF NoMoreFiles, Becomes, Local
  <2> QED BY <1>3, <1>8, <2>1 DEF NoMoreFiles, Headers, Idle, State, OpenStates, ShutStates
<1>9. CASE SendEof(p)
  <2>1. z'[p].st = "EOFACK" /\ z[p].st = "EOF"
    BY <1>1, <1>9 DEF SendEof, Tried, Becomes, Local, At
  <2>2. snd[z[p].cur].pos \in Nat
    BY <1>1, <2>1 DEF Sinfo
  <2>3. Hdr("EOF", snd[z[p].cur].pos) \in NoDatum(p)
    BY <2>2 DEF NoDatum, Headers
  <2>4. GoesOn(p)
    BY <1>1, <2>1 DEF GoesOn, OpenStates, ShutStates
  <2> QED BY <1>2, <1>9, <2>1, <2>3, <2>4, SaysOne DEF SendEof
<1> QED BY <1>4, <1>5, <1>6, <1>7, <1>8, <1>9

\* A mailer that takes an item and is neither sending a file nor waiting for data.
LEMMA IdleReplies ==
  ASSUME ZInv, NEW p \in Node,
         \/ TxRinit(p) \/ TxRinitFin(p) \/ NotFile(p) \/ RecvBadBlock(p) \/ RxRqinit(p) \/ RxFile(p)
         \/ RxEofElsewhere(p) \/ RxFinDoubted(p) \/ GotFile(p) \/ WriteFails(p) \/ RxEof(p)
         \/ CloseFails(p) \/ TxFin(p) \/ RxFin(p)
  PROVE  LinesOk' /\ Flow(p)' /\ Flow(Peer(p))'
<1>1. TypeOK /\ z[p] \in Local /\ z \in [Node -> Local] /\ Step(p)
  BY LocalFacts DEF ZInv, TypeOK, LocalsOk, Step, Quiet
<1>2. Running(p) /\ chan[p] # << >>
  BY DEF TxRinit, TxRinitFin, NotFile, RecvBadBlock, RxRqinit, RxFile, RxEofElsewhere, RxFinDoubted, GotFile,
         WriteFails, RxEof, CloseFails, TxFin, RxFin, GoodBlock, ReadsData, Takes, At
<1>3. \E ms : /\ ms = << >> \/ (\E m \in NoDatum(p) : ms = <<m>>)
              /\ Answers(p, ms)
  <2>1. Hdr("RQINIT", 0) \in NoDatum(p) /\ Hdr("NAK", 0) \in NoDatum(p) /\ Hdr("FIN", 0) \in NoDatum(p)
    BY DEF NoDatum, Headers
  <2>2. Answers(p, << >>) \/ Answers(p, <<Hdr("RQINIT", 0)>>) \/ Answers(p, <<Hdr("NAK", 0)>>)
        \/ Answers(p, <<Hdr("FIN", 0)>>)
    BY DEF TxRinit, TxRinitFin, NotFile, RecvBadBlock, RxRqinit, RxFile, RxEofElsewhere, RxFinDoubted, GotFile,
         WriteFails, RxEof, CloseFails, TxFin, RxFin, Reads
  <2> QED BY <2>1, <2>2
<1>4. Running(p)' => z'[p].st \in {"NEXTFILE", "FIN", "INITACK", "SENDRPOS", "INIT", "FILEDATA", "RPOSACK", "RQINIT"}
  <2>1. CASE TxRinit(p) \/ TxRinitFin(p) \/ NotFile(p) \/ RxRqinit(p) \/ RxFile(p) \/ RxEofElsewhere(p)
             \/ RxFinDoubted(p) \/ RxEof(p)
    <3>1. CASE TxRinit(p)
      BY <1>1, <3>1 DEF TxRinit, Becomes, Local
    <3>2. CASE TxRinitFin(p) \/ NotFile(p) \/ RxEofElsewhere(p)
      <4>1. \E st \in {"FIN", "INITACK", "RPOSACK"} : Becomes(p, [z[p] EXCEPT !.st = st])
        BY <3>2 DEF TxRinitFin, NotFile, RxEofElsewhere, Reads, Goes
      <4> QED BY <1>1, <4>1 DEF Becomes, Local
    <3>3. CASE RxRqinit(p)
      BY <1>1, <3>3 DEF RxRqinit, Becomes, Local
    <3>4. CASE RxFile(p)
      BY <1>1, <3>4 DEF RxFile, Becomes, Local
    <3>5. CASE RxFinDoubted(p)
      BY <1>1, <3>5 DEF RxFinDoubted, Becomes, Local
    <3>6. CASE RxEof(p)
      BY <1>1, <3>6 DEF RxEof, Becomes, Local
    <3> QED BY <2>1, <3>1, <3>2, <3>3, <3>4, <3>5, <3>6
  <2>2. CASE RecvBadBlock(p) \/ WriteFails(p) \/ CloseFails(p)
    <3>1. PICK r \in {Refusing(z[p]), Skipping(z[p]), Repositions(z[p])} : Becomes(p, r) \/ Moves(p, r)
      BY <2>2 DEF RecvBadBlock, WriteFails, CloseFails
    <3> QED BY <1>1, <3>1, Verdicts, After
  <2>3. CASE TxFin(p) \/ RxFin(p)
    BY <1>1, <2>3, HalfDone DEF TxFin, RxFin
  <2>4. CASE GotFile(p)
    BY <1>1, <2>4, Offers
  <2> QED BY <2>1, <2>2, <2>3, <2>4
<1>5. Running(p)' => z'[p].st \in Idle
  BY <1>4 DEF Idle, State, OpenStates, ShutStates
<1>6. GoesOn(p) /\ (Running(p)' => z'[p].st # "WAITDATA")
  BY <1>2, <1>5, Idles
<1> QED BY <1>1, <1>2, <1>3, <1>6, Replies

LEMMA OtherReplies ==
  ASSUME ZInv, NEW p \in Node,
         \/ TxRinitFinfo(p) \/ TxAck(p) \/ ReadNak(p) \/ ReadBad(p) \/ ReadIgnored(p) \/ SwallowHeader(p)
         \/ (RxData(p) /\ ~InPlace(p))
  PROVE  LinesOk' /\ Flow(p)' /\ Flow(Peer(p))'
<1>1. /\ TypeOK /\ z[p] \in Local /\ z \in [Node -> Local] /\ Step(p) /\ z[p].st \in State
      /\ z[p].rinits + 1 \in Nat
  BY LocalFacts DEF ZInv, TypeOK, LocalsOk, Step, Quiet, Local
<1>2. Running(p) /\ chan[p] # << >> /\ snd' = snd
  BY DEF TxRinitFinfo, TxAck, ReadNak, ReadBad, ReadIgnored, SwallowHeader, RxData, Takes, At, files
<1>3. \E ms : /\ ms = << >> \/ (\E m \in NoDatum(p) : ms = <<m>>)
              /\ Answers(p, ms)
  <2>1. Hdr("NAK", 0) \in NoDatum(p)
    BY DEF NoDatum, Headers
  <2>2. Answers(p, << >>) \/ Answers(p, <<Hdr("NAK", 0)>>)
    BY DEF TxRinitFinfo, TxAck, ReadNak, ReadBad, ReadIgnored, SwallowHeader, RxData, Reads
  <2> QED BY <2>1, <2>2
<1>4. /\ z'[p].cur = z[p].cur
      /\ z'[p].st \in OpenStates => z[p].st \in OpenStates \cup ShutStates
      /\ z'[p].st \in ShutStates => z[p].st \in ShutStates
      /\ z'[p].st # "WAITDATA" \/ z'[p].dirty
  <2>1. CASE TxRinitFinfo(p)
    BY <1>1, <2>1 DEF TxRinitFinfo, Takes, At, Becomes, Local, OpenStates, ShutStates
  <2>2. CASE TxAck(p)
    BY <1>1, <2>2 DEF TxAck, Takes, At, Becomes, Local, OpenStates, ShutStates, Streaming
  <2>3. CASE ReadNak(p) \/ ReadBad(p) \/ ReadIgnored(p)
    <3>1. PICK st \in {Again(z[p].st), AfterRead(z[p].st), z[p].st} :
            Becomes(p, [z[p] EXCEPT !.st = st]) /\ z[p].st \in Reading \cup Repeating
      BY <2>3 DEF ReadNak, ReadBad, ReadIgnored, Reads, Goes, Takes, At
    <3>2. z'[p].cur = z[p].cur /\ z'[p].st = st
      BY <1>1, <3>1 DEF Becomes, Local
    <3>3. z[p].st # "WAITDATA"
      BY <3>1 DEF Reading, TxReading, Repeating
    <3> QED BY <1>1, <3>1, <3>2, <3>3, Places DEF OpenStates, ShutStates, RecvStates
  <2>4. CASE SwallowHeader(p)
    BY <1>1, <2>4 DEF SwallowHeader, Becomes, Local
  <2>5. CASE RxData(p) /\ ~InPlace(p)
    <3>1. Becomes(p, Repositions(z[p]))
      BY <2>5 DEF RxData
    <3> QED BY <1>1, <3>1, Verdicts, After DEF OpenStates, ShutStates
  <2> QED BY <2>1, <2>2, <2>3, <2>4, <2>5
<1>5. GoesOn(p)
  BY <1>2, <1>4 DEF GoesOn
<1> QED BY <1>1, <1>2, <1>3, <1>4, <1>5, Replies

\* A mailer that stops hears nothing and says nothing.
LEMMA StopsFlow ==
  ASSUME ZInv, NEW p \in Node, Stop(p)
  PROVE  LinesOk' /\ Flow(p)' /\ Flow(Peer(p))'
<1>1. Step(p) /\ TypeOK
  BY DEF Step, ZInv
<1>2. PICK code \in {"error", "crash"} : Ends(p, code)
  BY StopIs
<1>3. sess' = sess /\ ~Running(p)'
  BY <1>1, <1>2, StopIs, StopsWell DEF Running
<1>4. /\ DOMAIN chan' = Node /\ chan'[p] = << >> /\ \A s \in Node : s # p => chan'[s] = chan[s]
      /\ \A s \in Node : chan[s] \in Seq(From(Peer(s)))
  BY <1>1, <1>2 DEF Ends, TypeOK, LinesOk
<1>5. \A s \in Node : From(s)' = From(s)
  BY <1>3 DEF From, Mine
<1>6. LinesOk'
  <2>1. << >> \in Seq(From(Peer(p)))
    BY EmptySeq
  <2>2. \A s \in Node : chan'[s] \in Seq(From(Peer(s)))
    BY <1>4, <2>1
  <2>3. \A s \in Node : From(Peer(s))' = From(Peer(s))
    BY <1>5, Nodes
  <2> QED BY <1>4, <2>2, <2>3 DEF LinesOk
<1> QED BY <1>1, <1>3, <1>4, <1>6, Nodes, Speaks, Listens DEF GoesOn

\* Garbled or lost on its way to p.
LEMMA GarbleFlow ==
  ASSUME ZInv, NEW p \in Node, Garble(p)
  PROVE  LinesOk' /\ Flow(p)' /\ Flow(Peer(p))'
<1> DEFINE m == chan[p][1]
           g == Garbled(m)
<1>1. Step(p) /\ TypeOK /\ Running(p) /\ chan[p] # << >> /\ z' = z /\ rcv' = rcv /\ snd' = snd /\ sess' = sess
  BY DEF Step, ZInv, Garble, files
<1>2. \/ chan' = [chan EXCEPT ![p] = <<g>> \o Tail(@)]
      \/ ~IsSub(m) /\ chan' = [chan EXCEPT ![p] = << >> \o Tail(@)]
  BY DEF Garble
<1>3. /\ DOMAIN chan = Node /\ Peer(p) \in Node /\ Peer(p) # p /\ Peer(Peer(p)) = p
      /\ \A s \in Node : chan[s] \in Seq(From(Peer(s)))
      /\ m \in From(Peer(p)) /\ Tail(chan[p]) \in Seq(From(Peer(p)))
  BY <1>1, Nodes, FirstItem DEF TypeOK, LinesOk
<1>4. g \in From(Peer(p))
  <2>1. CASE IsSub(m)
    BY <1>3, <2>1 DEF Garbled, IsSub, From, Subpackets, Headers, Shut
  <2>2. CASE ~IsSub(m)
    BY <2>2, Items DEF Garbled, Headers
  <2> QED BY <2>1, <2>2
<1>5. /\ IsSub(g) <=> IsSub(m)
      /\ IsSub(g) => g.len = m.len /\ g.pos = m.pos /\ g.kind = m.kind
      /\ ~IsSub(g) => g.type # "DATA" /\ g.len = 0
  <2>1. CASE IsSub(m)
    BY <1>3, <2>1 DEF Garbled, IsSub, From
  <2>2. CASE ~IsSub(m)
    BY <2>2 DEF Garbled, IsSub, Hdr
  <2> QED BY <2>1, <2>2
<1> HIDE DEF g, m
<1>6. /\ DOMAIN chan' = Node /\ \A s \in Node : s # p => chan'[s] = chan[s]
      /\ chan'[p] = <<g>> \o Tail(chan[p]) \/ (~IsSub(m) /\ chan'[p] = Tail(chan[p]))
  <2>1. << >> \o Tail(chan[p]) = Tail(chan[p])
    BY <1>3, ConcatEmptySeq
  <2> QED BY <1>2, <1>3, <2>1
<1>7. LinesOk'
  <2>1. \A s \in Node : From(s)' = From(s)
    BY <1>1 DEF From, Mine
  <2>2. <<g>> \o Tail(chan[p]) \in Seq(From(Peer(p)))
    BY <1>3, <1>4, ConcatProperties
  <2> QED BY <1>3, <1>6, <2>1, <2>2, Nodes DEF LinesOk
<1>8. Flow(p)'
  <2>1. GoesOn(p)
    BY <1>1 DEF GoesOn
  <2> QED BY <1>1, <1>3, <1>6, <2>1, Speaks
<1>9. Flow(Peer(p))'
  <2> DEFINE v == Behind(Received(p), chan[p])
             w == Behind(Received(p), chan'[p])
             at == snd[z[Peer(p)].cur].pos
  <2>1. /\ Chain(v) => Chain(w)
        /\ EndsAt(v, at) => EndsAt(w, at)
        /\ EndsShut(v) => EndsShut(w)
    <3>1. CASE chan'[p] = <<g>> \o Tail(chan[p])
      BY <1>1, <1>3, <1>4, <1>5, <3>1, BehindGarbled DEF m
    <3>2. CASE ~IsSub(m) /\ chan'[p] = Tail(chan[p])
      BY <1>1, <1>3, <3>2, BehindTail, ReceivedIs DEF m
    <3> QED BY <1>6, <3>1, <3>2
  <2>2. /\ Chain(v)
        /\ Running(Peer(p)) /\ z[Peer(p)].st \in OpenStates => EndsAt(v, at)
        /\ Running(Peer(p)) /\ z[Peer(p)].st \in ShutStates => EndsShut(v)
    BY <1>1, <1>3 DEF ZInv, Flow, View
  <2>3. Received(p)' = Received(p) /\ Running(Peer(p))' = Running(Peer(p)) /\ z' = z /\ snd' = snd
    BY <1>1 DEF Received, Running
  <2>4. View(p)' = w
    BY <2>3 DEF View
  <2> HIDE DEF v, w
  <2> QED BY <1>3, <2>1, <2>2, <2>3, <2>4 DEF Flow
<1> QED BY <1>7, <1>8, <1>9

-----------------------------------------------------------------------------
(* A sender and its frames                                                  *)

\* p ends a frame, or says what its file is.
LEMMA SaysEnd ==
  ASSUME ZInv, NEW p \in Node, Step(p), NEW c \in Seq(From(p)), NEW m \in From(p),
         IsSub(m), Shut(m), m.len = 0,
         Running(Peer(p)) => Chain(Behind(Received(Peer(p)), c)) /\ chan'[Peer(p)] = c \o <<m>>
  PROVE  Flow(p)'
BY Apart, SaysShut DEF ZInv

LEMMA View_Chain ==
  ASSUME ZInv, NEW p \in Node
  PROVE  /\ chan[Peer(p)] \in Seq(From(p))
         /\ Running(Peer(p)) => Chain(Behind(Received(Peer(p)), chan[Peer(p)]))
BY Nodes DEF ZInv, TypeOK, LinesOk, Flow, View

\* ZFILE and the file's name, for the first time or again.
LEMMA FinfoFlow ==
  ASSUME ZInv, NEW p \in Node, SendFinfo(p) \/ NextFile(p)
  PROVE  LinesOk' /\ Flow(p)' /\ Flow(Peer(p))'
<1>1. TypeOK /\ Step(p) /\ Running(p) /\ z[p] \in Local /\ z \in [Node -> Local] /\ sess \in Sessions
  BY LocalFacts DEF ZInv, TypeOK, LocalsOk, Step, Quiet, SendFinfo, NextFile, At
<1>2. PICK f \in Mine(p) : f # NoFile /\ Sends(p, Finfo(f))
  <2>1. CASE SendFinfo(p)
    BY <1>1, <2>1, LocalFacts DEF SendFinfo, At, ShutStates
  <2>2. CASE NextFile(p)
    <3>1. queue[p] \in Seq(Mine(p)) /\ queue[p] # << >>
      BY <1>1, <2>2 DEF TypeOK, FilesOk, NextFile
    <3>2. Head(queue[p]) \in Mine(p)
      BY <3>1, HeadTailProperties
    <3> QED BY <1>1, <2>2, <3>2, MineIs DEF NextFile
  <2> QED BY <2>1, <2>2
<1> DEFINE a == Hdr("FILE", 0)
           b == Sub("FINFO", f, "W", 0)
           c == chan[Peer(p)] \o <<a>>
<1>3. /\ a \in From(p) /\ ~Source(a) /\ b \in From(p) /\ IsSub(b) /\ Shut(b) /\ b.len = 0
  BY <1>2, Items DEF Headers
<1>4. chan[Peer(p)] \in Seq(From(p))
  BY View_Chain
<1> HIDE DEF a, b
<1>5. /\ <<a, b>> \in Seq(From(p)) /\ c \in Seq(From(p))
      /\ chan[Peer(p)] \o <<a, b>> = c \o <<b>>
  <2>1. <<a>> \in Seq(From(p)) /\ <<b>> \in Seq(From(p)) /\ <<a, b>> = <<a>> \o <<b>>
    <3>1. <<a>> \in Seq(From(p)) /\ <<b>> \in Seq(From(p)) /\ <<a, b>> \in Seq(From(p))
      BY <1>3
    <3>2. /\ <<a>> \o <<b>> \in Seq(From(p)) /\ Len(<<a>> \o <<b>>) = 2
          /\ \A i \in 1..2 : (<<a>> \o <<b>>)[i] = IF i <= 1 THEN <<a>>[i] ELSE <<b>>[i - 1]
      <4>1. Len(<<a>>) = 1 /\ Len(<<b>>) = 1
        OBVIOUS
      <4> QED BY <3>1, <4>1, ConcatProperties
    <3>3. Len(<<a, b>>) = 2 /\ \A i \in 1..2 : <<a, b>>[i] = (<<a>> \o <<b>>)[i]
      BY <3>2
    <3> QED BY <3>1, <3>2, <3>3, SeqEqual
  <2>2. c \in Seq(From(p))
    BY <1>4, <2>1, ConcatProperties
  <2>3. chan[Peer(p)] \o (<<a>> \o <<b>>) = c \o <<b>>
    BY <1>4, <2>1, ConcatAssociative
  <2> QED BY <1>3, <2>1, <2>2, <2>3
<1>6. Sends(p, <<a, b>>)
  BY <1>2 DEF Finfo, a, b
<1>7. /\ LinesOk' /\ chan'[p] = chan[p]
      /\ chan'[Peer(p)] = IF Running(Peer(p)) THEN chan[Peer(p)] \o <<a, b>> ELSE chan[Peer(p)]
  BY <1>1, <1>5, <1>6, Apart, Said
<1>8. Running(Peer(p)) => Chain(Behind(Received(Peer(p)), c))
  BY <1>3, <1>4, View_Chain, BehindOne
<1>9. Flow(p)'
  BY <1>1, <1>3, <1>5, <1>7, <1>8, SaysEnd
<1>10. z'[p].st = "FINFOACK"
  <2>1. CASE SendFinfo(p)
    BY <1>1, <2>1 DEF SendFinfo, Becomes, Local
  <2>2. CASE NextFile(p)
    BY <1>1, <2>2 DEF NextFile, Becomes, Local
  <2> QED BY <2>1, <2>2
<1>11. Flow(Peer(p))'
  BY <1>1, <1>7, <1>10, Listens
<1> QED BY <1>7, <1>9, <1>11

LEMMA StartDataFlow ==
  ASSUME ZInv, NEW p \in Node, StartData(p)
  PROVE  LinesOk' /\ Flow(p)' /\ Flow(Peer(p))'
<1> DEFINE f == z[p].cur
           m == Hdr("DATA", snd[f].pos)
<1>1. /\ TypeOK /\ Step(p) /\ Running(p) /\ z[p].st = "STARTDATA" /\ snd' = snd
      /\ z[p] \in Local /\ z \in [Node -> Local] /\ f \in File /\ snd[f].pos \in Nat
  <2>1. Running(p) /\ z[p].st = "STARTDATA" /\ snd' = snd
    BY DEF StartData, At, files
  <2>2. f \in File
    BY <2>1, LocalFacts, MineIs DEF ZInv, TypeOK, OpenStates
  <2> QED BY <2>1, <2>2, LocalFacts DEF ZInv, TypeOK, LocalsOk, FilesOk, Sinfo, Step, Quiet
<1>2. m \in From(p) /\ ~IsSub(m) /\ Ending(m) = snd[f].pos
  BY <1>1, Items DEF Ending, Headers
<1>3. <<m>> \in Seq(From(p)) /\ Sends(p, <<m>>)
  BY <1>2 DEF StartData
<1>4. z'[p].st = "DATA" /\ z'[p].cur = f
  BY <1>1 DEF StartData, Goes, Becomes, Local
<1> HIDE DEF f, m
<1>5. /\ LinesOk' /\ chan'[p] = chan[p]
      /\ chan'[Peer(p)] = IF Running(Peer(p)) THEN chan[Peer(p)] \o <<m>> ELSE chan[Peer(p)]
  BY <1>1, <1>3, Apart, Said
<1>6. Flow(p)'
  BY <1>1, <1>2, <1>4, <1>5, View_Chain, Apart, SaysData DEF ZInv, OpenStates, ShutStates, f
<1>7. Flow(Peer(p))'
  BY <1>1, <1>4, <1>5, Listens
<1> QED BY <1>5, <1>6, <1>7

LEMMA BlockFlow ==
  ASSUME ZInv, NEW p \in Node, SendBlock(p)
  PROVE  LinesOk' /\ Flow(p)' /\ Flow(Peer(p))'
<1> DEFINE f == z[p].cur
<1>1. /\ TypeOK /\ Step(p) /\ Running(p) /\ z[p].st = "DATA"
      /\ z[p] \in Local /\ z \in [Node -> Local] /\ f \in Mine(p) /\ f \in File /\ f # NoFile
      /\ snd \in [File -> Sinfo] /\ snd[f].pos \in Nat /\ z[p].tries \in Nat /\ Size[f] \in Nat
  <2>1. Running(p) /\ z[p].st = "DATA"
    BY BlockSent DEF At
  <2>2. f \in Mine(p) /\ f \in File /\ f # NoFile
    BY <2>1, LocalFacts, MineIs DEF ZInv, TypeOK, OpenStates
  <2> QED BY <2>1, <2>2, LocalFacts, Constants DEF ZInv, TypeOK, LocalsOk, FilesOk, Sinfo, Local, Step
<1>2. PICK n \in 0..(Size[f] - snd[f].pos), eof \in BOOLEAN, look \in BOOLEAN, k \in {"E", "W", "Q", "G"} :
        /\ n > 0 \/ k = "E"
        /\ snd' = [snd EXCEPT ![f].pos = @ + n, ![f].eof = eof]
        /\ Moves(p, [z[p] EXCEPT !.st = NextState(k, look), !.tries = IF k = "E" THEN 0 ELSE @])
        /\ Sends(p, <<[Sub("SUB", f, k, n) EXCEPT !.pos = snd[f].pos]>>)
  BY BlockSent
<1> DEFINE m == [Sub("SUB", f, k, n) EXCEPT !.pos = snd[f].pos]
<1>3. n \in Nat
  BY <1>1
<1>4. /\ m.type = "SUB" /\ m.file = f /\ m.pos = snd[f].pos /\ m.kind = k /\ m.len = n
      /\ m = [type |-> "SUB", file |-> f, pos |-> snd[f].pos, kind |-> k, len |-> n]
  BY DEF Sub
<1>5. m \in From(p) /\ IsSub(m) /\ Ending(m) = snd[f].pos + n /\ (Shut(m) <=> k \in {"E", "W"})
  BY <1>1, <1>2, <1>3, <1>4 DEF From, Subpackets, IsSub, Ending, Shut
<1>6. /\ z'[p].st = NextState(k, look) /\ z'[p].cur = f
      /\ snd'[f].pos = snd[f].pos + n
  <2>1. z'[p].st = NextState(k, look) /\ z'[p].cur = f
    BY <1>1, <1>2 DEF Moves, Local
  <2>2. snd'[f].pos = snd[f].pos + n
    BY <1>1, <1>2, <1>3 DEF Sinfo
  <2> QED BY <2>1, <2>2
<1>7. /\ z'[p].st \in {"EOF", "CRCWACK", "CRCQACK", "READCHECK", "DATA"}
      /\ z'[p].st \in ShutStates => k \in {"E", "W"}
  BY <1>2, <1>6 DEF NextState, ShutStates
<1>8. <<m>> \in Seq(From(p)) /\ Sends(p, <<m>>)
  BY <1>2, <1>5
<1> HIDE DEF f, m
<1>9. /\ LinesOk' /\ chan'[p] = chan[p]
      /\ chan'[Peer(p)] = IF Running(Peer(p)) THEN chan[Peer(p)] \o <<m>> ELSE chan[Peer(p)]
  BY <1>1, <1>8, Apart, Said
<1>10. Flow(p)'
  <2>1. Running(Peer(p)) => chan'[Peer(p)] = chan[Peer(p)] \o <<m>>
    BY <1>9
  <2>2. Flow(p) /\ Unheard(p) /\ Running(p) /\ z[p].st \in OpenStates /\ chan[Peer(p)] \in Seq(From(p))
    BY <1>1, Apart, View_Chain DEF ZInv, OpenStates
  <2>3. IsSub(m) /\ m.pos = snd[z[p].cur].pos /\ snd'[z'[p].cur].pos = Ending(m)
        /\ (z'[p].st \in ShutStates => IsSub(m) /\ Shut(m))
    BY <1>4, <1>5, <1>6, <1>7 DEF f
  <2> QED BY <1>5, <2>1, <2>2, <2>3, SaysData
<1>11. Flow(Peer(p))'
  BY <1>1, <1>7, <1>9, Listens
<1> QED BY <1>9, <1>10, <1>11

LEMMA VanishedFlow ==
  ASSUME ZInv, NEW p \in Node, ReadVanished(p)
  PROVE  LinesOk' /\ Flow(p)' /\ Flow(Peer(p))'
<1>1. /\ TypeOK /\ Step(p) /\ z[p] \in Local /\ z \in [Node -> Local]
      /\ z'[p].st = "NEXTREAD" /\ Sends(p, <<EmptyE>>)
  <2>1. z[p] \in Local /\ z \in [Node -> Local] /\ Step(p) /\ TypeOK
    BY LocalFacts DEF ZInv, TypeOK, LocalsOk, Step
  <2> QED BY <2>1 DEF ReadVanished, Moves, Local
<1>2. EmptyE \in From(p) /\ <<EmptyE>> \in Seq(From(p)) /\ IsSub(EmptyE) /\ Shut(EmptyE) /\ EmptyE.len = 0
  BY Items
<1>3. /\ LinesOk' /\ chan'[p] = chan[p]
      /\ chan'[Peer(p)] = IF Running(Peer(p)) THEN chan[Peer(p)] \o <<EmptyE>> ELSE chan[Peer(p)]
  BY <1>1, <1>2, Apart, Said
<1>4. Flow(p)'
  BY <1>1, <1>2, <1>3, View_Chain, SaysEnd
<1>5. Flow(Peer(p))'
  BY <1>1, <1>3, Listens
<1> QED BY <1>3, <1>4, <1>5

\* p is between files: only what is on the line matters.
LEMMA SaysLess ==
  ASSUME ZInv, NEW p \in Node, Step(p), z'[p].st \in Idle, NEW c,
         Running(Peer(p)) => Chain(Behind(Received(Peer(p)), c)) /\ chan'[Peer(p)] = c
  PROVE  Flow(p)'
<1>1. Unheard(p) /\ Running(Peer(p))' = Running(Peer(p))
  BY Apart DEF ZInv, Unheard, Running
<1> QED BY <1>1 DEF Unheard, Flow, View, Idle

\* What CLEAROUT leaves.
LEMMA Flushed ==
  ASSUME NEW p \in Node, NEW S, NEW out \in Seq(S), NEW c \in Flushes(p, out), NEW r, Chain(Behind(r, out))
  PROVE  c \in Seq(S) /\ Chain(Behind(r, c))
BY BehindCut DEF Flushes

\* What p has said when it has ended the frame it may be in.
LEMMA Ended ==
  ASSUME ZInv, NEW p \in Node, NEW c \in Seq(From(p))
  PROVE  /\ EndFrame(p) \in Seq(From(p)) /\ c \o EndFrame(p) \in Seq(From(p))
         /\ EndFrame(p) = IF z[p].st \in Streaming THEN <<EmptyE>> ELSE << >>
         /\ z[p].st \notin Streaming => c \o EndFrame(p) = c
         /\ \A r : Chain(Behind(r, c)) => Chain(Behind(r, c \o EndFrame(p)))
<1>1. EmptyE \in From(p) /\ IsSub(EmptyE) /\ EmptyE.len = 0 /\ <<EmptyE>> \in Seq(From(p))
  BY Items
<1>2. EndFrame(p) = IF z[p].st \in Streaming THEN <<EmptyE>> ELSE << >>
  BY DEF EndFrame
<1>3. EndFrame(p) \in Seq(From(p)) /\ c \o EndFrame(p) \in Seq(From(p))
  BY <1>1, <1>2, EmptySeq, ConcatProperties
<1>4. z[p].st \notin Streaming => c \o EndFrame(p) = c
  BY <1>2, ConcatEmptySeq
<1>5. ASSUME NEW r, Chain(Behind(r, c)) PROVE Chain(Behind(r, c \o EndFrame(p)))
  <2>1. CASE z[p].st \in Streaming
    BY <1>1, <1>2, <1>5, <2>1, BehindOne
  <2>2. CASE z[p].st \notin Streaming
    BY <1>4, <1>5, <2>2
  <2> QED BY <2>1, <2>2
<1> QED BY <1>2, <1>3, <1>4, <1>5

LEMMA DisposedFlow ==
  ASSUME ZInv, NEW p \in Node, TxSent(p) \/ TxSkipped(p) \/ TxRefused(p)
  PROVE  LinesOk' /\ Flow(p)' /\ Flow(Peer(p))'
<1>1. /\ TypeOK /\ Step(p) /\ z[p] \in Local /\ z \in [Node -> Local] /\ chan[p] # << >>
      /\ z'[p].st = "NEXTFILE" /\ sess' = sess
  <2>1. z[p] \in Local /\ z \in [Node -> Local] /\ Step(p) /\ TypeOK
    BY LocalFacts DEF ZInv, TypeOK, LocalsOk, Step
  <2>2. Goes(p, "NEXTFILE") /\ chan[p] # << >> /\ sess' = sess
    BY DEF TxSent, TxSkipped, TxRefused, Disposed, Takes
  <2> QED BY <2>1, <2>2 DEF Goes, Becomes, Local
<1> DEFINE c == chan[Peer(p)]
           d == c \o EndFrame(p)
<1>2. /\ c \in Seq(From(p)) /\ d \in Seq(From(p)) /\ EndFrame(p) \in Seq(From(p))
      /\ Running(Peer(p)) => Chain(Behind(Received(Peer(p)), d))
  BY View_Chain, Ended
<1>3. PICK out \in Seq(From(p)) :
        /\ Running(Peer(p)) => Chain(Behind(Received(Peer(p)), out))
        /\ chan' = [chan EXCEPT ![p] = Tail(@), ![Peer(p)] = IF Running(Peer(p)) THEN out ELSE @]
  <2>1. CASE TxSent(p) \/ TxRefused(p)
    <3>1. Answers(p, EndFrame(p))
      BY <2>1 DEF TxSent, TxRefused
    <3>2. DOMAIN chan = Node /\ Peer(p) \in Node /\ Peer(p) # p
      BY <1>1, Nodes DEF TypeOK, LinesOk
    <3>3. chan' = [chan EXCEPT ![p] = Tail(@), ![Peer(p)] = IF Running(Peer(p)) THEN d ELSE @]
      BY <3>1, <3>2 DEF Answers
    <3> QED BY <1>2, <3>3
  <2>2. CASE TxSkipped(p)
    <3>1. PICK out \in Flushes(p, d) : ReadsFlushed(p, out)
      BY <2>2 DEF TxSkipped
    <3> HIDE DEF d
    <3>2. out \in {d} \cup {SubSeq(d, 1, n) : n \in 0..Len(d)}
      BY <3>1 DEF Flushes
    <3>3. out \in Seq(From(p))
      BY <1>2, <3>2, SubSeqProperties, LenProperties, ElementOfSeq
    <3>4. Running(Peer(p)) => Chain(Behind(Received(Peer(p)), out))
      BY <1>2, <3>1, Flushed
    <3> QED BY <3>1, <3>3, <3>4 DEF ReadsFlushed
  <2> QED BY <2>1, <2>2
<1>4. /\ LinesOk' /\ chan'[p] = Tail(chan[p])
      /\ chan'[Peer(p)] = IF Running(Peer(p)) THEN out ELSE chan[Peer(p)]
  BY <1>1, <1>3, Answered
<1>5. z'[p].st \in Idle
  BY <1>1 DEF Idle, State, OpenStates, ShutStates
<1>6. Flow(p)'
  BY <1>1, <1>3, <1>4, <1>5, SaysLess
<1>7. Flow(Peer(p))'
  BY <1>1, <1>4, <1>5, Listens DEF Idle
<1> QED BY <1>4, <1>6, <1>7

LEMMA RposFlow ==
  ASSUME ZInv, NEW p \in Node, TxRpos(p)
  PROVE  LinesOk' /\ Flow(p)' /\ Flow(Peer(p))'
<1> DEFINE c == chan[Peer(p)]
<1>1. /\ TypeOK /\ Step(p) /\ z[p] \in Local /\ z \in [Node -> Local] /\ chan[p] # << >>
      /\ Running(p) /\ z[p].st \in OnFile /\ z'[p].st = "STARTDATA" /\ sess' = sess
  <2>1. z[p] \in Local /\ z \in [Node -> Local] /\ Step(p) /\ TypeOK
    BY LocalFacts DEF ZInv, TypeOK, LocalsOk, Step
  <2> QED BY <2>1 DEF TxRpos, Takes, At, Becomes, Local
<1>2. PICK out \in Flushes(p, c) : ReadsFlushed(p, out \o EndFrame(p))
  BY DEF TxRpos
<1>3. c \in Seq(From(p)) /\ (Running(Peer(p)) => Chain(Behind(Received(Peer(p)), c)))
  BY View_Chain
<1>4. out \in Seq(From(p)) /\ (Running(Peer(p)) => Chain(Behind(Received(Peer(p)), out)))
  <2>1. out \in {c} \cup {SubSeq(c, 1, n) : n \in 0..Len(c)}
    BY <1>2 DEF Flushes
  <2>2. out \in Seq(From(p))
    BY <1>3, <2>1, SubSeqProperties, LenProperties, ElementOfSeq
  <2> QED BY <1>2, <1>3, <2>2, Flushed
<1> HIDE DEF c
<1>5. out \o EndFrame(p) \in Seq(From(p))
  BY <1>4, Ended
<1>6. /\ LinesOk' /\ chan'[p] = Tail(chan[p])
      /\ chan'[Peer(p)] = IF Running(Peer(p)) THEN out \o EndFrame(p) ELSE chan[Peer(p)]
  BY <1>1, <1>2, <1>5, Answered DEF ReadsFlushed
<1>7. Flow(p)'
  <2>1. CASE z[p].st \in Streaming
    <3>1. EndFrame(p) = <<EmptyE>>
      BY <2>1 DEF EndFrame
    <3>2. EmptyE \in From(p) /\ IsSub(EmptyE) /\ Shut(EmptyE) /\ EmptyE.len = 0
      BY Items
    <3> QED BY <1>1, <1>4, <1>6, <3>1, <3>2, SaysEnd
  <2>2. CASE z[p].st \notin Streaming
    <3>1. out = c
      BY <1>2, <2>2 DEF Flushes, Streaming
    <3>2. out \o EndFrame(p) = c
      BY <1>4, <2>2, <3>1, Ended
    <3>3. GoesOn(p)
      BY <1>1, <2>2 DEF GoesOn, OnFile, Streaming, OpenStates, ShutStates
    <3> QED BY <1>1, <1>6, <3>2, <3>3, Speaks DEF c
  <2> QED BY <2>1, <2>2
<1>8. Flow(Peer(p))'
  BY <1>1, <1>6, Listens
<1> QED BY <1>6, <1>7, <1>8

LEMMA TimerFlow ==
  ASSUME ZInv, NEW p \in Node, Timer(p)
  PROVE  LinesOk' /\ Flow(p)' /\ Flow(Peer(p))'
<1> DEFINE r == IF z[p].st \in TxReading THEN TxTimeout(z[p]) ELSE RxTimeout(z[p])
           ms == IF z[p].st = "READCHECK" THEN <<EmptyE>> ELSE << >>
<1>1. /\ TypeOK /\ Step(p) /\ z[p] \in Local /\ Running(p) /\ Becomes(p, r) /\ Sends(p, ms)
      /\ z[p].st \in Reading \cup {"FILEDATA", "WAITDATA"} /\ snd' = snd /\ sess' = sess
  BY LocalFacts DEF ZInv, Step, Quiet, Timer, At, files
<1>2. /\ r \in Local /\ r.cur = z[p].cur /\ r.st # "WAITDATA"
      /\ r.st \in OpenStates => z[p].st \in {"READCHECK", "CRCWACK", "CRCQACK"}
      /\ r.st \in ShutStates => z[p].st \in ShutStates
  BY <1>1, TimedOut
<1> HIDE DEF r
<1>3. z'[p].st = r.st /\ z'[p].cur = z[p].cur
  BY <1>1, <1>2, After
<1>4. EmptyE \in From(p) /\ IsSub(EmptyE) /\ Shut(EmptyE) /\ EmptyE.len = 0 /\ ms \in Seq(From(p))
  BY Items, EmptySeq
<1>5. /\ LinesOk' /\ chan'[p] = chan[p]
      /\ chan'[Peer(p)] = IF Running(Peer(p)) THEN chan[Peer(p)] \o ms ELSE chan[Peer(p)]
  BY <1>1, <1>4, Said
<1>6. Flow(p)'
  <2>1. CASE z[p].st = "READCHECK"
    BY <1>1, <1>4, <1>5, <2>1, View_Chain, SaysEnd
  <2>2. CASE z[p].st # "READCHECK"
    <3>1. chan[Peer(p)] \o << >> = chan[Peer(p)]
      BY View_Chain, ConcatEmptySeq
    <3>2. GoesOn(p)
      BY <1>1, <1>2, <1>3, <2>2 DEF GoesOn, OpenStates, ShutStates
    <3> QED BY <1>1, <1>5, <2>2, <3>1, <3>2, Speaks
  <2> QED BY <2>1, <2>2
<1>7. Flow(Peer(p))'
  BY <1>1, <1>2, <1>3, <1>5, Listens
<1> QED BY <1>5, <1>6, <1>7

-----------------------------------------------------------------------------
(* A receiver of data                                                       *)

\* ZDATA in place: the receiver takes data from where its file ends.
LEMMA InPlaceFlow ==
  ASSUME ZInv, NEW p \in Node, RxData(p), InPlace(p)
  PROVE  LinesOk' /\ Flow(p)' /\ Flow(Peer(p))'
<1> DEFINE m == chan[p][1]
<1>1. /\ TypeOK /\ Step(p) /\ Running(p) /\ z[p] \in Local /\ z \in [Node -> Local] /\ chan[p] # << >>
      /\ rcv' = rcv /\ snd' = snd /\ sess' = sess /\ Answers(p, << >>) /\ m.type = "DATA"
      /\ z[p].st = "RPOSACK" /\ z[p].recv \in File /\ rcv[z[p].recv].bytes \in Nat
  <2>1. /\ Running(p) /\ chan[p] # << >> /\ m.type = "DATA" /\ z[p].st = "RPOSACK" /\ Answers(p, << >>)
        /\ rcv' = rcv /\ snd' = snd /\ sess' = sess
    BY DEF RxData, Takes, At, files
  <2>2. z[p].recv \in File
    BY <2>1, LocalFacts, MineIs, Nodes DEF ZInv, TypeOK, RecvStates
  <2>3. rcv[z[p].recv].bytes \in Nat
    BY <2>2 DEF ZInv, TypeOK, FilesOk, Rinfo
  <2> QED BY <2>1, <2>2, <2>3, LocalFacts DEF ZInv, TypeOK, LocalsOk, Step, Quiet
<1>2. /\ m \in From(Peer(p)) /\ chan[p] \in Seq(From(Peer(p))) /\ chan[Peer(p)] \in Seq(From(p))
      /\ Peer(p) \in Node
  BY <1>1, FirstItem, Nodes DEF TypeOK, LinesOk
<1>3. ~IsSub(m) /\ Source(m) /\ ~Shut(m) /\ Ending(m) = m.pos
  BY <1>1, <1>2 DEF From, Subpackets, IsSub, Source, Shut, Ending
<1>4. z'[p].st = "WAITDATA" /\ ~z'[p].dirty /\ z'[p].recv = z[p].recv
  BY <1>1 DEF RxData, Becomes, Local
<1>5. Received(p)'.pos = m.pos /\ Received(p)'.len = 0
  BY <1>1, <1>4 DEF Received, InPlace, EmptyE, Sub
<1>6. Heard(p)
  <2>1. Ending(Received(p)') = Ending(m)
    BY <1>2, <1>3, <1>5 DEF Ending, From
  <2> QED BY <1>3, <2>1 DEF Heard
<1>7. /\ LinesOk' /\ chan'[p] = Tail(chan[p]) /\ (Running(Peer(p)) => chan'[Peer(p)] = chan[Peer(p)])
  <2>1. << >> \in Seq(From(p)) /\ chan[Peer(p)] \o << >> = chan[Peer(p)]
    BY <1>2, EmptySeq, ConcatEmptySeq
  <2> QED BY <1>1, <2>1, Answering
<1>8. Flow(p)'
  <2>1. GoesOn(p)
    BY <1>1, <1>4 DEF GoesOn, OpenStates, ShutStates
  <2> QED BY <1>1, <1>7, <2>1, Speaks
<1>9. Flow(Peer(p))'
  <2>1. Flow(Peer(p)) /\ z'[Peer(p)] = z[Peer(p)]
    BY <1>1, <1>2, Apart DEF ZInv, Unheard
  <2> QED BY <1>1, <1>2, <1>6, <1>7, <2>1, Hears
<1> QED BY <1>7, <1>8, <1>9

\* Data that a receiver takes belong where its file ends.
LEMMA InOrderHere ==
  ASSUME ZInv, NEW p \in Node, GoodBlock(p), chan[p][1].len > 0
  PROVE  chan[p][1].pos = rcv[z[p].recv].bytes
<1> DEFINE m == chan[p][1]
           v == View(p)
<1>1. Running(p) /\ z[p].st = "WAITDATA" /\ ~z[p].dirty /\ chan[p] # << >> /\ IsSub(m)
  BY DEF GoodBlock, ReadsData, At, Broken
<1>2. TypeOK /\ m \in From(Peer(p)) /\ chan[p] \in Seq(From(Peer(p))) /\ Len(chan[p]) \in Nat \ {0}
  BY <1>1, FirstItem, EmptySeq, LenProperties DEF ZInv, TypeOK, LinesOk
<1>3. Chain(v)
  <2>1. Flow(Peer(p)) /\ Peer(Peer(p)) = p
    BY Nodes DEF ZInv
  <2> QED BY <1>1, <2>1 DEF Flow
<1>4. /\ 1 \in DOMAIN v /\ 2 \in DOMAIN v /\ v[2] = m /\ \A k \in DOMAIN v : k \in Nat
      /\ v[1] = [EmptyE EXCEPT !.kind = "G", !.pos = rcv[z[p].recv].bytes]
  <2>1. DOMAIN v = 1..Len(chan[p]) + 1
    BY <1>2 DEF View, Behind
  <2>2. v[1] = Received(p) /\ v[2] = m
    BY <1>2 DEF View, Behind
  <2> QED BY <1>1, <1>2, <2>1, <2>2 DEF Received
<1>5. IsSub(v[1]) /\ ~Shut(v[1]) /\ v[1].pos = rcv[z[p].recv].bytes /\ v[1].len = 0
  BY <1>4 DEF EmptyE, Sub, IsSub, Shut
<1> HIDE DEF v
<1>6. Leads(v[1], v[2])
  <2>1. \A k \in DOMAIN v : ~(1 < k /\ k < 2)
    BY <1>4
  <2> QED BY <1>1, <1>3, <1>4, <1>5, <2>1 DEF Chain, Source
<1>7. rcv[z[p].recv].bytes \in Nat
  <2>1. z[p].recv \in File
    BY <1>1, <1>2, LocalFacts, MineIs, Nodes DEF TypeOK, RecvStates
  <2> QED BY <1>2, <2>1 DEF TypeOK, FilesOk, Rinfo
<1> QED BY <1>4, <1>5, <1>6, <1>7 DEF Leads, Ending

LEMMA RecvFlow ==
  ASSUME ZInv, NEW p \in Node, RecvBlock(p)
  PROVE  LinesOk' /\ Flow(p)' /\ Flow(Peer(p))'
<1> DEFINE m == chan[p][1]
           f == z[p].recv
           bytes == rcv[f].bytes + m.len
           ms == IF m.kind \in {"W", "Q"} THEN <<Hdr("ACK", bytes)>> ELSE << >>
<1>1. /\ TypeOK /\ Step(p) /\ Running(p) /\ z[p] \in Local /\ z \in [Node -> Local] /\ chan[p] # << >>
      /\ snd' = snd /\ sess' = sess /\ Answers(p, ms) /\ IsSub(m)
      /\ z[p].st = "WAITDATA" /\ ~z[p].dirty /\ f \in File /\ rcv \in [File -> Rinfo] /\ rcv[f].bytes \in Nat
  <2>1. /\ Running(p) /\ chan[p] # << >> /\ z[p].st = "WAITDATA" /\ Answers(p, ms) /\ IsSub(m)
        /\ snd' = snd /\ sess' = sess /\ ~z[p].dirty
    BY DEF RecvBlock, GoodBlock, Broken, ReadsData, At
  <2>2. f \in File
    BY <2>1, LocalFacts, MineIs, Nodes DEF ZInv, TypeOK, RecvStates
  <2>3. rcv \in [File -> Rinfo] /\ rcv[f].bytes \in Nat
    BY <2>2 DEF ZInv, TypeOK, FilesOk, Rinfo
  <2>4. z[p] \in Local /\ z \in [Node -> Local] /\ TypeOK /\ Step(p)
    BY LocalFacts DEF ZInv, TypeOK, LocalsOk, Step
  <2> QED BY <2>1, <2>2, <2>3, <2>4
<1>2. /\ m \in From(Peer(p)) /\ chan[p] \in Seq(From(Peer(p))) /\ chan[Peer(p)] \in Seq(From(p))
      /\ Peer(p) \in Node /\ m.len \in Nat /\ m.pos \in Nat
  BY <1>1, FirstItem, Nodes DEF TypeOK, LinesOk
<1>3. /\ z'[p].st = (IF m.kind \in {"W", "E"} THEN "RPOSACK" ELSE "WAITDATA")
      /\ ~z'[p].dirty /\ z'[p].recv = f
  BY <1>1 DEF RecvBlock, Moves, Local
<1>4. rcv'[f].bytes = bytes
  <2>1. \E ok : rcv' = [rcv EXCEPT ![f].bytes = bytes, ![f].good = ok]
    BY DEF RecvBlock
  <2> QED BY <1>1, <2>1 DEF Rinfo
<1>5. Heard(p)
  <2>1. CASE m.kind \in {"W", "E"}
    BY <1>3, <2>1, NoData, ReceivedIs DEF Heard
  <2>2. CASE m.kind \notin {"W", "E"}
    <3>1. m.len > 0 /\ ~Shut(m) /\ Source(m)
      BY <1>1, <1>2, <2>2 DEF From, IsSub, Shut, Source
    <3>2. m.pos = rcv[f].bytes
      BY <3>1, InOrderHere DEF RecvBlock
    <3>3. Received(p)'.pos = bytes /\ Received(p)'.len = 0
      BY <1>3, <1>4, <2>2 DEF Received, EmptyE, Sub
    <3>4. Ending(Received(p)') = Ending(m)
      BY <1>1, <1>2, <3>2, <3>3 DEF Ending
    <3> QED BY <3>1, <3>4 DEF Heard
  <2> QED BY <2>1, <2>2
<1>6. ms = << >> \/ \E a \in NoDatum(p) : ms = <<a>>
  <2>1. bytes \in Nat
    BY <1>1, <1>2
  <2>2. Hdr("ACK", bytes) \in NoDatum(p)
    BY <2>1 DEF NoDatum, Headers
  <2> QED BY <2>2
<1> HIDE DEF ms, bytes
<1>7. ms \in Seq(From(p))
  <2>1. << >> \in Seq(From(p))
    BY EmptySeq
  <2>2. \A a \in NoDatum(p) : a \in From(p)
    BY Items DEF NoDatum
  <2>3. ASSUME NEW a \in NoDatum(p), ms = <<a>> PROVE ms \in Seq(From(p))
    BY <2>2, <2>3
  <2> QED BY <1>6, <2>1, <2>3
<1>8. /\ LinesOk' /\ chan'[p] = Tail(chan[p])
      /\ chan'[Peer(p)] = IF Running(Peer(p)) THEN chan[Peer(p)] \o ms ELSE chan[Peer(p)]
  BY <1>1, <1>7, Answering
<1>9. Flow(p)'
  <2>1. GoesOn(p)
    BY <1>1, <1>3 DEF GoesOn, OpenStates, ShutStates
  <2>2. chan[Peer(p)] \o << >> = chan[Peer(p)]
    BY <1>2, ConcatEmptySeq
  <2> QED BY <1>1, <1>6, <1>8, <2>1, <2>2, Speaks
<1>10. Flow(Peer(p))'
  <2>1. Flow(Peer(p)) /\ z'[Peer(p)] = z[Peer(p)]
    BY <1>1, <1>2, Apart DEF ZInv, Unheard
  <2> QED BY <1>1, <1>2, <1>5, <1>8, <2>1, Hears
<1> QED BY <1>8, <1>9, <1>10

-----------------------------------------------------------------------------
(* Blocks in order                                                          *)

LEMMA Begins == Init => ZInv
<1> SUFFICES ASSUME Init PROVE ZInv
  OBVIOUS
<1>1. PICK s \in Sessions :
        /\ sess = s
        /\ z = [p \in Node |-> Started(p, 1)]
        /\ queue = s.queue
        /\ snd = [f \in File |-> [status |-> "none", pos |-> 0, eof |-> FALSE, there |-> TRUE]]
        /\ rcv = [f \in File |-> [status |-> "none", bytes |-> s.have[f], open |-> FALSE, good |-> TRUE]]
        /\ chan = [p \in Node |-> << >>]
  BY DEF Init
<1>2. s \in Session
  BY Constants
<1>3. \A p \in Node : /\ z[p] = Started(p, 1) /\ z[p] \in Local /\ z[p].cur = NoFile /\ z[p].recv = NoFile
                      /\ z[p].st \in {"RQINIT", "INIT"}
  BY <1>1, StartedIs
<1>4. LocalsOk
  <2>1. z \in [Node -> Local]
    BY <1>1, <1>3
  <2> QED BY <1>3, <2>1 DEF LocalsOk, LocalOk, OpenStates, ShutStates, RecvStates
<1>5. FilesOk
  <2>1. queue \in [Node -> Seq(File)]
    BY <1>1, <1>2 DEF Session
  <2>2. ASSUME NEW p \in Node PROVE queue[p] \in Seq(Mine(p))
    <3>1. queue[p] \in Seq(File) /\ queue[p] = sess.queue[p]
      BY <1>1, <2>1
    <3>2. Len(queue[p]) \in Nat /\ queue[p] \in [1..Len(queue[p]) -> File] /\ DOMAIN queue[p] = 1..Len(queue[p])
      BY <3>1, LenProperties
    <3>3. \A i \in 1..Len(queue[p]) : queue[p][i] \in Mine(p)
      BY <3>1, <3>2 DEF Mine
    <3>4. queue[p] \in [1..Len(queue[p]) -> Mine(p)]
      BY <3>2, <3>3
    <3> QED BY <3>2, <3>4, SeqDef
  <2>3. snd \in [File -> Sinfo]
    BY <1>1 DEF Sinfo, Status
  <2>4. rcv \in [File -> Rinfo]
    BY <1>1, <1>2 DEF Rinfo, Status, Session
  <2> QED BY <2>1, <2>2, <2>3, <2>4 DEF FilesOk
<1>6. LinesOk
  <2>1. \A p \in Node : chan[p] = << >> /\ << >> \in Seq(From(Peer(p)))
    BY <1>1, EmptySeq
  <2> QED BY <1>1, <2>1 DEF LinesOk
<1>7. ASSUME NEW p \in Node PROVE Flow(p)
  <2>1. Peer(p) \in Node /\ chan[Peer(p)] = << >> /\ Len(<< >>) = 0
    BY <1>1, Nodes
  <2>2. DOMAIN View(Peer(p)) = 1..1
    BY <2>1 DEF View, Behind
  <2>3. \A i, j \in DOMAIN View(Peer(p)) : ~(i < j)
    BY <2>2
  <2>4. Chain(View(Peer(p)))
    BY <2>3 DEF Chain
  <2> QED BY <1>3, <2>4 DEF Flow, OpenStates, ShutStates
<1> QED BY <1>1, <1>4, <1>5, <1>6, <1>7 DEF ZInv, TypeOK

LEMMA Preserved == ZInv /\ [Next]_vars => ZInv'
<1> SUFFICES ASSUME ZInv, [Next]_vars PROVE ZInv'
  OBVIOUS
<1>1. CASE UNCHANGED vars
  <2>1. \A s \in Node : Mine(s)' = Mine(s) /\ From(s)' = From(s) /\ LocalOk(s)' = LocalOk(s)
    BY <1>1, Nodes DEF vars, files, From, Mine, LocalOk, Running
  <2>2. TypeOK'
    BY <1>1, <2>1, Nodes DEF vars, files, ZInv, TypeOK, LocalsOk, FilesOk, LinesOk
  <2>3. \A s \in Node : Flow(s)' = Flow(s)
    BY <1>1 DEF vars, files, Flow, View, Received, Running
  <2> QED BY <2>2, <2>3 DEF ZInv
<1>2. CASE ~UNCHANGED vars
  <2>1. PICK p \in Node : Step(p)
    BY <1>2, Steps
  <2>2. sess' = sess /\ LocalsOk' /\ FilesOk'
    BY <2>1, Apart DEF ZInv
  <2>3. LinesOk' /\ Flow(p)' /\ Flow(Peer(p))'
    <3>1. CASE Quiet(p)
      <4>1. CASE \/ SendRqinit(p) \/ SendEof(p) \/ SendFin(p) \/ SendInit(p) \/ SendRpos(p)
        BY <4>1, HeadersFlow
      <4>2. CASE \/ TxRinit(p) \/ TxRinitFin(p) \/ NotFile(p) \/ RecvBadBlock(p) \/ RxRqinit(p) \/ RxFile(p)
                 \/ RxEofElsewhere(p) \/ RxFinDoubted(p)
        BY <4>2, IdleReplies
      <4>3. CASE \/ TxRinitFinfo(p) \/ TxAck(p) \/ ReadNak(p) \/ ReadBad(p) \/ ReadIgnored(p)
                 \/ SwallowHeader(p) \/ RxData(p)
        BY <4>3, OtherReplies, InPlaceFlow
      <4>4. CASE SendFinfo(p) \/ StartData(p) \/ Timer(p)
        BY <4>4, FinfoFlow, StartDataFlow, TimerFlow
      <4> QED BY <3>1, <4>1, <4>2, <4>3, <4>4 DEF Quiet
    <3>2. CASE Stop(p) \/ Garble(p)
      BY <3>2, StopsFlow, GarbleFlow
    <3>3. CASE \/ NextFile(p) \/ NoMoreFiles(p) \/ SendBlock(p) \/ ReadVanished(p)
               \/ TxSent(p) \/ TxSkipped(p) \/ TxRefused(p) \/ TxRpos(p)
      BY <3>3, FinfoFlow, HeadersFlow, BlockFlow, VanishedFlow, DisposedFlow, RposFlow
    <3>4. CASE \/ TxFin(p) \/ RxFin(p) \/ GotFile(p) \/ WriteFails(p) \/ RxEof(p) \/ CloseFails(p)
      BY <3>4, IdleReplies
    <3>5. CASE RecvBlock(p)
      BY <3>5, RecvFlow
    <3> QED BY <2>1, <3>1, <3>2, <3>3, <3>4, <3>5 DEF Step
  <2>4. \A s \in Node : Flow(s)'
    BY <2>3, Nodes
  <2> QED BY <2>2, <2>3, <2>4 DEF ZInv, TypeOK
<1> QED BY <1>1, <1>2

LEMMA Invariance == Spec => []ZInv
BY Begins, Preserved, PTL DEF Spec

\* Whatever is garbled, repeated or comes too late, the receiver writes a block only
\* where it belongs in the file: that RPOS, ACK, ZDATA and the ends of frames are
\* enough to keep the two mailers together (prot_zmrecv.c, "case ZDATA").
THEOREM BlocksInOrder == Spec => InOrder
<1>1. ZInv /\ [Next]_vars =>
        [\A p \in Node : RecvBlock(p) /\ chan[p][1].len > 0 => chan[p][1].pos = rcv[z[p].recv].bytes]_vars
  BY InOrderHere DEF RecvBlock
<1> QED BY <1>1, Invariance, PTL DEF Spec, InOrder

-----------------------------------------------------------------------------
(* A batch of one file                                                      *)

Lone == \A p \in Node : Len(sess.queue[p]) <= 1

\* An open file is not in the inbound yet, and what is there is complete.
Whole ==
  /\ \A f \in File : rcv[f].good
  /\ \A f \in inbound : f \in File => ~rcv[f].open
  /\ \A f \in inbound \ sess.old : f \in File /\ rcv[f].bytes = Size[f]

\* The only file that p has to send.
LEMMA OnlyOne ==
  ASSUME Lone, sess \in Sessions, NEW p \in Node, NEW f \in Mine(p), NEW g \in Mine(p)
  PROVE  f = g
<1>1. sess.queue[p] \in Seq(File)
  BY Constants DEF Session
<1>2. Len(sess.queue[p]) \in Nat /\ DOMAIN sess.queue[p] = 1..Len(sess.queue[p]) /\ Len(sess.queue[p]) <= 1
  BY <1>1, LenProperties DEF Lone
<1>3. \A i, j \in DOMAIN sess.queue[p] : i = j
  BY <1>2
<1> QED BY <1>3 DEF Mine

\* A block that is taken is the file's own.
LEMMA OwnBlock ==
  ASSUME ZInv, Lone, NEW p \in Node, GoodBlock(p), chan[p][1].len > 0
  PROVE  chan[p][1] = [Sub("SUB", z[p].recv, chan[p][1].kind, chan[p][1].len) EXCEPT !.pos = rcv[z[p].recv].bytes]
<1> DEFINE m == chan[p][1]
           f == z[p].recv
<1>1. TypeOK /\ sess \in Sessions /\ Running(p) /\ z[p].st = "WAITDATA" /\ chan[p] # << >> /\ IsSub(m)
      /\ m.type # "BADSUB"
  BY DEF GoodBlock, Broken, ReadsData, At, ZInv, TypeOK
<1>2. m \in From(Peer(p)) /\ f \in Mine(Peer(p))
  BY <1>1, FirstItem, LocalFacts DEF RecvStates
<1>3. /\ m = [type |-> m.type, file |-> m.file, pos |-> m.pos, kind |-> m.kind, len |-> m.len]
      /\ m.file \in Mine(Peer(p)) /\ m.type = "SUB"
  BY <1>1, <1>2 DEF From, IsSub, Subpackets
<1>4. m.file = f
  BY <1>1, <1>2, <1>3, OnlyOne, Nodes
<1>5. m.pos = rcv[f].bytes
  BY InOrderHere
<1> HIDE DEF m, f
<1>6. m = [type |-> "SUB", file |-> f, pos |-> rcv[f].bytes, kind |-> m.kind, len |-> m.len]
  BY <1>3, <1>4, <1>5
<1>7. m = [Sub("SUB", f, m.kind, m.len) EXCEPT !.pos = rcv[f].bytes]
  BY <1>6 DEF Sub
<1> QED BY <1>7 DEF m, f

LEMMA WholeStays ==
  ASSUME ZInv, Lone, Whole, NEW p \in Node, Step(p)
  PROVE  Whole'
<1>1. /\ TypeOK /\ sess' = sess /\ sess \in Sessions /\ rcv \in [File -> Rinfo] /\ Size \in [File -> Nat]
      /\ z[p].recv \in File \cup {NoFile} /\ NoFile \notin File
  BY Apart, LocalFacts, MineIs, Nodes, Constants DEF ZInv, TypeOK, FilesOk
<1>2. CASE rcv' = rcv /\ inbound' = inbound
  BY <1>1, <1>2 DEF Whole
<1>3. CASE Quiet(p) \/ Garble(p) \/ NextFile(p) \/ NoMoreFiles(p) \/ SendBlock(p) \/ ReadVanished(p)
           \/ TxSent(p) \/ TxSkipped(p) \/ TxRefused(p) \/ TxRpos(p)
  BY <1>2, <1>3, QuietIs, BlockSent DEF files, Garble, NextFile, NoMoreFiles, ReadVanished, TxSent, TxSkipped,
          TxRefused, TxRpos, Disposed
<1>4. CASE Stop(p) \/ TxFin(p) \/ RxFin(p)
  <2>1. /\ inbound' = inbound
        /\ rcv' = IF z[p].recv = NoFile THEN rcv ELSE [rcv EXCEPT ![z[p].recv].open = FALSE]
    BY <1>4, StopIs DEF TxFin, RxFin, PhaseDone, Ends
  <2>2. \A f \in File : /\ rcv'[f].good = rcv[f].good /\ rcv'[f].bytes = rcv[f].bytes
                        /\ rcv'[f].open => rcv[f].open
    BY <1>1, <2>1 DEF Rinfo
  <2> QED BY <1>1, <2>1, <2>2 DEF Whole
<1>5. CASE WriteFails(p) \/ CloseFails(p)
  <2>1. z[p].recv \in File
    BY <1>1, <1>5, LocalFacts DEF WriteFails, CloseFails, GoodBlock, ReadsData, Takes, At, RecvStates
  <2>2. inbound' = inbound /\ \E status : rcv' = [rcv EXCEPT ![z[p].recv].status = status]
                                \/ rcv' = [rcv EXCEPT ![z[p].recv].status = status, ![z[p].recv].open = FALSE]
    BY <1>5 DEF WriteFails, CloseFails
  <2>3. \A f \in File : /\ rcv'[f].good = rcv[f].good /\ rcv'[f].bytes = rcv[f].bytes
                        /\ rcv'[f].open => rcv[f].open
    BY <1>1, <2>1, <2>2 DEF Rinfo
  <2> QED BY <1>1, <2>2, <2>3 DEF Whole
<1>6. CASE RxEof(p)
  <2> DEFINE f == z[p].recv
  <2>1. f \in File
    BY <1>1, <1>6, LocalFacts DEF RxEof, Takes, At, RecvStates
  <2>2. /\ rcv[f].bytes = Size[f] /\ inbound' = inbound \cup {f}
        /\ rcv' = [rcv EXCEPT ![f].status = "success", ![f].open = FALSE]
    BY <1>6 DEF RxEof
  <2>3. /\ \A g \in File : /\ rcv'[g].good = rcv[g].good /\ rcv'[g].bytes = rcv[g].bytes
                           /\ rcv'[g].open => rcv[g].open
        /\ ~rcv'[f].open
    BY <1>1, <2>1, <2>2 DEF Rinfo
  <2> HIDE DEF f
  <2> QED BY <1>1, <2>1, <2>2, <2>3 DEF Whole
<1>7. CASE RecvBlock(p)
  <2> DEFINE f == z[p].recv
             m == chan[p][1]
             bytes == rcv[f].bytes + m.len
             good == rcv[f].good /\ (m.len = 0 \/ m = [Sub("SUB", f, m.kind, m.len) EXCEPT !.pos = rcv[f].bytes])
  <2>1. /\ f \in File /\ rcv[f].open /\ inbound' = inbound /\ chan[p] # << >>
        /\ rcv' = [rcv EXCEPT ![f].bytes = bytes, ![f].good = good]
    <3>1. f \in File
      BY <1>1, <1>7, LocalFacts DEF RecvBlock, GoodBlock, ReadsData, At, RecvStates
    <3> QED BY <1>7, <3>1 DEF RecvBlock, GoodBlock, ReadsData
  <2>2. good
    <3>1. m.len \in Nat
      BY <1>1, <2>1, FirstItem
    <3>2. m.len > 0 => m = [Sub("SUB", f, m.kind, m.len) EXCEPT !.pos = rcv[f].bytes]
      BY <1>7, OwnBlock DEF RecvBlock
    <3> QED BY <2>1, <3>1, <3>2 DEF Whole
  <2> HIDE DEF f, m, bytes, good
  <2>3. /\ \A g \in File : g # f => rcv'[g] = rcv[g]
        /\ rcv'[f].good = good /\ rcv'[f].open = rcv[f].open
    BY <1>1, <2>1 DEF Rinfo
  <2>4. f \notin inbound
    BY <2>1 DEF Whole
  <2> QED BY <1>1, <2>1, <2>2, <2>3, <2>4 DEF Whole
<1>8. CASE GotFile(p)
  <2> DEFINE f == chan[p][1].file
             shut == IF z[p].recv = NoFile THEN rcv ELSE [rcv EXCEPT ![z[p].recv].open = FALSE]
  <2>1. PICK r \in FopenResults(p, f) : r \in {0, 1, 2} /\ rcv' = [shut EXCEPT ![f] = Offered(f, r)]
    BY <1>1, <1>8, Offers
  <2>2. inbound' = inbound /\ f \in File
    <3>1. f \in Mine(Peer(p)) /\ Mine(Peer(p)) \subseteq File
      BY <1>1, <1>8, Offers, MineIs, Nodes
    <3> QED BY <1>8, <3>1 DEF GotFile
  <2>3. r = 0 => f \notin inbound
    BY DEF FopenResults
  <2>4. DOMAIN shut = File /\ \A g \in File : /\ shut[g].good = rcv[g].good /\ shut[g].bytes = rcv[g].bytes
                                              /\ shut[g].open => rcv[g].open
    BY <1>1 DEF Rinfo
  <2>5. LET o == Offered(f, r) IN
        o.good = rcv[f].good /\ o.open = (r = 0) /\ o.bytes \in {rcv[f].bytes, Size[f]}
    <3> DEFINE status == CASE r = 0 -> "process" [] r = 1 -> "refused" [] r = 2 -> "skipped"
               bytes == IF r = 2 THEN SkipTo(f) ELSE rcv[f].bytes
    <3>1. Offered(f, r) = [rcv[f] EXCEPT !.open = (r = 0), !.status = status, !.bytes = bytes]
      BY DEF Offered
    <3>2. rcv[f] \in Rinfo
      BY <1>1, <2>2
    <3>3. bytes \in {rcv[f].bytes, Size[f]}
      BY DEF SkipTo
    <3> HIDE DEF status, bytes, f
    <3> QED BY <3>1, <3>2, <3>3 DEF Rinfo
  <2> HIDE DEF f, shut
  <2>6. \A g \in File : rcv'[g] = IF g = f THEN Offered(f, r) ELSE shut[g]
    BY <2>1, <2>2, <2>4
  <2>7. ASSUME NEW g \in File
        PROVE  /\ rcv'[g].good
               /\ g \in inbound => ~rcv'[g].open
               /\ g \in inbound \ sess.old => rcv'[g].bytes = Size[g]
    <3>1. CASE g = f
      <4>1. /\ rcv'[g].good = rcv[g].good /\ rcv'[g].open = (r = 0)
            /\ rcv'[g].bytes \in {rcv[g].bytes, Size[g]}
        BY <2>5, <2>6, <3>1
      <4> QED BY <2>3, <3>1, <4>1 DEF Whole
    <3>2. CASE g # f
      BY <2>4, <2>6, <3>2 DEF Whole
    <3> QED BY <3>1, <3>2
  <2> QED BY <1>1, <2>2, <2>7 DEF Whole
<1> QED BY <1>3, <1>4, <1>5, <1>6, <1>7, <1>8 DEF Step

\* A mailer that has one file to send delivers it intact or not at all, whatever the
\* line and the timers do: each block once, in its place, and the file complete
\* before it is in the inbound.
THEOREM LoneFileIntact ==
  ASSUME \A s \in Sessions : \A p \in Node : Len(s.queue[p]) <= 1
  PROVE  Spec => []StoredIntact
<1>1. Init => Whole
  <2> SUFFICES ASSUME Init PROVE Whole
    OBVIOUS
  <2>1. /\ inbound = sess.old
        /\ \A f \in File : rcv[f].good /\ ~rcv[f].open
    BY DEF Init
  <2> QED BY <2>1 DEF Whole
<1>2. ZInv /\ Whole /\ [Next]_vars => Whole'
  <2> SUFFICES ASSUME ZInv, Whole, [Next]_vars PROVE Whole'
    OBVIOUS
  <2>1. CASE UNCHANGED vars
    BY <2>1 DEF Whole, vars, files
  <2>2. CASE ~UNCHANGED vars
    <3>1. PICK p \in Node : Step(p)
      BY <2>2, Steps
    <3>2. Lone
      BY DEF ZInv, TypeOK, Lone
    <3> QED BY <3>1, <3>2, WholeStays
  <2> QED BY <2>1, <2>2
<1>3. Whole => StoredIntact
  BY DEF Whole, StoredIntact
<1> QED BY <1>1, <1>2, <1>3, Invariance, PTL DEF Spec

-----------------------------------------------------------------------------
(* A good end                                                               *)

TxStates == TxPending \cup TxReading
AtEnd == {"FIN", "FINACK"}

\* p goes on in the same half, as what it was.
Keeps(p) ==
  /\ z'[p].phase = z[p].phase /\ z'[p].rc = "run"
  /\ z'[p].st \in TxStates <=> z[p].st \in TxStates
  /\ z'[p].st \in AtEnd => z[p].st \in AtEnd \/ NoMoreFiles(p)
  /\ z'[p].cur = z[p].cur \/ NextFile(p) \/ NoMoreFiles(p)
  /\ z'[p].recv = z[p].recv \/ GotFile(p)
  /\ z'[p].init = "FERR" => z[p].init = "FERR" \/ GotFile(p) \/ WriteFails(p) \/ CloseFails(p)
  /\ z'[p].st \in RecvStates => z[p].st \in RecvStates \/ GotFile(p)

\* p is done with one half and begins the other, or is done with both.
HalfEnds(p) ==
  \/ /\ z[p].phase = 1 /\ z'[p].phase = 2 /\ z'[p].rc = "run"
     /\ z'[p].cur = NoFile /\ z'[p].init = "RINIT"
     /\ z'[p].st = IF p = Caller THEN "INIT" ELSE "RQINIT"
  \/ /\ z[p].phase = 2 /\ z'[p].rc = "ok"
     /\ z'[p].phase = z[p].phase /\ z'[p].cur = z[p].cur /\ z'[p].init = z[p].init

\* A mailer that takes the locals r.
LEMMA Takeover ==
  ASSUME TypeOK, NEW p \in Node, NEW r \in Local, Becomes(p, r) \/ Moves(p, r)
  PROVE  /\ z'[p].phase = r.phase /\ z'[p].rc = r.rc /\ z'[p].st = r.st /\ z'[p].cur = r.cur
         /\ z'[p].recv = r.recv /\ z'[p].init = r.init
<1>1. PICK b \in BOOLEAN : z' = [z EXCEPT ![p] = [r EXCEPT !.moved = b]]
  BY DEF Becomes, Moves
<1>2. z'[p] = [r EXCEPT !.moved = b]
  BY <1>1 DEF TypeOK, LocalsOk
<1> QED BY <1>2 DEF Local

\* p goes from one of some states to one of others, and changes nothing that matters here.
Walks(p, from, to) ==
  /\ z[p].rc = "run" /\ z'[p].rc = "run" /\ z'[p].phase = z[p].phase
  /\ z[p].st \in from /\ z'[p].st \in to
  /\ z'[p].cur = z[p].cur /\ z'[p].recv = z[p].recv
  /\ z'[p].init = z[p].init \/ z'[p].init \in {"RINIT", "SKIP"}

LEMMA TxKeeps ==
  ASSUME TypeOK, NEW p \in Node,
         \/ SendRqinit(p) \/ NextFile(p) \/ NoMoreFiles(p) \/ SendFinfo(p) \/ StartData(p) \/ SendBlock(p)
         \/ ReadVanished(p) \/ SendEof(p) \/ SendFin(p)
         \/ TxRinit(p) \/ TxRinitFinfo(p) \/ TxSent(p) \/ TxSkipped(p) \/ TxRefused(p)
         \/ TxRinitFin(p) \/ TxAck(p) \/ TxRpos(p)
  PROVE  Keeps(p)
<1>1. z[p] \in Local /\ z \in [Node -> Local]
  BY DEF TypeOK, LocalsOk
<1>2. CASE SendRqinit(p) \/ SendFinfo(p) \/ StartData(p) \/ SendEof(p)
  <2>1. Walks(p, TxStates, TxStates \ AtEnd)
    <3>1. CASE SendRqinit(p)
      BY <1>1, <3>1 DEF Walks, SendRqinit, At, Takes, Running, Becomes, Moves, Goes, Tried, Reads, Local, TxStates, TxPending, TxReading, AtEnd
    <3>2. CASE SendFinfo(p)
      BY <1>1, <3>2 DEF Walks, SendFinfo, At, Takes, Running, Becomes, Moves, Goes, Tried, Reads, Local, TxStates, TxPending, TxReading, AtEnd
    <3>3. CASE StartData(p)
      BY <1>1, <3>3 DEF Walks, StartData, At, Takes, Running, Becomes, Moves, Goes, Tried, Reads, Local, TxStates, TxPending, TxReading, AtEnd
    <3>4. CASE SendEof(p)
      BY <1>1, <3>4 DEF Walks, SendEof, At, Takes, Running, Becomes, Moves, Goes, Tried, Reads, Local, TxStates, TxPending, TxReading, AtEnd
    <3> QED BY <1>2, <3>1, <3>2, <3>3, <3>4
  <2> QED BY <2>1 DEF Walks, Keeps, TxStates, TxPending, TxReading, RecvStates
<1>3. CASE SendFin(p) \/ TxRinitFin(p)
  <2>1. Walks(p, AtEnd, AtEnd)
    <3>1. CASE SendFin(p)
      BY <1>1, <3>1 DEF Walks, SendFin, At, Takes, Running, Becomes, Moves, Goes, Tried, Reads, Local, AtEnd
    <3>2. CASE TxRinitFin(p)
      BY <1>1, <3>2 DEF Walks, TxRinitFin, At, Takes, Running, Becomes, Moves, Goes, Tried, Reads, Local, AtEnd
    <3> QED BY <1>3, <3>1, <3>2
  <2> QED BY <2>1 DEF Walks, Keeps, TxStates, TxPending, TxReading, RecvStates, AtEnd
<1>4. CASE NextFile(p) \/ NoMoreFiles(p)
  <2> DEFINE Opens(st) == /\ z[p].st = "NEXTFILE" /\ z'[p].rc = "run" /\ z'[p].phase = z[p].phase
                          /\ z'[p].recv = z[p].recv /\ z'[p].init = z[p].init /\ z'[p].st = st
  <2>1. CASE NextFile(p)
    <3>1. Opens("FINFOACK")
      BY <1>1, <2>1 DEF NextFile, At, Running, Becomes, Local
    <3> QED BY <2>1, <3>1 DEF Keeps, TxStates, TxPending, TxReading, RecvStates, AtEnd
  <2>2. CASE NoMoreFiles(p)
    <3>1. Opens("FINACK")
      BY <1>1, <2>2 DEF NoMoreFiles, At, Running, Becomes, Local
    <3> QED BY <2>2, <3>1 DEF Keeps, TxStates, TxPending, TxReading, RecvStates, AtEnd
  <2> QED BY <1>4, <2>1, <2>2
<1>5. CASE SendBlock(p)
  <2>1. Walks(p, {"DATA"}, {"EOF", "CRCWACK", "CRCQACK", "READCHECK", "DATA"})
    <3>1. PICK k \in {"E", "W", "Q", "G"}, look \in BOOLEAN :
            Moves(p, [z[p] EXCEPT !.st = NextState(k, look), !.tries = IF k = "E" THEN 0 ELSE @])
      BY <1>5, BlockSent, ZenonT(30)
    <3>2. NextState(k, look) \in {"EOF", "CRCWACK", "CRCQACK", "READCHECK", "DATA"}
      BY DEF NextState
    <3>3. z[p].rc = "run" /\ z[p].st = "DATA"
      BY <1>5 DEF SendBlock, At, Running
    <3> QED BY <1>1, <3>1, <3>2, <3>3 DEF Walks, Moves, Local
  <2> QED BY <2>1 DEF Walks, Keeps, TxStates, TxPending, TxReading, RecvStates, AtEnd
<1>6. CASE ReadVanished(p) \/ TxRinit(p) \/ TxRinitFinfo(p)
  <2>1. Walks(p, TxStates, TxStates \ AtEnd)
    <3>1. CASE ReadVanished(p)
      BY <1>1, <3>1 DEF Walks, ReadVanished, At, Takes, Running, Becomes, Moves, Goes, Tried, Reads, Local, TxStates, TxPending, TxReading, AtEnd
    <3>2. CASE TxRinit(p)
      BY <1>1, <3>2 DEF Walks, TxRinit, At, Takes, Running, Becomes, Moves, Goes, Tried, Reads, Local, TxStates, TxPending, TxReading, AtEnd
    <3>3. CASE TxRinitFinfo(p)
      BY <1>1, <3>3 DEF Walks, TxRinitFinfo, At, Takes, Running, Becomes, Moves, Goes, Tried, Reads, Local, TxStates, TxPending, TxReading, AtEnd
    <3> QED BY <1>6, <3>1, <3>2, <3>3
  <2> QED BY <2>1 DEF Walks, Keeps, TxStates, TxPending, TxReading, RecvStates
<1>7. CASE TxSent(p) \/ TxSkipped(p) \/ TxRefused(p)
  <2>1. Walks(p, OnFile, {"NEXTFILE"})
    <3>1. CASE TxSent(p)
      BY <1>1, <3>1 DEF Walks, TxSent, Disposed, OnFile, At, Takes, Running, Becomes, Moves, Goes, Tried, Reads, Local
    <3>2. CASE TxSkipped(p)
      BY <1>1, <3>2 DEF Walks, TxSkipped, Disposed, OnFile, At, Takes, Running, Becomes, Moves, Goes, Tried, Reads, Local
    <3>3. CASE TxRefused(p)
      BY <1>1, <3>3 DEF Walks, TxRefused, Disposed, OnFile, At, Takes, Running, Becomes, Moves, Goes, Tried, Reads, Local
    <3> QED BY <1>7, <3>1, <3>2, <3>3
  <2> QED BY <2>1 DEF Walks, Keeps, TxStates, TxPending, TxReading, RecvStates, AtEnd, OnFile
<1>8. CASE TxAck(p) \/ TxRpos(p)
  <2>1. Walks(p, OnFile, {"DATA", "STARTDATA"} \cup OnFile)
    <3>1. CASE TxAck(p)
      BY <1>1, <3>1 DEF Walks, TxAck, OnFile, Streaming, At, Takes, Running, Becomes, Moves, Goes, Tried, Reads, Local
    <3>2. CASE TxRpos(p)
      BY <1>1, <3>2 DEF Walks, TxRpos, OnFile, Streaming, At, Takes, Running, Becomes, Moves, Goes, Tried, Reads, Local
    <3> QED BY <1>8, <3>1, <3>2
  <2> QED BY <2>1 DEF Walks, Keeps, TxStates, TxPending, TxReading, RecvStates, AtEnd, OnFile
<1> QED BY <1>2, <1>3, <1>4, <1>5, <1>6, <1>7, <1>8

LEMMA RxKeeps ==
  ASSUME TypeOK, NEW p \in Node,
         \/ SendInit(p) \/ SendRpos(p) \/ GotFile(p) \/ NotFile(p) \/ SwallowHeader(p)
         \/ RecvBlock(p) \/ WriteFails(p) \/ RecvBadBlock(p)
         \/ RxRqinit(p) \/ RxFile(p) \/ RxData(p) \/ RxEof(p) \/ CloseFails(p)
         \/ RxEofElsewhere(p) \/ RxFinDoubted(p)
  PROVE  Keeps(p)
<1> DEFINE Inits == {"INIT", "INITACK", "FILEDATA"}
<1>1. z[p] \in Local /\ z \in [Node -> Local]
  BY DEF TypeOK, LocalsOk
<1>2. CASE SendInit(p) \/ NotFile(p) \/ RxRqinit(p) \/ RxFile(p) \/ RxFinDoubted(p)
  <2>1. Walks(p, Inits \cup {"RPOSACK"}, Inits)
    <3>1. CASE SendInit(p)
      BY <1>1, <3>1 DEF Walks, SendInit, ReadsData, At, Takes, Running, Becomes, Moves, Goes, Tried, Reads, Local
    <3>2. CASE NotFile(p)
      BY <1>1, <3>2 DEF Walks, NotFile, ReadsData, At, Takes, Running, Becomes, Moves, Goes, Tried, Reads, Local
    <3>3. CASE RxRqinit(p)
      BY <1>1, <3>3 DEF Walks, RxRqinit, ReadsData, At, Takes, Running, Becomes, Moves, Goes, Tried, Reads, Local
    <3>4. CASE RxFile(p)
      BY <1>1, <3>4 DEF Walks, RxFile, ReadsData, At, Takes, Running, Becomes, Moves, Goes, Tried, Reads, Local
    <3>5. CASE RxFinDoubted(p)
      BY <1>1, <3>5 DEF Walks, RxFinDoubted, ReadsData, At, Takes, Running, Becomes, Moves, Goes, Tried, Reads, Local
    <3> QED BY <1>2, <3>1, <3>2, <3>3, <3>4, <3>5
  <2> QED BY <2>1 DEF Walks, Keeps, TxStates, TxPending, TxReading, RecvStates, AtEnd
<1>3. CASE SendRpos(p) \/ RecvBadBlock(p) \/ RxData(p) \/ RxEofElsewhere(p) \/ RxEof(p)
  <2>1. Walks(p, RecvStates, RecvStates \cup {"INIT"})
    <3>1. CASE SendRpos(p)
      BY <1>1, <3>1 DEF Walks, SendRpos, ReadsData, Repositions, RecvStates, At, Takes, Running, Becomes, Moves, Goes, Tried, Reads, Local
    <3>2. CASE RecvBadBlock(p)
      BY <1>1, <3>2 DEF Walks, RecvBadBlock, ReadsData, Repositions, RecvStates, At, Takes, Running, Becomes, Moves, Goes, Tried, Reads, Local
    <3>3. CASE RxData(p)
      BY <1>1, <3>3 DEF Walks, RxData, ReadsData, Repositions, RecvStates, At, Takes, Running, Becomes, Moves, Goes, Tried, Reads, Local
    <3>4. CASE RxEofElsewhere(p)
      BY <1>1, <3>4 DEF Walks, RxEofElsewhere, ReadsData, Repositions, RecvStates, At, Takes, Running, Becomes, Moves, Goes, Tried, Reads, Local
    <3>5. CASE RxEof(p)
      BY <1>1, <3>5 DEF Walks, RxEof, ReadsData, Repositions, RecvStates, At, Takes, Running, Becomes, Moves, Goes, Tried, Reads, Local
    <3> QED BY <1>3, <3>1, <3>2, <3>3, <3>4, <3>5
  <2> QED BY <2>1 DEF Walks, Keeps, TxStates, TxPending, TxReading, RecvStates, AtEnd
<1>4. CASE RecvBlock(p)
  <2>1. Walks(p, {"WAITDATA"}, {"WAITDATA", "RPOSACK"})
    BY <1>1, <1>4 DEF Walks, RecvBlock, GoodBlock, ReadsData, At, Running, Moves, Local
  <2> QED BY <2>1 DEF Walks, Keeps, TxStates, TxPending, TxReading, RecvStates, AtEnd
<1>5. CASE SwallowHeader(p)
  <2>1. Walks(p, {z[p].st}, {z[p].st})
    BY <1>1, <1>5 DEF Walks, SwallowHeader, At, Running, Becomes, Local
  <2> QED BY <2>1 DEF Walks, Keeps
<1>6. CASE WriteFails(p) \/ CloseFails(p)
  <2>1. PICK r \in {Refusing(z[p]), Skipping(z[p])} : Becomes(p, r) \/ Moves(p, r)
    BY <1>6 DEF WriteFails, CloseFails
  <2>2. r \in Local /\ r.phase = z[p].phase /\ r.rc = z[p].rc /\ r.cur = z[p].cur /\ r.recv = z[p].recv
        /\ r.st \in {"INIT", "SENDRPOS"}
    <3>1. r \in Local /\ r.rc = z[p].rc /\ r.cur = z[p].cur /\ r.recv = z[p].recv /\ r.st \in {"INIT", "SENDRPOS"}
      BY <1>1, <2>1, Verdicts
    <3> QED BY <1>1, <2>1, <3>1 DEF Refusing, Skipping, Local
  <2>3. z[p].rc = "run" /\ z[p].st \in RecvStates
    BY <1>6 DEF WriteFails, CloseFails, GoodBlock, ReadsData, At, Takes, Running, RecvStates
  <2>4. /\ z'[p].phase = z[p].phase /\ z'[p].rc = "run" /\ z'[p].cur = z[p].cur /\ z'[p].recv = z[p].recv
        /\ z'[p].st \in {"INIT", "SENDRPOS"}
    BY <2>1, <2>2, <2>3, Takeover
  <2> QED BY <1>6, <2>3, <2>4 DEF Keeps, TxStates, TxPending, TxReading, RecvStates, AtEnd
<1>7. CASE GotFile(p)
  <2> DEFINE f == chan[p][1].file
             q == [z[p] EXCEPT !.recv = f]
  <2>1. PICK r \in {Repositions(q), Refusing(q), Skipping(q)} : Becomes(p, r)
    BY <1>7 DEF GotFile, FopenResults
  <2>2. q \in Local /\ q.phase = z[p].phase /\ q.rc = z[p].rc /\ q.cur = z[p].cur
    <3>1. f \in Mine(Peer(p)) /\ Mine(Peer(p)) \subseteq File
      BY <1>7, Offers, MineIs, Nodes DEF TypeOK
    <3> HIDE DEF f
    <3> QED BY <1>1, <3>1 DEF Local
  <2> HIDE DEF q
  <2>3. r \in Local /\ r.phase = z[p].phase /\ r.rc = z[p].rc /\ r.cur = z[p].cur /\ r.st \in {"INIT", "SENDRPOS"}
    <3>1. r \in Local /\ r.rc = z[p].rc /\ r.cur = z[p].cur /\ r.st \in {"INIT", "SENDRPOS"}
      BY <2>1, <2>2, Verdicts
    <3> QED BY <2>1, <2>2, <3>1 DEF Refusing, Skipping, Repositions, Local
  <2>4. z[p].rc = "run" /\ z[p].st = "FILEDATA"
    BY <1>7 DEF GotFile, ReadsData, At, Running
  <2>5. /\ z'[p].phase = z[p].phase /\ z'[p].rc = "run" /\ z'[p].cur = z[p].cur
        /\ z'[p].st \in {"INIT", "SENDRPOS"}
    BY <2>1, <2>3, <2>4, Takeover
  <2> QED BY <1>7, <2>4, <2>5 DEF Keeps, TxStates, TxPending, TxReading, RecvStates, AtEnd
<1> QED BY <1>2, <1>3, <1>4, <1>5, <1>6, <1>7

LEMMA ReadersKeep ==
  ASSUME TypeOK, NEW p \in Node, ReadNak(p) \/ ReadBad(p) \/ ReadIgnored(p) \/ Timer(p)
  PROVE  Keeps(p)
<1>1. z[p] \in Local /\ z \in [Node -> Local] /\ z[p].st \in State
  BY DEF TypeOK, LocalsOk, Local
<1>2. CASE ReadNak(p) \/ ReadBad(p) \/ ReadIgnored(p)
  <2>1. PICK st : /\ Running(p) /\ Becomes(p, [z[p] EXCEPT !.st = st])
                  /\ st \in {z[p].st, AfterRead(z[p].st)} \/ (st = Again(z[p].st) /\ z[p].st \in Repeating)
    BY <1>2 DEF ReadNak, ReadBad, ReadIgnored, Takes, At, Reads, Goes
  <2>2. Walks(p, {z[p].st}, {st})
    BY <1>1, <2>1 DEF Walks, Running, Becomes, Local
  <2>3. /\ st \in TxStates <=> z[p].st \in TxStates
        /\ st \in AtEnd => z[p].st \in AtEnd
        /\ st \in RecvStates => z[p].st \in RecvStates
    BY <2>1 DEF AfterRead, Again, Repeating, TxStates, TxPending, TxReading, RecvStates, AtEnd
  <2> QED BY <2>2, <2>3 DEF Walks, Keeps
<1>3. CASE Timer(p)
  <2> DEFINE r == IF z[p].st \in TxReading THEN TxTimeout(z[p]) ELSE RxTimeout(z[p])
  <2>1. /\ z[p].rc = "run" /\ z[p].st \in Reading \cup {"FILEDATA", "WAITDATA"} /\ Becomes(p, r)
    BY <1>3 DEF Timer, At, Running
  <2>2. r \in Local /\ r.cur = z[p].cur /\ r.recv = z[p].recv /\ r.rc = z[p].rc
    BY <1>1, <2>1, TimedOut
  <2>3. /\ r.phase = z[p].phase /\ r.init = z[p].init
        /\ r.st \in TxStates <=> z[p].st \in TxStates
        /\ r.st \in AtEnd => z[p].st \in AtEnd
        /\ r.st \in RecvStates => z[p].st \in RecvStates
    <3>1. CASE z[p].st \in TxReading
      <4>1. PICK st : r = [z[p] EXCEPT !.st = st]
                      /\ \/ z[p].st \in {"READCHECK", "CRCWACK", "CRCQACK"} /\ st = "STARTDATA"
                         \/ st = AfterRead(Again(z[p].st))
        BY <3>1 DEF TxTimeout
      <4>2. st \in TxStates /\ (st \in AtEnd => z[p].st \in AtEnd) /\ st \notin RecvStates
        BY <3>1, <4>1 DEF AfterRead, Again, TxStates, TxPending, TxReading, RecvStates, AtEnd
      <4> HIDE DEF r
      <4>3. r.phase = z[p].phase /\ r.init = z[p].init /\ r.st = st
        BY <1>1, <4>1 DEF Local
      <4> QED BY <3>1, <4>2, <4>3 DEF TxStates
    <3>2. CASE z[p].st \notin TxReading
      <4>1. z[p].st \in {"INITACK", "RPOSACK", "FILEDATA", "WAITDATA"}
        BY <2>1, <3>2 DEF Reading
      <4>2. PICK st \in {"INIT", "SENDRPOS"}, n \in {0, z[p].tries} :
              r = [z[p] EXCEPT !.tries = n, !.st = st] /\ (st = "SENDRPOS" => z[p].st \in RecvStates)
        <5>1. CASE z[p].st \in {"FILEDATA", "WAITDATA"}
          BY <3>2, <5>1 DEF RxTimeout, Repositions, RecvStates
        <5>2. CASE z[p].st \in {"INITACK", "RPOSACK"}
          <6>1. r = [z[p] EXCEPT !.st = Again(z[p].st)] /\ Again(z[p].st) \in {"INIT", "SENDRPOS"}
                /\ (Again(z[p].st) = "SENDRPOS" => z[p].st \in RecvStates)
            BY <3>2, <5>2 DEF RxTimeout, RecvStates, Again
          <6>2. [z[p] EXCEPT !.st = Again(z[p].st)] = [z[p] EXCEPT !.tries = z[p].tries, !.st = Again(z[p].st)]
            BY <1>1 DEF Local
          <6> QED BY <6>1, <6>2
        <5> QED BY <4>1, <5>1, <5>2
      <4> HIDE DEF r
      <4>3. r.phase = z[p].phase /\ r.init = z[p].init /\ r.st = st
        BY <1>1, <4>2 DEF Local
      <4> QED BY <4>1, <4>2, <4>3 DEF TxStates, TxPending, TxReading, AtEnd, RecvStates
    <3> QED BY <3>1, <3>2
  <2> HIDE DEF r
  <2>4. /\ z'[p].phase = z[p].phase /\ z'[p].rc = "run" /\ z'[p].cur = z[p].cur /\ z'[p].recv = z[p].recv
        /\ z'[p].init = z[p].init /\ z'[p].st = r.st
    BY <2>1, <2>2, <2>3, Takeover
  <2> QED BY <2>3, <2>4 DEF Keeps
<1> QED BY <1>2, <1>3

LEMMA HalfEndsWell ==
  ASSUME TypeOK, NEW p \in Node, TxFin(p) \/ RxFin(p)
  PROVE  HalfEnds(p)
<1>1. z[p] \in Local /\ z \in [Node -> Local] /\ Caller \in Node
  BY Constants DEF TypeOK, LocalsOk
<1>2. PhaseDone(p)
  BY DEF TxFin, RxFin
<1>3. CASE z[p].phase = 1
  <2>1. Moves(p, Started(p, 2)) /\ Started(p, 2) \in Local
    BY <1>2, <1>3, StartedIs DEF PhaseDone
  <2>2. /\ Started(p, 2).phase = 2 /\ Started(p, 2).rc = "run" /\ Started(p, 2).cur = NoFile
        /\ Started(p, 2).init = "RINIT" /\ Started(p, 2).st = IF p = Caller THEN "INIT" ELSE "RQINIT"
    BY DEF Started, Fresh
  <2> QED BY <1>3, <2>1, <2>2, Takeover DEF HalfEnds
<1>4. CASE z[p].phase # 1
  <2>1. z[p].phase = 2 /\ Becomes(p, [z[p] EXCEPT !.rc = "ok"])
    BY <1>1, <1>2, <1>4 DEF PhaseDone, Local
  <2> QED BY <1>1, <2>1 DEF Becomes, Local, HalfEnds
<1> QED BY <1>2, <1>3, <1>4

\* Whatever p does.
LEMMA Turns ==
  ASSUME TypeOK, NEW p \in Node, Step(p)
  PROVE  \/ Garble(p) /\ z' = z
         \/ Stop(p) /\ z'[p].rc \in {"error", "crash"} /\ z'[p].init = z[p].init
         \/ (TxFin(p) \/ RxFin(p)) /\ HalfEnds(p)
         \/ Keeps(p) /\ ~TxFin(p) /\ ~RxFin(p)
<1>1. CASE Garble(p)
  BY <1>1 DEF Garble
<1>2. CASE Stop(p)
  <2>1. PICK code \in {"error", "crash"} : Ends(p, code)
    BY <1>2, StopIs
  <2> QED BY <1>2, <2>1 DEF Ends, Becomes, Local, TypeOK, LocalsOk
<1>3. CASE TxFin(p) \/ RxFin(p)
  BY <1>3, HalfEndsWell
<1>4. CASE ~Garble(p) /\ ~Stop(p) /\ ~TxFin(p) /\ ~RxFin(p)
  BY <1>4, TxKeeps, RxKeeps, ReadersKeep DEF Step, Quiet
<1> QED BY <1>1, <1>2, <1>3, <1>4

Says(c) == {c[i].type : i \in DOMAIN c}

LEMMA SaysIs ==
  ASSUME NEW S, NEW c \in Seq(S), NEW d \in Seq(S)
  PROVE  /\ Says(c \o d) = Says(c) \cup Says(d)
         /\ c # << >> => Says(Tail(c)) \subseteq Says(c)
         /\ \A n \in 0..Len(c) : Says(SubSeq(c, 1, n)) \subseteq Says(c)
<1>1. Says(c \o d) = Says(c) \cup Says(d)
  <2>1. /\ c \o d \in Seq(S) /\ Len(c \o d) = Len(c) + Len(d) /\ Len(c) \in Nat /\ Len(d) \in Nat
        /\ DOMAIN c = 1..Len(c) /\ DOMAIN d = 1..Len(d) /\ DOMAIN (c \o d) = 1..Len(c \o d)
        /\ \A i \in 1..Len(c) + Len(d) : (c \o d)[i] = IF i <= Len(c) THEN c[i] ELSE d[i - Len(c)]
    BY ConcatProperties, LenProperties
  <2>2. ASSUME NEW i \in DOMAIN (c \o d) PROVE (c \o d)[i].type \in Says(c) \cup Says(d)
    BY <2>1 DEF Says
  <2>3. ASSUME NEW i \in DOMAIN c PROVE c[i].type \in Says(c \o d)
    BY <2>1 DEF Says
  <2>4. ASSUME NEW i \in DOMAIN d PROVE d[i].type \in Says(c \o d)
    <3>1. Len(c) + i \in DOMAIN (c \o d) /\ (c \o d)[Len(c) + i] = d[i]
      BY <2>1
    <3> QED BY <3>1 DEF Says
  <2> QED BY <2>2, <2>3, <2>4 DEF Says
<1>2. ASSUME c # << >> PROVE Says(Tail(c)) \subseteq Says(c)
  <2>1. Tail(c) \in Seq(S) /\ Len(Tail(c)) = Len(c) - 1 /\ \A i \in 1..Len(Tail(c)) : Tail(c)[i] = c[i + 1]
    BY <1>2, HeadTailProperties
  <2> QED BY <2>1, LenProperties DEF Says
<1>3. ASSUME NEW n \in 0..Len(c) PROVE Says(SubSeq(c, 1, n)) \subseteq Says(c)
  <2>1. Len(SubSeq(c, 1, n)) = n /\ SubSeq(c, 1, n) \in Seq(S) /\ \A i \in 1..n : SubSeq(c, 1, n)[i] = c[i]
    BY <1>3, LenProperties, SubSeqProperties
  <2> QED BY <2>1, LenProperties DEF Says
<1> QED BY <1>1, <1>2, <1>3

LEMMA SaysOf ==
  /\ Says(<< >>) = {}
  /\ \A m : Says(<<m>>) = {m.type}
  /\ \A m, n : Says(<<m, n>>) = {m.type, n.type}
<1>1. Says(<< >>) = {}
  BY DEF Says
<1>2. ASSUME NEW m PROVE Says(<<m>>) = {m.type}
  <2>1. DOMAIN <<m>> = {1} /\ <<m>>[1] = m
    OBVIOUS
  <2> QED BY <2>1 DEF Says
<1>3. ASSUME NEW m, NEW n PROVE Says(<<m, n>>) = {m.type, n.type}
  <2>1. DOMAIN <<m, n>> = {1, 2} /\ <<m, n>>[1] = m /\ <<m, n>>[2] = n
    OBVIOUS
  <2> QED BY <2>1 DEF Says
<1> QED BY <1>1, <1>2, <1>3

LEMMA Singles ==
  ASSUME NEW S
  PROVE  << >> \in Seq(S) /\ (\A m \in S : <<m>> \in Seq(S)) /\ (\A m, n \in S : <<m, n>> \in Seq(S))
OBVIOUS

\* ZFERR is on its way to the sender only when the receiver has said so.
LEMMA FerrSaid ==
  ASSUME TypeOK, NEW p \in Node, Step(p)
  PROVE  /\ "FERR" \in Says(chan[p])' => "FERR" \in Says(chan[p])
         /\ "FERR" \in Says(chan[Peer(p)])' => "FERR" \in Says(chan[Peer(p)]) \/ z[p].init = "FERR"
<1> DEFINE q == Peer(p)
           Adds(ms) == chan' = [chan EXCEPT ![q] = IF Running(q) THEN @ \o ms ELSE @]
           Replaces(out) == chan' = [chan EXCEPT ![p] = Tail(@), ![q] = IF Running(q) THEN out ELSE @]
           Goal == /\ "FERR" \in Says(chan[p])' => "FERR" \in Says(chan[p])
                   /\ "FERR" \in Says(chan[Peer(p)])' => "FERR" \in Says(chan[Peer(p)]) \/ z[p].init = "FERR"
<1> SUFFICES Goal
  OBVIOUS
<1>1. /\ DOMAIN chan = Node /\ q \in Node /\ q # p
      /\ chan[p] \in Seq(From(q)) /\ chan[q] \in Seq(From(p)) /\ sess \in Sessions /\ z[p] \in Local
  BY Nodes DEF TypeOK, LinesOk, LocalsOk
<1> HIDE DEF q
<1>2. ASSUME NEW ms \in Seq(From(p)), "FERR" \notin Says(ms) \/ z[p].init = "FERR", Adds(ms) PROVE Goal
  <2>1. Says(chan[q] \o ms) = Says(chan[q]) \cup Says(ms)
    BY <1>1, SaysIs
  <2> QED BY <1>1, <1>2, <2>1 DEF q
<1>3. ASSUME NEW out \in Seq(From(p)), "FERR" \in Says(out) => "FERR" \in Says(chan[q]), chan[p] # << >>, Replaces(out)
      PROVE  Goal
  <2>1. Says(Tail(chan[p])) \subseteq Says(chan[p])
    BY <1>1, <1>3, SaysIs
  <2> QED BY <1>1, <1>3, <2>1 DEF q
<1>4. ASSUME NEW ms \in Seq(From(p)), "FERR" \notin Says(ms), chan[p] # << >>, Answers(p, ms) PROVE Goal
  <2>1. Replaces(chan[q] \o ms)
    BY <1>1, <1>4 DEF Answers, q
  <2>2. chan[q] \o ms \in Seq(From(p)) /\ Says(chan[q] \o ms) = Says(chan[q]) \cup Says(ms)
    BY <1>1, SaysIs, ConcatProperties
  <2> HIDE DEF Goal, Replaces
  <2> QED BY <1>3, <1>4, <2>1, <2>2
<1> HIDE DEF Goal, Replaces, Adds
<1>5. ASSUME NEW m \in From(p), m.type # "FERR" \/ z[p].init = "FERR", Sends(p, <<m>>) PROVE Goal
  <2>1. <<m>> \in Seq(From(p)) /\ Says(<<m>>) = {m.type} /\ Adds(<<m>>)
    BY <1>5, Singles, SaysOf DEF Sends, Adds, q
  <2> QED BY <1>2, <1>5, <2>1
<1>6. ASSUME chan[p] # << >>, Answers(p, << >>) PROVE Goal
  <2>1. << >> \in Seq(From(p)) /\ Says(<< >>) = {}
    BY Singles, SaysOf
  <2> QED BY <1>4, <1>6, <2>1
<1>7. ASSUME NEW m \in From(p), m.type # "FERR", chan[p] # << >>, Answers(p, <<m>>) PROVE Goal
  <2>1. <<m>> \in Seq(From(p)) /\ Says(<<m>>) = {m.type}
    BY <1>7, Singles, SaysOf
  <2> QED BY <1>4, <1>7, <2>1
<1>8. \A t \in Headers, n \in Nat : Hdr(t, n) \in From(p) /\ Hdr(t, n).type = t
  BY Items DEF Hdr
<1>9. EmptyE \in From(p) /\ EmptyE.type = "SUB"
  BY Items DEF EmptyE, Sub
<1>10. CASE SendRqinit(p) \/ StartData(p) \/ SendEof(p) \/ SendFin(p) \/ NoMoreFiles(p) \/ SendRpos(p) \/ SendInit(p)
  <2>1. PICK t \in Headers, n \in Nat : Sends(p, <<Hdr(t, n)>>) /\ (t # "FERR" \/ z[p].init = "FERR")
    <3>1. CASE SendRqinit(p) \/ SendFin(p) \/ NoMoreFiles(p)
      BY <3>1 DEF SendRqinit, SendFin, NoMoreFiles, Headers
    <3>2. CASE StartData(p) \/ SendEof(p)
      <4>1. z[p].cur \in File /\ snd[z[p].cur].pos \in Nat
        <5>1. z[p].cur \in File
          BY <1>1, <3>2, LocalFacts, MineIs DEF StartData, SendEof, At, OpenStates, ShutStates
        <5> QED BY <5>1 DEF TypeOK, FilesOk, Sinfo
      <4> QED BY <3>2, <4>1 DEF StartData, SendEof, Headers
    <3>3. CASE SendRpos(p)
      <4>1. z[p].recv \in File /\ rcv[z[p].recv].bytes \in Nat
        <5>1. z[p].recv \in File
          BY <1>1, <3>3, LocalFacts, MineIs, Nodes DEF SendRpos, At, RecvStates
        <5> QED BY <5>1 DEF TypeOK, FilesOk, Rinfo
      <4> QED BY <3>3, <4>1 DEF SendRpos, Headers
    <3>4. CASE SendInit(p)
      BY <1>1, <3>4 DEF SendInit, Headers, Local
    <3> QED BY <1>10, <3>1, <3>2, <3>3, <3>4
  <2> QED BY <1>5, <1>8, <2>1
<1>11. CASE NextFile(p) \/ SendFinfo(p)
  <2>1. PICK f \in Mine(p) : f # NoFile /\ Sends(p, Finfo(f))
    <3>1. CASE SendFinfo(p)
      BY <3>1, LocalFacts DEF SendFinfo, At, ShutStates
    <3>2. CASE NextFile(p)
      <4>1. queue[p] \in Seq(Mine(p)) /\ queue[p] # << >>
        BY <3>2 DEF NextFile, TypeOK, FilesOk
      <4>2. Head(queue[p]) \in Mine(p) /\ Head(queue[p]) # NoFile
        BY <1>1, <4>1, HeadTailProperties, MineIs
      <4> QED BY <3>2, <4>2 DEF NextFile
    <3> QED BY <1>11, <3>1, <3>2
  <2>2. Hdr("FILE", 0) \in From(p) /\ Sub("FINFO", f, "W", 0) \in From(p)
    BY <2>1, Items DEF Headers
  <2>3. Finfo(f) \in Seq(From(p)) /\ Says(Finfo(f)) = {"FILE", "FINFO"}
    BY <2>2, SaysOf, Singles DEF Finfo, Hdr, Sub
  <2> QED BY <1>2, <2>1, <2>3 DEF Sends, Adds, q
<1>12. CASE SendBlock(p)
  <2>1. PICK k, n : Sends(p, <<[Sub("SUB", z[p].cur, k, n) EXCEPT !.pos = snd[z[p].cur].pos]>>)
    BY <1>12, BlockSent
  <2>2. [Sub("SUB", z[p].cur, k, n) EXCEPT !.pos = snd[z[p].cur].pos].type = "SUB"
    BY DEF Sub
  <2> DEFINE m == [Sub("SUB", z[p].cur, k, n) EXCEPT !.pos = snd[z[p].cur].pos]
  <2>4. Says(chan[q] \o <<m>>) = Says(chan[q]) \cup Says(<<m>>)
    <3> DEFINE S == From(p) \cup {m}
               c == chan[q]
               d == <<m>>
    <3>1. c \in Seq(S) /\ d \in Seq(S)
      BY <1>1, Singles
    <3> HIDE DEF m, S, c, d
    <3>2. Says(c \o d) = Says(c) \cup Says(d)
      BY <3>1, SaysIs
    <3> QED BY <3>2 DEF c, d
  <2>5. Says(<<m>>) = {"SUB"}
    BY <2>2, SaysOf
  <2> HIDE DEF m
  <2>6. chan' = [chan EXCEPT ![q] = IF Running(q) THEN @ \o <<m>> ELSE @]
    BY <2>1 DEF Sends, m, q
  <2> QED BY <1>1, <2>4, <2>5, <2>6 DEF Goal, q
<1>13. CASE ReadVanished(p)
  BY <1>5, <1>9, <1>13 DEF ReadVanished
<1>14. CASE \/ TxRinitFinfo(p) \/ TxRinitFin(p) \/ TxAck(p) \/ ReadNak(p) \/ TxFin(p)
            \/ GotFile(p) \/ SwallowHeader(p) \/ WriteFails(p) \/ RecvBadBlock(p)
            \/ RxRqinit(p) \/ RxFile(p) \/ RxData(p) \/ RxEof(p) \/ CloseFails(p)
            \/ RxEofElsewhere(p) \/ RxFinDoubted(p)
  <2>1. chan[p] # << >> /\ Answers(p, << >>)
    BY <1>14 DEF TxRinitFinfo, TxRinitFin, TxAck, ReadNak, TxFin, GotFile, SwallowHeader, WriteFails, RecvBadBlock,
         RxRqinit, RxFile, RxData, RxEof, CloseFails, RxEofElsewhere, RxFinDoubted, Takes, Reads, ReadsData, GoodBlock
  <2> QED BY <1>6, <2>1
<1>15. CASE TxRinit(p) \/ ReadBad(p) \/ ReadIgnored(p) \/ NotFile(p) \/ RecvBlock(p) \/ RxFin(p)
  <2>1. chan[p] # << >>
    BY <1>15 DEF TxRinit, ReadBad, ReadIgnored, NotFile, RecvBlock, RxFin, Takes, ReadsData, GoodBlock
  <2>2. Answers(p, << >>) \/ \E t \in Headers \ {"FERR"}, n \in Nat : Answers(p, <<Hdr(t, n)>>)
    <3>1. CASE TxRinit(p) \/ ReadBad(p) \/ ReadIgnored(p) \/ NotFile(p) \/ RxFin(p)
      BY <3>1 DEF TxRinit, ReadBad, ReadIgnored, NotFile, RxFin, Reads, Headers
    <3>2. CASE RecvBlock(p)
      <4> DEFINE bytes == rcv[z[p].recv].bytes + chan[p][1].len
      <4>1. bytes \in Nat
        <5>1. z[p].recv \in File
          BY <1>1, <3>2, LocalFacts, MineIs, Nodes DEF RecvBlock, GoodBlock, ReadsData, At, RecvStates
        <5> QED BY <2>1, <5>1, FirstItem DEF TypeOK, FilesOk, Rinfo
      <4>2. Answers(p, << >>) \/ Answers(p, <<Hdr("ACK", bytes)>>)
        BY <3>2 DEF RecvBlock
      <4> HIDE DEF bytes
      <4> QED BY <4>1, <4>2 DEF Headers
    <3> QED BY <1>15, <3>1, <3>2
  <2> QED BY <1>6, <1>7, <1>8, <2>1, <2>2
<1>16. CASE TxSent(p) \/ TxRefused(p)
  <2>1. chan[p] # << >> /\ (Answers(p, << >>) \/ Answers(p, <<EmptyE>>))
    BY <1>16 DEF TxSent, TxRefused, Takes, EndFrame
  <2> QED BY <1>6, <1>7, <1>9, <2>1
<1>17. ASSUME NEW c \in Seq(From(p)), NEW out \in Flushes(p, c)
       PROVE  out \in Seq(From(p)) /\ Says(out) \subseteq Says(c)
  <2>1. CASE out = c
    BY <2>1
  <2>2. ASSUME NEW n \in 0..Len(c), out = SubSeq(c, 1, n) PROVE out \in Seq(From(p)) /\ Says(out) \subseteq Says(c)
    BY <2>2, SaysIs, SubSeqProperties, LenProperties
  <2> QED BY <1>17, <2>1, <2>2 DEF Flushes
<1>18. ASSUME NEW c \in Seq(From(p))
       PROVE  c \o EndFrame(p) \in Seq(From(p)) /\ Says(c \o EndFrame(p)) \subseteq Says(c) \cup {"SUB"}
  <2>1. << >> \in Seq(From(p)) /\ <<EmptyE>> \in Seq(From(p))
        /\ Says(<< >>) = {} /\ Says(<<EmptyE>>) = {"SUB"}
    BY <1>9, Singles, SaysOf
  <2>2. EndFrame(p) \in Seq(From(p)) /\ Says(EndFrame(p)) \subseteq {"SUB"}
    BY <2>1 DEF EndFrame
  <2> QED BY <2>2, SaysIs, ConcatProperties
<1>19. CASE TxSkipped(p) \/ TxRpos(p)
  <2>1. chan[p] # << >>
    BY <1>19 DEF TxSkipped, TxRpos, Takes
  <2>2. \E out \in Seq(From(p)) : Says(out) \subseteq Says(chan[q]) \cup {"SUB"} /\ ReadsFlushed(p, out)
    <3>1. CASE TxSkipped(p)
      <4>1. PICK out \in Flushes(p, chan[q] \o EndFrame(p)) : ReadsFlushed(p, out)
        BY <3>1 DEF TxSkipped, q
      <4> QED BY <1>1, <1>17, <1>18, <4>1
    <3>2. CASE TxRpos(p)
      <4>1. PICK out \in Flushes(p, chan[q]) : ReadsFlushed(p, out \o EndFrame(p))
        BY <3>2 DEF TxRpos, q
      <4>2. out \in Seq(From(p)) /\ Says(out) \subseteq Says(chan[q])
        BY <1>1, <1>17
      <4> QED BY <1>18, <4>1, <4>2
    <3> QED BY <1>19, <3>1, <3>2
  <2>3. PICK out \in Seq(From(p)) : Says(out) \subseteq Says(chan[q]) \cup {"SUB"} /\ ReadsFlushed(p, out)
    BY <2>2
  <2>4. Replaces(out)
    BY <2>3 DEF ReadsFlushed, Replaces, q
  <2> QED BY <1>3, <2>1, <2>3, <2>4
<1>20. CASE Timer(p)
  <2>1. Sends(p, <<EmptyE>>) \/ Sends(p, << >>)
    BY <1>20 DEF Timer
  <2>2. << >> \in Seq(From(p)) /\ Says(<< >>) = {}
    BY Singles, SaysOf
  <2>3. Sends(p, << >>) => Adds(<< >>)
    BY DEF Sends, Adds, q
  <2> QED BY <1>2, <1>5, <1>9, <2>1, <2>2, <2>3
<1>21. CASE Stop(p)
  <2>1. chan' = [chan EXCEPT ![p] = << >>]
    BY <1>21, StopIs DEF Ends
  <2> QED BY <1>1, <2>1 DEF Goal, q, Says
<1>22. CASE Garble(p)
  <2>1. PICK ms \in {<< >>, <<Garbled(chan[p][1])>>} : chan[p] # << >> /\ chan' = [chan EXCEPT ![p] = ms \o Tail(@)]
    BY <1>22 DEF Garble
  <2>2. Garbled(chan[p][1]) \in From(q) /\ Garbled(chan[p][1]).type # "FERR"
    <3>1. chan[p][1] \in From(q)
      BY <2>1, FirstItem DEF q
    <3>2. CASE IsSub(chan[p][1])
      BY <3>1, <3>2 DEF Garbled, IsSub, From, Subpackets, Headers, Shut
    <3>3. CASE ~IsSub(chan[p][1])
      BY <3>3, Items DEF Garbled, Headers, Hdr
    <3> QED BY <3>2, <3>3
  <2>3. ms \in Seq(From(q)) /\ "FERR" \notin Says(ms)
    <3> DEFINE g == Garbled(chan[p][1])
    <3>1. << >> \in Seq(From(q)) /\ <<g>> \in Seq(From(q)) /\ Says(<< >>) = {} /\ Says(<<g>>) = {g.type}
      BY <2>2, Singles, SaysOf
    <3>2. ms = << >> \/ ms = <<g>>
      BY <2>1
    <3> HIDE DEF g
    <3> QED BY <2>2, <3>1, <3>2 DEF g
  <2>4. Tail(chan[p]) \in Seq(From(q)) /\ Says(Tail(chan[p])) \subseteq Says(chan[p])
    BY <1>1, <2>1, SaysIs, HeadTailProperties
  <2>5. Says(ms \o Tail(chan[p])) = Says(ms) \cup Says(Tail(chan[p]))
    <3> DEFINE S == From(q)
               d == Tail(chan[p])
    <3>1. ms \in Seq(S) /\ d \in Seq(S)
      BY <2>3, <2>4
    <3> HIDE DEF S, d
    <3>2. Says(ms \o d) = Says(ms) \cup Says(d)
      BY <3>1, SaysIs
    <3> QED BY <3>2 DEF d
  <2> QED BY <1>1, <2>1, <2>3, <2>4, <2>5 DEF Goal, q
<1> QED BY <1>10, <1>11, <1>12, <1>13, <1>14, <1>15, <1>16, <1>19, <1>20, <1>21, <1>22 DEF Step, Quiet

\* Nothing left to send.
Spent(p) == queue[p] = << >> /\ z[p].cur = NoFile

\* A mailer is in the states of what it does in this half; it ends its half
\* as a sender with nothing left.
Books(p) ==
  /\ Running(p) => (Sending(p) <=> z[p].st \in TxStates)
  /\ Running(p) /\ z[p].st \in AtEnd => Spent(p)
  /\ z[p].rc = "ok" \/ (Running(p) /\ p = Caller /\ z[p].phase = 2) => Spent(p)

LEMMA QueueIs ==
  ASSUME NEW p, Step(p)
  PROVE  queue' = queue \/ (NextFile(p) /\ \E c : queue' = [queue EXCEPT ![p] = c])
<1>1. CASE Quiet(p) \/ Stop(p) \/ TxFin(p) \/ RxFin(p) \/ Garble(p) \/ NoMoreFiles(p) \/ ReadVanished(p)
  BY <1>1, QuietIs, StopIs DEF files, Ends, TxFin, RxFin, PhaseDone, Garble, NoMoreFiles, ReadVanished
<1>2. CASE TxSent(p) \/ TxSkipped(p) \/ TxRefused(p)
  BY <1>2 DEF TxSent, TxSkipped, TxRefused, Disposed
<1>3. CASE GotFile(p) \/ RecvBlock(p) \/ WriteFails(p) \/ RxEof(p) \/ CloseFails(p)
  BY <1>3 DEF GotFile, RecvBlock, WriteFails, RxEof, CloseFails
<1>4. CASE NextFile(p)
  BY <1>4 DEF NextFile
<1>5. CASE TxRpos(p) \/ SendBlock(p)
  BY <1>5 DEF TxRpos, SendBlock
<1> QED BY <1>1, <1>2, <1>3, <1>4, <1>5 DEF Step

LEMMA BooksStay ==
  ASSUME TypeOK, NEW p \in Node, Step(p), Books(p)
  PROVE  Books(p)' /\ queue'[Peer(p)] = queue[Peer(p)]
<1>1. z[p] \in Local /\ z[p].phase \in {1, 2} /\ DOMAIN queue = Node /\ Peer(p) \in Node /\ Peer(p) # p
  BY Nodes DEF TypeOK, LocalsOk, FilesOk, Local
<1>2. /\ queue'[Peer(p)] = queue[Peer(p)]
      /\ queue'[p] = queue[p] \/ (NextFile(p) /\ z[p].st = "NEXTFILE" /\ Running(p) /\ ~NoMoreFiles(p))
  <2>1. CASE queue' = queue
    BY <2>1
  <2>2. ASSUME NextFile(p), NEW c, queue' = [queue EXCEPT ![p] = c]
        PROVE  queue'[Peer(p)] = queue[Peer(p)] /\ z[p].st = "NEXTFILE" /\ Running(p) /\ ~NoMoreFiles(p)
    BY <1>1, <2>2 DEF NextFile, NoMoreFiles, At
  <2> QED BY <2>1, <2>2, QueueIs
<1>3. CASE z' = z /\ Garble(p)
  <2>1. queue' = queue
    BY <1>3 DEF Garble, files
  <2> QED BY <1>2, <1>3, <2>1 DEF Books, Running, Sending, Spent
<1>4. CASE z'[p].rc \in {"error", "crash"}
  BY <1>2, <1>4 DEF Books, Running
<1>5. CASE (TxFin(p) \/ RxFin(p)) /\ HalfEnds(p)
  <2>1. queue' = queue /\ Running(p)
    BY <1>5 DEF TxFin, RxFin, PhaseDone, Takes, At
  <2>2. CASE TxFin(p)
    <3>1. z[p].st \in AtEnd /\ Sending(p)
      BY <2>1, <2>2 DEF TxFin, Takes, At, AtEnd, Books, TxStates, TxReading
    <3> QED BY <1>5, <2>1, <3>1 DEF Books, HalfEnds, Spent, Running, Sending, TxStates, TxPending, TxReading, AtEnd
  <2>3. CASE RxFin(p)
    <3>1. z[p].st \in {"INITACK", "RPOSACK"}
      BY <2>3 DEF RxFin, Takes, At
    <3>2. ~Sending(p)
      BY <2>1, <3>1 DEF Books, TxStates, TxPending, TxReading
    <3> QED BY <1>1, <1>5, <2>1, <3>2 DEF Books, HalfEnds, Spent, Running, Sending, TxStates, TxPending, TxReading, AtEnd
  <2> QED BY <1>5, <2>2, <2>3
<1>6. CASE Keeps(p)
  <2> DEFINE sends == z[p].st \in TxStates
             ends == z[p].st \in AtEnd
  <2>1. Running(p)
    BY Apart
  <2>2. /\ Running(p)' /\ z'[p].rc # "ok" /\ z[p].rc # "ok" /\ z'[p].phase = z[p].phase
        /\ Sending(p)' <=> Sending(p)
        /\ sends' <=> sends
    BY <1>6, <2>1 DEF Keeps, Running, Sending
  <2>3. Sending(p) <=> sends
    BY <2>1 DEF Books
  <2>4. Running(p)' => (Sending(p)' <=> sends')
    BY <2>2, <2>3
  <2>5. CASE NextFile(p)
    <3>1. z[p].st = "NEXTFILE" /\ ~NoMoreFiles(p)
      BY <2>5 DEF NextFile, NoMoreFiles, At
    <3>2. z'[p].st \notin AtEnd /\ z[p].st \in TxStates
      BY <1>6, <3>1 DEF Keeps, AtEnd, TxStates, TxPending
    <3>3. ~ (p = Caller /\ z'[p].phase = 2)
      BY <2>2, <2>3, <3>2 DEF Sending
    <3> QED BY <1>2, <2>2, <2>4, <3>2, <3>3 DEF Books
  <2>6. CASE NoMoreFiles(p)
    <3>1. queue[p] = << >> /\ queue' = queue
      BY <2>6 DEF NoMoreFiles, At
    <3>2. z'[p].cur = NoFile
      BY <1>1, <2>6 DEF NoMoreFiles, Becomes, Local, TypeOK, LocalsOk
    <3>3. Spent(p)'
      BY <3>1, <3>2 DEF Spent
    <3> QED BY <1>2, <2>4, <3>3 DEF Books
  <2>7. CASE ~NextFile(p) /\ ~NoMoreFiles(p)
    <3>1. queue'[p] = queue[p] /\ z'[p].cur = z[p].cur /\ (ends' => ends)
      BY <1>2, <1>6, <2>7 DEF Keeps
    <3>2. Spent(p)' <=> Spent(p)
      BY <3>1 DEF Spent
    <3>3. Running(p)' /\ ends' => Spent(p)'
      BY <2>1, <3>1, <3>2 DEF Books
    <3>4. z'[p].rc = "ok" \/ (Running(p)' /\ p = Caller /\ z'[p].phase = 2) => Spent(p)'
      BY <2>1, <2>2, <3>2 DEF Books
    <3> QED BY <1>2, <2>4, <3>3, <3>4 DEF Books
  <2> QED BY <2>5, <2>6, <2>7
<1>7. Books(p)'
  BY <1>3, <1>4, <1>5, <1>6, Turns
<1> QED BY <1>2, <1>7

-----------------------------------------------------------------------------
(* Who was turned away                                                      *)

\* What the receiver thinks of a file changes only here.
Judges(p) == GotFile(p) \/ WriteFails(p) \/ RxEof(p) \/ CloseFails(p)

LEMMA StatusIs ==
  ASSUME TypeOK, NEW p \in Node, Step(p)
  PROVE  /\ \A f \in Mine(p) : rcv'[f].status = rcv[f].status
         /\ ~Judges(p) => \A f \in File : rcv'[f].status = rcv[f].status
<1>1. /\ rcv \in [File -> Rinfo] /\ Mine(p) \subseteq File /\ Mine(p) \cap Mine(Peer(p)) = {}
      /\ z[p].recv \in Mine(Peer(p)) \cup {NoFile} /\ NoFile \notin Mine(p) /\ Mine(Peer(p)) \subseteq File
      /\ NoFile \notin File
  BY LocalFacts, MineIs, Nodes, Constants DEF TypeOK, FilesOk
<1>2. CASE rcv' = rcv
  BY <1>2
<1>3. CASE \/ Quiet(p) \/ Garble(p) \/ NextFile(p) \/ NoMoreFiles(p) \/ SendBlock(p) \/ ReadVanished(p)
           \/ TxSent(p) \/ TxSkipped(p) \/ TxRefused(p) \/ TxRpos(p)
  BY <1>2, <1>3, QuietIs DEF files, Garble, NextFile, NoMoreFiles, SendBlock, ReadVanished, TxSent, TxSkipped,
          TxRefused, TxRpos, Disposed
<1>4. CASE Stop(p) \/ TxFin(p) \/ RxFin(p)
  <2>1. rcv' = IF z[p].recv = NoFile THEN rcv ELSE [rcv EXCEPT ![z[p].recv].open = FALSE]
    BY <1>4, StopIs DEF TxFin, RxFin, PhaseDone, Ends
  <2> QED BY <1>1, <2>1 DEF Rinfo
<1>5. CASE RecvBlock(p)
  <2>1. \E b, g : rcv' = [rcv EXCEPT ![z[p].recv].bytes = b, ![z[p].recv].good = g]
    BY <1>5 DEF RecvBlock
  <2> QED BY <1>1, <2>1 DEF Rinfo
<1>6. CASE WriteFails(p) \/ RxEof(p) \/ CloseFails(p)
  <2>1. \E r : rcv' = [rcv EXCEPT ![z[p].recv] = r]
    <3>1. z[p].recv \in File
      BY <1>1, <1>6, LocalFacts DEF WriteFails, RxEof, CloseFails, GoodBlock, ReadsData, Takes, At, RecvStates
    <3>2. CASE WriteFails(p)
      <4>1. PICK status : rcv' = [rcv EXCEPT ![z[p].recv].status = status]
        BY <3>2 DEF WriteFails
      <4> QED BY <4>1
    <3>3. CASE RxEof(p) \/ CloseFails(p)
      <4>1. PICK status : rcv' = [rcv EXCEPT ![z[p].recv].status = status, ![z[p].recv].open = FALSE]
        BY <3>3 DEF RxEof, CloseFails
      <4> QED BY <1>1, <3>1, <4>1
    <3> QED BY <1>6, <3>2, <3>3
  <2> QED BY <1>1, <1>6, <2>1 DEF Judges
<1>7. CASE GotFile(p)
  <2> DEFINE shut == IF z[p].recv = NoFile THEN rcv ELSE [rcv EXCEPT ![z[p].recv].open = FALSE]
  <2>1. /\ chan[p][1].file \in Mine(Peer(p))
        /\ \E r : rcv' = [shut EXCEPT ![chan[p][1].file] = Offered(chan[p][1].file, r)]
    BY <1>7, Offers
  <2>2. \A f \in Mine(p) : f # chan[p][1].file /\ f # z[p].recv
    BY <1>1, <2>1
  <2> QED BY <1>1, <1>7, <2>1, <2>2 DEF Judges
<1> QED BY <1>3, <1>4, <1>5, <1>6, <1>7 DEF Step

\* A sender takes a file for refused when it reads ZFERR.
LEMMA RefusedIs ==
  ASSUME TypeOK, NEW p \in Node, Step(p), NEW f \in File, snd'[f].status = "refused"
  PROVE  snd[f].status = "refused" \/ (TxRefused(p) /\ f = z[p].cur)
<1>1. snd \in [File -> Sinfo]
  BY DEF TypeOK, FilesOk
<1>2. CASE snd' = snd
  BY <1>2
<1>3. CASE \/ Quiet(p) \/ Stop(p) \/ TxFin(p) \/ RxFin(p) \/ Garble(p) \/ NoMoreFiles(p)
           \/ GotFile(p) \/ RecvBlock(p) \/ WriteFails(p) \/ RxEof(p) \/ CloseFails(p)
  BY <1>2, <1>3, QuietIs, StopIs DEF files, Ends, TxFin, RxFin, PhaseDone, Garble, NoMoreFiles,
          GotFile, RecvBlock, WriteFails, RxEof, CloseFails
<1>4. CASE NextFile(p)
  <2>1. snd' = [snd EXCEPT ![Head(queue[p])].status = "process"]
    BY <1>4 DEF NextFile
  <2> QED BY <1>1, <2>1 DEF Sinfo
<1>7. CASE TxSent(p) \/ TxSkipped(p)
  <2>1. PICK status \in {"success", "skipped"} : snd' = [snd EXCEPT ![z[p].cur].status = status]
    BY <1>7 DEF TxSent, TxSkipped, Disposed
  <2> QED BY <1>1, <2>1 DEF Sinfo
<1>8. CASE TxRefused(p)
  <2>1. snd' = [snd EXCEPT ![z[p].cur].status = "refused"]
    BY <1>8 DEF TxRefused, Disposed
  <2> QED BY <1>1, <1>8, <2>1 DEF Sinfo
<1>5. CASE ReadVanished(p)
  <2>1. snd' = [snd EXCEPT ![z[p].cur].status = "skipped", ![z[p].cur].there = FALSE]
    BY <1>5 DEF ReadVanished
  <2> QED BY <1>1, <2>1 DEF Sinfo
<1>6. CASE SendBlock(p) \/ TxRpos(p)
  <2>1. \E pos, eof : snd' = [snd EXCEPT ![z[p].cur].pos = pos, ![z[p].cur].eof = eof]
    <3>1. CASE SendBlock(p)
      BY <3>1, BlockSent, ZenonT(30)
    <3>2. CASE TxRpos(p)
      BY <3>2 DEF TxRpos
    <3> QED BY <1>6, <3>1, <3>2
  <2>2. PICK pos, eof : snd' = [snd EXCEPT ![z[p].cur].pos = pos, ![z[p].cur].eof = eof]
    BY <2>1
  <2> QED BY <1>1, <2>2 DEF Sinfo
<1> QED BY <1>3, <1>4, <1>5, <1>6, <1>7, <1>8 DEF Step

\* Nothing of the batch of p is wanted now.
TurnedAway(p) == \A f \in Mine(p) : rcv[f].status = "refused"

\* The receiver is done with the only file of the other side: it sends itself, or waits
\* for a header with the file still in its hand.
Done(q, f) ==
  \/ q # Caller /\ z[q].phase = 2
  \/ ~Sending(q) /\ z[q].recv = f /\ z[q].st \notin RecvStates

\* p takes a file for refused, or may come to it, when the receiver has refused it.
Away(p) ==
  /\ "FERR" \in Says(chan[p]) => TurnedAway(p)
  /\ z[Peer(p)].init = "FERR" => TurnedAway(p)
  /\ \A f \in Mine(p) :
       /\ snd[f].status = "refused" => rcv[f].status = "refused"
       /\ Running(Peer(p)) /\ rcv[f].status = "refused" => Done(Peer(p), f)

\* What is sent is somebody's.
NoStranger == \A f \in File : snd[f].status = "refused" => \E p \in Node : f \in Mine(p)

LEMMA Receives ==
  ASSUME TypeOK, NEW p \in Node, Books(p), Judges(p)
  PROVE  /\ Running(p) /\ ~Sending(p) /\ ~ (p # Caller /\ z[p].phase = 2)
         /\ (z[p].st = "FILEDATA" /\ GotFile(p)) \/ (z[p].st \in RecvStates /\ ~GotFile(p))
<1>1. /\ Running(p)
      /\ (z[p].st = "FILEDATA" /\ GotFile(p)) \/ (z[p].st \in RecvStates /\ ~GotFile(p))
  BY DEF Judges, GotFile, WriteFails, RxEof, CloseFails, GoodBlock, ReadsData, Takes, At, RecvStates
<1>2. z[p].st \notin TxStates
  BY <1>1 DEF RecvStates, TxStates, TxPending, TxReading
<1>3. ~Sending(p)
  BY <1>1, <1>2 DEF Books
<1>4. ~ (p # Caller /\ z[p].phase = 2)
  BY <1>3 DEF Sending
<1> QED BY <1>1, <1>3, <1>4

\* A verdict: p says "ZFERR" about a file when it refuses it, and holds it no more.
LEMMA Judgement ==
  ASSUME TypeOK, NEW p \in Node, Judges(p)
  PROVE  \E f \in Mine(Peer(p)) :
           /\ z'[p].recv = f
           /\ ~GotFile(p) => z[p].recv = f
           /\ z'[p].init = "FERR" => z[p].init = "FERR" \/ rcv'[f].status = "refused"
           /\ rcv'[f].status = "refused" => z'[p].st \notin RecvStates
           /\ GotFile(p) /\ z[p].recv = f /\ rcv[f].status = "refused" => rcv'[f].status = "refused"
<1>1. /\ z[p] \in Local /\ z \in [Node -> Local] /\ rcv \in [File -> Rinfo] /\ Mine(Peer(p)) \subseteq File
      /\ NoFile \notin Mine(Peer(p)) /\ z[p].recv \in Mine(Peer(p)) \cup {NoFile} /\ NoFile \notin File
      /\ sess \in Sessions
  BY LocalFacts, MineIs, Nodes, Constants DEF TypeOK, LocalsOk, FilesOk
<1>2. CASE GotFile(p)
  <2> DEFINE f == chan[p][1].file
             q == [z[p] EXCEPT !.recv = f]
             shut == IF z[p].recv = NoFile THEN rcv ELSE [rcv EXCEPT ![z[p].recv].open = FALSE]
  <2>1. f \in Mine(Peer(p)) /\ z'[p].recv = f
    BY <1>2, Offers
  <2>2. PICK r \in FopenResults(p, f) :
          /\ rcv' = [shut EXCEPT ![f] = Offered(f, r)]
          /\ Becomes(p, CASE r = 0 -> Repositions(q) [] r = 1 -> Refusing(q) [] r = 2 -> Skipping(q))
    BY <1>2 DEF GotFile
  <2>3. r \in {0, 1, 2}
    BY <2>2 DEF FopenResults
  <2>4. z[p].recv = f /\ rcv[f].status = "refused" => r = 1
    BY <2>2 DEF FopenResults
  <2>5. q \in Local /\ q.init = z[p].init
    <3> HIDE DEF f
    <3> QED BY <1>1, <2>1 DEF Local
  <2>6. rcv'[f].status = CASE r = 0 -> "process" [] r = 1 -> "refused" [] r = 2 -> "skipped"
    <3> DEFINE status == CASE r = 0 -> "process" [] r = 1 -> "refused" [] r = 2 -> "skipped"
               bytes == IF r = 2 THEN SkipTo(f) ELSE rcv[f].bytes
    <3>1. Offered(f, r) = [rcv[f] EXCEPT !.open = (r = 0), !.status = status, !.bytes = bytes]
      BY DEF Offered
    <3>2. rcv[f] \in Rinfo /\ f \in DOMAIN shut
      BY <1>1, <2>1
    <3> HIDE DEF status, bytes, f, shut
    <3>3. rcv'[f] = Offered(f, r)
      BY <2>2, <3>2
    <3>4. rcv'[f].status = status
      BY <3>1, <3>2, <3>3 DEF Rinfo
    <3> QED BY <3>4 DEF status
  <2> HIDE DEF f, q, shut
  <2>7. CASE r = 1
    <3>1. Becomes(p, Refusing(q)) /\ Refusing(q) \in Local /\ Refusing(q).st = "INIT"
      BY <2>2, <2>5, <2>7, Verdicts
    <3>2. z'[p].st = "INIT"
      BY <3>1, Takeover
    <3> QED BY <1>2, <2>1, <2>6, <2>7, <3>2 DEF RecvStates
  <2>8. CASE r # 1
    <3>1. PICK t \in {Repositions(q), Skipping(q)} : Becomes(p, t)
      BY <2>2, <2>3, <2>8
    <3>2. t \in Local /\ t.init \in {q.init, "SKIP"}
      <4>1. t \in Local
        BY <2>5, <3>1, Verdicts
      <4>2. t.init \in {q.init, "SKIP"}
        BY <2>5, <3>1 DEF Repositions, Skipping, Local
      <4> QED BY <4>1, <4>2
    <3>3. z'[p].init = t.init
      BY <3>1, <3>2, Takeover
    <3>4. rcv'[f].status # "refused"
      BY <2>3, <2>6, <2>8
    <3> QED BY <1>2, <2>1, <2>4, <2>5, <2>8, <3>2, <3>3, <3>4
  <2> QED BY <2>7, <2>8
<1>3. CASE ~GotFile(p)
  <2> DEFINE f == z[p].recv
  <2>1. f \in Mine(Peer(p)) /\ f \in File
    BY <1>1, <1>3, LocalFacts DEF Judges, WriteFails, RxEof, CloseFails, GoodBlock, ReadsData, Takes, At, RecvStates
  <2>2. CASE RxEof(p)
    <3>1. rcv' = [rcv EXCEPT ![f].status = "success", ![f].open = FALSE]
      BY <2>2 DEF RxEof
    <3>2. Becomes(p, [z[p] EXCEPT !.tries = 0, !.init = "RINIT", !.st = "INIT"])
      BY <2>2 DEF RxEof
    <3>3. z'[p].recv = f /\ z'[p].init = "RINIT"
      BY <1>1, <3>2 DEF Becomes, Local
    <3> HIDE DEF f
    <3>4. rcv'[f].status = "success"
      BY <1>1, <2>1, <3>1 DEF Rinfo
    <3> QED BY <1>3, <2>1, <3>3, <3>4 DEF f
  <2>3. CASE \/ CloseFails(p)
            \/ /\ WriteFails(p) /\ rcv' = [rcv EXCEPT ![f].status = "refused"]
               /\ Moves(p, Refusing(z[p]))
    <3>1. \/ rcv' = [rcv EXCEPT ![f].status = "refused", ![f].open = FALSE]
          \/ rcv' = [rcv EXCEPT ![f].status = "refused"]
      BY <2>3 DEF CloseFails
    <3>2. Becomes(p, Refusing(z[p])) \/ Moves(p, Refusing(z[p]))
      BY <2>3 DEF CloseFails
    <3>3. z'[p].recv = f /\ z'[p].st = "INIT"
      BY <1>1, <3>2, Verdicts, Takeover
    <3> HIDE DEF f
    <3>4. rcv'[f].status = "refused"
      BY <1>1, <2>1, <3>1 DEF Rinfo
    <3> QED BY <1>3, <2>1, <3>3, <3>4 DEF f, RecvStates
  <2>4. CASE /\ WriteFails(p) /\ rcv' = [rcv EXCEPT ![f].status = "skipped"]
             /\ Moves(p, Skipping(z[p]))
    <3>1. Skipping(z[p]) \in Local /\ Skipping(z[p]).recv = f /\ Skipping(z[p]).init \in {z[p].init, "SKIP"}
      <4>1. Skipping(z[p]) \in Local /\ Skipping(z[p]).recv = f
        BY <1>1, Verdicts
      <4>2. Skipping(z[p]).init \in {z[p].init, "SKIP"}
        BY <1>1 DEF Skipping, Local
      <4> QED BY <4>1, <4>2
    <3>2. z'[p].recv = f /\ z'[p].init \in {z[p].init, "SKIP"}
      BY <2>4, <3>1, Takeover
    <3> HIDE DEF f
    <3>3. rcv'[f].status = "skipped"
      BY <1>1, <2>1, <2>4 DEF Rinfo
    <3> QED BY <1>3, <2>1, <3>2, <3>3 DEF f
  <2>5. WriteFails(p) => \/ (rcv' = [rcv EXCEPT ![f].status = "refused"] /\ Moves(p, Refusing(z[p])))
                         \/ (rcv' = [rcv EXCEPT ![f].status = "skipped"] /\ Moves(p, Skipping(z[p])))
    BY DEF WriteFails
  <2> QED BY <1>3, <2>2, <2>3, <2>4, <2>5 DEF Judges
<1> QED BY <1>2, <1>3

\* What was refused stays refused, in a batch of one file.
LEMMA RefusedForGood ==
  ASSUME TypeOK, Lone, NEW p \in Node, Step(p), Books(p), Away(Peer(p)),
         NEW f \in Mine(Peer(p)), rcv[f].status = "refused"
  PROVE  rcv'[f].status = "refused"
<1>1. Peer(p) \in Node /\ Peer(Peer(p)) = p /\ sess \in Sessions /\ Mine(Peer(p)) \subseteq File
  BY Nodes, MineIs DEF TypeOK
<1>2. CASE ~Judges(p)
  BY <1>1, <1>2, StatusIs
<1>3. CASE Judges(p)
  <2>1. /\ Running(p) /\ ~ (p # Caller /\ z[p].phase = 2)
        /\ (z[p].st = "FILEDATA" /\ GotFile(p)) \/ (z[p].st \in RecvStates /\ ~GotFile(p))
    BY <1>3, Receives
  <2>2. Done(p, f)
    BY <1>1, <2>1 DEF Away
  <2>3. z[p].recv = f /\ GotFile(p)
    BY <2>1, <2>2 DEF Done
  <2>4. PICK g \in Mine(Peer(p)) :
          GotFile(p) /\ z[p].recv = g /\ rcv[g].status = "refused" => rcv'[g].status = "refused"
    BY <1>3, Judgement
  <2>5. g = f
    BY <1>1, OnlyOne
  <2> QED BY <2>3, <2>4, <2>5
<1> QED BY <1>2, <1>3

LEMMA SenderAway ==
  ASSUME TypeOK, NEW p \in Node, Step(p), Away(p)
  PROVE  Away(p)'
<1>1. /\ sess' = sess /\ z'[Peer(p)] = z[Peer(p)] /\ Mine(p)' = Mine(p) /\ Peer(p) \in Node
      /\ sess \in Sessions /\ Mine(p) \subseteq File
  BY Apart, Nodes, MineIs DEF Unheard, Mine, TypeOK
<1>2. \A f \in Mine(p) : rcv'[f].status = rcv[f].status
  BY StatusIs
<1>3. TurnedAway(p)' <=> TurnedAway(p)
  BY <1>1, <1>2 DEF TurnedAway
<1>4. "FERR" \in Says(chan[p])' => "FERR" \in Says(chan[p])
  BY FerrSaid
<1>5. ASSUME NEW f \in Mine(p), snd'[f].status = "refused" PROVE rcv'[f].status = "refused"
  <2>1. CASE snd[f].status = "refused"
    BY <1>2, <2>1 DEF Away
  <2>2. CASE TxRefused(p)
    <3>1. chan[p] # << >> /\ chan[p][1].type = "FERR" /\ chan[p] \in Seq(From(Peer(p)))
      BY <2>2 DEF TxRefused, Takes, TypeOK, LinesOk
    <3>2. 1 \in DOMAIN chan[p]
      BY <3>1, LenProperties, EmptySeq
    <3>3. "FERR" \in Says(chan[p])
      BY <3>1, <3>2 DEF Says
    <3> QED BY <1>2, <3>3 DEF Away, TurnedAway
  <2> QED BY <1>1, <1>5, <2>1, <2>2, RefusedIs
<1>6. ASSUME NEW f \in Mine(p), Running(Peer(p))', rcv'[f].status = "refused" PROVE Done(Peer(p), f)'
  <2>1. Running(Peer(p)) /\ rcv[f].status = "refused"
    BY <1>1, <1>2, <1>6 DEF Running
  <2>2. Done(Peer(p), f)
    BY <2>1 DEF Away
  <2> QED BY <1>1, <2>2 DEF Done, Sending, RecvStates
<1> QED BY <1>1, <1>3, <1>4, <1>5, <1>6 DEF Away

LEMMA ReceiverAway ==
  ASSUME TypeOK, Lone, NEW p \in Node, Step(p), Books(p), Away(Peer(p))
  PROVE  Away(Peer(p))'
<1> DEFINE s == Peer(p)
<1>1. /\ sess' = sess /\ Mine(s)' = Mine(s) /\ s \in Node /\ Peer(s) = p /\ Running(p)
      /\ sess \in Sessions /\ Mine(s) \subseteq File /\ Mine(p) \cap Mine(s) = {} /\ NoFile \notin Mine(s)
      /\ z[p].cur \in Mine(p) \cup {NoFile} /\ z[p] \in Local
  <2>1. sess' = sess /\ Running(p) /\ sess \in Sessions
    BY Apart DEF TypeOK
  <2>2. s \in Node /\ Peer(s) = p
    BY Nodes
  <2>3. Mine(s) \subseteq File /\ Mine(p) \cap Mine(s) = {} /\ NoFile \notin Mine(s)
    BY <2>1, <2>2, MineIs
  <2>4. z[p].cur \in Mine(p) \cup {NoFile} /\ z[p] \in Local
    BY LocalFacts
  <2>5. Mine(s)' = Mine(s)
    BY <2>1 DEF Mine
  <2> QED BY <2>1, <2>2, <2>3, <2>4, <2>5
<1>2. \A f \in Mine(s) : rcv[f].status = "refused" => rcv'[f].status = "refused"
  BY RefusedForGood
<1>3. TurnedAway(s) => TurnedAway(s)'
  BY <1>1, <1>2 DEF TurnedAway
<1>4. "FERR" \in Says(chan[s])' => TurnedAway(s)'
  <2>1. "FERR" \in Says(chan[s])' => "FERR" \in Says(chan[s]) \/ z[p].init = "FERR"
    BY FerrSaid
  <2> QED BY <1>1, <1>3, <2>1 DEF Away
<1>5. ASSUME Judges(p), NEW g \in Mine(s), rcv'[g].status = "refused" PROVE TurnedAway(s)'
  BY <1>1, <1>5, OnlyOne DEF TurnedAway
<1>6. z'[p].init = "FERR" => TurnedAway(s)'
  <2>1. CASE z[p].init = "FERR"
    BY <1>1, <1>3, <2>1 DEF Away
  <2>2. CASE Judges(p)
    BY <1>5, <2>1, <2>2, Judgement
  <2>3. CASE ~Judges(p) /\ z[p].init # "FERR"
    BY <2>3, Turns DEF Keeps, HalfEnds, Judges
  <2> QED BY <2>1, <2>2, <2>3
<1>7. ASSUME NEW f \in Mine(s), snd'[f].status = "refused" PROVE rcv'[f].status = "refused"
  <2>1. snd[f].status = "refused"
    BY <1>1, <1>7, RefusedIs
  <2> QED BY <1>1, <1>2, <2>1 DEF Away
<1>8. ASSUME NEW f \in Mine(s), Running(p)', rcv'[f].status = "refused" PROVE Done(p, f)'
  <2>1. \/ Garble(p) /\ z' = z
        \/ (TxFin(p) \/ RxFin(p)) /\ HalfEnds(p) /\ z[p].phase = 1 /\ z'[p].phase = 2
        \/ Keeps(p) /\ ~TxFin(p) /\ ~RxFin(p)
    BY <1>8, Turns DEF Running, HalfEnds
  <2>2. CASE rcv[f].status = "refused" /\ ~Judges(p)
    <3>1. Done(p, f)
      BY <1>1, <2>2 DEF Away
    <3>2. CASE Garble(p) /\ z' = z
      BY <3>1, <3>2 DEF Done, Sending, RecvStates
    <3>3. CASE HalfEnds(p) /\ z[p].phase = 1 /\ z'[p].phase = 2
      <4>1. p # Caller
        BY <3>1, <3>3 DEF Done, Sending
      <4> QED BY <3>3, <4>1 DEF Done
    <3>4. CASE Keeps(p)
      <4>1. /\ z'[p].phase = z[p].phase /\ z'[p].recv = z[p].recv
            /\ z'[p].st \in RecvStates => z[p].st \in RecvStates
        BY <2>2, <3>4 DEF Keeps, Judges
      <4> QED BY <3>1, <4>1 DEF Done, Sending, RecvStates
    <3> QED BY <2>1, <3>2, <3>3, <3>4
  <2>3. CASE Judges(p)
    <3>1. /\ ~Sending(p) /\ (z[p].st = "FILEDATA" \/ z[p].st \in RecvStates)
      BY <2>3, Receives
    <3>2. PICK g \in Mine(s) : z'[p].recv = g /\ (rcv'[g].status = "refused" => z'[p].st \notin RecvStates)
      BY <2>3, Judgement
    <3>3. g = f
      BY <1>1, OnlyOne
    <3>4. z'[p].phase = z[p].phase
      <4>1. ~Garble(p) \/ z' = z
        BY DEF Garble
      <4>2. ~TxFin(p) /\ ~RxFin(p)
        BY <2>3, <3>1 DEF Judges, TxFin, RxFin, GotFile, WriteFails, RxEof, CloseFails, GoodBlock, ReadsData,
                          Takes, At
      <4> QED BY <2>1, <4>1, <4>2 DEF Keeps
    <3>5. ~Sending(p)'
      BY <3>1, <3>4 DEF Sending
    <3>6. z'[p].recv = f /\ z'[p].st \notin RecvStates
      BY <1>8, <3>2, <3>3
    <3> QED BY <3>5, <3>6 DEF Done, RecvStates
  <2>4. CASE rcv[f].status # "refused" /\ ~Judges(p)
    BY <1>1, <1>8, <2>4, StatusIs
  <2> QED BY <2>2, <2>3, <2>4
<1> QED BY <1>1, <1>4, <1>6, <1>7, <1>8 DEF Away

\* What either mailer has in hand.
AllBooks == \A p \in Node : Books(p)

LEMMA BooksBegin == Init => AllBooks
<1> SUFFICES ASSUME Init, NEW p \in Node PROVE Books(p)
  BY DEF AllBooks
<1>1. z[p] = Started(p, 1)
  BY DEF Init
<1>2. /\ Started(p, 1).phase = 1 /\ Started(p, 1).rc = "run"
      /\ Started(p, 1).st = IF p = Caller THEN "RQINIT" ELSE "INIT"
  BY DEF Started, Fresh
<1> QED BY <1>1, <1>2 DEF Books, Running, Sending, TxStates, TxPending, TxReading, AtEnd

LEMMA BooksKept == ZInv /\ AllBooks /\ [Next]_vars => AllBooks'
<1> SUFFICES ASSUME ZInv, AllBooks, [Next]_vars PROVE AllBooks'
  OBVIOUS
<1>1. CASE UNCHANGED vars
  BY <1>1 DEF AllBooks, Books, Spent, Running, Sending, TxStates, TxPending, TxReading, AtEnd, vars, files
<1>2. CASE ~UNCHANGED vars
  <2>1. PICK p \in Node : Step(p)
    BY <1>2, Steps
  <2>2. Books(p)' /\ queue'[Peer(p)] = queue[Peer(p)] /\ z'[Peer(p)] = z[Peer(p)] /\ Books(Peer(p))
    BY <2>1, BooksStay, Apart, Nodes DEF ZInv, AllBooks, Unheard
  <2>3. Books(Peer(p))'
    BY <2>2 DEF Books, Spent, Running, Sending, TxStates, TxPending, TxReading, AtEnd
  <2> QED BY <2>2, <2>3, Nodes DEF AllBooks
<1> QED BY <1>1, <1>2

\* A session that ends well has gone through both batches: no mailer takes the other's
\* ZFIN for the end while it has a file open or queued, although ZFIN may be repeated,
\* garbled or late and the caller counts those it does not believe (prot_zmrecv.c,
\* "case ZFIN").
THEOREM NothingQueued ==
  Spec => []((\A p \in Node : z[p].rc = "ok") => \A p \in Node : queue[p] = <<>> /\ z[p].cur = NoFile)
<1>1. AllBooks => ((\A p \in Node : z[p].rc = "ok") => \A p \in Node : queue[p] = <<>> /\ z[p].cur = NoFile)
  BY DEF AllBooks, Books, Spent
<1> QED BY <1>1, BooksBegin, BooksKept, Invariance, PTL DEF Spec

AllAway == NoStranger /\ \A p \in Node : Away(p)

\* With at most one file on either side, a file that is left for another time after a
\* good end is one that the receiver refused: a ZFERR is about the file that the sender
\* has open, however often ZFILE, ZFERR and their answers are garbled, repeated or late
\* (prot_zmsend.c, "case ZFERR").
THEOREM LoneFileSettled ==
  ASSUME \A s \in Sessions : \A p \in Node : Len(s.queue[p]) <= 1
  PROVE  Spec => []EndedSettled
<1>1. Init => AllAway
  <2> SUFFICES ASSUME Init PROVE AllAway
    OBVIOUS
  <2>1. /\ \A f \in File : snd[f].status = "none" /\ rcv[f].status = "none"
        /\ \A p \in Node : chan[p] = << >> /\ z[p] = Started(p, 1)
        /\ sess \in Sessions
    BY DEF Init
  <2>2. ASSUME NEW p \in Node PROVE Away(p)
    <3>1. Peer(p) \in Node /\ Mine(p) \subseteq File
      BY <2>1, Nodes, MineIs
    <3>2. Started(Peer(p), 1).init = "RINIT"
      BY DEF Started, Fresh
    <3> QED BY <2>1, <3>1, <3>2, SaysOf DEF Away
  <2> QED BY <2>1, <2>2 DEF AllAway, NoStranger
<1>2. ZInv /\ AllBooks /\ AllAway /\ [Next]_vars => AllAway'
  <2> SUFFICES ASSUME ZInv, AllBooks, AllAway, [Next]_vars PROVE AllAway'
    OBVIOUS
  <2>1. CASE UNCHANGED vars
    <3>1. \A p \in Node : Mine(p)' = Mine(p)
      BY <2>1 DEF vars, Mine
    <3>2. \A p \in Node : Away(p)'
      BY <2>1, <3>1 DEF AllAway, Away, TurnedAway, Done, Says, Running, Sending, RecvStates, vars, files
    <3> QED BY <2>1, <3>1, <3>2 DEF AllAway, NoStranger, vars, files
  <2>2. CASE ~UNCHANGED vars
    <3>1. PICK p \in Node : Step(p)
      BY <2>2, Steps
    <3>2. TypeOK /\ Lone /\ Books(p) /\ Away(p) /\ Away(Peer(p)) /\ sess' = sess /\ sess \in Sessions
          /\ \A s \in Node : Mine(s)' = Mine(s)
      BY <3>1, Nodes, Apart DEF ZInv, TypeOK, Lone, AllBooks, AllAway, Mine
    <3>3. Away(p)' /\ Away(Peer(p))'
      BY <3>1, <3>2, SenderAway, ReceiverAway
    <3>4. NoStranger'
      <4>1. ASSUME NEW f \in File, snd'[f].status = "refused" PROVE \E s \in Node : f \in Mine(s)
        <5>1. CASE snd[f].status = "refused"
          BY <5>1 DEF AllAway, NoStranger
        <5>2. CASE TxRefused(p) /\ f = z[p].cur
          <6>1. z[p].cur \in Mine(p) \cup {NoFile} /\ f # NoFile
            BY <3>2, LocalFacts, Constants
          <6> QED BY <5>2, <6>1
        <5> QED BY <3>1, <3>2, <4>1, <5>1, <5>2, RefusedIs
      <4> QED BY <3>2, <4>1 DEF NoStranger
    <3> QED BY <3>3, <3>4, Nodes DEF AllAway
  <2> QED BY <2>1, <2>2
<1>3. AllBooks /\ AllAway => EndedSettled
  <2> SUFFICES ASSUME AllBooks, AllAway, \A p \in Node : z[p].rc = "ok"
               PROVE  /\ \A p \in Node : queue[p] = <<>> /\ z[p].cur = NoFile
                      /\ \A f \in File : snd[f].status = "refused" => rcv[f].status = "refused"
    BY DEF EndedSettled
  <2>1. \A p \in Node : queue[p] = <<>> /\ z[p].cur = NoFile
    BY DEF AllBooks, Books, Spent
  <2>2. \A f \in File : snd[f].status = "refused" => rcv[f].status = "refused"
    BY DEF AllAway, NoStranger, Away
  <2> QED BY <2>1, <2>2
<1> QED BY <1>1, <1>2, <1>3, BooksBegin, BooksKept, Invariance, PTL DEF Spec
=============================================================================

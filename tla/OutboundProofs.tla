--------------------------- MODULE OutboundProofs ---------------------------
(***************************************************************************)
(* Proofs about Outbound: nothing that was asked for is forgotten, the     *)
(* most urgent file is the next one, and temporary files do not stay.      *)
(***************************************************************************)
EXTENDS Outbound, Inductions, SequenceTheorems

-----------------------------------------------------------------------------
(* Types                                                                    *)

Entry == [file : File, flo : Flo \cup {NoFlo}, act : Action, status : {"willsend", "skip", "sending"}]
FloLine == [file : File, act : Action, sent : BOOLEAN]
JobToDo == [file : File, act : Action, flo : Flo \cup {NoFlo}]

\* In a session, and within the transfer of a file.
InSession == {"send", "xfer", "mark", "dispose", "clean", "flo", "unlink", "unlock"}
OnFile == {"xfer", "mark", "dispose"}

MailerState ==
  [pc : {"idle", "call"} \cup InSession, methods : Seq({"binkp", "emsi"}), busy : BOOLEAN, opts : SUBSET Hold,
   queue : Seq(Entry), flotab : Seq(Flo), answers : Seq(Entry), reqsonly : BOOLEAN, cur : Int, ok : BOOLEAN,
   reqs : SUBSET File, i : Nat]

MailerOk ==
  /\ m \in MailerState
  /\ m.pc \in OnFile => IF m.cur > 0 THEN m.cur \in DOMAIN m.queue ELSE -m.cur \in DOMAIN m.answers
  /\ At("flo") => m.i > 0
  /\ At("unlink") => m.i \in DOMAIN m.flotab

TossOk ==
  /\ toss \in [pc : {"idle", "file", "line", "end"}, jobs : Seq(JobToDo)]
  /\ toss.pc \in {"file", "line"} => toss.jobs # << >>

DiskOk ==
  /\ disk \in [File -> {"none", "full", "empty"}]
  /\ flo \in [Flo -> [there : BOOLEAN, lines : Seq(FloLine)]]

TypeOK ==
  /\ start \in Starts /\ MailerOk /\ TossOk /\ DiskOk
  /\ lock \in {"free", "mailer", "tosser", "stale"}
  /\ got \in [File -> Nat] /\ settled \in SUBSET File
  /\ used \in [bad : Nat, crashes : Nat]

-----------------------------------------------------------------------------
(* The operators of the queue                                               *)

LEMMA Constants ==
  /\ NoFlo \notin Flo
  /\ \A f \in File : Type[f] \in {"netmail", "arcmail", "other", "request"}
  /\ \A x \in File \cup Flo : Flavor[x] \in 0..16
  /\ \A s \in Starts : s \in Start /\ s.methods # << >> /\ ToSet(s.order) = File \cup Flo
                      /\ IsInjective(s.order)
BY OutboundAssumption

LEMMA FirstIs ==
  ASSUME NEW S, S \subseteq Nat \ {0}
  PROVE  IF S = {} THEN First(S) = 0 ELSE First(S) \in S
<1>1. CASE S # {}
  <2>1. \E k \in S : \A j \in S : k <= j
    BY <1>1, LeastNat
  <2> QED BY <1>1, <2>1 DEF First
<1> QED BY <1>1 DEF First

\* The elements are collected one by one.
LEMMA ThoseSteps ==
  ASSUME NEW D, NEW s \in Seq(D), NEW S
  PROVE  LET E == {s[k] : k \in S \cap DOMAIN s} IN
         \E f \in [0..Len(s) -> Seq(E)] :
            /\ f[0] = << >> /\ Those(s, S) = f[Len(s)]
            /\ \A k \in 1..Len(s) : f[k] = IF k \in S THEN Append(f[k - 1], s[k]) ELSE f[k - 1]
<1> DEFINE n == Len(s)
           E == {s[k] : k \in S \cap DOMAIN s}
           step == [k \in 1..n |-> [d \in Seq(E) |-> IF k \in S THEN Append(d, s[k]) ELSE d]]
           Is(f) == f = [k \in 0..n |-> IF k = 0 THEN << >>
                                        ELSE IF k \in S THEN Append(f[k - 1], s[k]) ELSE f[k - 1]]
<1>1. n \in Nat /\ DOMAIN s = 1..n
  BY LenProperties
<1>2. \A k \in 1..n, d \in Seq(E) : step[k][d] = (IF k \in S THEN Append(d, s[k]) ELSE d)
  OBVIOUS
<1>3. \A k \in 1..n, d \in Seq(E) : (IF k \in S THEN Append(d, s[k]) ELSE d) \in Seq(E)
  <2> TAKE k \in 1..n, d \in Seq(E)
  <2>1. k \in S => s[k] \in E
    BY <1>1
  <2> HIDE DEF E
  <2> QED BY <2>1, AppendProperties
<1>4. << >> \in Seq(E)
  OBVIOUS
<1> HIDE DEF step, E, n
<1>5. \E f : Is(f)
  <2>1. PICK f : f \in [0..n -> Seq(E)] /\ f[0] = << >> /\ \A k \in 1..n : f[k] = step[k][f[k - 1]]
    <3>1. \A k \in 1..n, d \in Seq(E) : step[k][d] \in Seq(E)
      BY <1>2, <1>3
    <3>2. StepsIn(n, Seq(E), step)
      BY <3>1 DEF StepsIn
    <3>3. \E f : Recurs(f, n, Seq(E), << >>, step)
      BY <1>1, <1>4, <3>2, Recursive
    <3> QED BY <3>3 DEF Recurs
  <2>2. \A k \in 0..n : k # 0 => k \in 1..n /\ f[k - 1] \in Seq(E)
    BY <1>1, <2>1
  <2>3. \A k \in 0..n : f[k] = IF k = 0 THEN << >> ELSE IF k \in S THEN Append(f[k - 1], s[k]) ELSE f[k - 1]
    BY <1>2, <2>1, <2>2
  <2>4. Is(f)
    BY <2>1, <2>3
  <2> HIDE DEF Is
  <2> QED BY <2>4
<1>6. PICK those : Is(those) /\ Those(s, S) = those[n]
  BY <1>5 DEF Those, n
<1> DEFINE T == {k \in 0..n : those[k] \in Seq(E)}
<1>7. 0 \in T
  BY <1>1, <1>4, <1>6
<1>8. ASSUME NEW k \in 1..n, k - 1 \in T PROVE k \in T
  <2>1. k \in 0..n /\ k # 0
    BY <1>1
  <2>2. those[k] = (IF k \in S THEN Append(those[k - 1], s[k]) ELSE those[k - 1])
    BY <1>6, <2>1
  <2> QED BY <1>3, <1>8, <2>1, <2>2
<1> HIDE DEF T
<1>9. \A k \in 0..n : k \in T
  BY <1>1, <1>7, <1>8, UpTo
<1>10. /\ those \in [0..n -> Seq(E)] /\ those[0] = << >>
       /\ \A k \in 1..n : those[k] = IF k \in S THEN Append(those[k - 1], s[k]) ELSE those[k - 1]
  <2>1. \A k \in 1..n : k \in 0..n /\ k # 0
    BY <1>1
  <2>2. 0 \in 0..n /\ \A k \in 0..n : those[k] \in Seq(E)
    BY <1>1, <1>9 DEF T
  <2> QED BY <1>6, <2>1, <2>2
<1> HIDE DEF Is
<1> QED BY <1>6, <1>10 DEF E, n

\* Those elements, and no others.
LEMMA ThoseIs ==
  ASSUME NEW D, NEW s \in Seq(D), NEW S
  PROVE  Those(s, S) \in Seq({s[k] : k \in S \cap DOMAIN s})
<1> DEFINE E == {s[k] : k \in S \cap DOMAIN s}
<1>1. PICK f \in [0..Len(s) -> Seq(E)] :
            /\ f[0] = << >> /\ Those(s, S) = f[Len(s)]
            /\ \A k \in 1..Len(s) : f[k] = IF k \in S THEN Append(f[k - 1], s[k]) ELSE f[k - 1]
  BY ThoseSteps
<1> HIDE DEF E
<1>2. Len(s) \in 0..Len(s)
  BY LenProperties
<1> QED BY <1>1, <1>2 DEF E

\* At most one element of q is in F.
Alone(q, F) == \A i, j \in DOMAIN q : q[i] \in F /\ q[j] \in F => i = j
Has(q, F) == \E i \in DOMAIN q : q[i] \in F

LEMMA ThoseAlone ==
  ASSUME NEW D, NEW s \in Seq(D), NEW S, NEW F,
         \A i, j \in S \cap DOMAIN s : s[i] \in F /\ s[j] \in F => i = j
  PROVE  Alone(Those(s, S), F)
<1> DEFINE n == Len(s)
           E == {s[k] : k \in S \cap DOMAIN s}
<1>1. n \in Nat /\ DOMAIN s = 1..n
  BY LenProperties
<1>2. PICK f \in [0..n -> Seq(E)] :
            /\ f[0] = << >> /\ Those(s, S) = f[n]
            /\ \A k \in 1..n : f[k] = IF k \in S THEN Append(f[k - 1], s[k]) ELSE f[k - 1]
  BY ThoseSteps
<1> DEFINE T == {k \in 0..n : Alone(f[k], F) /\ (Has(f[k], F) => \E i \in S \cap 1..k : s[i] \in F)}
<1>3. 0 \in T
  <2>1. Alone(<< >>, F) /\ ~Has(<< >>, F)
    BY DEF Alone, Has
  <2> QED BY <1>1, <1>2, <2>1
<1>4. ASSUME NEW k \in 1..n, k - 1 \in T PROVE k \in T
  <2>1. k \in 0..n /\ k - 1 \in 0..n /\ f[k - 1] \in Seq(E)
    BY <1>1, <1>2
  <2>2. Alone(f[k - 1], F) /\ (Has(f[k - 1], F) => \E i \in S \cap 1..(k - 1) : s[i] \in F)
    BY <1>4
  <2>3. CASE k \notin S
    <3>1. f[k] = f[k - 1]
      BY <1>2, <2>3
    <3>2. 1..(k - 1) \subseteq 1..k
      OBVIOUS
    <3> QED BY <2>1, <2>2, <3>1, <3>2
  <2>4. CASE k \in S
    <3> DEFINE d == f[k - 1]
               c == Len(d)
    <3>1. s[k] \in E
      BY <1>1, <2>4
    <3> HIDE DEF E
    <3>2. f[k] = Append(d, s[k])
      BY <1>2, <2>4
    <3>3. /\ c \in Nat /\ DOMAIN d = 1..c /\ f[k] \in Seq(E) /\ Len(f[k]) = c + 1
          /\ (\A i \in 1..c : f[k][i] = d[i]) /\ f[k][c + 1] = s[k]
      BY <2>1, <3>1, <3>2, AppendProperties, LenProperties
    <3>4. DOMAIN f[k] = 1..(c + 1)
      BY <3>3, LenProperties
    <3> DEFINE g == f[k]
    <3> HIDE DEF c, d, g
    <3>5. ~ (s[k] \in F /\ Has(d, F))
      <4> SUFFICES ASSUME s[k] \in F, Has(d, F) PROVE FALSE
        OBVIOUS
      <4>1. PICK i \in S \cap 1..(k - 1) : s[i] \in F
        BY <2>2 DEF d
      <4>2. i \in S \cap DOMAIN s /\ k \in S \cap DOMAIN s /\ i # k
        BY <1>1, <2>4, <4>1
      <4> QED BY <4>1, <4>2
    <3>6. \A i \in 1..(c + 1) : i \in 1..c \/ i = c + 1
      BY <3>3
    <3>7. Alone(g, F)
      <4> SUFFICES ASSUME NEW i \in 1..(c + 1), NEW j \in 1..(c + 1), g[i] \in F, g[j] \in F PROVE i = j
        BY <3>4 DEF Alone, g
      <4>1. CASE i \in 1..c /\ j \in 1..c
        BY <2>2, <3>3, <4>1 DEF Alone, g, d
      <4>2. CASE i = c + 1 /\ j = c + 1
        BY <4>2
      <4>3. CASE i = c + 1 /\ j \in 1..c
        BY <3>3, <3>5, <4>3 DEF Has, g
      <4>4. CASE i \in 1..c /\ j = c + 1
        BY <3>3, <3>5, <4>4 DEF Has, g
      <4> QED BY <3>6, <4>1, <4>2, <4>3, <4>4
    <3>8. ASSUME Has(g, F) PROVE \E i \in S \cap 1..k : s[i] \in F
      <4>1. CASE s[k] \in F
        BY <2>4, <4>1
      <4>2. CASE s[k] \notin F
        <5>1. Has(d, F)
          BY <3>3, <3>4, <3>6, <3>8, <4>2 DEF Has, g
        <5>2. PICK i \in S \cap 1..(k - 1) : s[i] \in F
          BY <2>2, <5>1 DEF d
        <5>3. i \in S \cap 1..k
          OBVIOUS
        <5> QED BY <5>2, <5>3
      <4> QED BY <4>1, <4>2
    <3> QED BY <2>1, <3>7, <3>8 DEF g
  <2> QED BY <2>3, <2>4
<1> HIDE DEF T, n, E
<1>5. \A k \in 1..n : k - 1 \in T => k \in T
  BY <1>4
<1>6. \A k \in 0..n : k \in T
  BY <1>1, <1>3, <1>5, UpTo
<1>7. n \in T
  BY <1>1, <1>6
<1> QED BY <1>2, <1>7 DEF T

LEMMA ConcatAlone ==
  ASSUME NEW D, NEW a \in Seq(D), NEW b \in Seq(D), NEW F
  PROVE  /\ Has(a \o b, F) => Has(a, F) \/ Has(b, F)
         /\ Alone(a, F) /\ Alone(b, F) /\ ~ (Has(a, F) /\ Has(b, F)) => Alone(a \o b, F)
<1> DEFINE x == Len(a)
           y == Len(b)
           c == a \o b
<1>1. x \in Nat /\ DOMAIN a = 1..x /\ y \in Nat /\ DOMAIN b = 1..y
  BY LenProperties
<1>2. /\ c \in Seq(D) /\ Len(c) = x + y
      /\ \A i \in 1..(x + y) : c[i] = IF i <= x THEN a[i] ELSE b[i - x]
  BY ConcatProperties
<1>3. DOMAIN c = 1..(x + y)
  BY <1>2, LenProperties
<1> HIDE DEF x, y, c
<1>4. \A i \in 1..(x + y) : IF i <= x THEN i \in DOMAIN a ELSE i - x \in DOMAIN b
  BY <1>1
<1>5. Has(c, F) => Has(a, F) \/ Has(b, F)
  <2> SUFFICES ASSUME NEW i \in 1..(x + y), c[i] \in F PROVE Has(a, F) \/ Has(b, F)
    BY <1>3 DEF Has
  <2>1. CASE i <= x
    <3>1. i \in DOMAIN a /\ a[i] \in F
      BY <1>2, <1>4, <2>1
    <3> QED BY <3>1 DEF Has
  <2>2. CASE ~ i <= x
    <3>1. i - x \in DOMAIN b /\ b[i - x] \in F
      BY <1>2, <1>4, <2>2
    <3> QED BY <3>1 DEF Has
  <2> QED BY <2>1, <2>2
<1>6. ASSUME Alone(a, F), Alone(b, F), ~ (Has(a, F) /\ Has(b, F)) PROVE Alone(c, F)
  <2> SUFFICES ASSUME NEW i \in 1..(x + y), NEW j \in 1..(x + y), c[i] \in F, c[j] \in F PROVE i = j
    BY <1>3 DEF Alone
  <2>1. /\ IF i <= x THEN i \in DOMAIN a /\ a[i] \in F ELSE i - x \in DOMAIN b /\ b[i - x] \in F
        /\ IF j <= x THEN j \in DOMAIN a /\ a[j] \in F ELSE j - x \in DOMAIN b /\ b[j - x] \in F
    BY <1>2, <1>4
  <2>2. CASE i <= x /\ j <= x
    BY <1>6, <2>1, <2>2 DEF Alone
  <2>3. CASE ~ i <= x /\ ~ j <= x
    <3>1. i - x = j - x
      BY <1>6, <2>1, <2>3 DEF Alone
    <3> QED BY <1>1, <3>1
  <2>4. CASE i <= x /\ ~ j <= x
    BY <1>6, <2>1, <2>4 DEF Has
  <2>5. CASE ~ i <= x /\ j <= x
    BY <1>6, <2>1, <2>5 DEF Has
  <2> QED BY <2>2, <2>3, <2>4, <2>5
<1> QED BY <1>5, <1>6 DEF c

\* Sequences are put together one by one.
LEMMA FlattenSteps ==
  ASSUME NEW D, NEW ss \in Seq(Seq(D)), Len(ss) # 0
  PROVE  \E f \in [1..Len(ss) -> Seq(D)] :
            /\ f[1] = ss[1] /\ FlattenSeq(ss) = f[Len(ss)]
            /\ \A i \in 2..Len(ss) : f[i] = f[i - 1] \o ss[i]
<1> DEFINE n == Len(ss)
           N == n - 1
           step == [k \in 1..N |-> [d \in Seq(D) |-> d \o ss[k + 1]]]
           Is(f) == f = [i \in 1..n |-> IF i = 1 THEN ss[i] ELSE f[i - 1] \o ss[i]]
<1>1. n \in Nat /\ DOMAIN ss = 1..n /\ \A i \in 1..n : ss[i] \in Seq(D)
  BY LenProperties, ElementOfSeq
<1>2. n # 0
  OBVIOUS
<1>3. \A k \in 1..N, d \in Seq(D) : step[k][d] = d \o ss[k + 1]
  OBVIOUS
<1>4. \A i \in 1..n, d \in Seq(D) : d \o ss[i] \in Seq(D)
  BY <1>1, ConcatProperties
<1>5. N \in Nat /\ N + 1 = n /\ ss[1] \in Seq(D)
  BY <1>1, <1>2
<1> HIDE DEF step, N, n
<1>6. \E f : Is(f)
  <2>1. PICK f : /\ f \in [0..N -> Seq(D)] /\ f[0] = ss[1]
                 /\ \A k \in 1..N : f[k] = step[k][f[k - 1]]
    <3>1. \A k \in 1..N, d \in Seq(D) : step[k][d] \in Seq(D)
      <4> TAKE k \in 1..N, d \in Seq(D)
      <4>1. k + 1 \in 1..n
        BY <1>1, <1>5
      <4> QED BY <1>3, <1>4, <4>1
    <3>2. StepsIn(N, Seq(D), step)
      BY <3>1 DEF StepsIn
    <3>3. \E f : Recurs(f, N, Seq(D), ss[1], step)
      BY <1>5, <3>2, Recursive
    <3> QED BY <3>3 DEF Recurs
  <2> DEFINE g == [i \in 1..n |-> f[i - 1]]
  <2>2. ASSUME NEW i \in 1..n PROVE g[i] = IF i = 1 THEN ss[i] ELSE g[i - 1] \o ss[i]
    <3>1. CASE i = 1
      BY <1>1, <1>2, <1>5, <2>1, <3>1
    <3>2. CASE i # 1
      <4>1. i - 1 \in 1..N /\ (i - 1) + 1 = i /\ i - 1 \in 1..n
        BY <1>1, <1>5, <3>2
      <4>2. f[i - 2] \in Seq(D) /\ (i - 1) - 1 = i - 2
        BY <1>1, <1>5, <2>1, <4>1
      <4>3. f[i - 1] = f[i - 2] \o ss[i]
        BY <1>3, <2>1, <4>1, <4>2
      <4>4. g[i] = f[i - 1] /\ g[i - 1] = f[i - 2]
        BY <4>1, <4>2
      <4> QED BY <3>2, <4>3, <4>4
    <3> QED BY <3>1, <3>2
  <2>3. Is(g)
    BY <2>2
  <2> HIDE DEF Is
  <2> QED BY <2>3
<1>7. PICK flatten : Is(flatten) /\ FlattenSeq(ss) = flatten[n]
  BY <1>2, <1>6 DEF FlattenSeq, n
<1> DEFINE T == {k \in 0..N : flatten[k + 1] \in Seq(D)}
<1>8. 0 \in T
  BY <1>1, <1>2, <1>5, <1>7
<1>9. ASSUME NEW k \in 1..N, k - 1 \in T PROVE k \in T
  <2>1. k + 1 \in 1..n /\ k + 1 # 1 /\ (k + 1) - 1 = k /\ (k - 1) + 1 = k /\ k \in 0..N
    BY <1>1, <1>5
  <2>2. flatten[k + 1] = flatten[k] \o ss[k + 1]
    BY <1>7, <2>1
  <2> QED BY <1>4, <1>9, <2>1, <2>2
<1> HIDE DEF T, Is
<1>10. \A k \in 0..N : k \in T
  <2>1. N \in Nat
    BY <1>5
  <2>2. \A k \in 1..N : k - 1 \in T => k \in T
    BY <1>9
  <2> QED BY <1>8, <2>1, <2>2, UpTo
<1>11. \A i \in 1..n : i - 1 \in 0..N /\ (i - 1) + 1 = i
  BY <1>1, <1>5
<1>12. \A i \in 1..n : flatten[i] \in Seq(D)
  BY <1>10, <1>11 DEF T
<1>13. DOMAIN flatten = 1..n /\ flatten = [i \in 1..n |-> flatten[i]] /\ flatten[1] = ss[1]
       /\ \A i \in 2..n : flatten[i] = flatten[i - 1] \o ss[i]
  <2>1. 1 \in 1..n /\ \A i \in 2..n : i \in 1..n /\ i # 1
    BY <1>1, <1>2
  <2> QED BY <1>7, <2>1 DEF Is
<1>14. flatten \in [1..n -> Seq(D)]
  BY <1>12, <1>13
<1> QED BY <1>7, <1>13, <1>14 DEF n

LEMMA FlattenIs ==
  ASSUME NEW D, NEW ss \in Seq(Seq(D))
  PROVE  FlattenSeq(ss) \in Seq(D)
<1>1. CASE Len(ss) = 0
  <2>1. ss = << >>
    BY <1>1, EmptySeq
  <2> QED BY <2>1 DEF FlattenSeq
<1>2. CASE Len(ss) # 0
  <2>1. PICK f \in [1..Len(ss) -> Seq(D)] : FlattenSeq(ss) = f[Len(ss)]
    BY <1>2, FlattenSteps
  <2>2. Len(ss) \in 1..Len(ss)
    BY <1>2, LenProperties
  <2> QED BY <2>1, <2>2
<1> QED BY <1>1, <1>2

LEMMA FlattenAlone ==
  ASSUME NEW D, NEW ss \in Seq(Seq(D)), NEW F, \A i \in DOMAIN ss : Alone(ss[i], F),
         \A i, j \in DOMAIN ss : Has(ss[i], F) /\ Has(ss[j], F) => i = j
  PROVE  /\ Alone(FlattenSeq(ss), F)
         /\ Has(FlattenSeq(ss), F) => \E i \in DOMAIN ss : Has(ss[i], F)
<1> DEFINE n == Len(ss)
<1>1. n \in Nat /\ DOMAIN ss = 1..n /\ \A i \in 1..n : ss[i] \in Seq(D)
  BY LenProperties, ElementOfSeq
<1>2. CASE n = 0
  <2>1. ss = << >>
    BY <1>2, EmptySeq
  <2>2. FlattenSeq(ss) = << >>
    BY <2>1 DEF FlattenSeq
  <2> QED BY <2>2 DEF Alone, Has
<1>3. CASE n # 0
  <2>1. PICK f \in [1..n -> Seq(D)] :
            /\ f[1] = ss[1] /\ FlattenSeq(ss) = f[n]
            /\ \A i \in 2..n : f[i] = f[i - 1] \o ss[i]
    BY <1>3, FlattenSteps
  <2> DEFINE N == n - 1
             T == {k \in 0..N : Alone(f[k + 1], F) /\ (Has(f[k + 1], F) => \E i \in 1..(k + 1) : Has(ss[i], F))}
  <2>2. N \in Nat /\ N + 1 = n
    BY <1>1, <1>3
  <2> HIDE DEF n, N
  <2>3. 0 \in T
    <3>1. 1 \in 1..n /\ 0 \in 0..N /\ 0 + 1 = 1
      BY <1>1, <1>3, <2>2
    <3>2. Alone(f[1], F) /\ (Has(f[1], F) => \E i \in 1..1 : Has(ss[i], F))
      <4>1. f[1] = ss[1] /\ 1 \in DOMAIN ss /\ 1 \in 1..1
        BY <1>1, <2>1, <3>1
      <4> QED BY <4>1
    <3> QED BY <3>1, <3>2
  <2>4. ASSUME NEW k \in 1..N, k - 1 \in T PROVE k \in T
    <3>1. k + 1 \in 2..n /\ (k + 1) - 1 = k /\ (k - 1) + 1 = k /\ k \in 0..N /\ k \in 1..n /\ k + 1 \in 1..n
      BY <1>1, <2>2
    <3>2. f[k + 1] = f[k] \o ss[k + 1] /\ f[k] \in Seq(D) /\ ss[k + 1] \in Seq(D) /\ Alone(ss[k + 1], F)
      BY <1>1, <2>1, <3>1
    <3>3. Alone(f[k], F) /\ (Has(f[k], F) => \E i \in 1..k : Has(ss[i], F))
      BY <2>4, <3>1
    <3>4. ~ (Has(f[k], F) /\ Has(ss[k + 1], F))
      <4> SUFFICES ASSUME Has(f[k], F), Has(ss[k + 1], F) PROVE FALSE
        OBVIOUS
      <4>1. PICK i \in 1..k : Has(ss[i], F)
        BY <3>3
      <4>2. i \in 1..n /\ i # k + 1
        BY <1>1, <3>1
      <4> QED BY <1>1, <3>1, <4>1, <4>2
    <3>5. Alone(f[k + 1], F) /\ (Has(f[k + 1], F) => Has(f[k], F) \/ Has(ss[k + 1], F))
      BY <3>2, <3>3, <3>4, ConcatAlone
    <3>6. k + 1 \in 1..(k + 1) /\ 1..k \subseteq 1..(k + 1)
      OBVIOUS
    <3>7. Has(f[k + 1], F) => \E i \in 1..(k + 1) : Has(ss[i], F)
      BY <3>3, <3>5, <3>6
    <3> QED BY <3>1, <3>5, <3>7
  <2> HIDE DEF T
  <2>5. N \in T
    <3>1. \A k \in 1..N : k - 1 \in T => k \in T
      BY <2>4
    <3>2. \A k \in 0..N : k \in T
      BY <2>2, <2>3, <3>1, UpTo
    <3> QED BY <2>2, <3>2
  <2> QED BY <1>1, <2>1, <2>2, <2>5 DEF T
<1> QED BY <1>2, <1>3

\* The comparisons of prot_get_next_file are those of the ranks.
LEMMA Ranks ==
  ASSUME NEW e \in Entry, NEW b \in Entry
  PROVE  Rank(e) \in Nat /\ Rank(b) \in Nat /\ (Better(e, b) <=> Rank(b) < Rank(e))
<1>1. FlavorOf(e) \in 0..16 /\ FlavorOf(b) \in 0..16
  BY Constants DEF FlavorOf, Entry
<1>2. Type[e.file] \in {"netmail", "arcmail", "other", "request"} /\ Type[b.file] \in {"netmail", "arcmail", "other", "request"}
  BY Constants DEF Entry
<1> QED BY <1>1, <1>2 DEF Rank, Better

\* The best file of a queue is one to be sent, and none is more urgent.
LEMMA BestIs ==
  ASSUME NEW q \in Seq(Entry)
  PROVE  IF Best(q) = 0 THEN Will(q) = {}
         ELSE Best(q) \in Will(q) /\ \A j \in Will(q) : Rank(q[j]) <= Rank(q[Best(q)])
<1> DEFINE n == Len(q)
           step == [k \in 1..n |-> [d \in 0..n |->
                      IF k \notin Will(q) THEN d ELSE IF d = 0 THEN k ELSE IF Better(q[k], q[d]) THEN k ELSE d]]
           Is(f) == f = [k \in 0..n |-> IF k = 0 THEN 0
                                        ELSE IF k \notin Will(q) THEN f[k - 1]
                                        ELSE IF f[k - 1] = 0 THEN k
                                        ELSE IF Better(q[k], q[f[k - 1]]) THEN k ELSE f[k - 1]]
<1>1. n \in Nat /\ DOMAIN q = 1..n /\ Will(q) \subseteq 1..n /\ \A k \in 1..n : q[k] \in Entry
  BY LenProperties, ElementOfSeq DEF Will
<1>2. \A k \in 1..n, d \in 0..n :
        step[k][d] = IF k \notin Will(q) THEN d ELSE IF d = 0 THEN k ELSE IF Better(q[k], q[d]) THEN k ELSE d
  OBVIOUS
<1>3. StepsIn(n, 0..n, step)
  BY <1>1, <1>2 DEF StepsIn
<1> HIDE DEF step, n
<1>4. \E f : Is(f)
  <2>1. \E f : Recurs(f, n, 0..n, 0, step)
    <3>1. 0 \in 0..n
      BY <1>1
    <3> QED BY <1>1, <1>3, <3>1, Recursive
  <2>2. PICK f : f \in [0..n -> 0..n] /\ f[0] = 0 /\ \A k \in 1..n : f[k] = step[k][f[k - 1]]
    BY <2>1 DEF Recurs
  <2>3. \A k \in 0..n : k # 0 => k \in 1..n /\ f[k - 1] \in 0..n
    BY <1>1, <2>2
  <2>4. \A k \in 0..n : f[k] = IF k = 0 THEN 0
                               ELSE IF k \notin Will(q) THEN f[k - 1]
                               ELSE IF f[k - 1] = 0 THEN k
                               ELSE IF Better(q[k], q[f[k - 1]]) THEN k ELSE f[k - 1]
    BY <1>2, <2>2, <2>3
  <2>5. Is(f)
    BY <2>2, <2>4
  <2> HIDE DEF Is
  <2> QED BY <2>5
<1>5. PICK best : Is(best) /\ Best(q) = best[n]
  BY <1>4 DEF Best, n
<1> DEFINE Good(k) == IF best[k] = 0 THEN \A j \in Will(q) : k < j
                      ELSE best[k] \in Will(q) /\ \A j \in Will(q) : j <= k => Rank(q[j]) <= Rank(q[best[k]])
           T == {k \in 0..n : Good(k)}
<1>6. 0 \in T
  BY <1>1, <1>5
<1>7. ASSUME NEW k \in 1..n, k - 1 \in T PROVE k \in T
  <2>1. k \in 0..n /\ k # 0 /\ Good(k - 1)
    BY <1>1, <1>7
  <2>2. best[k] = IF k \notin Will(q) THEN best[k - 1]
                  ELSE IF best[k - 1] = 0 THEN k
                  ELSE IF Better(q[k], q[best[k - 1]]) THEN k ELSE best[k - 1]
    BY <1>5, <2>1
  <2>3. \A j \in Will(q) : j \in Nat /\ q[j] \in Entry /\ Rank(q[j]) \in Nat
    BY <1>1, Ranks
  <2> HIDE DEF Is
  <2>4. CASE k \notin Will(q)
    <3>1. \A j \in Will(q) : (j <= k <=> j <= k - 1) /\ (k < j <=> k - 1 < j)
      BY <1>1, <2>3, <2>4
    <3> QED BY <2>1, <2>2, <2>4, <3>1
  <2>5. CASE k \in Will(q) /\ best[k - 1] = 0
    <3>1. \A j \in Will(q) : j <= k => j = k
      BY <2>1, <2>3, <2>5
    <3>2. best[k] = k
      BY <2>2, <2>5
    <3> QED BY <2>1, <2>3, <2>5, <3>1, <3>2
  <2>6. CASE k \in Will(q) /\ best[k - 1] # 0
    <3> DEFINE b == best[k - 1]
    <3>1. b \in Will(q) /\ \A j \in Will(q) : j <= k - 1 => Rank(q[j]) <= Rank(q[b])
      BY <2>1, <2>6
    <3>2. Better(q[k], q[b]) <=> Rank(q[b]) < Rank(q[k])
      BY <2>3, <2>6, <3>1, Ranks
    <3>3. best[k] = IF Rank(q[b]) < Rank(q[k]) THEN k ELSE b
      BY <2>2, <2>6, <3>2
    <3> HIDE DEF b
    <3>4. \A j \in Will(q) : j <= k => j = k \/ j <= k - 1
      BY <2>3
    <3>5. best[k] \in Will(q) /\ best[k] # 0
      BY <1>1, <2>6, <3>1, <3>3
    <3>6. Rank(q[k]) <= Rank(q[best[k]]) /\ Rank(q[b]) <= Rank(q[best[k]])
      BY <2>3, <2>6, <3>1, <3>3
    <3>7. \A j \in Will(q) : j <= k => Rank(q[j]) <= Rank(q[best[k]])
      BY <2>3, <3>1, <3>4, <3>5, <3>6
    <3> QED BY <2>1, <3>5, <3>7
  <2> QED BY <2>4, <2>5, <2>6
<1>8. n \in T
  <2> HIDE DEF T
  <2>1. \A k \in 1..n : k - 1 \in T => k \in T
    BY <1>7
  <2>2. \A k \in 0..n : k \in T
    BY <1>1, <1>6, <2>1, UpTo
  <2> QED BY <1>1, <2>2
<1>9. \A j \in Will(q) : j <= n
  BY <1>1
<1> QED
  <2>1. CASE Best(q) = 0
    <3>1. \A j \in Will(q) : n < j
      BY <1>5, <1>8, <2>1
    <3> QED BY <1>1, <1>9, <2>1, <3>1
  <2>2. CASE Best(q) # 0
    BY <1>5, <1>8, <1>9, <2>2
  <2> QED BY <2>1, <2>2

-----------------------------------------------------------------------------
(* What the operators of the queue return                                   *)

LEMMA IsSeq ==
  ASSUME NEW D, NEW n \in Nat, NEW f, f = [k \in 1..n |-> f[k]], \A k \in 1..n : f[k] \in D
  PROVE  f \in Seq(D)
<1>1. f \in [1..n -> D]
  OBVIOUS
<1> QED BY <1>1, SeqDef

LEMMA Wider ==
  ASSUME NEW D, NEW E, E \subseteq D, NEW s \in Seq(E)
  PROVE  s \in Seq(D)
<1>1. Len(s) \in Nat /\ s = [k \in 1..Len(s) |-> s[k]] /\ \A k \in 1..Len(s) : s[k] \in E
  BY LenProperties, ElementOfSeq
<1>2. \A k \in 1..Len(s) : s[k] \in D
  BY <1>1
<1> QED BY <1>1, <1>2, IsSeq

LEMMA StartIs ==
  ASSUME TypeOK
  PROVE  /\ start \in Starts /\ start.methods \in Seq({"binkp", "emsi"}) /\ start.methods # << >>
         /\ start.order \in Seq(File \cup Flo) /\ start.answers \in Seq(Line) /\ start.later \in Seq(JobToDo)
         /\ start.hold \subseteq Hold /\ start.rh1 \in BOOLEAN /\ start.bad \in Nat /\ start.crashes \in Nat
<1>1. start \in Starts
  BY DEF TypeOK
<1>2. start \in Start /\ start.methods # << >>
  BY <1>1, Constants
<1> QED BY <1>1, <1>2 DEF Start, JobToDo

LEMMA CurrentIs ==
  ASSUME TypeOK, m.pc \in OnFile
  PROVE  /\ Current \in Entry
         /\ (\E k \in DOMAIN m.queue : k > 0 /\ k = m.cur /\ Current = m.queue[k])
              \/ (~ m.cur > 0 /\ \E k \in DOMAIN m.answers : Current = m.answers[k])
<1>1. m \in MailerState /\ IF m.cur > 0 THEN m.cur \in DOMAIN m.queue ELSE -m.cur \in DOMAIN m.answers
  BY DEF TypeOK, MailerOk
<1>2. m.queue \in Seq(Entry) /\ m.answers \in Seq(Entry)
  BY <1>1 DEF MailerState
<1>3. \A k \in DOMAIN m.queue : m.queue[k] \in Entry
  BY <1>2, ElementOfSeq, LenProperties
<1>4. \A k \in DOMAIN m.answers : m.answers[k] \in Entry
  BY <1>2, ElementOfSeq, LenProperties
<1> QED BY <1>1, <1>3, <1>4 DEF Current

\* Entries by name, and entries of a line.
NamedEntry == {e \in Entry : e.flo = NoFlo /\ e.file \in Named /\ e.act = NameAction(e.file)}
LineEntry == {e \in Entry : /\ e.flo \in Flo
                            /\ \E k \in DOMAIN flo[e.flo].lines : LET l == flo[e.flo].lines[k] IN
                                 l.file = e.file /\ l.act = e.act /\ ~l.sent}

LEMMA FromFloIs ==
  ASSUME TypeOK, NEW l \in Flo
  PROVE  FromFlo(l) \in Seq(LineEntry)
<1> DEFINE lines == flo[l].lines
           entry == [k \in DOMAIN lines |-> [file |-> lines[k].file, flo |-> l, act |-> lines[k].act, status |-> "willsend"]]
           S == {k \in DOMAIN lines : ~lines[k].sent /\ disk[lines[k].file] # "none"}
<1>1. lines \in Seq(FloLine)
  BY DEF TypeOK, DiskOk
<1>2. Len(lines) \in Nat /\ DOMAIN lines = 1..Len(lines) /\ \A k \in DOMAIN lines : lines[k] \in FloLine
  BY <1>1, LenProperties, ElementOfSeq
<1>3. \A k \in DOMAIN lines : entry[k] \in Entry /\ (~lines[k].sent => entry[k] \in LineEntry)
  BY <1>2 DEF LineEntry, Entry, FloLine
<1>4. entry \in Seq(Entry) /\ DOMAIN entry = DOMAIN lines
  <2>1. entry = [k \in 1..Len(lines) |-> entry[k]]
    BY <1>2
  <2>2. DOMAIN entry = DOMAIN lines
    OBVIOUS
  <2> HIDE DEF entry
  <2> QED BY <1>2, <1>3, <2>1, <2>2, IsSeq
<1>5. FromFlo(l) = Those(entry, S)
  BY DEF FromFlo
<1>6. \A k \in S : k \in DOMAIN lines /\ ~lines[k].sent
  OBVIOUS
<1> HIDE DEF entry, S
<1>7. {entry[k] : k \in S \cap DOMAIN entry} \subseteq LineEntry
  BY <1>3, <1>6
<1> QED BY <1>4, <1>5, <1>7, ThoseIs, Wider

LEMMA NamesAre ==
  ASSUME TypeOK
  PROVE  NamedFiles \in Seq(Named) /\ FlosThere \in Seq(Flo)
<1> DEFINE order == start.order
           S == {k \in DOMAIN order : order[k] \in Named /\ disk[order[k]] # "none"}
           T == {k \in DOMAIN order : order[k] \in Flo /\ flo[order[k]].there}
<1>1. order \in Seq(File \cup Flo)
  BY StartIs
<1>2. {order[k] : k \in S \cap DOMAIN order} \subseteq Named /\ {order[k] : k \in T \cap DOMAIN order} \subseteq Flo
  OBVIOUS
<1>3. NamedFiles = Those(order, S) /\ FlosThere = Those(order, T)
  BY DEF NamedFiles, FlosThere
<1> HIDE DEF order, S, T
<1> QED BY <1>1, <1>2, <1>3, ThoseIs, Wider

LEMMA ScannedIs ==
  ASSUME TypeOK
  PROVE  Scanned \in Seq(NamedEntry \cup LineEntry)
<1> DEFINE D == NamedEntry \cup LineEntry
           byname == [k \in DOMAIN NamedFiles |-> [file |-> NamedFiles[k], flo |-> NoFlo,
                          act |-> NameAction(NamedFiles[k]), status |-> "willsend"]]
           byline == [k \in DOMAIN FlosThere |-> FromFlo(FlosThere[k])]
<1>1. /\ Len(NamedFiles) \in Nat /\ DOMAIN NamedFiles = 1..Len(NamedFiles)
      /\ Len(FlosThere) \in Nat /\ DOMAIN FlosThere = 1..Len(FlosThere)
      /\ \A k \in DOMAIN NamedFiles : NamedFiles[k] \in Named
      /\ \A k \in DOMAIN FlosThere : FlosThere[k] \in Flo
  BY NamesAre, LenProperties, ElementOfSeq
<1>2. byname \in Seq(D)
  <2>1. \A k \in DOMAIN NamedFiles : byname[k] \in NamedEntry
    BY <1>1 DEF NamedEntry, Entry, Named, NameAction, Action
  <2>2. byname = [k \in 1..Len(NamedFiles) |-> byname[k]]
    BY <1>1
  <2> HIDE DEF byname
  <2> QED BY <1>1, <2>1, <2>2, IsSeq
<1>3. byline \in Seq(Seq(D))
  <2>1. \A k \in DOMAIN FlosThere : byline[k] \in Seq(D)
    BY <1>1, FromFloIs, Wider
  <2>2. byline = [k \in 1..Len(FlosThere) |-> byline[k]]
    BY <1>1
  <2> HIDE DEF byline
  <2> QED BY <1>1, <2>1, <2>2, IsSeq
<1>4. Scanned = byname \o FlattenSeq(byline)
  BY DEF Scanned
<1> HIDE DEF D, byname, byline
<1>5. FlattenSeq(byline) \in Seq(D)
  BY <1>3, FlattenIs
<1> QED BY <1>2, <1>4, <1>5, ConcatProperties DEF D

LEMMA SendFilesAre ==
  ASSUME NEW opts, NEW q \in Seq(Entry)
  PROVE  /\ SetSendFiles(opts, q) \in Seq(Entry) /\ DOMAIN SetSendFiles(opts, q) = DOMAIN q
         /\ \A k \in DOMAIN q : /\ SetSendFiles(opts, q)[k].file = q[k].file
                                /\ SetSendFiles(opts, q)[k].flo = q[k].flo
                                /\ SetSendFiles(opts, q)[k].act = q[k].act
<1> DEFINE r == SetSendFiles(opts, q)
<1>1. Len(q) \in Nat /\ DOMAIN q = 1..Len(q) /\ \A k \in DOMAIN q : q[k] \in Entry
  BY LenProperties, ElementOfSeq
<1>2. \A k \in DOMAIN q : r[k] = IF Holds(opts, q[k]) THEN [q[k] EXCEPT !.status = "skip"] ELSE q[k]
  BY DEF SetSendFiles
<1>3. \A k \in DOMAIN q : /\ r[k] \in Entry /\ r[k].file = q[k].file /\ r[k].flo = q[k].flo /\ r[k].act = q[k].act
  BY <1>1, <1>2 DEF Entry
<1>4. r = [k \in 1..Len(q) |-> r[k]]
  BY <1>1 DEF SetSendFiles
<1> HIDE DEF r
<1>5. r \in Seq(Entry) /\ DOMAIN r = DOMAIN q
  BY <1>1, <1>3, <1>4, IsSeq
<1> QED BY <1>3, <1>5 DEF r

\* The queue of a session: what is left of an earlier one, and what a scan finds.
LEMMA QueueIs ==
  ASSUME TypeOK, NEW opts
  PROVE  LET q == SetSendFiles(opts, m.queue \o Scanned) IN
         /\ q \in Seq(Entry)
         /\ \A k \in DOMAIN q : \E e \in {m.queue[i] : i \in DOMAIN m.queue} \cup NamedEntry \cup LineEntry :
              q[k].file = e.file /\ q[k].flo = e.flo /\ q[k].act = e.act
<1> DEFINE old == {m.queue[i] : i \in DOMAIN m.queue}
           D == old \cup NamedEntry \cup LineEntry
           all == m.queue \o Scanned
<1>1. m.queue \in Seq(Entry)
  BY DEF TypeOK, MailerOk, MailerState
<1>2. m.queue \in Seq(D)
  <2>1. Len(m.queue) \in Nat /\ DOMAIN m.queue = 1..Len(m.queue) /\ m.queue = [k \in 1..Len(m.queue) |-> m.queue[k]]
    BY <1>1, LenProperties
  <2>2. \A k \in 1..Len(m.queue) : m.queue[k] \in D
    BY <2>1
  <2> HIDE DEF D
  <2> QED BY <2>1, <2>2, IsSeq
<1>3. D \subseteq Entry
  <2>1. old \subseteq Entry
    BY <1>1, LenProperties, ElementOfSeq
  <2> QED BY <2>1 DEF NamedEntry, LineEntry
<1>4. Scanned \in Seq(D)
  <2>1. NamedEntry \cup LineEntry \subseteq D
    OBVIOUS
  <2> HIDE DEF D
  <2> QED BY <2>1, ScannedIs, Wider
<1> HIDE DEF D
<1>5. all \in Seq(D)
  BY <1>2, <1>4, ConcatProperties
<1>6. all \in Seq(Entry) /\ \A k \in DOMAIN all : all[k] \in D
  BY <1>3, <1>5, Wider, LenProperties, ElementOfSeq
<1> HIDE DEF all
<1> DEFINE q == SetSendFiles(opts, all)
<1>7. /\ q \in Seq(Entry) /\ DOMAIN q = DOMAIN all
      /\ \A k \in DOMAIN all : q[k].file = all[k].file /\ q[k].flo = all[k].flo /\ q[k].act = all[k].act
  BY <1>6, SendFilesAre
<1> HIDE DEF q
<1>8. \A k \in DOMAIN q : \E e \in D : q[k].file = e.file /\ q[k].flo = e.flo /\ q[k].act = e.act
  BY <1>6, <1>7
<1> QED BY <1>7, <1>8 DEF q, all, D

LEMMA NextFileIs ==
  ASSUME TypeOK
  PROVE  /\ NextFile \in Int
         /\ NextFile > 0 => NextFile \in Will(m.queue) /\ NextIndex = NextFile
         /\ NextFile < 0 => -NextFile \in Will(m.answers)
<1>1. m.queue \in Seq(Entry) /\ m.answers \in Seq(Entry)
  BY DEF TypeOK, MailerOk, MailerState
<1>2. Will(m.queue) \subseteq Nat \ {0} /\ Will(m.answers) \subseteq Nat \ {0}
  BY <1>1, LenProperties DEF Will
<1>3. NextIndex = 0 \/ NextIndex \in Will(m.queue)
  <2> DEFINE S == {k \in Will(m.queue) : Type[m.queue[k].file] = "request"}
  <2>1. S \subseteq Nat \ {0}
    BY <1>2
  <2>2. First(S) = 0 \/ First(S) \in S
    BY <2>1, FirstIs
  <2>3. Best(m.queue) = 0 \/ Best(m.queue) \in Will(m.queue)
    BY <1>1, BestIs
  <2> QED BY <2>2, <2>3 DEF NextIndex
<1>4. First(Will(m.answers)) = 0 \/ First(Will(m.answers)) \in Will(m.answers)
  BY <1>2, FirstIs
<1> QED BY <1>2, <1>3, <1>4 DEF NextFile, NextAnswer

LEMMA OpenedIs ==
  ASSUME TypeOK, NextFile # 0
  PROVE  LET r == Opened(NextFile) IN
         /\ r \in MailerState /\ r = [m EXCEPT !.queue = r.queue, !.answers = r.answers, !.cur = NextFile]
         /\ DOMAIN r.queue = DOMAIN m.queue /\ DOMAIN r.answers = DOMAIN m.answers
         /\ IF NextFile > 0 THEN NextFile \in DOMAIN m.queue ELSE -NextFile \in DOMAIN m.answers
         /\ \A k \in DOMAIN m.queue : r.queue[k] = IF k = NextFile THEN [m.queue[k] EXCEPT !.status = "sending"] ELSE m.queue[k]
         /\ \A k \in DOMAIN m.answers : r.answers[k] = IF k = -NextFile THEN [m.answers[k] EXCEPT !.status = "sending"] ELSE m.answers[k]
<1> DEFINE x == NextFile
           r == Opened(NextFile)
<1>1. m \in MailerState
  BY DEF TypeOK, MailerOk
<1>2. /\ m.queue \in Seq(Entry) /\ DOMAIN m.queue = 1..Len(m.queue) /\ Len(m.queue) \in Nat
      /\ \A k \in DOMAIN m.queue : m.queue[k] \in Entry
      /\ m.answers \in Seq(Entry) /\ DOMAIN m.answers = 1..Len(m.answers) /\ Len(m.answers) \in Nat
      /\ \A k \in DOMAIN m.answers : m.answers[k] \in Entry
  BY <1>1, LenProperties, ElementOfSeq DEF MailerState
<1>3. x \in Int /\ x # 0 /\ (x > 0 => x \in DOMAIN m.queue) /\ (x < 0 => -x \in DOMAIN m.answers)
  BY NextFileIs DEF Will
<1>4. ASSUME NEW s \in Seq(Entry), NEW k \in DOMAIN s
      PROVE  [s EXCEPT ![k].status = "sending"] \in Seq(Entry)
  <2>1. s[k] \in Entry /\ Len(s) \in Nat /\ DOMAIN s = 1..Len(s) /\ \A i \in DOMAIN s : s[i] \in Entry
    BY <1>4, LenProperties, ElementOfSeq
  <2>2. [s[k] EXCEPT !.status = "sending"] \in Entry
    BY <2>1 DEF Entry
  <2>3. [s EXCEPT ![k].status = "sending"] = [i \in 1..Len(s) |-> IF i = k THEN [s[k] EXCEPT !.status = "sending"] ELSE s[i]]
    BY <2>1
  <2> DEFINE t == [s EXCEPT ![k].status = "sending"]
  <2>4. t = [i \in 1..Len(s) |-> t[i]] /\ \A i \in 1..Len(s) : t[i] \in Entry
    BY <2>1, <2>2, <2>3
  <2> HIDE DEF t
  <2>5. t \in Seq(Entry)
    BY <2>1, <2>4, IsSeq
  <2> QED BY <2>5 DEF t
<1> HIDE DEF x
<1>5. CASE x > 0
  <2> DEFINE s == [m.queue EXCEPT ![x].status = "sending"]
  <2>1. s \in Seq(Entry)
    BY <1>2, <1>3, <1>4, <1>5
  <2>2. Opened(x) = [m EXCEPT !.queue = s, !.cur = x]
    BY <1>1, <1>5 DEF Opened, MailerState
  <2>3. \A k \in DOMAIN m.queue : s[k] = IF k = x THEN [m.queue[k] EXCEPT !.status = "sending"] ELSE m.queue[k]
    BY <1>2
  <2>4. DOMAIN s = DOMAIN m.queue
    OBVIOUS
  <2>5. \A k \in DOMAIN m.answers : k # -x
    BY <1>2, <1>5, <1>3
  <2> HIDE DEF s
  <2>6. Opened(x).queue = s /\ Opened(x).answers = m.answers /\ Opened(x) \in MailerState
    BY <1>1, <1>3, <2>1, <2>2 DEF MailerState
  <2>7. Opened(x) = [m EXCEPT !.queue = s, !.answers = m.answers, !.cur = x]
    BY <1>1, <2>2 DEF MailerState
  <2> QED BY <1>3, <1>5, <2>3, <2>4, <2>5, <2>6, <2>7 DEF x
<1>6. CASE x < 0
  <2> DEFINE s == [m.answers EXCEPT ![-x].status = "sending"]
  <2>1. s \in Seq(Entry)
    BY <1>2, <1>3, <1>4, <1>6
  <2>2. Opened(x) = [m EXCEPT !.answers = s, !.cur = x]
    BY <1>1, <1>3, <1>6 DEF Opened, MailerState
  <2>3. \A k \in DOMAIN m.answers : s[k] = IF k = -x THEN [m.answers[k] EXCEPT !.status = "sending"] ELSE m.answers[k]
    BY <1>2
  <2>4. DOMAIN s = DOMAIN m.answers
    OBVIOUS
  <2>5. \A k \in DOMAIN m.queue : k # x
    BY <1>2, <1>6, <1>3
  <2> HIDE DEF s
  <2>6. Opened(x).answers = s /\ Opened(x).queue = m.queue /\ Opened(x) \in MailerState
    BY <1>1, <1>3, <2>1, <2>2 DEF MailerState
  <2>7. Opened(x) = [m EXCEPT !.queue = m.queue, !.answers = s, !.cur = x]
    BY <1>1, <2>2 DEF MailerState
  <2>8. ~ x > 0
    BY <1>3, <1>6
  <2> QED BY <1>3, <1>6, <2>3, <2>4, <2>5, <2>6, <2>7, <2>8 DEF x
<1> QED BY <1>3, <1>5, <1>6

\* A handshake fails, or a session begins with a queue and the answers.
LEMMA HandshakeIs ==
  ASSUME TypeOK, Handshake
  PROVE  /\ At("call") /\ m.methods # << >> /\ UNCHANGED <<flo, toss, got, settled, start, used>>
         /\ m' \in MailerState /\ m'.methods = Tail(m.methods)
         /\ lock' = IF lock \in {"free", "mailer"} THEN "mailer" ELSE lock
         /\ \/ m'.pc = "call" /\ disk' = disk /\ m'.queue = m.queue /\ m'.answers = m.answers
            \/ /\ m'.pc = "send"
               /\ \A k \in DOMAIN m'.queue : \E e \in {m.queue[i] : i \in DOMAIN m.queue} \cup NamedEntry \cup LineEntry :
                    m'.queue[k].file = e.file /\ m'.queue[k].flo = e.flo /\ m'.queue[k].act = e.act
               /\ DOMAIN m'.answers = DOMAIN start.answers
               /\ \A k \in DOMAIN start.answers :
                    m'.answers[k] = [file |-> start.answers[k].file, flo |-> NoFlo, act |-> start.answers[k].act,
                                     status |-> "willsend"]
               /\ disk' = [f \in File |-> IF \E k \in DOMAIN start.answers : start.answers[k].file = f
                                         THEN "full" ELSE disk[f]]
<1> DEFINE locked == lock \in {"free", "mailer"}
           busy == m.busy \/ ~locked
           first == Head(m.methods)
           old == IF first = "emsi" THEN m.opts \cup start.hold ELSE m.opts
           opts == m.opts \cup start.hold
           reqsonly == start.rh1 /\ first = "emsi"
           queue == IF busy THEN m.queue ELSE SetSendFiles(old, m.queue \o Scanned)
           flotab == IF busy THEN m.flotab ELSE m.flotab \o FlosThere
           answers == [k \in DOMAIN start.answers |->
                         [file |-> start.answers[k].file, flo |-> NoFlo, act |-> start.answers[k].act, status |-> "willsend"]]
<1>1. m \in MailerState /\ m.queue \in Seq(Entry) /\ m.flotab \in Seq(Flo) /\ m.busy \in BOOLEAN
      /\ m.methods \in Seq({"binkp", "emsi"}) /\ m.opts \subseteq Hold
  BY DEF TypeOK, MailerOk, MailerState
<1>2. At("call") /\ m.methods # << >> /\ UNCHANGED <<flo, toss, got, settled, start, used>>
  BY DEF Handshake
<1>3. Tail(m.methods) \in Seq({"binkp", "emsi"})
  BY <1>1, <1>2, HeadTailProperties
<1>4. queue \in Seq(Entry) /\ \A k \in DOMAIN queue : \E e \in {m.queue[i] : i \in DOMAIN m.queue} \cup NamedEntry \cup LineEntry :
                    queue[k].file = e.file /\ queue[k].flo = e.flo /\ queue[k].act = e.act
  <2>1. CASE busy
    BY <1>1, <2>1
  <2>2. CASE ~busy
    <3> DEFINE q == SetSendFiles(old, m.queue \o Scanned)
    <3> HIDE DEF old
    <3>1. q \in Seq(Entry) /\ \A k \in DOMAIN q : \E e \in {m.queue[i] : i \in DOMAIN m.queue} \cup NamedEntry \cup LineEntry :
                    q[k].file = e.file /\ q[k].flo = e.flo /\ q[k].act = e.act
      BY QueueIs
    <3>2. queue = q
      BY <2>2
    <3> HIDE DEF q, queue
    <3> QED BY <3>1, <3>2
  <2> QED BY <2>1, <2>2
<1>5. flotab \in Seq(Flo)
  BY <1>1, NamesAre, ConcatProperties
<1>6. answers \in Seq(Entry)
  <2>1. Len(start.answers) \in Nat /\ DOMAIN start.answers = 1..Len(start.answers)
        /\ \A k \in DOMAIN start.answers : start.answers[k] \in Line
    BY StartIs, LenProperties, ElementOfSeq
  <2>2. \A k \in 1..Len(start.answers) : answers[k] \in Entry
    BY <2>1 DEF Line, Entry
  <2>3. answers = [k \in 1..Len(start.answers) |-> answers[k]]
    BY <2>1
  <2> HIDE DEF answers
  <2> QED BY <2>1, <2>2, <2>3, IsSeq
<1>7. opts \subseteq Hold /\ reqsonly \in BOOLEAN
  BY <1>1, StartIs
<1>8. lock' = IF locked THEN "mailer" ELSE lock
  BY DEF Handshake
<1>9. CASE ~locked /\ first = "binkp"
  <2>1. m' = [m EXCEPT !.methods = Tail(@), !.busy = TRUE] /\ disk' = disk
    BY <1>9 DEF Handshake
  <2>2. m' \in MailerState /\ m'.methods = Tail(m.methods) /\ m'.pc = m.pc /\ m'.queue = m.queue /\ m'.answers = m.answers
    BY <1>1, <1>3, <2>1 DEF MailerState
  <2> QED BY <1>2, <1>8, <2>1, <2>2 DEF At
<1>10. CASE ~ (~locked /\ first = "binkp")
  <2>1. m' = [m EXCEPT !.pc = "send", !.methods = Tail(@), !.busy = busy, !.opts = opts, !.ok = TRUE, !.reqs = {},
                       !.reqsonly = reqsonly, !.queue = queue, !.flotab = flotab, !.answers = answers]
    BY <1>1, <1>10 DEF Handshake, MailerState
  <2>2. disk' = [f \in File |-> IF \E k \in DOMAIN start.answers : start.answers[k].file = f THEN "full" ELSE disk[f]]
    BY <1>10 DEF Handshake
  <2>3. busy \in BOOLEAN
    BY <1>1
  <2>4. answers = [k \in DOMAIN start.answers |->
                     [file |-> start.answers[k].file, flo |-> NoFlo, act |-> start.answers[k].act, status |-> "willsend"]]
    OBVIOUS
  <2> HIDE DEF locked, busy, first, old, opts, reqsonly, queue, flotab, answers
  <2>5. m' \in MailerState /\ m'.methods = Tail(m.methods) /\ m'.pc = "send" /\ m'.queue = queue /\ m'.answers = answers
    BY <1>1, <1>3, <1>4, <1>5, <1>6, <1>7, <2>1, <2>3 DEF MailerState, InSession
  <2>6. DOMAIN answers = DOMAIN start.answers
        /\ \A k \in DOMAIN start.answers :
             answers[k] = [file |-> start.answers[k].file, flo |-> NoFlo, act |-> start.answers[k].act, status |-> "willsend"]
    BY <2>4
  <2> QED BY <1>2, <1>4, <1>8, <2>2, <2>5, <2>6 DEF locked
<1> QED BY <1>9, <1>10

-----------------------------------------------------------------------------
(* Type correctness                                                         *)

LEMMA TypesBegin == Init => TypeOK
<1> SUFFICES ASSUME Init PROVE TypeOK
  OBVIOUS
<1>1. PICK s \in Starts :
        /\ start = s /\ disk = [f \in File |-> IF f \in s.disk THEN "full" ELSE "none"]
        /\ flo = [l \in Flo |-> [there |-> s.flo[l] # << >>, lines |-> [k \in DOMAIN s.flo[l] |-> Unsent(s.flo[l][k])]]]
        /\ lock = "free" /\ m = Idle /\ toss = [pc |-> "idle", jobs |-> s.later]
        /\ got = [f \in File |-> 0] /\ settled = {} /\ used = [bad |-> 0, crashes |-> 0]
  BY DEF Init
<1>2. s \in Start
  BY Constants
<1>3. \A l \in Flo : [k \in DOMAIN s.flo[l] |-> Unsent(s.flo[l][k])] \in Seq(FloLine)
  <2> TAKE l \in Flo
  <2>1. s.flo[l] \in Seq(Line)
    BY <1>2 DEF Start
  <2>2. Len(s.flo[l]) \in Nat /\ DOMAIN s.flo[l] = 1..Len(s.flo[l]) /\ \A k \in DOMAIN s.flo[l] : s.flo[l][k] \in Line
    BY <2>1, LenProperties, ElementOfSeq
  <2> DEFINE lines == [k \in DOMAIN s.flo[l] |-> Unsent(s.flo[l][k])]
  <2>3. lines = [k \in 1..Len(s.flo[l]) |-> lines[k]] /\ \A k \in 1..Len(s.flo[l]) : lines[k] \in FloLine
    BY <2>2 DEF Unsent, Line, FloLine
  <2> HIDE DEF lines
  <2>4. lines \in Seq(FloLine)
    BY <2>2, <2>3, IsSeq
  <2> QED BY <2>4 DEF lines
<1>4. DiskOk
  BY <1>1, <1>3 DEF DiskOk
<1>5. MailerOk
  BY <1>1 DEF MailerOk, MailerState, Idle, OnFile, At, Hold
<1>6. s.later \in Seq(JobToDo)
  BY <1>2 DEF Start, JobToDo
<1>7. TossOk
  BY <1>1, <1>6 DEF TossOk
<1> QED BY <1>1, <1>4, <1>5, <1>7 DEF TypeOK

\* The mailer's record, action by action.
LEMMA MailerStays ==
  ASSUME TypeOK, Mailer \/ Faults
  PROVE  MailerOk'
<1>1. m \in MailerState /\ MailerOk /\ start \in Starts
  BY DEF TypeOK, MailerOk
<1>2. m.pc \in OnFile => Current \in Entry /\ Current.file \in File
  BY CurrentIs DEF Entry
<1>3. Idle \in MailerState
  BY DEF MailerState, Idle, Hold
<1>4. CASE Call \/ Exit \/ Crash
  <2>1. start.methods \in Seq({"binkp", "emsi"})
    BY StartIs
  <2>2. [Idle EXCEPT !.pc = "call", !.methods = start.methods] \in MailerState
    BY <1>3, <2>1 DEF MailerState
  <2>3. m' \in MailerState /\ m'.pc \in {"idle", "call"}
    <3>1. CASE Call
      BY <2>2, <3>1 DEF Call, Idle
    <3>2. CASE Exit \/ Crash
      <4>1. m' = Idle
        BY <3>2 DEF Exit, Crash
      <4>2. Idle.pc = "idle"
        BY DEF Idle
      <4> QED BY <1>3, <4>1, <4>2
    <3> QED BY <1>4, <3>1, <3>2
  <2> QED BY <2>3 DEF MailerOk, OnFile, At
<1>5. CASE NoSession
  <2>1. Tail(m.methods) \in Seq({"binkp", "emsi"})
    BY <1>1, <1>5, HeadTailProperties DEF NoSession, MailerState
  <2> QED BY <1>1, <1>5, <2>1 DEF NoSession, MailerOk, MailerState, At, OnFile
<1>6. CASE Handshake
  BY <1>6, HandshakeIs DEF MailerOk, OnFile, At
<1>7. CASE OpenFile
  <2> DEFINE r == Opened(NextFile)
             pc == m'.pc
  <2>1. NextFile # 0 /\ pc \in {"send", "xfer"} /\ m' = [r EXCEPT !.pc = pc]
    <3>1. NextFile # 0 /\ \E x \in {"send", "xfer"} : m' = [r EXCEPT !.pc = x]
      BY <1>7 DEF OpenFile
    <3>2. r \in MailerState
      BY <3>1, OpenedIs
    <3> HIDE DEF r
    <3> QED BY <3>1, <3>2 DEF MailerState
  <2>2. r \in MailerState /\ r.cur = NextFile
        /\ IF NextFile > 0 THEN NextFile \in DOMAIN r.queue ELSE -NextFile \in DOMAIN r.answers
    <3>1. r \in MailerState /\ r = [m EXCEPT !.queue = r.queue, !.answers = r.answers, !.cur = NextFile]
          /\ DOMAIN r.queue = DOMAIN m.queue /\ DOMAIN r.answers = DOMAIN m.answers
          /\ IF NextFile > 0 THEN NextFile \in DOMAIN m.queue ELSE -NextFile \in DOMAIN m.answers
      BY <2>1, OpenedIs
    <3> HIDE DEF r
    <3>2. r.cur = NextFile
      BY <1>1, <3>1 DEF MailerState
    <3> QED BY <3>1, <3>2
  <2> HIDE DEF r, pc
  <2>3. m' \in MailerState /\ m'.pc \in {"send", "xfer"} /\ m'.cur = r.cur /\ m'.queue = r.queue /\ m'.answers = r.answers
    BY <2>1, <2>2 DEF MailerState, InSession
  <2> QED BY <2>2, <2>3 DEF MailerOk, At
<1>8. CASE NoMoreFiles
  <2>1. m' \in MailerState /\ m'.pc \in {"send", "clean"}
    <3>1. CASE m.reqsonly
      BY <1>1, <1>8, <3>1 DEF NoMoreFiles, MailerState, InSession, At
    <3>2. CASE ~m.reqsonly
      <4>1. m' = [m EXCEPT !.pc = "clean", !.cur = 0]
        BY <1>8, <3>2 DEF NoMoreFiles
      <4>2. "clean" \in {"idle", "call"} \cup InSession /\ 0 \in Int
        BY DEF InSession
      <4> QED BY <1>1, <4>1, <4>2 DEF MailerState
    <3> QED BY <3>1, <3>2
  <2> QED BY <2>1 DEF MailerOk, OnFile, At
<1>9. CASE Stored
  <2>1. m.pc \in OnFile /\ m.pc = "xfer"
    BY <1>9 DEF Stored, OnFile, At
  <2> DEFINE reqs == IF IsRequest(Current) THEN m.reqs \cup {Current.file} ELSE m.reqs
  <2>2. reqs \in SUBSET File
    BY <1>1, <1>2, <2>1 DEF MailerState
  <2>3. m' = [m EXCEPT !.pc = "mark", !.reqs = reqs]
    BY <1>1, <1>9 DEF Stored, MailerState
  <2> HIDE DEF reqs
  <2> QED BY <1>1, <2>1, <2>2, <2>3 DEF MailerOk, MailerState, InSession, OnFile, At
<1>10. CASE Skipped \/ MarkSent
  BY <1>1, <1>10 DEF Skipped, MarkSent, Goes, MailerOk, MailerState, InSession, OnFile, At
<1>11. CASE Refused \/ Fails \/ Dispose
  BY <1>1, <1>11 DEF Refused, Fails, Dispose, Goes, MailerOk, MailerState, InSession, OnFile, At
<1>12. CASE Cleanup
  <2> DEFINE pc == IF m.ok THEN "flo" ELSE "unlock"
  <2>1. m' = [m EXCEPT !.pc = pc, !.i = 1, !.answers = << >>] /\ pc \in {"flo", "unlock"}
    BY <1>12 DEF Cleanup
  <2> HIDE DEF pc
  <2>2. m' \in MailerState /\ m'.pc \in {"flo", "unlock"} /\ m'.i = 1
    <3>1. << >> \in Seq(Entry) /\ pc \in {"idle", "call"} \cup InSession
      BY <2>1 DEF InSession
    <3> QED BY <1>1, <2>1, <3>1 DEF MailerState
  <2> QED BY <2>2 DEF MailerOk, OnFile, At
<1>13. CASE CheckFlo
  <2>1. m.flotab \in Seq(Flo) /\ m.i \in Nat /\ m.pc = "flo" /\ m.i > 0 /\ m.i <= Len(m.flotab)
    BY <1>1, <1>13 DEF CheckFlo, MailerOk, MailerState, At
  <2>2. m.i \in DOMAIN m.flotab /\ m.i + 1 \in Nat /\ m.i + 1 > 0
    BY <2>1, LenProperties
  <2> QED BY <1>1, <1>13, <2>1, <2>2 DEF CheckFlo, NextFlo, MailerOk, MailerState, InSession, OnFile, At
<1>14. CASE UnlinkFlo
  <2>1. m.i \in Nat /\ m' = [m EXCEPT !.pc = "flo", !.i = m.i + 1]
    BY <1>1, <1>14 DEF UnlinkFlo, NextFlo, MailerState
  <2>2. m.i + 1 \in Nat /\ m.i + 1 > 0
    BY <2>1
  <2>3. m' \in MailerState /\ m'.pc = "flo" /\ m'.i > 0
    BY <1>1, <2>1, <2>2 DEF MailerState, InSession
  <2> QED BY <2>3 DEF MailerOk, OnFile, At
<1>15. CASE Unlock
  BY <1>1, <1>3, <1>15 DEF Unlock, Idle, MailerOk, MailerState, InSession, OnFile, At
<1> QED BY <1>4, <1>5, <1>6, <1>7, <1>8, <1>9, <1>10, <1>11, <1>12, <1>13, <1>14, <1>15 DEF Mailer, Faults

\* The line that is marked.
LEMMA FirstOpen ==
  ASSUME NEW ls \in Seq(FloLine), NEW f
  PROVE  LET open == {k \in DOMAIN ls : ls[k].file = f /\ ~ls[k].sent}
             x == CHOOSE k \in open : \A j \in open : k <= j
         IN  open # {} => x \in open /\ x \in DOMAIN ls
<1> DEFINE open == {k \in DOMAIN ls : ls[k].file = f /\ ~ls[k].sent}
<1> SUFFICES ASSUME open # {} PROVE \E k \in open : \A j \in open : k <= j
  OBVIOUS
<1>1. open \subseteq Nat
  BY LenProperties
<1> HIDE DEF open
<1> QED BY <1>1, LeastNat

LEMMA TypesStay == TypeOK /\ [Next]_vars => TypeOK'
<1> SUFFICES ASSUME TypeOK, [Next]_vars PROVE TypeOK'
  OBVIOUS
<1>1. CASE UNCHANGED vars
  BY <1>1 DEF vars, TypeOK, MailerOk, TossOk, DiskOk, At
<1>2. ASSUME Mailer \/ Faults PROVE TypeOK'
  <2>1. MailerOk' /\ start' = start /\ toss' = toss
    BY <1>2, MailerStays DEF Mailer, Faults, Call, NoSession, Handshake, OpenFile, NoMoreFiles, Stored, Skipped,
         Refused, Fails, MarkSent, Dispose, Cleanup, CheckFlo, UnlinkFlo, Unlock, Exit, Crash
  <2>2. lock' \in {"free", "mailer", "tosser", "stale"}
    BY <1>2 DEF TypeOK, Mailer, Faults, Call, NoSession, Handshake, OpenFile, NoMoreFiles, Stored, Skipped,
         Refused, Fails, MarkSent, Dispose, Cleanup, CheckFlo, UnlinkFlo, Unlock, Exit, Crash, Released
  <2>3. used' \in [bad : Nat, crashes : Nat]
    BY <1>2 DEF TypeOK, Mailer, Faults, Call, NoSession, Handshake, OpenFile, NoMoreFiles, Stored, Skipped,
         Refused, Fails, MarkSent, Dispose, Cleanup, CheckFlo, UnlinkFlo, Unlock, Exit, Crash
  <2>4. got' \in [File -> Nat] /\ settled' \in SUBSET File
    <3>1. m \in MailerState /\ m.reqs \subseteq File /\ (m.pc = "xfer" => Current.file \in File)
      BY CurrentIs DEF TypeOK, MailerOk, MailerState, OnFile, Entry
    <3>2. m.pc = "xfer" => [got EXCEPT ![Current.file] = IF disk[Current.file] = "full" /\ @ < 2 THEN @ + 1 ELSE @]
                            \in [File -> Nat]
      BY <3>1 DEF TypeOK
    <3> QED BY <1>2, <3>1, <3>2 DEF TypeOK, Mailer, Faults, Call, NoSession, Handshake, OpenFile, NoMoreFiles, Stored, Skipped,
         Refused, Fails, MarkSent, Dispose, Cleanup, CheckFlo, UnlinkFlo, Unlock, Exit, Crash, Gets, At
  <2>5. disk' \in [File -> {"none", "full", "empty"}]
    <3>1. CASE Dispose
      <4>1. Current.file \in File
        BY <3>1, CurrentIs DEF Dispose, At, OnFile, Entry
      <4> QED BY <3>1, <4>1 DEF Dispose, TypeOK, DiskOk
    <3>2. CASE Cleanup \/ Handshake
      BY <3>2, HandshakeIs DEF Cleanup, TypeOK, DiskOk
    <3> QED BY <1>2, <3>1, <3>2 DEF TypeOK, DiskOk, Mailer, Faults, Call, NoSession, OpenFile, NoMoreFiles, Stored, Skipped,
         Refused, Fails, MarkSent, CheckFlo, UnlinkFlo, Unlock, Exit, Crash
  <2>6. flo' \in [Flo -> [there : BOOLEAN, lines : Seq(FloLine)]]
    <3>1. CASE MarkSent
      <4>1. Current.flo \in Flo \cup {NoFlo}
        BY <3>1, CurrentIs DEF MarkSent, At, OnFile, Entry
      <4>2. ASSUME NEW ls \in Seq(FloLine), NEW f PROVE Marked(ls, f) \in Seq(FloLine)
        <5> DEFINE open == {k \in DOMAIN ls : ls[k].file = f /\ ~ls[k].sent}
                   x == CHOOSE k \in open : \A j \in open : k <= j
        <5>1. CASE open = {}
          BY <4>2, <5>1 DEF Marked
        <5>2. CASE open # {}
          <6>1. x \in 1..Len(ls) /\ ls[x] \in FloLine
            <7>1. x \in DOMAIN ls
              BY <4>2, <5>2, FirstOpen
            <7> HIDE DEF x
            <7> QED BY <4>2, <7>1, LenProperties, ElementOfSeq
          <6>2. [ls[x] EXCEPT !.sent = TRUE] \in FloLine
            BY <6>1 DEF FloLine
          <6>3. Marked(ls, f) = [ls EXCEPT ![x] = [ls[x] EXCEPT !.sent = TRUE]]
            BY <5>2 DEF Marked
          <6> HIDE DEF x
          <6> QED BY <4>2, <6>1, <6>2, <6>3, ExceptSeq
        <5> QED BY <5>1, <5>2
      <4> QED BY <3>1, <4>1, <4>2 DEF MarkSent, TypeOK, DiskOk
    <3>2. CASE UnlinkFlo
      <4>1. m.flotab[m.i] \in Flo
        BY <3>2, ElementOfSeq, LenProperties DEF UnlinkFlo, TypeOK, MailerOk, MailerState, At
      <4> QED BY <3>2, <4>1 DEF UnlinkFlo, TypeOK, DiskOk
    <3> QED BY <1>2, <3>1, <3>2 DEF TypeOK, DiskOk, Mailer, Faults, Call, NoSession, Handshake, OpenFile, NoMoreFiles, Stored, Skipped,
         Refused, Fails, Dispose, Cleanup, CheckFlo, Unlock, Exit, Crash
  <2> QED BY <2>1, <2>2, <2>3, <2>4, <2>5, <2>6 DEF TypeOK, DiskOk, TossOk
<1>3. ASSUME StaleLock \/ Rest PROVE TypeOK'
  BY <1>3 DEF StaleLock, Rest, vars, TypeOK, MailerOk, TossOk, DiskOk, At
<1>4. ASSUME Tosser PROVE TypeOK'
  <2>1. UNCHANGED <<start, m, got, settled, used>> /\ MailerOk'
    BY <1>4 DEF Tosser, TossBegin, TossFile, TossLine, TossEnd, TypeOK, MailerOk, At
  <2>2. toss.jobs \in Seq(JobToDo) /\ TossOk
    BY DEF TypeOK, TossOk
  <2>3. toss.jobs # << >> => Job \in JobToDo /\ Tail(toss.jobs) \in Seq(JobToDo)
    BY <2>2, HeadTailProperties DEF Job
  <2>4. TossOk'
    <3>1. CASE TossBegin \/ TossFile \/ TossEnd
      BY <2>2, <3>1 DEF TossBegin, TossFile, TossEnd, TossOk
    <3>2. CASE TossLine
      BY <2>2, <2>3, <3>2 DEF TossLine, TossOk
    <3> QED BY <1>4, <3>1, <3>2 DEF Tosser
  <2>5. DiskOk'
    <3>1. CASE TossFile
      BY <2>2, <2>3, <3>1 DEF TossFile, TypeOK, DiskOk, TossOk, JobToDo
    <3>2. CASE TossLine
      <4>1. Job \in JobToDo
        BY <2>2, <2>3, <3>2 DEF TossLine, TossOk
      <4>2. \A l \in Flo : Append(flo[l].lines, Unsent(Job)) \in Seq(FloLine)
        <5>1. Unsent(Job) \in FloLine
          BY <4>1 DEF Unsent, JobToDo, FloLine
        <5> QED BY <5>1, AppendProperties DEF TypeOK, DiskOk
      <4> QED BY <3>2, <4>1, <4>2 DEF TossLine, TypeOK, DiskOk, JobToDo
    <3> QED BY <1>4, <3>1, <3>2 DEF Tosser, TossBegin, TossEnd, TypeOK, DiskOk
  <2> QED BY <1>4, <2>1, <2>4, <2>5 DEF Tosser, TossBegin, TossFile, TossLine, TossEnd, TypeOK
<1> QED BY <1>1, <1>2, <1>3, <1>4 DEF Next

\* Every variable has its type.
LEMMA Types == Spec => []TypeOK
BY TypesBegin, TypesStay, PTL DEF Spec

-----------------------------------------------------------------------------
(* The most urgent file                                                     *)

\* A file is opened only by prot_get_next_file, and it is then the best of
\* those that remain to be sent: packets before bundles before other files, by
\* their flavor, whatever the outbound, the options and the remote are.
THEOREM MostUrgent == Spec => []MostUrgentFirst
<1>1. Init => MostUrgentFirst
  BY DEF Init, Idle, MostUrgentFirst, At
<1>2. TypeOK /\ TypeOK' /\ MostUrgentFirst /\ [Next]_vars => MostUrgentFirst'
  <2> SUFFICES ASSUME TypeOK, TypeOK', MostUrgentFirst, [Next]_vars, (At("xfer") /\ ~m.reqsonly /\ m.cur > 0)'
               PROVE  \A k \in Will(m'.queue) : Rank(m'.queue[k]) <= Rank(m'.queue[m'.cur])
    BY DEF MostUrgentFirst, Current, Will
  <2>1. CASE m' = m
    BY <2>1 DEF MostUrgentFirst, Current, Will, At
  <2>2. CASE OpenFile
    <3> DEFINE x == NextFile
               r == Opened(x)
    <3>1. x # 0 /\ m' = [r EXCEPT !.pc = "xfer"]
      BY <2>2 DEF OpenFile, At
    <3>2. /\ m \in MailerState /\ r \in MailerState
          /\ r = [m EXCEPT !.queue = r.queue, !.answers = r.answers, !.cur = x]
          /\ DOMAIN r.queue = DOMAIN m.queue
          /\ \A k \in DOMAIN m.queue : r.queue[k] = IF k = x THEN [m.queue[k] EXCEPT !.status = "sending"] ELSE m.queue[k]
      BY <3>1, OpenedIs DEF TypeOK, MailerOk
    <3>3. x > 0 => x \in Will(m.queue) /\ NextIndex = x
      BY NextFileIs
    <3> HIDE DEF x, r
    <3>4. m'.queue = r.queue /\ m'.cur = x /\ m'.reqsonly = m.reqsonly
      BY <3>1, <3>2 DEF MailerState
    <3>5. x \in Will(m.queue) /\ Best(m.queue) = x /\ x # 0
      BY <3>1, <3>3, <3>4 DEF NextIndex
    <3>6. m.queue \in Seq(Entry) /\ \A k \in DOMAIN m.queue : m.queue[k] \in Entry
      BY <3>2, LenProperties, ElementOfSeq DEF MailerState
    <3>7. \A j \in Will(m.queue) : Rank(m.queue[j]) <= Rank(m.queue[x])
      BY <3>5, <3>6, BestIs
    <3>8. \A k \in DOMAIN m.queue : Rank(r.queue[k]) = Rank(m.queue[k])
      <4> TAKE k \in DOMAIN m.queue
      <4>1. r.queue[k].file = m.queue[k].file /\ r.queue[k].flo = m.queue[k].flo
        BY <3>2, <3>6 DEF Entry
      <4> QED BY <4>1 DEF Rank, FlavorOf
    <3>9. Will(r.queue) \subseteq Will(m.queue)
      <4> SUFFICES ASSUME NEW k \in Will(r.queue) PROVE k \in Will(m.queue)
        OBVIOUS
      <4>1. k \in DOMAIN m.queue /\ r.queue[k].status = "willsend"
        BY <3>2 DEF Will
      <4>2. k # x
        BY <3>2, <3>6, <4>1 DEF Entry
      <4> QED BY <3>2, <4>1, <4>2 DEF Will
    <3>10. Will(m.queue) \subseteq DOMAIN m.queue
      BY DEF Will
    <3> QED BY <3>4, <3>5, <3>7, <3>8, <3>9, <3>10
  <2>3. CASE StaleLock \/ Tosser \/ Rest
    BY <2>1, <2>3 DEF StaleLock, Tosser, TossBegin, TossFile, TossLine, TossEnd, Rest, vars
  <2>4. ~ (Call \/ NoSession \/ Stored \/ Skipped \/ Refused \/ Fails \/ MarkSent \/ Dispose \/ Cleanup \/ CheckFlo
             \/ UnlinkFlo \/ Unlock \/ Exit \/ Crash \/ NoMoreFiles \/ Handshake)
    <3>1. m \in MailerState
      BY DEF TypeOK, MailerOk
    <3>2. ~Handshake
      BY HandshakeIs DEF At
    <3>3. ~ (Call \/ Exit \/ Crash \/ Unlock)
      <4> SUFFICES ASSUME Call \/ Exit \/ Crash \/ Unlock PROVE FALSE
        OBVIOUS
      <4>1. m'.pc \in {"idle", "call"}
        <5>1. Idle.pc = "idle" /\ [Idle EXCEPT !.pc = "call", !.methods = start.methods].pc = "call"
              /\ [m EXCEPT !.pc = "call"].pc = "call"
          BY <3>1 DEF MailerState, Idle
        <5> QED BY <5>1 DEF Call, Exit, Crash, Unlock
      <4> QED BY <4>1 DEF At
    <3>4. ~ (NoSession \/ Stored \/ Skipped \/ Refused \/ Fails \/ MarkSent \/ Dispose)
      BY <3>1 DEF MailerState, NoSession, Stored, Skipped, Refused, Fails, MarkSent, Dispose, At, Goes
    <3>5. ~ (CheckFlo \/ UnlinkFlo)
      BY <3>1 DEF MailerState, CheckFlo, UnlinkFlo, NextFlo, At
    <3>6. ~Cleanup
      <4> SUFFICES ASSUME Cleanup PROVE FALSE
        OBVIOUS
      <4>1. m'.pc = IF m.ok THEN "flo" ELSE "unlock"
        BY <3>1 DEF Cleanup, MailerState
      <4> QED BY <4>1 DEF At
    <3>7. ~NoMoreFiles
      <4> SUFFICES ASSUME NoMoreFiles PROVE FALSE
        OBVIOUS
      <4>1. m'.pc \in {"send", "clean"}
        BY <3>1 DEF NoMoreFiles, MailerState, At
      <4> QED BY <4>1 DEF At
    <3> QED BY <3>2, <3>3, <3>4, <3>5, <3>6, <3>7
  <2> QED BY <2>1, <2>2, <2>3, <2>4 DEF Next, Mailer, Faults, vars
<1> QED BY <1>1, <1>2, Types, PTL DEF Spec

-----------------------------------------------------------------------------
(* Where a step takes the mailer                                            *)

InTransfer == {"send", "xfer", "mark", "dispose", "clean"}

\* The steps that leave the queue and the answers alone, within a call.
Course ==
  {<<"call", "call">>, <<"send", "send">>, <<"send", "clean">>, <<"xfer", "mark">>, <<"xfer", "send">>,
   <<"xfer", "clean">>, <<"mark", "dispose">>, <<"dispose", "send">>, <<"flo", "flo">>, <<"flo", "unlink">>,
   <<"unlink", "flo">>, <<"flo", "call">>, <<"unlock", "call">>}

LEMMA Moves ==
  ASSUME TypeOK, [Next]_vars
  PROVE  \/ m' = m
         \/ (Call \/ Exit \/ Crash \/ Unlock) /\ m'.pc \in {"idle", "call"} /\ m'.queue = << >> /\ m'.answers = << >>
         \/ Handshake \/ OpenFile
         \/ Cleanup /\ m'.pc \in {"flo", "unlock"} /\ m'.queue = m.queue /\ m'.answers = << >>
         \/ /\ <<m.pc, m'.pc>> \in Course /\ m'.queue = m.queue /\ m'.answers = m.answers
            /\ m'.pc \in {"mark", "dispose"} => m'.cur = m.cur
<1>1. m \in MailerState
  BY DEF TypeOK, MailerOk
<1>2. CASE UNCHANGED vars \/ StaleLock \/ Tosser \/ Rest
  BY <1>2 DEF vars, StaleLock, Tosser, TossBegin, TossFile, TossLine, TossEnd, Rest
<1>3. CASE Call \/ Exit \/ Crash \/ (Unlock /\ m.ok)
  <2>1. m' = Idle \/ m' = [Idle EXCEPT !.pc = "call", !.methods = start.methods]
    BY <1>3 DEF Call, Exit, Crash, Unlock
  <2>2. Idle.pc = "idle" /\ Idle.queue = << >> /\ Idle.answers = << >>
    BY DEF Idle
  <2>3. LET n == [Idle EXCEPT !.pc = "call", !.methods = start.methods] IN
        n.pc = "call" /\ n.queue = << >> /\ n.answers = << >>
    BY DEF Idle
  <2> QED BY <1>3, <2>1, <2>2, <2>3
<1>4. CASE Cleanup
  <2> DEFINE pc == IF m.ok THEN "flo" ELSE "unlock"
  <2>1. m' = [m EXCEPT !.pc = pc, !.i = 1, !.answers = << >>] /\ pc \in {"flo", "unlock"}
    BY <1>4 DEF Cleanup
  <2> HIDE DEF pc
  <2>2. m'.pc = pc /\ m'.queue = m.queue /\ m'.answers = << >>
    BY <1>1, <2>1 DEF MailerState
  <2> QED BY <1>4, <2>1, <2>2
<1>5. CASE NoSession \/ (Unlock /\ ~m.ok)
  BY <1>1, <1>5 DEF NoSession, Unlock, MailerState, Course, At
<1>6. CASE NoMoreFiles
  <2>1. m.pc = "send" /\ m'.pc \in {"send", "clean"} /\ m'.queue = m.queue /\ m'.answers = m.answers
    BY <1>1, <1>6 DEF NoMoreFiles, MailerState, At
  <2> QED BY <2>1 DEF Course
<1>7. CASE Stored
  <2> DEFINE reqs == IF IsRequest(Current) THEN m.reqs \cup {Current.file} ELSE m.reqs
  <2>1. m.pc = "xfer" /\ m' = [m EXCEPT !.pc = "mark", !.reqs = reqs]
    BY <1>1, <1>7 DEF Stored, MailerState, At
  <2> HIDE DEF reqs
  <2>2. m'.pc = "mark" /\ m'.queue = m.queue /\ m'.answers = m.answers /\ m'.cur = m.cur
    BY <1>1, <2>1 DEF MailerState
  <2> QED BY <2>1, <2>2 DEF Course
<1>8. CASE Skipped \/ MarkSent
  BY <1>1, <1>8 DEF Skipped, MarkSent, Goes, MailerState, Course, At
<1>9. CASE Refused \/ Fails \/ Dispose
  BY <1>1, <1>9 DEF Refused, Fails, Dispose, Goes, MailerState, Course, At
<1>10. CASE CheckFlo \/ UnlinkFlo
  <2>1. m'.queue = m.queue /\ m'.answers = m.answers /\ <<m.pc, m'.pc>> \in {<<"flo", "flo">>, <<"flo", "unlink">>, <<"unlink", "flo">>}
    BY <1>1, <1>10 DEF CheckFlo, UnlinkFlo, NextFlo, MailerState, At
  <2> QED BY <2>1 DEF Course
<1> QED BY <1>2, <1>3, <1>4, <1>5, <1>6, <1>7, <1>8, <1>9, <1>10 DEF Next, Mailer, Faults

\* What the mailer has of the answers are those of the beginning.
AnswersOk ==
  /\ \A k \in DOMAIN m.answers :
       /\ k \in DOMAIN start.answers
       /\ m.answers[k].file = start.answers[k].file
       /\ m.answers[k].act = start.answers[k].act
  /\ m.pc \in InTransfer => DOMAIN m.answers = DOMAIN start.answers

LEMMA OpenFileIs ==
  ASSUME TypeOK, OpenFile
  PROVE  /\ m.pc = "send" /\ m'.pc \in {"send", "xfer"}
         /\ UNCHANGED <<disk, flo, lock, toss, got, settled, start, used>>
         /\ DOMAIN m'.queue = DOMAIN m.queue /\ DOMAIN m'.answers = DOMAIN m.answers /\ m'.methods = m.methods
         /\ \A k \in DOMAIN m.queue : /\ m'.queue[k].file = m.queue[k].file /\ m'.queue[k].act = m.queue[k].act
                                      /\ m'.queue[k].flo = m.queue[k].flo
         /\ \A k \in DOMAIN m.answers : m'.answers[k].file = m.answers[k].file /\ m'.answers[k].act = m.answers[k].act
<1> DEFINE r == Opened(NextFile)
<1>1. NextFile # 0 /\ m.pc = "send" /\ \E x \in {"send", "xfer"} : m' = [r EXCEPT !.pc = x]
  BY DEF OpenFile, At
<1>2. /\ m \in MailerState /\ r \in MailerState
      /\ r = [m EXCEPT !.queue = r.queue, !.answers = r.answers, !.cur = NextFile]
      /\ DOMAIN r.queue = DOMAIN m.queue /\ DOMAIN r.answers = DOMAIN m.answers
      /\ \A k \in DOMAIN m.queue : r.queue[k] = IF k = NextFile THEN [m.queue[k] EXCEPT !.status = "sending"] ELSE m.queue[k]
      /\ \A k \in DOMAIN m.answers : r.answers[k] = IF k = -NextFile THEN [m.answers[k] EXCEPT !.status = "sending"] ELSE m.answers[k]
  BY <1>1, OpenedIs DEF TypeOK, MailerOk
<1> HIDE DEF r
<1>3. m'.queue = r.queue /\ m'.answers = r.answers /\ m'.methods = m.methods /\ m'.pc \in {"send", "xfer"}
  <2>1. m'.queue = r.queue /\ m'.answers = r.answers /\ m'.methods = r.methods /\ m'.pc \in {"send", "xfer"}
    <3>1. r \in MailerState /\ \E x \in {"send", "xfer"} : m' = [r EXCEPT !.pc = x]
      BY <1>1, <1>2
    <3> QED BY <3>1 DEF MailerState
  <2>2. r.methods = m.methods
    <3>1. m \in MailerState /\ r = [m EXCEPT !.queue = r.queue, !.answers = r.answers, !.cur = NextFile]
      BY <1>2
    <3> QED BY <3>1 DEF MailerState
  <2> QED BY <2>1, <2>2
<1>4. (\A k \in DOMAIN m.queue : m.queue[k] \in Entry) /\ (\A k \in DOMAIN m.answers : m.answers[k] \in Entry)
  BY <1>2, LenProperties, ElementOfSeq DEF MailerState
<1>5. \A e \in Entry : LET o == [e EXCEPT !.status = "sending"] IN o.file = e.file /\ o.act = e.act /\ o.flo = e.flo
  BY DEF Entry
<1>6. UNCHANGED <<disk, flo, lock, toss, got, settled, start, used>>
  BY DEF OpenFile
<1>7. \A k \in DOMAIN m.queue : /\ m'.queue[k].file = m.queue[k].file /\ m'.queue[k].act = m.queue[k].act
                               /\ m'.queue[k].flo = m.queue[k].flo
  <2> TAKE k \in DOMAIN m.queue
  <2>1. m.queue[k] \in Entry /\ m'.queue[k] \in {m.queue[k], [m.queue[k] EXCEPT !.status = "sending"]}
    BY <1>2, <1>3, <1>4
  <2> QED BY <1>5, <2>1
<1>8. \A k \in DOMAIN m.answers : m'.answers[k].file = m.answers[k].file /\ m'.answers[k].act = m.answers[k].act
  <2> TAKE k \in DOMAIN m.answers
  <2>1. m.answers[k] \in Entry /\ m'.answers[k] \in {m.answers[k], [m.answers[k] EXCEPT !.status = "sending"]}
    BY <1>2, <1>3, <1>4
  <2> QED BY <1>5, <2>1
<1> QED BY <1>1, <1>2, <1>3, <1>6, <1>7, <1>8

LEMMA StartStays == [Next]_vars => start' = start
BY DEF Next, vars, StaleLock, Rest, Tosser, TossBegin, TossFile, TossLine, TossEnd, Mailer, Faults, Call, NoSession,
       Handshake, OpenFile, NoMoreFiles, Stored, Skipped, Refused, Fails, MarkSent, Dispose, Cleanup, CheckFlo,
       UnlinkFlo, Unlock, Exit, Crash

LEMMA AnswersStay == TypeOK /\ AnswersOk /\ [Next]_vars => AnswersOk'
<1> SUFFICES ASSUME TypeOK, AnswersOk, [Next]_vars PROVE AnswersOk'
  OBVIOUS
<1>1. start' = start
  BY StartStays
<1>2. CASE m' = m
  BY <1>1, <1>2 DEF AnswersOk
<1>3. CASE m'.pc \in {"idle", "call", "flo", "unlock"} /\ m'.answers = << >>
  BY <1>3 DEF AnswersOk, InTransfer
<1>4. CASE Handshake
  <2>1. CASE m'.pc = "call" /\ m'.answers = m.answers
    BY <1>1, <2>1 DEF AnswersOk, InTransfer
  <2>2. CASE /\ m'.pc = "send" /\ DOMAIN m'.answers = DOMAIN start.answers
             /\ \A k \in DOMAIN start.answers :
                  m'.answers[k] = [file |-> start.answers[k].file, flo |-> NoFlo, act |-> start.answers[k].act,
                                   status |-> "willsend"]
    <3>1. \A k \in DOMAIN start.answers :
            m'.answers[k].file = start.answers[k].file /\ m'.answers[k].act = start.answers[k].act
      <4> TAKE k \in DOMAIN start.answers
      <4> DEFINE a == start.answers[k].file
                 b == start.answers[k].act
      <4>1. m'.answers[k] = [file |-> a, flo |-> NoFlo, act |-> b, status |-> "willsend"]
        BY <2>2
      <4> HIDE DEF a, b
      <4>2. m'.answers[k].file = a /\ m'.answers[k].act = b
        BY <4>1
      <4> QED BY <4>2 DEF a, b
    <3> QED BY <1>1, <2>2, <3>1 DEF AnswersOk
  <2> QED BY <1>4, <2>1, <2>2, HandshakeIs
<1>5. CASE OpenFile
  BY <1>1, <1>5, OpenFileIs DEF AnswersOk, InTransfer
<1>6. CASE <<m.pc, m'.pc>> \in Course /\ m'.answers = m.answers
  BY <1>1, <1>6 DEF AnswersOk, InTransfer, Course
<1> QED BY <1>2, <1>3, <1>4, <1>5, <1>6, Moves

-----------------------------------------------------------------------------
(* Temporary files                                                          *)

\* What the tosser has still to do is the rest of what it had at the beginning.
JobsOk ==
  /\ Len(toss.jobs) <= Len(start.later)
  /\ \A k \in 1..Len(toss.jobs) : toss.jobs[k] = start.later[Len(start.later) - Len(toss.jobs) + k]

IsAnswer(s, f) == \E k \in DOMAIN s.answers : s.answers[k].file = f

\* The answers to requests are made for the session: nobody attaches them, and
\* temporary ones are not there before.
AnswersApart(s) ==
  \A k \in DOMAIN s.answers :
    /\ \A j \in DOMAIN s.later : s.later[j].file # s.answers[k].file
    /\ s.answers[k].act = "forceunlink" => s.answers[k].file \notin s.disk

\* Outside of a transfer there is no temporary file.
Temps ==
  used.crashes = 0 /\ m.pc \notin InTransfer =>
    \A k \in DOMAIN start.answers : start.answers[k].act = "forceunlink" => disk[start.answers[k].file] = "none"

LEMMA JobIs ==
  ASSUME TypeOK, JobsOk, toss.jobs # << >>
  PROVE  /\ Job \in JobToDo /\ Tail(toss.jobs) \in Seq(JobToDo)
         /\ Len(toss.jobs) \in Nat /\ Len(toss.jobs) > 0 /\ Len(Tail(toss.jobs)) = Len(toss.jobs) - 1
         /\ Len(start.later) \in Nat /\ Len(start.later) - Len(toss.jobs) + 1 \in DOMAIN start.later
         /\ Job = start.later[Len(start.later) - Len(toss.jobs) + 1]
<1>1. toss.jobs \in Seq(JobToDo) /\ start.later \in Seq(JobToDo)
  BY StartIs DEF TypeOK, TossOk
<1>2. Len(start.later) \in Nat /\ DOMAIN start.later = 1..Len(start.later)
  BY <1>1, LenProperties
<1>3. Job = toss.jobs[1] /\ Job \in JobToDo /\ Tail(toss.jobs) \in Seq(JobToDo) /\ Len(Tail(toss.jobs)) = Len(toss.jobs) - 1
      /\ Len(toss.jobs) \in Nat /\ Len(toss.jobs) > 0
  BY <1>1, HeadTailProperties, LenProperties, EmptySeq DEF Job
<1>4. 1 \in 1..Len(toss.jobs)
  BY <1>3
<1>5. Job = start.later[Len(start.later) - Len(toss.jobs) + 1]
  BY <1>3, <1>4 DEF JobsOk
<1>6. Len(start.later) - Len(toss.jobs) + 1 \in 1..Len(start.later)
  <2>1. Len(toss.jobs) <= Len(start.later)
    BY DEF JobsOk
  <2> DEFINE a == Len(toss.jobs)
             b == Len(start.later)
  <2>2. a \in Nat /\ b \in Nat /\ 0 < a /\ a <= b
    BY <1>2, <1>3, <2>1
  <2> HIDE DEF a, b
  <2>3. b - a + 1 \in 1..b
    BY <2>2
  <2> QED BY <2>3 DEF a, b
<1> QED BY <1>2, <1>3, <1>5, <1>6

LEMMA TossMoves ==
  ASSUME [Next]_vars
  PROVE  toss' = toss \/ Tosser
BY DEF Next, vars, StaleLock, Rest, Mailer, Faults, Call, NoSession, Handshake, OpenFile, NoMoreFiles, Stored, Skipped,
       Refused, Fails, MarkSent, Dispose, Cleanup, CheckFlo, UnlinkFlo, Unlock, Exit, Crash

LEMMA JobsStay == TypeOK /\ JobsOk /\ [Next]_vars => JobsOk'
<1> SUFFICES ASSUME TypeOK, JobsOk, [Next]_vars PROVE JobsOk'
  OBVIOUS
<1>1. start' = start /\ toss \in [pc : {"idle", "file", "line", "end"}, jobs : Seq(JobToDo)]
  BY StartStays DEF TypeOK, TossOk
<1>2. CASE toss' = toss
  BY <1>1, <1>2 DEF JobsOk
<1>3. CASE TossBegin \/ TossFile \/ TossEnd
  <2>1. toss'.jobs = toss.jobs
    BY <1>1, <1>3 DEF TossBegin, TossFile, TossEnd
  <2> QED BY <1>1, <2>1 DEF JobsOk
<1>4. CASE TossLine
  <2>1. toss.jobs # << >> /\ toss'.jobs = Tail(toss.jobs)
    BY <1>4 DEF TossLine, TypeOK, TossOk
  <2>2. toss.jobs \in Seq(JobToDo) /\ Len(toss.jobs) \in Nat /\ Len(start.later) \in Nat
        /\ Len(Tail(toss.jobs)) = Len(toss.jobs) - 1
    BY <1>1, <2>1, JobIs
  <2>3. \A k \in 1..Len(toss.jobs) - 1 : Tail(toss.jobs)[k] = toss.jobs[k + 1]
    BY <1>1, <2>1, <2>2, HeadTailProperties, SMTT(30)
  <2>4. ASSUME NEW k \in 1..Len(Tail(toss.jobs))
        PROVE  Tail(toss.jobs)[k] = start.later[Len(start.later) - Len(Tail(toss.jobs)) + k]
    <3> DEFINE a == Len(toss.jobs)
               b == Len(start.later)
               c == Len(Tail(toss.jobs))
    <3>1. k \in 1..a - 1 /\ k + 1 \in 1..a /\ b - a + (k + 1) = b - c + k
      <4>1. a \in Nat /\ b \in Nat /\ c = a - 1 /\ k \in 1..c
        BY <2>2, <2>4
      <4> HIDE DEF a, b, c
      <4> QED BY <4>1
    <3>2. toss.jobs[k + 1] = start.later[Len(start.later) - Len(toss.jobs) + (k + 1)]
      BY <3>1 DEF JobsOk
    <3> QED BY <2>3, <3>1, <3>2
  <2>5. Len(Tail(toss.jobs)) <= Len(start.later)
    BY <2>2 DEF JobsOk
  <2> QED BY <1>1, <2>1, <2>4, <2>5 DEF JobsOk
<1> QED BY <1>2, <1>3, <1>4, TossMoves DEF Tosser

\* The disk is changed by these steps only.
LEMMA DiskMoves ==
  ASSUME [Next]_vars
  PROVE  disk' = disk \/ Handshake \/ Dispose \/ Cleanup \/ TossFile
BY DEF Next, vars, StaleLock, Rest, Tosser, TossBegin, TossLine, TossEnd, Mailer, Faults, Call, NoSession,
       OpenFile, NoMoreFiles, Stored, Skipped, Refused, Fails, MarkSent, CheckFlo, UnlinkFlo, Unlock, Exit, Crash

LEMMA TempsStay ==
  TypeOK /\ TypeOK' /\ AnswersOk /\ JobsOk /\ AnswersApart(start) /\ Temps /\ [Next]_vars => Temps'
<1> SUFFICES ASSUME TypeOK, TypeOK', AnswersOk, JobsOk, AnswersApart(start), Temps, [Next]_vars,
                    used'.crashes = 0, m'.pc \notin InTransfer,
                    NEW k \in DOMAIN start.answers, start.answers[k].act = "forceunlink"
             PROVE  disk'[start.answers[k].file] = "none"
  BY StartStays DEF Temps
<1> DEFINE f == start.answers[k].file
<1>1. m \in MailerState /\ f \in File
  <2>1. start.answers \in Seq(Line) /\ m \in MailerState
    BY StartIs DEF TypeOK, MailerOk
  <2>2. start.answers[k] \in Line
    BY <2>1, LenProperties, ElementOfSeq
  <2> QED BY <2>1, <2>2 DEF Line
<1>2. used.crashes = 0 /\ ~Crash
  <2>1. used \in [bad : Nat, crashes : Nat] /\ used' \in [bad : Nat, crashes : Nat]
    BY DEF TypeOK
  <2>2. ~Crash
    <3> SUFFICES ASSUME Crash PROVE FALSE
      OBVIOUS
    <3>1. used' = [used EXCEPT !.crashes = used.crashes + 1]
      BY <2>1 DEF Crash
    <3> QED BY <2>1, <3>1
  <2>3. used' = used \/ \E x \in Nat : used' = [used EXCEPT !.bad = x]
    <3>1. used.bad + 1 \in Nat
      BY <2>1
    <3> QED BY <2>1, <2>2, <3>1 DEF Next, vars, StaleLock, Rest, Tosser, TossBegin, TossFile, TossLine, TossEnd, Mailer, Faults,
         Call, NoSession, Handshake, OpenFile, NoMoreFiles, Stored, Skipped, Refused, Fails, MarkSent, Dispose, Cleanup,
         CheckFlo, UnlinkFlo, Unlock, Exit
  <2> QED BY <2>1, <2>2, <2>3
<1>3. CASE Cleanup
  <2>1. m.pc \in InTransfer
    BY <1>3 DEF Cleanup, At, InTransfer
  <2>2. f \in Rubbish
    BY <2>1 DEF AnswersOk, Rubbish
  <2> QED BY <1>1, <1>3, <2>2 DEF Cleanup
<1>4. CASE ~Cleanup
  <2>1. m.pc \notin InTransfer
    <3>1. ~ (Call \/ Exit \/ Unlock) \/ m.pc \notin InTransfer
      BY DEF Call, Exit, Unlock, At, InTransfer
    <3>2. ~Handshake \/ m.pc \notin InTransfer
      BY DEF Handshake, At, InTransfer
    <3>3. ~OpenFile
      BY OpenFileIs DEF InTransfer
    <3>4. <<m.pc, m'.pc>> \in Course => m.pc \notin InTransfer
      BY DEF Course, InTransfer
    <3>5. CASE Call \/ Exit \/ Unlock \/ Handshake
      BY <3>1, <3>2, <3>5
    <3>6. CASE ~ (Call \/ Exit \/ Unlock \/ Handshake)
      <4>1. m' = m \/ <<m.pc, m'.pc>> \in Course
        BY <1>2, <1>4, <3>3, <3>6, Moves
      <4> QED BY <3>4, <4>1
    <3> QED BY <3>5, <3>6
  <2>2. disk[f] = "none"
    BY <1>2, <2>1 DEF Temps
  <2>3. CASE Handshake
    <3>1. disk' = disk
      BY <2>3, HandshakeIs DEF InTransfer
    <3> QED BY <2>2, <3>1
  <2>4. CASE TossFile
    <3>1. toss.jobs # << >>
      BY <2>4 DEF TossFile, TypeOK, TossOk
    <3>2. Job.file # f
      BY <3>1, JobIs DEF AnswersApart
    <3> QED BY <1>1, <2>2, <2>4, <3>2 DEF TossFile, TypeOK, DiskOk
  <2>5. ~Dispose
    BY <2>1 DEF Dispose, At, InTransfer
  <2> QED BY <1>4, <2>2, <2>3, <2>4, <2>5, DiskMoves
<1> QED BY <1>3, <1>4

\* Every temporary file is removed at the end of the session it was made for,
\* also if the session fails, whatever was sent of it and however it was
\* disposed of: p_session_cleanup misses none.
THEOREM TemporaryGone == Spec => [](AnswersApart(start) => NoTemporaryLeft)
<1> DEFINE Inv == AnswersOk /\ JobsOk /\ (AnswersApart(start) => Temps)
<1>1. Init => Inv
  <2> SUFFICES ASSUME Init PROVE Inv
    OBVIOUS
  <2>1. /\ start \in Starts /\ m = Idle /\ toss = [pc |-> "idle", jobs |-> start.later]
        /\ disk = [f \in File |-> IF f \in start.disk THEN "full" ELSE "none"]
    BY DEF Init
  <2>2. start \in Start
    BY <2>1, Constants
  <2>3. start.later \in Seq(JobToDo) /\ start.answers \in Seq(Line)
    BY <2>2 DEF Start, JobToDo
  <2>4. AnswersOk
    BY <2>1 DEF Idle, AnswersOk, InTransfer
  <2>5. JobsOk
    <3>1. Len(start.later) \in Nat /\ toss.jobs = start.later
      BY <2>1, <2>3, LenProperties
    <3>2. \A k \in 1..Len(start.later) : Len(start.later) - Len(start.later) + k = k
      BY <3>1
    <3> QED BY <3>1, <3>2 DEF JobsOk
  <2>6. ASSUME AnswersApart(start), NEW k \in DOMAIN start.answers, start.answers[k].act = "forceunlink"
        PROVE  disk[start.answers[k].file] = "none"
    <3>1. start.answers[k] \in Line
      BY <2>3, LenProperties, ElementOfSeq
    <3>2. start.answers[k].file \in File /\ start.answers[k].file \notin start.disk
      BY <2>6, <3>1 DEF AnswersApart, Line
    <3> QED BY <2>1, <3>2
  <2> QED BY <2>4, <2>5, <2>6 DEF Temps
<1>2. TypeOK /\ TypeOK' /\ Inv /\ [Next]_vars => Inv'
  BY AnswersStay, JobsStay, TempsStay, StartStays
<1>3. Inv => (AnswersApart(start) => NoTemporaryLeft)
  BY DEF Temps, NoTemporaryLeft, InTransfer, At
<1> QED BY <1>1, <1>2, <1>3, Types, PTL DEF Spec

-----------------------------------------------------------------------------
(* Nothing is forgotten                                                     *)

\* What an outbound must be like: the tosser is not at work in a call with
\* several methods; what is to be sent is attached, requests by their names;
\* the answers are not among it.
Orderly(s) ==
  /\ s.later = << >> \/ Len(s.methods) = 1
  /\ AnswersApart(s)
  /\ \A f \in s.disk : \/ f \in Named \/ IsAnswer(s, f)
                       \/ \E l \in Flo : \E k \in DOMAIN s.flo[l] : s.flo[l][k].file = f
  /\ \A l \in Flo : \A k \in DOMAIN s.flo[l] : Type[s.flo[l][k].file] # "request"
  /\ \A j \in DOMAIN s.later : IF s.later[j].flo = NoFlo THEN s.later[j].file \in Named
                               ELSE Type[s.later[j].file] # "request"

\* The mailer may look at the outbound, or change it.
Busy == m.pc \in InSession \/ (At("call") /\ m.methods # << >>)

\* The tosser works under the lock, and so does the mailer where the tosser
\* may come to work.
OneAtWork ==
  /\ toss.pc # "idle" => lock = "tosser"
  /\ start.later = << >> => toss.jobs = << >> /\ toss.pc = "idle"
  /\ Len(start.methods) = 1 =>
       /\ m.methods = << >> \/ m.methods = start.methods
       /\ m.pc \in InSession => m.methods = << >>
       /\ Busy => lock = "mailer"

LEMMA AloneIs ==
  ASSUME OneAtWork, Orderly(start), Busy
  PROVE  toss.pc = "idle" /\ ~Tosser
<1>1. toss.pc = "idle"
  BY DEF OneAtWork, Orderly
<1>2. lock = "mailer" \/ toss.jobs = << >>
  BY DEF OneAtWork, Orderly
<1> QED BY <1>1, <1>2 DEF Tosser, TossBegin, TossFile, TossLine, TossEnd

LEMMA OneStays == TypeOK /\ TypeOK' /\ OneAtWork /\ [Next]_vars => OneAtWork'
<1> SUFFICES ASSUME TypeOK, TypeOK', OneAtWork, [Next]_vars PROVE OneAtWork'
  OBVIOUS
<1>1. start' = start /\ m \in MailerState /\ toss \in [pc : {"idle", "file", "line", "end"}, jobs : Seq(JobToDo)]
  BY StartStays DEF TypeOK, MailerOk, TossOk
<1>2. /\ toss'.pc # "idle" => lock' = "tosser"
      /\ start.later = << >> => toss'.jobs = << >> /\ toss'.pc = "idle"
  <2>1. CASE Tosser
    BY <1>1, <2>1 DEF OneAtWork, Tosser, TossBegin, TossFile, TossLine, TossEnd, TypeOK, TossOk
  <2>2. CASE toss' = toss
    <3>1. lock = "tosser" => lock' = "tosser" \/ TossEnd
      BY DEF Next, vars, StaleLock, Rest, Tosser, TossBegin, TossFile, TossLine, Mailer, Faults, Call, NoSession,
             Handshake, OpenFile, NoMoreFiles, Stored, Skipped, Refused, Fails, MarkSent, Dispose, Cleanup, CheckFlo,
             UnlinkFlo, Unlock, Exit, Crash, Released
    <3>2. TossEnd => toss'.pc = "idle"
      BY <1>1 DEF TossEnd
    <3> QED BY <2>2, <3>1, <3>2 DEF OneAtWork
  <2> QED BY <2>1, <2>2, TossMoves
<1>3. ASSUME Len(start.methods) = 1
      PROVE  /\ m'.methods = << >> \/ m'.methods = start.methods
             /\ m'.pc \in InSession => m'.methods = << >>
             /\ Busy' => lock' = "mailer"
  <2>1. start.methods \in Seq({"binkp", "emsi"}) /\ Tail(start.methods) = << >>
    <3>1. start.methods \in Seq({"binkp", "emsi"}) /\ start.methods # << >>
      BY StartIs
    <3>2. Tail(start.methods) \in Seq({"binkp", "emsi"}) /\ Len(Tail(start.methods)) = 0
      BY <1>3, <3>1, HeadTailProperties
    <3> QED BY <3>1, <3>2, EmptySeq
  <2>2. /\ m.methods = << >> \/ m.methods = start.methods
        /\ m.pc \in InSession => m.methods = << >>
        /\ Busy => lock = "mailer"
    BY <1>3 DEF OneAtWork
  <2>3. CASE Call
    <3>1. m' = [Idle EXCEPT !.pc = "call", !.methods = start.methods] /\ lock' = "mailer"
      BY <2>3 DEF Call
    <3>2. m'.methods = start.methods /\ m'.pc = "call"
      BY <3>1 DEF Idle
    <3> QED BY <3>1, <3>2 DEF InSession
  <2>4. CASE Exit \/ Crash \/ (Unlock /\ m.ok)
    <3>1. m' = Idle
      BY <2>4 DEF Exit, Crash, Unlock
    <3>2. m'.methods = << >> /\ m'.pc = "idle"
      BY <3>1 DEF Idle
    <3> QED BY <3>2 DEF InSession, Busy, At
  <2>5. CASE Unlock /\ ~m.ok
    <3>1. m.pc \in InSession /\ m' = [m EXCEPT !.pc = "call"]
      BY <2>5 DEF Unlock, At, InSession
    <3>2. m'.pc = "call" /\ m'.methods = << >>
      BY <1>1, <2>2, <3>1 DEF MailerState
    <3> QED BY <3>2 DEF Busy, At, InSession
  <2>6. CASE NoSession
    <3>1. m.methods = start.methods /\ m.pc = "call" /\ m' = [m EXCEPT !.methods = Tail(start.methods)]
      BY <1>1, <2>2, <2>6 DEF NoSession, At, MailerState
    <3>2. m'.pc = "call" /\ m'.methods = << >>
      BY <1>1, <2>1, <3>1 DEF MailerState
    <3> QED BY <3>2 DEF Busy, At, InSession
  <2>7. CASE Handshake
    <3>1. At("call") /\ m.methods # << >> /\ m'.methods = Tail(m.methods)
          /\ lock' = IF lock \in {"free", "mailer"} THEN "mailer" ELSE lock
      BY <2>7, HandshakeIs
    <3>2. lock = "mailer"
      BY <2>2, <3>1 DEF Busy
    <3>3. m'.methods = << >>
      BY <2>1, <2>2, <3>1
    <3> QED BY <3>1, <3>2, <3>3
  <2>8. CASE OpenFile
    <3>1. m.pc \in InSession /\ m'.methods = m.methods /\ lock' = lock
      BY <2>8, OpenFileIs DEF InSession
    <3> QED BY <2>2, <3>1 DEF Busy
  <2>9. CASE NoMoreFiles \/ Cleanup \/ CheckFlo
    <3>1. m.pc \in InSession /\ m'.methods = m.methods /\ lock' = lock
      BY <1>1, <2>9 DEF NoMoreFiles, Cleanup, CheckFlo, NextFlo, At, InSession, MailerState
    <3> QED BY <2>2, <3>1 DEF Busy
  <2>10. CASE Stored
    <3> DEFINE reqs == IF IsRequest(Current) THEN m.reqs \cup {Current.file} ELSE m.reqs
    <3>1. m.pc = "xfer" /\ m' = [m EXCEPT !.pc = "mark", !.reqs = reqs] /\ lock' = lock
      BY <1>1, <2>10 DEF Stored, MailerState, At
    <3> HIDE DEF reqs
    <3>2. m.pc \in InSession /\ m'.methods = m.methods
      BY <1>1, <3>1 DEF MailerState, InSession
    <3> QED BY <2>2, <3>1, <3>2 DEF Busy
  <2>11. CASE Skipped \/ Refused \/ Fails \/ MarkSent \/ Dispose \/ UnlinkFlo
    <3>1. m.pc \in InSession /\ m'.methods = m.methods /\ lock' = lock
      BY <1>1, <2>11 DEF Skipped, Refused, Fails, MarkSent, Dispose, UnlinkFlo, NextFlo, Goes, At, InSession, MailerState
    <3> QED BY <2>2, <3>1 DEF Busy
  <2>12. CASE UNCHANGED vars \/ StaleLock \/ Tosser \/ Rest
    <3>1. m' = m
      BY <2>12 DEF vars, StaleLock, Rest, Tosser, TossBegin, TossFile, TossLine, TossEnd
    <3>2. lock = "mailer" => lock' = "mailer"
      BY <2>12 DEF vars, StaleLock, Rest, Tosser, TossBegin, TossFile, TossLine, TossEnd, OneAtWork
    <3> QED BY <2>2, <3>1, <3>2 DEF Busy, At
  <2> QED BY <2>3, <2>4, <2>5, <2>6, <2>7, <2>8, <2>9, <2>10, <2>11, <2>12 DEF Next, Mailer, Faults
<1> QED BY <1>1, <1>2, <1>3 DEF OneAtWork

\* No line asks for a request, and requests of the queue are left on the disk.
RequestsByName ==
  /\ \A l \in Flo : \A k \in DOMAIN flo[l].lines : Type[flo[l].lines[k].file] # "request"
  /\ \A k \in DOMAIN m.queue : IsRequest(m.queue[k]) => m.queue[k].act = "nothing"

\* A file that is about to be marked and removed need not be sent any more.
SentFirst == m.pc \in {"mark", "dispose"} => Current.file \in settled \/ IsRequest(Current)

\* A .?lo file is still empty when it is removed, a file is there when its line is written.
NothingBetween ==
  /\ At("unlink") => FloIsEmpty(m.flotab[m.i])
  /\ toss.pc = "line" => disk[Job.file] = "full"

LEMMA NotAnswer ==
  ASSUME TypeOK, JobsOk, Orderly(start), NEW f \in Asked
  PROVE  ~IsAnswer(start, f)
<1>1. CASE f \in start.disk /\ \A k \in DOMAIN start.answers : start.answers[k].file # f
  BY <1>1 DEF IsAnswer
<1>2. CASE \E k \in 1..(Len(start.later) - Len(toss.jobs)) : f = start.later[k].file
  <2>1. start.later \in Seq(JobToDo) /\ toss.jobs \in Seq(JobToDo)
    BY StartIs DEF TypeOK, TossOk
  <2>2. DOMAIN start.later = 1..Len(start.later) /\ Len(start.later) \in Nat /\ Len(toss.jobs) \in Nat
    BY <2>1, LenProperties
  <2>3. 1..(Len(start.later) - Len(toss.jobs)) \subseteq DOMAIN start.later
    <3> DEFINE a == Len(start.later)
               b == Len(toss.jobs)
    <3>1. a \in Nat /\ b \in Nat /\ DOMAIN start.later = 1..a
      BY <2>2
    <3> HIDE DEF a, b
    <3>2. 1..(a - b) \subseteq DOMAIN start.later
      BY <3>1
    <3> QED BY <3>2 DEF a, b
  <2> QED BY <1>2, <2>3 DEF Orderly, AnswersApart, IsAnswer
<1> QED BY <1>1, <1>2 DEF Asked

LEMMA MarkedIs ==
  ASSUME NEW ls \in Seq(FloLine), NEW f
  PROVE  /\ DOMAIN Marked(ls, f) = DOMAIN ls
         /\ \A k \in DOMAIN ls : Marked(ls, f)[k].file = ls[k].file /\ (ls[k].file # f => Marked(ls, f)[k] = ls[k])
         /\ \A k \in DOMAIN ls : Marked(ls, f)[k].act = ls[k].act /\ (ls[k].sent => Marked(ls, f)[k].sent)
         /\ (\A k \in DOMAIN ls : ls[k].file # f) => Marked(ls, f) = ls
         /\ (\A i, j \in DOMAIN ls : ls[i].file = f /\ ls[j].file = f => i = j) =>
               \A k \in DOMAIN ls : ls[k].file = f => Marked(ls, f)[k].sent
<1> DEFINE open == {k \in DOMAIN ls : ls[k].file = f /\ ~ls[k].sent}
           x == CHOOSE k \in open : \A j \in open : k <= j
<1>1. CASE open = {}
  BY <1>1 DEF Marked
<1>2. CASE open # {}
  <2>1. x \in open /\ x \in DOMAIN ls
    BY <1>2, FirstOpen
  <2>2. Marked(ls, f) = [ls EXCEPT ![x].sent = TRUE]
    BY <1>2 DEF Marked
  <2>3. ls[x].file = f
    BY <2>1
  <2> HIDE DEF x, open
  <2>4. DOMAIN Marked(ls, f) = DOMAIN ls
    BY <2>2
  <2>5. \A k \in DOMAIN ls : Marked(ls, f)[k] = IF k = x THEN [ls[x] EXCEPT !.sent = TRUE] ELSE ls[k]
    BY <2>1, <2>2
  <2>6. LET l == [ls[x] EXCEPT !.sent = TRUE] IN l.file = ls[x].file /\ l.act = ls[x].act /\ l.sent
    <3>1. ls[x] \in FloLine
      BY <2>1, LenProperties, ElementOfSeq
    <3> QED BY <3>1 DEF FloLine
  <2> QED BY <2>1, <2>3, <2>4, <2>5, <2>6
<1> QED BY <1>1, <1>2

\* The .?lo files are changed by these steps only.
LEMMA FloMoves ==
  ASSUME [Next]_vars
  PROVE  flo' = flo \/ MarkSent \/ UnlinkFlo \/ TossLine
BY DEF Next, vars, StaleLock, Rest, Tosser, TossBegin, TossFile, TossEnd, Mailer, Faults, Call, NoSession, Handshake,
       OpenFile, NoMoreFiles, Stored, Skipped, Refused, Fails, Dispose, Cleanup, CheckFlo, Unlock, Exit, Crash

\* What these steps make of a .?lo file.
LEMMA MarkSentIs ==
  ASSUME TypeOK, MarkSent, NEW l \in Flo
  PROVE  /\ flo'[l].there = flo[l].there /\ DOMAIN flo'[l].lines = DOMAIN flo[l].lines
         /\ \A k \in DOMAIN flo[l].lines :
              /\ flo'[l].lines[k].file = flo[l].lines[k].file /\ flo'[l].lines[k].act = flo[l].lines[k].act
              /\ flo[l].lines[k].sent => flo'[l].lines[k].sent
              /\ flo[l].lines[k].file # Current.file => flo'[l].lines[k] = flo[l].lines[k]
         /\ (\A k \in DOMAIN flo[l].lines : flo[l].lines[k].file # Current.file) => flo'[l] = flo[l]
         /\ /\ Current.flo = l
            /\ \A i, j \in DOMAIN flo[l].lines :
                 flo[l].lines[i].file = Current.file /\ flo[l].lines[j].file = Current.file => i = j
            => \A k \in DOMAIN flo[l].lines : flo[l].lines[k].file = Current.file => flo'[l].lines[k].sent
<1>1. flo[l].lines \in Seq(FloLine) /\ flo \in [Flo -> [there : BOOLEAN, lines : Seq(FloLine)]]
  BY DEF TypeOK, DiskOk
<1>2. CASE Current.flo = NoFlo \/ Current.flo # l
  BY <1>1, <1>2, Constants DEF MarkSent
<1>3. CASE Current.flo # NoFlo /\ Current.flo = l
  <2> DEFINE ls == Marked(flo[l].lines, Current.file)
  <2>1. flo' = [flo EXCEPT ![l].lines = ls]
    BY <1>3 DEF MarkSent
  <2>2. /\ DOMAIN ls = DOMAIN flo[l].lines
        /\ \A k \in DOMAIN flo[l].lines :
             /\ ls[k].file = flo[l].lines[k].file /\ ls[k].act = flo[l].lines[k].act
             /\ flo[l].lines[k].sent => ls[k].sent
             /\ flo[l].lines[k].file # Current.file => ls[k] = flo[l].lines[k]
        /\ /\ \A i, j \in DOMAIN flo[l].lines :
                flo[l].lines[i].file = Current.file /\ flo[l].lines[j].file = Current.file => i = j
           => \A k \in DOMAIN flo[l].lines : flo[l].lines[k].file = Current.file => ls[k].sent
        /\ (\A k \in DOMAIN flo[l].lines : flo[l].lines[k].file # Current.file) => ls = flo[l].lines
    BY <1>1, MarkedIs
  <2> HIDE DEF ls
  <2>3. flo'[l] = [flo[l] EXCEPT !.lines = ls]
    BY <1>1, <2>1
  <2>4. flo'[l].there = flo[l].there /\ flo'[l].lines = ls
    BY <1>1, <2>3
  <2>5. ls = flo[l].lines => flo'[l] = flo[l]
    BY <1>1, <2>3
  <2> QED BY <2>2, <2>4, <2>5
<1> QED BY <1>2, <1>3

LEMMA TossLineIs ==
  ASSUME TypeOK, TossLine, NEW l \in Flo
  PROVE  IF Job.flo = l
         THEN /\ flo'[l].there /\ DOMAIN flo'[l].lines = DOMAIN flo[l].lines \cup {Len(flo[l].lines) + 1}
              /\ \A k \in DOMAIN flo[l].lines : flo'[l].lines[k] = flo[l].lines[k]
              /\ flo'[l].lines[Len(flo[l].lines) + 1].file = Job.file /\ ~flo'[l].lines[Len(flo[l].lines) + 1].sent
              /\ flo'[l].lines[Len(flo[l].lines) + 1].act = Job.act
         ELSE flo'[l] = flo[l]
<1>1. flo[l].lines \in Seq(FloLine) /\ flo \in [Flo -> [there : BOOLEAN, lines : Seq(FloLine)]] /\ NoFlo \notin Flo
  BY Constants DEF TypeOK, DiskOk
<1>2. CASE Job.flo # l
  BY <1>1, <1>2 DEF TossLine
<1>3. CASE Job.flo = l
  <2> DEFINE ls == flo[l].lines
             n == Len(ls)
  <2>1. flo'[l] = [there |-> TRUE, lines |-> Append(ls, Unsent(Job))]
    BY <1>1, <1>3 DEF TossLine
  <2>2. flo'[l].there /\ flo'[l].lines = Append(ls, Unsent(Job))
    BY <2>1
  <2>3. Unsent(Job).file = Job.file /\ Unsent(Job).act = Job.act /\ ~Unsent(Job).sent /\ Unsent(Job) \in FloLine
    <3>1. Job \in JobToDo
      BY HeadTailProperties DEF Job, TossLine, TypeOK, TossOk
    <3> QED BY <3>1 DEF Unsent, JobToDo, FloLine
  <2>4. n \in Nat /\ DOMAIN ls = 1..n
    BY <1>1, LenProperties
  <2> DEFINE as == Append(ls, Unsent(Job))
  <2>5. as \in Seq(FloLine) /\ Len(as) = n + 1 /\ (\A k \in 1..n : as[k] = ls[k]) /\ as[n + 1] = Unsent(Job)
    BY <1>1, <2>3, AppendProperties
  <2>6. DOMAIN as = 1..(n + 1)
    BY <2>5, LenProperties
  <2> HIDE DEF as, n
  <2>7. DOMAIN as = DOMAIN ls \cup {n + 1} /\ (\A k \in DOMAIN ls : as[k] = ls[k]) /\ as[n + 1].file = Job.file /\ ~as[n + 1].sent /\ as[n + 1].act = Job.act
    <3>1. 1..(n + 1) = 1..n \cup {n + 1}
      BY <2>4
    <3> QED BY <2>3, <2>4, <2>5, <2>6, <3>1
  <2>8. flo'[l].lines = as
    BY <2>2 DEF as
  <2> QED BY <1>3, <2>2, <2>7, <2>8 DEF n
<1> QED BY <1>2, <1>3

LEMMA ByNameStays ==
  TypeOK /\ JobsOk /\ Orderly(start) /\ RequestsByName /\ [Next]_vars => RequestsByName'
<1> SUFFICES ASSUME TypeOK, JobsOk, Orderly(start), RequestsByName, [Next]_vars PROVE RequestsByName'
  OBVIOUS
<1>1. ASSUME NEW l \in Flo, NEW k \in DOMAIN flo'[l].lines PROVE Type[flo'[l].lines[k].file] # "request"
  <2>1. CASE flo' = flo
    BY <1>1, <2>1 DEF RequestsByName
  <2>2. CASE MarkSent
    BY <1>1, <2>2, MarkSentIs DEF RequestsByName
  <2>3. CASE UnlinkFlo
    <3>1. flo'[l].lines = << >> \/ flo'[l] = flo[l]
      BY <2>3 DEF UnlinkFlo, TypeOK, DiskOk
    <3> QED BY <1>1, <3>1 DEF RequestsByName
  <2>4. CASE TossLine
    <3>1. CASE Job.flo = l
      <4>1. toss.jobs # << >>
        BY <2>4 DEF TossLine, TypeOK, TossOk
      <4>2. Type[Job.file] # "request"
        BY <3>1, <4>1, JobIs, Constants DEF Orderly
      <4> QED BY <1>1, <2>4, <3>1, <4>2, TossLineIs DEF RequestsByName
    <3>2. CASE Job.flo # l
      <4>1. flo'[l] = flo[l]
        BY <2>4, <3>2, TossLineIs
      <4> QED BY <1>1, <4>1 DEF RequestsByName
    <3> QED BY <3>1, <3>2
  <2> QED BY <2>1, <2>2, <2>3, <2>4, FloMoves
<1>2. ASSUME NEW k \in DOMAIN m'.queue, IsRequest(m'.queue[k]) PROVE m'.queue[k].act = "nothing"
  <2>1. CASE m' = m \/ m'.queue = m.queue
    BY <1>2, <2>1 DEF RequestsByName
  <2>2. CASE m'.queue = << >>
    BY <1>2, <2>2
  <2>3. CASE OpenFile
    BY <1>2, <2>3, OpenFileIs DEF RequestsByName, IsRequest
  <2>4. CASE Handshake /\ m'.queue # m.queue
    <3>1. PICK e \in {m.queue[i] : i \in DOMAIN m.queue} \cup NamedEntry \cup LineEntry :
            m'.queue[k].file = e.file /\ m'.queue[k].flo = e.flo /\ m'.queue[k].act = e.act
      BY <1>2, <2>4, HandshakeIs
    <3>2. IsRequest(e)
      BY <1>2, <3>1 DEF IsRequest
    <3>3. e \notin LineEntry
      BY <3>2 DEF LineEntry, RequestsByName, IsRequest
    <3>4. e \in NamedEntry => e.act = "nothing"
      BY <3>2 DEF NamedEntry, NameAction, IsRequest
    <3>5. e \in {m.queue[i] : i \in DOMAIN m.queue} => e.act = "nothing"
      BY <3>2 DEF RequestsByName
    <3> QED BY <3>1, <3>3, <3>4, <3>5
  <2> QED BY <2>1, <2>2, <2>3, <2>4, Moves
<1> QED BY <1>1, <1>2 DEF RequestsByName

LEMMA SettledGrows == [Next]_vars => settled \subseteq settled'
BY DEF Next, vars, StaleLock, Rest, Tosser, TossBegin, TossFile, TossLine, TossEnd, Mailer, Faults, Call, NoSession,
       Handshake, OpenFile, NoMoreFiles, Stored, Skipped, Refused, Fails, MarkSent, Dispose, Cleanup, CheckFlo,
       UnlinkFlo, Unlock, Exit, Crash

LEMMA SentFirstStays == TypeOK /\ SentFirst /\ [Next]_vars => SentFirst'
<1> SUFFICES ASSUME TypeOK, SentFirst, [Next]_vars, m'.pc \in {"mark", "dispose"}
             PROVE  Current' \in {Current} /\ (Current.file \in settled' \/ IsRequest(Current))
  BY DEF SentFirst, IsRequest
<1>1. m \in MailerState /\ settled \subseteq settled'
  BY SettledGrows DEF TypeOK, MailerOk
<1>2. CASE m' = m
  BY <1>1, <1>2 DEF SentFirst, Current
<1>3. CASE ~ m' = m
  <2>1. /\ <<m.pc, m'.pc>> \in Course /\ m'.queue = m.queue /\ m'.answers = m.answers /\ m'.cur = m.cur
    <3>1. ~Handshake
      BY HandshakeIs
    <3>2. ~OpenFile
      BY OpenFileIs
    <3> QED BY <1>3, <3>1, <3>2, Moves
  <2>2. Current' = Current
    BY <2>1 DEF Current
  <2>3. <<m.pc, m'.pc>> \in {<<"xfer", "mark">>, <<"mark", "dispose">>}
    BY <2>1 DEF Course
  <2>4. CASE m.pc = "mark"
    BY <1>1, <2>2, <2>4 DEF SentFirst
  <2>5. CASE m.pc = "xfer" /\ m'.pc = "mark"
    <3>1. Stored \/ Skipped
      <4>1. ~ (Refused \/ Fails)
        BY <1>1, <2>5 DEF Refused, Fails, Goes, MailerState
      <4> QED BY <1>3, <2>5, <4>1 DEF Next, vars, StaleLock, Rest, Tosser, TossBegin, TossFile, TossLine, TossEnd, Mailer,
           Faults, Call, NoSession, Handshake, OpenFile, NoMoreFiles, MarkSent, Dispose, Cleanup, CheckFlo, UnlinkFlo,
           Unlock, Exit, Crash, At, Idle
    <3> QED BY <2>2, <3>1 DEF Stored, Skipped
  <2> QED BY <2>2, <2>3, <2>4, <2>5
<1> QED BY <1>2, <1>3

LEMMA BetweenStays ==
  TypeOK /\ JobsOk /\ OneAtWork /\ Orderly(start) /\ NothingBetween /\ [Next]_vars => NothingBetween'
<1> SUFFICES ASSUME TypeOK, JobsOk, OneAtWork, Orderly(start), NothingBetween, [Next]_vars PROVE NothingBetween'
  OBVIOUS
<1>1. m \in MailerState /\ toss \in [pc : {"idle", "file", "line", "end"}, jobs : Seq(JobToDo)]
  BY DEF TypeOK, MailerOk, TossOk
<1>2. ASSUME m'.pc = "unlink" PROVE FloIsEmpty(m.flotab[m.i])' 
  <2>1. CASE m' = m
    <3>1. Busy /\ FloIsEmpty(m.flotab[m.i])
      BY <1>2, <2>1 DEF Busy, InSession, NothingBetween, At
    <3>2. ~Tosser
      BY <3>1, AloneIs
    <3>3. ~ (MarkSent \/ UnlinkFlo \/ Handshake \/ Dispose \/ Cleanup)
      <4>1. ~ (MarkSent \/ Handshake \/ Dispose \/ Cleanup)
        BY <1>2, <2>1 DEF MarkSent, Handshake, Dispose, Cleanup, At
      <4>2. ~UnlinkFlo
        <5> SUFFICES ASSUME UnlinkFlo PROVE FALSE
          OBVIOUS
        <5>1. m' = [m EXCEPT !.pc = "flo", !.i = m.i + 1]
          BY <1>1 DEF UnlinkFlo, NextFlo, MailerState
        <5> QED BY <1>1, <1>2, <5>1 DEF MailerState
      <4> QED BY <4>1, <4>2
    <3>4. flo' = flo /\ disk' = disk
      BY <3>2, <3>3, FloMoves, DiskMoves DEF Tosser
    <3> QED BY <2>1, <3>1, <3>4 DEF FloIsEmpty, OpenLines
  <2>2. CASE ~ m' = m
    <3>1. CheckFlo
      <4>1. ~Handshake /\ ~OpenFile
        BY <1>2, HandshakeIs, OpenFileIs
      <4>2. <<m.pc, m'.pc>> \in Course
        BY <1>2, <2>2, <4>1, Moves
      <4>3. m.pc = "flo"
        BY <1>2, <4>2 DEF Course
      <4>4. ~Unlock
        <5> SUFFICES ASSUME Unlock PROVE FALSE
          OBVIOUS
        <5>1. m' = Idle \/ m' = [m EXCEPT !.pc = "call"]
          BY DEF Unlock
        <5> QED BY <1>1, <1>2, <5>1 DEF Idle, MailerState
      <4>5. ~Crash
        BY <1>2 DEF Crash, Idle
      <4> QED BY <2>2, <4>1, <4>3, <4>4, <4>5 DEF Next, vars, StaleLock, Rest, Tosser, TossBegin, TossFile, TossLine, TossEnd,
           Mailer, Faults, Call, NoSession, NoMoreFiles, Stored, Skipped, Refused, Fails, MarkSent, Dispose, Cleanup,
           UnlinkFlo, Exit, At
    <3>2. FloIsEmpty(m.flotab[m.i]) /\ m' = [m EXCEPT !.pc = "unlink"] /\ flo' = flo /\ disk' = disk
      BY <1>1, <1>2, <3>1 DEF CheckFlo, NextFlo, MailerState, At
    <3>3. m'.flotab = m.flotab /\ m'.i = m.i
      BY <1>1, <3>2 DEF MailerState
    <3> QED BY <3>2, <3>3 DEF FloIsEmpty, OpenLines
  <2> QED BY <2>1, <2>2
<1>3. ASSUME toss'.pc = "line" PROVE disk'[Job'.file] = "full"
  <2>1. CASE toss' = toss
    <3>1. ~Busy /\ disk[Job.file] = "full"
      BY <1>3, <2>1, AloneIs DEF NothingBetween
    <3>2. ~ (Handshake \/ Dispose \/ Cleanup)
      BY <3>1 DEF Busy, InSession, Handshake, Dispose, Cleanup, At
    <3>3. ~TossFile
      BY <1>1, <1>3, <2>1 DEF TossFile
    <3> QED BY <2>1, <3>1, <3>2, <3>3, DiskMoves DEF Job
  <2>2. CASE ~ toss' = toss
    <3>1. TossFile
      BY <1>1, <1>3, <2>2, TossMoves DEF Tosser, TossBegin, TossLine, TossEnd
    <3>2. Job \in JobToDo /\ toss'.jobs = toss.jobs
      BY <1>1, <3>1, JobIs DEF TossFile, TypeOK, TossOk
    <3> QED BY <3>1, <3>2 DEF TossFile, Job, JobToDo, TypeOK, DiskOk
  <2> QED BY <2>1, <2>2
<1> QED BY <1>2, <1>3 DEF NothingBetween, At

\* Whether a file is there and attached.
Kept(f) == disk[f] = "full" /\ Attached(f)
Owed(f) == got[f] = 0 \/ Type[f] = "request"

\* The files that have been asked for grow with the tosser's lines.
LEMMA AskedIs ==
  ASSUME TypeOK, JobsOk, [Next]_vars
  PROVE  IF TossLine THEN Asked' = Asked \cup {Job.file} ELSE Asked' = Asked
<1>1. start' = start /\ toss \in [pc : {"idle", "file", "line", "end"}, jobs : Seq(JobToDo)]
  BY StartStays DEF TypeOK, TossOk
<1>2. CASE ~TossLine
  <2>1. toss'.jobs = toss.jobs
    BY <1>1, <1>2, TossMoves DEF Tosser, TossBegin, TossFile, TossEnd
  <2> QED BY <1>1, <1>2, <2>1 DEF Asked
<1>3. CASE TossLine
  <2> DEFINE a == Len(start.later)
             b == Len(toss.jobs)
             c == Len(toss'.jobs)
  <2>1. toss.jobs # << >> /\ toss'.jobs = Tail(toss.jobs)
    BY <1>3 DEF TossLine, TypeOK, TossOk
  <2>2. a \in Nat /\ b \in Nat /\ c = b - 1 /\ b > 0 /\ b <= a /\ Job = start.later[a - b + 1]
    BY <2>1, JobIs DEF JobsOk
  <2>3. start.later[a - b + 1].file = Job.file
    BY <2>2
  <2> HIDE DEF a, b, c
  <2>4. 1..(a - c) = 1..(a - b) \cup {a - b + 1}
    BY <2>2
  <2>5. {start.later[k].file : k \in 1..(a - c)} = {start.later[k].file : k \in 1..(a - b)} \cup {Job.file}
    BY <2>3, <2>4
  <2> DEFINE D == {g \in File : g \in start.disk /\ \A k \in DOMAIN start.answers : start.answers[k].file # g}
  <2>6. Asked = D \cup {start.later[k].file : k \in 1..(a - b)}
    BY DEF Asked, a, b
  <2>7. Asked' = D \cup {start.later[k].file : k \in 1..(a - c)}
    BY <1>1 DEF Asked, a, c
  <2> HIDE DEF D
  <2> QED BY <1>3, <2>5, <2>6, <2>7
<1> QED BY <1>2, <1>3

LEMMA AskedFiles == ASSUME TypeOK, JobsOk PROVE Asked \subseteq File
<1>1. start \in Start /\ start.later \in Seq(JobToDo) /\ toss.jobs \in Seq(JobToDo)
  BY StartIs, Constants DEF TypeOK, TossOk
<1>2. /\ DOMAIN start.later = 1..Len(start.later) /\ Len(start.later) \in Nat /\ Len(toss.jobs) \in Nat
      /\ \A k \in DOMAIN start.later : start.later[k] \in JobToDo
  BY <1>1, LenProperties, ElementOfSeq
<1> DEFINE a == Len(start.later)
           b == Len(toss.jobs)
<1>3. 1..(a - b) \subseteq DOMAIN start.later
  <2>1. a \in Nat /\ b \in Nat /\ DOMAIN start.later = 1..a
    BY <1>2
  <2> HIDE DEF a, b
  <2> QED BY <2>1
<1>4. \A k \in 1..(a - b) : start.later[k].file \in File
  BY <1>2, <1>3 DEF JobToDo
<1>5. start.disk \subseteq File
  BY <1>1 DEF Start
<1> QED BY <1>4, <1>5 DEF Asked

\* What the remote has once stored, it has.
LEMMA OwedIs == ASSUME TypeOK, [Next]_vars, NEW f \in File, Owed(f)' PROVE Owed(f)
<1>1. got \in [File -> Nat]
  BY DEF TypeOK
<1>2. ASSUME NEW g, Gets(g), got'[f] = 0 PROVE got[f] = 0
  BY <1>1, <1>2 DEF Gets
<1>3. got' = got \/ \E g : Gets(g)
  BY DEF Next, vars, StaleLock, Rest, Tosser, TossBegin, TossFile, TossLine, TossEnd, Mailer, Faults, Call, NoSession,
         Handshake, OpenFile, NoMoreFiles, Stored, Skipped, Refused, Fails, MarkSent, Dispose, Cleanup, CheckFlo,
         UnlinkFlo, Unlock, Exit, Crash
<1> QED BY <1>2, <1>3 DEF Owed

LEMMA ForgottenStays ==
  /\ TypeOK /\ TypeOK' /\ AnswersOk /\ JobsOk /\ OneAtWork /\ Orderly(start)
  /\ RequestsByName /\ SentFirst /\ NothingBetween /\ NothingForgotten /\ [Next]_vars
  => NothingForgotten'
<1> SUFFICES ASSUME TypeOK, TypeOK', AnswersOk, JobsOk, OneAtWork, Orderly(start),
                    RequestsByName, SentFirst, NothingBetween, NothingForgotten, [Next]_vars,
                    NEW f \in Asked', f \notin settled', Owed(f)'
             PROVE  Kept(f)'
  BY DEF NothingForgotten, Kept, Owed
<1>1. /\ m \in MailerState /\ disk \in [File -> {"none", "full", "empty"}]
      /\ flo \in [Flo -> [there : BOOLEAN, lines : Seq(FloLine)]] /\ toss.jobs \in Seq(JobToDo)
      /\ toss \in [pc : {"idle", "file", "line", "end"}, jobs : Seq(JobToDo)]
  BY DEF TypeOK, MailerOk, DiskOk, TossOk
<1>2. CASE TossLine
  <2>1. toss.jobs # << >> /\ disk[Job.file] = "full" /\ disk' = disk
    BY <1>2 DEF TossLine, TypeOK, TossOk, NothingBetween
  <2>2. Job \in JobToDo /\ (Job.flo = NoFlo => Job.file \in Named)
    BY <2>1, JobIs DEF Orderly
  <2>3. CASE f = Job.file
    <3>1. CASE Job.flo = NoFlo
      BY <2>1, <2>2, <2>3, <3>1 DEF Kept, Attached
    <3>2. CASE Job.flo # NoFlo
      <4> DEFINE l == Job.flo
                 k == Len(flo[l].lines) + 1
      <4>1. l \in Flo
        BY <2>2, <3>2 DEF JobToDo
      <4>2. flo'[l].there /\ k \in DOMAIN flo'[l].lines /\ flo'[l].lines[k].file = f /\ ~flo'[l].lines[k].sent
        BY <1>2, <2>3, <4>1, TossLineIs
      <4> QED BY <2>1, <2>3, <4>1, <4>2 DEF Kept, Attached, OpenLines
    <3> QED BY <3>1, <3>2
  <2>4. CASE f # Job.file
    <3>1. f \in Asked \ settled /\ f \in File /\ Owed(f)
      <4>1. f \in Asked /\ f \notin settled
        BY <1>2, <2>4, AskedIs, SettledGrows
      <4> QED BY <4>1, AskedFiles, OwedIs
    <3>2. Kept(f)
      BY <3>1 DEF NothingForgotten, Kept, Owed
    <3>3. CASE f \in Named /\ disk[f] # "none"
      BY <2>1, <3>2, <3>3 DEF Kept, Attached
    <3>4. CASE \E l \in Flo : \E k \in OpenLines(l) : flo[l].lines[k].file = f
      <4>1. PICK l \in Flo : \E k \in OpenLines(l) : flo[l].lines[k].file = f
        BY <3>4
      <4>2. PICK k \in OpenLines(l) : flo[l].lines[k].file = f
        BY <4>1
      <4>3. k \in DOMAIN flo[l].lines /\ flo[l].there /\ ~flo[l].lines[k].sent
        BY <4>2 DEF OpenLines
      <4>4. flo'[l].there /\ k \in DOMAIN flo'[l].lines /\ flo'[l].lines[k] = flo[l].lines[k]
        <5>1. CASE Job.flo = l
          BY <1>2, <4>3, <5>1, TossLineIs
        <5>2. CASE Job.flo # l
          <6>1. flo'[l] = flo[l]
            BY <1>2, <5>2, TossLineIs
          <6> QED BY <4>3, <6>1
        <5> QED BY <5>1, <5>2
      <4> QED BY <2>1, <3>2, <4>2, <4>3, <4>4 DEF Kept, Attached, OpenLines
    <3> QED BY <3>2, <3>3, <3>4 DEF Kept, Attached
  <2> QED BY <2>3, <2>4
<1>3. CASE ~TossLine
  <2>1. f \in Asked \ settled /\ f \in File /\ Owed(f)
    <3>1. f \in Asked /\ f \notin settled
      BY <1>3, AskedIs, SettledGrows
    <3> QED BY <3>1, AskedFiles, OwedIs
  <2>2. Kept(f)
    BY <2>1 DEF NothingForgotten, Kept, Owed
  <2>3. disk'[f] = "full"
    <3>1. CASE Handshake \/ TossFile
      BY <1>1, <2>1, <2>2, <3>1, HandshakeIs DEF Kept, TossFile
    <3>2. CASE Dispose
      <4> DEFINE c == Current
      <4>1. m.pc = "dispose" /\ c \in Entry
        BY <3>2, CurrentIs DEF Dispose, At, OnFile
      <4>2. CASE f # c.file
        BY <1>1, <2>1, <2>2, <3>2, <4>2 DEF Dispose, Kept
      <4>3. CASE f = c.file
        <5>1. IsRequest(c)
          BY <2>1, <4>1, <4>3 DEF SentFirst
        <5>2. CASE \E k \in DOMAIN m.queue : k > 0 /\ k = m.cur /\ c = m.queue[k]
          <6>1. c.act = "nothing"
            BY <5>1, <5>2 DEF RequestsByName
          <6> HIDE DEF c
          <6>2. disk' = [disk EXCEPT ![c.file] = disk[c.file]]
            BY <3>2, <6>1 DEF Dispose, c
          <6> QED BY <1>1, <2>1, <2>2, <6>2 DEF Kept
        <5>3. CASE \E k \in DOMAIN m.answers : c = m.answers[k]
          BY <2>1, <4>3, <5>3, NotAnswer DEF AnswersOk, IsAnswer
        <5> QED BY <4>1, <5>2, <5>3, CurrentIs DEF OnFile
      <4> QED BY <4>2, <4>3
    <3>3. CASE Cleanup
      <4>1. f \notin m.reqs \/ ~m.ok
        BY <3>3, <2>1 DEF Cleanup
      <4>2. \A k \in DOMAIN m.answers : m.answers[k].file # f
        BY <2>1, NotAnswer DEF AnswersOk, IsAnswer
      <4>3. f \notin Rubbish
        BY <4>1, <4>2 DEF Rubbish
      <4> QED BY <1>1, <2>1, <2>2, <3>3, <4>3 DEF Cleanup, Kept
    <3> QED BY <2>2, <3>1, <3>2, <3>3, DiskMoves DEF Kept
  <2>4. CASE f \in Named
    BY <2>3, <2>4 DEF Kept, Attached
  <2>5. CASE f \notin Named
    <3>1. PICK l \in Flo : \E k \in OpenLines(l) : flo[l].lines[k].file = f
      BY <2>2, <2>5 DEF Kept, Attached
    <3>2. PICK k \in OpenLines(l) : flo[l].lines[k].file = f
      BY <3>1
    <3>3. k \in DOMAIN flo[l].lines /\ flo[l].there /\ ~flo[l].lines[k].sent
      BY <3>2 DEF OpenLines
    <3>4. flo'[l].there /\ k \in DOMAIN flo'[l].lines /\ flo'[l].lines[k] = flo[l].lines[k]
      <4>1. CASE flo' = flo
        BY <3>3, <4>1
      <4>2. CASE MarkSent
        <5>1. f # Current.file
          <6>1. m.pc = "mark"
            BY <4>2 DEF MarkSent, At
          <6>2. Type[f] # "request"
            BY <3>2, <3>3 DEF RequestsByName
          <6> QED BY <2>1, <6>1, <6>2, SettledGrows DEF SentFirst, IsRequest
        <5> QED BY <3>2, <3>3, <4>2, <5>1, MarkSentIs
      <4>3. CASE UnlinkFlo
        <5>1. m.flotab[m.i] # l
          BY <2>2, <3>2, <4>3 DEF UnlinkFlo, NothingBetween, FloIsEmpty, Kept
        <5>2. flo'[l] = flo[l]
          BY <1>1, <4>3, <5>1 DEF UnlinkFlo
        <5> QED BY <3>3, <5>2
      <4> QED BY <1>3, <4>1, <4>2, <4>3, FloMoves
    <3> QED BY <2>3, <3>2, <3>3, <3>4 DEF Kept, Attached, OpenLines
  <2> QED BY <2>4, <2>5 DEF Kept, Attached
<1> QED BY <1>2, <1>3

\* A file somebody attached is on the disk and attached until the remote has
\* stored it or does not want it (a request: until a session in which it was
\* sent has ended well), wherever calls fail, are repeated with other methods
\* or end in a crash, and whatever the tosser adds between them.
THEOREM Remembered == Spec => [](Orderly(start) => NothingForgotten)
<1> DEFINE Inv == /\ AnswersOk /\ JobsOk /\ OneAtWork
                  /\ Orderly(start) => RequestsByName /\ SentFirst /\ NothingBetween /\ NothingForgotten
<1>1. Init => Inv
  <2> SUFFICES ASSUME Init PROVE Inv
    OBVIOUS
  <2>1. /\ start \in Starts /\ m = Idle /\ toss = [pc |-> "idle", jobs |-> start.later] /\ lock = "free"
        /\ disk = [f \in File |-> IF f \in start.disk THEN "full" ELSE "none"]
        /\ flo = [l \in Flo |-> [there |-> start.flo[l] # << >>,
                                 lines |-> [k \in DOMAIN start.flo[l] |-> Unsent(start.flo[l][k])]]]
    BY DEF Init
  <2>2. start \in Start
    BY <2>1, Constants
  <2>3. start.later \in Seq(JobToDo) /\ Len(start.later) \in Nat /\ start.disk \subseteq File
    BY <2>2, LenProperties DEF Start, JobToDo
  <2>4. m.pc = "idle" /\ m.queue = << >> /\ m.answers = << >> /\ m.methods = << >>
    BY <2>1 DEF Idle
  <2>5. AnswersOk
    BY <2>4 DEF AnswersOk, InTransfer
  <2>6. JobsOk
    <3>1. toss.jobs = start.later
      BY <2>1
    <3>2. \A k \in 1..Len(start.later) : Len(start.later) - Len(start.later) + k = k
      BY <2>3
    <3> QED BY <2>3, <3>1, <3>2 DEF JobsOk
  <2>7. OneAtWork
    BY <2>1, <2>4 DEF OneAtWork, Busy, InSession, At
  <2>8. ASSUME Orderly(start) PROVE RequestsByName /\ SentFirst /\ NothingBetween /\ NothingForgotten
    <3>1. \A l \in Flo : \A k \in DOMAIN start.flo[l] :
            /\ flo[l].there /\ k \in DOMAIN flo[l].lines
            /\ flo[l].lines[k].file = start.flo[l][k].file /\ ~flo[l].lines[k].sent
      <4> TAKE l \in Flo
      <4> TAKE k \in DOMAIN start.flo[l]
      <4>1. start.flo[l] # << >>
        OBVIOUS
      <4> QED BY <2>1, <4>1 DEF Unsent
    <3>2. \A l \in Flo : DOMAIN flo[l].lines = DOMAIN start.flo[l]
      BY <2>1
    <3>3. RequestsByName
      BY <2>4, <2>8, <3>1, <3>2 DEF RequestsByName, Orderly
    <3>4. SentFirst /\ NothingBetween
      BY <2>1, <2>4 DEF SentFirst, NothingBetween, At
    <3>5. ASSUME NEW f \in Asked PROVE disk[f] = "full" /\ Attached(f)
      <4>1. 1..(Len(start.later) - Len(toss.jobs)) = {}
        BY <2>1, <2>3
      <4>2. f \in start.disk /\ f \in File /\ ~IsAnswer(start, f)
        BY <2>3, <3>5, <4>1 DEF Asked, IsAnswer
      <4>3. disk[f] = "full"
        BY <2>1, <4>2
      <4>4. CASE f \in Named
        BY <4>3, <4>4 DEF Attached
      <4>5. CASE f \notin Named
        <5>1. PICK l \in Flo : \E k \in DOMAIN start.flo[l] : start.flo[l][k].file = f
          BY <2>8, <4>2, <4>5 DEF Orderly
        <5>2. PICK k \in DOMAIN start.flo[l] : start.flo[l][k].file = f
          BY <5>1
        <5> QED BY <3>1, <4>3, <5>2 DEF Attached, OpenLines
      <4> QED BY <4>3, <4>4, <4>5
    <3> QED BY <3>3, <3>4, <3>5 DEF NothingForgotten
  <2> QED BY <2>5, <2>6, <2>7, <2>8
<1>2. TypeOK /\ TypeOK' /\ Inv /\ [Next]_vars => Inv'
  <2> SUFFICES ASSUME TypeOK, TypeOK', Inv, [Next]_vars PROVE Inv'
    OBVIOUS
  <2>1. AnswersOk' /\ JobsOk' /\ OneAtWork' /\ start' = start
    BY AnswersStay, JobsStay, OneStays, StartStays
  <2>2. Orderly(start) => RequestsByName' /\ SentFirst' /\ NothingBetween' /\ NothingForgotten'
    BY ByNameStays, SentFirstStays, BetweenStays, ForgottenStays
  <2> QED BY <2>1, <2>2
<1>3. Inv => (Orderly(start) => NothingForgotten)
  OBVIOUS
<1> QED BY <1>1, <1>2, <1>3, Types, PTL DEF Spec

-----------------------------------------------------------------------------
(* Nothing is sent twice                                                    *)

HasLine(s, f) == \E l \in Flo : \E k \in DOMAIN s.flo[l] : s.flo[l][k].file = f
Comes(s, f) == \E j \in DOMAIN s.later : s.later[j].file = f

\* Whatever attaches the file, it is removed or emptied when it has been sent.
GoesWhenSent(s, f) ==
  /\ Type[f] # "request"
  /\ \A l \in Flo : \A k \in DOMAIN s.flo[l] : s.flo[l][k].file = f => s.flo[l][k].act # "nothing"
  /\ \A j \in DOMAIN s.later : s.later[j].file = f => s.later[j].act # "nothing" \/ s.later[j].flo = NoFlo

\* A request, and no line has it.
ByNameOnly(s, f) ==
  /\ Type[f] = "request" /\ ~HasLine(s, f)
  /\ \A j \in DOMAIN s.later : s.later[j].file = f => s.later[j].flo = NoFlo

\* One line has the file, and its name does not attach it.
ByOneLine(s, f) ==
  /\ f \notin Named /\ ~ (HasLine(s, f) /\ Comes(s, f))
  /\ \A l1, l2 \in Flo : \A k1 \in DOMAIN s.flo[l1], k2 \in DOMAIN s.flo[l2] :
       s.flo[l1][k1].file = f /\ s.flo[l2][k2].file = f => l1 = l2 /\ k1 = k2

\* Somebody asks once that the file be sent: it is made once, it is no answer
\* to a request, and if it stays when it has been sent one thing attaches it.
AskedOnce(s, f) ==
  /\ ~IsAnswer(s, f)
  /\ f \in s.disk => ~Comes(s, f)
  /\ \A i, j \in DOMAIN s.later : s.later[i].file = f /\ s.later[j].file = f => i = j
  /\ GoesWhenSent(s, f) \/ ByNameOnly(s, f) \/ ByOneLine(s, f)

Untroubled == used.bad + used.crashes = 0
HasSent(f) == got[f] > 0 /\ disk[f] = "full"
Chosen(f) == \E k \in Will(m.queue) : m.queue[k].file = f
InHand(f) == m.pc \in OnFile /\ m.cur > 0 /\ Current.file = f

\* The jobs whose files the tosser has still to make.
Undone == IF toss.pc = "line" THEN 2..Len(toss.jobs) ELSE 1..Len(toss.jobs)
MadeOnce(f) == \A j \in Undone : toss.jobs[j].file = f => disk[f] # "full" /\ got[f] = 0

\* No session has failed, and the queue does not outlive one.
Calm == m.ok /\ (m.pc \in {"idle", "call"} => m.queue = << >>)

\* A step within a session.
Within(p, q) ==
  m.pc = p /\ m'.pc = q /\ m'.queue = m.queue /\ m'.answers = m.answers /\ m'.ok = m.ok

LEMMA CalmSteps ==
  ASSUME TypeOK, TypeOK', [Next]_vars, Untroubled', m.ok
  PROVE  /\ Untroubled
         /\ \/ m' = m /\ ~Stored
            \/ (Call \/ Exit \/ Unlock) /\ m'.pc \in {"idle", "call"} /\ m'.queue = << >> /\ m'.ok
            \/ Handshake \/ OpenFile
            \/ NoMoreFiles /\ m'.reqs = m.reqs /\ (Within("send", "send") \/ Within("send", "clean"))
            \/ Stored /\ Within("xfer", "mark") /\ m'.cur = m.cur
            \/ MarkSent /\ Within("mark", "dispose") /\ m'.cur = m.cur /\ m'.reqs = m.reqs
            \/ Dispose /\ Within("dispose", "send") /\ m'.reqs = m.reqs
            \/ Cleanup /\ m.pc = "clean" /\ m'.pc = "flo" /\ m'.queue = m.queue /\ m'.ok
            \/ CheckFlo /\ (Within("flo", "flo") \/ Within("flo", "unlink"))
            \/ UnlinkFlo /\ Within("unlink", "flo")
<1>1. m \in MailerState /\ used \in [bad : Nat, crashes : Nat] /\ used' \in [bad : Nat, crashes : Nat]
  BY DEF TypeOK, MailerOk
<1>2. used'.bad = 0 /\ used'.crashes = 0
  BY <1>1 DEF Untroubled
<1>3. ~ (NoSession \/ Skipped \/ Refused \/ Fails)
  <2> SUFFICES ASSUME NoSession \/ Skipped \/ Refused \/ Fails PROVE FALSE
    OBVIOUS
  <2>1. used' = [used EXCEPT !.bad = used.bad + 1]
    BY <1>1 DEF NoSession, Skipped, Refused, Fails
  <2> QED BY <1>1, <1>2, <2>1
<1>4. ~Crash
  <2> SUFFICES ASSUME Crash PROVE FALSE
    OBVIOUS
  <2>1. used' = [used EXCEPT !.crashes = used.crashes + 1]
    BY <1>1 DEF Crash
  <2> QED BY <1>1, <1>2, <2>1
<1>5. used' = used
  BY <1>3, <1>4 DEF Next, vars, StaleLock, Rest, Tosser, TossBegin, TossFile, TossLine, TossEnd, Mailer, Faults,
       Call, Handshake, OpenFile, NoMoreFiles, Stored, MarkSent, Dispose, Cleanup, CheckFlo, UnlinkFlo, Unlock, Exit
<1>6. Untroubled
  BY <1>5 DEF Untroubled
<1>7. ASSUME Stored PROVE m' # m /\ Within("xfer", "mark") /\ m'.cur = m.cur
  <2> DEFINE reqs == IF IsRequest(Current) THEN m.reqs \cup {Current.file} ELSE m.reqs
  <2>1. m.pc = "xfer" /\ m' = [m EXCEPT !.pc = "mark", !.reqs = reqs]
    BY <1>1, <1>7 DEF Stored, MailerState, At
  <2> HIDE DEF reqs
  <2> QED BY <1>1, <2>1 DEF MailerState, Within
<1>8. CASE UNCHANGED vars \/ StaleLock \/ Tosser \/ Rest
  <2>1. m' = m
    BY <1>8 DEF vars, StaleLock, Tosser, TossBegin, TossFile, TossLine, TossEnd, Rest
  <2> QED BY <1>6, <1>7, <2>1
<1>9. CASE Call \/ Exit \/ Unlock
  <2>1. m' = Idle \/ m' = [Idle EXCEPT !.pc = "call", !.methods = start.methods]
    BY <1>9 DEF Call, Exit, Unlock
  <2>2. Idle.pc = "idle" /\ Idle.queue = << >> /\ Idle.ok
    BY DEF Idle
  <2>3. LET n == [Idle EXCEPT !.pc = "call", !.methods = start.methods] IN
        n.pc = "call" /\ n.queue = << >> /\ n.ok
    BY DEF Idle
  <2> QED BY <1>6, <1>9, <2>1, <2>2, <2>3
<1>10. CASE NoMoreFiles
  <2>1. m.pc = "send" /\ (m' = [m EXCEPT !.reqsonly = FALSE] \/ m' = [m EXCEPT !.pc = "clean", !.cur = 0])
    BY <1>10 DEF NoMoreFiles, At
  <2> QED BY <1>1, <1>6, <1>10, <2>1 DEF MailerState, Within
<1>11. CASE MarkSent
  <2>1. m.pc = "mark" /\ m' = [m EXCEPT !.pc = "dispose"]
    BY <1>11 DEF MarkSent, Goes, At
  <2> QED BY <1>1, <1>6, <1>11, <2>1 DEF MailerState, Within
<1>12. CASE Dispose
  <2>1. m.pc = "dispose" /\ m' = [m EXCEPT !.pc = "send"]
    BY <1>12 DEF Dispose, Goes, At
  <2> QED BY <1>1, <1>6, <1>12, <2>1 DEF MailerState, Within
<1>13. CASE Cleanup
  <2>1. m.pc = "clean" /\ m' = [m EXCEPT !.pc = "flo", !.i = 1, !.answers = << >>]
    BY <1>13 DEF Cleanup, At
  <2> QED BY <1>1, <1>6, <1>13, <2>1 DEF MailerState
<1>14. CASE CheckFlo
  <2>1. m.pc = "flo" /\ (m' = [m EXCEPT !.pc = "unlink"] \/ m' = [m EXCEPT !.pc = "flo", !.i = m.i + 1])
    BY <1>1, <1>14 DEF CheckFlo, NextFlo, At, MailerState
  <2> QED BY <1>1, <1>6, <1>14, <2>1 DEF MailerState, Within
<1>15. CASE UnlinkFlo
  <2>1. m.pc = "unlink" /\ m' = [m EXCEPT !.pc = "flo", !.i = m.i + 1]
    BY <1>1, <1>15 DEF UnlinkFlo, NextFlo, At, MailerState
  <2> QED BY <1>1, <1>6, <1>15, <2>1 DEF MailerState, Within
<1> QED BY <1>3, <1>4, <1>6, <1>7, <1>8, <1>9, <1>10, <1>11, <1>12, <1>13, <1>14, <1>15 DEF Next, Mailer, Faults

\* What prot_get_next_file chooses is to be sent, and is not chosen again.
LEMMA OpenFileSends ==
  ASSUME TypeOK, OpenFile
  PROVE  /\ m'.reqs = m.reqs /\ m'.ok = m.ok
         /\ m'.cur > 0 => /\ m'.cur \in Will(m.queue) /\ m'.queue[m'.cur].status = "sending"
         /\ Will(m'.queue) \subseteq Will(m.queue)
<1> DEFINE r == Opened(NextFile)
<1>1. NextFile # 0 /\ \E x \in {"send", "xfer"} : m' = [r EXCEPT !.pc = x]
  BY DEF OpenFile
<1>2. /\ m \in MailerState /\ r \in MailerState
      /\ r = [m EXCEPT !.queue = r.queue, !.answers = r.answers, !.cur = NextFile]
      /\ DOMAIN r.queue = DOMAIN m.queue
      /\ \A k \in DOMAIN m.queue : r.queue[k] = IF k = NextFile THEN [m.queue[k] EXCEPT !.status = "sending"] ELSE m.queue[k]
  BY <1>1, OpenedIs DEF TypeOK, MailerOk
<1>3. NextFile \in Int /\ (NextFile > 0 => NextFile \in Will(m.queue))
  BY NextFileIs
<1> HIDE DEF r
<1>4. m'.queue = r.queue /\ m'.reqs = m.reqs /\ m'.ok = m.ok /\ m'.cur = NextFile
  <2>1. m'.queue = r.queue /\ m'.reqs = r.reqs /\ m'.ok = r.ok /\ m'.cur = r.cur
    <3>1. r \in MailerState /\ \E x \in {"send", "xfer"} : m' = [r EXCEPT !.pc = x]
      BY <1>1, <1>2
    <3> QED BY <3>1 DEF MailerState
  <2>2. r.reqs = m.reqs /\ r.ok = m.ok /\ r.cur = NextFile
    <3>1. m \in MailerState /\ r = [m EXCEPT !.queue = r.queue, !.answers = r.answers, !.cur = NextFile]
      BY <1>2
    <3> QED BY <3>1 DEF MailerState
  <2> QED BY <2>1, <2>2
<1>5. \A k \in DOMAIN m.queue : m.queue[k] \in Entry
  BY <1>2, LenProperties, ElementOfSeq DEF MailerState
<1>6. \A e \in Entry : [e EXCEPT !.status = "sending"].status = "sending"
  BY DEF Entry
<1>7. Will(r.queue) \subseteq Will(m.queue)
  <2> SUFFICES ASSUME NEW k \in DOMAIN m.queue, r.queue[k].status = "willsend" PROVE m.queue[k].status = "willsend"
    BY <1>2 DEF Will
  <2> QED BY <1>2, <1>5, <1>6
<1>8. ASSUME NextFile > 0 PROVE r.queue[NextFile].status = "sending"
  <2>1. NextFile \in DOMAIN m.queue
    BY <1>3, <1>8 DEF Will
  <2> QED BY <1>2, <1>5, <1>6, <2>1
<1> QED BY <1>3, <1>4, <1>7, <1>8

NoLine(f) == \A l \in Flo : \A k \in DOMAIN flo[l].lines : flo[l].lines[k].file # f
LinesApart(f) ==
  \A l1, l2 \in Flo : \A k1 \in DOMAIN flo[l1].lines, k2 \in DOMAIN flo[l2].lines :
    flo[l1].lines[k1].file = f /\ flo[l2].lines[k2].file = f => l1 = l2 /\ k1 = k2

\* What one thing attaches is found once.
LEMMA ScannedOnce ==
  ASSUME TypeOK, NEW f, f \in Named => NoLine(f), LinesApart(f)
  PROVE  \A i, j \in DOMAIN Scanned : Scanned[i].file = f /\ Scanned[j].file = f => i = j
<1> DEFINE F == {e \in Entry : e.file = f}
           D == NamedEntry \cup LineEntry
           order == start.order
           S == {k \in DOMAIN order : order[k] \in Named /\ disk[order[k]] # "none"}
           T == {k \in DOMAIN order : order[k] \in Flo /\ flo[order[k]].there}
           byname == [k \in DOMAIN NamedFiles |-> [file |-> NamedFiles[k], flo |-> NoFlo,
                          act |-> NameAction(NamedFiles[k]), status |-> "willsend"]]
           byline == [k \in DOMAIN FlosThere |-> FromFlo(FlosThere[k])]
<1>1. order \in Seq(File \cup Flo) /\ \A i, j \in DOMAIN order : order[i] = order[j] => i = j
  <2>1. IsInjective(order)
    BY StartIs, Constants
  <2> QED BY <2>1, StartIs DEF IsInjective
<1>2. ASSUME NEW x PROVE Alone(NamedFiles, {x}) /\ Alone(FlosThere, {x})
  <2>1. \A U : \A i, j \in U \cap DOMAIN order : order[i] \in {x} /\ order[j] \in {x} => i = j
    BY <1>1
  <2>2. NamedFiles = Those(order, S) /\ FlosThere = Those(order, T)
    BY DEF NamedFiles, FlosThere
  <2> HIDE DEF order, S, T
  <2> QED BY <1>1, <2>1, <2>2, ThoseAlone
<1>3. /\ Len(NamedFiles) \in Nat /\ DOMAIN NamedFiles = 1..Len(NamedFiles)
      /\ Len(FlosThere) \in Nat /\ DOMAIN FlosThere = 1..Len(FlosThere)
      /\ \A k \in DOMAIN NamedFiles : NamedFiles[k] \in Named
      /\ \A k \in DOMAIN FlosThere : FlosThere[k] \in Flo
  BY NamesAre, LenProperties, ElementOfSeq
<1>4. byname \in Seq(D) /\ Alone(byname, F) /\ (Has(byname, F) => f \in Named)
  <2>1. \A k \in DOMAIN NamedFiles : byname[k] \in NamedEntry
    BY <1>3 DEF NamedEntry, Entry, Named, NameAction, Action
  <2>2. byname = [k \in 1..Len(NamedFiles) |-> byname[k]] /\ DOMAIN byname = DOMAIN NamedFiles
    BY <1>3
  <2>3. \A k \in DOMAIN byname : byname[k].file = NamedFiles[k]
    OBVIOUS
  <2> HIDE DEF byname
  <2>4. byname \in Seq(D)
    BY <1>3, <2>1, <2>2, IsSeq
  <2>5. Alone(byname, F)
    BY <1>2, <2>2, <2>3 DEF Alone
  <2>6. Has(byname, F) => f \in Named
    BY <1>3, <2>2, <2>3 DEF Has
  <2> QED BY <2>4, <2>5, <2>6
<1>5. ASSUME NEW l \in Flo
      PROVE  /\ FromFlo(l) \in Seq(D) /\ Alone(FromFlo(l), F)
             /\ Has(FromFlo(l), F) => \E k \in DOMAIN flo[l].lines : flo[l].lines[k].file = f
  <2> DEFINE lines == flo[l].lines
             entry == [k \in DOMAIN lines |-> [file |-> lines[k].file, flo |-> l, act |-> lines[k].act, status |-> "willsend"]]
             U == {k \in DOMAIN lines : ~lines[k].sent /\ disk[lines[k].file] # "none"}
  <2>1. lines \in Seq(FloLine)
    BY DEF TypeOK, DiskOk
  <2>2. Len(lines) \in Nat /\ DOMAIN lines = 1..Len(lines) /\ \A k \in DOMAIN lines : lines[k] \in FloLine
    BY <2>1, LenProperties, ElementOfSeq
  <2>3. \A k \in DOMAIN lines : entry[k] \in Entry /\ entry[k].file = lines[k].file
    BY <2>2 DEF Entry, FloLine
  <2>4. entry = [k \in 1..Len(lines) |-> entry[k]] /\ DOMAIN entry = DOMAIN lines /\ FromFlo(l) = Those(entry, U)
    BY <2>2 DEF FromFlo
  <2>5. \A i, j \in DOMAIN lines : lines[i].file = f /\ lines[j].file = f => i = j
    BY DEF LinesApart
  <2>6. FromFlo(l) \in Seq(LineEntry)
    BY FromFloIs
  <2> HIDE DEF lines, entry, U
  <2>7. entry \in Seq(Entry)
    BY <2>2, <2>3, <2>4, IsSeq
  <2>8. \A i, j \in U \cap DOMAIN entry : entry[i] \in F /\ entry[j] \in F => i = j
    BY <2>3, <2>4, <2>5
  <2> HIDE DEF F
  <2>9. Alone(FromFlo(l), F)
    <3>1. Alone(Those(entry, U), F)
      BY <2>7, <2>8, ThoseAlone
    <3> QED BY <2>4, <3>1
  <2>10. FromFlo(l) \in Seq(D)
    BY <2>6, Wider
  <2>11. ASSUME Has(FromFlo(l), F) PROVE \E k \in DOMAIN lines : lines[k].file = f
    <3>1. PICK i \in DOMAIN FromFlo(l) : FromFlo(l)[i] \in F
      BY <2>11 DEF Has
    <3> DEFINE e == FromFlo(l)[i]
    <3>2. e \in LineEntry /\ e.file = f
      BY <2>6, <3>1, LenProperties, ElementOfSeq DEF F
    <3>3. e.flo = l
      <4>1. FromFlo(l) \in Seq({entry[k] : k \in U \cap DOMAIN entry})
        BY <2>4, <2>7, ThoseIs
      <4>2. e \in {entry[k] : k \in U \cap DOMAIN entry}
        BY <3>1, <4>1, LenProperties, ElementOfSeq
      <4>3. \A k \in DOMAIN entry : entry[k].flo = l
        BY DEF entry
      <4> HIDE DEF e
      <4> QED BY <4>2, <4>3
    <3> HIDE DEF e
    <3> QED BY <3>2, <3>3 DEF LineEntry, lines
  <2> QED BY <2>9, <2>10, <2>11 DEF lines
<1>6. byline \in Seq(Seq(D)) /\ DOMAIN byline = DOMAIN FlosThere
      /\ \A k \in DOMAIN byline : byline[k] = FromFlo(FlosThere[k])
  <2>1. \A k \in DOMAIN FlosThere : byline[k] \in Seq(D)
    BY <1>3, <1>5
  <2>2. byline = [k \in 1..Len(FlosThere) |-> byline[k]] /\ DOMAIN byline = DOMAIN FlosThere
        /\ \A k \in DOMAIN byline : byline[k] = FromFlo(FlosThere[k])
    BY <1>3
  <2> HIDE DEF byline, D
  <2> QED BY <1>3, <2>1, <2>2, IsSeq
<1>7. Scanned = byname \o FlattenSeq(byline)
  BY DEF Scanned
<1> HIDE DEF D, F, byname, byline, order, S, T
<1>8. \A i \in DOMAIN byline : Alone(byline[i], F)
  BY <1>3, <1>5, <1>6
<1>9. \A i, j \in DOMAIN byline : Has(byline[i], F) /\ Has(byline[j], F) => i = j
  <2> SUFFICES ASSUME NEW i \in DOMAIN byline, NEW j \in DOMAIN byline, Has(byline[i], F), Has(byline[j], F) PROVE i = j
    OBVIOUS
  <2>1. PICK k1 \in DOMAIN flo[FlosThere[i]].lines : flo[FlosThere[i]].lines[k1].file = f
    BY <1>3, <1>5, <1>6
  <2>2. PICK k2 \in DOMAIN flo[FlosThere[j]].lines : flo[FlosThere[j]].lines[k2].file = f
    BY <1>3, <1>5, <1>6
  <2>3. FlosThere[i] = FlosThere[j]
    BY <1>3, <1>6, <2>1, <2>2 DEF LinesApart
  <2> QED BY <1>2, <1>6, <2>3 DEF Alone
<1>10. Alone(FlattenSeq(byline), F) /\ (Has(FlattenSeq(byline), F) => \E i \in DOMAIN byline : Has(byline[i], F))
  BY <1>6, <1>8, <1>9, FlattenAlone
<1>11. ~ (Has(byname, F) /\ Has(FlattenSeq(byline), F))
  <2> SUFFICES ASSUME Has(byname, F), Has(FlattenSeq(byline), F) PROVE FALSE
    OBVIOUS
  <2>1. PICK i \in DOMAIN byline : Has(byline[i], F)
    BY <1>10
  <2>2. FlosThere[i] \in Flo /\ Has(FromFlo(FlosThere[i]), F)
    BY <1>3, <1>6, <2>1
  <2> QED BY <1>4, <1>5, <2>2 DEF NoLine
<1>12. Alone(Scanned, F)
  <2>1. FlattenSeq(byline) \in Seq(D)
    BY <1>6, FlattenIs
  <2> QED BY <1>4, <1>7, <1>10, <1>11, <2>1, ConcatAlone
<1>13. \A k \in DOMAIN Scanned : Scanned[k] \in Entry
  BY ScannedIs, LenProperties, ElementOfSeq DEF NamedEntry, LineEntry
<1> QED BY <1>12, <1>13 DEF Alone, F

\* The queue of a session that no other one came before in the call.
LEMMA HandshakeFresh ==
  ASSUME TypeOK, Handshake, m.queue = << >>
  PROVE  /\ \A k \in DOMAIN m'.queue : /\ k \in DOMAIN Scanned /\ m'.queue[k].file = Scanned[k].file
                                       /\ m'.queue[k].flo = Scanned[k].flo /\ m'.queue[k].act = Scanned[k].act
         /\ m.ok => m'.ok
<1> DEFINE first == Head(m.methods)
           old == IF first = "emsi" THEN m.opts \cup start.hold ELSE m.opts
           q == SetSendFiles(old, m.queue \o Scanned)
<1>1. m \in MailerState
  BY DEF TypeOK, MailerOk
<1>2. m'.queue = m.queue \/ m'.queue = q
  BY <1>1 DEF Handshake, MailerState
<1>3. m.ok => m'.ok
  BY <1>1 DEF Handshake, MailerState
<1>4. m.queue \o Scanned = Scanned /\ Scanned \in Seq(Entry)
  <2>1. NamedEntry \cup LineEntry \subseteq Entry
    BY DEF NamedEntry, LineEntry
  <2>2. Scanned \in Seq(Entry)
    BY <2>1, ScannedIs, Wider
  <2> QED BY <2>2, ConcatEmptySeq
<1>5. q = SetSendFiles(old, Scanned)
  BY <1>4
<1> HIDE DEF old, q
<1>6. /\ DOMAIN q = DOMAIN Scanned
      /\ \A k \in DOMAIN Scanned : q[k].file = Scanned[k].file /\ q[k].flo = Scanned[k].flo /\ q[k].act = Scanned[k].act
  BY <1>4, <1>5, SendFilesAre
<1> QED BY <1>2, <1>3, <1>6

LEMMA CalmStays == TypeOK /\ TypeOK' /\ Calm /\ Untroubled' /\ [Next]_vars => Calm'
<1> SUFFICES ASSUME TypeOK, TypeOK', Calm, Untroubled', [Next]_vars PROVE Calm'
  OBVIOUS
<1>1. CASE Handshake
  <2>1. m.pc = "call" /\ m.queue = << >> /\ m.ok
    BY <1>1 DEF Handshake, At, Calm
  <2>2. m'.ok
    BY <1>1, <2>1, HandshakeFresh
  <2>3. m'.pc \in {"idle", "call"} => m'.queue = << >>
    BY <1>1, <2>1, HandshakeIs
  <2> QED BY <2>2, <2>3 DEF Calm
<1>2. CASE OpenFile
  BY <1>2, OpenFileIs, OpenFileSends DEF Calm
<1>3. CASE ~ (Handshake \/ OpenFile)
  BY <1>3, CalmSteps DEF Calm, Within
<1> QED BY <1>1, <1>2, <1>3

\* What has been sent and is there again, or still.
LEMMA SentMoves ==
  ASSUME TypeOK, TypeOK', AnswersOk, JobsOk, m.ok, [Next]_vars, Untroubled', NEW f \in File, ~IsAnswer(start, f),
         MadeOnce(f), HasSent(f)'
  PROVE  \/ HasSent(f) /\ got'[f] = got[f] /\ (Stored => Current.file # f)
         \/ Stored /\ m.pc = "xfer" /\ InHand(f) /\ disk[f] = "full" /\ got'[f] <= got[f] + 1
<1>1. /\ m \in MailerState /\ got \in [File -> Nat] /\ disk \in [File -> {"none", "full", "empty"}]
      /\ got' \in [File -> Nat] /\ got'[f] > 0 /\ disk'[f] = "full"
  BY DEF TypeOK, MailerOk, DiskOk, HasSent
<1>2. CASE Stored
  <2>1. m.pc = "xfer" /\ Gets(Current.file) /\ disk' = disk
    BY <1>2 DEF Stored, At
  <2>2. CASE Current.file # f
    <3>1. got'[f] = got[f]
      BY <1>1, <2>1, <2>2 DEF Gets
    <3> QED BY <1>1, <2>1, <2>2, <3>1 DEF HasSent
  <2>3. CASE Current.file = f
    <3>1. m.cur > 0
      <4> SUFFICES ASSUME ~ m.cur > 0 PROVE FALSE
        OBVIOUS
      <4>1. PICK k \in DOMAIN m.answers : Current = m.answers[k]
        BY <2>1, CurrentIs DEF OnFile
      <4> QED BY <2>3, <4>1 DEF AnswersOk, IsAnswer
    <3>2. got'[f] <= got[f] + 1
      BY <1>1, <2>1, <2>3 DEF Gets
    <3> QED BY <1>1, <1>2, <2>1, <2>3, <3>1, <3>2 DEF InHand, OnFile
  <2> QED BY <2>2, <2>3
<1>3. CASE ~Stored
  <2>1. got' = got
    <3>1. ~Fails
      <4> SUFFICES ASSUME Fails PROVE FALSE
        OBVIOUS
      <4>1. used \in [bad : Nat, crashes : Nat] /\ used' = [used EXCEPT !.bad = used.bad + 1]
        BY DEF Fails, TypeOK
      <4> QED BY <4>1 DEF Untroubled
    <3> QED BY <1>3, <3>1 DEF Next, vars, StaleLock, Rest, Tosser, TossBegin, TossFile, TossLine, TossEnd, Mailer, Faults, Call,
         NoSession, Handshake, OpenFile, NoMoreFiles, Skipped, Refused, MarkSent, Dispose, Cleanup, CheckFlo, UnlinkFlo,
         Unlock, Exit, Crash
  <2>2. disk[f] = "full"
    <3>1. CASE Handshake
      BY <1>1, <3>1, HandshakeIs DEF IsAnswer
    <3>2. CASE Dispose
      BY <1>1, <3>2 DEF Dispose
    <3>3. CASE Cleanup
      BY <1>1, <3>3 DEF Cleanup
    <3>4. CASE TossFile
      <4>1. toss.jobs # << >> /\ toss.pc = "file" /\ disk' = [disk EXCEPT ![Job.file] = "full"]
        BY <3>4 DEF TossFile, TypeOK, TossOk
      <4>2. Len(toss.jobs) \in Nat /\ Len(toss.jobs) > 0
        BY <4>1, JobIs
      <4>3. 1 \in Undone /\ Job = toss.jobs[1]
        BY <4>1, <4>2 DEF Undone, Job, Head
      <4>4. Job.file # f
        BY <1>1, <2>1, <4>3 DEF MadeOnce
      <4> QED BY <1>1, <4>1, <4>4
    <3> QED BY <1>1, <3>1, <3>2, <3>3, <3>4, DiskMoves
  <2> QED BY <1>1, <1>3, <2>1, <2>2 DEF HasSent
<1> QED BY <1>2, <1>3

LEMMA MadeOnceStays ==
  ASSUME TypeOK, TypeOK', JobsOk, [Next]_vars, NEW f \in File, AskedOnce(start, f), MadeOnce(f)
  PROVE  MadeOnce(f)'
<1> SUFFICES ASSUME NEW j \in Undone', toss'.jobs[j].file = f PROVE disk'[f] # "full" /\ got'[f] = 0
  BY DEF MadeOnce
<1>1. /\ toss \in [pc : {"idle", "file", "line", "end"}, jobs : Seq(JobToDo)] /\ Len(toss.jobs) \in Nat
      /\ got \in [File -> Nat] /\ disk \in [File -> {"none", "full", "empty"}]
  BY LenProperties DEF TypeOK, TossOk, DiskOk
<1>2. (\E i \in Undone : toss.jobs[i].file = f) /\ ~ (TossFile /\ Job.file = f)
  <2>1. CASE toss' = toss
    <3>1. ~TossFile
      BY <1>1, <2>1 DEF TossFile
    <3> QED BY <2>1, <3>1 DEF Undone
  <2>2. CASE TossBegin \/ TossEnd
    <3>1. toss.pc \in {"idle", "end"} /\ toss'.pc \in {"file", "idle"} /\ toss'.jobs = toss.jobs
      BY <1>1, <2>2 DEF TossBegin, TossEnd
    <3>2. ~TossFile
      BY <3>1 DEF TossFile
    <3> QED BY <3>1, <3>2 DEF Undone
  <2>3. CASE TossFile
    <3>1. toss.pc = "file" /\ toss'.pc = "line" /\ toss'.jobs = toss.jobs /\ toss.jobs # << >>
      BY <1>1, <2>3 DEF TossFile, TypeOK, TossOk
    <3>2. j \in 2..Len(toss.jobs) /\ toss.jobs[j].file = f /\ j \in Undone
      BY <1>1, <3>1 DEF Undone
    <3>3. Job.file # f
      <4> SUFFICES ASSUME Job.file = f PROVE FALSE
        OBVIOUS
      <4> DEFINE a == Len(start.later) - Len(toss.jobs)
      <4>1. /\ Len(start.later) \in Nat /\ Len(toss.jobs) <= Len(start.later)
            /\ Job = start.later[a + 1] /\ toss.jobs[j] = start.later[a + j]
        BY <1>1, <3>1, <3>2, JobIs DEF JobsOk
      <4>2. a \in Nat /\ a + 1 \in 1..Len(start.later) /\ a + j \in 1..Len(start.later) /\ a + 1 # a + j
        BY <1>1, <3>2, <4>1
      <4>3. DOMAIN start.later = 1..Len(start.later)
        BY StartIs, LenProperties
      <4> HIDE DEF a
      <4> QED BY <3>2, <4>1, <4>2, <4>3 DEF AskedOnce
    <3> QED BY <3>2, <3>3
  <2>4. CASE TossLine
    <3>1. toss.pc = "line" /\ toss'.pc = "end" /\ toss'.jobs = Tail(toss.jobs) /\ toss.jobs # << >>
      BY <1>1, <2>4 DEF TossLine, TypeOK, TossOk
    <3>2. Len(toss'.jobs) = Len(toss.jobs) - 1 /\ \A k \in 1..Len(toss.jobs) - 1 : toss'.jobs[k] = toss.jobs[k + 1]
      <4>1. Len(Tail(toss.jobs)) = Len(toss.jobs) - 1
        BY <3>1, JobIs
      <4>2. \A k \in 1..Len(toss.jobs) - 1 : Tail(toss.jobs)[k] = toss.jobs[k + 1]
        BY <1>1, <3>1, <4>1, HeadTailProperties, SMTT(30)
      <4> QED BY <3>1, <4>1, <4>2
    <3>3. j \in 1..Len(toss.jobs) - 1 /\ j + 1 \in Undone
      BY <1>1, <3>1, <3>2 DEF Undone
    <3>4. toss.jobs[j + 1].file = f
      BY <3>2, <3>3
    <3>5. ~TossFile
      BY <3>1 DEF TossFile
    <3> QED BY <3>3, <3>4, <3>5
  <2> QED BY <2>1, <2>2, <2>3, <2>4, TossMoves DEF Tosser
<1>3. disk[f] # "full" /\ got[f] = 0
  BY <1>2 DEF MadeOnce
<1>4. got'[f] = 0
  <2>1. got' = got \/ \E g : Gets(g)
    BY DEF Next, vars, StaleLock, Rest, Tosser, TossBegin, TossFile, TossLine, TossEnd, Mailer, Faults, Call, NoSession,
           Handshake, OpenFile, NoMoreFiles, Stored, Skipped, Refused, Fails, MarkSent, Dispose, Cleanup, CheckFlo,
           UnlinkFlo, Unlock, Exit, Crash
  <2> QED BY <1>1, <1>3, <2>1 DEF Gets
<1>5. disk'[f] # "full"
  <2>1. CASE Handshake
    BY <1>1, <1>3, <2>1, HandshakeIs DEF IsAnswer, AskedOnce
  <2>2. CASE Dispose
    BY <1>1, <1>3, <2>2 DEF Dispose
  <2>3. CASE Cleanup
    BY <1>1, <1>3, <2>3 DEF Cleanup
  <2>4. CASE TossFile
    BY <1>1, <1>2, <1>3, <2>4 DEF TossFile
  <2> QED BY <1>3, <2>1, <2>2, <2>3, <2>4, DiskMoves
<1> QED BY <1>4, <1>5

\* A file that is removed when it has been sent is on its way out.
Removes(f) ==
  /\ \A l \in Flo : \A k \in DOMAIN flo[l].lines : flo[l].lines[k].file = f => flo[l].lines[k].act # "nothing"
  /\ \A k \in DOMAIN m.queue : m.queue[k].file = f => m.queue[k].act # "nothing"
Going(f) == HasSent(f) => m.pc # "xfer" /\ InHand(f)

LEMMA RemovesStays ==
  ASSUME TypeOK, JobsOk, [Next]_vars, NEW f \in File, GoesWhenSent(start, f), Removes(f)
  PROVE  Removes(f)'
<1>1. ASSUME NEW l \in Flo, NEW k \in DOMAIN flo'[l].lines, flo'[l].lines[k].file = f
      PROVE  flo'[l].lines[k].act # "nothing"
  <2>1. CASE flo' = flo
    BY <1>1, <2>1 DEF Removes
  <2>2. CASE MarkSent
    BY <1>1, <2>2, MarkSentIs DEF Removes
  <2>3. CASE UnlinkFlo
    <3>1. flo'[l].lines = << >> \/ flo'[l] = flo[l]
      BY <2>3 DEF UnlinkFlo, TypeOK, DiskOk
    <3> QED BY <1>1, <3>1 DEF Removes
  <2>4. CASE TossLine
    <3>1. CASE Job.flo = l
      <4>1. toss.jobs # << >>
        BY <2>4 DEF TossLine, TypeOK, TossOk
      <4>2. Job.file = f => Job.act # "nothing"
        BY <3>1, <4>1, JobIs, Constants DEF GoesWhenSent
      <4> QED BY <1>1, <2>4, <3>1, <4>2, TossLineIs DEF Removes
    <3>2. CASE Job.flo # l
      <4>1. flo'[l] = flo[l]
        BY <2>4, <3>2, TossLineIs
      <4> QED BY <1>1, <4>1 DEF Removes
    <3> QED BY <3>1, <3>2
  <2> QED BY <2>1, <2>2, <2>3, <2>4, FloMoves
<1>2. ASSUME NEW k \in DOMAIN m'.queue, m'.queue[k].file = f PROVE m'.queue[k].act # "nothing"
  <2>1. CASE m' = m \/ m'.queue = m.queue
    BY <1>2, <2>1 DEF Removes
  <2>2. CASE m'.queue = << >>
    BY <1>2, <2>2
  <2>3. CASE OpenFile
    BY <1>2, <2>3, OpenFileIs DEF Removes
  <2>4. CASE Handshake /\ m'.queue # m.queue
    <3>1. PICK e \in {m.queue[i] : i \in DOMAIN m.queue} \cup NamedEntry \cup LineEntry :
            m'.queue[k].file = e.file /\ m'.queue[k].flo = e.flo /\ m'.queue[k].act = e.act
      BY <1>2, <2>4, HandshakeIs
    <3>2. e.file = f
      BY <1>2, <3>1
    <3>3. e \in LineEntry => e.act # "nothing"
      BY <3>2 DEF LineEntry, Removes
    <3>4. e \in NamedEntry => e.act # "nothing"
      BY <3>2 DEF NamedEntry, NameAction, GoesWhenSent
    <3>5. e \in {m.queue[i] : i \in DOMAIN m.queue} => e.act # "nothing"
      BY <3>2 DEF Removes
    <3> QED BY <3>1, <3>3, <3>4, <3>5
  <2> QED BY <2>1, <2>2, <2>3, <2>4, Moves
<1> QED BY <1>1, <1>2 DEF Removes

LEMMA GoingStays ==
  ASSUME TypeOK, TypeOK', AnswersOk, JobsOk, m.ok, [Next]_vars, Untroubled', NEW f \in File, AskedOnce(start, f),
         MadeOnce(f), Removes(f), Going(f)
  PROVE  Going(f)'
<1> SUFFICES ASSUME HasSent(f)' PROVE m'.pc # "xfer" /\ InHand(f)'
  BY DEF Going
<1>1. ~IsAnswer(start, f)
  BY DEF AskedOnce
<1>2. CASE Stored /\ InHand(f)
  <2>1. m.pc = "xfer"
    BY <1>2 DEF Stored, At
  <2>2. ~ (Handshake \/ OpenFile \/ Call \/ Exit \/ Unlock \/ NoMoreFiles \/ MarkSent \/ Dispose \/ Cleanup \/ CheckFlo
           \/ UnlinkFlo)
    BY <2>1 DEF Handshake, OpenFile, Call, Exit, Unlock, NoMoreFiles, MarkSent, Dispose, Cleanup, CheckFlo, UnlinkFlo, At
  <2>3. Within("xfer", "mark") /\ m'.cur = m.cur
    BY <1>2, <2>2, CalmSteps
  <2> QED BY <1>2, <2>3 DEF Within, InHand, OnFile, Current
<1>3. CASE HasSent(f)
  <2>1. m.pc \in {"mark", "dispose"} /\ m.cur > 0 /\ Current.file = f
    BY <1>3 DEF Going, InHand, OnFile
  <2>2. CASE m' = m
    BY <2>1, <2>2 DEF InHand, OnFile, Current
  <2>3. CASE MarkSent /\ Within("mark", "dispose") /\ m'.cur = m.cur
    BY <2>1, <2>3 DEF Within, InHand, OnFile, Current
  <2>4. ~Dispose
    <3> SUFFICES ASSUME Dispose PROVE FALSE
      OBVIOUS
    <3>1. Current \in Entry /\ Current.act # "nothing"
      <4>1. m.pc \in OnFile
        BY <2>1 DEF OnFile
      <4>2. PICK k \in DOMAIN m.queue : k = m.cur /\ Current = m.queue[k]
        BY <2>1, <4>1, CurrentIs
      <4> QED BY <2>1, <4>1, <4>2, CurrentIs DEF Removes
    <3>2. Current.act \in {"unlink", "truncate", "forceunlink"}
      BY <3>1 DEF Entry, Action
    <3>3. disk'[f] \in {"none", "empty"}
      BY <2>1, <3>2 DEF Dispose, TypeOK, DiskOk
    <3> QED BY <3>3 DEF HasSent
  <2>5. ~ (Handshake \/ OpenFile \/ Call \/ Exit \/ Unlock \/ NoMoreFiles \/ Stored \/ Cleanup \/ CheckFlo \/ UnlinkFlo)
    BY <2>1 DEF Handshake, OpenFile, Call, Exit, Unlock, NoMoreFiles, Stored, Cleanup, CheckFlo, UnlinkFlo, At
  <2> QED BY <2>2, <2>3, <2>4, <2>5, CalmSteps
<1> QED BY <1>1, <1>2, <1>3, SentMoves

\* A file that one thing attaches is once in the queue, and not to be sent again.
OnceQueued(f) ==
  /\ \A i, j \in DOMAIN m.queue : m.queue[i].file = f /\ m.queue[j].file = f => i = j
  /\ m.pc \in OnFile /\ m.cur > 0 => m.queue[m.cur].status # "willsend"
Over(f) == HasSent(f) => ~Chosen(f) /\ ~ (m.pc = "xfer" /\ InHand(f))

LEMMA OnceStays ==
  ASSUME TypeOK, TypeOK', Calm, [Next]_vars, Untroubled', NEW f \in File, f \in Named => NoLine(f), LinesApart(f),
         OnceQueued(f)
  PROVE  OnceQueued(f)'
<1>1. CASE m'.queue = << >> /\ m'.pc \in {"idle", "call"}
  BY <1>1 DEF OnceQueued, OnFile
<1>2. CASE Handshake
  <2>1. m.queue = << >> /\ m'.pc \notin OnFile
    BY <1>2, HandshakeIs DEF Calm, Handshake, At, OnFile
  <2>2. \A k \in DOMAIN m'.queue : k \in DOMAIN Scanned /\ m'.queue[k].file = Scanned[k].file
    BY <1>2, <2>1, HandshakeFresh
  <2> QED BY <2>1, <2>2, ScannedOnce DEF OnceQueued
<1>3. CASE OpenFile
  BY <1>3, OpenFileIs, OpenFileSends DEF OnceQueued
<1>4. CASE m' = m
  BY <1>4 DEF OnceQueued
<1>5. CASE m'.queue = m.queue /\ (m'.pc \in OnFile => m.pc \in OnFile /\ m'.cur = m.cur)
  BY <1>5 DEF OnceQueued
<1> QED BY <1>1, <1>2, <1>3, <1>4, <1>5, CalmSteps DEF Calm, Within, OnFile

LEMMA OverStays ==
  ASSUME TypeOK, TypeOK', AnswersOk, JobsOk, Calm, [Next]_vars, Untroubled', NEW f \in File, AskedOnce(start, f),
         MadeOnce(f), OnceQueued(f), Over(f),
         HasSent(f) /\ m.pc = "call" => \A k \in DOMAIN Scanned : Scanned[k].file # f
  PROVE  Over(f)'
<1> SUFFICES ASSUME HasSent(f)' PROVE ~Chosen(f)' /\ ~ (m'.pc = "xfer" /\ InHand(f)')
  BY DEF Over
<1>1. ~IsAnswer(start, f) /\ m.ok
  BY DEF AskedOnce, Calm
<1>2. CASE Stored /\ m.pc = "xfer" /\ InHand(f)
  <2>1. m'.queue = m.queue /\ m'.pc = "mark"
    BY <1>1, <1>2, CalmSteps DEF Within, Handshake, OpenFile, Call, Exit, Unlock, NoMoreFiles, MarkSent,
       Dispose, Cleanup, CheckFlo, UnlinkFlo, At
  <2>2. ~Chosen(f)
    <3> SUFFICES ASSUME NEW k \in Will(m.queue), m.queue[k].file = f PROVE FALSE
      BY DEF Chosen
    <3>1. m.cur \in DOMAIN m.queue /\ m.queue[m.cur].file = f /\ m.queue[m.cur].status # "willsend"
      BY <1>2, CurrentIs DEF InHand, OnceQueued
    <3> QED BY <3>1 DEF OnceQueued, Will
  <2> QED BY <2>1, <2>2 DEF Chosen, Will
<1>3. CASE HasSent(f)
  <2>1. ~Chosen(f) /\ ~ (m.pc = "xfer" /\ InHand(f))
    BY <1>3 DEF Over
  <2>2. CASE Handshake
    <3>1. m.queue = << >> /\ m.pc = "call" /\ m'.pc # "xfer"
      BY <2>2, HandshakeIs DEF Calm, Handshake, At
    <3>2. \A k \in DOMAIN m'.queue : k \in DOMAIN Scanned /\ m'.queue[k].file = Scanned[k].file
      BY <2>2, <3>1, HandshakeFresh
    <3> QED BY <1>3, <3>1, <3>2 DEF Chosen, Will
  <2>3. CASE OpenFile
    <3>1. /\ Will(m'.queue) \subseteq Will(m.queue) /\ \A k \in DOMAIN m.queue : m'.queue[k].file = m.queue[k].file
          /\ m'.cur > 0 => m'.cur \in Will(m.queue)
      BY <2>3, OpenFileIs, OpenFileSends
    <3>2. Will(m.queue) \subseteq DOMAIN m.queue
      BY DEF Will
    <3> QED BY <2>1, <3>1, <3>2 DEF Chosen, InHand, Current
  <2>4. CASE m' = m
    BY <2>1, <2>4 DEF Chosen, InHand, Current
  <2>5. CASE m'.pc # "xfer" /\ (m'.queue = m.queue \/ m'.queue = << >>)
    BY <2>1, <2>5 DEF Chosen, Will
  <2> QED BY <1>1, <2>2, <2>3, <2>4, <2>5, CalmSteps DEF Within
<1> QED BY <1>1, <1>2, <1>3, SentMoves

\* A request is remembered until the session in which it was sent ends.
Req(f) == NoLine(f) /\ (HasSent(f) => f \in m.reqs /\ m.pc \in InTransfer)

LEMMA ReqStays ==
  ASSUME TypeOK, TypeOK', AnswersOk, JobsOk, Calm, [Next]_vars, Untroubled', NEW f \in File, AskedOnce(start, f),
         ByNameOnly(start, f), MadeOnce(f), Req(f)
  PROVE  Req(f)'
<1>0. ~IsAnswer(start, f) /\ m.ok /\ Type[f] = "request" /\ m \in MailerState
  BY DEF AskedOnce, Calm, ByNameOnly, TypeOK, MailerOk
<1>1. NoLine(f)'
  <2> SUFFICES ASSUME NEW l \in Flo, NEW k \in DOMAIN flo'[l].lines PROVE flo'[l].lines[k].file # f
    BY DEF NoLine
  <2>1. CASE flo' = flo
    BY <2>1 DEF NoLine, Req
  <2>2. CASE MarkSent
    BY <2>2, MarkSentIs DEF NoLine, Req
  <2>3. CASE UnlinkFlo
    <3>1. flo'[l].lines = << >> \/ flo'[l] = flo[l]
      BY <2>3 DEF UnlinkFlo, TypeOK, DiskOk
    <3> QED BY <3>1 DEF NoLine, Req
  <2>4. CASE TossLine
    <3>1. CASE Job.flo = l
      <4>1. toss.jobs # << >>
        BY <2>4 DEF TossLine, TypeOK, TossOk
      <4>2. Job.file # f
        BY <3>1, <4>1, JobIs, Constants DEF ByNameOnly
      <4> QED BY <2>4, <3>1, <4>2, TossLineIs DEF NoLine, Req
    <3>2. CASE Job.flo # l
      <4>1. flo'[l] = flo[l]
        BY <2>4, <3>2, TossLineIs
      <4> QED BY <4>1 DEF NoLine, Req
    <3> QED BY <3>1, <3>2
  <2> QED BY <2>1, <2>2, <2>3, <2>4, FloMoves
<1>2. ASSUME HasSent(f)' PROVE f \in m'.reqs /\ m'.pc \in InTransfer
  <2>1. CASE Stored /\ m.pc = "xfer" /\ InHand(f)
    <3>1. IsRequest(Current)
      BY <1>0, <2>1 DEF InHand, IsRequest
    <3>2. m' = [m EXCEPT !.pc = "mark", !.reqs = m.reqs \cup {f}]
      BY <1>0, <2>1, <3>1 DEF Stored, InHand, MailerState
    <3> QED BY <1>0, <3>2 DEF MailerState, InTransfer
  <2>2. CASE HasSent(f) /\ (Stored => Current.file # f)
    <3>1. f \in m.reqs /\ m.pc \in InTransfer
      BY <2>2 DEF Req
    <3>2. ~Cleanup
      <4> SUFFICES ASSUME Cleanup PROVE FALSE
        OBVIOUS
      <4>1. f \in Rubbish
        BY <1>0, <3>1 DEF Rubbish
      <4>2. disk'[f] = "none"
        BY <4>1 DEF Cleanup
      <4> QED BY <1>2, <4>2 DEF HasSent
    <3>3. ~ (Handshake \/ Call \/ Exit \/ CheckFlo \/ UnlinkFlo \/ Unlock)
      BY <3>1 DEF Handshake, Call, Exit, CheckFlo, UnlinkFlo, Unlock, InTransfer, At
    <3>4. CASE Stored
      <4> DEFINE reqs == IF IsRequest(Current) THEN m.reqs \cup {Current.file} ELSE m.reqs
      <4>1. m' = [m EXCEPT !.pc = "mark", !.reqs = reqs] /\ f \in reqs
        BY <1>0, <3>1, <3>4 DEF Stored, MailerState
      <4> HIDE DEF reqs
      <4> QED BY <1>0, <4>1 DEF MailerState, InTransfer
    <3>5. CASE OpenFile
      BY <3>1, <3>5, OpenFileIs, OpenFileSends DEF InTransfer
    <3> QED BY <1>0, <3>1, <3>2, <3>3, <3>4, <3>5, CalmSteps DEF Within, InTransfer
  <2> QED BY <1>0, <1>2, <2>1, <2>2, SentMoves
<1> QED BY <1>1, <1>2 DEF Req

\* A line is marked as soon as its file has been sent.
Came(f) == \E j \in DOMAIN toss.jobs : toss.jobs[j].file = f
Queued(f) ==
  m.pc \in {"send", "xfer", "mark", "dispose"} =>
    \A k \in DOMAIN m.queue : m.queue[k].file = f =>
      m.queue[k].flo \in Flo /\ \E i \in DOMAIN flo[m.queue[k].flo].lines : flo[m.queue[k].flo].lines[i].file = f
AllMarked(f) == \A l \in Flo : \A k \in DOMAIN flo[l].lines : flo[l].lines[k].file = f => flo[l].lines[k].sent
OneLine(f) ==
  /\ LinesApart(f) /\ Queued(f)
  /\ Came(f) => got[f] = 0 /\ NoLine(f)
  /\ HasSent(f) => (m.pc = "mark" /\ InHand(f)) \/ AllMarked(f)

LEMMA LineStays ==
  ASSUME TypeOK, TypeOK', AnswersOk, JobsOk, Calm, [Next]_vars, Untroubled', NEW f \in File, AskedOnce(start, f),
         ByOneLine(start, f), MadeOnce(f), OneLine(f)
  PROVE  OneLine(f)'
<1>0. /\ ~IsAnswer(start, f) /\ f \notin Named /\ m.ok /\ m \in MailerState
      /\ toss \in [pc : {"idle", "file", "line", "end"}, jobs : Seq(JobToDo)] /\ Len(toss.jobs) \in Nat
      /\ DOMAIN toss.jobs = 1..Len(toss.jobs)
  BY LenProperties DEF AskedOnce, ByOneLine, Calm, TypeOK, MailerOk, TossOk
\* The tosser's line is the only one.
<1>1. ASSUME TossLine, Job.file = f PROVE NoLine(f) /\ got[f] = 0 /\ ~Came(f)'
  <2>1. toss.jobs # << >> /\ toss.pc = "line" /\ toss'.jobs = Tail(toss.jobs)
    BY <1>1 DEF TossLine, TypeOK, TossOk
  <2>2. Job = toss.jobs[1] /\ Len(toss.jobs) > 0 /\ Len(Tail(toss.jobs)) = Len(toss.jobs) - 1 /\ Tail(toss.jobs) \in Seq(JobToDo)
    BY <1>0, <2>1, JobIs DEF Job, Head
  <2>3. Came(f)
    BY <1>0, <1>1, <2>2 DEF Came
  <2>4. ASSUME NEW j \in DOMAIN toss'.jobs, toss'.jobs[j].file = f PROVE FALSE
    <3>1. DOMAIN Tail(toss.jobs) = 1..Len(toss.jobs) - 1
      BY <2>2, LenProperties
    <3>2. \A k \in 1..Len(toss.jobs) - 1 : Tail(toss.jobs)[k] = toss.jobs[k + 1]
      BY <1>0, <2>1, <2>2, HeadTailProperties, SMTT(30)
    <3>3. j \in 1..Len(toss.jobs) - 1 /\ toss.jobs[j + 1].file = f /\ j + 1 \in 1..Len(toss.jobs)
      BY <1>0, <2>1, <2>4, <3>1, <3>2
    <3> DEFINE a == Len(start.later) - Len(toss.jobs)
    <3>4. /\ Len(start.later) \in Nat /\ Len(toss.jobs) <= Len(start.later)
          /\ Job = start.later[a + 1] /\ toss.jobs[j + 1] = start.later[a + (j + 1)]
      BY <2>1, <3>3, JobIs DEF JobsOk
    <3>5. a \in Nat /\ a + 1 \in 1..Len(start.later) /\ a + (j + 1) \in 1..Len(start.later) /\ a + 1 # a + (j + 1)
      BY <1>0, <3>3, <3>4
    <3>6. DOMAIN start.later = 1..Len(start.later)
      BY StartIs, LenProperties
    <3> HIDE DEF a
    <3> QED BY <1>1, <3>3, <3>4, <3>5, <3>6 DEF AskedOnce
  <2> QED BY <2>3, <2>4 DEF OneLine, Came
<1>2. LinesApart(f)'
  <2> SUFFICES ASSUME NEW l1 \in Flo, NEW l2 \in Flo, NEW k1 \in DOMAIN flo'[l1].lines, NEW k2 \in DOMAIN flo'[l2].lines,
                      flo'[l1].lines[k1].file = f, flo'[l2].lines[k2].file = f
               PROVE  l1 = l2 /\ k1 = k2
    BY DEF LinesApart
  <2>1. CASE flo' = flo
    BY <2>1 DEF LinesApart, OneLine
  <2>2. CASE MarkSent
    BY <2>2, MarkSentIs DEF LinesApart, OneLine
  <2>3. CASE UnlinkFlo
    <3>1. \A l \in Flo : flo'[l].lines = << >> \/ flo'[l] = flo[l]
      BY <2>3 DEF UnlinkFlo, TypeOK, DiskOk
    <3> QED BY <3>1 DEF LinesApart, OneLine
  <2>4. CASE TossLine /\ Job.file # f
    <3>1. \A l \in Flo : \A k \in DOMAIN flo'[l].lines : flo'[l].lines[k].file = f =>
              k \in DOMAIN flo[l].lines /\ flo[l].lines[k].file = f
      BY <2>4, TossLineIs
    <3> QED BY <3>1 DEF LinesApart, OneLine
  <2>5. CASE TossLine /\ Job.file = f
    <3>1. NoLine(f)
      BY <1>1, <2>5
    <3>2. \A l \in Flo : \A k \in DOMAIN flo'[l].lines : flo'[l].lines[k].file = f =>
              l = Job.flo /\ k = Len(flo[Job.flo].lines) + 1
      BY <2>5, <3>1, TossLineIs DEF NoLine
    <3> QED BY <3>2
  <2> QED BY <2>1, <2>2, <2>3, <2>4, <2>5, FloMoves
<1>3. ASSUME Came(f)' PROVE got'[f] = 0 /\ NoLine(f)'
  <2>1. Came(f) /\ ~ (TossLine /\ Job.file = f)
    <3>1. CASE TossLine
      <4>1. toss.jobs # << >> /\ toss'.jobs = Tail(toss.jobs)
        BY <3>1 DEF TossLine, TypeOK, TossOk
      <4>2. Len(toss.jobs) > 0 /\ Len(Tail(toss.jobs)) = Len(toss.jobs) - 1 /\ Tail(toss.jobs) \in Seq(JobToDo)
        BY <1>0, <4>1, JobIs
      <4>3. DOMAIN Tail(toss.jobs) = 1..Len(toss.jobs) - 1
        BY <4>2, LenProperties
      <4>4. \A k \in 1..Len(toss.jobs) - 1 : Tail(toss.jobs)[k] = toss.jobs[k + 1] /\ k + 1 \in DOMAIN toss.jobs
        BY <1>0, <4>1, <4>2, HeadTailProperties, SMTT(30)
      <4> QED BY <1>1, <1>3, <4>1, <4>3, <4>4 DEF Came
    <3>2. CASE ~TossLine
      <4>1. toss'.jobs = toss.jobs
        BY <1>0, <3>2, TossMoves DEF Tosser, TossBegin, TossFile, TossEnd
      <4> QED BY <1>3, <3>2, <4>1 DEF Came
    <3> QED BY <3>1, <3>2
  <2>2. got[f] = 0 /\ NoLine(f)
    BY <2>1 DEF OneLine
  <2>3. NoLine(f)'
    <3> SUFFICES ASSUME NEW l \in Flo, NEW k \in DOMAIN flo'[l].lines PROVE flo'[l].lines[k].file # f
      BY DEF NoLine
    <3>1. CASE flo' = flo
      BY <2>2, <3>1 DEF NoLine
    <3>2. CASE MarkSent
      BY <2>2, <3>2, MarkSentIs DEF NoLine
    <3>3. CASE UnlinkFlo
      <4>1. flo'[l].lines = << >> \/ flo'[l] = flo[l]
        BY <3>3 DEF UnlinkFlo, TypeOK, DiskOk
      <4> QED BY <2>2, <4>1 DEF NoLine
    <3>4. CASE TossLine
      BY <2>1, <2>2, <3>4, TossLineIs DEF NoLine
    <3> QED BY <3>1, <3>2, <3>3, <3>4, FloMoves
  <2>4. got'[f] = 0
    <3>1. got \in [File -> Nat] /\ got' \in [File -> Nat]
      BY DEF TypeOK
    <3>2. CASE disk[f] # "full"
      <4>1. got' = got \/ \E g : Gets(g)
        BY DEF Next, vars, StaleLock, Rest, Tosser, TossBegin, TossFile, TossLine, TossEnd, Mailer, Faults, Call, NoSession,
               Handshake, OpenFile, NoMoreFiles, Stored, Skipped, Refused, Fails, MarkSent, Dispose, Cleanup, CheckFlo,
               UnlinkFlo, Unlock, Exit, Crash
      <4> QED BY <2>2, <3>1, <3>2, <4>1 DEF Gets
    <3>3. CASE disk[f] = "full"
      <4> SUFFICES ASSUME got'[f] # 0 PROVE FALSE
        OBVIOUS
      <4>1. Stored
        <5>1. ~Fails
          <6> SUFFICES ASSUME Fails PROVE FALSE
            OBVIOUS
          <6>1. used \in [bad : Nat, crashes : Nat] /\ used' = [used EXCEPT !.bad = used.bad + 1]
            BY DEF Fails, TypeOK
          <6> QED BY <6>1 DEF Untroubled
        <5>2. got' # got
          BY <2>2
        <5> QED BY <5>1, <5>2 DEF Next, vars, StaleLock, Rest, Tosser, TossBegin, TossFile, TossLine, TossEnd, Mailer, Faults,
             Call, NoSession, Handshake, OpenFile, NoMoreFiles, Skipped, Refused, MarkSent, Dispose, Cleanup, CheckFlo,
             UnlinkFlo, Unlock, Exit, Crash
      <4>2. HasSent(f)'
        BY <3>1, <3>3, <4>1 DEF HasSent, Stored
      <4>3. m.pc = "xfer" /\ InHand(f)
        BY <1>0, <2>2, <4>2, SentMoves DEF HasSent
      <4>4. \E k \in DOMAIN m.queue : m.queue[k].file = f
        BY <4>3, CurrentIs DEF InHand
      <4> QED BY <2>2, <4>3, <4>4 DEF OneLine, Queued, NoLine
    <3> QED BY <3>2, <3>3
  <2> QED BY <2>3, <2>4
<1>4. Queued(f)'
  <2> SUFFICES ASSUME m'.pc \in {"send", "xfer", "mark", "dispose"}, NEW k \in DOMAIN m'.queue, m'.queue[k].file = f
               PROVE  /\ m'.queue[k].flo \in Flo
                      /\ \E i \in DOMAIN flo'[m'.queue[k].flo].lines : flo'[m'.queue[k].flo].lines[i].file = f
    BY DEF Queued
  <2>1. CASE Handshake
    <3>1. m.queue = << >> /\ flo' = flo
      BY <2>1, HandshakeIs DEF Calm, Handshake, At
    <3>2. k \in DOMAIN Scanned /\ m'.queue[k].file = Scanned[k].file /\ m'.queue[k].flo = Scanned[k].flo
      BY <2>1, <3>1, HandshakeFresh
    <3> DEFINE e == Scanned[k]
    <3>3. e \in NamedEntry \cup LineEntry
      BY <3>2, ScannedIs, LenProperties, ElementOfSeq
    <3>4. e.file = f
      BY <3>2
    <3>5. e \in LineEntry
      BY <1>0, <3>3, <3>4 DEF NamedEntry
    <3> QED BY <3>1, <3>2, <3>4, <3>5 DEF LineEntry
  <2>2. CASE ~Handshake
    <3>1. /\ m.pc \in {"send", "xfer", "mark", "dispose"} /\ k \in DOMAIN m.queue
          /\ m.queue[k].file = f /\ m'.queue[k].flo = m.queue[k].flo
      <4>1. CASE OpenFile
        BY <4>1, OpenFileIs
      <4>2. CASE ~OpenFile
        BY <1>0, <2>2, <4>2, CalmSteps DEF Within
      <4> QED BY <4>1, <4>2
    <3> DEFINE l == m.queue[k].flo
    <3>2. l \in Flo /\ \E i \in DOMAIN flo[l].lines : flo[l].lines[i].file = f
      BY <3>1 DEF OneLine, Queued
    <3>3. PICK i \in DOMAIN flo[l].lines : flo[l].lines[i].file = f
      BY <3>2
    <3>4. ~UnlinkFlo
      BY <3>1 DEF UnlinkFlo, At
    <3> HIDE DEF l
    <3>5. i \in DOMAIN flo'[l].lines /\ flo'[l].lines[i].file = f
      <4>1. CASE flo' = flo
        BY <3>3, <4>1
      <4>2. CASE MarkSent
        BY <3>2, <3>3, <4>2, MarkSentIs
      <4>3. CASE TossLine
        BY <3>2, <3>3, <4>3, TossLineIs
      <4> QED BY <3>4, <4>1, <4>2, <4>3, FloMoves
    <3> QED BY <3>1, <3>2, <3>5 DEF l
  <2> QED BY <2>1, <2>2
<1>5. ASSUME HasSent(f)' PROVE (m'.pc = "mark" /\ InHand(f)') \/ AllMarked(f)'
  <2>1. CASE Stored /\ m.pc = "xfer" /\ InHand(f)
    <3>1. ~ (Handshake \/ OpenFile \/ Call \/ Exit \/ Unlock \/ NoMoreFiles \/ MarkSent \/ Dispose \/ Cleanup \/ CheckFlo
           \/ UnlinkFlo)
      BY <2>1 DEF Handshake, OpenFile, Call, Exit, Unlock, NoMoreFiles, MarkSent, Dispose, Cleanup, CheckFlo, UnlinkFlo, At
    <3>2. Within("xfer", "mark") /\ m'.cur = m.cur
      BY <1>0, <2>1, <3>1, CalmSteps
    <3> QED BY <2>1, <3>2 DEF Within, InHand, OnFile, Current
  <2>2. CASE HasSent(f)
    <3>1. CASE MarkSent /\ InHand(f)
      <4> DEFINE l == Current.flo
      <4>1. Current.file = f /\ l \in Flo /\ \E i \in DOMAIN flo[l].lines : flo[l].lines[i].file = f
        <5>1. m.pc = "mark" /\ m.pc \in OnFile /\ m.cur > 0
          BY <3>1 DEF MarkSent, At, OnFile, InHand
        <5>2. m.cur \in DOMAIN m.queue /\ Current = m.queue[m.cur]
          BY <5>1, CurrentIs
        <5> QED BY <3>1, <5>1, <5>2 DEF InHand, OneLine, Queued
      <4> HIDE DEF l
      <4>2. PICK i \in DOMAIN flo[l].lines : flo[l].lines[i].file = f
        BY <4>1
      <4>3. ASSUME NEW x \in Flo, NEW k \in DOMAIN flo'[x].lines, flo'[x].lines[k].file = f PROVE flo'[x].lines[k].sent
        <5>1. k \in DOMAIN flo[x].lines /\ flo[x].lines[k].file = f
          BY <3>1, <4>3, MarkSentIs
        <5>2. x = l /\ k = i
          BY <4>1, <4>2, <5>1 DEF OneLine, LinesApart
        <5>3. \A a, b \in DOMAIN flo[l].lines : flo[l].lines[a].file = f /\ flo[l].lines[b].file = f => a = b
          BY <4>1 DEF OneLine, LinesApart
        <5> QED BY <3>1, <4>1, <5>1, <5>2, <5>3, MarkSentIs DEF l
      <4> QED BY <4>3 DEF AllMarked
    <3>2. CASE AllMarked(f)
      <4> SUFFICES ASSUME NEW l \in Flo, NEW k \in DOMAIN flo'[l].lines, flo'[l].lines[k].file = f PROVE flo'[l].lines[k].sent
        BY DEF AllMarked
      <4>1. CASE flo' = flo
        BY <3>2, <4>1 DEF AllMarked
      <4>2. CASE MarkSent
        BY <3>2, <4>2, MarkSentIs DEF AllMarked
      <4>3. CASE UnlinkFlo
        <5>1. flo'[l].lines = << >> \/ flo'[l] = flo[l]
          BY <4>3 DEF UnlinkFlo, TypeOK, DiskOk
        <5> QED BY <3>2, <5>1 DEF AllMarked
      <4>4. CASE TossLine
        <5>1. Job.file # f
          BY <1>1, <2>2, <4>4 DEF HasSent
        <5> QED BY <3>2, <4>4, <5>1, TossLineIs DEF AllMarked
      <4> QED BY <4>1, <4>2, <4>3, <4>4, FloMoves
    <3>3. CASE m.pc = "mark" /\ InHand(f) /\ ~MarkSent
      <4>1. ~ (Handshake \/ OpenFile \/ Call \/ Exit \/ Unlock \/ NoMoreFiles \/ Stored \/ Dispose \/ Cleanup \/ CheckFlo
               \/ UnlinkFlo)
        BY <3>3 DEF Handshake, OpenFile, Call, Exit, Unlock, NoMoreFiles, Stored, Dispose, Cleanup, CheckFlo, UnlinkFlo, At
      <4>2. m' = m
        BY <1>0, <3>3, <4>1, CalmSteps
      <4> QED BY <3>3, <4>2 DEF InHand, OnFile, Current
    <3> QED BY <2>2, <3>1, <3>2, <3>3 DEF OneLine
  <2> QED BY <1>0, <1>5, <2>1, <2>2, SentMoves
<1> QED BY <1>2, <1>3, <1>4, <1>5 DEF OneLine

\* The three ways in which a file can be asked for once.
Once(f) ==
  /\ MadeOnce(f) /\ got[f] <= 1
  /\ GoesWhenSent(start, f) => Removes(f) /\ Going(f)
  /\ ByNameOnly(start, f) => OnceQueued(f) /\ Over(f) /\ Req(f)
  /\ ByOneLine(start, f) => OnceQueued(f) /\ Over(f) /\ OneLine(f)

LEMMA OnceBegins == ASSUME Init, NEW f \in File, AskedOnce(start, f) PROVE Once(f)
<1>1. PICK s \in Starts :
        /\ start = s /\ disk = [g \in File |-> IF g \in s.disk THEN "full" ELSE "none"]
        /\ flo = [l \in Flo |-> [there |-> s.flo[l] # << >>, lines |-> [k \in DOMAIN s.flo[l] |-> Unsent(s.flo[l][k])]]]
        /\ m = Idle /\ toss = [pc |-> "idle", jobs |-> s.later] /\ got = [g \in File |-> 0]
  BY DEF Init
<1>2. got[f] = 0 /\ ~HasSent(f) /\ m.queue = << >> /\ m.pc = "idle" /\ start \in Start
  BY <1>1, Constants DEF HasSent, Idle
<1>3. DOMAIN start.later = 1..Len(start.later)
  <2>1. start.later \in Seq(JobToDo)
    BY <1>2 DEF Start, JobToDo
  <2> QED BY <2>1, LenProperties
<1>4. MadeOnce(f)
  <2> SUFFICES ASSUME NEW j \in Undone, toss.jobs[j].file = f PROVE disk[f] # "full"
    BY <1>2 DEF MadeOnce
  <2>1. j \in DOMAIN start.later /\ start.later[j].file = f
    BY <1>1, <1>3 DEF Undone
  <2> QED BY <1>1, <2>1 DEF AskedOnce, Comes
<1>5. \A l \in Flo : /\ DOMAIN flo[l].lines = DOMAIN start.flo[l]
                     /\ \A k \in DOMAIN start.flo[l] : /\ flo[l].lines[k].file = start.flo[l][k].file
                                                       /\ flo[l].lines[k].act = start.flo[l][k].act
  BY <1>1 DEF Unsent
<1>6. OnceQueued(f) /\ Over(f) /\ Going(f)
  BY <1>2 DEF OnceQueued, Over, Going, OnFile
<1>7. GoesWhenSent(start, f) => Removes(f)
  BY <1>2, <1>5 DEF GoesWhenSent, Removes
<1>8. ~HasLine(start, f) => NoLine(f)
  BY <1>5 DEF HasLine, NoLine
<1>9. ASSUME ByOneLine(start, f) PROVE OneLine(f)
  <2>1. LinesApart(f)
    BY <1>5, <1>9 DEF ByOneLine, LinesApart
  <2>2. Came(f) => Comes(start, f)
    BY <1>1 DEF Came, Comes
  <2> QED BY <1>2, <1>8, <1>9, <2>1, <2>2 DEF OneLine, ByOneLine, Queued
<1> QED BY <1>2, <1>4, <1>6, <1>7, <1>8, <1>9 DEF Once, ByNameOnly, Req

LEMMA OnceGoesOn ==
  ASSUME TypeOK, TypeOK', AnswersOk, JobsOk, Calm, [Next]_vars, Untroubled', NEW f \in File, AskedOnce(start, f), Once(f)
  PROVE  Once(f)'
<1>1. MadeOnce(f)' /\ start' = start /\ ~IsAnswer(start, f) /\ m.ok
  BY MadeOnceStays, StartStays DEF Once, AskedOnce, Calm
<1>2. GoesWhenSent(start, f) => Removes(f)' /\ Going(f)'
  BY <1>1, RemovesStays, GoingStays DEF Once
<1>3. ASSUME ByNameOnly(start, f) PROVE OnceQueued(f)' /\ Over(f)' /\ Req(f)'
  <2>1. OnceQueued(f) /\ Over(f) /\ Req(f) /\ MadeOnce(f)
    BY <1>3 DEF Once
  <2>2. NoLine(f) /\ LinesApart(f)
    BY <2>1 DEF Req, NoLine, LinesApart
  <2>3. OnceQueued(f)'
    BY <2>1, <2>2, OnceStays
  <2>4. Over(f)'
    <3>1. ~ (HasSent(f) /\ m.pc = "call")
      BY <2>1 DEF Req, InTransfer
    <3> QED BY <2>1, <3>1, OverStays
  <2>5. Req(f)'
    BY <1>3, <2>1, ReqStays
  <2> QED BY <2>3, <2>4, <2>5
<1>4. ASSUME ByOneLine(start, f) PROVE OnceQueued(f)' /\ Over(f)' /\ OneLine(f)'
  <2>1. OnceQueued(f) /\ Over(f) /\ OneLine(f) /\ MadeOnce(f) /\ f \notin Named
    BY <1>4 DEF Once, ByOneLine
  <2>2. OnceQueued(f)'
    BY <2>1, OnceStays DEF OneLine
  <2>3. Over(f)'
    <3> SUFFICES ASSUME HasSent(f), m.pc = "call", NEW k \in DOMAIN Scanned, Scanned[k].file = f PROVE FALSE
      BY <2>1, OverStays
    <3>1. AllMarked(f)
      BY <2>1 DEF OneLine
    <3> DEFINE e == Scanned[k]
    <3>2. e \in NamedEntry \cup LineEntry /\ e.file = f
      BY ScannedIs, LenProperties, ElementOfSeq
    <3> HIDE DEF e
    <3> QED BY <2>1, <3>1, <3>2 DEF NamedEntry, LineEntry, AllMarked
  <2>4. OneLine(f)'
    BY <1>4, <2>1, LineStays
  <2> QED BY <2>2, <2>3, <2>4
<1>5. got'[f] <= 1
  <2>1. got[f] <= 1 /\ got \in [File -> Nat] /\ got' \in [File -> Nat] /\ MadeOnce(f)
    BY DEF Once, TypeOK
  <2>2. ~ (HasSent(f) /\ m.pc = "xfer" /\ InHand(f))
    BY DEF Once, AskedOnce, Going, Over
  <2>3. CASE HasSent(f)'
    <3>1. CASE got'[f] = got[f]
      BY <2>1, <3>1
    <3>2. CASE m.pc = "xfer" /\ InHand(f) /\ disk[f] = "full" /\ got'[f] <= got[f] + 1
      <4>1. got[f] = 0
        BY <2>1, <2>2, <3>2 DEF HasSent
      <4> QED BY <2>1, <3>2, <4>1
    <3> QED BY <1>1, <2>1, <2>3, <3>1, <3>2, SentMoves
  <2>4. CASE ~HasSent(f)'
    <3>1. CASE Stored
      <4>1. Gets(Current.file) /\ disk' = disk
        BY <3>1 DEF Stored
      <4>2. got'[f] = 0 \/ disk[f] # "full"
        BY <2>1, <2>4, <4>1 DEF HasSent
      <4>3. got'[f] = 0 \/ got'[f] = got[f]
        BY <2>1, <4>1, <4>2 DEF Gets
      <4> QED BY <2>1, <4>3
    <3>2. CASE ~Stored
      <4>1. ~Fails
        <5> SUFFICES ASSUME Fails PROVE FALSE
          OBVIOUS
        <5>1. used \in [bad : Nat, crashes : Nat] /\ used' = [used EXCEPT !.bad = used.bad + 1]
          BY DEF Fails, TypeOK
        <5> QED BY <5>1 DEF Untroubled
      <4>2. got' = got
        BY <3>2, <4>1 DEF Next, vars, StaleLock, Rest, Tosser, TossBegin, TossFile, TossLine, TossEnd, Mailer, Faults, Call,
           NoSession, Handshake, OpenFile, NoMoreFiles, Skipped, Refused, MarkSent, Dispose, Cleanup, CheckFlo, UnlinkFlo,
           Unlock, Exit, Crash
      <4> QED BY <2>1, <4>2
    <3> QED BY <3>1, <3>2
  <2> QED BY <2>3, <2>4
<1> QED BY <1>1, <1>2, <1>3, <1>4, <1>5 DEF Once

OnceInv == /\ AnswersOk /\ JobsOk
           /\ Untroubled => Calm /\ \A f \in File : AskedOnce(start, f) => Once(f)

LEMMA OnceHolds == Spec => []OnceInv
<1>1. Init => OnceInv
  <2> SUFFICES ASSUME Init PROVE OnceInv
    OBVIOUS
  <2>1. start \in Starts /\ m = Idle /\ toss = [pc |-> "idle", jobs |-> start.later]
    BY DEF Init
  <2>2. Len(start.later) \in Nat
    <3>1. start.later \in Seq(JobToDo)
      BY <2>1, Constants DEF Start, JobToDo
    <3> QED BY <3>1, LenProperties
  <2>3. AnswersOk /\ Calm
    BY <2>1 DEF Idle, AnswersOk, InTransfer, Calm
  <2>4. JobsOk
    <3>1. toss.jobs = start.later /\ \A k \in 1..Len(start.later) : Len(start.later) - Len(start.later) + k = k
      BY <2>1, <2>2
    <3> QED BY <2>2, <3>1 DEF JobsOk
  <2> QED BY <2>3, <2>4, OnceBegins DEF OnceInv
<1>2. TypeOK /\ TypeOK' /\ OnceInv /\ [Next]_vars => OnceInv'
  <2> SUFFICES ASSUME TypeOK, TypeOK', OnceInv, [Next]_vars PROVE OnceInv'
    OBVIOUS
  <2>1. AnswersOk' /\ JobsOk' /\ start' = start
    BY AnswersStay, JobsStay, StartStays DEF OnceInv
  <2>2. ASSUME Untroubled' PROVE Calm' /\ \A f \in File : AskedOnce(start, f) => Once(f)'
    <3>1. Untroubled
      <4>1. used \in [bad : Nat, crashes : Nat] /\ used' \in [bad : Nat, crashes : Nat]
        BY DEF TypeOK
      <4>2. used' = used \/ used' = [used EXCEPT !.bad = used.bad + 1] \/ used' = [used EXCEPT !.crashes = used.crashes + 1]
        BY <4>1 DEF Next, vars, StaleLock, Rest, Tosser, TossBegin, TossFile, TossLine, TossEnd, Mailer, Faults,
           Call, NoSession, Handshake, OpenFile, NoMoreFiles, Stored, Skipped, Refused, Fails, MarkSent, Dispose, Cleanup,
           CheckFlo, UnlinkFlo, Unlock, Exit, Crash
      <4> QED BY <2>2, <4>1, <4>2 DEF Untroubled
    <3>2. Calm /\ \A f \in File : AskedOnce(start, f) => Once(f)
      BY <3>1 DEF OnceInv
    <3>3. Calm'
      BY <2>2, <3>2, CalmStays
    <3> QED BY <2>2, <3>2, <3>3, OnceGoesOn DEF OnceInv
  <2> QED BY <2>1, <2>2 DEF OnceInv
<1> QED BY <1>1, <1>2, Types, PTL DEF Spec

\* A file that somebody asks for once is stored by the remote at most once, as
\* long as no call fails and nobody crashes, whatever else is in the outbound
\* and however many calls there are: p_tx_fclose marks its line or removes it
\* before the next scan, or the request is removed at the end of the session.
THEOREM OnceEach == Spec => [](Untroubled => \A f \in File : AskedOnce(start, f) => got[f] <= 1)
<1>1. OnceInv => (Untroubled => \A f \in File : AskedOnce(start, f) => got[f] <= 1)
  BY DEF OnceInv, Once
<1> QED BY <1>1, OnceHolds, PTL

\* Where every file is asked for once, none is sent twice.
THEOREM NoneTwice == Spec => []((\A f \in File : AskedOnce(start, f)) => SentOnce)
<1>1. OnceInv => ((\A f \in File : AskedOnce(start, f)) => SentOnce)
  BY DEF OnceInv, Once, SentOnce, Untroubled
<1> QED BY <1>1, OnceHolds, PTL
=============================================================================

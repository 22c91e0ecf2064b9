---------------------------- MODULE DaemonProofs ----------------------------
(***************************************************************************)
(* Proofs about Daemon, for every set of addresses, children, ports and    *)
(* lines, every limit and every point at which timers expire and SIGCHLD   *)
(* is taken.                                                               *)
(***************************************************************************)
EXTENDS Daemon, FiniteSetTheorems, FunctionTheorems, SequenceTheorems,
        WellFoundedInduction, TLAPS

-----------------------------------------------------------------------------
(* Sequences and records.                                                  *)

LEMMA SeqOf ==
  ASSUME NEW S, NEW n \in Nat, NEW f \in [1..n -> S]
  PROVE  f \in Seq(S) /\ Len(f) = n /\ DOMAIN f = 1..n
  OBVIOUS

LEMMA SeqHas ==
  ASSUME NEW S, NEW s \in Seq(S)
  PROVE  /\ Len(s) \in Nat /\ DOMAIN s = 1..Len(s)
         /\ \A i \in DOMAIN s : s[i] \in S
  OBVIOUS

\* memmove() keeps every element but one, in order.
LEMMA WithoutKeeps ==
  ASSUME NEW S, NEW s \in Seq(S), NEW i \in DOMAIN s
  PROVE  /\ Without(s, i) \in Seq(S) /\ Len(Without(s, i)) = Len(s) - 1
         /\ DOMAIN Without(s, i) = 1..(Len(s) - 1)
         /\ \A j \in 1..(Len(s) - 1) :
              Without(s, i)[j] = IF j < i THEN s[j] ELSE s[j + 1]
         /\ \A j \in DOMAIN s : j # i =>
              /\ (IF j < i THEN j ELSE j - 1) \in DOMAIN Without(s, i)
              /\ Without(s, i)[IF j < i THEN j ELSE j - 1] = s[j]
<1>1. Len(s) - 1 \in Nat /\ i \in 1..Len(s) /\ DOMAIN s = 1..Len(s)
  OBVIOUS
<1>2. Without(s, i) \in [1..(Len(s) - 1) -> S]
  <2>1. \A j \in 1..(Len(s) - 1) : j \in DOMAIN s /\ j + 1 \in DOMAIN s
    BY <1>1
  <2> QED BY <2>1, SeqHas DEF Without
<1>3. /\ Without(s, i) \in Seq(S) /\ Len(Without(s, i)) = Len(s) - 1
      /\ DOMAIN Without(s, i) = 1..(Len(s) - 1)
  BY <1>1, <1>2, SeqOf
<1>4. \A j \in 1..(Len(s) - 1) :
        Without(s, i)[j] = IF j < i THEN s[j] ELSE s[j + 1]
  BY DEF Without
<1>5. ASSUME NEW j \in DOMAIN s, j # i
      PROVE  /\ (IF j < i THEN j ELSE j - 1) \in DOMAIN Without(s, i)
             /\ Without(s, i)[IF j < i THEN j ELSE j - 1] = s[j]
  <2>1. CASE j < i
    BY <1>1, <1>3, <1>4, <1>5, <2>1
  <2>2. CASE ~(j < i)
    <3>1. j - 1 \in 1..(Len(s) - 1) /\ ~(j - 1 < i) /\ (j - 1) + 1 = j
      BY <1>1, <1>5, <2>2
    <3>2. Without(s, i)[j - 1] = s[j]
      BY <1>4, <3>1
    <3> QED BY <1>3, <2>2, <3>1, <3>2
  <2> QED BY <2>1, <2>2
<1> QED BY <1>3, <1>4, <1>5

\* A child that has a state other than "none" is one, and knows its address.
LEMMA ChildCases ==
  ASSUME TypeOK, NEW p \in Pids
  PROVE  /\ child[p].state \in {"running", "zombie"} => child[p] # NoChild
         /\ child[p] # NoChild =>
              child[p] \in [state : {"running", "zombie"}, addr : Addr, via : Queues,
                            ok : BOOLEAN]
<1>1. child[p] \in Child
  BY DEF TypeOK
<1>2. NoChild.state = "none"
  BY DEF NoChild
<1> QED BY <1>1, <1>2 DEF Child

-----------------------------------------------------------------------------
(* What the operations of the systems queue do to its entries.             *)

\* Entries keep their place, their address and whether they are busy.
EntriesStay ==
  /\ queue' \in Seq(Sysentry) /\ DOMAIN queue' = DOMAIN queue
  /\ \A i \in DOMAIN queue : /\ queue'[i].addr = queue[i].addr
                             /\ queue'[i].busy = queue[i].busy

LEMMA QueueHas ==
  ASSUME TypeOK
  PROVE  /\ queue \in Seq(Sysentry) /\ Len(queue) \in Nat /\ DOMAIN queue = 1..Len(queue)
         /\ \A i \in DOMAIN queue : queue[i] \in Sysentry
  BY SeqHas DEF TypeOK

\* A queue made entry by entry.
LEMMA Remade ==
  ASSUME TypeOK, queue' \in [DOMAIN queue -> Sysentry]
  PROVE  queue' \in Seq(Sysentry) /\ DOMAIN queue' = DOMAIN queue /\ Len(queue') = Len(queue)
  BY QueueHas, SeqOf

LEMMA RestedEntries ==
  ASSUME TypeOK, NEW a \in Addr, Rested(a)
  PROVE  EntriesStay /\ \A i \in DOMAIN queue : queue'[i].hold = queue[i].hold
<1>1. queue' = [i \in DOMAIN queue |->
                  IF queue[i].addr = a THEN [queue[i] EXCEPT !.recent = FALSE] ELSE queue[i]]
  BY DEF Rested
<1>2. ASSUME NEW i \in DOMAIN queue
      PROVE  /\ queue'[i] \in Sysentry /\ queue'[i].addr = queue[i].addr
             /\ queue'[i].busy = queue[i].busy /\ queue'[i].hold = queue[i].hold
  BY <1>1, QueueHas DEF Sysentry
<1>3. queue' \in [DOMAIN queue -> Sysentry]
  BY <1>1, <1>2
<1> QED BY <1>2, <1>3, Remade DEF EntriesStay

LEMMA HoldOverEntries ==
  ASSUME TypeOK, NEW a \in Addr, HoldOver(a)
  PROVE  /\ EntriesStay
         /\ \A i \in DOMAIN queue :
              queue'[i].hold = IF queue[i].addr = a /\ queue[i].hold = "future"
                                 THEN "past" ELSE queue[i].hold
<1>1. queue' = [i \in DOMAIN queue |->
                  IF queue[i].addr = a /\ queue[i].hold = "future"
                    THEN [queue[i] EXCEPT !.hold = "past"] ELSE queue[i]]
  BY DEF HoldOver
<1>2. ASSUME NEW i \in DOMAIN queue
      PROVE  /\ queue'[i] \in Sysentry /\ queue'[i].addr = queue[i].addr
             /\ queue'[i].busy = queue[i].busy
             /\ queue'[i].hold = IF queue[i].addr = a /\ queue[i].hold = "future"
                                   THEN "past" ELSE queue[i].hold
  BY <1>1, QueueHas DEF Sysentry, Holds
<1>3. queue' \in [DOMAIN queue -> Sysentry]
  BY <1>1, <1>2
<1> QED BY <1>2, <1>3, Remade DEF EntriesStay

LEMMA EntryOfIs ==
  ASSUME TypeOK, NEW a
  PROVE  /\ EntryOf(a) # 0 => EntryOf(a) \in DOMAIN queue /\ queue[EntryOf(a)].addr = a
         /\ EntryOf(a) = 0 => \A i \in DOMAIN queue : queue[i].addr # a
<1>1. CASE \E i \in DOMAIN queue : queue[i].addr = a
  <2>1. EntryOf(a) \in DOMAIN queue /\ queue[EntryOf(a)].addr = a
    BY <1>1 DEF EntryOf
  <2> QED BY <2>1, QueueHas
<1>2. CASE ~\E i \in DOMAIN queue : queue[i].addr = a
  BY <1>2 DEF EntryOf
<1> QED BY <1>1, <1>2

LEMMA ReapEntries ==
  ASSUME TypeOK, NEW i \in DOMAIN branch, Reap(i)
  PROVE  LET a == branch[i].addr
             e == EntryOf(a) IN
         \/ e = 0 /\ UNCHANGED <<queue, cur, sts>>
         \/ e # 0 /\ RemoveEntry(e) /\ sts' = [sts EXCEPT ![a] = AfterTries(a)]
         \/ /\ e # 0 /\ cur' = cur /\ sts' = [sts EXCEPT ![a] = AfterTries(a)]
            /\ EntriesStay
            /\ \A k \in DOMAIN queue : queue'[k].hold = IF k = e THEN AfterTries(a).hold
                                                                 ELSE queue[k].hold
<1> DEFINE a == branch[i].addr
           e == EntryOf(a)
<1>1. a \in Addr /\ sts[a] \in [tries : 0..MaxTries, hold : Holds]
  <2>1. branch[i] \in Branch
    BY SeqHas DEF TypeOK
  <2>2. a \in Addr
    BY <2>1 DEF Branch
  <2> QED BY <2>2 DEF TypeOK
<1>2. AfterTries(a).hold \in Holds
  BY <1>1 DEF AfterTries, Holds
<1>3. CASE e # 0 /\ ~branch[i].ok
  <2>1. queue' = [queue EXCEPT ![e].recent = TRUE, ![e].hold = AfterTries(a).hold,
                               ![e].undialable = FALSE]
    BY <1>3 DEF Reap
  <2>2. e \in DOMAIN queue
    BY <1>3, EntryOfIs
  <2>3. ASSUME NEW k \in DOMAIN queue
        PROVE  /\ queue'[k] \in Sysentry /\ queue'[k].addr = queue[k].addr
               /\ queue'[k].busy = queue[k].busy
               /\ queue'[k].hold = IF k = e THEN AfterTries(a).hold ELSE queue[k].hold
    <3> HIDE DEF a, e
    <3>1. queue[k] \in Sysentry
      BY QueueHas
    <3>2. CASE k = e
      BY <1>2, <2>1, <2>2, <3>1, <3>2 DEF Sysentry
    <3>3. CASE k # e
      BY <2>1, <2>2, <3>1, <3>3
    <3> QED BY <3>2, <3>3
  <2>4. queue' \in [DOMAIN queue -> Sysentry]
    <3> HIDE DEF a, e
    <3> QED BY <2>1, <2>3
  <2>5. EntriesStay
    BY <2>3, <2>4, Remade DEF EntriesStay
  <2> QED BY <1>3, <2>3, <2>5 DEF Reap
<1>4. CASE e # 0 /\ branch[i].ok
  BY <1>4 DEF Reap
<1>5. CASE e = 0
  BY <1>5 DEF Reap
<1> QED BY <1>3, <1>4, <1>5

LEMMA RescanEntries ==
  ASSUME TypeOK, Rescan
  PROVE  /\ queue' \in Seq(Sysentry) /\ DOMAIN queue \subseteq DOMAIN queue'
         /\ Len(queue) <= Len(queue')
         /\ \A i \in DOMAIN queue : /\ queue'[i].addr = queue[i].addr
                                    /\ queue'[i].busy = queue[i].busy
                                    /\ queue'[i].hold = queue[i].hold
         /\ \A i \in DOMAIN queue' \ DOMAIN queue :
              /\ ~queue'[i].busy /\ queue'[i].hold = sts[queue'[i].addr].hold
              /\ \A j \in DOMAIN queue' : queue'[j].addr = queue'[i].addr => i = j
<1> DEFINE listed == {queue[i].addr : i \in DOMAIN queue}
           S      == Scanned \ listed
<1>1. S \subseteq Addr /\ Cardinality(S) \in Nat
  <2>1. S \subseteq Addr
    BY DEF Scanned
  <2> QED BY <2>1, AddrAssumption, FS_Subset, FS_CardinalityType
<1>2. PICK new \in Arrangements(S) :
        queue' = [i \in DOMAIN queue |-> Refilled(queue[i])] \o [i \in DOMAIN new |-> NewEntry(new[i])]
  BY DEF Rescan
<1> DEFINE n   == Cardinality(S)
           old == [i \in DOMAIN queue |-> Refilled(queue[i])]
           add == [i \in DOMAIN new |-> NewEntry(new[i])]
<1>3. /\ new \in [1..n -> S] /\ DOMAIN new = 1..n
      /\ \A i, j \in 1..n : new[i] = new[j] => i = j
  BY <1>2 DEF Arrangements
<1>4. ASSUME NEW i \in DOMAIN queue
      PROVE  /\ Refilled(queue[i]) \in Sysentry /\ Refilled(queue[i]).addr = queue[i].addr
             /\ Refilled(queue[i]).busy = queue[i].busy
             /\ Refilled(queue[i]).hold = queue[i].hold
  <2>1. queue[i] \in Sysentry /\ mail[queue[i].addr] \in SUBSET Kinds
    BY QueueHas DEF TypeOK, Sysentry
  <2> QED BY <2>1 DEF Refilled, Sysentry
<1>5. ASSUME NEW a \in S
      PROVE  /\ NewEntry(a) \in Sysentry /\ NewEntry(a).addr = a /\ ~NewEntry(a).busy
             /\ NewEntry(a).hold = sts[a].hold
  <2>1. a \in Addr
    BY <1>1
  <2>2. mail[a] \in SUBSET Kinds /\ sts[a].hold \in Holds
    BY <2>1 DEF TypeOK
  <2> QED BY <2>1, <2>2 DEF NewEntry, Sysentry, Queues
<1>6. old \in Seq(Sysentry) /\ Len(old) = Len(queue) /\ DOMAIN old = DOMAIN queue
  <2>1. old \in [1..Len(queue) -> Sysentry]
    BY <1>4, QueueHas
  <2> QED BY <2>1, QueueHas, SeqOf
<1>7. add \in Seq(Sysentry) /\ Len(add) = n /\ DOMAIN add = 1..n
  <2>1. add \in [1..n -> Sysentry]
    BY <1>3, <1>5
  <2> QED BY <1>1, <2>1, SeqOf
<1>8. queue' = old \o add
  BY <1>2
<1>n. n \in Nat
  BY <1>1
<1> HIDE DEF old, add, n, S
<1>9. queue' \in Seq(Sysentry) /\ DOMAIN queue' = 1..(Len(queue) + n) /\ Len(queue') = Len(queue) + n
  <2>1. old \o add \in Seq(Sysentry) /\ Len(old \o add) = Len(old) + Len(add)
    BY <1>6, <1>7, ConcatProperties
  <2>2. DOMAIN (old \o add) = 1..Len(old \o add)
    BY <2>1, SeqHas
  <2> QED BY <1>6, <1>7, <1>8, <2>1, <2>2
<1>10. n \in Nat /\ Len(queue) \in Nat /\ DOMAIN queue = 1..Len(queue)
  BY <1>n, QueueHas
<1>11. \A i \in DOMAIN queue : queue'[i] = old[i]
  BY <1>6, <1>7, <1>8, <1>10
<1>12. ASSUME NEW i \in DOMAIN queue' \ DOMAIN queue
       PROVE  i - Len(queue) \in 1..n /\ queue'[i] = add[i - Len(queue)]
  BY <1>6, <1>7, <1>8, <1>9, <1>10
<1>13. \A i \in DOMAIN queue : /\ queue'[i].addr = queue[i].addr
                              /\ queue'[i].busy = queue[i].busy
                              /\ queue'[i].hold = queue[i].hold
  BY <1>4, <1>11 DEF old
<1>14. ASSUME NEW i \in DOMAIN queue' \ DOMAIN queue
       PROVE  /\ new[i - Len(queue)] \in S /\ queue'[i].addr = new[i - Len(queue)]
              /\ ~queue'[i].busy /\ queue'[i].hold = sts[queue'[i].addr].hold
  <2>1. new[i - Len(queue)] \in S /\ queue'[i] = NewEntry(new[i - Len(queue)])
    BY <1>3, <1>12 DEF add
  <2> QED BY <1>5, <2>1
<1>15. ASSUME NEW i \in DOMAIN queue' \ DOMAIN queue, NEW j \in DOMAIN queue',
              queue'[j].addr = queue'[i].addr
       PROVE  i = j
  <2>1. CASE j \in DOMAIN queue
    <3>1. queue[j].addr \in listed /\ queue[j].addr \in S
      BY <1>13, <1>14, <1>15, <2>1
    <3> QED BY <3>1 DEF S
  <2>2. CASE j \notin DOMAIN queue
    <3>1. new[i - Len(queue)] = new[j - Len(queue)]
      BY <1>14, <1>15, <2>2
    <3>2. i - Len(queue) = j - Len(queue)
      BY <1>3, <1>12, <2>2, <3>1
    <3> QED BY <1>9, <1>10, <3>2
  <2> QED BY <2>1, <2>2
<1> QED BY <1>9, <1>10, <1>13, <1>14, <1>15

\* A set of numbers that is not empty has a least one.
LEMMA Least ==
  ASSUME NEW S \in SUBSET Nat, S # {}
  PROVE  \E k \in S : \A j \in S : k <= j
<1>1. PICK k \in S : \A j \in S : ~(<<j, k>> \in OpToRel(<, Nat))
  BY NatLessThanWellFounded, WFMin
<1>2. ASSUME NEW j \in S PROVE k <= j
  <2>1. ~(j < k)
    BY <1>1 DEF OpToRel
  <2> QED BY <2>1
<1> QED BY <1>2

LEMMA FirstOfIs ==
  ASSUME TypeOK, NEW S \in SUBSET DOMAIN queue, S # {}, NEW c \in 1..Len(queue)
  PROVE  FirstOf(S, c) \in S
<1> DEFINE R == {Rank(i, c) : i \in S}
<1>1. \A i \in S : Rank(i, c) \in Nat
  BY QueueHas DEF Rank
<1>2. PICK k \in R : \A j \in R : k <= j
  <2>1. R \in SUBSET Nat /\ R # {}
    BY <1>1
  <2> HIDE DEF R
  <2> QED BY <2>1, Least
<1>3. PICK i \in S : Rank(i, c) = k
  BY <1>2
<1>4. \A j \in S : Rank(i, c) <= Rank(j, c)
  BY <1>2, <1>3
<1> QED BY <1>4 DEF FirstOf

LEMMA NextLineType ==
  ASSUME NEW a \in Addr, NEW q \in Queues, UsableLines(a, q) # {}, NEW l \in Nat
  PROVE  NextLine(a, q, l) \in Nat
<1> DEFINE after == {k \in UsableLines(a, q) : k > l}
           from  == IF after # {} THEN after ELSE UsableLines(a, q)
<1>1. DOMAIN Lines[a] \subseteq Nat
  BY LineAssumption
<1>2. from \in SUBSET Nat /\ from # {}
  BY <1>1 DEF UsableLines
<1> HIDE DEF from
<1>3. \E k \in from : \A j \in from : k <= j
  BY <1>2, Least
<1>4. (CHOOSE k \in from : \A j \in from : k <= j) \in from
  BY <1>3
<1> QED BY <1>2, <1>4 DEF NextLine, from

\* daemon_getnext2() takes a system that has no branch and is not held, and that
\* no queue has but this one.
LEMMA SelectPicks ==
  ASSUME TypeOK, BusyIsCurrent, NEW closed, Select(closed)
  PROVE  \E next \in {0} \cup DOMAIN queue, unheld \in SUBSET DOMAIN queue :
           /\ cur' = [cur EXCEPT ![turn] = next]
           /\ queue' \in Seq(Sysentry) /\ DOMAIN queue' = DOMAIN queue
           /\ \A i \in DOMAIN queue :
                /\ queue'[i].addr = queue[i].addr
                /\ queue'[i].busy <=> (queue[i].busy /\ i # cur[turn]) \/ i = next
                /\ queue'[i].hold = IF i \in unheld THEN "no" ELSE queue[i].hold
           /\ sts' = [a \in Addr |-> IF \E i \in unheld : queue[i].addr = a
                                       THEN [tries |-> 0, hold |-> "no"] ELSE sts[a]]
           /\ next # 0 => /\ ~BranchExist(queue[next].addr)
                          /\ queue[next].hold # "future"
                          /\ queue[next].busy => next = cur[turn]
<1> DEFINE c      == IF cur[turn] = 0 THEN 1 ELSE cur[turn]
           free   == [i \in DOMAIN queue |-> [queue[i] EXCEPT !.busy = @ /\ i # cur[turn]]]
           can    == {i \in DOMAIN queue : CanCall(free[i], turn, closed)}
           urgent == {i \in DOMAIN queue : queue[i].mail \cap Urgent # {}}
           lazy   == {i \in DOMAIN queue \ urgent : queue[i].mail \cap Lazy # {}}
           hit    == IF urgent \cap can = {} THEN 0 ELSE FirstOf(urgent \cap can, c)
           ahead  == {i \in DOMAIN queue : hit = 0 \/ Rank(i, c) <= Rank(hit, c)}
           normal == IF lazy \cap can \cap ahead = {} THEN 0
                                                      ELSE FirstOf(lazy \cap can \cap ahead, c)
           next   == IF hit # 0 THEN hit ELSE normal
           asked  == (urgent \cap ahead) \cup
                     {i \in lazy \cap ahead : normal = 0 \/ Rank(i, c) <= Rank(normal, c)}
           unheld == {i \in asked : Askable(free[i]) /\ queue[i].hold = "past"}
           lined  == {i \in {hit, normal} \ {0} : Lines[queue[i].addr] # << >>}
<1>1. /\ queue' = [i \in DOMAIN queue |->
             [free[i] EXCEPT
                !.busy = @ \/ i = next,
                !.hold = IF i \in unheld THEN "no" ELSE @,
                !.line = IF i \in lined THEN NextLine(queue[i].addr, turn, @) ELSE @,
                !.via  = IF i \in lined THEN turn ELSE @]]
      /\ sts' = [a \in Addr |-> IF \E i \in unheld : queue[i].addr = a
                                  THEN [tries |-> 0, hold |-> "no"] ELSE sts[a]]
      /\ cur' = [cur EXCEPT ![turn] = next]
  BY DEF Select
<1>2. /\ turn \in Queues /\ cur[turn] \in 0..Len(queue)
      /\ queue \in Seq(Sysentry) /\ Len(queue) \in Nat /\ DOMAIN queue = 1..Len(queue)
  BY QueueHas DEF TypeOK, BusyIsCurrent
<1>3. ASSUME NEW S \in SUBSET DOMAIN queue, S # {} PROVE FirstOf(S, c) \in S
  <2>1. c \in 1..Len(queue)
    BY <1>2, <1>3
  <2> QED BY <1>3, <2>1, FirstOfIs
<1>4. hit \in {0} \cup can
  <2>1. urgent \cap can \in SUBSET DOMAIN queue
    OBVIOUS
  <2> HIDE DEF can, urgent, c
  <2> QED BY <1>3, <2>1
<1>5. normal \in {0} \cup can
  <2>1. lazy \cap can \cap ahead \in SUBSET DOMAIN queue
    OBVIOUS
  <2> HIDE DEF can, lazy, ahead, c
  <2> QED BY <1>3, <2>1
<1>6. next \in {0} \cup can /\ lined \subseteq can
  <2> HIDE DEF hit, normal, can
  <2> QED BY <1>4, <1>5
<1>7. unheld \in SUBSET DOMAIN queue
  <2> HIDE DEF ahead, normal
  <2> QED OBVIOUS
<1> HIDE DEF next, unheld, lined, c
<1>8. ASSUME NEW i \in can
      PROVE  /\ i \in DOMAIN queue /\ ~BranchExist(queue[i].addr) /\ queue[i].hold # "future"
             /\ queue[i].busy => i = cur[turn]
             /\ Lines[queue[i].addr] # << >> => UsableLines(queue[i].addr, turn) # {}
  <2>1. i \in DOMAIN queue /\ CanCall(free[i], turn, closed)
    OBVIOUS
  <2>2. queue[i] \in Sysentry
    BY <2>1, QueueHas
  <2>3. /\ free[i].addr = queue[i].addr /\ free[i].hold = queue[i].hold
        /\ free[i].busy <=> queue[i].busy /\ i # cur[turn]
    BY <2>1, <2>2 DEF Sysentry
  <2> HIDE DEF free
  <2> QED BY <2>1, <2>3 DEF CanCall, Askable
<1>9. ASSUME NEW i \in DOMAIN queue
      PROVE  /\ queue'[i] \in Sysentry
             /\ queue'[i].addr = queue[i].addr
             /\ queue'[i].busy <=> (queue[i].busy /\ i # cur[turn]) \/ i = next
             /\ queue'[i].hold = IF i \in unheld THEN "no" ELSE queue[i].hold
  <2>1. queue[i] \in Sysentry
    BY QueueHas
  <2>2. i \in lined => NextLine(queue[i].addr, turn, queue[i].line) \in Nat
    <3>1. queue[i].addr \in Addr /\ queue[i].line \in Nat
      BY <2>1 DEF Sysentry
    <3>2. i \in lined => UsableLines(queue[i].addr, turn) # {}
      <4>1. i \in lined => Lines[queue[i].addr] # << >>
        BY DEF lined
      <4> QED BY <1>6, <1>8, <4>1
    <3> QED BY <1>2, <3>1, <3>2, NextLineType
  <2>3. queue'[i] = [free[i] EXCEPT
                !.busy = @ \/ i = next,
                !.hold = IF i \in unheld THEN "no" ELSE @,
                !.line = IF i \in lined THEN NextLine(queue[i].addr, turn, @) ELSE @,
                !.via  = IF i \in lined THEN turn ELSE @]
    BY <1>1
  <2>4. /\ free[i] \in Sysentry /\ free[i].addr = queue[i].addr /\ free[i].hold = queue[i].hold
        /\ free[i].busy = (queue[i].busy /\ i # cur[turn]) /\ free[i].line = queue[i].line
    BY <2>1 DEF Sysentry
  <2> DEFINE b == free[i].busy \/ i = next
             h == IF i \in unheld THEN "no" ELSE free[i].hold
             l == IF i \in lined THEN NextLine(queue[i].addr, turn, free[i].line) ELSE free[i].line
             q == IF i \in lined THEN turn ELSE free[i].via
  <2>5. b \in BOOLEAN /\ h \in Holds /\ l \in Nat /\ q \in Queues
    <3> HIDE DEF free
    <3> QED BY <1>2, <2>2, <2>4 DEF Sysentry, Holds
  <2>6. queue'[i] = [free[i] EXCEPT !.busy = b, !.hold = h, !.line = l, !.via = q]
    BY <2>3
  <2> HIDE DEF free, b, h, l, q
  <2>7. /\ queue'[i] \in Sysentry /\ queue'[i].addr = free[i].addr
        /\ queue'[i].busy = b /\ queue'[i].hold = h
    BY <2>4, <2>5, <2>6 DEF Sysentry
  <2> QED BY <2>4, <2>7 DEF b, h
<1>10. queue' \in [DOMAIN queue -> Sysentry]
  BY <1>1, <1>9
<1>11. queue' \in Seq(Sysentry) /\ DOMAIN queue' = DOMAIN queue
  BY <1>10, Remade
<1>12. next \in {0} \cup DOMAIN queue
  BY <1>6, <1>8
<1>13. next # 0 => /\ ~BranchExist(queue[next].addr)
                   /\ queue[next].hold # "future"
                   /\ queue[next].busy => next = cur[turn]
  BY <1>6, <1>8
<1>14. /\ cur' = [cur EXCEPT ![turn] = next]
       /\ sts' = [a \in Addr |-> IF \E i \in unheld : queue[i].addr = a
                                   THEN [tries |-> 0, hold |-> "no"] ELSE sts[a]]
  BY <1>1
<1> HIDE DEF free, can, urgent, lazy, hit, ahead, normal, asked
<1> WITNESS next \in {0} \cup DOMAIN queue, unheld \in SUBSET DOMAIN queue
<1>15. \A i \in unheld : queue[i].hold = "past"
  BY DEF unheld
<1> QED BY <1>9, <1>11, <1>13, <1>14

-----------------------------------------------------------------------------
(* The invariant.                                                          *)

\* The table of branches, also while a removal moves it.
Table == IF pc = "removing" THEN snap ELSE branch

\* A modem branch has a port to put on hold when it is over.
PortOk(b) == b.via = "modem" => b.port \in Ports

PortsOk ==
  /\ \A i \in DOMAIN branch : PortOk(branch[i])
  /\ \A i \in DOMAIN snap : PortOk(snap[i])
  /\ \A i \in DOMAIN call : PortOk(call[i])

Typed == TypeOK /\ PortsOk

\* b as a copy of the table has it and c as the table has it: c may have been
\* marked since.
SameBranch(b, c) ==
  /\ b.addr = c.addr /\ b.pid = c.pid /\ b.via = c.via
  /\ b.wait => c.wait

\* There is a call to record from fork() until it is in the table; the copy made for
\* it is the table, and a removal copies nothing that is not in the table.
CopyOk ==
  /\ IF pc \in {"forked", "copied"} THEN Len(call) = 1 ELSE call = << >>
  /\ pc = "copied" => /\ Len(snap) = Len(branch)
                      /\ \A i \in DOMAIN branch : SameBranch(snap[i], branch[i])
  /\ pc = "removing" =>
       \A i \in DOMAIN snap : \E j \in DOMAIN branch : branch[j].addr = snap[i].addr
  /\ pc = "sweep" => pos > 0

\* Two branches have two addresses.
TableUnique == \A i, j \in DOMAIN Table : Table[i].addr = Table[j].addr => i = j

\* b is the branch of child p.
Parent(b, p) ==
  b.pid = p /\ b.addr = child[p].addr /\ b.via = child[p].via /\ ~b.wait

\* Every child has a branch that does not wait, or is being recorded.
ChildrenKnown == \A p \in Pids : child[p] # NoChild =>
  \/ \E i \in DOMAIN Table : Parent(Table[i], p)
  \/ \E i \in DOMAIN call : Parent(call[i], p)

OfKind(s, q) == {i \in DOMAIN s : s[i].via = q}

\* The counters count the table, and keep to the limits.
Counted == \A q \in Queues :
  /\ clients[q] = Cardinality(OfKind(Table, q))
  /\ Max[q] > 0 => clients[q] <= Max[q]

\* The call to record is one for the current system, which has no branch, and there
\* is room for it.
CallOk == \A i \in DOMAIN call :
  /\ cur[turn] # 0 /\ call[i].addr = queue[cur[turn]].addr
  /\ ~BranchExist(call[i].addr)
  /\ Max[call[i].via] > 0 => clients[call[i].via] < Max[call[i].via]

QueueUnique == \A i, j \in DOMAIN queue : queue[i].addr = queue[j].addr => i = j

\* An entry has the hold time of the status file, and a system a queue has chosen
\* is not held.
HoldsAgree ==
  /\ \A i \in DOMAIN queue : queue[i].hold = sts[queue[i].addr].hold
  /\ \A q \in Queues : cur[q] # 0 => queue[cur[q]].hold # "future"

TablesInv == CopyOk /\ TableUnique /\ ChildrenKnown /\ Counted /\ CallOk
QueuesInv == QueueUnique /\ BusyIsCurrent /\ CurrentHasNoBranch
DInv      == Typed /\ TablesInv /\ QueuesInv /\ HoldsAgree

-----------------------------------------------------------------------------
(* Types.                                                                  *)

\* SIGCHLD marks branches, and only those of children that are gone.
LEMMA SigchldMarks ==
  ASSUME TypeOK, Sigchld
  PROVE  /\ branch' \in Seq(Branch) /\ DOMAIN branch' = DOMAIN branch /\ Len(branch') = Len(branch)
         /\ \A i \in DOMAIN branch :
              /\ branch'[i].addr = branch[i].addr /\ branch'[i].pid = branch[i].pid
              /\ branch'[i].via = branch[i].via /\ branch'[i].port = branch[i].port
              /\ branch[i].wait => branch'[i].wait
              /\ child[branch[i].pid].state # "zombie" => branch'[i] = branch[i]
         /\ child' \in [Pids -> Child]
         /\ \A p \in Pids : /\ child[p].state = "zombie" => child'[p] = NoChild
                            /\ child[p].state # "zombie" => child'[p] = child[p]
<1> DEFINE dead == {p \in Pids : child[p].state = "zombie"}
           first(i) == \A j \in 1..(i - 1) : branch[j].pid # branch[i].pid
<1>1. branch' = [i \in DOMAIN branch |->
                   IF branch[i].pid \in dead /\ first(i)
                     THEN [branch[i] EXCEPT !.wait = TRUE, !.ok = child[branch[i].pid].ok]
                     ELSE branch[i]]
  BY DEF Sigchld
<1>2. child' = [p \in Pids |-> IF p \in dead THEN NoChild ELSE child[p]]
  BY DEF Sigchld
<1>3. ASSUME NEW i \in DOMAIN branch
      PROVE  /\ branch'[i] \in Branch
             /\ branch'[i].addr = branch[i].addr /\ branch'[i].pid = branch[i].pid
             /\ branch'[i].via = branch[i].via /\ branch'[i].port = branch[i].port
             /\ branch[i].wait => branch'[i].wait
             /\ child[branch[i].pid].state # "zombie" => branch'[i] = branch[i]
  <2>1. branch[i] \in Branch
    BY SeqHas DEF TypeOK
  <2>2. CASE branch[i].pid \in dead /\ first(i)
    <3>1. child[branch[i].pid].ok \in BOOLEAN
      BY <2>1, <2>2, ChildCases
    <3>2. branch'[i] = [branch[i] EXCEPT !.wait = TRUE, !.ok = child[branch[i].pid].ok]
      BY <1>1, <2>2
    <3> QED BY <2>1, <2>2, <3>1, <3>2 DEF Branch
  <2>3. CASE ~(branch[i].pid \in dead /\ first(i))
    BY <1>1, <2>1, <2>3
  <2> QED BY <2>2, <2>3
<1>4. branch' \in [DOMAIN branch -> Branch]
  BY <1>1, <1>3
<1>5. branch' \in Seq(Branch) /\ DOMAIN branch' = DOMAIN branch /\ Len(branch') = Len(branch)
  <2>1. branch \in Seq(Branch)
    BY DEF TypeOK
  <2> QED BY <1>4, <2>1, SeqOf, SeqHas
<1>6. child' \in [Pids -> Child]
  <2>1. child \in [Pids -> Child] /\ NoChild \in Child
    BY DEF TypeOK, Child
  <2> QED BY <1>2, <2>1
<1> QED BY <1>2, <1>3, <1>5, <1>6

LEMMA InitTyped == Init => Typed
<1> SUFFICES ASSUME Init PROVE Typed
  OBVIOUS
<1>1. 0 \in 0..MaxTries
  BY MaxAssumption
<1>2. << >> \in Seq(Sysentry) /\ << >> \in Seq(Branch)
  BY EmptySeq
<1>3. branch = << >> /\ snap = << >> /\ call = << >> => PortsOk
  BY DEF PortsOk
<1>4. TypeOK
  <2>1. sts \in [Addr -> [tries : 0..MaxTries, hold : Holds]]
    BY <1>1 DEF Init, Holds
  <2>2. child \in [Pids -> Child] /\ clients \in [Queues -> Int] /\ cur \in [Queues -> Nat]
    BY DEF Init, Child
  <2>3. pc \in Points /\ turn \in Queues /\ pos \in Nat
    BY DEF Init, Points, Queues
  <2>4. queue \in Seq(Sysentry) /\ branch \in Seq(Branch) /\ snap \in Seq(Branch)
        /\ call \in Seq(Branch)
    BY <1>2 DEF Init
  <2>5. mail \in [Addr -> SUBSET Kinds]
    BY DEF Init
  <2> QED BY <2>1, <2>2, <2>3, <2>4, <2>5 DEF Init, TypeOK
<1> QED BY <1>3, <1>4 DEF Init, Typed

\* Steps of the main loop that leave the tables alone.
LEMMA LoopTyped ==
  ASSUME Typed,
         \/ \E s \in Sigs : HandleSignal(s)
         \/ NoSignal \/ Restart \/ Start \/ NoneWaiting \/ NoRescan \/ SweepEnd
         \/ LeaveAlone \/ NoneDue \/ NotNow \/ Locked \/ Sleep
  PROVE  Typed'
<1>1. CASE \E s \in Sigs : HandleSignal(s)
  BY <1>1 DEF HandleSignal, Typed, TypeOK, PortsOk, Points
<1>2. CASE NoSignal \/ Start \/ NoneWaiting \/ NoRescan \/ SweepEnd \/ NoneDue \/ Locked \/ Sleep
  BY <1>2 DEF NoSignal, Start, NoneWaiting, NoRescan, SweepEnd, NoneDue, Locked, Sleep,
              Typed, TypeOK, PortsOk, Points
<1>3. CASE Restart
  <2>1. queue' \in Seq(Sysentry)
    BY <1>3, EmptySeq DEF Restart
  <2> QED BY <1>3, <2>1 DEF Restart, Typed, TypeOK, PortsOk, Points
<1>4. CASE LeaveAlone \/ NotNow
  BY <1>4 DEF LeaveAlone, NotNow, NextTurn, Typed, TypeOK, PortsOk, Points, Queues
<1> QED BY <1>1, <1>2, <1>3, <1>4

\* Timers and the world around.
LEMMA WorldTyped ==
  ASSUME Typed, Timers \/ World
  PROVE  Typed'
<1>1. ASSUME NEW a \in Addr, Rested(a) PROVE Typed'
  BY <1>1, RestedEntries DEF Rested, EntriesStay, Typed, TypeOK, PortsOk
<1>2. ASSUME NEW a \in Addr, HoldOver(a) PROVE Typed'
  <2>1. sts' \in [Addr -> [tries : 0..MaxTries, hold : Holds]]
    <3>1. sts \in [Addr -> [tries : 0..MaxTries, hold : Holds]]
      BY DEF Typed, TypeOK
    <3>2. sts' = [sts EXCEPT ![a].hold = "past"] /\ "past" \in Holds
      BY <1>2 DEF HoldOver, Holds
    <3> QED BY <3>1, <3>2
  <2>2. queue' \in Seq(Sysentry)
    BY <1>2, HoldOverEntries DEF EntriesStay, Typed
  <2> QED BY <1>2, <2>1, <2>2 DEF HoldOver, Typed, TypeOK, PortsOk
<1>3. CASE HoldAllOver
  BY <1>3 DEF HoldAllOver, Typed, TypeOK, PortsOk
<1>4. ASSUME NEW port \in Ports, LineReady(port) PROVE Typed'
  BY <1>4 DEF LineReady, Typed, TypeOK, PortsOk
<1>5. ASSUME NEW m \in Posts, Post(m[1], m[2]) PROVE Typed'
  <2>1. m[1] \in Addr /\ m[2] \in Kinds
    BY PostAssumption
  <2>2. mail' \in [Addr -> SUBSET Kinds]
    BY <1>5, <2>1 DEF Post, Typed, TypeOK
  <2> QED BY <1>5, <2>2 DEF Post, Typed, TypeOK, PortsOk
<1>6. ASSUME NEW a \in Addr, Unpost(a) PROVE Typed'
  <2>1. mail' \in [Addr -> SUBSET Kinds]
    BY <1>6 DEF Unpost, Typed, TypeOK
  <2> QED BY <1>6, <2>1 DEF Unpost, Typed, TypeOK, PortsOk
<1>7. ASSUME NEW a \in Addr, Relist(a) PROVE Typed'
  BY <1>7 DEF Relist, Typed, TypeOK, PortsOk
<1>8. ASSUME NEW s \in Sigs, Signal(s) PROVE Typed'
  BY <1>8 DEF Signal, Typed, TypeOK, PortsOk
<1> QED BY <1>1, <1>2, <1>3, <1>4, <1>5, <1>6, <1>7, <1>8 DEF Timers, World

LEMMA ReapTyped ==
  ASSUME Typed, NEW i \in DOMAIN branch, Reap(i)
  PROVE  Typed'
<1> DEFINE b == branch[i]
           a == b.addr
           e == EntryOf(a)
<1>1. b \in Branch /\ PortOk(b) /\ a \in Addr /\ b.via \in Queues
  <2>1. b \in Branch /\ PortOk(b)
    BY SeqHas DEF Typed, TypeOK, PortsOk
  <2> QED BY <2>1 DEF Branch
<1>2. clients' \in [Queues -> Int]
  <2>1. clients' = [clients EXCEPT ![b.via] = @ - 1] /\ clients \in [Queues -> Int]
    BY DEF Reap, Typed, TypeOK
  <2> HIDE DEF b
  <2> QED BY <1>1, <2>1
<1>3. AfterTries(a) \in [tries : 0..MaxTries, hold : Holds]
  <2>1. sts[a] \in [tries : 0..MaxTries, hold : Holds]
    BY <1>1 DEF Typed, TypeOK
  <2> QED BY <2>1 DEF AfterTries, Holds
<1>4. queue' \in Seq(Sysentry) /\ cur' \in [Queues -> Nat]
      /\ sts' \in [Addr -> [tries : 0..MaxTries, hold : Holds]]
  <2>1. CASE UNCHANGED <<queue, cur, sts>>
    BY <2>1 DEF Typed, TypeOK
  <2>2. CASE e # 0 /\ RemoveEntry(e) /\ sts' = [sts EXCEPT ![a] = AfterTries(a)]
    <3>1. e \in DOMAIN queue
      BY <2>2, EntryOfIs DEF Typed
    <3>2. queue' \in Seq(Sysentry)
      BY <2>2, <3>1, WithoutKeeps DEF RemoveEntry, Typed, TypeOK
    <3>3. cur' \in [Queues -> Nat]
      <4>1. e \in Nat /\ e > 0 /\ cur \in [Queues -> Nat]
        BY <3>1, QueueHas DEF Typed, TypeOK
      <4> HIDE DEF e
      <4>2. \A q \in Queues : UpdateCurrent(cur[q], e) \in Nat
        BY <4>1 DEF UpdateCurrent
      <4> QED BY <2>2, <4>2 DEF RemoveEntry
    <3> QED BY <1>1, <1>3, <2>2, <3>2, <3>3 DEF Typed, TypeOK
  <2>3. CASE cur' = cur /\ sts' = [sts EXCEPT ![a] = AfterTries(a)] /\ EntriesStay
    BY <1>1, <1>3, <2>3 DEF EntriesStay, Typed, TypeOK
  <2> QED BY <2>1, <2>2, <2>3, ReapEntries DEF Typed
<1>5. /\ lately' \in SUBSET Addr /\ holdAll' \in BOOLEAN /\ marked' \in SUBSET Addr
      /\ lineHeld' \in SUBSET Ports
  <2>1. lately' = lately \cup {a} /\ lineHeld' = HoldLine(b)
    BY DEF Reap
  <2>2. marked' \in SUBSET Addr /\ holdAll' \in BOOLEAN
    <3>1. marked' \in {marked, marked \cup {a}}
          /\ holdAll' \in {holdAll, holdAll \/ (TriedOut(a) /\ TriesAction = "holdall")}
      BY DEF Reap
    <3> QED BY <1>1, <3>1 DEF Typed, TypeOK
  <2>3. HoldLine(b) \in SUBSET Ports
    BY <1>1 DEF HoldLine, PortOk, Typed, TypeOK
  <2> QED BY <1>1, <2>1, <2>2, <2>3 DEF Typed, TypeOK
<1>6. snap' \in Seq(Branch) /\ \A k \in DOMAIN snap' : PortOk(snap'[k])
  <2>1. snap' = Without(branch, i) /\ branch \in Seq(Branch)
    BY DEF Reap, Typed, TypeOK
  <2>2. ASSUME NEW k \in DOMAIN snap' PROVE \E j \in DOMAIN branch : snap'[k] = branch[j]
    <3>1. k \in 1..(Len(branch) - 1) /\ snap'[k] = IF k < i THEN branch[k] ELSE branch[k + 1]
      BY <2>1, <2>2, WithoutKeeps
    <3>2. k \in DOMAIN branch /\ k + 1 \in DOMAIN branch
      BY <2>1, <3>1, SeqHas
    <3> QED BY <3>1, <3>2
  <2> QED BY <2>1, <2>2, WithoutKeeps DEF Typed, PortsOk
<1>7. UNCHANGED <<turn, pos, branch, call, child, mail, down, sig>> /\ pc' \in Points
  BY DEF Reap, Points
<1> HIDE DEF a, b, e
<1> QED BY <1>2, <1>4, <1>5, <1>6, <1>7 DEF Typed, TypeOK, PortsOk

\* The other steps of the tables, and the children.
LEMMA TablesTyped ==
  ASSUME Typed, BusyIsCurrent, CopyOk,
         \/ Sigchld \/ Removed \/ Copied \/ Added
         \/ \E p \in Pids, port \in Ports \cup {NoPort} : Fork(p, port)
         \/ Children
  PROVE  Typed'
<1>1. CASE Sigchld
  <2>1. \A i \in DOMAIN branch : PortOk(branch'[i])
    BY <1>1, SigchldMarks DEF Typed, PortsOk, PortOk
  <2> QED BY <1>1, <2>1, SigchldMarks DEF Sigchld, Typed, TypeOK, PortsOk
<1>2. CASE Removed
  BY <1>2, EmptySeq DEF Removed, Typed, TypeOK, PortsOk, Points
<1>3. CASE Copied
  BY <1>3 DEF Copied, Typed, TypeOK, PortsOk, Points
<1>4. CASE Added
  <2>1. branch' = snap \o call /\ snap \in Seq(Branch) /\ call \in Seq(Branch)
    BY <1>4 DEF Added, Typed, TypeOK
  <2>2. branch' \in Seq(Branch) /\ \A i \in DOMAIN branch' : PortOk(branch'[i])
    <3>1. /\ branch' \in Seq(Branch) /\ Len(branch') = Len(snap) + Len(call)
          /\ \A i \in 1..(Len(snap) + Len(call)) :
               branch'[i] = IF i <= Len(snap) THEN snap[i] ELSE call[i - Len(snap)]
      BY <2>1, ConcatProperties
    <3>2. ASSUME NEW i \in DOMAIN branch' PROVE PortOk(branch'[i])
      <4>1. i \in 1..(Len(snap) + Len(call)) /\ Len(snap) \in Nat /\ Len(call) \in Nat
        BY <2>1, <3>1, SeqHas
      <4>2. CASE i <= Len(snap)
        BY <2>1, <3>1, <4>1, <4>2, SeqHas DEF Typed, PortsOk
      <4>3. CASE ~(i <= Len(snap))
        <5>1. i - Len(snap) \in DOMAIN call
          BY <2>1, <4>1, <4>3, SeqHas
        <5> QED BY <3>1, <4>1, <4>3, <5>1 DEF Typed, PortsOk
      <4> QED BY <4>2, <4>3
    <3> QED BY <3>1, <3>2
  <2>3. clients' \in [Queues -> Int]
    <3>1. call[1].via \in Queues
      <4>1. 1 \in DOMAIN call
        BY <1>4, <2>1, SeqHas DEF Added, CopyOk
      <4>2. call[1] \in Branch
        BY <2>1, <4>1, SeqHas
      <4> QED BY <4>2 DEF Branch
    <3> QED BY <1>4, <3>1 DEF Added, Typed, TypeOK
  <2>4. snap' = << >> /\ call' = << >> /\ << >> \in Seq(Branch)
    BY <1>4, EmptySeq DEF Added
  <2> QED BY <1>4, <2>2, <2>3, <2>4 DEF Added, Typed, TypeOK, PortsOk, Points
<1>5. ASSUME NEW p \in Pids, NEW port \in Ports \cup {NoPort}, Fork(p, port) PROVE Typed'
  <2> DEFINE e == queue[cur[turn]]
             b == [addr |-> e.addr, pid |-> p, via |-> e.via, port |-> port,
                   wait |-> FALSE, ok |-> FALSE]
  <2>1. e.addr \in Addr /\ e.via \in Queues
    <3>1. cur[turn] \in DOMAIN queue
      BY <1>5, QueueHas DEF Fork, Due, BusyIsCurrent, Typed, TypeOK
    <3> QED BY <3>1, QueueHas DEF Typed, Sysentry
  <2>2. call' = <<b>> /\ PortOk(b) /\ b \in Branch
    BY <1>5, <2>1 DEF Fork, PortOk, Branch
  <2>3. call' \in Seq(Branch) /\ \A i \in DOMAIN call' : PortOk(call'[i])
    <3> HIDE DEF b
    <3> QED BY <2>2
  <2>4. child' \in [Pids -> Child]
    <3>1. [state |-> "running", addr |-> e.addr, via |-> e.via, ok |-> FALSE] \in Child
      BY <2>1 DEF Child
    <3> QED BY <1>5, <3>1 DEF Fork, Typed, TypeOK
  <2>5. /\ UNCHANGED <<turn, pos, queue, cur, branch, snap, clients, mail, sts, down, lineHeld,
                       holdAll, sig, lately, marked>>
        /\ pc' \in Points
    BY <1>5 DEF Fork, Points
  <2> QED BY <2>3, <2>4, <2>5 DEF Typed, TypeOK, PortsOk
<1>6. ASSUME NEW p \in Pids, NEW ok \in BOOLEAN, Exit(p, ok) PROVE Typed'
  <2>1. child[p] \in [state : {"running", "zombie"}, addr : Addr, via : Queues, ok : BOOLEAN]
    BY <1>6, ChildCases DEF Exit, Typed
  <2>2. child' \in [Pids -> Child]
    <3>1. [child[p] EXCEPT !.state = "zombie", !.ok = ok] \in Child
      BY <2>1 DEF Child
    <3>2. child' = [child EXCEPT ![p] = [child[p] EXCEPT !.state = "zombie", !.ok = ok]]
      BY <1>6 DEF Exit, Typed, TypeOK
    <3> QED BY <3>1, <3>2 DEF Typed, TypeOK
  <2>3. sts' \in [Addr -> [tries : 0..MaxTries, hold : Holds]]
    <3> DEFINE a == child[p].addr
               n == IF ok THEN 0 ELSE IF sts[a].tries < MaxTries THEN sts[a].tries + 1
                                                                 ELSE sts[a].tries
    <3>1. a \in Addr /\ sts[a] \in [tries : 0..MaxTries, hold : Holds]
      BY <2>1 DEF Typed, TypeOK
    <3>2. n \in 0..MaxTries
      BY <3>1, MaxAssumption
    <3>3. sts' = [sts EXCEPT ![a] = [sts[a] EXCEPT !.tries = n]]
      BY <1>6, <3>1 DEF Exit, Typed, TypeOK
    <3> HIDE DEF n, a
    <3> QED BY <3>1, <3>2, <3>3 DEF Typed, TypeOK
  <2>4. mail' \in [Addr -> SUBSET Kinds]
    BY <1>6, <2>1 DEF Exit, Typed, TypeOK
  <2> QED BY <1>6, <2>2, <2>3, <2>4 DEF Exit, Typed, TypeOK, PortsOk
<1> QED BY <1>1, <1>2, <1>3, <1>4, <1>5, <1>6 DEF Children

LEMMA QueueTyped ==
  ASSUME Typed, BusyIsCurrent, CopyOk,
         Rescan \/ Sweep \/ \E closed \in Closed : Select(closed)
  PROVE  Typed'
<1>1. CASE Rescan
  BY <1>1, RescanEntries DEF Rescan, Typed, TypeOK, PortsOk, Points
<1>2. CASE Sweep
  <2>1. CASE UNCHANGED <<queue, cur>>
    BY <1>2, <2>1 DEF Sweep, Typed, TypeOK, PortsOk
  <2>2. CASE RemoveEntry(pos)
    <3>1. pos \in DOMAIN queue
      BY <1>2, QueueHas DEF Sweep, CopyOk, Typed, TypeOK
    <3>2. queue' \in Seq(Sysentry)
      BY <2>2, <3>1, WithoutKeeps DEF RemoveEntry, Typed, TypeOK
    <3>3. cur' \in [Queues -> Nat]
      <4>1. pos \in Nat /\ pos > 0 /\ cur \in [Queues -> Nat]
        BY <3>1, QueueHas DEF Typed, TypeOK
      <4>2. \A q \in Queues : UpdateCurrent(cur[q], pos) \in Nat
        BY <4>1 DEF UpdateCurrent
      <4> QED BY <2>2, <4>2 DEF RemoveEntry
    <3> QED BY <1>2, <3>2, <3>3 DEF Sweep, Typed, TypeOK, PortsOk
  <2> QED BY <1>2, <2>1, <2>2 DEF Sweep
<1>3. ASSUME NEW closed \in Closed, Select(closed) PROVE Typed'
  <2>1. /\ queue' \in Seq(Sysentry)
        /\ cur' \in [Queues -> Nat]
        /\ sts' \in [Addr -> [tries : 0..MaxTries, hold : Holds]]
    <3>1. PICK next \in {0} \cup DOMAIN queue, unheld \in SUBSET DOMAIN queue :
            /\ cur' = [cur EXCEPT ![turn] = next] /\ queue' \in Seq(Sysentry)
            /\ sts' = [a \in Addr |-> IF \E i \in unheld : queue[i].addr = a
                                        THEN [tries |-> 0, hold |-> "no"] ELSE sts[a]]
      BY <1>3, SelectPicks DEF Typed
    <3>2. next \in Nat
      BY QueueHas DEF Typed
    <3>3. [tries |-> 0, hold |-> "no"] \in [tries : 0..MaxTries, hold : Holds]
      BY MaxAssumption DEF Holds
    <3> QED BY <3>1, <3>2, <3>3 DEF Typed, TypeOK
  <2>2. /\ UNCHANGED <<pos, branch, snap, call, clients, child, mail, down, lineHeld, holdAll,
                       sig, lately, marked>>
        /\ pc' \in Points /\ turn' \in Queues
    BY <1>3 DEF Select, NextTurn, Points, Queues
  <2> QED BY <2>1, <2>2 DEF Typed, TypeOK, PortsOk
<1> QED BY <1>1, <1>2, <1>3

LEMMA StepTyped == DInv /\ [Next]_vars => Typed'
<1> SUFFICES ASSUME DInv, [Next]_vars PROVE Typed'
  OBVIOUS
<1>1. Typed /\ BusyIsCurrent /\ CopyOk
  BY DEF DInv, QueuesInv, TablesInv
<1>2. CASE UNCHANGED vars
  BY <1>1, <1>2 DEF vars, Typed, TypeOK, PortsOk
<1>3. CASE Next
  BY <1>1, <1>3, LoopTyped, WorldTyped, ReapTyped, TablesTyped, QueueTyped DEF Next, Main
<1> QED BY <1>2, <1>3

-----------------------------------------------------------------------------
(* Counting branches.                                                      *)

LEMMA KindFinite ==
  ASSUME NEW s \in Seq(Branch), NEW q
  PROVE  IsFiniteSet(OfKind(s, q)) /\ Cardinality(OfKind(s, q)) \in Nat
<1>1. OfKind(s, q) \in SUBSET (1..Len(s)) /\ IsFiniteSet(1..Len(s))
  <2>1. DOMAIN s = 1..Len(s) /\ Len(s) \in Int
    BY SeqHas
  <2>2. IsFiniteSet(1..Len(s))
    BY <2>1, FS_Interval
  <2> QED BY <2>1, <2>2 DEF OfKind
<1> QED BY <1>1, FS_Subset, FS_CardinalityType

LEMMA CountWithout ==
  ASSUME NEW s \in Seq(Branch), NEW i \in DOMAIN s, NEW q
  PROVE  Cardinality(OfKind(Without(s, i), q))
           = Cardinality(OfKind(s, q)) - (IF s[i].via = q THEN 1 ELSE 0)
<1> DEFINE A == OfKind(s, q) \ {i}
           B == OfKind(Without(s, i), q)
           f == [j \in A |-> IF j < i THEN j ELSE j - 1]
<1>1. IsFiniteSet(A) /\ Cardinality(A) = Cardinality(OfKind(s, q)) - (IF s[i].via = q THEN 1 ELSE 0)
  <2>1. i \in OfKind(s, q) <=> s[i].via = q
    BY DEF OfKind
  <2>2. Cardinality(OfKind(s, q)) \in Nat /\ IsFiniteSet(OfKind(s, q))
    BY KindFinite
  <2> QED BY <2>1, <2>2, FS_RemoveElement
<1>2. DOMAIN s = 1..Len(s) /\ Len(s) \in Nat /\ i \in 1..Len(s)
  BY SeqHas
<1>3. f \in [A -> B]
  <2>1. ASSUME NEW j \in A PROVE (IF j < i THEN j ELSE j - 1) \in B
    <3>1. j \in DOMAIN s /\ j # i /\ s[j].via = q
      BY DEF OfKind
    <3>2. /\ (IF j < i THEN j ELSE j - 1) \in DOMAIN Without(s, i)
          /\ Without(s, i)[IF j < i THEN j ELSE j - 1] = s[j]
      BY <3>1, WithoutKeeps
    <3> QED BY <3>1, <3>2 DEF OfKind
  <2> HIDE DEF A, B
  <2> QED BY <2>1
<1>4. ASSUME NEW j \in A, NEW k \in A, f[j] = f[k] PROVE j = k
  <2>1. j \in Int /\ k \in Int /\ j # i /\ k # i /\ i \in Int
    BY <1>2 DEF OfKind
  <2> HIDE DEF A, B
  <2> QED BY <1>4, <2>1
<1>5. ASSUME NEW k \in B PROVE \E j \in A : f[j] = k
  <2>1. k \in 1..(Len(s) - 1) /\ (IF k < i THEN s[k] ELSE s[k + 1]).via = q
    <3>1. k \in DOMAIN Without(s, i) /\ Without(s, i)[k].via = q
      BY DEF OfKind
    <3>2. /\ DOMAIN Without(s, i) = 1..(Len(s) - 1)
          /\ \A j \in 1..(Len(s) - 1) : Without(s, i)[j] = IF j < i THEN s[j] ELSE s[j + 1]
      BY WithoutKeeps
    <3> QED BY <3>1, <3>2
  <2>2. CASE k < i
    <3>1. k \in A
      BY <1>2, <2>1, <2>2 DEF OfKind
    <3> HIDE DEF A, B
    <3> QED BY <2>2, <3>1
  <2>3. CASE ~(k < i)
    <3>1. k + 1 \in A
      BY <1>2, <2>1, <2>3 DEF OfKind
    <3>2. f[k + 1] = k
      <4> HIDE DEF A, B
      <4> QED BY <1>2, <2>1, <2>3, <3>1
    <3> QED BY <3>1, <3>2
  <2> QED BY <2>2, <2>3
<1> HIDE DEF A, B, f
<1>6. f \in Bijection(A, B)
  <2>1. f \in Injection(A, B)
    BY <1>3, <1>4, Fun_IsInj
  <2>2. f \in Surjection(A, B)
    BY <1>3, <1>5, Fun_IsSurj
  <2> QED BY <2>1, <2>2 DEF Bijection
<1>7. Cardinality(B) = Cardinality(A)
  BY <1>1, <1>6, FS_Bijection DEF ExistsBijection
<1> QED BY <1>1, <1>7 DEF B

LEMMA CountAdded ==
  ASSUME NEW s \in Seq(Branch), NEW t \in Seq(Branch), Len(t) = 1, NEW q
  PROVE  Cardinality(OfKind(s \o t, q))
           = Cardinality(OfKind(s, q)) + (IF t[1].via = q THEN 1 ELSE 0)
<1>1. /\ s \o t \in Seq(Branch) /\ Len(s \o t) = Len(s) + 1 /\ Len(s) \in Nat
      /\ \A i \in 1..(Len(s) + 1) : (s \o t)[i] = IF i <= Len(s) THEN s[i] ELSE t[i - Len(s)]
  BY ConcatProperties, SeqHas
<1>2. DOMAIN (s \o t) = 1..(Len(s) + 1) /\ DOMAIN s = 1..Len(s)
  BY <1>1, SeqHas
<1>3. (s \o t)[Len(s) + 1] = t[1] /\ \A i \in 1..Len(s) : (s \o t)[i] = s[i]
  BY <1>1
<1>4. OfKind(s \o t, q) = IF t[1].via = q THEN OfKind(s, q) \cup {Len(s) + 1} ELSE OfKind(s, q)
  BY <1>1, <1>2, <1>3 DEF OfKind
<1>5. Len(s) + 1 \notin OfKind(s, q)
  BY <1>1, <1>2 DEF OfKind
<1>6. IsFiniteSet(OfKind(s, q)) /\ Cardinality(OfKind(s, q)) \in Nat
  BY KindFinite
<1>7. Cardinality(OfKind(s, q) \cup {Len(s) + 1}) = Cardinality(OfKind(s, q)) + 1
  BY <1>5, <1>6, FS_AddElement
<1> QED BY <1>4, <1>6, <1>7

\* Branches that are the same but for marks are as many.
LEMMA CountSame ==
  ASSUME NEW s, NEW t, DOMAIN s = DOMAIN t, \A i \in DOMAIN s : s[i].via = t[i].via, NEW q
  PROVE  OfKind(s, q) = OfKind(t, q)
  BY DEF OfKind

-----------------------------------------------------------------------------
(* The table of branches and the children.                                 *)

LEMMA TableHas ==
  ASSUME TypeOK
  PROVE  /\ branch \in Seq(Branch) /\ snap \in Seq(Branch) /\ Table \in Seq(Branch)
         /\ call \in Seq(Branch)
         /\ Len(branch) \in Nat /\ DOMAIN branch = 1..Len(branch)
         /\ Len(snap) \in Nat /\ DOMAIN snap = 1..Len(snap)
         /\ Len(call) \in Nat /\ DOMAIN call = 1..Len(call)
         /\ \A i \in DOMAIN branch : branch[i] \in Branch
         /\ \A i \in DOMAIN call : call[i] \in Branch
  BY SeqHas DEF TypeOK, Table

\* Steps of the main loop while no branch is being added or removed.
LEMMA TablesElsewhere ==
  ASSUME TablesInv, UNCHANGED <<branch, snap, call, clients, child>>,
         pc \notin {"forked", "copied", "removing"}, pc' \notin {"forked", "copied", "removing"},
         pc' = "sweep" => pos' > 0
  PROVE  TablesInv'
<1>1. Table' = Table /\ call = << >> /\ call' = << >>
  BY DEF Table, TablesInv, CopyOk
<1>2. CopyOk' /\ CallOk'
  BY <1>1 DEF CopyOk, CallOk
<1>3. TableUnique' /\ Counted'
  BY <1>1 DEF TablesInv, TableUnique, Counted
<1>4. ChildrenKnown'
  BY <1>1 DEF TablesInv, ChildrenKnown, Parent
<1> QED BY <1>2, <1>3, <1>4 DEF TablesInv

\* Steps of others that touch neither branches nor positions.
LEMMA TablesAround ==
  ASSUME TypeOK, BusyIsCurrent, TablesInv,
         UNCHANGED <<pc, pos, turn, cur, branch, snap, call, clients, child>>,
         \A i \in DOMAIN queue : queue'[i].addr = queue[i].addr
  PROVE  TablesInv'
<1>1. Table' = Table
  BY DEF Table
<1>2. CopyOk' /\ TableUnique' /\ Counted'
  BY <1>1 DEF TablesInv, CopyOk, TableUnique, Counted
<1>3. ChildrenKnown'
  BY <1>1 DEF TablesInv, ChildrenKnown, Parent
<1>4. CallOk'
  <2>1. cur[turn] # 0 => cur[turn] \in DOMAIN queue
    BY QueueHas DEF TypeOK, BusyIsCurrent
  <2> QED BY <2>1 DEF TablesInv, CallOk, BranchExist
<1> QED BY <1>2, <1>3, <1>4 DEF TablesInv

LEMMA TablesSigchld ==
  ASSUME TypeOK, TablesInv, Sigchld
  PROVE  TablesInv'
<1>1. /\ UNCHANGED <<pc, pos, turn, queue, cur, snap, call, clients>>
      /\ DOMAIN branch' = DOMAIN branch /\ Len(branch') = Len(branch)
  BY SigchldMarks DEF Sigchld
<1>2. \A i \in DOMAIN branch :
        /\ branch'[i].addr = branch[i].addr /\ branch'[i].pid = branch[i].pid
        /\ branch'[i].via = branch[i].via
        /\ branch[i].wait => branch'[i].wait
        /\ child[branch[i].pid].state # "zombie" => branch'[i] = branch[i]
  BY SigchldMarks
<1>3. CopyOk'
  <2>1. /\ IF pc' \in {"forked", "copied"} THEN Len(call') = 1 ELSE call' = << >>
        /\ pc' = "sweep" => pos' > 0
    BY <1>1 DEF TablesInv, CopyOk
  <2>2. pc' = "copied" => /\ Len(snap') = Len(branch')
                          /\ \A i \in DOMAIN branch' : SameBranch(snap[i], branch[i])'
    <3>1. CASE pc = "copied"
      <4>1. Len(snap) = Len(branch) /\ \A i \in DOMAIN branch : SameBranch(snap[i], branch[i])
        BY <3>1 DEF TablesInv, CopyOk
      <4>2. ASSUME NEW i \in DOMAIN branch' PROVE SameBranch(snap[i], branch[i])'
        <5>1. i \in DOMAIN branch /\ snap'[i] = snap[i] /\ SameBranch(snap[i], branch[i])
          BY <1>1, <4>1
        <5>2. /\ branch'[i].addr = branch[i].addr /\ branch'[i].pid = branch[i].pid
              /\ branch'[i].via = branch[i].via
              /\ branch[i].wait => branch'[i].wait
          BY <1>2, <5>1
        <5> QED BY <5>1, <5>2 DEF SameBranch
      <4> QED BY <1>1, <4>1, <4>2
    <3>2. CASE pc # "copied"
      BY <1>1, <3>2
    <3> QED BY <3>1, <3>2
  <2>3. pc' = "removing" =>
          \A i \in DOMAIN snap' : \E j \in DOMAIN branch' : branch'[j].addr = snap'[i].addr
    BY <1>1, <1>2 DEF TablesInv, CopyOk
  <2> QED BY <2>1, <2>2, <2>3 DEF CopyOk
<1>4. /\ DOMAIN Table' = DOMAIN Table
      /\ \A i \in DOMAIN Table :
           /\ Table'[i].addr = Table[i].addr /\ Table'[i].via = Table[i].via
           /\ child[Table[i].pid].state # "zombie" => Table'[i] = Table[i]
  <2>1. CASE pc = "removing"
    BY <1>1, <2>1 DEF Table
  <2>2. CASE pc # "removing"
    <3>1. Table = branch /\ Table' = branch'
      BY <1>1, <2>2 DEF Table
    <3>2. DOMAIN Table' = DOMAIN Table
      BY <1>1, <3>1
    <3>3. ASSUME NEW i \in DOMAIN Table
          PROVE  /\ Table'[i].addr = Table[i].addr /\ Table'[i].via = Table[i].via
                 /\ child[Table[i].pid].state # "zombie" => Table'[i] = Table[i]
      <4>1. i \in DOMAIN branch /\ Table[i] = branch[i] /\ Table'[i] = branch'[i]
        BY <3>1
      <4> QED BY <1>2, <4>1
    <3> QED BY <3>2, <3>3
  <2> QED BY <2>1, <2>2
<1>5. TableUnique'
  BY <1>4 DEF TablesInv, TableUnique
<1>6. Counted'
  BY <1>1, <1>4, CountSame DEF TablesInv, Counted
<1>7. CallOk'
  BY <1>1, <1>2 DEF TablesInv, CallOk, BranchExist
<1>8. ASSUME NEW p \in Pids, child'[p] # NoChild
      PROVE  \/ \E i \in DOMAIN Table' : Parent(Table[i], p)'
             \/ \E i \in DOMAIN call' : Parent(call[i], p)'
  <2>1. child[p].state # "zombie" /\ child'[p] = child[p] /\ child[p] # NoChild
    BY <1>8, SigchldMarks
  <2>2. CASE \E i \in DOMAIN Table : Parent(Table[i], p)
    <3>1. PICK i \in DOMAIN Table : Parent(Table[i], p)
      BY <2>2
    <3>2. Table'[i] = Table[i]
      BY <1>4, <2>1, <3>1 DEF Parent
    <3> QED BY <1>4, <2>1, <3>1, <3>2 DEF Parent
  <2>3. CASE \E i \in DOMAIN call : Parent(call[i], p)
    BY <1>1, <2>1, <2>3 DEF Parent
  <2> QED BY <2>1, <2>2, <2>3 DEF TablesInv, ChildrenKnown
<1> QED BY <1>3, <1>5, <1>6, <1>7, <1>8 DEF TablesInv, ChildrenKnown

LEMMA TablesExit ==
  ASSUME TypeOK, TablesInv, NEW p \in Pids, NEW ok \in BOOLEAN, Exit(p, ok)
  PROVE  TablesInv'
<1>1. UNCHANGED <<pc, pos, turn, queue, cur, branch, snap, call, clients>> /\ Table' = Table
  BY DEF Exit, Table
<1>2. CopyOk' /\ TableUnique' /\ Counted' /\ CallOk'
  BY <1>1 DEF TablesInv, CopyOk, TableUnique, Counted, CallOk, BranchExist
<1>3. ASSUME NEW r \in Pids, child'[r] # NoChild
      PROVE  child[r] # NoChild /\ child'[r].addr = child[r].addr /\ child'[r].via = child[r].via
  <2>1. CASE r = p
    <3>1. child[p].state = "running"
      BY DEF Exit
    <3>2. child[p] # NoChild /\ child[p] \in [state : {"running", "zombie"}, addr : Addr,
                                              via : Queues, ok : BOOLEAN]
      BY <3>1, ChildCases
    <3>3. child'[p] = [child[p] EXCEPT !.state = "zombie", !.ok = ok]
      BY DEF Exit, TypeOK
    <3> QED BY <2>1, <3>2, <3>3
  <2>2. CASE r # p
    BY <1>3, <2>2 DEF Exit, TypeOK
  <2> QED BY <2>1, <2>2
<1>4. ChildrenKnown'
  BY <1>1, <1>3 DEF TablesInv, ChildrenKnown, Parent
<1> QED BY <1>2, <1>4 DEF TablesInv

LEMMA TablesReap ==
  ASSUME TypeOK, TablesInv, NEW i \in DOMAIN branch, Reap(i)
  PROVE  TablesInv'
<1> DEFINE from(k) == IF k < i THEN k ELSE k + 1
           to(k)   == IF k < i THEN k ELSE k - 1
<1>1. /\ pc = "reap" /\ pc' = "removing" /\ branch[i].wait
      /\ snap' = Without(branch, i) /\ UNCHANGED <<branch, call, child>>
      /\ clients' = [clients EXCEPT ![branch[i].via] = @ - 1]
  BY DEF Reap
<1>2. Table = branch /\ Table' = Without(branch, i) /\ call = << >> /\ call' = << >>
  BY <1>1 DEF Table, TablesInv, CopyOk
<1>3. /\ Len(branch) \in Nat /\ DOMAIN branch = 1..Len(branch) /\ i \in 1..Len(branch)
      /\ branch \in Seq(Branch)
  BY TableHas
<1>4. ASSUME NEW k \in DOMAIN Table'
      PROVE  from(k) \in DOMAIN branch /\ Table'[k] = branch[from(k)]
  <2>1. k \in 1..(Len(branch) - 1) /\ Table'[k] = IF k < i THEN branch[k] ELSE branch[k + 1]
    BY <1>2, <1>3, <1>4, WithoutKeeps
  <2> QED BY <1>3, <2>1
<1>5. ASSUME NEW k \in DOMAIN branch, k # i
      PROVE  to(k) \in DOMAIN Table' /\ Table'[to(k)] = branch[k]
  BY <1>2, <1>3, <1>5, WithoutKeeps
<1>6. CopyOk' /\ CallOk'
  <2>1. \A k \in DOMAIN snap' : \E j \in DOMAIN branch' : branch'[j].addr = snap'[k].addr
    BY <1>1, <1>2, <1>4
  <2> QED BY <1>1, <1>2, <2>1 DEF CopyOk, CallOk
<1>7. ASSUME NEW j \in DOMAIN Table', NEW k \in DOMAIN Table', Table'[j].addr = Table'[k].addr
      PROVE  j = k
  <2>1. from(j) = from(k)
    BY <1>2, <1>4, <1>7 DEF TablesInv, TableUnique
  <2>2. j \in Nat /\ k \in Nat /\ i \in Nat
    BY <1>2, <1>3, WithoutKeeps
  <2> QED BY <2>1, <2>2
<1>8. ASSUME NEW p \in Pids, child'[p] # NoChild
      PROVE  \E k \in DOMAIN Table' : Parent(Table[k], p)'
  <2>1. child[p] # NoChild
    BY <1>1, <1>8
  <2>2. PICK k \in DOMAIN branch : Parent(branch[k], p)
    BY <1>2, <2>1 DEF TablesInv, ChildrenKnown
  <2>3. k # i
    BY <1>1, <2>2 DEF Parent
  <2>4. to(k) \in DOMAIN Table' /\ Table'[to(k)] = branch[k]
    BY <1>5, <2>3
  <2> HIDE DEF to
  <2> QED BY <1>1, <2>2, <2>4 DEF Parent
<1>9. ASSUME NEW q \in Queues
      PROVE  /\ clients'[q] = Cardinality(OfKind(Table, q)')
             /\ Max[q] > 0 => clients'[q] <= Max[q]
  <2>1. Cardinality(OfKind(Table, q)')
          = Cardinality(OfKind(branch, q)) - (IF branch[i].via = q THEN 1 ELSE 0)
    <3>1. OfKind(Table, q)' = OfKind(Without(branch, i), q)
      BY <1>2 DEF OfKind
    <3> QED BY <1>3, <3>1, CountWithout
  <2>2. clients[q] = Cardinality(OfKind(branch, q)) /\ (Max[q] > 0 => clients[q] <= Max[q])
    BY <1>2 DEF TablesInv, Counted
  <2>3. clients'[q] = clients[q] - (IF branch[i].via = q THEN 1 ELSE 0) /\ clients[q] \in Int
    BY <1>1 DEF TypeOK
  <2>4. Max[q] \in Nat
    BY MaxAssumption
  <2> QED BY <2>1, <2>2, <2>3, <2>4
<1>10. ChildrenKnown' /\ TableUnique'
  BY <1>7, <1>8 DEF ChildrenKnown, TableUnique
<1> QED BY <1>6, <1>9, <1>10 DEF TablesInv, Counted

LEMMA TablesRemoved ==
  ASSUME TypeOK, TablesInv, Removed
  PROVE  TablesInv'
<1>1. /\ pc = "removing" /\ pc' = "reap" /\ branch' = snap
      /\ UNCHANGED <<call, child, clients>>
  BY DEF Removed
<1>2. Table' = Table /\ call = << >> /\ call' = << >>
  BY <1>1 DEF Table, TablesInv, CopyOk
<1>3. CopyOk' /\ CallOk'
  BY <1>1, <1>2 DEF CopyOk, CallOk
<1>4. TableUnique' /\ Counted'
  BY <1>1, <1>2 DEF TablesInv, TableUnique, Counted
<1>5. ChildrenKnown'
  BY <1>1, <1>2 DEF TablesInv, ChildrenKnown, Parent
<1> QED BY <1>3, <1>4, <1>5 DEF TablesInv

LEMMA TablesFork ==
  ASSUME TypeOK, BusyIsCurrent, TablesInv,
         NEW p \in Pids, NEW port \in Ports \cup {NoPort}, Fork(p, port)
  PROVE  TablesInv'
<1> DEFINE e == queue[cur[turn]]
           b == [addr |-> e.addr, pid |-> p, via |-> e.via, port |-> port,
                 wait |-> FALSE, ok |-> FALSE]
<1>1. /\ pc = "call" /\ pc' = "forked" /\ call' = <<b>> /\ cur[turn] # 0
      /\ ~BranchExist(e.addr) /\ ~Limited(e.via)
      /\ child' = [child EXCEPT ![p] = [state |-> "running", addr |-> e.addr,
                                        via |-> e.via, ok |-> FALSE]]
      /\ UNCHANGED <<turn, pos, queue, cur, branch, snap, clients>>
  BY DEF Fork, Due
<1>2. Table = branch /\ Table' = Table /\ call = << >>
  BY <1>1 DEF Table, TablesInv, CopyOk
<1>3. DOMAIN call' = {1} /\ call'[1] = b /\ Len(call') = 1
  BY <1>1
<1>4. CopyOk'
  BY <1>1, <1>3 DEF CopyOk
<1>5. TableUnique' /\ Counted'
  BY <1>1, <1>2 DEF TablesInv, TableUnique, Counted
<1>6. CallOk'
  <2>1. Max[e.via] > 0 => clients[e.via] < Max[e.via]
    <3>1. e \in Sysentry
      BY <1>1, QueueHas DEF TypeOK, BusyIsCurrent
    <3>2. e.via \in Queues
      BY <3>1 DEF Sysentry
    <3>3. Max[e.via] \in Nat /\ clients[e.via] \in Int
      BY <3>2, MaxAssumption DEF TypeOK
    <3> QED BY <1>1, <3>3 DEF Limited
  <2>2. b.addr = e.addr /\ b.via = e.via
    OBVIOUS
  <2>3. ~BranchExist(e.addr)' /\ cur'[turn'] # 0 /\ queue'[cur'[turn']] = e
    BY <1>1 DEF BranchExist
  <2> HIDE DEF b, e
  <2> QED BY <1>1, <1>3, <2>1, <2>2, <2>3 DEF CallOk, BranchExist
<1>7. ASSUME NEW r \in Pids, child'[r] # NoChild
      PROVE  \/ \E i \in DOMAIN Table' : Parent(Table[i], r)'
             \/ \E i \in DOMAIN call' : Parent(call[i], r)'
  <2>1. CASE r = p
    <3>1. child'[p].addr = e.addr /\ child'[p].via = e.via
      BY <1>1 DEF TypeOK
    <3>2. b.pid = p /\ b.addr = e.addr /\ b.via = e.via /\ ~b.wait
      OBVIOUS
    <3>3. Parent(call[1], p)'
      BY <1>3, <3>1, <3>2 DEF Parent
    <3> QED BY <1>3, <2>1, <3>3
  <2>2. CASE r # p
    <3>1. child'[r] = child[r]
      BY <1>1, <2>2 DEF TypeOK
    <3>2. \E i \in DOMAIN Table : Parent(Table[i], r)
      BY <1>2, <1>7, <3>1 DEF TablesInv, ChildrenKnown
    <3> QED BY <1>2, <3>1, <3>2 DEF Parent
  <2> QED BY <2>1, <2>2
<1> QED BY <1>4, <1>5, <1>6, <1>7 DEF TablesInv, ChildrenKnown

LEMMA TablesCopied ==
  ASSUME TypeOK, TablesInv, Copied
  PROVE  TablesInv'
<1>1. /\ pc = "forked" /\ pc' = "copied" /\ snap' = branch
      /\ UNCHANGED <<turn, queue, cur, branch, call, clients, child>>
  BY DEF Copied
<1>2. Table' = Table
  BY <1>1 DEF Table
<1>3. CopyOk'
  BY <1>1 DEF TablesInv, CopyOk, SameBranch
<1>4. TableUnique' /\ Counted' /\ CallOk'
  BY <1>1, <1>2 DEF TablesInv, TableUnique, Counted, CallOk, BranchExist
<1>5. ChildrenKnown'
  BY <1>1, <1>2 DEF TablesInv, ChildrenKnown, Parent
<1> QED BY <1>3, <1>4, <1>5 DEF TablesInv

LEMMA TablesAdded ==
  ASSUME TypeOK, TablesInv, Added
  PROVE  TablesInv'
<1>1. /\ pc = "copied" /\ pc' = "select" /\ branch' = snap \o call /\ call' = << >>
      /\ clients' = [clients EXCEPT ![call[1].via] = @ + 1] /\ UNCHANGED child
  BY DEF Added
<1>2. /\ Table = branch /\ Table' = snap \o call /\ Len(call) = 1
      /\ Len(snap) = Len(branch) /\ \A i \in DOMAIN branch : SameBranch(snap[i], branch[i])
  BY <1>1 DEF Table, TablesInv, CopyOk
<1> DEFINE n == Len(branch)
<1>3. /\ n \in Nat /\ DOMAIN branch = 1..n /\ DOMAIN snap = 1..n /\ DOMAIN call = {1}
      /\ snap \in Seq(Branch) /\ call \in Seq(Branch)
  BY <1>2, TableHas
<1>4. /\ DOMAIN Table' = 1..(n + 1) /\ Table'[n + 1] = call[1]
      /\ \A i \in 1..n : Table'[i] = snap[i]
  <2>1. /\ snap \o call \in Seq(Branch) /\ Len(snap \o call) = n + 1
        /\ \A i \in 1..(n + 1) : (snap \o call)[i] = IF i <= n THEN snap[i] ELSE call[i - n]
    <3>1. /\ snap \o call \in Seq(Branch) /\ Len(snap \o call) = Len(snap) + Len(call)
          /\ \A i \in 1..(Len(snap) + Len(call)) :
               (snap \o call)[i] = IF i <= Len(snap) THEN snap[i] ELSE call[i - Len(snap)]
      BY <1>3, ConcatProperties
    <3>2. Len(snap) = n /\ Len(call) = 1
      BY <1>2
    <3> HIDE DEF n
    <3> QED BY <3>1, <3>2
  <2>2. DOMAIN (snap \o call) = 1..(n + 1)
    BY <2>1, SeqHas
  <2> QED BY <1>2, <1>3, <2>1, <2>2
<1>5. CopyOk' /\ CallOk'
  BY <1>1 DEF CopyOk, CallOk
<1>6. ASSUME NEW i \in DOMAIN Table', NEW j \in DOMAIN Table', Table'[i].addr = Table'[j].addr
      PROVE  i = j
  <2>1. \A k \in 1..n : Table'[k].addr = branch[k].addr /\ call[1].addr # branch[k].addr
    BY <1>2, <1>3, <1>4 DEF SameBranch, TablesInv, CallOk, BranchExist
  <2>2. \A k, l \in 1..n : branch[k].addr = branch[l].addr => k = l
    BY <1>2, <1>3 DEF TablesInv, TableUnique
  <2>3. i \in 1..n \/ i = n + 1
    BY <1>3, <1>4
  <2>4. j \in 1..n \/ j = n + 1
    BY <1>3, <1>4
  <2> QED BY <1>4, <1>6, <2>1, <2>2, <2>3, <2>4
<1>7. ASSUME NEW p \in Pids, child'[p] # NoChild
      PROVE  \E i \in DOMAIN Table' : Parent(Table[i], p)'
  <2>1. CASE \E i \in DOMAIN branch : Parent(branch[i], p)
    <3>1. PICK i \in 1..n : Parent(branch[i], p)
      BY <1>3, <2>1
    <3>2. Table'[i] = snap[i] /\ SameBranch(snap[i], branch[i]) /\ i \in DOMAIN Table'
      BY <1>2, <1>3, <1>4
    <3>3. Parent(snap[i], p)
      BY <3>1, <3>2 DEF Parent, SameBranch
    <3> QED BY <1>1, <3>2, <3>3 DEF Parent
  <2>2. CASE \E i \in DOMAIN call : Parent(call[i], p)
    <3>1. Parent(call[1], p)
      BY <1>3, <2>2
    <3>2. n + 1 \in DOMAIN Table' /\ Table'[n + 1] = call[1]
      BY <1>3, <1>4
    <3> HIDE DEF n
    <3> QED BY <1>1, <3>1, <3>2 DEF Parent
  <2> QED BY <1>1, <1>2, <1>7, <2>1, <2>2 DEF TablesInv, ChildrenKnown
<1>8. ASSUME NEW q \in Queues
      PROVE  /\ clients'[q] = Cardinality(OfKind(Table, q)')
             /\ Max[q] > 0 => clients'[q] <= Max[q]
  <2>1. Cardinality(OfKind(Table, q)')
          = Cardinality(OfKind(branch, q)) + (IF call[1].via = q THEN 1 ELSE 0)
    <3>1. OfKind(Table, q)' = OfKind(snap \o call, q)
      BY <1>2 DEF OfKind
    <3>2. OfKind(snap, q) = OfKind(branch, q)
      BY <1>2, <1>3 DEF OfKind, SameBranch
    <3> QED BY <1>2, <1>3, <3>1, <3>2, CountAdded
  <2>2. clients[q] = Cardinality(OfKind(branch, q)) /\ (Max[q] > 0 => clients[q] <= Max[q])
    BY <1>2 DEF TablesInv, Counted
  <2>3. call[1].via = q /\ Max[q] > 0 => clients[q] < Max[q]
    BY <1>3 DEF TablesInv, CallOk
  <2>4. clients'[q] = clients[q] + (IF call[1].via = q THEN 1 ELSE 0) /\ clients[q] \in Int
    BY <1>1 DEF TypeOK
  <2>5. Max[q] \in Nat
    BY MaxAssumption
  <2> QED BY <2>1, <2>2, <2>3, <2>4, <2>5
<1>9. ChildrenKnown' /\ TableUnique'
  BY <1>6, <1>7 DEF ChildrenKnown, TableUnique
<1> QED BY <1>5, <1>8, <1>9 DEF TablesInv, Counted

-----------------------------------------------------------------------------
(* The systems queue, its positions and the hold times.                    *)

NoNewBranch == \A a : BranchExist(a)' => BranchExist(a)

LEMMA CurrentIs ==
  ASSUME TypeOK, QueuesInv, NEW q \in Queues
  PROVE  cur[q] \in Nat /\ (cur[q] # 0 => cur[q] \in DOMAIN queue)
  BY QueueHas DEF TypeOK, QueuesInv, BusyIsCurrent

\* Entries and positions stay.
LEMMA QueuesStay ==
  ASSUME TypeOK, QueuesInv, EntriesStay, cur' = cur, NoNewBranch,
         pc = "select" => pc' = pc /\ turn' = turn
  PROVE  QueuesInv'
<1>1. QueueUnique'
  BY DEF QueuesInv, QueueUnique, EntriesStay
<1>2. Len(queue') = Len(queue)
  BY SeqHas, QueueHas DEF EntriesStay
<1>3. BusyIsCurrent'
  BY <1>2 DEF QueuesInv, BusyIsCurrent, EntriesStay
<1>4. CurrentHasNoBranch'
  BY CurrentIs DEF QueuesInv, CurrentHasNoBranch, EntriesStay, NoNewBranch
<1> QED BY <1>1, <1>3, <1>4 DEF QueuesInv

LEMMA HoldsStay ==
  ASSUME TypeOK, QueuesInv, HoldsAgree, EntriesStay, cur' = cur,
         \A i \in DOMAIN queue : queue'[i].hold = queue[i].hold,
         \A a \in Addr : sts'[a].hold = sts[a].hold
  PROVE  HoldsAgree'
<1>1. \A i \in DOMAIN queue : queue[i].addr \in Addr
  BY QueueHas DEF Sysentry
<1>2. \A q \in Queues : cur[q] # 0 => cur[q] \in DOMAIN queue
  BY CurrentIs
<1> QED BY <1>1, <1>2 DEF HoldsAgree, EntriesStay

LEMMA SameEntries ==
  ASSUME TypeOK, queue' = queue
  PROVE  EntriesStay
  BY DEF EntriesStay, TypeOK

\* An entry goes, and every position follows its entry.
LEMMA Removal ==
  ASSUME TypeOK, QueuesInv, NEW e \in DOMAIN queue, RemoveEntry(e)
  PROVE  LET from(k) == IF k < e THEN k ELSE k + 1 IN
         /\ queue' \in Seq(Sysentry) /\ Len(queue') = Len(queue) - 1
         /\ DOMAIN queue' = 1..(Len(queue) - 1)
         /\ \A k \in DOMAIN queue' : /\ from(k) \in DOMAIN queue /\ from(k) # e
                                     /\ queue'[k] = queue[from(k)]
         /\ \A j, k \in DOMAIN queue' : from(j) = from(k) => j = k
         /\ \A q \in Queues : cur'[q] \in 0..Len(queue')
         /\ \A q \in Queues, k \in DOMAIN queue' : cur'[q] = k <=> cur[q] = from(k)
<1> DEFINE from(k) == IF k < e THEN k ELSE k + 1
<1>1. /\ queue \in Seq(Sysentry) /\ Len(queue) \in Nat /\ DOMAIN queue = 1..Len(queue)
      /\ e \in 1..Len(queue)
  BY QueueHas
<1>2. /\ queue' = Without(queue, e)
      /\ \A q \in Queues : cur'[q] = UpdateCurrent(cur[q], e)
  BY DEF RemoveEntry
<1>3. /\ queue' \in Seq(Sysentry) /\ Len(queue') = Len(queue) - 1
      /\ DOMAIN queue' = 1..(Len(queue) - 1)
      /\ \A k \in 1..(Len(queue) - 1) : queue'[k] = IF k < e THEN queue[k] ELSE queue[k + 1]
  BY <1>1, <1>2, WithoutKeeps
<1>4. ASSUME NEW k \in DOMAIN queue'
      PROVE  from(k) \in DOMAIN queue /\ from(k) # e /\ queue'[k] = queue[from(k)]
  BY <1>1, <1>3
<1>5. \A j, k \in DOMAIN queue' : from(j) = from(k) => j = k
  BY <1>1, <1>3
<1>6. \A q \in Queues : cur[q] \in 0..Len(queue)
  BY DEF QueuesInv, BusyIsCurrent
<1>7. \A q \in Queues : cur'[q] \in 0..Len(queue')
  BY <1>1, <1>2, <1>3, <1>6 DEF UpdateCurrent
<1>8. ASSUME NEW q \in Queues, NEW k \in DOMAIN queue'
      PROVE  cur'[q] = k <=> cur[q] = from(k)
  BY <1>1, <1>2, <1>3, <1>6 DEF UpdateCurrent
<1> QED BY <1>3, <1>4, <1>5, <1>7, <1>8

LEMMA QueuesRemoval ==
  ASSUME TypeOK, QueuesInv, NEW e \in DOMAIN queue, RemoveEntry(e), NoNewBranch,
         pc # "select"
  PROVE  QueuesInv'
<1> DEFINE from(k) == IF k < e THEN k ELSE k + 1
<1>1. /\ \A k \in DOMAIN queue' : from(k) \in DOMAIN queue /\ queue'[k] = queue[from(k)]
      /\ \A j, k \in DOMAIN queue' : from(j) = from(k) => j = k
      /\ \A q \in Queues : cur'[q] \in 0..Len(queue')
      /\ \A q \in Queues, k \in DOMAIN queue' : cur'[q] = k <=> cur[q] = from(k)
      /\ queue' \in Seq(Sysentry)
  BY Removal
<1>2. \A q \in Queues : cur'[q] # 0 => cur'[q] \in DOMAIN queue'
  <2>1. DOMAIN queue' = 1..Len(queue') /\ Len(queue') \in Nat
    BY <1>1, SeqHas
  <2> HIDE DEF from
  <2> QED BY <1>1, <2>1
<1>3. 0 \notin DOMAIN queue
  BY QueueHas
<1> HIDE DEF from
<1>4. QueueUnique'
  BY <1>1 DEF QueuesInv, QueueUnique
<1>5. \A q, r \in Queues : cur'[q] = cur'[r] /\ cur'[q] # 0 => q = r
  BY <1>1, <1>2, <1>3 DEF QueuesInv, BusyIsCurrent
<1>6. \A k \in DOMAIN queue' : queue'[k].busy <=> \E q \in Queues : cur'[q] = k
  BY <1>1 DEF QueuesInv, BusyIsCurrent
<1>7. CurrentHasNoBranch'
  <2>1. ASSUME NEW q \in Queues, cur'[q] # 0
        PROVE  ~BranchExist(queue[cur[q]].addr)'
    <3>1. cur[q] = from(cur'[q]) /\ cur[q] # 0 /\ queue'[cur'[q]] = queue[cur[q]]
      BY <1>1, <1>2, <1>3, <2>1
    <3>2. ~BranchExist(queue[cur[q]].addr)
      BY <3>1 DEF QueuesInv, CurrentHasNoBranch
    <3> QED BY <3>1, <3>2 DEF NoNewBranch, BranchExist
  <2> QED BY <2>1 DEF CurrentHasNoBranch
<1> QED BY <1>1, <1>4, <1>5, <1>6, <1>7 DEF QueuesInv, BusyIsCurrent

LEMMA QueuesRescan ==
  ASSUME TypeOK, QueuesInv, HoldsAgree, Rescan
  PROVE  QueuesInv' /\ HoldsAgree'
<1>1. /\ queue' \in Seq(Sysentry) /\ DOMAIN queue \subseteq DOMAIN queue'
      /\ Len(queue) <= Len(queue')
      /\ \A i \in DOMAIN queue : /\ queue'[i].addr = queue[i].addr
                                 /\ queue'[i].busy = queue[i].busy
                                 /\ queue'[i].hold = queue[i].hold
      /\ \A i \in DOMAIN queue' \ DOMAIN queue :
           /\ ~queue'[i].busy /\ queue'[i].hold = sts[queue'[i].addr].hold
           /\ \A j \in DOMAIN queue' : queue'[j].addr = queue'[i].addr => i = j
  BY RescanEntries
<1>2. pc = "timer" /\ pc' = "sweep" /\ UNCHANGED <<cur, branch, sts>>
  BY DEF Rescan
<1>3. \A q \in Queues : cur[q] \in Nat /\ (cur[q] # 0 => cur[q] \in DOMAIN queue)
  BY CurrentIs
<1>4. QueueUnique'
  BY <1>1 DEF QueuesInv, QueueUnique
<1>5. BusyIsCurrent'
  <2>1. \A q \in Queues : cur'[q] \in 0..Len(queue')
    <3>1. Len(queue) \in Nat /\ Len(queue') \in Nat
      BY <1>1, QueueHas, SeqHas
    <3> QED BY <1>1, <1>2, <3>1 DEF QueuesInv, BusyIsCurrent
  <2>2. ASSUME NEW i \in DOMAIN queue'
        PROVE  queue'[i].busy <=> \E q \in Queues : cur'[q] = i
    <3>1. CASE i \in DOMAIN queue
      BY <1>1, <1>2, <3>1 DEF QueuesInv, BusyIsCurrent
    <3>2. CASE i \notin DOMAIN queue
      <4>1. i # 0
        BY <1>1, SeqHas
      <4> QED BY <1>1, <1>2, <1>3, <2>2, <3>2, <4>1
    <3> QED BY <3>1, <3>2
  <2> QED BY <1>2, <2>1, <2>2 DEF QueuesInv, BusyIsCurrent
<1>6. CurrentHasNoBranch'
  BY <1>1, <1>2, <1>3 DEF QueuesInv, CurrentHasNoBranch, BranchExist
<1>7. HoldsAgree'
  <2>1. \A i \in DOMAIN queue' : queue'[i].hold = sts'[queue'[i].addr].hold
    BY <1>1, <1>2 DEF HoldsAgree
  <2>2. \A q \in Queues : cur'[q] # 0 => queue'[cur'[q]].hold # "future"
    BY <1>1, <1>2, <1>3 DEF HoldsAgree
  <2> QED BY <2>1, <2>2 DEF HoldsAgree
<1> QED BY <1>4, <1>5, <1>6, <1>7 DEF QueuesInv

LEMMA QueuesSelect ==
  ASSUME TypeOK, QueuesInv, HoldsAgree, NEW closed \in Closed, Select(closed)
  PROVE  QueuesInv' /\ HoldsAgree'
<1>1. PICK next \in {0} \cup DOMAIN queue, unheld \in SUBSET DOMAIN queue :
           /\ cur' = [cur EXCEPT ![turn] = next]
           /\ queue' \in Seq(Sysentry) /\ DOMAIN queue' = DOMAIN queue
           /\ \A i \in DOMAIN queue :
                /\ queue'[i].addr = queue[i].addr
                /\ queue'[i].busy <=> (queue[i].busy /\ i # cur[turn]) \/ i = next
                /\ queue'[i].hold = IF i \in unheld THEN "no" ELSE queue[i].hold
           /\ sts' = [a \in Addr |-> IF \E i \in unheld : queue[i].addr = a
                                       THEN [tries |-> 0, hold |-> "no"] ELSE sts[a]]
           /\ next # 0 => /\ ~BranchExist(queue[next].addr)
                          /\ queue[next].hold # "future"
                          /\ queue[next].busy => next = cur[turn]
  BY SelectPicks DEF QueuesInv
<1>2. /\ pc = "select" /\ pc' \in {"call", "sleep"} /\ branch' = branch /\ turn \in Queues
      /\ cur \in [Queues -> Nat]
  BY DEF Select, NextTurn, TypeOK
<1>3. \A q \in Queues : cur[q] \in Nat /\ (cur[q] # 0 => cur[q] \in DOMAIN queue)
  BY CurrentIs
<1>4. /\ queue \in Seq(Sysentry) /\ Len(queue') = Len(queue) /\ Len(queue) \in Nat
      /\ DOMAIN queue = 1..Len(queue)
  BY <1>1, QueueHas, SeqHas
<1>5. /\ cur'[turn] = next /\ \A q \in Queues \ {turn} : cur'[q] = cur[q]
  BY <1>1, <1>2
<1>6. ASSUME NEW q \in Queues \ {turn} PROVE next # 0 => cur[q] # next
  <2>1. CASE next # 0 /\ cur[q] = next
    <3>1. queue[next].busy
      BY <1>1, <2>1 DEF QueuesInv, BusyIsCurrent
    <3>2. cur[turn] = cur[q]
      BY <1>1, <2>1, <3>1
    <3> QED BY <1>2, <2>1, <3>2 DEF QueuesInv, BusyIsCurrent
  <2> QED BY <2>1
<1>7. QueueUnique'
  BY <1>1 DEF QueuesInv, QueueUnique
<1>8. BusyIsCurrent'
  <2>1. \A q \in Queues : cur'[q] \in 0..Len(queue')
    BY <1>1, <1>4, <1>5 DEF QueuesInv, BusyIsCurrent
  <2>2. ASSUME NEW q \in Queues, NEW r \in Queues, cur'[q] = cur'[r], cur'[q] # 0 PROVE q = r
    BY <1>5, <1>6, <2>2 DEF QueuesInv, BusyIsCurrent
  <2>3. ASSUME NEW i \in DOMAIN queue'
        PROVE  queue'[i].busy <=> \E q \in Queues : cur'[q] = i
    <3>1. /\ i \in DOMAIN queue /\ i # 0
          /\ queue'[i].busy <=> (queue[i].busy /\ i # cur[turn]) \/ i = next
      BY <1>1, <1>4
    <3>2. queue[i].busy <=> \E q \in Queues : cur[q] = i
      BY <3>1 DEF QueuesInv, BusyIsCurrent
    <3>3. (\E q \in Queues : cur[q] = i) /\ i # cur[turn] <=> \E q \in Queues \ {turn} : cur[q] = i
      BY <1>2 DEF QueuesInv, BusyIsCurrent
    <3>4. (\E q \in Queues : cur'[q] = i) <=> (\E q \in Queues \ {turn} : cur[q] = i) \/ i = next
      BY <1>2, <1>5
    <3> QED BY <3>1, <3>2, <3>3, <3>4
  <2> QED BY <2>1, <2>2, <2>3 DEF BusyIsCurrent
<1>9. CurrentHasNoBranch'
  <2>1. ASSUME NEW q \in Queues, cur'[q] # 0
        PROVE  ~BranchExist(queue[cur[q]].addr)'
    <3>1. cur'[q] \in DOMAIN queue /\ ~BranchExist(queue[cur'[q]].addr)
      <4>1. CASE q = turn
        BY <1>1, <1>5, <2>1, <4>1
      <4>2. CASE q # turn
        BY <1>3, <1>5, <2>1, <4>2 DEF QueuesInv, CurrentHasNoBranch
      <4> QED BY <4>1, <4>2
    <3>2. queue'[cur'[q]].addr = queue[cur'[q]].addr
      BY <1>1, <3>1
    <3> QED BY <1>2, <3>1, <3>2 DEF BranchExist
  <2> QED BY <2>1 DEF CurrentHasNoBranch
<1>10. HoldsAgree'
  <2>1. ASSUME NEW i \in DOMAIN queue' PROVE queue'[i].hold = sts'[queue'[i].addr].hold
    <3>1. i \in DOMAIN queue /\ queue[i].addr \in Addr /\ queue[i].hold = sts[queue[i].addr].hold
      BY <1>1, QueueHas DEF Sysentry, HoldsAgree
    <3>2. (\E j \in unheld : queue[j].addr = queue[i].addr) <=> i \in unheld
      BY <1>1, <3>1 DEF QueuesInv, QueueUnique
    <3>3. sts'[queue[i].addr].hold = IF i \in unheld THEN "no" ELSE sts[queue[i].addr].hold
      BY <1>1, <3>1, <3>2
    <3> QED BY <1>1, <3>1, <3>3
  <2>2. ASSUME NEW q \in Queues, cur'[q] # 0 PROVE queue'[cur'[q]].hold # "future"
    <3>1. cur'[q] \in DOMAIN queue /\ queue[cur'[q]].hold # "future"
      <4>1. CASE q = turn
        BY <1>1, <1>5, <2>2, <4>1
      <4>2. CASE q # turn
        BY <1>3, <1>5, <2>2, <4>2 DEF HoldsAgree
      <4> QED BY <4>1, <4>2
    <3> QED BY <1>1, <3>1
  <2> QED BY <2>1, <2>2 DEF HoldsAgree
<1> QED BY <1>7, <1>8, <1>9, <1>10 DEF QueuesInv

\* The branch that is added is that of the queue whose turn it is.
LEMMA QueuesAdded ==
  ASSUME TypeOK, TablesInv, QueuesInv, Added
  PROVE  QueuesInv'
<1>1. /\ pc = "copied" /\ pc' = "select" /\ branch' = snap \o call
      /\ UNCHANGED <<turn, queue, cur>>
  BY DEF Added
<1>2. /\ Len(call) = 1 /\ Len(snap) = Len(branch)
      /\ \A i \in DOMAIN branch : SameBranch(snap[i], branch[i])
      /\ cur[turn] # 0 /\ call[1].addr = queue[cur[turn]].addr
  <2>1. 1 \in DOMAIN call
    BY <1>1, TableHas DEF TablesInv, CopyOk
  <2> QED BY <1>1, <2>1 DEF TablesInv, CopyOk, CallOk
<1>3. QueueUnique' /\ BusyIsCurrent'
  BY <1>1 DEF QueuesInv, QueueUnique, BusyIsCurrent
<1>4. ASSUME NEW a, BranchExist(a)' PROVE BranchExist(a) \/ a = call[1].addr
  <2>1. PICK i \in DOMAIN (snap \o call) : (snap \o call)[i].addr = a
    BY <1>1, <1>4 DEF BranchExist
  <2>2. CASE i \in 1..Len(snap)
    <3>1. (snap \o call)[i] = snap[i] /\ i \in DOMAIN branch
      BY <1>2, <2>2, TableHas
    <3> QED BY <1>2, <2>1, <3>1 DEF SameBranch, BranchExist
  <2>3. CASE i \notin 1..Len(snap)
    <3>1. (snap \o call)[i] = call[1]
      <4>1. /\ snap \o call \in Seq(Branch) /\ Len(snap \o call) = Len(snap) + Len(call)
            /\ \A k \in 1..(Len(snap) + Len(call)) :
                 (snap \o call)[k] = IF k <= Len(snap) THEN snap[k] ELSE call[k - Len(snap)]
        BY ConcatProperties, TableHas
      <4>2. i \in 1..(Len(snap) + 1) /\ Len(snap) \in Nat
        BY <1>2, <4>1, SeqHas, TableHas
      <4>3. i = Len(snap) + 1
        BY <2>3, <4>2
      <4> QED BY <1>2, <4>1, <4>2, <4>3
    <3> QED BY <2>1, <3>1
  <2> QED BY <2>2, <2>3
<1>5. ASSUME NEW q \in Queues, cur[q] # 0, q # turn
      PROVE  ~BranchExist(queue[cur[q]].addr)'
  <2>1. cur[q] \in DOMAIN queue /\ cur[turn] \in DOMAIN queue /\ turn \in Queues
    BY <1>2, <1>5, CurrentIs DEF TypeOK
  <2>2. queue[cur[q]].addr # call[1].addr
    BY <1>2, <1>5, <2>1 DEF QueuesInv, QueueUnique, BusyIsCurrent
  <2>3. ~BranchExist(queue[cur[q]].addr)
    BY <1>1, <1>5 DEF QueuesInv, CurrentHasNoBranch
  <2> QED BY <1>1, <1>4, <2>2, <2>3 DEF BranchExist
<1>6. CurrentHasNoBranch'
  BY <1>1, <1>5 DEF CurrentHasNoBranch, BranchExist
<1> QED BY <1>3, <1>6 DEF QueuesInv

\* Steps that leave the branches, the queue, its positions and the holds alone.
LEMMA QueuesFrame ==
  ASSUME TypeOK, QueuesInv, HoldsAgree, UNCHANGED <<queue, cur>>, NoNewBranch,
         pc = "select" => pc' = pc /\ turn' = turn,
         \A a \in Addr : sts'[a].hold = sts[a].hold
  PROVE  QueuesInv' /\ HoldsAgree'
<1>1. EntriesStay /\ \A i \in DOMAIN queue : queue'[i].hold = queue[i].hold
  BY SameEntries
<1> QED BY <1>1, QueuesStay, HoldsStay

LEMMA SameBranches ==
  ASSUME UNCHANGED branch
  PROVE  NoNewBranch
  BY DEF NoNewBranch, BranchExist

\* A removed entry was the only one of its address and nobody's choice.
LEMMA HoldsRemoval ==
  ASSUME TypeOK, QueuesInv, HoldsAgree, NEW e \in DOMAIN queue, RemoveEntry(e),
         \A a \in Addr \ {queue[e].addr} : sts'[a].hold = sts[a].hold
  PROVE  HoldsAgree'
<1> DEFINE from(k) == IF k < e THEN k ELSE k + 1
<1>1. /\ \A k \in DOMAIN queue' : /\ from(k) \in DOMAIN queue /\ from(k) # e
                                  /\ queue'[k] = queue[from(k)]
      /\ \A q \in Queues : cur'[q] \in 0..Len(queue')
      /\ \A q \in Queues, k \in DOMAIN queue' : cur'[q] = k <=> cur[q] = from(k)
      /\ queue' \in Seq(Sysentry)
  BY Removal
<1>2. \A q \in Queues : cur'[q] # 0 => cur'[q] \in DOMAIN queue'
  <2>1. DOMAIN queue' = 1..Len(queue') /\ Len(queue') \in Nat
    BY <1>1, SeqHas
  <2> HIDE DEF from
  <2> QED BY <1>1, <2>1
<1>3. 0 \notin DOMAIN queue /\ \A i \in DOMAIN queue : queue[i].addr \in Addr
  BY QueueHas DEF Sysentry
<1> HIDE DEF from
<1>4. ASSUME NEW k \in DOMAIN queue' PROVE queue'[k].hold = sts'[queue'[k].addr].hold
  <2>1. /\ from(k) \in DOMAIN queue /\ queue'[k] = queue[from(k)]
        /\ queue[from(k)].addr \in Addr /\ queue[from(k)].addr # queue[e].addr
    BY <1>1, <1>3 DEF QueuesInv, QueueUnique
  <2> QED BY <2>1 DEF HoldsAgree
<1>5. ASSUME NEW q \in Queues, cur'[q] # 0 PROVE queue'[cur'[q]].hold # "future"
  <2>1. cur[q] = from(cur'[q]) /\ cur[q] # 0 /\ queue'[cur'[q]] = queue[cur[q]]
    BY <1>1, <1>2, <1>3, <1>5
  <2> QED BY <2>1 DEF HoldsAgree
<1> QED BY <1>4, <1>5 DEF HoldsAgree

LEMMA QueuesReap ==
  ASSUME TypeOK, QueuesInv, HoldsAgree, NEW i \in DOMAIN branch, Reap(i)
  PROVE  QueuesInv' /\ HoldsAgree'
<1> DEFINE a == branch[i].addr
           e == EntryOf(a)
<1>1. pc = "reap" /\ NoNewBranch
  BY SameBranches DEF Reap
<1>2. a \in Addr /\ sts \in [Addr -> [tries : 0..MaxTries, hold : Holds]]
  <2>1. branch[i] \in Branch
    BY TableHas
  <2> QED BY <2>1 DEF Branch, TypeOK
<1>3. e # 0 => e \in DOMAIN queue /\ queue[e].addr = a
  BY EntryOfIs
<1>4. \A q \in Queues : cur[q] # 0 => cur[q] # e
  <2>1. BranchExist(a)
    BY DEF BranchExist
  <2> HIDE DEF a
  <2> QED BY <1>1, <1>3, <2>1 DEF QueuesInv, CurrentHasNoBranch
<1>5. CASE e = 0 /\ UNCHANGED <<queue, cur, sts>>
  BY <1>1, <1>5, QueuesFrame
<1>6. CASE e # 0 /\ RemoveEntry(e) /\ sts' = [sts EXCEPT ![a] = AfterTries(a)]
  <2>1. \A c \in Addr \ {queue[e].addr} : sts'[c].hold = sts[c].hold
    <3> HIDE DEF e, a
    <3> QED BY <1>2, <1>3, <1>6
  <2> QED BY <1>1, <1>3, <1>6, <2>1, QueuesRemoval, HoldsRemoval
<1>7. CASE /\ e # 0 /\ cur' = cur /\ sts' = [sts EXCEPT ![a] = AfterTries(a)]
           /\ EntriesStay
           /\ \A k \in DOMAIN queue : queue'[k].hold = IF k = e THEN AfterTries(a).hold
                                                                ELSE queue[k].hold
  <2>1. QueuesInv'
    BY <1>1, <1>7, QueuesStay
  <2>2. ASSUME NEW k \in DOMAIN queue' PROVE queue'[k].hold = sts'[queue'[k].addr].hold
    <3>1. /\ k \in DOMAIN queue /\ queue'[k].addr = queue[k].addr
          /\ queue[k].hold = sts[queue[k].addr].hold /\ queue[k].addr \in Addr
      BY <1>7, QueueHas DEF EntriesStay, HoldsAgree, Sysentry
    <3>2. k # e => queue[k].addr # a
      BY <1>3, <1>7, <3>1 DEF QueuesInv, QueueUnique
    <3> HIDE DEF a, e
    <3> QED BY <1>2, <1>3, <1>7, <3>1, <3>2
  <2>3. ASSUME NEW q \in Queues, cur'[q] # 0 PROVE queue'[cur'[q]].hold # "future"
    <3>1. cur'[q] = cur[q] /\ cur[q] \in DOMAIN queue /\ cur[q] # e
          /\ queue[cur[q]].hold # "future"
      BY <1>4, <1>7, <2>3, CurrentIs DEF HoldsAgree
    <3> HIDE DEF a, e
    <3> QED BY <1>7, <3>1
  <2>4. HoldsAgree'
    BY <2>2, <2>3 DEF HoldsAgree
  <2> QED BY <2>1, <2>4
<1>8. \/ e = 0 /\ UNCHANGED <<queue, cur, sts>>
      \/ e # 0 /\ RemoveEntry(e) /\ sts' = [sts EXCEPT ![a] = AfterTries(a)]
      \/ /\ e # 0 /\ cur' = cur /\ sts' = [sts EXCEPT ![a] = AfterTries(a)]
         /\ EntriesStay
         /\ \A k \in DOMAIN queue : queue'[k].hold = IF k = e THEN AfterTries(a).hold
                                                              ELSE queue[k].hold
  BY ReapEntries
<1> QED BY <1>5, <1>6, <1>7, <1>8

LEMMA QueuesSweep ==
  ASSUME TypeOK, CopyOk, QueuesInv, HoldsAgree, Sweep
  PROVE  QueuesInv' /\ HoldsAgree'
<1>1. pc = "sweep" /\ NoNewBranch /\ UNCHANGED <<pc, turn, sts>>
  BY SameBranches DEF Sweep
<1>2. CASE UNCHANGED <<queue, cur>>
  BY <1>1, <1>2, QueuesFrame
<1>3. CASE RemoveEntry(pos)
  <2>1. pos \in DOMAIN queue
    BY QueueHas DEF Sweep, CopyOk, TypeOK
  <2> QED BY <1>1, <1>3, <2>1, QueuesRemoval, HoldsRemoval
<1> QED BY <1>2, <1>3 DEF Sweep

LEMMA QueuesRestart ==
  ASSUME TypeOK, Restart
  PROVE  QueuesInv' /\ HoldsAgree'
<1>1. queue' = << >> /\ Len(queue') = 0 /\ \A q \in Queues : cur'[q] = 0
  BY DEF Restart
<1>2. QueueUnique' /\ BusyIsCurrent' /\ CurrentHasNoBranch'
  BY <1>1 DEF QueueUnique, BusyIsCurrent, CurrentHasNoBranch
<1>3. HoldsAgree'
  BY <1>1 DEF HoldsAgree
<1> QED BY <1>2, <1>3 DEF QueuesInv

-----------------------------------------------------------------------------
(* Every step keeps the invariant.                                         *)

\* The steps of the main loop between changes of the table and of the queue.
Passing ==
  \/ \E s \in Sigs : HandleSignal(s)
  \/ NoSignal \/ Start \/ NoneWaiting \/ NoRescan \/ SweepEnd
  \/ LeaveAlone \/ NoneDue \/ NotNow \/ Locked \/ Sleep

LEMMA PassingIs ==
  ASSUME Passing
  PROVE  /\ UNCHANGED <<queue, cur, branch, snap, call, clients, child, sts>>
         /\ pc \notin {"forked", "copied", "removing", "select"}
         /\ pc' \notin {"forked", "copied", "removing", "sweep"}
<1>1. CASE \E s \in Sigs : HandleSignal(s)
  BY <1>1 DEF HandleSignal
<1>2. CASE NoSignal \/ Start \/ NoneWaiting \/ NoRescan \/ SweepEnd \/ Sleep
  BY <1>2 DEF NoSignal, Start, NoneWaiting, NoRescan, SweepEnd, Sleep
<1>3. CASE LeaveAlone \/ NoneDue \/ NotNow \/ Locked
  BY <1>3 DEF LeaveAlone, NoneDue, NotNow, Locked, Due, NextTurn
<1> QED BY <1>1, <1>2, <1>3 DEF Passing

\* What happens around the main loop leaves it where it is.
LEMMA AroundIs ==
  ASSUME TypeOK, Timers \/ World
  PROVE  /\ UNCHANGED <<pc, pos, turn, cur, branch, snap, call, clients, child>>
         /\ EntriesStay
<1>1. ASSUME NEW a \in Addr, Rested(a)
      PROVE  UNCHANGED <<pc, pos, turn, cur, branch, snap, call, clients, child>> /\ EntriesStay
  BY <1>1, RestedEntries DEF Rested
<1>2. ASSUME NEW a \in Addr, HoldOver(a)
      PROVE  UNCHANGED <<pc, pos, turn, cur, branch, snap, call, clients, child>> /\ EntriesStay
  BY <1>2, HoldOverEntries DEF HoldOver
<1>3. CASE HoldAllOver \/ \E port \in Ports : LineReady(port)
  BY <1>3, SameEntries DEF HoldAllOver, LineReady
<1>4. CASE World
  BY <1>4, SameEntries DEF World, Post, Unpost, Relist, Signal
<1> QED BY <1>1, <1>2, <1>3, <1>4 DEF Timers

LEMMA StepTables == DInv /\ [Next]_vars => TablesInv'
<1> SUFFICES ASSUME DInv, [Next]_vars PROVE TablesInv'
  OBVIOUS
<1>1. TypeOK /\ BusyIsCurrent /\ CopyOk /\ TablesInv
  BY DEF DInv, Typed, QueuesInv, TablesInv
<1>2. CASE UNCHANGED vars
  <2>1. UNCHANGED <<pc, pos, turn, queue, cur, branch, snap, call, clients, child>>
    BY <1>2 DEF vars
  <2> QED BY <1>1, <2>1, TablesAround
<1>3. CASE Passing
  BY <1>1, <1>3, PassingIs, TablesElsewhere
<1>4. CASE Restart
  BY <1>1, <1>4, TablesElsewhere DEF Restart
<1>5. CASE Rescan
  BY <1>1, <1>5, TablesElsewhere DEF Rescan
<1>6. CASE Sweep
  <2>1. pos' > 0
    BY <1>1, <1>6 DEF Sweep, TypeOK
  <2> QED BY <1>1, <1>6, <2>1, TablesElsewhere DEF Sweep
<1>7. ASSUME NEW closed \in Closed, Select(closed) PROVE TablesInv'
  <2>1. /\ UNCHANGED <<branch, snap, call, clients, child>>
        /\ pc = "select" /\ pc' \in {"call", "sleep"}
    BY <1>7 DEF Select, NextTurn
  <2> QED BY <1>1, <2>1, TablesElsewhere
<1>8. CASE Timers \/ World
  BY <1>1, <1>8, AroundIs, TablesAround DEF EntriesStay
<1>9. CASE Sigchld
  BY <1>1, <1>9, TablesSigchld
<1>10. CASE Children
  BY <1>1, <1>10, TablesExit DEF Children
<1>11. CASE \/ \E i \in DOMAIN branch : Reap(i)
            \/ Removed \/ Copied \/ Added
            \/ \E p \in Pids, port \in Ports \cup {NoPort} : Fork(p, port)
  BY <1>1, <1>11, TablesReap, TablesRemoved, TablesCopied, TablesAdded, TablesFork
<1> QED
  BY <1>2, <1>3, <1>4, <1>5, <1>6, <1>7, <1>8, <1>9, <1>10, <1>11 DEF Next, Main, Passing

LEMMA StepQueues == DInv /\ [Next]_vars => QueuesInv' /\ HoldsAgree'
<1> SUFFICES ASSUME DInv, [Next]_vars PROVE QueuesInv' /\ HoldsAgree'
  OBVIOUS
<1>1. TypeOK /\ CopyOk /\ TablesInv /\ QueuesInv /\ HoldsAgree
  BY DEF DInv, Typed, TablesInv
<1>2. CASE UNCHANGED vars
  <2>1. UNCHANGED <<queue, cur, branch, pc, turn, sts>>
    BY <1>2 DEF vars
  <2> QED BY <1>1, <2>1, SameBranches, QueuesFrame
<1>3. CASE Passing
  BY <1>1, <1>3, PassingIs, SameBranches, QueuesFrame
<1>4. CASE Restart
  BY <1>1, <1>4, QueuesRestart
<1>5. CASE Rescan
  BY <1>1, <1>5, QueuesRescan
<1>6. CASE Sweep
  BY <1>1, <1>6, QueuesSweep
<1>7. ASSUME NEW closed \in Closed, Select(closed) PROVE QueuesInv' /\ HoldsAgree'
  BY <1>1, <1>7, QueuesSelect
<1>8. CASE Timers \/ World
  <2>1. UNCHANGED <<pc, turn, cur, branch>> /\ EntriesStay
    BY <1>1, <1>8, AroundIs
  <2>2. QueuesInv'
    BY <1>1, <2>1, SameBranches, QueuesStay
  <2>3. ASSUME NEW a \in Addr, HoldOver(a) PROVE HoldsAgree'
    <3>1. /\ \A i \in DOMAIN queue :
               queue'[i].hold = IF queue[i].addr = a /\ queue[i].hold = "future"
                                  THEN "past" ELSE queue[i].hold
          /\ sts[a].hold = "future"
      BY <1>1, <2>3, HoldOverEntries DEF HoldOver
    <3>2. sts'[a].hold = "past" /\ \A c \in Addr \ {a} : sts'[c] = sts[c]
      BY <1>1, <2>3 DEF HoldOver, TypeOK
    <3>3. \A i \in DOMAIN queue : queue[i].addr \in Addr
      BY <1>1, QueueHas DEF Sysentry
    <3>4. \A i \in DOMAIN queue' : queue'[i].hold = sts'[queue'[i].addr].hold
      BY <1>1, <2>1, <3>1, <3>2, <3>3 DEF HoldsAgree, EntriesStay
    <3>5. \A q \in Queues : cur'[q] # 0 => queue'[cur'[q]].hold # "future"
      BY <1>1, <2>1, <3>1, CurrentIs DEF HoldsAgree
    <3> QED BY <3>4, <3>5 DEF HoldsAgree
  <2>4. ASSUME NEW a \in Addr, Rested(a) PROVE HoldsAgree'
    <3>1. UNCHANGED sts
      BY <2>4 DEF Rested
    <3> QED BY <1>1, <2>1, <2>4, <3>1, RestedEntries, HoldsStay
  <2>5. CASE World \/ HoldAllOver \/ \E port \in Ports : LineReady(port)
    <3>1. UNCHANGED <<queue, sts>>
      BY <2>5 DEF World, Post, Unpost, Relist, Signal, HoldAllOver, LineReady
    <3>2. UNCHANGED <<queue, cur, branch, pc, turn, sts>>
      BY <2>1, <3>1
    <3> QED BY <1>1, <3>2, SameBranches, QueuesFrame
  <2> QED BY <1>8, <2>2, <2>3, <2>4, <2>5 DEF Timers
<1>9. CASE Sigchld
  <2>1. NoNewBranch
    BY <1>1, <1>9, SigchldMarks DEF NoNewBranch, BranchExist
  <2>2. UNCHANGED <<queue, cur, pc, turn, sts>>
    BY <1>9 DEF Sigchld
  <2> QED BY <1>1, <2>1, <2>2, QueuesFrame
<1>10. ASSUME NEW p \in Pids, NEW ok \in BOOLEAN, Exit(p, ok) PROVE QueuesInv' /\ HoldsAgree'
  <2>1. UNCHANGED <<queue, cur, branch, pc, turn>>
    BY <1>10 DEF Exit
  <2>2. \A a \in Addr : sts'[a].hold = sts[a].hold
    <3> DEFINE c == child[p].addr
    <3>1. sts' = [sts EXCEPT ![c].tries = IF ok THEN 0 ELSE IF @ < MaxTries THEN @ + 1 ELSE @]
      BY <1>10 DEF Exit
    <3> HIDE DEF c
    <3> QED BY <1>1, <3>1 DEF TypeOK
  <2> QED BY <1>1, <2>1, <2>2, SameBranches, QueuesFrame
<1>11. CASE \E i \in DOMAIN branch : Reap(i)
  BY <1>1, <1>11, QueuesReap
<1>12. CASE Removed
  <2>1. NoNewBranch
    BY <1>1, <1>12 DEF Removed, CopyOk, NoNewBranch, BranchExist
  <2>2. UNCHANGED <<queue, cur, sts>> /\ pc # "select"
    BY <1>12 DEF Removed
  <2> QED BY <1>1, <2>1, <2>2, QueuesFrame
<1>13. CASE Copied \/ \E p \in Pids, port \in Ports \cup {NoPort} : Fork(p, port)
  <2>1. UNCHANGED <<queue, cur, branch, sts>> /\ pc # "select"
    BY <1>13 DEF Copied, Fork, Due
  <2> QED BY <1>1, <2>1, SameBranches, QueuesFrame
<1>14. CASE Added
  <2>1. UNCHANGED <<queue, cur, sts>>
    BY <1>14 DEF Added
  <2> QED BY <1>1, <1>14, <2>1, SameEntries, QueuesAdded, HoldsStay
<1> QED
  BY <1>2, <1>3, <1>4, <1>5, <1>6, <1>7, <1>8, <1>9, <1>10, <1>11, <1>12, <1>13, <1>14
     DEF Next, Main, Passing, Children

LEMMA InitInv == Init => DInv
<1> SUFFICES ASSUME Init PROVE DInv
  OBVIOUS
<1>1. /\ pc = "start" /\ queue = << >> /\ branch = << >> /\ snap = << >> /\ call = << >>
      /\ Table = << >> /\ Len(queue) = 0
      /\ \A q \in Queues : cur[q] = 0 /\ clients[q] = 0
      /\ \A p \in Pids : child[p] = NoChild
  BY DEF Init, Table
<1>2. CopyOk /\ TableUnique /\ ChildrenKnown /\ CallOk
  BY <1>1 DEF CopyOk, TableUnique, ChildrenKnown, CallOk
<1>3. Counted
  <2>1. \A q : OfKind(Table, q) = {}
    BY <1>1 DEF OfKind
  <2>2. ASSUME NEW q \in Queues
        PROVE  /\ clients[q] = Cardinality(OfKind(Table, q))
               /\ Max[q] > 0 => clients[q] <= Max[q]
    <3>1. clients[q] = 0 /\ Cardinality(OfKind(Table, q)) = 0
      BY <1>1, <2>1, FS_EmptySet
    <3> QED BY <3>1, MaxAssumption
  <2> QED BY <2>2 DEF Counted
<1>4. QueuesInv /\ HoldsAgree
  BY <1>1 DEF QueuesInv, QueueUnique, BusyIsCurrent, CurrentHasNoBranch, HoldsAgree
<1> QED BY <1>2, <1>3, <1>4, InitTyped DEF DInv, TablesInv

LEMMA Inductive == Spec => []DInv
<1>1. DInv /\ [Next]_vars => DInv'
  BY StepTyped, StepTables, StepQueues DEF DInv
<1> QED BY <1>1, InitInv, PTL DEF Spec

-----------------------------------------------------------------------------
(* What the daemon promises.                                               *)

\* There is one call to record at a time.
LEMMA CallHas ==
  ASSUME TypeOK, CopyOk
  PROVE  DOMAIN call = IF pc \in {"forked", "copied"} THEN {1} ELSE {}
<1>1. CASE pc \in {"forked", "copied"}
  <2>1. Len(call) = 1 /\ DOMAIN call = 1..Len(call)
    BY <1>1, TableHas DEF CopyOk
  <2>2. DOMAIN call = 1..1
    BY <2>1
  <2> QED BY <1>1, <2>2
<1>2. CASE pc \notin {"forked", "copied"}
  BY <1>2 DEF CopyOk
<1> QED BY <1>1, <1>2

LEMMA OneCall == DInv => OneCallPerAddress
<1> SUFFICES ASSUME DInv PROVE OneCallPerAddress
  OBVIOUS
<1>1. /\ ChildrenKnown /\ TableUnique /\ CopyOk /\ CallOk /\ QueueUnique /\ TypeOK
  BY DEF DInv, Typed, TablesInv, QueuesInv
<1>2. ASSUME NEW i \in DOMAIN call
      PROVE  /\ \A k \in DOMAIN Table : Table[k].addr # call[i].addr
             /\ \A j \in DOMAIN call : i = j
  <2>1. pc \in {"forked", "copied"} /\ DOMAIN call = {1}
    BY <1>1, <1>2, CallHas DEF CopyOk
  <2>2. Table = branch /\ ~BranchExist(call[i].addr)
    BY <1>1, <1>2, <2>1 DEF Table, CallOk
  <2> QED BY <2>1, <2>2 DEF BranchExist
<1>3. ASSUME NEW a \in Addr, NEW p \in Alive(a), NEW r \in Alive(a) PROVE p = r
  <2>1. /\ p \in Pids /\ child[p] # NoChild /\ child[p].addr = a
        /\ r \in Pids /\ child[r] # NoChild /\ child[r].addr = a
    BY DEF Alive
  <2>2. \/ \E i \in DOMAIN Table : Table[i].pid = p /\ Table[i].addr = a
        \/ \E i \in DOMAIN call : call[i].pid = p /\ call[i].addr = a
    BY <1>1, <2>1 DEF ChildrenKnown, Parent
  <2>3. \/ \E i \in DOMAIN Table : Table[i].pid = r /\ Table[i].addr = a
        \/ \E i \in DOMAIN call : call[i].pid = r /\ call[i].addr = a
    BY <1>1, <2>1 DEF ChildrenKnown, Parent
  <2> QED BY <1>1, <1>2, <2>2, <2>3 DEF TableUnique
<1> QED BY <1>1, <1>3 DEF OneCallPerAddress, QueueUnique

\* The children of a kind and the branches of that kind: no two children have one.
LEMMA Limit == DInv => ChildrenWithinLimit
<1> SUFFICES ASSUME DInv, NEW q \in Queues, Max[q] > 0
             PROVE  Cardinality({p \in Pids : child[p] # NoChild /\ child[p].via = q}) <= Max[q]
  BY DEF ChildrenWithinLimit
<1>1. ChildrenKnown /\ Counted /\ CopyOk /\ CallOk /\ TypeOK
  BY DEF DInv, Typed, TablesInv
<1> DEFINE C == {p \in Pids : child[p] # NoChild /\ child[p].via = q}
           K == OfKind(Table, q)
           new == \E i \in DOMAIN call : call[i].via = q
           T == IF new THEN K \cup {0} ELSE K
           in(p) == \E i \in DOMAIN Table : Parent(Table[i], p)
           f == [p \in C |-> IF in(p) THEN CHOOSE i \in DOMAIN Table : Parent(Table[i], p) ELSE 0]
<1>2. IsFiniteSet(K) /\ Cardinality(K) = clients[q] /\ Cardinality(K) \in Nat /\ 0 \notin K
  <2>1. IsFiniteSet(K) /\ Cardinality(K) \in Nat
    BY <1>1, TableHas, KindFinite
  <2>2. Cardinality(K) = clients[q]
    BY <1>1 DEF Counted
  <2>3. 0 \notin DOMAIN Table
    BY <1>1, TableHas, SeqHas
  <2> QED BY <2>1, <2>2, <2>3 DEF OfKind
<1>3. ASSUME NEW p \in C
      PROVE  \/ in(p) /\ f[p] \in K /\ Table[f[p]].pid = p
             \/ ~in(p) /\ f[p] = 0 /\ \E i \in DOMAIN call : call[i].via = q /\ call[i].pid = p
  <2>1. p \in Pids /\ child[p] # NoChild /\ child[p].via = q
    OBVIOUS
  <2>2. CASE in(p)
    <3> DEFINE i == CHOOSE i \in DOMAIN Table : Parent(Table[i], p)
    <3>1. i \in DOMAIN Table /\ Parent(Table[i], p)
      BY <2>2
    <3>2. f[p] = i
      BY <2>2
    <3> HIDE DEF i, f
    <3> QED BY <2>1, <2>2, <3>1, <3>2 DEF Parent, OfKind
  <2>3. CASE ~in(p)
    <3>1. f[p] = 0
      BY <2>3
    <3>2. \E i \in DOMAIN call : Parent(call[i], p)
      BY <1>1, <2>1, <2>3 DEF ChildrenKnown
    <3> QED BY <2>1, <2>3, <3>1, <3>2 DEF Parent
  <2> QED BY <2>2, <2>3
<1>4. \A i, j \in DOMAIN call : i = j
  BY <1>1, CallHas
<1> HIDE DEF C, K, in, f
<1>5. f \in [C -> T]
  <2>1. \A p \in C : f[p] \in T
    BY <1>3
  <2> QED BY <2>1 DEF f
<1>6. ASSUME NEW p \in C, NEW r \in C, f[p] = f[r] PROVE p = r
  BY <1>2, <1>3, <1>4, <1>6
<1>7. IsFiniteSet(T) /\ Cardinality(T) = clients[q] + (IF new THEN 1 ELSE 0)
  BY <1>2, FS_AddElement
<1>8. Cardinality(T) <= Max[q]
  <2>1. clients[q] <= Max[q] /\ (new => clients[q] < Max[q])
    BY <1>1 DEF Counted, CallOk
  <2>2. clients[q] \in Int /\ Max[q] \in Nat
    BY <1>1, MaxAssumption DEF TypeOK
  <2> HIDE DEF new, T
  <2> QED BY <1>7, <2>1, <2>2
<1>9. IsFiniteSet(C) /\ Cardinality(C) <= Cardinality(T)
  <2>1. f \in Injection(C, T)
    BY <1>5, <1>6, Fun_IsInj
  <2> HIDE DEF T
  <2> QED BY <1>7, <2>1, FS_Injection
<1>10. Cardinality(C) \in Nat /\ Cardinality(T) \in Nat
  BY <1>7, <1>9, FS_CardinalityType
<1>11. Cardinality(C) <= Max[q]
  <2> HIDE DEF T
  <2> QED BY <1>8, <1>9, <1>10, MaxAssumption
<1> QED BY <1>11 DEF C

\* TablesAgree: positions, `busy', branches, counters and the children that run say the
\* same, with SIGCHLD at any point, removals by copying (daemon_branch_remove,
\* out_remove_from_sysqueue) and restarts; never two calls to one address, never more
\* calls than daemon_maxclients.
THEOREM TablesCorrect == Spec => []TablesAgree
<1>1. DInv => TablesAgree
  <2> SUFFICES ASSUME DInv PROVE TablesAgree
    OBVIOUS
  <2>1. BusyIsCurrent /\ CurrentHasNoBranch
    BY DEF DInv, QueuesInv
  <2>2. ClientsCountBranches
    BY DEF DInv, TablesInv, Counted, ClientsCountBranches, Table, OfKind
  <2> QED BY <2>1, <2>2, OneCall, Limit DEF TablesAgree
<1> QED BY <1>1, Inductive, PTL

\* HeldNotCalled: daemon_call() forks for no system whose status file holds it, though it
\* looks only at the entry a queue has chosen earlier, and the status file changes with
\* every call that ends (daemon_process_rc).
THEOREM HeldWait == Spec => HeldNotCalled
<1>1. ASSUME DInv, [Next]_vars, NEW a \in Addr, Calling(a)
      PROVE  sts[a].hold # "future"
  <2>1. pc = "call" /\ pc' = "forked" /\ queue[cur[turn]].addr = a
    BY <1>1 DEF Calling
  <2>2. TypeOK /\ QueuesInv /\ HoldsAgree /\ turn \in Queues
    BY <1>1 DEF DInv, Typed, TypeOK
  <2>3. cur[turn] # 0
    <3>1. ~Passing
      BY <2>1, PassingIs
    <3>2. ~(Timers \/ World)
      BY <2>1, <2>2, AroundIs
    <3>3. ~(Sigchld \/ Children \/ Restart \/ Rescan \/ Sweep \/ Removed \/ Copied \/ Added)
      BY <2>1 DEF Sigchld, Children, Exit, Restart, Rescan, Sweep, Removed, Copied, Added
    <3>4. ~\E closed \in Closed : Select(closed)
      BY <2>1 DEF Select
    <3>5. ~\E i \in DOMAIN branch : Reap(i)
      BY <2>1 DEF Reap
    <3>6. PICK p \in Pids, port \in Ports \cup {NoPort} : Fork(p, port)
      <4>1. Next
        BY <1>1, <2>1 DEF vars
      <4> QED BY <3>1, <3>2, <3>3, <3>4, <3>5, <4>1 DEF Next, Main, Passing
    <3> QED BY <3>6 DEF Fork, Due
  <2>4. cur[turn] \in DOMAIN queue
    BY <2>2, <2>3, CurrentIs
  <2> QED BY <2>1, <2>2, <2>3, <2>4 DEF HoldsAgree
<1>2. DInv /\ [Next]_vars => [\A a \in Addr : Calling(a) => sts[a].hold # "future"]_vars
  BY <1>1
<1> QED BY <1>2, Inductive, PTL DEF Spec, HeldNotCalled
=============================================================================

---------------------------- MODULE BsyLockProofs ----------------------------
(***************************************************************************)
(* Proofs about BsyLock, for every set of processes, number of outbounds   *)
(* and number of connection methods.                                       *)
(***************************************************************************)
EXTENDS BsyLock, TLAPS

(***************************************************************************)
(* Typing.  Steps of u_plock.c change a process's position through the     *)
(* operators LinkDone, LinkResult and Checked; each is typed once.         *)
(***************************************************************************)
PosType ==
  /\ loc \in [Procs -> Locs]
  /\ st \in [Procs -> Steps]
  /\ todo \in [Procs -> SUBSET Out]
  /\ res \in [Procs -> Results]
  /\ locked \in [Procs -> SUBSET Out]

LEMMA LinkDoneType ==
  ASSUME PosType, NEW p \in Procs, NEW i \in Out, NEW r \in Results, LinkDone(p, i, r)
  PROVE  /\ loc' \in [Procs -> Locs]
         /\ st' \in [Procs -> Steps]
         /\ todo' \in [Procs -> SUBSET Out]
         /\ locked' \in [Procs -> SUBSET Out]
<1>1. CASE r = "exist"
  BY <1>1 DEF PosType, LinkDone, Enter, Locs, Removals, Steps
<1>2. CASE r # "exist"
  BY <1>2 DEF PosType, LinkDone, Advance, Steps
<1> QED BY <1>1, <1>2

LEMMA LinkResultType ==
  ASSUME PosType, NEW p \in Procs, NEW i \in Out, NEW r \in Results, LinkResult(p, i, r)
  PROVE  PosType'
<1>1. CASE loc[p] = "conv"
  BY <1>1 DEF PosType, LinkResult, Goto, Steps
<1>2. CASE loc[p] # "conv"
  BY <1>2, LinkDoneType DEF PosType, LinkResult
<1> QED BY <1>1, <1>2

LEMMA CheckedType ==
  ASSUME PosType, NEW p \in Procs, NEW i \in Out,
         NEW r \in {"ok", "our", "exist", "error"},
         loc[p] \in Checks \cup Links, Checked(p, i, r)
  PROVE  PosType'
<1>1. CASE Enter(p, "undo", locked[p]) /\ UNCHANGED <<res, locked>>
  BY <1>1 DEF PosType, Enter, Locs, Removals, Steps
<1>2. CASE Advance(p, i) /\ UNCHANGED <<res, locked>>
  BY <1>2 DEF PosType, Advance, Steps
<1>3. CASE Goto(p, "relink") /\ UNCHANGED <<res, locked>>
  BY <1>3 DEF PosType, Goto, Steps
<1>4. CASE r # "ok" /\ LinkResult(p, i, IF r = "our" THEN "ok" ELSE r)
  BY <1>4, LinkResultType DEF Results
<1> QED BY <1>1, <1>2, <1>3, <1>4 DEF Checked

LEMMA TargetType ==
  ASSUME NEW p \in Procs, NEW i \in Out
  PROVE  Target(p, i) \in Files
  BY DEF Target, Files, Ext

LEMMA InitType == Init => TypeOK
<1> SUFFICES ASSUME Init PROVE TypeOK
  OBVIOUS
<1>1. 0 \in 0..Methods
  BY MethAssumption
<1> QED BY <1>1 DEF Init, TypeOK, Locs, Rests, Steps, Results, Entry

LEMMA TypePos == TypeOK => PosType
  BY DEF TypeOK, PosType

\* The steps of u_plock.c keep the types.
LEMMA PlockType ==
  ASSUME TypeOK, NEW p \in Procs, Plock(p)
  PROVE  TypeOK'
<1>1. PICK i \in Out : \/ Read(p, i) \/ Kill(p, i) \/ UnlinkStale(p, i) \/ Link(p, i)
                       \/ RemoveTmp(p, i) \/ RemoveRead(p, i) \/ RemoveUnlink(p, i)
  BY DEF Plock
<1>2. PosType /\ Target(p, i) \in Files /\ <<"csy", i>> \in Files
  BY TypePos, TargetType DEF Files, Ext
<1>3. CASE Read(p, i)
  <2>1. loc[p] \in Checks \cup Links
    BY <1>3 DEF Read
  <2>2. CASE file[Target(p, i)] \in {NoPid, p}
    <3>1. /\ Checked(p, i, IF file[Target(p, i)] = p THEN "our" ELSE "ok")
          /\ UNCHANGED <<file, alive, seen, want, list, tries, bye, foul>>
      BY <1>3, <2>2 DEF Read
    <3>2. PosType'
      BY <1>2, <2>1, <3>1, CheckedType
    <3> QED BY <3>1, <3>2 DEF TypeOK, PosType
  <2>3. CASE file[Target(p, i)] \notin {NoPid, p}
    <3>1. /\ Goto(p, "kill") /\ seen' = [seen EXCEPT ![p] = file[Target(p, i)]]
          /\ UNCHANGED <<file, alive, res, locked, want, list, tries, bye, foul>>
      BY <1>3, <2>3 DEF Read
    <3> QED BY <1>2, <3>1 DEF TypeOK, Goto, Steps
  <2> QED BY <2>2, <2>3
<1>4. CASE Kill(p, i)
  <2>1. UNCHANGED <<file, alive, want, list, tries, bye, foul>> /\ seen' = [seen EXCEPT ![p] = NoPid]
    BY <1>4 DEF Kill
  <2>2. PosType'
    <3>1. CASE seen[p] \in alive
      BY <1>2, <1>4, <3>1, CheckedType DEF Kill, Checked
    <3>2. CASE seen[p] \notin alive
      BY <1>2, <1>4, <3>2 DEF Kill, Goto, Steps, PosType
    <3> QED BY <3>1, <3>2
  <2> QED BY <2>1, <2>2 DEF TypeOK, PosType
<1>5. CASE UnlinkStale(p, i)
  <2>1. PosType'
    BY <1>2, <1>5, CheckedType DEF UnlinkStale, Checked
  <2>2. /\ file' = [file EXCEPT ![Target(p, i)] = NoPid]
        /\ foul' = foul \/ foul' = foul \cup {Target(p, i)}
        /\ UNCHANGED <<alive, seen, want, list, tries, bye>>
    BY <1>5 DEF UnlinkStale
  <2> QED BY <1>2, <2>1, <2>2 DEF TypeOK, PosType
<1>6. CASE Link(p, i)
  <2>1. PosType'
    BY <1>2, <1>6, LinkResultType DEF Link, Goto, Steps, PosType, Results
  <2>2. /\ file' = file \/ \E q \in Procs \cup {NoPid} : file' = [file EXCEPT ![Target(p, i)] = q]
        /\ foul' = foul \/ foul' = foul \cup {<<"csy", i>>}
        /\ UNCHANGED <<alive, seen, want, list, tries, bye>>
    BY <1>2, <1>6 DEF Link, TypeOK
  <2> QED BY <1>2, <2>1, <2>2 DEF TypeOK, PosType
<1>7. CASE RemoveTmp(p, i)
  <2>1. PosType'
    BY <1>2, <1>7, LinkDoneType DEF RemoveTmp, PosType, Results
  <2>2. /\ file' = [file EXCEPT ![<<"csy", i>>] = NoPid]
        /\ foul' = foul \/ foul' = foul \cup {<<"csy", i>>}
        /\ UNCHANGED <<alive, seen, want, list, tries, bye>>
    BY <1>7 DEF RemoveTmp
  <2> QED BY <1>2, <2>1, <2>2 DEF TypeOK, PosType
<1>8. CASE RemoveRead(p, i)
  <2>1. UNCHANGED <<file, alive, seen, res, want, locked, list, tries, bye, foul>>
    BY <1>8 DEF RemoveRead
  <2>2. CASE file[Target(p, i)] = p
    BY <1>8, <2>1, <2>2 DEF RemoveRead, TypeOK, Goto, Steps
  <2>3. CASE file[Target(p, i)] # p
    <3>1. Advance(p, i)
      BY <1>8, <2>3 DEF RemoveRead
    <3> QED BY <2>1, <3>1 DEF TypeOK, Advance, Steps
  <2> QED BY <2>2, <2>3
<1>9. CASE RemoveUnlink(p, i)
  <2>1. /\ file' = [file EXCEPT ![Target(p, i)] = NoPid]
        /\ foul' = foul \/ foul' = foul \cup {Target(p, i)}
        /\ Advance(p, i)
        /\ UNCHANGED <<alive, seen, res, want, locked, list, tries, bye>>
    BY <1>9 DEF RemoveUnlink
  <2> QED BY <1>2, <2>1 DEF TypeOK, Advance, Steps
<1> QED BY <1>1, <1>3, <1>4, <1>5, <1>6, <1>7, <1>8, <1>9

\* The steps between the loops of outb_bsy.c keep the types.
LEMMA LoopType ==
  ASSUME TypeOK, NEW p \in Procs, Loop(p)
  PROVE  TypeOK'
<1>1. CASE CheckNext(p)
  BY <1>1 DEF CheckNext, Enter, TypeOK, Locs, Checks, Steps
<1>2. CASE CheckEnd(p)
  <2>1. \E l \in Locs, S \in SUBSET Out : Enter(p, l, S)
    BY <1>2 DEF CheckEnd, Locs, Links, Rests
  <2> QED BY <1>2, <2>1 DEF CheckEnd, Enter, TypeOK, Steps
<1>3. CASE CreateEnd(p)
  BY <1>3 DEF CreateEnd, Enter, TypeOK, Locs, Checks, Steps
<1>4. CASE LockSuccess(p)
  <2>1. [csy |-> want[p], names |-> locked[p]] \in Entry
    BY DEF TypeOK, Entry
  <2>2. Append(list[p], [csy |-> want[p], names |-> locked[p]]) \in Seq(Entry)
    BY <2>1 DEF TypeOK
  <2> QED BY <1>4, <2>2 DEF LockSuccess, Enter, TypeOK, Locs, Rests, Steps
<1>5. CASE LockFail(p)
  BY <1>5 DEF LockFail, Enter, TypeOK, Locs, Rests, Steps
<1>6. CASE ConvertSuccess(p)
  <2> DEFINE l == [k \in DOMAIN list[p] |-> [csy |-> FALSE, names |-> list[p][k].names]]
  <2>1. l \in Seq(Entry)
    <3>1. list[p] \in Seq(Entry)
      BY DEF TypeOK
    <3>2. ASSUME NEW k \in 1..Len(list[p])
          PROVE  [csy |-> FALSE, names |-> list[p][k].names] \in Entry
      <4>1. list[p][k] \in Entry
        BY <3>1
      <4> QED BY <4>1 DEF Entry
    <3>3. l = [k \in 1..Len(list[p]) |-> [csy |-> FALSE, names |-> list[p][k].names]]
      BY <3>1
    <3>4. Len(list[p]) \in Nat
      BY <3>1
    <3> HIDE DEF l
    <3> QED BY <3>2, <3>3, <3>4
  <2>2. list' = [list EXCEPT ![p] = l]
    BY <1>6 DEF ConvertSuccess
  <2> HIDE DEF l
  <2>3. list' \in [Procs -> Seq(Entry)]
    BY <2>1, <2>2 DEF TypeOK
  <2>4. /\ loc' = [loc EXCEPT ![p] = "session"] /\ todo' = [todo EXCEPT ![p] = {}]
        /\ st' = [st EXCEPT ![p] = "start"]
        /\ UNCHANGED <<file, alive, seen, res, want, locked, tries, bye, foul>>
    BY <1>6 DEF ConvertSuccess, Enter
  <2> QED BY <2>3, <2>4 DEF TypeOK, Locs, Rests, Steps
<1>7. CASE UnlockNext(p)
  <2>1. list[p] \in Seq(Entry)
    BY DEF TypeOK
  <2>2. list' \in [Procs -> Seq(Entry)]
    BY <1>7, <2>1 DEF UnlockNext, TypeOK
  <2>3. list'[p] # << >> => Head(list'[p]).names \subseteq Out
    <3> SUFFICES ASSUME list'[p] # << >> PROVE Head(list'[p]).names \subseteq Out
      OBVIOUS
    <3>1. Head(list'[p]) \in Entry
      BY <2>2
    <3> QED BY <3>1 DEF Entry
  <2>4. alive' \in SUBSET Procs
    BY <1>7 DEF UnlockNext, TypeOK
  <2>5. \E l \in Locs, S \in SUBSET Out : Enter(p, l, S)
    BY <1>7, <2>3 DEF UnlockNext, Locs, Removals, Rests
  <2>6. UNCHANGED <<file, seen, res, want, locked, tries, bye, foul>>
    BY <1>7 DEF UnlockNext
  <2> QED BY <2>2, <2>4, <2>5, <2>6 DEF Enter, TypeOK, Steps
<1> QED BY <1>1, <1>2, <1>3, <1>4, <1>5, <1>6, <1>7 DEF Loop

\* The callers of outb_bsy.c keep the types.
LEMMA UseType ==
  ASSUME TypeOK, NEW p \in Procs, Use(p) \/ Crash(p)
  PROVE  TypeOK'
<1>1. ASSUME NEW csy \in BOOLEAN, StartLock(p, csy)
      PROVE  /\ want' \in [Procs -> BOOLEAN]
             /\ locked' \in [Procs -> SUBSET Out]
             /\ \E l \in Locs, S \in SUBSET Out : Enter(p, l, S)
             /\ UNCHANGED <<file, alive, seen, res, list, bye, foul>>
  <2> DEFINE S == UNION {list[p][k].names : k \in {m \in DOMAIN list[p] : list[p][m].csy}}
  <2>1. S \subseteq Out
    <3>1. ASSUME NEW k \in DOMAIN list[p] PROVE list[p][k].names \subseteq Out
      <4>1. list[p] \in Seq(Entry)
        BY DEF TypeOK
      <4>2. list[p][k] \in Entry
        BY <4>1
      <4> QED BY <4>2 DEF Entry
    <3> QED BY <3>1
  <2>2. Enter(p, "conv", S) \/ Enter(p, "chkbsy", Out)
    BY <1>1 DEF StartLock
  <2> HIDE DEF S
  <2>3. \E l \in Locs, T \in SUBSET Out : Enter(p, l, T)
    BY <2>1, <2>2 DEF Locs, Links, Checks
  <2> QED BY <1>1, <2>3 DEF StartLock, TypeOK
<1>2. CASE CallSystem(p)
  <2>1. UNCHANGED tries /\ StartLock(p, TRUE)
    BY <1>2 DEF CallSystem
  <2>2. /\ want' \in [Procs -> BOOLEAN]
        /\ locked' \in [Procs -> SUBSET Out]
        /\ UNCHANGED <<file, alive, seen, res, list, bye, foul>>
    BY <1>1, <2>1
  <2>3. PICK l \in Locs, S \in SUBSET Out : Enter(p, l, S)
    BY <1>1, <2>1
  <2> QED BY <2>1, <2>2, <2>3 DEF Enter, TypeOK, Steps
<1>3. CASE Handshake(p)
  <2>1. tries' \in [Procs -> 0..Methods]
    BY <1>3, MethAssumption DEF Handshake, TypeOK
  <2>2. StartLock(p, FALSE)
    BY <1>3 DEF Handshake
  <2>3. /\ want' \in [Procs -> BOOLEAN]
        /\ locked' \in [Procs -> SUBSET Out]
        /\ UNCHANGED <<file, alive, seen, res, list, bye, foul>>
    BY <1>1, <2>2
  <2>4. PICK l \in Locs, S \in SUBSET Out : Enter(p, l, S)
    BY <1>1, <2>2
  <2> QED BY <2>1, <2>3, <2>4 DEF Enter, TypeOK, Steps
<1>4. CASE DaemonCheck(p)
  BY <1>4 DEF DaemonCheck, Enter, TypeOK, Locs, Checks, Steps
<1>5. ASSUME NEW last \in BOOLEAN, UnlockAll(p, last)
      PROVE  TypeOK'
  <2>1. list[p] \in Seq(Entry)
    BY DEF TypeOK
  <2>2. list[p] # << >> => Head(list[p]).names \subseteq Out
    <3> SUFFICES ASSUME list[p] # << >> PROVE Head(list[p]).names \subseteq Out
      OBVIOUS
    <3>1. Head(list[p]) \in Entry
      BY <2>1
    <3> QED BY <3>1 DEF Entry
  <2>3. \E S \in SUBSET Out : Enter(p, "unlock", S)
    BY <1>5, <2>2 DEF UnlockAll
  <2> QED BY <1>5, <2>3 DEF UnlockAll, Enter, TypeOK, Steps, Locs, Removals
<1>6. CASE Crash(p)
  <2>1. << >> \in Seq(Entry)
    OBVIOUS
  <2> QED BY <1>6, <2>1 DEF Crash, Enter, TypeOK, Steps, Locs, Results
<1> QED BY <1>2, <1>3, <1>4, <1>5, <1>6 DEF Use

\* Every variable keeps its type.
THEOREM TypeCorrect == Spec => []TypeOK
<1>1. TypeOK /\ [Next]_vars => TypeOK'
  <2> SUFFICES ASSUME TypeOK, [Next]_vars PROVE TypeOK'
    OBVIOUS
  <2>1. CASE UNCHANGED vars
    BY <2>1 DEF vars, TypeOK
  <2>2. ASSUME NEW p \in Procs, Plock(p) \/ Loop(p) \/ Use(p) \/ Crash(p)
        PROVE  TypeOK'
    BY <2>2, PlockType, LoopType, UseType
  <2> QED BY <2>1, <2>2 DEF Next
<1> QED BY <1>1, InitType, PTL DEF Spec

(***************************************************************************)
(* Mutual exclusion.  What a process relies on is extended to the lock its *)
(* conversion has linked but not yet recorded: between link() and the      *)
(* unlink() of the .csy file nothing but res says that the .bsy is its own.*)
(***************************************************************************)
Pending(p, i) == Turn(p, i) /\ loc[p] = "conv" /\ st[p] = "rmtmp" /\ res[p] = "ok"
Relies(p, i)  == i \in BsyClaim(p) \/ Pending(p, i)
Own(p)        == \A i \in Out : Relies(p, i) => file[<<"bsy", i>>] = p \/ Tampered(i)
Position(p) ==
  /\ p \in alive <=> loc[p] \notin {"exited", "crashed"}
  /\ loc[p] \in {"new", "chkbsy", "chkcsy"} => locked[p] = {}
  /\ st[p] = "rmtmp" => loc[p] = "conv"
  /\ st[p] = "rm" => loc[p] \in Removals

IInv == TypeOK /\ \A p \in Procs : Position(p) /\ Own(p)

\* A step of p changes the program position of no other process.
OthersStill(p) == \A q \in Procs \ {p} :
  /\ loc'[q] = loc[q] /\ st'[q] = st[q] /\ todo'[q] = todo[q]
  /\ res'[q] = res[q] /\ want'[q] = want[q] /\ locked'[q] = locked[q]
  /\ q \in alive' <=> q \in alive

\* A step that takes a .bsy lock from a live process leaves its mark in foul.
Marked(p) ==
  /\ foul \subseteq foul'
  /\ \A q \in alive \ {p}, i \in Out : file[<<"bsy", i>>] = q
       => file'[<<"bsy", i>>] = q \/ Tampered(i)'

LEMMA Frame ==
  ASSUME IInv, NEW p \in Procs, OthersStill(p), NEW q \in Procs \ {p},
         Marked(p)
  PROVE  Position(q)' /\ Own(q)'
<1>1. Position(q)'
  BY DEF IInv, Position, OthersStill
<1>2. ASSUME NEW i \in Out, Relies(q, i)'
      PROVE  file'[<<"bsy", i>>] = q \/ Tampered(i)'
  <2>1. Relies(q, i) /\ q \in alive
    BY <1>2 DEF OthersStill, Relies, BsyClaim, Pending, Turn
  <2>2. file[<<"bsy", i>>] = q \/ Tampered(i)
    BY <2>1 DEF IInv, Own
  <2>3. Tampered(i) => Tampered(i)'
    BY DEF Tampered, Marked
  <2> QED BY <2>1, <2>2, <2>3 DEF Marked
<1> QED BY <1>1, <1>2 DEF Own

\* The smallest outbound of a loop is one.
LEMMA TurnUnique ==
  ASSUME NEW p, NEW i \in Out, NEW j \in Out, Turn(p, i), Turn(p, j)
  PROVE  i = j
  BY OutAssumption DEF Turn, Out

\* p still has what it relied on before the step.
Keeps(p) == \A j \in Out : Relies(p, j) => file'[<<"bsy", j>>] = p \/ Tampered(j)'

LEMMA LinkDoneOwn ==
  ASSUME IInv, NEW p \in Procs, NEW i \in Out, NEW r \in Results, loc[p] \in Links,
         LinkDone(p, i, r), Keeps(p), UNCHANGED <<want, alive>>, p \in alive,
         r = "ok" /\ (loc[p] = "conv" \/ ~want[p])
           => file'[<<"bsy", i>>] = p \/ Tampered(i)'
  PROVE  Position(p)' /\ Own(p)'
<1> USE DEF Links
<1>0. PosType
  BY TypePos DEF IInv
<1>1. CASE r = "exist"
  <2>1. loc'[p] \in {"undo", "convundo"} /\ st'[p] = "start"
    BY <1>0, <1>1 DEF LinkDone, Enter, PosType
  <2> QED BY <2>1 DEF Position, Own, Relies, BsyClaim, Pending
<1>2. CASE r # "exist"
  <2>1. /\ loc' = loc /\ st'[p] = "start"
        /\ locked'[p] = IF r = "ok" THEN locked[p] \cup {i} ELSE locked[p]
    BY <1>0, <1>2 DEF LinkDone, Advance, PosType
  <2>2. Position(p)'
    BY <2>1 DEF Position
  <2>3. ASSUME NEW j \in Out, Relies(p, j)'
        PROVE  file'[<<"bsy", j>>] = p \/ Tampered(j)'
    <3>1. j \in BsyClaim(p) \/ (j = i /\ r = "ok" /\ (loc[p] = "conv" \/ ~want[p]))
      BY <2>1, <2>3 DEF Relies, BsyClaim, Pending
    <3> QED BY <3>1 DEF Keeps, Relies
  <2> QED BY <2>2, <2>3 DEF Own
<1> QED BY <1>1, <1>2

LEMMA LinkResultOwn ==
  ASSUME IInv, NEW p \in Procs, NEW i \in Out, NEW r \in Results, loc[p] \in Links,
         LinkResult(p, i, r), Keeps(p), UNCHANGED <<want, alive>>, Turn(p, i),
         r = "ok" /\ (loc[p] = "conv" \/ ~want[p])
           => file'[<<"bsy", i>>] = p \/ Tampered(i)'
  PROVE  Position(p)' /\ Own(p)'
<1>0. PosType /\ p \in alive
  BY TypePos DEF IInv, Turn
<1>1. CASE loc[p] = "conv"
  <2>1. /\ loc' = loc /\ todo' = todo /\ locked' = locked
        /\ st'[p] = "rmtmp" /\ res'[p] = r
    BY <1>0, <1>1 DEF LinkResult, Goto, PosType
  <2>2. Position(p)'
    BY <1>0, <1>1, <2>1 DEF Position
  <2>3. ASSUME NEW j \in Out, Relies(p, j)'
        PROVE  file'[<<"bsy", j>>] = p \/ Tampered(j)'
    <3>1. CASE j \in BsyClaim(p)'
      <4>1. j \in BsyClaim(p)
        BY <2>1, <3>1 DEF BsyClaim
      <4> QED BY <4>1 DEF Keeps, Relies
    <3>2. CASE Pending(p, j)'
      <4>1. Turn(p, j) /\ r = "ok"
        BY <2>1, <3>2 DEF Pending, Turn
      <4>2. j = i
        BY <4>1, TurnUnique
      <4> QED BY <1>1, <4>1, <4>2
    <3> QED BY <2>3, <3>1, <3>2 DEF Relies
  <2> QED BY <2>2, <2>3 DEF Own
<1>2. CASE loc[p] # "conv"
  BY <1>0, <1>2, LinkDoneOwn DEF LinkResult
<1> QED BY <1>1, <1>2

LEMMA CheckedOwn ==
  ASSUME IInv, NEW p \in Procs, NEW i \in Out, NEW r \in {"ok", "our", "exist", "error"},
         Checked(p, i, r), Keeps(p), UNCHANGED <<want, alive>>, Turn(p, i),
         r = "our" => file'[Target(p, i)] = p
  PROVE  Position(p)' /\ Own(p)'
<1>0. PosType /\ p \in alive
  BY TypePos DEF IInv, Turn
<1>1. CASE Enter(p, "undo", locked[p])
  <2>1. loc'[p] = "undo" /\ st'[p] = "start"
    BY <1>0, <1>1 DEF Enter, PosType
  <2> QED BY <1>0, <2>1 DEF Position, Own, Relies, BsyClaim, Pending
<1>2. CASE (Advance(p, i) \/ Goto(p, "relink")) /\ UNCHANGED <<res, locked>>
  <2>1. loc' = loc /\ locked' = locked /\ st'[p] \in {"start", "relink"}
    BY <1>0, <1>2 DEF Advance, Goto, PosType
  <2>2. Position(p)'
    BY <1>0, <2>1 DEF Position, IInv
  <2>3. ASSUME NEW j \in Out, Relies(p, j)' PROVE Relies(p, j)
    BY <2>1, <2>3 DEF Relies, BsyClaim, Pending
  <2> QED BY <2>2, <2>3 DEF Own, Keeps
<1>3. CASE loc[p] \in Links /\ r # "ok" /\ LinkResult(p, i, IF r = "our" THEN "ok" ELSE r)
  <2>1. r = "our" /\ (loc[p] = "conv" \/ ~want[p]) => file'[<<"bsy", i>>] = p
    BY <1>3 DEF Target, Links
  <2>2. (IF r = "our" THEN "ok" ELSE r) \in Results
    BY <1>3 DEF Results
  <2> QED BY <1>3, <2>1, <2>2, LinkResultOwn
<1> QED BY <1>1, <1>2, <1>3 DEF Checked

LEMMA PositionStill ==
  ASSUME TypeOK, NEW p \in Procs,
         \/ \E l, S : Enter(p, l, S)
         \/ \E i \in Out : Advance(p, i)
         \/ \E s \in Steps : Goto(p, s)
  PROVE  \A q \in Procs \ {p} : loc'[q] = loc[q] /\ st'[q] = st[q] /\ todo'[q] = todo[q]
  BY DEF TypeOK, Enter, Advance, Goto

LEMMA LinkResultStill ==
  ASSUME TypeOK, NEW p \in Procs, NEW i \in Out, NEW r \in Results,
         LinkResult(p, i, r) \/ (LinkDone(p, i, r) /\ res' = [res EXCEPT ![p] = "none"])
  PROVE  \A q \in Procs \ {p} :
           /\ loc'[q] = loc[q] /\ st'[q] = st[q] /\ todo'[q] = todo[q]
           /\ res'[q] = res[q] /\ locked'[q] = locked[q]
<1>1. CASE Goto(p, "rmtmp") /\ res' = [res EXCEPT ![p] = r] /\ UNCHANGED locked
  BY <1>1, PositionStill DEF TypeOK, Steps
<1>2. CASE /\ LinkDone(p, i, r)
           /\ res' = res \/ res' = [res EXCEPT ![p] = "none"]
  <2>1. CASE r = "exist"
    <3>1. Enter(p, "convundo", locked[p]) \/ Enter(p, "undo", locked[p])
      BY <1>2, <2>1 DEF LinkDone
    <3>2. locked[p] \in SUBSET Out /\ "convundo" \in Locs /\ "undo" \in Locs
      BY DEF TypeOK, Locs, Removals
    <3>3. locked' = locked
      BY <1>2, <2>1 DEF LinkDone
    <3> QED BY <1>2, <3>1, <3>2, <3>3, PositionStill DEF TypeOK
  <2>2. CASE r # "exist"
    BY <1>2, <2>2, PositionStill DEF LinkDone, TypeOK
  <2> QED BY <2>1, <2>2
<1> QED BY <1>1, <1>2 DEF LinkResult

LEMMA CheckedStill ==
  ASSUME TypeOK, NEW p \in Procs, NEW i \in Out,
         NEW r \in {"ok", "our", "exist", "error"}, Checked(p, i, r)
  PROVE  \A q \in Procs \ {p} :
           /\ loc'[q] = loc[q] /\ st'[q] = st[q] /\ todo'[q] = todo[q]
           /\ res'[q] = res[q] /\ locked'[q] = locked[q]
<1>1. CASE Enter(p, "undo", locked[p]) /\ UNCHANGED <<res, locked>>
  <2>1. locked[p] \in SUBSET Out /\ "undo" \in Locs
    BY DEF TypeOK, Locs, Removals
  <2> QED BY <1>1, <2>1, PositionStill
<1>2. CASE (Advance(p, i) \/ Goto(p, "relink")) /\ UNCHANGED <<res, locked>>
  BY <1>2, PositionStill DEF Steps
<1>3. CASE r # "ok" /\ LinkResult(p, i, IF r = "our" THEN "ok" ELSE r)
  <2>1. (IF r = "our" THEN "ok" ELSE r) \in Results
    BY <1>3 DEF Results
  <2> QED BY <1>3, <2>1, LinkResultStill
<1> QED BY <1>1, <1>2, <1>3 DEF Checked

\* The steps of u_plock.c preserve the invariant.
LEMMA PlockInv ==
  ASSUME IInv, NEW p \in Procs, Plock(p)
  PROVE  OthersStill(p) /\ \A q \in Procs : Position(q)' /\ Own(q)'
<1> DEFINE Safe == OthersStill(p) /\ Marked(p) /\ Position(p)' /\ Own(p)'
<1> SUFFICES Safe
  BY Frame
<1>0. TypeOK /\ Position(p) /\ Own(p) /\ PosType
  BY TypePos DEF IInv
<1>1. PICK i \in Out : \/ Read(p, i) \/ Kill(p, i) \/ UnlinkStale(p, i) \/ Link(p, i)
                       \/ RemoveTmp(p, i) \/ RemoveRead(p, i) \/ RemoveUnlink(p, i)
  BY DEF Plock
<1>2. Turn(p, i)
  BY <1>1 DEF Read, Kill, UnlinkStale, Link, RemoveTmp, RemoveRead, RemoveUnlink
<1>3. UNCHANGED <<want, alive>> /\ p \in alive
  BY <1>1, <1>2 DEF Read, Kill, UnlinkStale, Link, RemoveTmp, RemoveRead, RemoveUnlink, Turn
<1>4. UNCHANGED <<file, foul>> => Marked(p) /\ Keeps(p)
  BY <1>0 DEF Marked, Keeps, Own, Tampered
<1>5. CASE Read(p, i)
  <2>1. UNCHANGED <<file, foul>>
    BY <1>5 DEF Read
  <2>2. CASE file[Target(p, i)] \in {NoPid, p}
    <3> DEFINE r == IF file[Target(p, i)] = p THEN "our" ELSE "ok"
    <3>1. Checked(p, i, r)
      BY <1>5, <2>2 DEF Read
    <3>2. r \in {"ok", "our", "exist", "error"} /\ (r = "our" => file'[Target(p, i)] = p)
      BY <2>1
    <3> HIDE DEF r
    <3>3. Position(p)' /\ Own(p)'
      BY <1>2, <1>3, <1>4, <2>1, <3>1, <3>2, CheckedOwn
    <3>4. OthersStill(p)
      BY <1>0, <1>3, <3>1, <3>2, CheckedStill DEF OthersStill
    <3> QED BY <1>4, <2>1, <3>3, <3>4
  <2>3. CASE file[Target(p, i)] \notin {NoPid, p}
    <3>1. Goto(p, "kill") /\ UNCHANGED <<res, locked>>
      BY <1>5, <2>3 DEF Read
    <3>2. OthersStill(p)
      BY <1>0, <1>3, <3>1, PositionStill DEF OthersStill, Steps
    <3>3. Position(p)' /\ loc' = loc /\ locked' = locked /\ st'[p] = "kill"
      BY <1>0, <1>3, <3>1 DEF Goto, Position, PosType
    <3>4. \A j \in Out : Relies(p, j)' => Relies(p, j)
      BY <1>3, <3>3 DEF Relies, BsyClaim, Pending
    <3> QED BY <1>4, <2>1, <3>2, <3>3, <3>4 DEF Own, Keeps
  <2> QED BY <2>2, <2>3
<1>6. CASE Kill(p, i)
  <2>1. UNCHANGED <<file, foul>>
    BY <1>6 DEF Kill
  <2>2. CASE seen[p] \in alive
    <3>1. Checked(p, i, "exist")
      BY <1>6, <2>2 DEF Kill
    <3>2. Position(p)' /\ Own(p)'
      BY <1>2, <1>3, <1>4, <2>1, <3>1, CheckedOwn
    <3>3. OthersStill(p)
      BY <1>0, <1>3, <3>1, CheckedStill DEF OthersStill
    <3> QED BY <1>4, <2>1, <3>2, <3>3
  <2>3. CASE seen[p] \notin alive
    <3>1. Goto(p, "stale") /\ UNCHANGED <<res, locked>>
      BY <1>6, <2>3 DEF Kill
    <3>2. OthersStill(p)
      BY <1>0, <1>3, <3>1, PositionStill DEF OthersStill, Steps
    <3>3. Position(p)' /\ loc' = loc /\ locked' = locked /\ st'[p] = "stale"
      BY <1>0, <1>3, <3>1 DEF Goto, Position, PosType
    <3>4. \A j \in Out : Relies(p, j)' => Relies(p, j)
      BY <1>3, <3>3 DEF Relies, BsyClaim, Pending
    <3> QED BY <1>4, <2>1, <3>2, <3>3, <3>4 DEF Own, Keeps
  <2> QED BY <2>2, <2>3
<1>7. CASE UnlinkStale(p, i)
  <2> DEFINE f == Target(p, i)
             r == IF file[f] = NoPid THEN "error" ELSE "ok"
  <2>1. /\ file' = [file EXCEPT ![f] = NoPid]
        /\ foul \subseteq foul'
        /\ file[f] \in alive => f \in foul'
        /\ Checked(p, i, r)
    BY <1>7 DEF UnlinkStale
  <2>2. f \in Files /\ r \in {"ok", "our", "exist", "error"} /\ r # "our"
    BY TargetType
  <2> HIDE DEF f, r
  <2>3. ASSUME NEW q \in alive, NEW j \in Out, file[<<"bsy", j>>] = q
        PROVE  file'[<<"bsy", j>>] = q \/ Tampered(j)'
    <3>1. <<"bsy", j>> \in Files
      BY DEF Files, Ext
    <3>2. CASE f = <<"bsy", j>>
      BY <2>1, <2>3, <3>2 DEF Tampered
    <3>3. CASE f # <<"bsy", j>>
      BY <1>0, <2>1, <2>3, <3>1, <3>3 DEF TypeOK
    <3> QED BY <3>2, <3>3
  <2>4. Keeps(p)
    BY <1>0, <1>3, <2>1, <2>3 DEF Keeps, Own, Tampered
  <2>5. Position(p)' /\ Own(p)'
    BY <1>2, <1>3, <2>1, <2>2, <2>4, CheckedOwn
  <2>6. OthersStill(p)
    BY <1>0, <1>3, <2>1, <2>2, CheckedStill DEF OthersStill
  <2> QED BY <2>1, <2>3, <2>5, <2>6 DEF Marked
<1>8. CASE Link(p, i)
  <2> DEFINE f == Target(p, i)
  <2>0. f \in Files /\ loc[p] \in Links
    BY <1>8, TargetType DEF Link
  <2>1. CASE UNCHANGED <<file, foul>> /\ LinkResult(p, i, "error")
    <3>1. Position(p)' /\ Own(p)'
      BY <1>2, <1>3, <1>4, <2>0, <2>1, LinkResultOwn DEF Results
    <3>2. OthersStill(p)
      BY <1>0, <1>3, <2>1, LinkResultStill DEF OthersStill, Results
    <3> QED BY <1>4, <2>1, <3>1, <3>2
  <2>2. CASE UNCHANGED <<file, foul>> /\ Goto(p, "exist") /\ UNCHANGED <<res, locked>>
    <3>1. OthersStill(p)
      BY <1>0, <1>3, <2>2, PositionStill DEF OthersStill, Steps
    <3>2. Position(p)' /\ loc' = loc /\ locked' = locked /\ st'[p] = "exist"
      BY <1>0, <1>3, <2>2 DEF Goto, Position, PosType
    <3>3. \A j \in Out : Relies(p, j)' => Relies(p, j)
      BY <1>3, <3>2 DEF Relies, BsyClaim, Pending
    <3> QED BY <1>4, <2>2, <3>1, <3>2, <3>3 DEF Own, Keeps
  <2>3. ASSUME NEW tmp \in Procs \cup {NoPid}, tmp = p \/ loc[p] = "conv",
               file[f] = NoPid, file' = [file EXCEPT ![f] = tmp],
               foul' = IF tmp # p THEN foul \cup {<<"csy", i>>} ELSE foul,
               LinkResult(p, i, "ok")
        PROVE  Safe
    <3> HIDE DEF f
    <3>1. \A q \in alive, j \in Out : file[<<"bsy", j>>] = q => file'[<<"bsy", j>>] = q
      BY <1>0, <2>0, <2>3, PidAssumption DEF TypeOK, Files, Ext
    <3>2. foul \subseteq foul'
      BY <2>3
    <3>3. Keeps(p)
      BY <1>0, <1>3, <3>1, <3>2 DEF Keeps, Own, Tampered
    <3>4. loc[p] = "conv" \/ ~want[p] => file'[<<"bsy", i>>] = p \/ Tampered(i)'
      <4> SUFFICES ASSUME loc[p] = "conv" \/ ~want[p]
                   PROVE  file'[<<"bsy", i>>] = p \/ Tampered(i)'
        OBVIOUS
      <4>1. f = <<"bsy", i>>
        BY <2>0 DEF f, Target, Links
      <4> QED BY <1>0, <2>0, <2>3, <4>1 DEF TypeOK, Tampered
    <3>5. Position(p)' /\ Own(p)'
      BY <1>2, <1>3, <2>0, <2>3, <3>3, <3>4, LinkResultOwn DEF Results
    <3>6. OthersStill(p)
      BY <1>0, <1>3, <2>3, LinkResultStill DEF OthersStill, Results
    <3> QED BY <3>1, <3>2, <3>5, <3>6 DEF Marked
  <2>4. <<"csy", i>> \in Files
    BY DEF Files, Ext
  <2> QED BY <1>0, <1>8, <2>1, <2>2, <2>3, <2>4 DEF Link, TypeOK
<1>9. CASE RemoveTmp(p, i)
  <2>1. /\ file' = [file EXCEPT ![<<"csy", i>>] = NoPid]
        /\ foul \subseteq foul'
        /\ LinkDone(p, i, res[p]) /\ res' = [res EXCEPT ![p] = "none"]
        /\ st[p] = "rmtmp" /\ loc[p] = "conv" /\ res[p] \in Results
    BY <1>0, <1>9 DEF RemoveTmp, Position, PosType
  <2>2. \A j \in Out : file'[<<"bsy", j>>] = file[<<"bsy", j>>]
    BY <1>0, <2>1 DEF TypeOK, Files, Ext
  <2>3. Marked(p) /\ Keeps(p)
    BY <1>0, <2>1, <2>2 DEF Marked, Keeps, Own, Tampered
  <2>4. res[p] = "ok" => file'[<<"bsy", i>>] = p \/ Tampered(i)'
    BY <1>2, <2>1, <2>3 DEF Keeps, Relies, Pending
  <2>5. Position(p)' /\ Own(p)'
    BY <1>3, <2>1, <2>3, <2>4, LinkDoneOwn DEF Links
  <2>6. OthersStill(p)
    BY <1>0, <1>3, <2>1, LinkResultStill DEF OthersStill
  <2> QED BY <2>3, <2>5, <2>6
<1>10. CASE RemoveRead(p, i) \/ RemoveUnlink(p, i)
  <2>1. /\ Goto(p, "rm") \/ Advance(p, i)
        /\ UNCHANGED <<res, locked>>
        /\ loc[p] \in Removals
    BY <1>0, <1>10 DEF RemoveRead, RemoveUnlink, Position
  <2>2. OthersStill(p)
    BY <1>0, <1>3, <2>1, PositionStill DEF OthersStill, Steps
  <2>3. loc'[p] \in Removals /\ st'[p] \in {"rm", "start"}
    BY <1>0, <2>1 DEF Goto, Advance, PosType
  <2>4. Position(p)' /\ Own(p)'
    BY <1>3, <2>3 DEF Position, Own, Relies, BsyClaim, Pending, Removals
  <2>5. Marked(p)
    <3>1. CASE RemoveRead(p, i)
      BY <1>4, <3>1 DEF RemoveRead
    <3>2. CASE RemoveUnlink(p, i)
      <4> DEFINE f == Target(p, i)
      <4>1. /\ file' = [file EXCEPT ![f] = NoPid]
            /\ foul \subseteq foul'
            /\ file[f] \in alive \ {p} => f \in foul'
        BY <3>2 DEF RemoveUnlink
      <4>2. f \in Files
        BY TargetType
      <4> HIDE DEF f
      <4>3. ASSUME NEW q \in alive \ {p}, NEW j \in Out, file[<<"bsy", j>>] = q
            PROVE  file'[<<"bsy", j>>] = q \/ Tampered(j)'
        <5>1. <<"bsy", j>> \in Files
          BY DEF Files, Ext
        <5>2. CASE f = <<"bsy", j>>
          BY <4>1, <4>3, <5>2 DEF Tampered
        <5>3. CASE f # <<"bsy", j>>
          BY <1>0, <4>1, <4>3, <5>1, <5>3 DEF TypeOK
        <5> QED BY <5>2, <5>3
      <4> QED BY <4>1, <4>3 DEF Marked
    <3> QED BY <1>10, <3>1, <3>2
  <2> QED BY <2>2, <2>4, <2>5
<1> HIDE DEF Safe
<1> QED BY <1>1, <1>5, <1>6, <1>7, <1>8, <1>9, <1>10

\* The steps between loops, the callers' steps and a death preserve the invariant.
LEMMA LoopUseInv ==
  ASSUME IInv, NEW p \in Procs, Loop(p) \/ Use(p) \/ Crash(p)
  PROVE  OthersStill(p) /\ \A q \in Procs : Position(q)' /\ Own(q)'
<1> DEFINE Safe == OthersStill(p) /\ Marked(p) /\ Position(p)' /\ Own(p)'
<1> SUFFICES Safe
  BY Frame
<1>0. TypeOK /\ Position(p) /\ Own(p) /\ PosType
  BY TypePos DEF IInv
<1>1. UNCHANGED <<file, foul>> /\ p \in alive
  BY DEF Loop, Use, Crash, LoopOver, CheckNext, CheckEnd, CreateEnd, LockSuccess, LockFail,
         ConvertSuccess, UnlockNext, CallSystem, Handshake, DaemonCheck, UnlockAll, StartLock
<1>2. Marked(p) /\ Keeps(p)
  BY <1>0, <1>1 DEF Marked, Keeps, Own, Tampered
\* A loop that only hands over to the next one.
<1>3. ASSUME NEW l \in Locs, NEW S, Enter(p, l, S),
             UNCHANGED <<res, want, locked, alive>>, l \notin {"exited", "crashed"},
             l \in {"new", "chkbsy", "chkcsy"} => locked[p] = {},
             l \in {"conv", "session"} \/ (l \in {"create", "recheck"} /\ ~want[p])
               => locked[p] \subseteq BsyClaim(p)
      PROVE  Safe
  <2>1. OthersStill(p)
    BY <1>0, <1>3, PositionStill DEF OthersStill
  <2>2. loc'[p] = l /\ st'[p] = "start"
    BY <1>0, <1>3 DEF Enter, PosType
  <2>3. Position(p)'
    BY <1>1, <1>3, <2>2 DEF Position
  <2>4. \A j \in Out : Relies(p, j)' => Relies(p, j)
    BY <1>3, <2>2 DEF Relies, BsyClaim, Pending
  <2> QED BY <1>2, <2>1, <2>3, <2>4 DEF Own, Keeps
\* A step that begins or gives up an attempt: nothing is locked behind it.
<1>4. ASSUME NEW l \in Locs, NEW S, Enter(p, l, S),
             locked' = [locked EXCEPT ![p] = {}],
             want' = want \/ \E b \in BOOLEAN : want' = [want EXCEPT ![p] = b],
             res' = res \/ res' = [res EXCEPT ![p] = "none"],
             \/ alive' = alive /\ l \notin {"exited", "crashed"}
             \/ alive' = alive \ {p} /\ l = "crashed"
      PROVE  Safe
  <2>1. \A q \in Procs \ {p} : /\ want'[q] = want[q] /\ res'[q] = res[q]
                                /\ locked'[q] = locked[q]
    BY <1>0, <1>4 DEF TypeOK
  <2>2. OthersStill(p)
    BY <1>0, <1>4, <2>1, PositionStill DEF OthersStill
  <2>3. loc'[p] = l /\ st'[p] = "start" /\ locked'[p] = {}
    BY <1>0, <1>4 DEF Enter, PosType
  <2>4. Position(p)'
    BY <1>1, <1>4, <2>3 DEF Position
  <2>5. \A j \in Out : ~Relies(p, j)'
    BY <2>3 DEF Relies, BsyClaim, Pending
  <2> QED BY <1>2, <2>2, <2>4, <2>5 DEF Own
<1> HIDE DEF Safe
<1>5. CASE CheckNext(p)
  <2>1. locked[p] = {}
    BY <1>0, <1>5 DEF CheckNext, Position
  <2> QED BY <1>3, <1>5, <2>1 DEF CheckNext, Locs, Checks
<1>6. CASE CheckEnd(p)
  <2>1. locked[p] = {}
    BY <1>0, <1>6 DEF CheckEnd, Position
  <2>2. \E l \in {"new", "create"}, S \in SUBSET Out : Enter(p, l, S)
    BY <1>6 DEF CheckEnd
  <2> QED BY <1>3, <1>6, <2>1, <2>2 DEF CheckEnd, Locs, Rests, Links
<1>7. CASE CreateEnd(p)
  <2>1. ~want[p] => locked[p] \subseteq BsyClaim(p)
    BY <1>1, <1>7 DEF CreateEnd, BsyClaim
  <2> QED BY <1>3, <1>7, <2>1 DEF CreateEnd, Locs, Checks
<1>8. CASE LockSuccess(p)
  <2>1. ~want[p] => locked[p] \subseteq BsyClaim(p)
    BY <1>1, <1>8 DEF LockSuccess, BsyClaim
  <2>2. Enter(p, IF want[p] THEN "dial" ELSE "session", {})
    BY <1>8 DEF LockSuccess
  <2>3. {"dial", "session"} \subseteq Locs \ {"exited", "crashed"}
    BY DEF Locs, Rests
  <2>4. CASE want[p]
    BY <1>3, <1>8, <2>2, <2>3, <2>4 DEF LockSuccess
  <2>5. CASE ~want[p]
    BY <1>3, <1>8, <2>1, <2>2, <2>3, <2>5 DEF LockSuccess
  <2> QED BY <2>4, <2>5
<1>9. CASE LockFail(p)
  <2>1. \E l \in {"new", "between"}, S \in SUBSET Out : Enter(p, l, S)
    BY <1>9 DEF LockFail
  <2> QED BY <1>4, <1>9, <2>1 DEF LockFail, Locs, Rests
<1>10. CASE ConvertSuccess(p)
  <2>1. locked[p] \subseteq BsyClaim(p)
    BY <1>1, <1>10 DEF ConvertSuccess, BsyClaim
  <2>2. "session" \in Locs /\ Enter(p, "session", {}) /\ UNCHANGED <<res, want, locked, alive>>
    BY <1>10 DEF ConvertSuccess, Locs, Rests
  <2> QED BY <1>3, <2>1, <2>2
<1>11. CASE UnlockNext(p)
  <2>1. UNCHANGED <<res, want, locked>>
    BY <1>11 DEF UnlockNext
  <2>2. /\ \/ (\E S : Enter(p, "unlock", S)) /\ alive' = alive
           \/ Enter(p, "between", {}) /\ alive' = alive
           \/ Enter(p, "exited", {}) /\ alive' = alive \ {p}
    BY <1>11 DEF UnlockNext
  <2>3. PICK l, S : /\ Enter(p, l, S)
                    /\ \/ l \in {"unlock", "between"} /\ alive' = alive
                       \/ l = "exited" /\ alive' = alive \ {p}
    BY <2>2
  <2>4. \A q \in Procs \ {p} : loc'[q] = loc[q] /\ st'[q] = st[q] /\ todo'[q] = todo[q]
    BY <1>0, <2>3 DEF Enter, PosType
  <2>5. OthersStill(p)
    BY <2>1, <2>3, <2>4 DEF OthersStill
  <2>6. loc'[p] = l /\ st'[p] = "start"
    BY <1>0, <2>3 DEF Enter, PosType
  <2>7. Position(p)' /\ Own(p)'
    BY <1>1, <2>3, <2>6 DEF Position, Own, Relies, BsyClaim, Pending
  <2> QED BY <1>2, <2>5, <2>7 DEF Safe
<1>12. ASSUME NEW csy \in BOOLEAN, StartLock(p, csy) PROVE Safe
  <2>1. /\ locked' = [locked EXCEPT ![p] = {}] /\ want' = [want EXCEPT ![p] = csy]
        /\ UNCHANGED <<res, alive>>
    BY <1>12 DEF StartLock
  <2>2. PICK l, S : l \in {"conv", "chkbsy"} /\ Enter(p, l, S)
    BY <1>12 DEF StartLock
  <2> QED BY <1>4, <2>1, <2>2 DEF Locs, Links, Checks
<1>13. CASE CallSystem(p)
  BY <1>12, <1>13 DEF CallSystem
<1>14. CASE Handshake(p)
  BY <1>12, <1>14 DEF Handshake
<1>15. CASE DaemonCheck(p)
  <2>1. locked[p] = {} /\ Enter(p, "chkbsy", Out)
    BY <1>0, <1>15 DEF DaemonCheck, Position
  <2> QED BY <1>3, <1>15, <2>1 DEF DaemonCheck, Locs, Checks
<1>16. ASSUME NEW last \in BOOLEAN, UnlockAll(p, last) PROVE Safe
  <2>1. PICK S : Enter(p, "unlock", S)
    BY <1>16 DEF UnlockAll
  <2> QED BY <1>4, <1>16, <2>1 DEF UnlockAll, Locs, Removals
<1>17. CASE Crash(p)
  BY <1>4, <1>17 DEF Crash, Locs
<1> QED BY <1>5, <1>6, <1>7, <1>8, <1>9, <1>10, <1>11, <1>13, <1>14, <1>15, <1>16, <1>17
        DEF Loop, Use

\* IInv is an inductive invariant of the locking code.
LEMMA Inductive == Spec => []IInv
<1>1. Init => IInv
  <2> SUFFICES ASSUME Init PROVE IInv
    OBVIOUS
  <2>1. TypeOK
    BY InitType
  <2>2. \A p \in Procs : Position(p) /\ Own(p)
    BY DEF Init, Position, Own, Relies, BsyClaim, Pending
  <2> QED BY <2>1, <2>2 DEF IInv
<1>2. IInv /\ [Next]_vars => IInv'
  <2> SUFFICES ASSUME IInv, [Next]_vars PROVE IInv'
    OBVIOUS
  <2>1. TypeOK
    BY DEF IInv
  <2>2. CASE UNCHANGED vars
    BY <2>2 DEF vars, IInv, TypeOK, Position, Own, Relies, BsyClaim, Pending, Turn, Tampered
  <2>3. ASSUME NEW p \in Procs, Plock(p)
        PROVE  IInv'
    BY <2>1, <2>3, PlockType, PlockInv DEF IInv
  <2>4. ASSUME NEW p \in Procs, Loop(p) \/ Use(p) \/ Crash(p)
        PROVE  IInv'
    BY <2>1, <2>4, LoopType, UseType, LoopUseInv DEF IInv
  <2> QED BY <2>2, <2>3, <2>4 DEF Next
<1> QED BY <1>1, <1>2, PTL DEF Spec

\* Mutual exclusion, for any number of callers, answering processes, daemons and
\* outbounds: two sessions share the .bsy lock of no outbound in which every
\* process has left the others' locks alone.
THEOREM MutualExclusion == Spec => []SessionExclusive
<1>1. IInv => SessionExclusive
  <2> SUFFICES ASSUME IInv, NEW p \in Procs, NEW q \in Procs, p # q,
                      loc[p] = "session", loc[q] = "session",
                      NEW i \in locked[p] \cap locked[q]
               PROVE  Tampered(i)
    BY DEF SessionExclusive
  <2>1. i \in Out
    BY DEF IInv, TypeOK
  <2>2. i \in BsyClaim(p) /\ i \in BsyClaim(q)
    BY DEF IInv, Position, BsyClaim
  <2>3. /\ file[<<"bsy", i>>] = p \/ Tampered(i)
        /\ file[<<"bsy", i>>] = q \/ Tampered(i)
    BY <2>1, <2>2 DEF IInv, Own, Relies
  <2> QED BY <2>3
<1> QED BY <1>1, Inductive, PTL

(***************************************************************************)
(* Refinement.  The owners of BsyMutex's lock in an outbound are the       *)
(* processes that claim it; a step of a process gives up claims, or adds   *)
(* one, and touches nobody else's.                                         *)
(***************************************************************************)
ClaimStep(p) == \/ BsyClaim(p)' \subseteq BsyClaim(p)
                \/ \E i \in Out : BsyClaim(p)' = BsyClaim(p) \cup {i}

\* A process that stays where it is in outb_bsy.c and adds at most one outbound.
LEMMA ClaimStays ==
  ASSUME NEW p \in Procs, NEW i \in Out, loc'[p] = loc[p], UNCHANGED <<want, alive>>,
         locked'[p] \in {locked[p], locked[p] \cup {i}}
  PROVE  ClaimStep(p)
  BY DEF ClaimStep, BsyClaim

LEMMA ClaimLinkDone ==
  ASSUME PosType, NEW p \in Procs, NEW i \in Out, NEW r \in Results,
         LinkDone(p, i, r), UNCHANGED <<want, alive>>
  PROVE  ClaimStep(p)
<1>1. CASE r = "exist"
  <2>1. loc'[p] \in {"undo", "convundo"}
    BY <1>1 DEF LinkDone, Enter, PosType
  <2> QED BY <2>1 DEF ClaimStep, BsyClaim
<1>2. CASE r # "exist"
  <2>1. loc' = loc /\ locked'[p] \in {locked[p], locked[p] \cup {i}}
    BY <1>2 DEF LinkDone, Advance, PosType
  <2> QED BY <2>1, ClaimStays
<1> QED BY <1>1, <1>2

LEMMA ClaimLinkResult ==
  ASSUME PosType, NEW p \in Procs, NEW i \in Out, NEW r \in Results,
         LinkResult(p, i, r), UNCHANGED <<want, alive>>
  PROVE  ClaimStep(p)
<1>1. CASE loc[p] = "conv"
  BY <1>1, ClaimStays DEF LinkResult, Goto
<1>2. CASE loc[p] # "conv"
  BY <1>2, ClaimLinkDone DEF LinkResult
<1> QED BY <1>1, <1>2

LEMMA ClaimChecked ==
  ASSUME PosType, NEW p \in Procs, NEW i \in Out, NEW r \in {"ok", "our", "exist", "error"},
         Checked(p, i, r), UNCHANGED <<want, alive>>
  PROVE  ClaimStep(p)
<1>1. CASE Enter(p, "undo", locked[p])
  <2>1. loc'[p] = "undo"
    BY <1>1 DEF Enter, PosType
  <2> QED BY <2>1 DEF ClaimStep, BsyClaim
<1>2. CASE (Advance(p, i) \/ Goto(p, "relink")) /\ UNCHANGED locked
  BY <1>2, ClaimStays DEF Advance, Goto
<1>3. CASE LinkResult(p, i, IF r = "our" THEN "ok" ELSE r) /\ r # "ok"
  BY <1>3, ClaimLinkResult DEF Results
<1> QED BY <1>1, <1>2, <1>3 DEF Checked

LEMMA ClaimPlock ==
  ASSUME TypeOK, NEW p \in Procs, Plock(p)
  PROVE  ClaimStep(p)
<1>0. PosType
  BY TypePos
<1>1. PICK i \in Out : \/ Read(p, i) \/ Kill(p, i) \/ UnlinkStale(p, i) \/ Link(p, i)
                       \/ RemoveTmp(p, i) \/ RemoveRead(p, i) \/ RemoveUnlink(p, i)
  BY DEF Plock
<1>2. UNCHANGED <<want, alive>>
  BY <1>1 DEF Read, Kill, UnlinkStale, Link, RemoveTmp, RemoveRead, RemoveUnlink
<1>3. \/ \E r \in {"ok", "our", "exist", "error"} : Checked(p, i, r)
      \/ \E r \in Results : LinkResult(p, i, r) \/ LinkDone(p, i, r)
      \/ UNCHANGED <<loc, locked>>
  <2>1. CASE Read(p, i) \/ Kill(p, i) \/ UnlinkStale(p, i)
    BY <2>1 DEF Read, Kill, UnlinkStale, Goto
  <2>2. CASE Link(p, i)
    BY <2>2 DEF Link, Goto, Results
  <2>3. CASE RemoveTmp(p, i)
    BY <1>0, <2>3 DEF RemoveTmp, PosType
  <2>4. CASE RemoveRead(p, i) \/ RemoveUnlink(p, i)
    BY <2>4 DEF RemoveRead, RemoveUnlink, Goto, Advance
  <2> QED BY <1>1, <2>1, <2>2, <2>3, <2>4
<1> QED BY <1>0, <1>2, <1>3, ClaimChecked, ClaimLinkResult, ClaimLinkDone, ClaimStays

LEMMA ClaimLoopUse ==
  ASSUME IInv, NEW p \in Procs, Loop(p) \/ Use(p) \/ Crash(p)
  PROVE  ClaimStep(p)
<1>0. TypeOK /\ Position(p)
  BY DEF IInv
\* Either the process claims nothing afterwards ...
<1>1. ASSUME \/ locked'[p] = {}
             \/ loc'[p] \notin {"conv", "session", "create", "recheck"}
      PROVE  ClaimStep(p)
  BY <1>1 DEF ClaimStep, BsyClaim
\* ... or it goes on with the locks it has.
<1>2. ASSUME UNCHANGED <<locked, want, alive>>, p \in alive,
             \/ loc[p] = "create" /\ loc'[p] = "recheck"
             \/ loc[p] = "recheck" /\ (want[p] => loc'[p] = "dial")
             \/ loc[p] = "conv"
      PROVE  ClaimStep(p)
  BY <1>2 DEF ClaimStep, BsyClaim
<1>3. CASE CheckNext(p) \/ CheckEnd(p)
  <2>1. locked'[p] = {}
    BY <1>0, <1>3 DEF CheckNext, CheckEnd, Position
  <2> QED BY <1>1, <2>1
<1>4. CASE CreateEnd(p)
  <2>1. /\ loc[p] = "create" /\ loc'[p] = "recheck"
        /\ UNCHANGED <<locked, want, alive>> /\ p \in alive
    BY <1>0, <1>4 DEF CreateEnd, Enter, TypeOK, LoopOver
  <2> QED BY <1>2, <2>1
<1>5. CASE LockSuccess(p)
  <2>1. /\ loc[p] = "recheck" /\ (want[p] => loc'[p] = "dial")
        /\ UNCHANGED <<locked, want, alive>> /\ p \in alive
    BY <1>0, <1>5 DEF LockSuccess, Enter, TypeOK, LoopOver
  <2> QED BY <1>2, <2>1
<1>6. CASE ConvertSuccess(p)
  <2>1. loc[p] = "conv" /\ UNCHANGED <<locked, want, alive>> /\ p \in alive
    BY <1>6 DEF ConvertSuccess, LoopOver
  <2> QED BY <1>2, <2>1
<1>7. CASE UnlockNext(p)
  <2>1. loc'[p] \in {"unlock", "exited", "between"}
    BY <1>0, <1>7 DEF UnlockNext, Enter, TypeOK
  <2> QED BY <1>1, <2>1
<1>8. CASE DaemonCheck(p)
  <2>1. loc'[p] = "chkbsy"
    BY <1>0, <1>8 DEF DaemonCheck, Enter, TypeOK
  <2> QED BY <1>1, <2>1
<1>9. CASE \/ LockFail(p) \/ CallSystem(p) \/ Handshake(p) \/ Crash(p)
           \/ \E last \in BOOLEAN : UnlockAll(p, last)
  <2>1. locked' = [locked EXCEPT ![p] = {}]
    BY <1>9 DEF LockFail, CallSystem, Handshake, StartLock, Crash, UnlockAll
  <2> QED BY <1>0, <1>1, <2>1 DEF TypeOK
<1> QED BY <1>3, <1>4, <1>5, <1>6, <1>7, <1>8, <1>9 DEF Loop, Use

\* Marks stay.
LEMMA FoulGrows == TypeOK /\ Next => foul \subseteq foul'
<1> SUFFICES ASSUME TypeOK, NEW p \in Procs, Plock(p) \/ Loop(p) \/ Use(p) \/ Crash(p)
             PROVE  foul \subseteq foul'
  BY DEF Next
<1>1. CASE Plock(p)
  BY <1>1 DEF Plock, Read, Kill, UnlinkStale, Link, RemoveTmp, RemoveRead, RemoveUnlink
<1>2. CASE Loop(p) \/ Use(p) \/ Crash(p)
  BY <1>2 DEF Loop, Use, Crash, CheckNext, CheckEnd, CreateEnd, LockSuccess, LockFail,
              ConvertSuccess, UnlockNext, CallSystem, Handshake, DaemonCheck, UnlockAll,
              StartLock
<1> QED BY <1>1, <1>2

Owners == [i \in Out |-> {p \in Procs : i \in BsyClaim(p)}]
Spoiled == {i \in Out : Tampered(i)}

\* Every step takes one free lock, gives up some, or leaves the owners alone.
LEMMA MutexStep == IInv /\ IInv' /\ Next => Mutex!Next
<1> SUFFICES ASSUME IInv, IInv', NEW p \in Procs, Plock(p) \/ Loop(p) \/ Use(p) \/ Crash(p)
             PROVE  Mutex!Next
  BY DEF Next
<1>1. Spoiled \subseteq Spoiled' /\ Spoiled' \subseteq Out
  <2>1. foul \subseteq foul'
    BY FoulGrows DEF Next, IInv
  <2> QED BY <2>1 DEF Spoiled, Tampered
<1>2. OthersStill(p)
  BY PlockInv, LoopUseInv
<1>3. ClaimStep(p)
  BY ClaimPlock, ClaimLoopUse DEF IInv
<1>4. \A q \in Procs \ {p} : BsyClaim(q)' = BsyClaim(q)
  BY <1>2 DEF OthersStill, BsyClaim
<1>5. \A q \in Procs : BsyClaim(q) \subseteq Out /\ BsyClaim(q)' \subseteq Out
  BY DEF IInv, TypeOK, BsyClaim
<1>6. CASE BsyClaim(p)' \subseteq BsyClaim(p)
  <2> DEFINE S == Out \ BsyClaim(p)'
  <2>1. ASSUME NEW i \in Out
        PROVE  {q \in Procs : i \in BsyClaim(q)'} =
                 IF i \in S THEN {q \in Procs : i \in BsyClaim(q)} \ {p}
                            ELSE {q \in Procs : i \in BsyClaim(q)}
    BY <1>4, <1>6
  <2>2. S \in SUBSET Out
    OBVIOUS
  <2> HIDE DEF S
  <2>3. Owners' = [i \in Out |-> IF i \in S THEN Owners[i] \ {p} ELSE Owners[i]]
    BY <2>1 DEF Owners
  <2>4. \E T \in SUBSET Out : Owners' = [i \in Out |-> IF i \in T THEN Owners[i] \ {p} ELSE Owners[i]]
    BY <2>2, <2>3
  <2> QED BY <1>1, <2>4 DEF Owners, Spoiled, Mutex!Next, Mutex!Release
<1>7. ASSUME NEW i \in Out, BsyClaim(p)' = BsyClaim(p) \cup {i}, i \notin BsyClaim(p)
      PROVE  Mutex!Next
  <2>1. Owners' = [Owners EXCEPT ![i] = @ \cup {p}]
    <3>1. ASSUME NEW j \in Out
          PROVE  {q \in Procs : j \in BsyClaim(q)'} =
                   IF j = i THEN {q \in Procs : j \in BsyClaim(q)} \cup {p}
                            ELSE {q \in Procs : j \in BsyClaim(q)}
      BY <1>4, <1>7
    <3> QED BY <3>1 DEF Owners
  <2>2. Owners[i] = {} \/ i \in Spoiled'
    <3> SUFFICES ASSUME NEW q \in Procs, i \in BsyClaim(q) PROVE Tampered(i)'
      BY DEF Owners, Spoiled
    <3>1. q # p /\ i \in BsyClaim(q)' /\ i \in BsyClaim(p)'
      BY <1>4, <1>7
    <3>2. file'[<<"bsy", i>>] = p \/ Tampered(i)'
      BY <3>1 DEF IInv, Own, Relies
    <3>3. file'[<<"bsy", i>>] = q \/ Tampered(i)'
      BY <3>1 DEF IInv, Own, Relies
    <3> QED BY <3>1, <3>2, <3>3
  <2> QED BY <1>1, <2>1, <2>2 DEF Owners, Spoiled, Mutex!Next, Mutex!Acquire
<1>8. CASE \E i \in Out : BsyClaim(p)' = BsyClaim(p) \cup {i}
  <2>1. PICK i \in Out : BsyClaim(p)' = BsyClaim(p) \cup {i}
    BY <1>8
  <2> QED BY <1>6, <1>7, <2>1
<1> QED BY <1>3, <1>6, <1>8 DEF ClaimStep

\* The locks of an address implement BsyMutex: in an outbound that nobody has
\* spoiled a session takes the lock only while no other process claims it.
THEOREM Refinement == Spec => ImplementsMutex
<1>1. Init => Mutex!Init
  BY DEF Init, Mutex!Init, BsyClaim, Tampered
<1>2. IInv /\ IInv' /\ [Next]_vars => [Mutex!Next]_(Mutex!mvars)
  <2>1. CASE Next
    BY <2>1, MutexStep
  <2>2. CASE UNCHANGED vars
    BY <2>2 DEF vars, Mutex!mvars, BsyClaim, Tampered
  <2> QED BY <2>1, <2>2
<1> QED BY <1>1, <1>2, Inductive, PTL DEF Spec, ImplementsMutex, Mutex!Spec

-----------------------------------------------------------------------------
(* What a process knows of its own lock files                               *)

(***************************************************************************)
(* Every lock file with a process's pid is written down somewhere: in      *)
(* bsylist, in the locals of the call it is in, or in what is left of the  *)
(* loop that is removing it.                                               *)
(***************************************************************************)
CsyNames(p) == UNION {list[p][k].names : k \in {m \in DOMAIN list[p] : list[p][m].csy}}

ExtOf(csy) == IF csy THEN "csy" ELSE "bsy"

\* bsylist names the file; out_bsy_unlockall() is through with the part of the
\* first entry that it has visited, a conversion with the .csy files it has.
InList(p, e, i) == \E k \in DOMAIN list[p] :
  /\ i \in list[p][k].names /\ e = ExtOf(list[p][k].csy)
  /\ loc[p] = "unlock" /\ k = 1 => i \in todo[p]
  /\ loc[p] = "conv" /\ e = "csy" => i \in todo[p]

\* The locals of out_bsy_lock() and of the conversion name it.
InCall(p, e, i) ==
  \/ loc[p] \in {"create", "recheck"} /\ e = ExtOf(want[p]) /\ i \in locked[p]
  \/ loc[p] = "undo" /\ e = ExtOf(want[p]) /\ i \in todo[p]
  \/ loc[p] = "convundo" /\ e = "bsy" /\ i \in todo[p]
  \/ loc[p] = "conv" /\ e = "bsy" /\ (i \in locked[p] \/ Pending(p, i))

Has(p, e, i) == InList(p, e, i) \/ InCall(p, e, i)

Recorded(p) ==
  /\ loc[p] # "crashed" => \A e \in Ext, i \in Out :
       file[<<e, i>>] = p => Has(p, e, i) \/ Tampered(i)
  /\ loc[p] = "conv" => todo[p] \cup locked[p] \subseteq CsyNames(p)
  /\ loc[p] = "exited" => list[p] = << >>

Books == IInv /\ \A p \in Procs : Recorded(p)

\* No step of p makes a file that holds another's pid and is not marked.
NoGift(p) ==
  /\ foul \subseteq foul'
  /\ \A q \in Procs \ {p} : list'[q] = list[q]
  /\ \A q \in Procs \ {p}, e \in Ext, i \in Out :
       file'[<<e, i>>] = q => file[<<e, i>>] = q \/ Tampered(i)'

LEMMA BooksFrame ==
  ASSUME Books, NEW p \in Procs, OthersStill(p), NoGift(p), NEW q \in Procs \ {p}
  PROVE  Recorded(q)'
<1>1. /\ loc'[q] = loc[q] /\ list'[q] = list[q] /\ todo'[q] = todo[q]
      /\ locked'[q] = locked[q] /\ want'[q] = want[q]
  BY DEF OthersStill, NoGift
<1>2. \A i \in Out : Pending(q, i)' <=> Pending(q, i)
  BY DEF OthersStill, Pending, Turn
<1>3. \A e \in Ext, i \in Out : Has(q, e, i) => Has(q, e, i)'
  BY <1>1, <1>2 DEF Has, InList, InCall
<1>4. \A i \in Out : Tampered(i) => Tampered(i)'
  BY DEF NoGift, Tampered
<1>5. CsyNames(q)' = CsyNames(q)
  BY <1>1 DEF CsyNames
<1> QED BY <1>1, <1>3, <1>4, <1>5 DEF Books, Recorded, NoGift

\* Where the entries of a sequence are once its first one is gone.
LEMMA TailKeeps ==
  ASSUME NEW S, NEW s \in Seq(S), NEW k \in DOMAIN s, k # 1
  PROVE  /\ s # << >> /\ Tail(s) # << >>
         /\ k - 1 \in DOMAIN Tail(s) /\ Tail(s)[k - 1] = s[k]
<1>1. k \in 1..Len(s) /\ Len(s) \in Nat
  OBVIOUS
<1>2. s # << >> /\ Len(Tail(s)) = Len(s) - 1
  BY <1>1
<1>3. k - 1 \in 1..Len(Tail(s))
  BY <1>1, <1>2
<1>4. Tail(s) # << >>
  BY <1>2, <1>3
<1>5. Tail(s)[k - 1] = s[k]
  BY <1>1, <1>2, <1>3
<1> QED BY <1>2, <1>3, <1>4, <1>5

\* What p's files are after a step of u_plock.c at outbound i with result r.
Makes(p, i, r) == \A e \in Ext, j \in Out : file'[<<e, j>>] = p =>
  \/ Has(p, e, j) \/ Tampered(j)'
  \/ r = "ok" /\ <<e, j>> = Target(p, i)

\* A step inside the loop: the process stays, and its records are as before.
LEMMA StaysRecorded ==
  ASSUME Books, NEW p \in Procs,
         UNCHANGED <<want, list, alive>>, loc[p] \notin {"exited", "crashed"},
         loc'[p] = loc[p], todo'[p] = todo[p], locked'[p] = locked[p],
         st[p] # "rmtmp", NEW i \in Out, Makes(p, i, "error")
  PROVE  Recorded(p)'
<1>1. \A e \in Ext, j \in Out : Has(p, e, j) => Has(p, e, j)'
  BY DEF Has, InList, InCall, Pending
<1>2. CsyNames(p)' = CsyNames(p)
  BY DEF CsyNames
<1> QED BY <1>1, <1>2 DEF Recorded, Makes, Books

LEMMA LinkDoneRecorded ==
  ASSUME Books, NEW p \in Procs, NEW i \in Out, NEW r \in Results, Turn(p, i),
         loc[p] \in Links, LinkDone(p, i, r), UNCHANGED <<want, list, alive>>,
         Makes(p, i, r),
         loc[p] = "conv" => file'[<<"csy", i>>] # p,
         Pending(p, i) => r = "ok"
  PROVE  Recorded(p)'
<1>0. PosType /\ Recorded(p)
  BY TypePos DEF Books, IInv
<1>1. \A j \in Out : Pending(p, j) => j = i /\ r = "ok"
  BY TurnUnique DEF Pending
<1>2. CsyNames(p)' = CsyNames(p)
  BY DEF CsyNames
<1>3. CASE r = "exist"
  <2>1. /\ loc[p] = "create" => loc'[p] = "undo"
        /\ loc[p] = "conv" => loc'[p] = "convundo"
        /\ todo'[p] = locked[p]
    BY <1>0, <1>3 DEF LinkDone, Enter, PosType, Links
  <2>2. ASSUME NEW e \in Ext, NEW j \in Out, Has(p, e, j)
        PROVE  Has(p, e, j)'
    <3>1. CASE InList(p, e, j)
      BY <2>1, <3>1 DEF InList, Has, Links
    <3>2. CASE InCall(p, e, j)
      BY <1>1, <1>3, <2>1, <3>2 DEF InCall, Has, Links
    <3> QED BY <2>2, <3>1, <3>2 DEF Has
  <2> QED BY <1>3, <2>1, <2>2 DEF Recorded, Makes, Links
<1>4. CASE r # "exist"
  <2>1. /\ loc' = loc /\ todo'[p] = todo[p] \ {i}
        /\ locked'[p] = IF r = "ok" THEN locked[p] \cup {i} ELSE locked[p]
        /\ i \in todo[p]
    BY <1>0, <1>4 DEF LinkDone, Advance, PosType, Turn
  <2>2. ASSUME NEW e \in Ext, NEW j \in Out, Has(p, e, j),
               loc[p] = "conv" => <<e, j>> # <<"csy", i>>
        PROVE  Has(p, e, j)'
    <3>1. CASE InList(p, e, j)
      BY <2>1, <2>2, <3>1 DEF InList, Has, Links
    <3>2. CASE InCall(p, e, j)
      BY <1>1, <2>1, <3>2 DEF InCall, Has, Links
    <3> QED BY <2>2, <3>1, <3>2 DEF Has
  <2>3. ASSUME NEW e \in Ext, NEW j \in Out, r = "ok", <<e, j>> = Target(p, i)
        PROVE  Has(p, e, j)'
    BY <2>1, <2>3 DEF Has, InCall, Target, ExtOf, Links
  <2>4. loc[p] = "conv" => (todo[p] \cup locked[p])' \subseteq CsyNames(p)'
    BY <1>0, <1>2, <2>1 DEF Recorded
  <2> QED BY <2>1, <2>2, <2>3, <2>4 DEF Recorded, Makes, Links
<1> QED BY <1>3, <1>4

LEMMA LinkResultRecorded ==
  ASSUME Books, NEW p \in Procs, NEW i \in Out, NEW r \in Results, Turn(p, i),
         loc[p] \in Links, LinkResult(p, i, r), UNCHANGED <<want, list, alive>>,
         Makes(p, i, r), st[p] # "rmtmp"
  PROVE  Recorded(p)'
<1>0. PosType /\ Recorded(p)
  BY TypePos DEF Books, IInv
<1>1. CASE loc[p] = "conv"
  <2>1. /\ loc' = loc /\ todo' = todo /\ locked' = locked
        /\ st'[p] = "rmtmp" /\ res'[p] = r
    BY <1>0, <1>1 DEF LinkResult, Goto, PosType
  <2>2. \A e \in Ext, j \in Out : Has(p, e, j) => Has(p, e, j)'
    BY <2>1 DEF Has, InList, InCall, Pending
  <2>3. ASSUME NEW e \in Ext, NEW j \in Out, r = "ok", <<e, j>> = Target(p, i)
        PROVE  Has(p, e, j)'
    <3>1. e = "bsy" /\ j = i
      BY <1>1, <2>3 DEF Target
    <3>2. Pending(p, i)'
      BY <1>1, <2>1, <2>3 DEF Pending, Turn
    <3> QED BY <1>1, <2>1, <3>1, <3>2 DEF Has, InCall
  <2>4. CsyNames(p)' = CsyNames(p)
    BY DEF CsyNames
  <2> QED BY <1>0, <1>1, <2>1, <2>2, <2>3, <2>4 DEF Recorded, Makes
<1>2. CASE loc[p] # "conv"
  BY <1>2, LinkDoneRecorded DEF LinkResult, Pending
<1> QED BY <1>1, <1>2

LEMMA CheckedRecorded ==
  ASSUME Books, NEW p \in Procs, NEW i \in Out, NEW r \in {"ok", "our", "exist", "error"},
         Turn(p, i), Checked(p, i, r), UNCHANGED <<want, list, alive>>,
         Makes(p, i, "error"), st[p] # "rmtmp"
  PROVE  Recorded(p)'
<1>0. PosType /\ Recorded(p) /\ Position(p)
  BY TypePos DEF Books, IInv
<1>1. CASE loc[p] \in Checks /\ Enter(p, "undo", locked[p]) /\ UNCHANGED locked
  <2>1. loc'[p] = "undo" /\ todo'[p] = locked[p]
    BY <1>0, <1>1 DEF Enter, PosType
  <2>2. \A e \in Ext, j \in Out : Has(p, e, j) => Has(p, e, j)'
    BY <1>1, <2>1 DEF Has, InList, InCall, Checks
  <2> QED BY <2>1, <2>2 DEF Recorded, Makes
<1>2. CASE loc[p] \in Checks /\ Advance(p, i) /\ UNCHANGED locked
  <2>1. loc' = loc /\ locked' = locked
    BY <1>2 DEF Advance
  <2>2. \A e \in Ext, j \in Out : Has(p, e, j) => Has(p, e, j)'
    BY <1>2, <2>1 DEF Has, InList, InCall, Checks
  <2> QED BY <1>2, <2>1, <2>2 DEF Recorded, Makes, Checks
<1>3. CASE loc[p] \in Links /\ Goto(p, "relink") /\ UNCHANGED locked
  BY <1>3, StaysRecorded DEF Goto, Links
<1>4. CASE loc[p] \in Links /\ r # "ok" /\ LinkResult(p, i, IF r = "our" THEN "ok" ELSE r)
  <2>1. (IF r = "our" THEN "ok" ELSE r) \in Results
    BY <1>4 DEF Results
  <2>2. \A s \in Results : Makes(p, i, s)
    BY DEF Makes
  <2> QED BY <1>4, <2>1, <2>2, LinkResultRecorded
<1> QED BY <1>1, <1>2, <1>3, <1>4 DEF Checked

\* A removal that is through with outbound i.
LEMMA RemovalRecorded ==
  ASSUME Books, NEW p \in Procs, NEW i \in Out, loc[p] \in Removals, Advance(p, i),
         UNCHANGED <<want, list, alive, locked>>, Makes(p, i, "error"),
         file'[Target(p, i)] # p
  PROVE  Recorded(p)'
<1>0. PosType /\ list[p] \in Seq(Entry)
  BY TypePos DEF Books, IInv, TypeOK
<1>1. loc' = loc /\ todo'[p] = todo[p] \ {i}
  BY <1>0 DEF Advance, PosType
<1>2. ASSUME NEW e \in Ext, NEW j \in Out, Has(p, e, j), <<e, j>> # Target(p, i)
      PROVE  Has(p, e, j)'
  <2>1. CASE InList(p, e, j)
    <3>1. PICK k \in DOMAIN list[p] :
            /\ j \in list[p][k].names /\ e = ExtOf(list[p][k].csy)
            /\ loc[p] = "unlock" /\ k = 1 => j \in todo[p]
            /\ loc[p] = "conv" /\ e = "csy" => j \in todo[p]
      BY <2>1 DEF InList
    <3>2. loc[p] = "unlock" /\ k = 1 => <<e, i>> = Target(p, i)
      BY <1>0, <3>1 DEF Target, ExtOf
    <3>3. loc[p] = "unlock" /\ k = 1 => j \in todo'[p]
      BY <1>1, <1>2, <3>1, <3>2
    <3>4. InList(p, e, j)'
      BY <1>1, <3>1, <3>3 DEF InList, Removals
    <3> QED BY <3>4 DEF Has
  <2>2. CASE InCall(p, e, j)
    BY <1>1, <1>2, <2>2 DEF InCall, Has, Target, ExtOf, Removals
  <2> QED BY <1>2, <2>1, <2>2 DEF Has
<1> QED BY <1>1, <1>2 DEF Recorded, Makes, Removals

LEMMA PlockBooks ==
  ASSUME Books, NEW p \in Procs, Plock(p)
  PROVE  Recorded(p)' /\ NoGift(p)
<1>0. TypeOK /\ PosType /\ Position(p) /\ Recorded(p)
  BY TypePos DEF Books, IInv
<1>1. PICK i \in Out : \/ Read(p, i) \/ Kill(p, i) \/ UnlinkStale(p, i) \/ Link(p, i)
                       \/ RemoveTmp(p, i) \/ RemoveRead(p, i) \/ RemoveUnlink(p, i)
  BY DEF Plock
<1>2. Turn(p, i) /\ UNCHANGED <<want, alive, list>> /\ Target(p, i) \in Files
  BY <1>1, TargetType DEF Read, Kill, UnlinkStale, Link, RemoveTmp, RemoveRead, RemoveUnlink
<1>3. loc[p] \notin {"exited", "crashed"}
  BY <1>0, <1>2 DEF Position, Turn
<1>4. ASSUME \A f \in Files : file'[f] \in {file[f], NoPid}, foul \subseteq foul'
      PROVE  NoGift(p) /\ \A r \in Results : Makes(p, i, r)
  <2>1. \A e \in Ext, j \in Out : <<e, j>> \in Files
    BY DEF Files
  <2>2. \A j \in Out : Tampered(j) => Tampered(j)'
    BY <1>4 DEF Tampered
  <2>3. \A q \in Procs, e \in Ext, j \in Out : file'[<<e, j>>] = q => file[<<e, j>>] = q
    BY <1>4, <2>1, PidAssumption
  <2> QED BY <1>0, <1>2, <1>3, <1>4, <2>2, <2>3 DEF NoGift, Makes, Recorded
<1>5. ASSUME UNCHANGED <<file, foul>>
      PROVE  NoGift(p) /\ \A r \in Results : Makes(p, i, r)
  BY <1>4, <1>5
<1>6. CASE Read(p, i)
  <2>1. UNCHANGED <<file, foul>> /\ st[p] # "rmtmp"
    BY <1>6 DEF Read
  <2>2. CASE Goto(p, "kill") /\ UNCHANGED locked
    BY <1>3, <1>2, <1>5, <2>1, <2>2, StaysRecorded DEF Goto, Results
  <2>3. CASE Checked(p, i, IF file[Target(p, i)] = p THEN "our" ELSE "ok")
    BY <1>2, <1>5, <2>1, <2>3, CheckedRecorded DEF Results
  <2> QED BY <1>5, <1>6, <2>1, <2>2, <2>3 DEF Read
<1>7. CASE Kill(p, i)
  <2>1. UNCHANGED <<file, foul>> /\ st[p] # "rmtmp"
    BY <1>7 DEF Kill
  <2>2. CASE Goto(p, "stale") /\ UNCHANGED locked
    BY <1>3, <1>2, <1>5, <2>1, <2>2, StaysRecorded DEF Goto, Results
  <2>3. CASE Checked(p, i, "exist")
    BY <1>2, <1>5, <2>1, <2>3, CheckedRecorded DEF Results
  <2> QED BY <1>5, <1>7, <2>1, <2>2, <2>3 DEF Kill
<1>8. CASE UnlinkStale(p, i)
  <2>1. /\ file' = [file EXCEPT ![Target(p, i)] = NoPid] /\ foul \subseteq foul'
        /\ st[p] # "rmtmp"
        /\ Checked(p, i, IF file[Target(p, i)] = NoPid THEN "error" ELSE "ok")
    BY <1>8 DEF UnlinkStale
  <2>2. \A f \in Files : file'[f] \in {file[f], NoPid}
    BY <1>0, <2>1 DEF TypeOK
  <2> QED BY <1>2, <1>4, <2>1, <2>2, CheckedRecorded DEF Results
<1>9. CASE Link(p, i)
  <2> DEFINE f == Target(p, i)
  <2>0. st[p] # "rmtmp" /\ loc[p] \in Links
    BY <1>9 DEF Link
  <2>1. CASE UNCHANGED <<file, foul>> /\ LinkResult(p, i, "error")
    BY <1>2, <1>5, <2>0, <2>1, LinkResultRecorded DEF Results
  <2>2. CASE UNCHANGED <<file, foul>> /\ Goto(p, "exist") /\ UNCHANGED locked
    BY <1>2, <1>3, <1>5, <2>0, <2>2, StaysRecorded DEF Goto, Results
  <2>3. ASSUME NEW tmp \in Procs, tmp = p \/ loc[p] = "conv",
               file' = [file EXCEPT ![f] = tmp],
               foul' = IF tmp # p THEN foul \cup {<<"csy", i>>} ELSE foul,
               LinkResult(p, i, "ok")
        PROVE  Recorded(p)' /\ NoGift(p)
    <3>1. f = Target(p, i) /\ f \in Files
      BY <1>2
    <3>2. tmp # p => f = <<"bsy", i>> /\ Tampered(i)'
      BY <2>3, <3>1 DEF Target, Tampered
    <3> HIDE DEF f
    <3>3. foul \subseteq foul' /\ \A j \in Out : Tampered(j) => Tampered(j)'
      BY <2>3 DEF Tampered
    <3>4. ASSUME NEW q \in Procs, NEW e \in Ext, NEW j \in Out, file'[<<e, j>>] = q
          PROVE  \/ file[<<e, j>>] = q
                 \/ <<e, j>> = f /\ (q = p \/ Tampered(j)')
      <4>1. <<e, j>> \in Files
        BY DEF Files
      <4>2. CASE <<e, j>> = f
        BY <1>0, <2>3, <3>1, <3>2, <3>4, <4>2 DEF TypeOK
      <4>3. CASE <<e, j>> # f
        BY <1>0, <2>3, <3>4, <4>1, <4>3 DEF TypeOK
      <4> QED BY <4>2, <4>3
    <3>5. NoGift(p)
      BY <1>2, <3>3, <3>4 DEF NoGift
    <3>6. Makes(p, i, "ok")
      BY <1>0, <1>3, <3>1, <3>3, <3>4 DEF Makes, Recorded
    <3> QED BY <1>2, <2>0, <2>3, <3>5, <3>6, LinkResultRecorded DEF Results
  <2>4. <<"csy", i>> \in Files
    BY DEF Files, Ext
  <2> HIDE DEF f
  <2> QED BY <1>0, <1>9, <2>1, <2>2, <2>3, <2>4 DEF f, Link, TypeOK
<1>10. CASE RemoveTmp(p, i)
  <2>1. /\ file' = [file EXCEPT ![<<"csy", i>>] = NoPid] /\ foul \subseteq foul'
        /\ loc[p] = "conv" /\ LinkDone(p, i, res[p]) /\ res[p] \in Results
    BY <1>0, <1>10 DEF RemoveTmp, Position, PosType
  <2>2. <<"csy", i>> \in Files
    BY DEF Files, Ext
  <2>3. \A f \in Files : file'[f] \in {file[f], NoPid}
    BY <1>0, <2>1 DEF TypeOK
  <2>4. file'[<<"csy", i>>] # p
    BY <1>0, <2>1, <2>2, PidAssumption DEF TypeOK
  <2> QED BY <1>2, <1>4, <2>1, <2>3, <2>4, LinkDoneRecorded DEF Links, Pending
<1>11. CASE RemoveRead(p, i)
  <2>1. UNCHANGED <<file, foul, locked>> /\ st[p] # "rmtmp" /\ loc[p] \in Removals
    BY <1>11 DEF RemoveRead
  <2>2. CASE Goto(p, "rm")
    BY <1>2, <1>3, <1>5, <2>1, <2>2, StaysRecorded DEF Goto, Results
  <2>3. CASE file[Target(p, i)] # p /\ Advance(p, i)
    BY <1>2, <1>5, <2>1, <2>3, RemovalRecorded DEF Results, Target
  <2> QED BY <1>5, <1>11, <2>1, <2>2, <2>3 DEF RemoveRead
<1>12. CASE RemoveUnlink(p, i)
  <2>1. /\ file' = [file EXCEPT ![Target(p, i)] = NoPid] /\ foul \subseteq foul'
        /\ loc[p] \in Removals /\ Advance(p, i) /\ UNCHANGED locked
    BY <1>0, <1>12 DEF RemoveUnlink, Position
  <2>2. \A f \in Files : file'[f] \in {file[f], NoPid}
    BY <1>0, <2>1 DEF TypeOK
  <2>3. file'[Target(p, i)] # p
    BY <1>0, <1>2, <2>1, PidAssumption DEF TypeOK
  <2> QED BY <1>2, <1>4, <2>1, <2>2, <2>3, RemovalRecorded DEF Results
<1> QED BY <1>1, <1>6, <1>7, <1>8, <1>9, <1>10, <1>11, <1>12

LEMMA LoopUseBooks ==
  ASSUME Books, NEW p \in Procs, Loop(p) \/ Use(p) \/ Crash(p)
  PROVE  Recorded(p)' /\ NoGift(p)
<1>0. TypeOK /\ Position(p) /\ Recorded(p) /\ list[p] \in Seq(Entry)
  BY DEF Books, IInv, TypeOK
<1>1. UNCHANGED <<file, foul>> /\ p \in alive
  BY DEF Loop, Use, Crash, LoopOver, CheckNext, CheckEnd, CreateEnd, LockSuccess, LockFail,
         ConvertSuccess, UnlockNext, CallSystem, Handshake, DaemonCheck, UnlockAll, StartLock
<1>2. NoGift(p)
  <2>1. \A q \in Procs \ {p} : list'[q] = list[q]
    BY <1>0 DEF Loop, Use, Crash, CheckNext, CheckEnd, CreateEnd, LockSuccess, LockFail,
         ConvertSuccess, UnlockNext, CallSystem, Handshake, DaemonCheck, UnlockAll, StartLock,
         TypeOK
  <2> QED BY <1>1, <2>1 DEF NoGift
\* It is enough that what names a file now does so after the step.
<1>3. ASSUME \A e \in Ext, j \in Out : Has(p, e, j) => Has(p, e, j)',
             loc'[p] \notin {"conv", "exited"}
      PROVE  Recorded(p)'
  <2>1. loc[p] # "crashed" /\ \A j \in Out : Tampered(j)' <=> Tampered(j)
    BY <1>0, <1>1 DEF Position, Tampered
  <2> QED BY <1>0, <1>1, <1>3, <2>1 DEF Recorded
\* A step that forgets nothing of bsylist, from where nothing else is noted.
<1>4. ASSUME list'[p] = list[p], loc'[p] \notin {"conv", "exited", "unlock"},
             loc[p] \notin {"conv", "unlock"},
             \A e \in Ext, j \in Out : ~InCall(p, e, j)
      PROVE  Recorded(p)'
  <2>1. \A e \in Ext, j \in Out : InList(p, e, j) => InList(p, e, j)'
    BY <1>4 DEF InList
  <2> QED BY <1>3, <1>4, <2>1 DEF Has
<1>5. CASE CheckNext(p) \/ CheckEnd(p) \/ DaemonCheck(p) \/ LockFail(p)
  <2>1. /\ list' = list /\ loc'[p] \in {"chkcsy", "new", "create", "chkbsy", "between"}
        /\ \/ loc[p] \in {"new", "chkbsy", "chkcsy"}
           \/ loc[p] \in {"undo", "convundo"} /\ todo[p] = {}
    <3>1. PICK l \in {"chkcsy", "new", "create", "chkbsy", "between"}, S \in SUBSET Out : Enter(p, l, S)
      BY <1>5 DEF CheckNext, CheckEnd, DaemonCheck, LockFail
    <3>2. loc'[p] = l
      BY <1>0, <3>1 DEF Enter, TypeOK
    <3> QED BY <1>5, <3>1, <3>2 DEF CheckNext, CheckEnd, DaemonCheck, LockFail, LoopOver
  <2>2. \A e \in Ext, j \in Out : ~InCall(p, e, j)
    BY <2>1 DEF InCall
  <2> QED BY <1>2, <1>4, <2>1, <2>2
<1>6. CASE CreateEnd(p)
  <2>1. /\ list' = list /\ locked' = locked /\ want' = want
        /\ loc[p] = "create" /\ loc'[p] = "recheck"
    BY <1>0, <1>6 DEF CreateEnd, Enter, TypeOK
  <2>2. \A e \in Ext, j \in Out : Has(p, e, j) => Has(p, e, j)'
    BY <2>1 DEF Has, InList, InCall
  <2> QED BY <1>2, <1>3, <2>1, <2>2
<1>7. CASE LockSuccess(p)
  <2> DEFINE x == [csy |-> want[p], names |-> locked[p]]
  <2>1. /\ list'[p] = Append(list[p], x)
        /\ loc[p] = "recheck" /\ loc'[p] \in {"dial", "session"}
    BY <1>0, <1>7 DEF LockSuccess, Enter, TypeOK
  <2>2. x \in Entry /\ x.csy = want[p] /\ x.names = locked[p]
    BY <1>0 DEF Entry, TypeOK
  <2> HIDE DEF x
  <2>3. /\ Len(list[p]) + 1 \in DOMAIN list'[p] /\ list'[p][Len(list[p]) + 1] = x
        /\ \A k \in DOMAIN list[p] : k \in DOMAIN list'[p] /\ list'[p][k] = list[p][k]
    BY <1>0, <2>1, <2>2
  <2>4. ASSUME NEW e \in Ext, NEW j \in Out, Has(p, e, j)
        PROVE  InList(p, e, j)'
    <3>1. CASE InList(p, e, j)
      BY <2>1, <2>3, <3>1 DEF InList
    <3>2. CASE InCall(p, e, j)
      <4>1. e = ExtOf(x.csy) /\ j \in x.names
        BY <2>1, <2>2, <3>2 DEF InCall
      <4> QED BY <2>1, <2>3, <4>1 DEF InList
    <3> QED BY <2>4, <3>1, <3>2 DEF Has
  <2> QED BY <1>2, <1>3, <2>1, <2>4 DEF Has
<1>8. CASE ConvertSuccess(p)
  <2>1. /\ loc[p] = "conv" /\ loc'[p] = "session" /\ todo[p] = {} /\ st[p] = "start"
        /\ DOMAIN list'[p] = DOMAIN list[p]
        /\ \A k \in DOMAIN list[p] : list'[p][k] = [csy |-> FALSE, names |-> list[p][k].names]
    BY <1>0, <1>8 DEF ConvertSuccess, Enter, TypeOK, LoopOver
  <2>2. ASSUME NEW e \in Ext, NEW j \in Out, Has(p, e, j)
        PROVE  InList(p, e, j)'
    <3>1. e = "bsy" /\ \E k \in DOMAIN list[p] : j \in list[p][k].names
      <4>1. CASE InList(p, e, j)
        BY <2>1, <4>1 DEF InList, Ext
      <4>2. CASE InCall(p, e, j)
        <5>1. e = "bsy" /\ j \in locked[p]
          BY <2>1, <4>2 DEF InCall, Pending
        <5>2. j \in CsyNames(p)
          BY <1>0, <2>1, <5>1 DEF Recorded
        <5> QED BY <5>1, <5>2 DEF CsyNames
      <4> QED BY <2>2, <4>1, <4>2 DEF Has
    <3>2. PICK k \in DOMAIN list[p] : j \in list[p][k].names
      BY <3>1
    <3>3. e = ExtOf(list'[p][k].csy) /\ j \in list'[p][k].names
      <4>1. list'[p][k].csy = FALSE /\ list'[p][k].names = list[p][k].names
        <5>1. list'[p][k] = [csy |-> FALSE, names |-> list[p][k].names]
          BY <2>1, <3>2
        <5> QED BY <5>1
      <4> QED BY <3>1, <3>2, <4>1 DEF ExtOf
    <3> QED BY <2>1, <3>3 DEF InList
  <2> QED BY <1>2, <1>3, <2>1, <2>2 DEF Has
<1>9. CASE UnlockNext(p)
  <2>1. /\ loc[p] = "unlock" /\ todo[p] = {}
        /\ list'[p] = IF list[p] = << >> THEN list[p] ELSE Tail(list[p])
        /\ IF list'[p] # << >>
             THEN loc'[p] = "unlock" /\ todo'[p] = Head(list'[p]).names
             ELSE loc'[p] \in {"exited", "between"}
    BY <1>0, <1>9 DEF UnlockNext, Enter, TypeOK, LoopOver
  <2>2. ASSUME NEW e \in Ext, NEW j \in Out, Has(p, e, j)
        PROVE  InList(p, e, j)' /\ list'[p] # << >>
    <3>1. InList(p, e, j)
      BY <2>1, <2>2 DEF Has, InCall
    <3>2. PICK k \in DOMAIN list[p] : j \in list[p][k].names /\ e = ExtOf(list[p][k].csy) /\ k # 1
      BY <2>1, <3>1 DEF InList
    <3>3. /\ list'[p] = Tail(list[p]) /\ k - 1 \in DOMAIN list'[p]
          /\ list'[p][k - 1] = list[p][k] /\ list'[p] # << >>
      <4>1. list[p] \in Seq(Entry) /\ k \in DOMAIN list[p] /\ k # 1
        BY <1>0, <3>2
      <4> QED BY <2>1, <4>1, TailKeeps
    <3>4. k - 1 = 1 => j \in todo'[p]
      BY <1>0, <2>1, <3>2, <3>3
    <3> QED BY <2>1, <3>2, <3>3, <3>4 DEF InList
  <2>3. loc'[p] = "exited" => list'[p] = << >>
    BY <2>1
  <2>4. loc[p] # "crashed" /\ \A j \in Out : Tampered(j)' <=> Tampered(j)
    BY <1>1, <2>1 DEF Tampered
  <2> QED BY <1>0, <1>1, <1>2, <2>1, <2>2, <2>3, <2>4 DEF Recorded, Has
<1>10. ASSUME NEW csy \in BOOLEAN, StartLock(p, csy),
              loc[p] \in {"new", "dial", "between", "session"}
       PROVE  Recorded(p)'
  <2>1. list' = list /\ locked'[p] = {} /\ \A e \in Ext, j \in Out : ~InCall(p, e, j)
    BY <1>0, <1>10 DEF StartLock, InCall, TypeOK
  <2>2. CASE Enter(p, "chkbsy", Out)
    <3>1. loc'[p] = "chkbsy"
      BY <1>0, <2>2 DEF Enter, TypeOK
    <3> QED BY <1>4, <1>10, <2>1, <3>1
  <2>3. CASE Enter(p, "conv", CsyNames(p))
    <3>1. loc'[p] = "conv" /\ todo'[p] = CsyNames(p)
      BY <1>0, <2>3 DEF Enter, TypeOK
    <3>2. CsyNames(p)' = CsyNames(p)
      BY <2>1 DEF CsyNames
    <3>3. ASSUME NEW e \in Ext, NEW j \in Out, InList(p, e, j)
          PROVE  InList(p, e, j)'
      <4>1. PICK k \in DOMAIN list[p] : j \in list[p][k].names /\ e = ExtOf(list[p][k].csy)
        BY <3>3 DEF InList
      <4>2. e = "csy" => j \in CsyNames(p)
        BY <4>1 DEF ExtOf, CsyNames
      <4> QED BY <2>1, <3>1, <4>1, <4>2 DEF InList
    <3>4. loc[p] # "crashed" /\ \A j \in Out : Tampered(j)' <=> Tampered(j)
      BY <1>1, <1>10 DEF Tampered
    <3> QED BY <1>0, <1>1, <2>1, <3>1, <3>2, <3>3, <3>4 DEF Recorded, Has
  <2> QED BY <1>10, <2>2, <2>3 DEF StartLock, CsyNames
<1>11. CASE CallSystem(p) \/ Handshake(p)
  BY <1>2, <1>10, <1>11 DEF CallSystem, Handshake
<1>12. ASSUME NEW last \in BOOLEAN, UnlockAll(p, last)
       PROVE  Recorded(p)'
  <2>1. /\ list' = list /\ loc'[p] = "unlock"
        /\ todo'[p] = IF list[p] = << >> THEN {} ELSE Head(list[p]).names
        /\ loc[p] \in {"dial", "between", "session"}
    BY <1>0, <1>12 DEF UnlockAll, Enter, TypeOK
  <2>2. ASSUME NEW e \in Ext, NEW j \in Out, Has(p, e, j)
        PROVE  InList(p, e, j)'
    <3>1. PICK k \in DOMAIN list[p] : j \in list[p][k].names /\ e = ExtOf(list[p][k].csy)
      BY <2>1, <2>2 DEF Has, InCall, InList
    <3>2. k = 1 => j \in todo'[p]
      BY <1>0, <2>1, <3>1
    <3> QED BY <2>1, <3>1, <3>2 DEF InList
  <2> QED BY <1>2, <1>3, <2>1, <2>2 DEF Has
<1>13. CASE Crash(p)
  <2>1. loc'[p] = "crashed"
    BY <1>0, <1>13 DEF Crash, Enter, TypeOK
  <2> QED BY <1>2, <2>1 DEF Recorded
<1> QED BY <1>2, <1>5, <1>6, <1>7, <1>8, <1>9, <1>11, <1>12, <1>13 DEF Loop, Use

LEMMA BooksInductive == Spec => []Books
<1>1. Init => \A p \in Procs : Recorded(p)
  BY PidAssumption DEF Init, Recorded, Files
<1>2. IInv /\ Books /\ IInv' /\ [Next]_vars => Books'
  <2> SUFFICES ASSUME Books, IInv', [Next]_vars PROVE Books'
    OBVIOUS
  <2>1. CASE UNCHANGED vars
    BY <2>1 DEF vars, Books, Recorded, Has, InList, InCall, Pending, Turn, CsyNames, Tampered
  <2>2. ASSUME NEW p \in Procs, Plock(p) \/ Loop(p) \/ Use(p) \/ Crash(p)
        PROVE  Books'
    <3>1. Recorded(p)' /\ NoGift(p)
      BY <2>2, PlockBooks, LoopUseBooks
    <3>2. OthersStill(p)
      BY <2>2, PlockInv, LoopUseInv DEF Books
    <3> QED BY <3>1, <3>2, BooksFrame DEF Books
  <2> QED BY <2>1, <2>2 DEF Next
<1>3. Books <=> IInv /\ \A p \in Procs : Recorded(p)
  BY DEF Books
<1> QED BY <1>1, <1>2, <1>3, Inductive, PTL DEF Spec

\* A process that leaves through out_bsy_unlockall() leaves no lock file with its
\* pid behind, for any number of processes, outbounds and connection methods,
\* except where another process has tampered with the locks of an outbound.
THEOREM NothingLeftBehind == Spec => []ExitLeavesNoLock
<1>1. Books => ExitLeavesNoLock
  <2> SUFFICES ASSUME Books, NEW p \in Procs, loc[p] = "exited", NEW f \in Files, file[f] = p
               PROVE  Tampered(f[2])
    BY DEF ExitLeavesNoLock
  <2>1. PICK e \in Ext, i \in Out : f = <<e, i>>
    BY DEF Files
  <2>2. Has(p, e, i) \/ Tampered(i)
    BY <2>1 DEF Books, Recorded
  <2>3. ~InList(p, e, i) /\ ~InCall(p, e, i)
    BY DEF Books, Recorded, InList, InCall
  <2> QED BY <2>1, <2>2, <2>3 DEF Has
<1> QED BY <1>1, BooksInductive, PTL

(***************************************************************************)
(* First handshakes.  As long as everybody is alive and in the first one,  *)
(* no lock is found stale, and the .csy files a conversion works on are    *)
(* those the caller made when it began to dial.                            *)
(***************************************************************************)
First == alive = Procs /\ \A p \in Procs : tries[p] <= 1

\* Before a process's first handshake.
Dialing(p) ==
  /\ loc[p] \notin {"session", "conv", "convundo"}
  /\ loc[p] \in {"chkbsy", "chkcsy"} => want[p] \/ p \in Daemons
  /\ loc[p] \in {"create", "recheck"} =>
       want[p] /\ \A i \in locked[p] : file[<<"csy", i>>] = p
  /\ loc[p] = "dial" => \A i \in CsyNames(p) : file[<<"csy", i>>] = p
  /\ loc[p] = "unlock" => bye[p]
  /\ loc[p] \notin {"dial", "unlock"} => list[p] = << >>

FirstOk(p) ==
  /\ st[p] # "stale"
  /\ st[p] = "kill" => seen[p] \in Procs
  /\ st[p] = "rm" => \A i \in Out : Turn(p, i) => file[Target(p, i)] = p
  /\ loc[p] = "conv" => \A i \in todo[p] : file[<<"csy", i>>] = p
  /\ tries[p] = 0 => Dialing(p)

FirstInv == First => foul = {} /\ \A p \in Procs : FirstOk(p)

\* A step of p marks nothing, and every other process has the files it had.
Gentle(p) ==
  /\ foul' = foul
  /\ \A q \in Procs \ {p}, f \in Files : file[f] = q => file'[f] = q

\* p's own files, but for one that it removes.
KeepsBut(p, g) == \A f \in Files \ g : file[f] = p => file'[f] = p

\* What no step of u_plock.c changes.
Rest == <<want, alive, list, tries, bye>>

LEMMA CsyFiles ==
  ASSUME TypeOK, NEW p \in Procs
  PROVE  /\ todo[p] \subseteq Out /\ locked[p] \subseteq Out /\ CsyNames(p) \subseteq Out
         /\ \A i \in Out : <<"csy", i>> \in Files
<1>1. ASSUME NEW k \in DOMAIN list[p] PROVE list[p][k].names \subseteq Out
  <2>1. list[p] \in Seq(Entry)
    BY DEF TypeOK
  <2>2. list[p][k] \in Entry
    BY <2>1
  <2> QED BY <2>2 DEF Entry
<1>2. CsyNames(p) \subseteq Out
  BY <1>1 DEF CsyNames
<1> QED BY <1>2 DEF TypeOK, Files, Ext

LEMMA FirstFrame ==
  ASSUME TypeOK, NEW p \in Procs, NEW q \in Procs \ {p}, OthersStill(p), Gentle(p), FirstOk(q),
         seen'[q] = seen[q], list'[q] = list[q], tries'[q] = tries[q], bye'[q] = bye[q]
  PROVE  FirstOk(q)'
<1>1. /\ loc'[q] = loc[q] /\ st'[q] = st[q] /\ todo'[q] = todo[q]
      /\ want'[q] = want[q] /\ locked'[q] = locked[q]
  BY DEF OthersStill
<1>2. \A i \in Out : Target(q, i)' = Target(q, i) /\ Target(q, i) \in Files
  BY <1>1 DEF Target, Files, Ext
<1>3. \A i \in Out : Turn(q, i)' => Turn(q, i)
  BY <1>1 DEF Turn, OthersStill
<1>4. CsyNames(q)' = CsyNames(q)
  BY DEF CsyNames
<1>5. \A f \in Files : file[f] = q => file'[f] = q
  BY DEF Gentle
<1>6. Dialing(q) => Dialing(q)'
  BY <1>1, <1>4, <1>5, CsyFiles DEF Dialing
<1>7. st[q] = "rm" => \A i \in Out : Turn(q, i)' => file'[Target(q, i)'] = q
  BY <1>2, <1>3, <1>5 DEF FirstOk
<1>8. loc[q] = "conv" => \A i \in todo[q] : file'[<<"csy", i>>] = q
  BY <1>5, CsyFiles DEF FirstOk
<1> QED BY <1>1, <1>6, <1>7, <1>8 DEF FirstOk

\* p stays where it is in outb_bsy.c, with what it has locked.
LEMMA StaysFirst ==
  ASSUME TypeOK, NEW p \in Procs, FirstOk(p), UNCHANGED Rest, KeepsBut(p, {}),
         loc' = loc, todo' = todo, locked' = locked,
         st'[p] \notin {"stale", "rm"}, st'[p] = "kill" => seen'[p] \in Procs
  PROVE  FirstOk(p)'
<1>1. CsyNames(p)' = CsyNames(p)
  BY DEF CsyNames, Rest
<1>2. Dialing(p) => Dialing(p)'
  BY <1>1, CsyFiles DEF Dialing, KeepsBut, Rest
<1>3. loc[p] = "conv" => \A i \in todo[p] : file'[<<"csy", i>>] = p
  BY CsyFiles DEF FirstOk, KeepsBut
<1> QED BY <1>2, <1>3 DEF FirstOk, Rest

LEMMA LinkDoneFirst ==
  ASSUME TypeOK, NEW p \in Procs, FirstOk(p), UNCHANGED Rest, NEW i \in Out, NEW r \in Results,
         loc[p] \in Links, LinkDone(p, i, r),
         KeepsBut(p, IF loc[p] = "conv" THEN {<<"csy", i>>} ELSE {}),
         r = "ok" /\ loc[p] = "create" /\ want[p] => file'[<<"csy", i>>] = p
  PROVE  FirstOk(p)'
<1>1. CASE r = "exist"
  <2>1. /\ loc[p] = "create" => loc'[p] = "undo"
        /\ loc[p] = "conv" => loc'[p] = "convundo"
        /\ st'[p] = "start"
    BY <1>1 DEF LinkDone, Enter, TypeOK, Links
  <2>2. tries'[p] = 0 => loc[p] = "create" /\ list'[p] = << >>
    BY DEF FirstOk, Dialing, Rest, Links
  <2> QED BY <2>1, <2>2 DEF FirstOk, Dialing, Links
<1>2. CASE r # "exist"
  <2>1. /\ loc' = loc /\ todo'[p] = todo[p] \ {i} /\ st'[p] = "start"
        /\ locked'[p] = IF r = "ok" THEN locked[p] \cup {i} ELSE locked[p]
    BY <1>2 DEF LinkDone, Advance, TypeOK
  <2>2. loc[p] = "conv" => \A j \in todo'[p] : file'[<<"csy", j>>] = p
    BY <2>1, CsyFiles DEF FirstOk, KeepsBut
  <2>3. CASE tries[p] = 0
    <3>1. loc[p] = "create" /\ list[p] = << >> /\ want[p]
      BY <2>3 DEF FirstOk, Dialing, Links
    <3>2. \A j \in locked'[p] : file'[<<"csy", j>>] = p
      BY <2>1, <2>3, <3>1, CsyFiles DEF FirstOk, Dialing, KeepsBut
    <3>3. Dialing(p)'
      BY <2>1, <3>1, <3>2 DEF Dialing, Rest
    <3> QED BY <2>1, <2>2, <3>3 DEF FirstOk, Rest
  <2>4. CASE tries[p] # 0
    BY <2>1, <2>2, <2>4 DEF FirstOk, Rest
  <2> QED BY <2>3, <2>4
<1> QED BY <1>1, <1>2

LEMMA LinkResultFirst ==
  ASSUME TypeOK, NEW p \in Procs, FirstOk(p), UNCHANGED Rest, NEW i \in Out, NEW r \in Results,
         loc[p] \in Links, LinkResult(p, i, r), KeepsBut(p, {}),
         r = "ok" /\ loc[p] = "create" /\ want[p] => file'[<<"csy", i>>] = p
  PROVE  FirstOk(p)'
<1>1. CASE loc[p] = "conv"
  <2>1. loc' = loc /\ todo' = todo /\ locked' = locked /\ st'[p] = "rmtmp"
    BY <1>1 DEF LinkResult, Goto, TypeOK
  <2> QED BY <2>1, StaysFirst
<1>2. CASE loc[p] # "conv"
  BY <1>2, LinkDoneFirst DEF LinkResult
<1> QED BY <1>1, <1>2

LEMMA CheckedFirst ==
  ASSUME TypeOK, NEW p \in Procs, FirstOk(p), UNCHANGED Rest, NEW i \in Out,
         NEW r \in {"ok", "our", "exist", "error"}, Checked(p, i, r),
         KeepsBut(p, {}), r = "our" => file'[Target(p, i)] = p
  PROVE  FirstOk(p)'
<1>1. CASE loc[p] \in Checks /\ Enter(p, "undo", locked[p])
  <2>1. loc'[p] = "undo" /\ st'[p] = "start"
    BY <1>1 DEF Enter, TypeOK
  <2>2. tries'[p] = 0 => list'[p] = << >>
    BY <1>1 DEF FirstOk, Dialing, Rest, Checks
  <2> QED BY <2>1, <2>2 DEF FirstOk, Dialing
<1>2. CASE loc[p] \in Checks /\ Advance(p, i) /\ UNCHANGED locked
  <2>1. loc' = loc /\ locked' = locked /\ st'[p] = "start"
    BY <1>2 DEF Advance, TypeOK
  <2>2. tries[p] = 0 => Dialing(p)'
    BY <1>2, <2>1, CsyFiles DEF FirstOk, Dialing, Rest, Checks, KeepsBut
  <2> QED BY <1>2, <2>1, <2>2 DEF FirstOk, Rest, Checks
<1>3. CASE loc[p] \in Links /\ Goto(p, "relink") /\ UNCHANGED locked
  <2>1. loc' = loc /\ todo' = todo /\ locked' = locked /\ st'[p] = "relink"
    BY <1>3 DEF Goto, TypeOK
  <2> QED BY <2>1, StaysFirst
<1>4. CASE loc[p] \in Links /\ r # "ok" /\ LinkResult(p, i, IF r = "our" THEN "ok" ELSE r)
  <2>1. (IF r = "our" THEN "ok" ELSE r) \in Results
    BY <1>4 DEF Results
  <2>2. r = "our" /\ loc[p] = "create" /\ want[p] => file'[<<"csy", i>>] = p
    BY DEF Target
  <2> QED BY <1>4, <2>1, <2>2, LinkResultFirst
<1> QED BY <1>1, <1>2, <1>3, <1>4 DEF Checked

\* A removal that is through with outbound i holds on to nothing.
LEMMA RemovalFirst ==
  ASSUME TypeOK, NEW p \in Procs, FirstOk(p), UNCHANGED Rest, NEW i \in Out,
         loc[p] \in Removals, Advance(p, i), UNCHANGED locked
  PROVE  FirstOk(p)'
<1>1. loc' = loc /\ st'[p] = "start"
  BY DEF Advance, TypeOK
<1>2. tries[p] = 0 => Dialing(p)'
  BY <1>1 DEF FirstOk, Dialing, Rest, Removals
<1> QED BY <1>1, <1>2 DEF FirstOk, Rest, Removals

LEMMA PlockFirst ==
  ASSUME IInv, First, foul = {}, \A q \in Procs : FirstOk(q), NEW p \in Procs, Plock(p)
  PROVE  FirstOk(p)' /\ Gentle(p)
<1>0. TypeOK /\ FirstOk(p) /\ Position(p) /\ PosType
  BY TypePos DEF IInv
<1>1. PICK i \in Out : \/ Read(p, i) \/ Kill(p, i) \/ UnlinkStale(p, i) \/ Link(p, i)
                       \/ RemoveTmp(p, i) \/ RemoveRead(p, i) \/ RemoveUnlink(p, i)
  BY DEF Plock
<1>2. Turn(p, i) /\ UNCHANGED Rest /\ Target(p, i) \in Files /\ <<"csy", i>> \in Files
  BY <1>1, TargetType DEF Read, Kill, UnlinkStale, Link, RemoveTmp, RemoveRead, RemoveUnlink,
                          Rest, Files, Ext
<1>3. UNCHANGED <<file, foul>> => Gentle(p) /\ KeepsBut(p, {})
  BY DEF Gentle, KeepsBut
<1>4. CASE Read(p, i)
  <2>1. UNCHANGED <<file, foul>>
    BY <1>4 DEF Read
  <2>2. CASE file[Target(p, i)] \in {NoPid, p}
    <3> DEFINE r == IF file[Target(p, i)] = p THEN "our" ELSE "ok"
    <3>1. Checked(p, i, r)
      BY <1>4, <2>2 DEF Read
    <3>2. r \in {"ok", "our", "exist", "error"} /\ (r = "our" => file'[Target(p, i)] = p)
      BY <2>1
    <3> HIDE DEF r
    <3> QED BY <1>0, <1>2, <1>3, <2>1, <3>1, <3>2, CheckedFirst
  <2>3. CASE file[Target(p, i)] \notin {NoPid, p}
    <3>1. Goto(p, "kill") /\ UNCHANGED locked /\ seen' = [seen EXCEPT ![p] = file[Target(p, i)]]
      BY <1>4, <2>3 DEF Read
    <3>2. /\ loc' = loc /\ todo' = todo /\ locked' = locked
          /\ st'[p] = "kill" /\ seen'[p] \in Procs
      BY <1>0, <1>2, <2>3, <3>1 DEF Goto, TypeOK
    <3> QED BY <1>0, <1>2, <1>3, <2>1, <3>2, StaysFirst
  <2> QED BY <2>2, <2>3
<1>5. CASE Kill(p, i)
  <2>1. UNCHANGED <<file, foul>> /\ seen[p] \in alive
    BY <1>0, <1>5 DEF Kill, First, FirstOk
  <2>2. Checked(p, i, "exist")
    BY <1>5, <2>1 DEF Kill
  <2> QED BY <1>0, <1>2, <1>3, <2>1, <2>2, CheckedFirst
<1>6. CASE UnlinkStale(p, i)
  BY <1>0, <1>6 DEF UnlinkStale, FirstOk
<1>7. CASE Link(p, i)
  <2> DEFINE f == Target(p, i)
  <2>0. loc[p] \in Links
    BY <1>7 DEF Link
  <2>1. CASE UNCHANGED <<file, foul>> /\ LinkResult(p, i, "error")
    BY <1>0, <1>2, <1>3, <2>0, <2>1, LinkResultFirst DEF Results
  <2>2. CASE UNCHANGED <<file, foul>> /\ Goto(p, "exist") /\ UNCHANGED locked
    <3>1. loc' = loc /\ todo' = todo /\ st'[p] = "exist"
      BY <1>0, <2>2 DEF Goto, TypeOK
    <3> QED BY <1>0, <1>2, <1>3, <2>2, <3>1, StaysFirst
  <2>3. CASE /\ file[f] = NoPid /\ file' = [file EXCEPT ![f] = p] /\ foul' = foul
             /\ LinkResult(p, i, "ok")
    <3>1. \A q \in Procs, g \in Files : file[g] = q => file'[g] = q
      BY <1>0, <2>3, PidAssumption DEF TypeOK
    <3>2. KeepsBut(p, {}) /\ Gentle(p)
      BY <2>3, <3>1 DEF KeepsBut, Gentle
    <3>3. loc[p] = "create" /\ want[p] => file'[<<"csy", i>>] = p
      BY <1>0, <1>2, <2>3 DEF Target, TypeOK
    <3> QED BY <1>0, <1>2, <2>0, <2>3, <3>2, <3>3, LinkResultFirst DEF Results
  <2>4. loc[p] = "conv" => file[<<"csy", i>>] = p
    BY <1>0, <1>2 DEF FirstOk, Turn
  <2>5. NoPid # p
    BY PidAssumption
  <2> HIDE DEF f
  <2> QED BY <1>7, <2>1, <2>2, <2>3, <2>4, <2>5 DEF f, Link
<1>8. CASE RemoveTmp(p, i)
  <2>1. /\ loc[p] = "conv" /\ file' = [file EXCEPT ![<<"csy", i>>] = NoPid]
        /\ LinkDone(p, i, res[p]) /\ res[p] \in Results
    BY <1>0, <1>8 DEF RemoveTmp, Position, PosType
  <2>2. file[<<"csy", i>>] = p
    BY <1>0, <1>2, <2>1 DEF FirstOk, Turn
  <2>3. foul' = foul
    BY <1>8, <2>2 DEF RemoveTmp
  <2>4. Gentle(p) /\ KeepsBut(p, {<<"csy", i>>})
    BY <1>0, <2>1, <2>2, <2>3 DEF Gentle, KeepsBut, TypeOK
  <2> QED BY <1>0, <1>2, <2>1, <2>4, LinkDoneFirst DEF Links
<1>9. CASE RemoveRead(p, i)
  <2>1. UNCHANGED <<file, foul, locked>> /\ loc[p] \in Removals
    BY <1>9 DEF RemoveRead
  <2>2. CASE file[Target(p, i)] = p /\ Goto(p, "rm")
    <3>1. loc' = loc /\ todo' = todo /\ st'[p] = "rm"
      BY <1>0, <2>2 DEF Goto, TypeOK
    <3>2. ASSUME NEW j \in Out, Turn(p, j)' PROVE file'[Target(p, j)'] = p
      <4>1. Turn(p, j)
        BY <1>2, <3>1, <3>2 DEF Turn, Rest
      <4>2. j = i
        BY <1>2, <4>1, TurnUnique
      <4>3. Target(p, i)' = Target(p, i)
        BY <1>2, <3>1 DEF Target, Rest
      <4> QED BY <2>1, <2>2, <4>2, <4>3
    <3>3. Dialing(p) => Dialing(p)'
      BY <1>2, <2>1, <3>1 DEF Dialing, Rest, Removals
    <3> QED BY <1>0, <1>2, <1>3, <2>1, <3>1, <3>2, <3>3 DEF FirstOk, Rest, Removals
  <2>3. CASE Advance(p, i)
    BY <1>0, <1>2, <1>3, <2>1, <2>3, RemovalFirst
  <2> QED BY <1>9, <2>2, <2>3 DEF RemoveRead
<1>10. CASE RemoveUnlink(p, i)
  <2>1. /\ file' = [file EXCEPT ![Target(p, i)] = NoPid]
        /\ loc[p] \in Removals /\ Advance(p, i) /\ UNCHANGED locked
    BY <1>0, <1>10 DEF RemoveUnlink, Position
  <2>2. file[Target(p, i)] = p
    BY <1>0, <1>2, <1>10 DEF RemoveUnlink, FirstOk
  <2>3. Gentle(p)
    BY <1>0, <1>10, <2>1, <2>2 DEF RemoveUnlink, Gentle, TypeOK
  <2> QED BY <1>0, <1>2, <2>1, <2>3, RemovalFirst
<1> QED BY <1>1, <1>4, <1>5, <1>6, <1>7, <1>8, <1>9, <1>10

LEMMA LoopUseFirst ==
  ASSUME IInv, First, First', foul = {}, \A q \in Procs : FirstOk(q), NEW p \in Procs,
         Loop(p) \/ Use(p) \/ Crash(p)
  PROVE  FirstOk(p)' /\ Gentle(p)
<1>0. TypeOK /\ FirstOk(p) /\ Position(p) /\ list[p] \in Seq(Entry)
  BY DEF IInv, TypeOK
<1>1. UNCHANGED <<file, foul>> /\ p \in alive /\ st'[p] = "start"
  BY <1>0 DEF Loop, Use, Crash, LoopOver, CheckNext, CheckEnd, CreateEnd, LockSuccess, LockFail,
         ConvertSuccess, UnlockNext, CallSystem, Handshake, DaemonCheck, UnlockAll, StartLock,
         Enter, TypeOK
<1>2. Gentle(p)
  BY <1>1 DEF Gentle
<1>3. ASSUME tries'[p] = 0 => Dialing(p)', loc'[p] # "conv"
      PROVE  FirstOk(p)'
  BY <1>1, <1>3 DEF FirstOk
<1>4. CASE CheckNext(p) \/ DaemonCheck(p)
  <2>1. /\ UNCHANGED <<list, want, tries>>
        /\ \/ loc[p] = "chkbsy" /\ loc'[p] = "chkcsy"
           \/ p \in Daemons /\ loc[p] = "new" /\ loc'[p] = "chkbsy"
    BY <1>0, <1>4 DEF CheckNext, DaemonCheck, Enter, TypeOK
  <2>2. tries'[p] = 0 => Dialing(p)'
    BY <1>0, <2>1 DEF FirstOk, Dialing
  <2> QED BY <1>2, <1>3, <2>1, <2>2
<1>5. CASE CheckEnd(p)
  <2>1. /\ UNCHANGED <<list, want, tries, locked>> /\ loc[p] = "chkcsy" /\ locked[p] = {}
        /\ loc'[p] = IF p \in Daemons THEN "new" ELSE "create"
    BY <1>0, <1>5 DEF CheckEnd, Enter, TypeOK, Position
  <2>2. tries'[p] = 0 => Dialing(p)'
    BY <1>0, <2>1 DEF FirstOk, Dialing
  <2> QED BY <1>2, <1>3, <2>1, <2>2
<1>6. CASE CreateEnd(p)
  <2>1. /\ UNCHANGED <<list, want, tries, locked>> /\ loc[p] = "create" /\ loc'[p] = "recheck"
    BY <1>0, <1>6 DEF CreateEnd, Enter, TypeOK
  <2>2. tries'[p] = 0 => Dialing(p)'
    BY <1>0, <1>1, <2>1 DEF FirstOk, Dialing
  <2> QED BY <1>2, <1>3, <2>1, <2>2
<1>7. CASE LockSuccess(p)
  <2> DEFINE x == [csy |-> want[p], names |-> locked[p]]
  <2>1. /\ list'[p] = Append(list[p], x) /\ UNCHANGED <<want, tries, locked>>
        /\ loc[p] = "recheck" /\ loc'[p] = IF want[p] THEN "dial" ELSE "session"
    BY <1>0, <1>7 DEF LockSuccess, Enter, TypeOK
  <2>2. ASSUME tries[p] = 0 PROVE Dialing(p)'
    <3>1. list[p] = << >> /\ want[p] /\ \A j \in locked[p] : file[<<"csy", j>>] = p
      BY <1>0, <2>1, <2>2 DEF FirstOk, Dialing
    <3>2. x \in Entry /\ x.names = locked[p]
      BY <1>0 DEF TypeOK, Entry
    <3> HIDE DEF x
    <3>3. DOMAIN list'[p] = {1} /\ list'[p][1] = x
      BY <2>1, <3>1, <3>2
    <3>4. CsyNames(p)' \subseteq locked[p]
      BY <3>2, <3>3 DEF CsyNames
    <3> QED BY <1>1, <2>1, <3>1, <3>4 DEF Dialing
  <2> QED BY <1>2, <1>3, <2>1, <2>2
<1>8. CASE LockFail(p)
  <2>1. /\ UNCHANGED <<list, want, tries>> /\ loc[p] \in {"undo", "convundo"}
        /\ loc'[p] \in {"new", "between"}
    BY <1>0, <1>8 DEF LockFail, Enter, TypeOK
  <2>2. tries'[p] = 0 => Dialing(p)'
    BY <1>0, <2>1 DEF FirstOk, Dialing
  <2> QED BY <1>2, <1>3, <2>1, <2>2
<1>9. CASE ConvertSuccess(p)
  <2>1. tries' = tries /\ loc[p] = "conv" /\ loc'[p] = "session"
    BY <1>0, <1>9 DEF ConvertSuccess, Enter, TypeOK
  <2>2. tries[p] # 0
    BY <1>0, <2>1 DEF FirstOk, Dialing
  <2> QED BY <1>2, <1>3, <2>1, <2>2
<1>10. CASE UnlockNext(p)
  <2>1. tries' = tries /\ bye' = bye /\ loc[p] = "unlock" /\ ~(bye[p] /\ loc'[p] # "unlock")
        /\ loc'[p] \in {"unlock", "exited", "between"}
    <3>1. alive' = alive
      BY <1>1 DEF First
    <3> QED BY <1>0, <1>1, <1>10, <3>1 DEF UnlockNext, Enter, TypeOK
  <2>2. tries'[p] = 0 => Dialing(p)'
    BY <1>0, <2>1 DEF FirstOk, Dialing
  <2> QED BY <1>2, <1>3, <2>1, <2>2
<1>11. CASE CallSystem(p)
  <2>1. UNCHANGED <<list, tries>> /\ want'[p] = TRUE /\ loc[p] = "new" /\ loc'[p] = "chkbsy"
    BY <1>0, <1>11 DEF CallSystem, StartLock, Enter, TypeOK
  <2>2. tries'[p] = 0 => Dialing(p)'
    BY <1>0, <2>1 DEF FirstOk, Dialing
  <2> QED BY <1>2, <1>3, <2>1, <2>2
<1>12. CASE Handshake(p)
  <2>1. tries'[p] = tries[p] + 1 /\ tries'[p] <= 1 /\ tries[p] \in Nat
    BY <1>0, <1>12 DEF Handshake, First, TypeOK
  <2>2. tries[p] = 0 /\ tries'[p] # 0
    BY <2>1
  <2>3. /\ list[p] # << >> => loc[p] = "dial"
    BY <1>0, <1>12, <2>2 DEF Handshake, FirstOk, Dialing
  <2>4. loc'[p] = "conv" => list[p] # << >> /\ todo'[p] = CsyNames(p)
    BY <1>0, <1>12 DEF Handshake, StartLock, Enter, TypeOK, CsyNames
  <2>5. loc'[p] = "conv" => \A j \in todo'[p] : file'[<<"csy", j>>] = p
    BY <1>0, <1>1, <2>2, <2>3, <2>4 DEF FirstOk, Dialing
  <2> QED BY <1>1, <1>2, <2>2, <2>5 DEF FirstOk
<1>13. ASSUME NEW last \in BOOLEAN, UnlockAll(p, last)
       PROVE  FirstOk(p)'
  <2>1. tries' = tries /\ loc'[p] = "unlock" /\ bye'[p] = last /\ (last \/ tries[p] > 0)
    BY <1>0, <1>13 DEF UnlockAll, Enter, TypeOK
  <2>2. tries'[p] = 0 => Dialing(p)'
    BY <2>1 DEF Dialing
  <2> QED BY <1>3, <2>1, <2>2
<1>14. CASE Crash(p)
  BY <1>1, <1>14 DEF Crash, First
<1> QED BY <1>2, <1>4, <1>5, <1>6, <1>7, <1>8, <1>9, <1>10, <1>11, <1>12, <1>13, <1>14
        DEF Loop, Use

\* Who has died stays dead, and handshakes are only counted up.
LEMMA FirstBefore == TypeOK /\ Next /\ First' => First
<1> SUFFICES ASSUME TypeOK, First', NEW p \in Procs, Plock(p) \/ Loop(p) \/ Use(p) \/ Crash(p)
             PROVE  First
  BY DEF Next
<1>1. alive' \subseteq alive
  BY DEF Plock, Read, Kill, UnlinkStale, Link, RemoveTmp, RemoveRead, RemoveUnlink, Loop, Use,
         Crash, CheckNext, CheckEnd, CreateEnd, LockSuccess, LockFail, ConvertSuccess,
         UnlockNext, CallSystem, Handshake, DaemonCheck, UnlockAll, StartLock
<1>2. tries' = tries \/ tries' = [tries EXCEPT ![p] = @ + 1]
  BY DEF Plock, Read, Kill, UnlinkStale, Link, RemoveTmp, RemoveRead, RemoveUnlink, Loop, Use,
         Crash, CheckNext, CheckEnd, CreateEnd, LockSuccess, LockFail, ConvertSuccess,
         UnlockNext, CallSystem, Handshake, DaemonCheck, UnlockAll, StartLock
<1>3. \A q \in Procs : tries[q] \in Int
  BY MethAssumption DEF TypeOK
<1>4. ASSUME NEW q \in Procs PROVE tries[q] <= 1
  <2>1. tries'[q] <= 1
    BY DEF First
  <2>2. CASE tries' = tries
    BY <2>1, <2>2
  <2>3. CASE tries' = [tries EXCEPT ![p] = @ + 1]
    <3>1. tries'[q] = tries[q] \/ tries'[q] = tries[q] + 1
      BY <2>3 DEF TypeOK
    <3> QED BY <1>3, <2>1, <3>1
  <2> QED BY <1>2, <2>2, <2>3
<1> QED BY <1>1, <1>4 DEF First, TypeOK

\* A step of p leaves the other locals of the others alone, too.
LEMMA OtherLocals ==
  ASSUME TypeOK, NEW p \in Procs, Plock(p) \/ Loop(p) \/ Use(p) \/ Crash(p), NEW q \in Procs \ {p}
  PROVE  seen'[q] = seen[q] /\ list'[q] = list[q] /\ tries'[q] = tries[q] /\ bye'[q] = bye[q]
<1>1. CASE Plock(p)
  BY <1>1 DEF Plock, Read, Kill, UnlinkStale, Link, RemoveTmp, RemoveRead, RemoveUnlink, TypeOK
<1>2. CASE Loop(p) \/ Use(p) \/ Crash(p)
  BY <1>2 DEF Loop, Use, Crash, CheckNext, CheckEnd, CreateEnd, LockSuccess, LockFail,
         ConvertSuccess, UnlockNext, CallSystem, Handshake, DaemonCheck, UnlockAll, StartLock,
         TypeOK
<1> QED BY <1>1, <1>2

\* As long as no process has died or exited, and none has begun a second handshake,
\* no process unlinks or links a lock that is another's, for any number of
\* processes and outbounds.
THEOREM FirstHandshakes == Spec => []LiveLocksUntouched
<1>1. Init => FirstInv
  BY DEF Init, FirstInv, FirstOk, Dialing, CsyNames, Rest
<1>2. IInv /\ FirstInv /\ [Next]_vars => FirstInv'
  <2> SUFFICES ASSUME IInv, FirstInv, [Next]_vars, First'
               PROVE  foul' = {} /\ \A q \in Procs : FirstOk(q)'
    BY DEF FirstInv
  <2>1. CASE UNCHANGED vars
    BY <2>1 DEF vars, FirstInv, First, FirstOk, Dialing, CsyNames, Turn, Target
  <2>2. ASSUME NEW p \in Procs, Plock(p) \/ Loop(p) \/ Use(p) \/ Crash(p)
        PROVE  foul' = {} /\ \A q \in Procs : FirstOk(q)'
    <3>1. First /\ foul = {} /\ (\A q \in Procs : FirstOk(q)) /\ TypeOK
      BY <2>2, FirstBefore DEF Next, FirstInv, IInv
    <3>2. FirstOk(p)' /\ Gentle(p) /\ OthersStill(p)
      BY <2>2, <3>1, PlockFirst, LoopUseFirst, PlockInv, LoopUseInv
    <3>3. ASSUME NEW q \in Procs \ {p} PROVE FirstOk(q)'
      BY <2>2, <3>1, <3>2, FirstFrame, OtherLocals
    <3> QED BY <3>1, <3>2, <3>3 DEF Gentle
  <2> QED BY <2>1, <2>2 DEF Next
<1>3. FirstInv => LiveLocksUntouched
  BY DEF FirstInv, First, LiveLocksUntouched
<1> QED BY <1>1, <1>2, <1>3, Inductive, PTL DEF Spec
=============================================================================

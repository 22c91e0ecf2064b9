------------------------------- MODULE BsyLock -------------------------------
(***************************************************************************)
(* The address locks of the outbound: bforce/outb_bsy.c on top of the pid  *)
(* lock files of bforce/u_plock.c, as the mailer's processes use them.     *)
(*                                                                         *)
(* One FTN address is modelled.  Its lock file has a name in each of the   *)
(* configured outbounds (4D, domain, AmigaDOS: 1..NOut, in the order the   *)
(* code visits them), with extension .csy while a caller dials and .bsy    *)
(* during a session.  A lock file holds the pid of the process that linked *)
(* it.  Processes are a caller (sess_call.c), an answering process         *)
(* (sess_answ.c) or the daemon, which only looks (daemon_call.c).  Steps   *)
(* are system calls: processes interleave between any two of them.         *)
(***************************************************************************)
EXTENDS Integers, Sequences

CONSTANTS
  Callers,    \* processes that run call_system()
  Answerers,  \* processes that run answ_system()
  Daemons,    \* processes that only run out_bsy_check()
  NOut,       \* number of configured outbounds
  Dirs,       \* the outbounds whose directory for the address exists
  Methods,    \* bound: connection methods a caller may try (at most 5)
  MayCrash,   \* the processes that may die without unlocking
  NoPid       \* "there is no such file"

Procs == Callers \cup Answerers \cup Daemons
Out   == 1..NOut
Ext   == {"bsy", "csy"}
Files == Ext \X Out

ASSUME OutAssumption   == NOut \in Nat \ {0} /\ Dirs \subseteq Out
ASSUME MethAssumption  == Methods \in Nat \ {0}
ASSUME PidAssumption   == NoPid \notin Procs
ASSUME RoleAssumption  == /\ Callers \cap Answerers = {}
                          /\ Daemons \cap (Callers \cup Answerers) = {}

VARIABLES
  file,    \* lock file -> pid in it, or NoPid
  alive,   \* the processes kill(pid, 0) finds
  loc,     \* where in outb_bsy.c, or in its caller, a process is
  st,      \* where in u_plock.c it is
  todo,    \* outbounds its current loop has still to visit
  seen,    \* pid it read from the lock file, until it has used it
  res,     \* result plock_link() will return once it has removed tmpname
  want,    \* csy_locks, the parameter of out_bsy_lock()
  locked,  \* locked_4d, locked_domain, locked_amiga of the last call
  list,    \* bsylist
  tries,   \* handshakes begun
  bye,     \* this out_bsy_unlockall() is the last one before exit
  foul     \* history: files a process unlinked or linked that were another live process's

vars == <<file, alive, loc, st, todo, seen, res, want, locked, list, tries, bye, foul>>

Checks   == {"chkbsy", "chkcsy", "recheck"}
Links    == {"create", "conv"}
Removals == {"undo", "convundo", "unlock"}
Rests    == {"new", "dial", "between", "session"}
Locs     == Checks \cup Links \cup Removals \cup Rests \cup {"exited", "crashed"}
Steps    == {"start", "exist", "kill", "stale", "relink", "rmtmp", "rm"}
Results  == {"none", "ok", "exist", "error"}
Entry    == [csy : BOOLEAN, names : SUBSET Out]

TypeOK ==
  /\ file \in [Files -> Procs \cup {NoPid}]
  /\ alive \in SUBSET Procs
  /\ loc \in [Procs -> Locs]
  /\ st \in [Procs -> Steps]
  /\ todo \in [Procs -> SUBSET Out]
  /\ seen \in [Procs -> Procs \cup {NoPid}]
  /\ res \in [Procs -> Results]
  /\ want \in [Procs -> BOOLEAN]
  /\ locked \in [Procs -> SUBSET Out]
  /\ list \in [Procs -> Seq(Entry)]
  /\ tries \in [Procs -> 0..Methods]
  /\ bye \in [Procs -> BOOLEAN]
  /\ foul \in SUBSET Files

Init ==
  /\ file = [f \in Files |-> NoPid]
  /\ alive = Procs
  /\ loc = [p \in Procs |-> "new"]
  /\ st = [p \in Procs |-> "start"]
  /\ todo = [p \in Procs |-> {}]
  /\ seen = [p \in Procs |-> NoPid]
  /\ res = [p \in Procs |-> "none"]
  /\ want = [p \in Procs |-> FALSE]
  /\ locked = [p \in Procs |-> {}]
  /\ list = [p \in Procs |-> << >>]
  /\ tries = [p \in Procs |-> 0]
  /\ bye = [p \in Procs |-> FALSE]
  /\ foul = {}

-----------------------------------------------------------------------------
(* Program position.                                                       *)

\* p's loop at l has the outbounds S to visit.
Enter(p, l, S) ==
  /\ loc' = [loc EXCEPT ![p] = l]
  /\ todo' = [todo EXCEPT ![p] = S]
  /\ st' = [st EXCEPT ![p] = "start"]

\* p's loop is through with outbound i.
Advance(p, i) ==
  /\ todo' = [todo EXCEPT ![p] = @ \ {i}]
  /\ st' = [st EXCEPT ![p] = "start"]
  /\ UNCHANGED loc

\* p goes on to step s of u_plock.c for the same outbound.
Goto(p, s) == st' = [st EXCEPT ![p] = s] /\ UNCHANGED <<loc, todo>>

\* Outbounds are visited in the order 4D, domain, AmigaDOS.
Turn(p, i) == p \in alive /\ i \in todo[p] /\ \A j \in todo[p] : i <= j

\* The lock file p is working on when it is at outbound i.
Target(p, i) ==
  IF \/ loc[p] = "chkcsy"
     \/ loc[p] \in {"create", "undo"} /\ want[p]
     \/ loc[p] = "unlock" /\ Head(list[p]).csy
    THEN <<"csy", i>> ELSE <<"bsy", i>>

-----------------------------------------------------------------------------
(* u_plock.c                                                               *)

\* What out_bsy_lock() and out_bsy_convert_csy_to_bsy() do with the result r
\* of out_bsy_file_create() and LINK_CSY_TO_BSY().
LinkDone(p, i, r) ==
  IF r = "exist"
    THEN /\ Enter(p, IF loc[p] = "conv" THEN "convundo" ELSE "undo", locked[p])
         /\ UNCHANGED locked
    ELSE /\ Advance(p, i)
         /\ locked' = [locked EXCEPT ![p] = IF r = "ok" THEN @ \cup {i} ELSE @]

\* plock_link() ends by removing tmpname.  Of plock_create() that is a private
\* file; of a conversion it is the .csy lock itself, which others look at.
LinkResult(p, i, r) ==
  IF loc[p] = "conv"
    THEN Goto(p, "rmtmp") /\ res' = [res EXCEPT ![p] = r] /\ UNCHANGED locked
    ELSE LinkDone(p, i, r) /\ UNCHANGED res

\* What the callers of plock_check() do with its result r.
Checked(p, i, r) ==
  \/ /\ loc[p] \in Checks /\ r = "exist"
     /\ Enter(p, "undo", locked[p]) /\ UNCHANGED <<res, locked>>
  \/ /\ loc[p] \in Checks /\ r # "exist"
     /\ Advance(p, i) /\ UNCHANGED <<res, locked>>
  \/ /\ loc[p] \in Links /\ r = "ok"
     /\ Goto(p, "relink") /\ UNCHANGED <<res, locked>>
  \/ /\ loc[p] \in Links /\ r # "ok"
     /\ LinkResult(p, i, IF r = "our" THEN "ok" ELSE r)

\* plock_check() up to plock_read(): stat, open and read the pid.
Read(p, i) ==
  LET f == Target(p, i) IN
  /\ Turn(p, i)
  /\ (loc[p] \in Checks /\ st[p] = "start") \/ (loc[p] \in Links /\ st[p] = "exist")
  /\ IF file[f] \in {NoPid, p}
       THEN /\ Checked(p, i, IF file[f] = p THEN "our" ELSE "ok")
            /\ UNCHANGED seen
       ELSE /\ Goto(p, "kill")
            /\ seen' = [seen EXCEPT ![p] = file[f]]
            /\ UNCHANGED <<res, locked>>
  /\ UNCHANGED <<file, alive, want, list, tries, bye, foul>>

\* Kill with the result of kill() taken for ESRCH whatever errno says.
Kill_AnyErrno(p, i) ==
  /\ Turn(p, i) /\ st[p] = "kill"
  /\ Goto(p, "stale")
  /\ seen' = [seen EXCEPT ![p] = NoPid]
  /\ UNCHANGED <<file, alive, res, want, locked, list, tries, bye, foul>>

\* Kill that waits for a live holder instead of giving up.
Kill_Waits(p, i) ==
  /\ Turn(p, i) /\ st[p] = "kill"
  /\ Goto(p, IF seen[p] \notin alive THEN "stale"
             ELSE IF loc[p] \in Checks THEN "start" ELSE "exist")
  /\ seen' = [seen EXCEPT ![p] = NoPid]
  /\ UNCHANGED <<file, alive, res, want, locked, list, tries, bye, foul>>

\* kill(pid, 0) with the pid read a moment ago.
Kill(p, i) ==
  /\ Turn(p, i) /\ st[p] = "kill"
  /\ IF seen[p] \in alive
       THEN Checked(p, i, "exist")
       ELSE Goto(p, "stale") /\ UNCHANGED <<res, locked>>
  /\ seen' = [seen EXCEPT ![p] = NoPid]
  /\ UNCHANGED <<file, alive, want, list, tries, bye, foul>>

\* unlink(lockname) because that pid is gone, whatever is in the file by now.
UnlinkStale(p, i) ==
  LET f == Target(p, i) IN
  /\ Turn(p, i) /\ st[p] = "stale"
  /\ file' = [file EXCEPT ![f] = NoPid]
  /\ foul' = IF file[f] \in alive THEN foul \cup {f} ELSE foul
  /\ Checked(p, i, IF file[f] = NoPid THEN "error" ELSE "ok")
  /\ UNCHANGED <<alive, seen, want, list, tries, bye>>

\* Link by rename(), which replaces a lock file that exists.
Link_Rename(p, i) ==
  LET tmp == IF loc[p] = "conv" THEN file[<<"csy", i>>]
             ELSE IF i \in Dirs THEN p ELSE NoPid
  IN
  /\ Turn(p, i) /\ loc[p] \in Links /\ st[p] \in {"start", "relink"}
  /\ file' = IF tmp # NoPid THEN [file EXCEPT ![Target(p, i)] = tmp] ELSE file
  /\ LinkResult(p, i, IF tmp # NoPid THEN "ok" ELSE "error")
  /\ UNCHANGED <<alive, seen, want, list, tries, bye, foul>>

\* link(tmpname, lockname), the first or (st = "relink") the second time.  The
\* temporary file of plock_create() holds p's pid and can be written only where
\* the directory exists; that of a conversion is the .csy file as it is now.
Link(p, i) ==
  LET f    == Target(p, i)
      conv == loc[p] = "conv"
      tmp  == IF conv THEN file[<<"csy", i>>] ELSE IF i \in Dirs THEN p ELSE NoPid
  IN
  /\ Turn(p, i) /\ loc[p] \in Links /\ st[p] \in {"start", "relink"}
  /\ IF tmp # NoPid /\ file[f] = NoPid
       THEN /\ file' = [file EXCEPT ![f] = tmp]
            /\ foul' = IF tmp # p THEN foul \cup {<<"csy", i>>} ELSE foul
            /\ LinkResult(p, i, "ok")
       ELSE /\ IF tmp # NoPid /\ st[p] = "start"
                 THEN Goto(p, "exist") /\ UNCHANGED <<res, locked>>
                 ELSE LinkResult(p, i, "error")
            /\ UNCHANGED <<file, foul>>
  /\ UNCHANGED <<alive, seen, want, list, tries, bye>>

\* unlink(tmpname) of a conversion: the .csy lock, whatever plock_link() returns.
RemoveTmp(p, i) ==
  LET f == <<"csy", i>> IN
  /\ Turn(p, i) /\ st[p] = "rmtmp"
  /\ file' = [file EXCEPT ![f] = NoPid]
  /\ foul' = IF file[f] \in alive \ {p} THEN foul \cup {f} ELSE foul
  /\ LinkDone(p, i, res[p])
  /\ res' = [res EXCEPT ![p] = "none"]
  /\ UNCHANGED <<alive, seen, want, list, tries, bye>>

\* plock_remove() up to plock_read(): only our own lock is removed.
RemoveRead(p, i) ==
  /\ Turn(p, i) /\ loc[p] \in Removals /\ st[p] = "start"
  /\ IF file[Target(p, i)] = p THEN Goto(p, "rm") ELSE Advance(p, i)
  /\ UNCHANGED <<file, alive, seen, res, want, locked, list, tries, bye, foul>>

\* The unlink() of plock_remove().
RemoveUnlink(p, i) ==
  LET f == Target(p, i) IN
  /\ Turn(p, i) /\ st[p] = "rm"
  /\ file' = [file EXCEPT ![f] = NoPid]
  /\ foul' = IF file[f] \in alive \ {p} THEN foul \cup {f} ELSE foul
  /\ Advance(p, i)
  /\ UNCHANGED <<alive, seen, res, want, locked, list, tries, bye>>

-----------------------------------------------------------------------------
(* outb_bsy.c: from one loop over the outbounds to the next.               *)

LoopOver(p) == p \in alive /\ todo[p] = {} /\ st[p] = "start"

\* .bsy files are checked before .csy files, and both before creation.
CheckNext(p) ==
  /\ LoopOver(p) /\ loc[p] = "chkbsy"
  /\ Enter(p, "chkcsy", Out)
  /\ UNCHANGED <<file, alive, seen, res, want, locked, list, tries, bye, foul>>

\* CheckEnd with a loop over one outbound too many.
CheckEnd_OffByOne(p) ==
  /\ LoopOver(p) /\ loc[p] = "chkcsy"
  /\ IF p \in Daemons THEN Enter(p, "new", {}) ELSE Enter(p, "create", 0..NOut)
  /\ UNCHANGED <<file, alive, seen, res, want, locked, list, tries, bye, foul>>

\* Nothing is locked: out_bsy_check() returns 0, out_bsy_lock() goes on to create.
CheckEnd(p) ==
  /\ LoopOver(p) /\ loc[p] = "chkcsy"
  /\ IF p \in Daemons THEN Enter(p, "new", {}) ELSE Enter(p, "create", Out)
  /\ UNCHANGED <<file, alive, seen, res, want, locked, list, tries, bye, foul>>

\* After creation .bsy files are checked once more.
CreateEnd(p) ==
  /\ LoopOver(p) /\ loc[p] = "create"
  /\ Enter(p, "recheck", Out)
  /\ UNCHANGED <<file, alive, seen, res, want, locked, list, tries, bye, foul>>

\* out_bsy_lock() adds an entry with the names it locked and returns 0.
LockSuccess(p) ==
  /\ LoopOver(p) /\ loc[p] = "recheck"
  /\ Enter(p, IF want[p] THEN "dial" ELSE "session", {})
  /\ list' = [list EXCEPT ![p] = Append(@, [csy |-> want[p], names |-> locked[p]])]
  /\ UNCHANGED <<file, alive, seen, res, want, locked, tries, bye, foul>>

\* out_bsy_lock() or out_bsy_check() fails.  A caller that cannot lock the
\* address it is to call goes to its exit; a handshake reports "busy".
LockFail(p) ==
  /\ LoopOver(p) /\ loc[p] \in {"undo", "convundo"}
  /\ Enter(p, IF p \in Daemons THEN "new" ELSE "between", {})
  /\ locked' = [locked EXCEPT ![p] = {}]
  /\ UNCHANGED <<file, alive, seen, res, want, list, tries, bye, foul>>

\* ConvertSuccess that leaves is_csy set.
ConvertSuccess_StillCsy(p) ==
  /\ LoopOver(p) /\ loc[p] = "conv"
  /\ Enter(p, "session", {})
  /\ UNCHANGED <<file, alive, seen, res, want, locked, list, tries, bye, foul>>

\* out_bsy_convert_csy_to_bsy() clears is_csy and keeps the entry's names.
ConvertSuccess(p) ==
  /\ LoopOver(p) /\ loc[p] = "conv"
  /\ Enter(p, "session", {})
  /\ list' = [list EXCEPT ![p] =
                [k \in DOMAIN @ |-> [csy |-> FALSE, names |-> @[k].names]]]
  /\ UNCHANGED <<file, alive, seen, res, want, locked, tries, bye, foul>>

\* out_bsy_unlockall() frees its first entry; behind the last one the process
\* goes on with its next connection method, or exits.
UnlockNext(p) ==
  /\ LoopOver(p) /\ loc[p] = "unlock"
  /\ list' = [list EXCEPT ![p] = IF @ = << >> THEN @ ELSE Tail(@)]
  /\ IF list'[p] # << >>
       THEN Enter(p, "unlock", Head(list'[p]).names) /\ UNCHANGED alive
       ELSE /\ Enter(p, IF bye[p] THEN "exited" ELSE "between", {})
            /\ alive' = IF bye[p] THEN alive \ {p} ELSE alive
  /\ UNCHANGED <<file, seen, res, want, locked, tries, bye, foul>>

-----------------------------------------------------------------------------
(* The callers of outb_bsy.c: sess_call.c, sess_answ.c, sess_main.c and    *)
(* daemon_call.c.                                                          *)

\* out_bsy_lock(addr, csy).
StartLock(p, csy) ==
  /\ want' = [want EXCEPT ![p] = csy]
  /\ locked' = [locked EXCEPT ![p] = {}]
  /\ IF ~csy /\ \E k \in DOMAIN list[p] : list[p][k].csy
       THEN Enter(p, "conv", UNION {list[p][k].names :
                                     k \in {m \in DOMAIN list[p] : list[p][m].csy}})
       ELSE Enter(p, "chkbsy", Out)
  /\ UNCHANGED <<file, alive, seen, res, list, bye, foul>>

\* call_system() locks the address before it dials.
CallSystem(p) ==
  /\ p \in Callers \cap alive /\ loc[p] = "new"
  /\ StartLock(p, TRUE)
  /\ UNCHANGED tries

\* session_addrs_lock() in the handshake of an incoming session, or of the next
\* method of an outgoing one: also after a handshake that failed with the lock held.
Handshake(p) ==
  /\ p \in alive
  /\ \/ p \in Answerers /\ loc[p] = "new"
     \/ /\ p \in Callers /\ loc[p] \in {"dial", "between", "session"}
        /\ list[p] # << >> \/ tries[p] > 0
  /\ tries[p] < Methods
  /\ tries' = [tries EXCEPT ![p] = @ + 1]
  /\ StartLock(p, FALSE)

\* daemon_call() looks whether the address is locked.
DaemonCheck(p) ==
  /\ p \in Daemons \cap alive /\ loc[p] = "new"
  /\ Enter(p, "chkbsy", Out)
  /\ UNCHANGED <<file, alive, seen, res, want, locked, list, tries, bye, foul>>

\* out_bsy_unlockall(): at the end of session() and at the exit of call_system()
\* and answ_system().
UnlockAll(p, last) ==
  /\ p \in alive \ Daemons /\ loc[p] \in {"dial", "between", "session"}
  /\ last \/ (list[p] # << >> /\ tries[p] > 0)
  /\ Enter(p, "unlock", IF list[p] = << >> THEN {} ELSE Head(list[p]).names)
  /\ bye' = [bye EXCEPT ![p] = last]
  /\ locked' = [locked EXCEPT ![p] = {}]
  /\ UNCHANGED <<file, alive, seen, res, want, list, tries, foul>>

\* A process dies without unlocking.
Crash(p) ==
  /\ p \in alive \cap MayCrash
  /\ alive' = alive \ {p}
  /\ Enter(p, "crashed", {})
  /\ seen' = [seen EXCEPT ![p] = NoPid]
  /\ res' = [res EXCEPT ![p] = "none"]
  /\ locked' = [locked EXCEPT ![p] = {}]
  /\ list' = [list EXCEPT ![p] = << >>]
  /\ UNCHANGED <<file, want, tries, bye, foul>>

Plock(p) == \E i \in Out :
  \/ Read(p, i) \/ Kill(p, i) \/ UnlinkStale(p, i) \/ Link(p, i)
  \/ RemoveTmp(p, i) \/ RemoveRead(p, i) \/ RemoveUnlink(p, i)

Loop(p) ==
  \/ CheckNext(p) \/ CheckEnd(p) \/ CreateEnd(p) \/ LockSuccess(p)
  \/ LockFail(p) \/ ConvertSuccess(p) \/ UnlockNext(p)

Use(p) ==
  \/ CallSystem(p) \/ Handshake(p) \/ DaemonCheck(p)
  \/ \E last \in BOOLEAN : UnlockAll(p, last)

Next == \E p \in Procs : Plock(p) \/ Loop(p) \/ Use(p) \/ Crash(p)

Spec == Init /\ [][Next]_vars

\* A process that is inside outb_bsy.c keeps running.
FairSpec == Spec /\ \A p \in Procs : WF_vars(Plock(p) \/ Loop(p))

-----------------------------------------------------------------------------
(* What the locks promise.                                                 *)

\* The outbounds in which p relies on a .bsy lock of its own: in a session, and
\* while it is taking the locks for one.
BsyClaim(p) ==
  IF p \in alive /\ (\/ loc[p] \in {"conv", "session"}
                     \/ loc[p] \in {"create", "recheck"} /\ ~want[p])
    THEN locked[p] ELSE {}

\* Some process has taken away, or linked, a lock that was another's in outbound i.
Tampered(i) == <<"bsy", i>> \in foul \/ <<"csy", i>> \in foul

\* What a process relies on is in the file system.
ClaimsBacked ==
  \A p \in Procs : \A i \in BsyClaim(p) : file[<<"bsy", i>>] = p \/ Tampered(i)

\* Two sessions with the same address at the same time share no .bsy lock: each
\* name recorded in bsylist by out_bsy_lock() belongs to one live session, as
\* long as nobody has removed or linked a lock that was not its own.
SessionExclusive ==
  \A p, q \in Procs :
    p # q /\ loc[p] = "session" /\ loc[q] = "session"
      => \A i \in locked[p] \cap locked[q] : Tampered(i)

\* A process that leaves through out_bsy_unlockall() leaves no lock file with
\* its pid behind, whatever failed conversions and repeated locks came before.
ExitLeavesNoLock ==
  \A p \in Procs : loc[p] = "exited" =>
    \A f \in Files : file[f] = p => Tampered(f[2])

\* As long as no process has died or exited, and none has begun a second
\* handshake, no process unlinks or links a lock that is another's.
LiveLocksUntouched == alive = Procs /\ (\A p \in Procs : tries[p] <= 1) => foul = {}

\* "That process no longer exists, try to remove lock file" (plock_check): what
\* the removal of a stale lock takes away is the lock of a dead process.
StaleRemovalTakesDeadLock ==
  [][\A p \in Procs, i \in Out : UnlinkStale(p, i) => file[Target(p, i)] \notin alive]_vars

\* "Leave ``.csy'' files untouched!" (out_bsy_convert_csy_to_bsy): a process whose
\* conversion failed still has the .csy locks its bsylist names.
CsyLeftUntouched ==
  \A p \in Procs : loc[p] = "between" =>
    \A k \in DOMAIN list[p] : list[p][k].csy =>
      \A i \in list[p][k].names : file[<<"csy", i>>] = p \/ Tampered(i)

\* An outbound is passed over only where there is "no outbound directory for this
\* address" (plock_write): elsewhere a session has its lock.
SessionLocked ==
  \A p \in Procs : loc[p] = "session" => Dirs \subseteq locked[p]

\* Every call of out_bsy_lock(), out_bsy_check() and out_bsy_unlockall() returns:
\* nobody waits for a lock.
CallsReturn ==
  \A p \in Procs : loc[p] \notin Rests ~> loc[p] \in Rests \cup {"exited", "crashed"}

\* The locks of an address implement a mutual exclusion lock per outbound.
Mutex == INSTANCE BsyMutex WITH
           owner   <- [i \in Out |-> {p \in Procs : i \in BsyClaim(p)}],
           spoiled <- {i \in Out : Tampered(i)}

\* Taking, using and giving back .bsy locks as out_bsy_lock(), the conversion and
\* out_bsy_unlockall() do is a behaviour of BsyMutex.
ImplementsMutex == Mutex!Spec
=============================================================================

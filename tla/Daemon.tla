------------------------------- MODULE Daemon -------------------------------
(***************************************************************************)
(* The calling daemon: bforce/daemon.c with its table of branches (child   *)
(* processes, daemon_branch.c), its modem line timers (daemon_lines.c),    *)
(* daemon_call.c and the systems queue of outb_sysqueue.c.                 *)
(*                                                                         *)
(* Two outgoing queues, modem and TCP/IP, share one systems queue and walk *)
(* it with a position each.  One pass of the main loop handles a signal,   *)
(* or processes finished branches, rescans the outbound when the rescan    *)
(* timer says so, and lets each queue call or select a system.  Children   *)
(* run and exit at any time; their SIGCHLD is taken at the points of the   *)
(* main loop that SigPoints names.  Time is abstracted to the order in     *)
(* which timers expire.  Positions count from 1, and 0 is the code's -1.   *)
(***************************************************************************)
EXTENDS Integers, Sequences, FiniteSets

CONSTANTS
  Addr,        \* FTN addresses
  Pids,        \* bound: process ids of children
  Ports,       \* modem ports
  NoPort,      \* no modem port
  Lines,       \* address -> its override lines in order, << >> without override
  NodePhone,   \* the addresses whose nodelist entry has a usable phone
  MayLock,     \* the addresses another process may keep locked
  Domain,      \* the addresses whose mail lies in a domain outbound
  Posts,       \* bound: the mail that may be posted, pairs of address and kind
  Max,         \* daemon_maxclients_modem and daemon_maxclients_tcpip
  MaxTries,    \* maxtries
  TriesAction, \* its action
  MayVanish,   \* the addresses whose mail somebody may remove
  Closed,      \* the sets of addresses whose lines may be out of work time at once
  Sigs,        \* signals the daemon may get
  Relists,     \* addresses whose nodelist keyword may become Hold or Down
  Quiet,       \* bound: where in the main loop timers expire, mail and nodelist change
  SigPoints    \* where in the main loop SIGCHLD may be taken

Queues  == {"modem", "tcpip"}
Urgent  == {"immed", "crash"}
Lazy    == {"direct", "normal"}
Kinds   == Urgent \cup Lazy \cup {"hold", "request"}
Points  == {"start", "restart", "signals", "reap", "removing", "timer", "sweep",
            "call", "forked", "copied", "select", "sleep", "off"}
Holds   == {"no", "future", "past"}

ASSUME AddrAssumption == IsFiniteSet(Addr)
ASSUME LineAssumption == Lines \in [Addr -> Seq({"modem", "tcpip", "none"})]
ASSUME MaxAssumption  == Max \in [Queues -> Nat] /\ MaxTries \in Nat \ {0}
ASSUME PostAssumption == Posts \subseteq Addr \X Kinds
ASSUME SetAssumption  == /\ NodePhone \cup MayLock \cup MayVanish \subseteq Addr /\ Domain \subseteq Addr
                         /\ Relists \subseteq Addr /\ Closed \subseteq SUBSET Addr
                         /\ NoPort \notin Ports
                         /\ TriesAction \in {"hold", "undialable", "holdall"}
                         /\ Sigs \subseteq {"HUP", "TERM", "USR"}
                         /\ Quiet \cup SigPoints \subseteq Points

VARIABLES
  pc,        \* where the main loop is
  turn,      \* the queue daemon_queue_do() works on
  pos,       \* loop variable of daemon_rescan_sysqueue()
  queue,     \* systab
  cur,       \* current, of each queue
  branch,    \* daemon_branch_tab
  snap,      \* the part of daemon_branch_tab that realloc or memmove has loaded
  call,      \* the branch daemon_call() has forked and not yet added
  clients,   \* modem_clients and tcpip_clients
  child,     \* what the system knows of the child processes
  mail,      \* the outbound: kinds of mail waiting for each address
  sts,       \* the status files
  down,      \* addresses the nodelist marks Hold or Down
  lineHeld,  \* ports whose holdtimer runs
  holdAll,   \* holduntil of the systems queue lies in the future
  sig,       \* signals that wait to be handled
  lately,    \* history: addresses whose last call ended less than a circle ago
  marked     \* history: addresses that were set undialable

vars == <<pc, turn, pos, queue, cur, branch, snap, call, clients, child, mail,
          sts, down, lineHeld, holdAll, sig, lately, marked>>

Sysentry == [addr : Addr, mail : SUBSET Kinds, busy : BOOLEAN, line : Nat,
             via : Queues, recent : BOOLEAN, hold : Holds, undialable : BOOLEAN,
             down : BOOLEAN]
Branch   == [addr : Addr, pid : Pids, via : Queues, port : Ports \cup {NoPort},
             wait : BOOLEAN, ok : BOOLEAN]
NoChild  == [state |-> "none"]
Child    == [state : {"running", "zombie"}, addr : Addr, via : Queues, ok : BOOLEAN]
            \cup {NoChild}

TypeOK ==
  /\ pc \in Points /\ turn \in Queues /\ pos \in Nat
  /\ queue \in Seq(Sysentry)
  /\ cur \in [Queues -> Nat]
  /\ branch \in Seq(Branch) /\ snap \in Seq(Branch) /\ call \in Seq(Branch)
  /\ clients \in [Queues -> Int]
  /\ child \in [Pids -> Child]
  /\ mail \in [Addr -> SUBSET Kinds]
  /\ sts \in [Addr -> [tries : 0..MaxTries, hold : Holds]]
  /\ down \in SUBSET Addr /\ lineHeld \in SUBSET Ports /\ holdAll \in BOOLEAN
  /\ sig \in SUBSET Sigs /\ lately \in SUBSET Addr /\ marked \in SUBSET Addr

Init ==
  /\ pc = "start" /\ turn = "modem" /\ pos = 0
  /\ queue = << >>
  /\ cur = [q \in Queues |-> 0]
  /\ branch = << >> /\ snap = << >> /\ call = << >>
  /\ clients = [q \in Queues |-> 0]
  /\ child = [p \in Pids |-> NoChild]
  /\ mail = [a \in Addr |-> {}]
  /\ sts = [a \in Addr |-> [tries |-> 0, hold |-> "no"]]
  /\ down = {} /\ lineHeld = {} /\ holdAll = FALSE
  /\ sig = {} /\ lately = {} /\ marked = {}

-----------------------------------------------------------------------------
(* The systems queue and the table of branches.                            *)

\* s without its element i, as memmove() leaves it.
Without(s, i) == [j \in 1..(Len(s) - 1) |-> IF j < i THEN s[j] ELSE s[j + 1]]

\* daemon_branch_exist().
BranchExist(a) == \E i \in DOMAIN branch : branch[i].addr = a

\* Position of a's entry, 0 if there is none.
EntryOf(a) == IF \E i \in DOMAIN queue : queue[i].addr = a
                THEN CHOOSE i \in DOMAIN queue : queue[i].addr = a ELSE 0

\* UpdateCurrent that forgets the entries behind the removed one have moved.
UpdateCurrent_Stays(c, i) == IF c = i THEN 0 ELSE c

\* daemon_queues_update_current(): what becomes of current c when entry i goes.
UpdateCurrent(c, i) == IF c = i THEN 0 ELSE IF c > i THEN c - 1 ELSE c

\* out_remove_from_sysqueue() and daemon_queues_update_current().
RemoveEntry(i) ==
  /\ queue' = Without(queue, i)
  /\ cur' = [q \in Queues |-> UpdateCurrent(cur[q], i)]

\* NewEntry that does not read the status file.
NewEntry_NoStat(a) == [addr |-> a, mail |-> mail[a], busy |-> FALSE, line |-> 0,
                       via |-> "modem", recent |-> FALSE, hold |-> "no",
                       undialable |-> a \in down, down |-> a \in down]

\* NewEntry in memory that was not cleared.
NewEntry_NoMemset(a) == [addr |-> a, mail |-> mail[a], busy |-> TRUE, line |-> 0,
                         via |-> "modem", recent |-> FALSE, hold |-> sts[a].hold,
                         undialable |-> a \in down, down |-> a \in down]

\* A fresh entry, as out_getsysentry() and daemon_sysentry_init() leave it.
NewEntry(a) == [addr |-> a, mail |-> mail[a], busy |-> FALSE, line |-> 0,
                via |-> "modem", recent |-> FALSE, hold |-> sts[a].hold,
                undialable |-> a \in down, down |-> a \in down]

\* The orders in which a scan can meet the addresses S for the first time.
Arrangements(S) ==
  {s \in [1..Cardinality(S) -> S] : \A i, j \in 1..Cardinality(S) : s[i] = s[j] => i = j}

-----------------------------------------------------------------------------
(* Signals, start and restart.                                             *)

\* Sigchld that stores the result and does not mark the branch.
Sigchld_NoMark ==
  LET dead == {p \in Pids : child[p].state = "zombie"} IN
  /\ pc \in SigPoints /\ dead # {}
  /\ child' = [p \in Pids |-> IF p \in dead THEN NoChild ELSE child[p]]
  /\ UNCHANGED <<pc, turn, pos, queue, cur, branch, snap, call, clients, mail, sts, down,
                 lineHeld, holdAll, sig, lately, marked>>

\* daemon_sighandler_chld(): each child that has exited is taken from the system,
\* and its branch is marked, if it is in the table.
Sigchld ==
  LET dead == {p \in Pids : child[p].state = "zombie"} IN
  /\ pc \in SigPoints /\ dead # {}
  /\ child' = [p \in Pids |-> IF p \in dead THEN NoChild ELSE child[p]]
  /\ branch' = [i \in DOMAIN branch |->
                  LET p == branch[i].pid IN
                  IF p \in dead /\ \A j \in 1..(i - 1) : branch[j].pid # p
                    THEN [branch[i] EXCEPT !.wait = TRUE, !.ok = child[p].ok]
                    ELSE branch[i]]
  /\ UNCHANGED <<pc, turn, pos, queue, cur, snap, call, clients, mail, sts, down,
                 lineHeld, holdAll, sig, lately, marked>>

\* daemon_sighandler().
Signal(s) ==
  /\ pc \in Quiet /\ s \in Sigs \ sig
  /\ sig' = sig \cup {s}
  /\ UNCHANGED <<pc, turn, pos, queue, cur, branch, snap, call, clients, child, mail,
                 sts, down, lineHeld, holdAll, lately, marked>>

\* DM_ProcessQueues handles the first waiting signal of the table and nothing
\* else in this pass.  USR1 and USR2 have no effect; after DM_Shutdown what the
\* process had in memory counts no more.
HandleSignal(s) ==
  /\ pc = "signals" /\ s \in sig
  /\ s = "TERM" => "HUP" \notin sig
  /\ s = "USR" => sig = {"USR"}
  /\ sig' = sig \ {s}
  /\ pc' = IF s = "HUP" THEN "restart" ELSE IF s = "TERM" THEN "off" ELSE "signals"
  /\ UNCHANGED <<turn, pos, queue, cur, branch, snap, call, clients, child, mail, sts,
                 down, lineHeld, holdAll, lately, marked>>

NoSignal ==
  /\ pc = "signals" /\ sig = {}
  /\ pc' = "reap"
  /\ UNCHANGED <<turn, pos, queue, cur, branch, snap, call, clients, child, mail, sts,
                 down, lineHeld, holdAll, sig, lately, marked>>

\* Restart that also empties the table of branches.
Restart_DropsBranches ==
  /\ pc = "restart"
  /\ pc' = "start"
  /\ queue' = << >>
  /\ cur' = [q \in Queues |-> 0]
  /\ holdAll' = FALSE
  /\ branch' = << >>
  /\ UNCHANGED <<turn, pos, snap, call, clients, child, mail, sts, down, lineHeld, sig,
                 lately, marked>>

\* DM_Restart: the systems queue goes, branches and client counters stay.
Restart ==
  /\ pc = "restart"
  /\ pc' = "start"
  /\ queue' = << >>
  /\ cur' = [q \in Queues |-> 0]
  /\ holdAll' = FALSE
  /\ UNCHANGED <<turn, pos, branch, snap, call, clients, child, mail, sts, down, lineHeld,
                 sig, lately, marked>>

\* DM_Start.
Start ==
  /\ pc = "start"
  /\ pc' = "signals"
  /\ UNCHANGED <<turn, pos, queue, cur, branch, snap, call, clients, child, mail, sts,
                 down, lineHeld, holdAll, sig, lately, marked>>

-----------------------------------------------------------------------------
(* Finished branches.                                                      *)

\* What daemon_process_rc() and, through it, daemon_do_tries_action() make of the
\* status file of an address that is in the systems queue: the six counters and
\* limits of the configuration are one here.
TriedOut(a) == sts[a].tries >= MaxTries

AfterTries(a) ==
  IF TriedOut(a) /\ TriesAction = "hold" THEN [sts[a] EXCEPT !.hold = "future"] ELSE sts[a]

\* daemon_line_hold() for the port of a modem branch.
HoldLine(b) == IF b.via = "modem" THEN lineHeld \cup {b.port} ELSE lineHeld

\* daemon_remove_waiting_branches(): the first branch that waits is processed, and
\* daemon_branch_remove() has loaded what it is going to move.
Reap(i) ==
  LET b == branch[i]
      a == b.addr
      e == EntryOf(a)
  IN
  /\ pc = "reap" /\ branch[i].wait /\ \A j \in 1..(i - 1) : ~branch[j].wait
  /\ clients' = [clients EXCEPT ![b.via] = @ - 1]
  /\ lately' = lately \cup {a}
  /\ IF e = 0
       THEN UNCHANGED <<queue, cur, sts, holdAll, marked>>
       ELSE /\ IF b.ok
                 THEN RemoveEntry(e)
                 ELSE /\ queue' = [queue EXCEPT ![e].recent = TRUE,
                                                ![e].hold = AfterTries(a).hold,
                                                ![e].undialable = FALSE]
                      /\ UNCHANGED cur
            /\ sts' = [sts EXCEPT ![a] = AfterTries(a)]
            /\ holdAll' = (holdAll \/ (TriedOut(a) /\ TriesAction = "holdall"))
            /\ marked' = IF TriedOut(a) /\ TriesAction = "undialable"
                           THEN marked \cup {a} ELSE marked
  /\ lineHeld' = HoldLine(b)
  /\ snap' = Without(branch, i)
  /\ pc' = "removing"
  /\ UNCHANGED <<turn, pos, branch, call, child, mail, down, sig>>

\* daemon_branch_remove() stores what it loaded.
Removed ==
  /\ pc = "removing"
  /\ branch' = snap
  /\ snap' = << >>
  /\ pc' = "reap"
  /\ UNCHANGED <<turn, pos, queue, cur, call, clients, child, mail, sts, down, lineHeld,
                 holdAll, sig, lately, marked>>

NoneWaiting ==
  /\ pc = "reap" /\ \A i \in DOMAIN branch : ~branch[i].wait
  /\ pc' = "timer"
  /\ UNCHANGED <<turn, pos, queue, cur, branch, snap, call, clients, child, mail, sts,
                 down, lineHeld, holdAll, sig, lately, marked>>

-----------------------------------------------------------------------------
(* Rescan of the outbound.                                                 *)

\* The addresses whose mail out_scan() finds.  Without an address list it passes
\* over the domain outbounds.
Scanned == {a \in Addr \ Domain : mail[a] # {}}

\* What out_reset_sysqueue() and out_handle_sysqueue() make of entry e.
Refilled(e) == [e EXCEPT !.mail = IF e.addr \in Scanned THEN mail[e.addr] ELSE {}]

\* daemon_rescan_sysqueue(): reset and scan.
Rescan ==
  LET listed == {queue[i].addr : i \in DOMAIN queue} IN
  /\ pc = "timer"
  /\ \E new \in Arrangements(Scanned \ listed) :
       queue' = [i \in DOMAIN queue |-> Refilled(queue[i])]
                \o [i \in DOMAIN new |-> NewEntry(new[i])]
  /\ pos' = 1
  /\ pc' = "sweep"
  /\ UNCHANGED <<turn, cur, branch, snap, call, clients, child, mail, sts, down, lineHeld,
                 holdAll, sig, lately, marked>>

\* timer_rescan has not expired.
NoRescan ==
  /\ pc = "timer"
  /\ pc' = "call"
  /\ UNCHANGED <<turn, pos, queue, cur, branch, snap, call, clients, child, mail, sts,
                 down, lineHeld, holdAll, sig, lately, marked>>

\* One round of the loop that removes empty entries: i++ also after a removal.
Sweep ==
  /\ pc = "sweep" /\ pos <= Len(queue)
  /\ IF queue[pos].mail = {} THEN RemoveEntry(pos) ELSE UNCHANGED <<queue, cur>>
  /\ pos' = pos + 1
  /\ UNCHANGED <<pc, turn, branch, snap, call, clients, child, mail, sts, down, lineHeld,
                 holdAll, sig, lately, marked>>

SweepEnd ==
  /\ pc = "sweep" /\ pos > Len(queue)
  /\ pos' = 0
  /\ pc' = "call"
  /\ UNCHANGED <<turn, queue, cur, branch, snap, call, clients, child, mail, sts, down,
                 lineHeld, holdAll, sig, lately, marked>>

-----------------------------------------------------------------------------
(* daemon_queue_do()                                                       *)

\* The check of daemon_call() for the number of clients.
Limited(q) == Max[q] > 0 /\ Max[q] <= clients[q]

\* The pass goes on to the next queue, or to sleep.
NextTurn ==
  /\ turn' = IF turn = "modem" THEN "tcpip" ELSE "modem"
  /\ pc' = IF turn = "modem" THEN "call" ELSE "sleep"

\* There is nothing to do for this queue: its kind of calls is switched off, or
\* its current system was called less than a circle ago.
LeaveAlone ==
  /\ pc = "call"
  /\ Max[turn] > 0 => cur[turn] # 0 /\ queue[cur[turn]].recent
  /\ NextTurn
  /\ UNCHANGED <<pos, queue, cur, branch, snap, call, clients, child, mail, sts, down,
                 lineHeld, holdAll, sig, lately, marked>>

\* The queue has a current system that may be called now.
Due ==
  /\ pc = "call" /\ Max[turn] > 0
  /\ cur[turn] # 0
  /\ ~queue[cur[turn]].recent

\* There is no current system, or it has a branch.
NoneDue ==
  /\ pc = "call" /\ Max[turn] > 0
  /\ cur[turn] # 0 => ~queue[cur[turn]].recent /\ BranchExist(queue[cur[turn]].addr)
  /\ pc' = "select"
  /\ UNCHANGED <<turn, pos, queue, cur, branch, snap, call, clients, child, mail, sts,
                 down, lineHeld, holdAll, sig, lately, marked>>

\* daemon_call() returns 1: too many clients, no free port, or fork() failed.
NotNow ==
  /\ Due /\ ~BranchExist(queue[cur[turn]].addr)
  /\ NextTurn
  /\ UNCHANGED <<pos, queue, cur, branch, snap, call, clients, child, mail, sts, down,
                 lineHeld, holdAll, sig, lately, marked>>

\* daemon_call() returns 0 because the address is locked.
Locked ==
  /\ Due /\ ~BranchExist(queue[cur[turn]].addr)
  /\ ~Limited(queue[cur[turn]].via) /\ queue[cur[turn]].addr \in MayLock
  /\ pc' = "select"
  /\ UNCHANGED <<turn, pos, queue, cur, branch, snap, call, clients, child, mail, sts,
                 down, lineHeld, holdAll, sig, lately, marked>>

\* daemon_call() forks; for a modem call daemon_getfree_port() found a port.
Fork(p, port) ==
  LET e == queue[cur[turn]] IN
  /\ Due /\ ~BranchExist(e.addr)
  /\ ~Limited(e.via)
  /\ IF e.via = "modem" THEN port \in Ports \ lineHeld ELSE port = NoPort
  /\ child[p] = NoChild
  /\ child' = [child EXCEPT ![p] = [state |-> "running", addr |-> e.addr,
                                    via |-> e.via, ok |-> FALSE]]
  /\ call' = <<[addr |-> e.addr, pid |-> p, via |-> e.via, port |-> port,
                wait |-> FALSE, ok |-> FALSE]>>
  /\ pc' = "forked"
  /\ UNCHANGED <<turn, pos, queue, cur, branch, snap, clients, mail, sts, down, lineHeld,
                 holdAll, sig, lately, marked>>

\* daemon_branch_add(): realloc() has copied the table ...
Copied ==
  /\ pc = "forked"
  /\ snap' = branch
  /\ pc' = "copied"
  /\ UNCHANGED <<turn, pos, queue, cur, branch, call, clients, child, mail, sts, down,
                 lineHeld, holdAll, sig, lately, marked>>

\* ... and the new table, with the new branch, takes its place.
Added ==
  /\ pc = "copied"
  /\ branch' = snap \o call
  /\ clients' = [clients EXCEPT ![call[1].via] = @ + 1]
  /\ snap' = << >> /\ call' = << >>
  /\ pc' = "select"
  /\ UNCHANGED <<turn, pos, queue, cur, child, mail, sts, down, lineHeld, holdAll, sig,
                 lately, marked>>

-----------------------------------------------------------------------------
(* daemon_getnext2(): the scan for the next system.                        *)

\* The lines of a that queue q can use.
UsableLines(a, q) == {l \in DOMAIN Lines[a] : Lines[a][l] = q}

\* The first usable line behind line l, or else from the first line on.
NextLine(a, q, l) ==
  LET after == {k \in UsableLines(a, q) : k > l}
      from  == IF after # {} THEN after ELSE UsableLines(a, q)
  IN  CHOOSE k \in from : \A j \in from : k <= j

\* daemon_node_cancall() up to the check of the hold time.
Askable(e) == ~e.busy /\ ~e.undialable /\ ~BranchExist(e.addr)

\* daemon_node_cancall().  Without override lines the phone of the nodelist will
\* do for both queues.
CanCall(e, q, closed) ==
  /\ Askable(e) /\ e.hold # "future" /\ e.addr \notin closed
  /\ IF Lines[e.addr] = << >> THEN e.addr \in NodePhone
                              ELSE UsableLines(e.addr, q) # {}

\* The scan starts behind the current position and wraps around.
Rank(i, c) == IF i > c THEN i - c ELSE i - c + Len(queue)

FirstOf(S, c) == CHOOSE i \in S : \A j \in S : Rank(i, c) <= Rank(j, c)

\* daemon_getnext2() of the queue, and the assignment of current.  The first
\* system with urgent mail that can be called ends the scan; the first with other
\* mail is taken if there is none.  Every system that is asked gives up a hold
\* time that has passed, and every one that can be called takes its next line.
Select(closed) ==
  LET c      == IF cur[turn] = 0 THEN 1 ELSE cur[turn]
      free   == [i \in DOMAIN queue |-> [queue[i] EXCEPT !.busy = @ /\ i # cur[turn]]]
      can    == {i \in DOMAIN queue : CanCall(free[i], turn, closed)}
      urgent == {i \in DOMAIN queue : queue[i].mail \cap Urgent # {}}
      lazy   == {i \in DOMAIN queue \ urgent : queue[i].mail \cap Lazy # {}}
      hit    == IF urgent \cap can = {} THEN 0 ELSE FirstOf(urgent \cap can, c)
      ahead  == {i \in DOMAIN queue : hit = 0 \/ Rank(i, c) <= Rank(hit, c)}
      normal == IF lazy \cap can \cap ahead = {} THEN 0 ELSE FirstOf(lazy \cap can \cap ahead, c)
      next   == IF hit # 0 THEN hit ELSE normal
      asked  == (urgent \cap ahead) \cup
                {i \in lazy \cap ahead : normal = 0 \/ Rank(i, c) <= Rank(normal, c)}
      unheld == {i \in asked : Askable(free[i]) /\ queue[i].hold = "past"}
      lined  == {i \in {hit, normal} \ {0} : Lines[queue[i].addr] # << >>}
  IN
  /\ pc = "select"
  /\ queue' = [i \in DOMAIN queue |->
       [free[i] EXCEPT
          !.busy = @ \/ i = next,
          !.hold = IF i \in unheld THEN "no" ELSE @,
          !.line = IF i \in lined THEN NextLine(queue[i].addr, turn, @) ELSE @,
          !.via  = IF i \in lined THEN turn ELSE @]]
  /\ sts' = [a \in Addr |-> IF \E i \in unheld : queue[i].addr = a
                              THEN [tries |-> 0, hold |-> "no"] ELSE sts[a]]
  /\ cur' = [cur EXCEPT ![turn] = next]
  /\ NextTurn
  /\ UNCHANGED <<pos, branch, snap, call, clients, child, mail, down, lineHeld, holdAll,
                 sig, lately, marked>>

\* sleep() ends the pass.
Sleep ==
  /\ pc = "sleep"
  /\ pc' = "signals"
  /\ UNCHANGED <<turn, pos, queue, cur, branch, snap, call, clients, child, mail, sts,
                 down, lineHeld, holdAll, sig, lately, marked>>

-----------------------------------------------------------------------------
(* What happens around the daemon.                                         *)

\* A child ends.  call_system() counts a failed call in the status file; after a
\* session the counters are reset and the mail is gone.
Exit(p, ok) ==
  LET a == child[p].addr IN
  /\ child[p].state = "running"
  /\ child' = [child EXCEPT ![p].state = "zombie", ![p].ok = ok]
  /\ sts' = [sts EXCEPT ![a].tries = IF ok THEN 0 ELSE IF @ < MaxTries THEN @ + 1 ELSE @]
  /\ mail' = IF ok THEN [mail EXCEPT ![a] = {}] ELSE mail
  /\ UNCHANGED <<pc, turn, pos, queue, cur, branch, snap, call, clients, down, lineHeld,
                 holdAll, sig, lately, marked>>

\* A mail processor leaves mail of kind k for a, or somebody removes all of it.
Post(a, k) ==
  /\ pc \in Quiet /\ k \notin mail[a]
  /\ mail' = [mail EXCEPT ![a] = @ \cup {k}]
  /\ UNCHANGED <<pc, turn, pos, queue, cur, branch, snap, call, clients, child, sts, down,
                 lineHeld, holdAll, sig, lately, marked>>

Unpost(a) ==
  /\ pc \in Quiet /\ a \in MayVanish /\ mail[a] # {}
  /\ mail' = [mail EXCEPT ![a] = {}]
  /\ UNCHANGED <<pc, turn, pos, queue, cur, branch, snap, call, clients, child, sts, down,
                 lineHeld, holdAll, sig, lately, marked>>

\* A new nodelist marks a Hold or Down.
Relist(a) ==
  /\ pc \in Quiet /\ a \in Relists \ down
  /\ down' = down \cup {a}
  /\ UNCHANGED <<pc, turn, pos, queue, cur, branch, snap, call, clients, child, mail, sts,
                 lineHeld, holdAll, sig, lately, marked>>

\* The circle since the last call of a is over.
Rested(a) ==
  /\ pc \in Quiet /\ a \in lately
  /\ lately' = lately \ {a}
  /\ queue' = [i \in DOMAIN queue |->
                 IF queue[i].addr = a THEN [queue[i] EXCEPT !.recent = FALSE] ELSE queue[i]]
  /\ UNCHANGED <<pc, turn, pos, cur, branch, snap, call, clients, child, mail, sts, down,
                 lineHeld, holdAll, sig, marked>>

\* The time until which a is held has passed.
HoldOver(a) ==
  /\ pc \in Quiet /\ sts[a].hold = "future"
  /\ sts' = [sts EXCEPT ![a].hold = "past"]
  /\ queue' = [i \in DOMAIN queue |->
                 IF queue[i].addr = a /\ queue[i].hold = "future"
                   THEN [queue[i] EXCEPT !.hold = "past"] ELSE queue[i]]
  /\ UNCHANGED <<pc, turn, pos, cur, branch, snap, call, clients, child, mail, down,
                 lineHeld, holdAll, sig, lately, marked>>

HoldAllOver ==
  /\ pc \in Quiet /\ holdAll
  /\ holdAll' = FALSE
  /\ UNCHANGED <<pc, turn, pos, queue, cur, branch, snap, call, clients, child, mail, sts,
                 down, lineHeld, sig, lately, marked>>

\* The timer set by daemon_line_hold() expires.
LineReady(port) ==
  /\ pc \in Quiet /\ port \in lineHeld
  /\ lineHeld' = lineHeld \ {port}
  /\ UNCHANGED <<pc, turn, pos, queue, cur, branch, snap, call, clients, child, mail, sts,
                 down, holdAll, sig, lately, marked>>

-----------------------------------------------------------------------------
Main ==
  \/ \E s \in Sigs : HandleSignal(s)
  \/ NoSignal \/ Restart \/ Start
  \/ (\E i \in DOMAIN branch : Reap(i)) \/ Removed \/ NoneWaiting
  \/ Rescan \/ NoRescan \/ Sweep \/ SweepEnd
  \/ LeaveAlone \/ NoneDue \/ NotNow \/ Locked
  \/ (\E p \in Pids, port \in Ports \cup {NoPort} : Fork(p, port))
  \/ Copied \/ Added
  \/ (\E closed \in Closed : Select(closed))
  \/ Sleep

Timers ==
  \/ \E a \in Addr : Rested(a) \/ HoldOver(a)
  \/ HoldAllOver
  \/ \E port \in Ports : LineReady(port)

World ==
  \/ \E m \in Posts : Post(m[1], m[2])
  \/ \E a \in Addr : Unpost(a) \/ Relist(a)
  \/ \E s \in Sigs : Signal(s)

Children == \E p \in Pids, ok \in BOOLEAN : Exit(p, ok)

Next == Main \/ Sigchld \/ Children \/ Timers \/ World

Spec == Init /\ [][Next]_vars

\* daemon_call() forks for address a.
ForkFor(a) == /\ \E p \in Pids, port \in Ports \cup {NoPort} : Fork(p, port)
              /\ queue[cur[turn]].addr = a

\* The main loop runs; the rescan timer expires again and again; a call that is
\* due does not meet a lock, a missing port or a failing fork() for ever; children
\* end, SIGCHLD is delivered and timers expire.
FairSpec ==
  /\ Spec
  /\ WF_vars(Main) /\ SF_vars(Rescan) /\ SF_vars(Sigchld) /\ WF_vars(Children)
  /\ \A a \in Addr : SF_vars(ForkFor(a))
  /\ \A a \in Addr : SF_vars(Rested(a)) /\ SF_vars(HoldOver(a))
  /\ \A port \in Ports : SF_vars(LineReady(port))

-----------------------------------------------------------------------------
(* What the daemon promises.                                               *)

Alive(a) == {p \in Pids : child[p] # NoChild /\ child[p].addr = a}

\* Removals from the shared systems queue, the scans and a restart keep the two
\* positions right: each queue's current is an entry of systab or -1, the queues
\* never have the same current, and `busy' marks exactly the current entries.
BusyIsCurrent ==
  /\ \A q \in Queues : cur[q] \in 0..Len(queue)
  /\ \A q, r \in Queues : cur[q] = cur[r] /\ cur[q] # 0 => q = r
  /\ \A i \in DOMAIN queue : queue[i].busy <=> \E q \in Queues : cur[q] = i

\* A system a queue has chosen to call has no branch (but for the call that queue
\* has just made): the check in daemon_queue_do() can rely on daemon_node_cancall().
CurrentHasNoBranch ==
  \A q \in Queues : cur[q] # 0 /\ ~(pc = "select" /\ turn = q) =>
    ~BranchExist(queue[cur[q]].addr)

\* Two calls to one address never run at the same time, and its entry in the
\* systems queue is unique: also when the entry was removed and came back, and
\* when the daemon was restarted, while a call was running.
OneCallPerAddress ==
  /\ \A a \in Addr : \A p, r \in Alive(a) : p = r
  /\ \A i, j \in DOMAIN queue : queue[i].addr = queue[j].addr => i = j

\* modem_clients and tcpip_clients count the branches of their kind.
ClientsCountBranches ==
  LET table == IF pc = "removing" THEN snap ELSE branch IN
  \A q \in Queues : clients[q] = Cardinality({i \in DOMAIN table : table[i].via = q})

\* Never more children of a kind than daemon_maxclients allows, if it is not zero.
ChildrenWithinLimit ==
  \A q \in Queues : Max[q] > 0 =>
    Cardinality({p \in Pids : child[p] # NoChild /\ child[p].via = q}) <= Max[q]

\* The tables agree with each other and with the children that run: positions,
\* flags and counters, with SIGCHLD, removals and restarts at any time.
TablesAgree ==
  /\ BusyIsCurrent /\ CurrentHasNoBranch /\ OneCallPerAddress
  /\ ClientsCountBranches /\ ChildrenWithinLimit

Calling(a) == pc = "call" /\ pc' = "forked" /\ queue[cur[turn]].addr = a

\* "don't call system during next <Action argument> seconds": no call to a system
\* before its hold time has passed, whatever queue holds it as its current.
HeldNotCalled == [][\A a \in Addr : Calling(a) => sts[a].hold # "future"]_vars

\* A branch whose child has ended is processed and leaves the table.
ExitProcessed ==
  \A a \in Addr : BranchExist(a) ~> ~BranchExist(a)

\* Crash mail is called for, unless it goes away.
CrashMailCalled ==
  \A a \in Addr : "crash" \in mail[a] ~> (mail[a] = {} \/ Alive(a) # {})

\* "Process finished branches" (daemon_run): a branch whose child SIGCHLD has
\* taken from the system is marked as waiting.
FinishedIsMarked ==
  pc = "sleep" => \A i \in DOMAIN branch : child[branch[i].pid] = NoChild => branch[i].wait

\* "Remove empty entries from sysqueue" (daemon_rescan_sysqueue).
EmptyEntriesRemoved ==
  [][pc = "sweep" /\ pc' = "call" => \A i \in DOMAIN queue : queue[i].mail # {}]_vars

\* "2th - Scan domain outbounds" (out_scan): a rescan finds all mail.
RescanFindsMail ==
  [][pc = "timer" /\ pc' = "sweep" =>
       \A a \in Addr : mail[a] # {} => \E i \in DOMAIN queue' : queue'[i].addr = a]_vars

\* "set undialable flag to the system, so we will never try to call it more".
UndialableNotCalled == [][\A a \in Addr : Calling(a) => a \notin marked]_vars

\* "don't make outgoing calls to ANY system during next <Action argument> seconds".
HoldAllObeyed == [][\A a \in Addr : Calling(a) => ~holdAll]_vars

\* "daemon will not call to the nodes marked as Hold/Down in a nodelist": no call
\* for an entry whose keyword, as it was looked up, is one of them.
DownNotCalled ==
  [][\A a \in Addr : Calling(a) => ~queue[cur[turn]].down]_vars

\* "Zero value will forbid any outgoing calls via modems".
NoModemCalls ==
  Max["modem"] = 0 => \A p \in Pids : child[p] # NoChild => child[p].via # "modem"

\* "Minimum delay between two outgoing calls to the same system".
DelayKept == [][\A a \in Addr : Calling(a) => a \notin lately]_vars
=============================================================================

------------------------------ MODULE Outbound ------------------------------
(***************************************************************************)
(* What happens to the files in the outbound of one remote system: a       *)
(* tosser attaches them; call_system (sess_call.c) calls the system, with  *)
(* one method after another; session_create_files_queue (sess_main.c)      *)
(* collects the files, those of the .?lo files (outb_flo.c) and those that *)
(* are attached by their name (outb_fsqueue.c); prot_get_next_file,        *)
(* p_tx_fopen and p_tx_fclose (prot_common.c) send one after the other,    *)
(* mark it and remove it; p_session_cleanup and out_flo_unlinkempty clear  *)
(* up.  Any of it may be cut short by a crash.                             *)
(*                                                                         *)
(* The lock is the .bsy file of the system, which the tosser respects too  *)
(* (BsyLock has its details).  How a transfer goes is left to the models   *)
(* of the protocols: here a file is stored, skipped or refused by the      *)
(* remote, or the session fails with it.                                   *)
(***************************************************************************)
EXTENDS Integers, Sequences, FiniteSets, SequencesExt

CONSTANTS
    File,       \* the files, each on the disk at most once
    Flo,        \* the .?lo files of the system
    NoFlo,      \* flodsc is -1
    Type,       \* [File -> "netmail", "arcmail", "other" or "request"]
    Flavor,     \* [File \cup Flo -> 0..16]: 1 is FLAVOR_HOLD, 16 FLAVOR_CRASH
    Starts      \* how an outbound may begin (see Start)

Hold == {"all", "xt", "req", "hold"}
Action == {"nothing", "unlink", "truncate", "forceunlink"}
Line == [file : File, act : Action]

\* The files on the disk, the lines of the .?lo files, what the tosser will
\* add (with NoFlo: by its name), the methods of a call, the hold options, the
\* files that answer a request of the remote, whether Hydra sends requests
\* first, the order in which readdir() gives the names; how many transfers may
\* fail, how many crashes there may be.
Start == [disk : SUBSET File, flo : [Flo -> Seq(Line)],
          later : Seq([file : File, act : Action, flo : Flo \cup {NoFlo}]),
          methods : Seq({"binkp", "emsi"}), hold : SUBSET Hold, answers : Seq(Line),
          rh1 : BOOLEAN, order : Seq(File \cup Flo), bad : Nat, crashes : Nat]

ASSUME OutboundAssumption ==
    /\ NoFlo \notin Flo
    /\ Type \in [File -> {"netmail", "arcmail", "other", "request"}]
    /\ Flavor \in [File \cup Flo -> 0..16]
    /\ \A s \in Starts : s \in Start /\ s.methods # <<>> /\ ToSet(s.order) = File \cup Flo /\ IsInjective(s.order)

VARIABLES
    disk,      \* [File -> "none", "full" or "empty"]
    flo,       \* [Flo -> [there, lines]], a line with "sent" for its '~'
    lock,      \* the .bsy file: "free", "mailer", "tosser" or "stale"
    m,         \* the mailer: where it is, and its state.queue
    toss,      \* the tosser: where it is, and what it has still to add
    got,       \* [File -> Nat]: how often the remote has stored what was in the file
    settled,   \* files that need not be sent any more
    start,     \* how it began
    used       \* the failures and the crashes so far

vars == <<disk, flo, lock, m, toss, got, settled, start, used>>

\* init_state.
Idle == [pc |-> "idle", methods |-> <<>>, busy |-> FALSE, opts |-> {}, queue |-> <<>>,
         flotab |-> <<>>, answers |-> <<>>, reqsonly |-> FALSE, cur |-> 0, ok |-> TRUE,
         reqs |-> {}, i |-> 0]

Unsent(l) == [file |-> l.file, act |-> l.act, sent |-> FALSE]

Init ==
    \E s \in Starts :
        /\ start = s
        /\ disk = [f \in File |-> IF f \in s.disk THEN "full" ELSE "none"]
        /\ flo = [l \in Flo |-> [there |-> s.flo[l] # <<>>,
                                 lines |-> [k \in DOMAIN s.flo[l] |-> Unsent(s.flo[l][k])]]]
        /\ lock = "free" /\ m = Idle
        /\ toss = [pc |-> "idle", jobs |-> s.later]
        /\ got = [f \in File |-> 0] /\ settled = {}
        /\ used = [bad |-> 0, crashes |-> 0]

\* Attached by their names: *.?ut and *.req.
Named == {f \in File : Type[f] \in {"netmail", "request"}}
NameAction(f) == IF Type[f] = "request" THEN "nothing" ELSE "unlink"

OpenLines(l) == {k \in DOMAIN flo[l].lines : flo[l].there /\ ~flo[l].lines[k].sent}
Attached(f) == (f \in Named /\ disk[f] # "none") \/ \E l \in Flo : \E k \in OpenLines(l) : flo[l].lines[k].file = f

\* There is something in the outbound that makes the daemon call.
Waiting == (\E f \in Named : disk[f] # "none") \/ \E l \in Flo : flo[l].there

At(pc) == m.pc = pc
Goes(pc) == m' = [m EXCEPT !.pc = pc]

-----------------------------------------------------------------------------
(* call_system: the lock, and the methods until one succeeds                *)

Call ==
    /\ At("idle") /\ Waiting /\ lock = "free"
    /\ lock' = "mailer"
    /\ m' = [Idle EXCEPT !.pc = "call", !.methods = start.methods]
    /\ UNCHANGED <<disk, flo, toss, got, settled, start, used>>

\* No connect, or no handshake.
NoSession ==
    /\ At("call") /\ m.methods # <<>> /\ used.bad < start.bad
    /\ m' = [m EXCEPT !.methods = Tail(@)]
    /\ used' = [used EXCEPT !.bad = @ + 1]
    /\ UNCHANGED <<disk, flo, lock, toss, got, settled, start>>

\* The elements of s at the positions S.
Those(s, S) ==
    LET those[k \in 0..Len(s)] ==
            IF k = 0 THEN <<>> ELSE IF k \in S THEN Append(those[k - 1], s[k]) ELSE those[k - 1]
    IN  those[Len(s)]

\* out_readflo: the lines whose files there are.
FromFlo(l) ==
    LET lines == flo[l].lines IN
    Those([k \in DOMAIN lines |-> [file |-> lines[k].file, flo |-> l, act |-> lines[k].act, status |-> "willsend"]],
          {k \in DOMAIN lines : ~lines[k].sent /\ disk[lines[k].file] # "none"})

\* out_scan_bso_dir and out_scan_aso hand the files of the address to
\* out_handle_fsqueue, in the order of the directory.
NamedFiles == Those(start.order, {k \in DOMAIN start.order : start.order[k] \in Named /\ disk[start.order[k]] # "none"})
FlosThere == Those(start.order, {k \in DOMAIN start.order : start.order[k] \in Flo /\ flo[start.order[k]].there})
Scanned ==
    [k \in DOMAIN NamedFiles |-> [file |-> NamedFiles[k], flo |-> NoFlo, act |-> NameAction(NamedFiles[k]),
                                  status |-> "willsend"]]
    \o FlattenSeq([k \in DOMAIN FlosThere |-> FromFlo(FlosThere[k])])

FlavorOf(e) == IF e.flo = NoFlo THEN Flavor[e.file] ELSE Flavor[e.flo]

\* holdfile, and session_set_send_files.
Holds(opts, e) ==
    \/ "all" \in opts \/ e.status # "willsend"
    \/ "xt" \in opts /\ Type[e.file] # "netmail"
    \/ "req" \in opts /\ Type[e.file] = "request"
    \/ "hold" \in opts /\ FlavorOf(e) = 1
SetSendFiles(opts, q) == [k \in DOMAIN q |-> IF Holds(opts, q[k]) THEN [q[k] EXCEPT !.status = "skip"] ELSE q[k]]

\* The handshake succeeds: session_addrs_lock, the send options and the queue.
\* state.queue may still have the files of an earlier method of this call.  In
\* BinkP a lock that fails ends the handshake, and the options are set after
\* the queue was created.
Handshake ==
    /\ At("call") /\ m.methods # <<>>
    /\ LET locked == lock \in {"free", "mailer"}
           busy == m.busy \/ ~locked
           first == Head(m.methods)
           old == IF first = "emsi" THEN m.opts \cup start.hold ELSE m.opts
       IN  /\ lock' = IF locked THEN "mailer" ELSE lock
           /\ m' = IF ~locked /\ first = "binkp"
                   THEN [m EXCEPT !.methods = Tail(@), !.busy = TRUE]
                   ELSE [m EXCEPT !.pc = "send", !.methods = Tail(@), !.busy = busy,
                                  !.opts = @ \cup start.hold, !.ok = TRUE, !.reqs = {},
                                  !.reqsonly = start.rh1 /\ first = "emsi",
                                  !.queue = IF busy THEN @ ELSE SetSendFiles(old, @ \o Scanned),
                                  !.flotab = IF busy THEN @ ELSE @ \o FlosThere,
                                  !.answers = [k \in DOMAIN start.answers |->
                                                  [file |-> start.answers[k].file, flo |-> NoFlo,
                                                   act |-> start.answers[k].act, status |-> "willsend"]]]
           /\ disk' = IF ~locked /\ first = "binkp" THEN disk
                      ELSE [f \in File |-> IF \E k \in DOMAIN start.answers : start.answers[k].file = f
                                           THEN "full" ELSE disk[f]]
    /\ UNCHANGED <<flo, toss, got, settled, start, used>>

-----------------------------------------------------------------------------
(* prot_get_next_file and p_tx_fopen                                        *)

Will(q) == {k \in DOMAIN q : q[k].status = "willsend"}

\* Mutant: the flavors of packets are not compared.
Better_NoFlavor(e, best) ==
    CASE Type[e.file] = "netmail" -> Type[best.file] # "netmail"
      [] Type[e.file] = "arcmail" ->
            \/ Type[best.file] = "arcmail" /\ FlavorOf(e) > FlavorOf(best)
            \/ Type[best.file] \notin {"netmail", "arcmail"}
      [] Type[e.file] = "other" -> Type[best.file] = "request"
      [] OTHER -> FALSE

\* Does the file take the place of the best one so far?
Better(e, best) ==
    CASE Type[e.file] = "netmail" -> Type[best.file] # "netmail" \/ FlavorOf(e) > FlavorOf(best)
      [] Type[e.file] = "arcmail" ->
            \/ Type[best.file] = "arcmail" /\ FlavorOf(e) > FlavorOf(best)
            \/ Type[best.file] \notin {"netmail", "arcmail"}
      [] Type[e.file] = "other" -> Type[best.file] = "request"
      [] OTHER -> FALSE

\* The index of the best file of the queue, 0 if there is none to send.
Best(q) ==
    LET best[k \in 0..Len(q)] ==
            IF k = 0 THEN 0
            ELSE IF k \notin Will(q) THEN best[k - 1]
            ELSE IF best[k - 1] = 0 THEN k
            ELSE IF Better(q[k], q[best[k - 1]]) THEN k ELSE best[k - 1]
    IN  best[Len(q)]

First(S) == IF S = {} THEN 0 ELSE CHOOSE k \in S : \A j \in S : k <= j

\* The index of the next file of the queue: requests only, or the best one.
NextIndex ==
    IF m.reqsonly THEN First({k \in Will(m.queue) : Type[m.queue[k].file] = "request"}) ELSE Best(m.queue)

\* The file that is open: of the queue, or of the answers to a request.
Current == IF m.cur > 0 THEN m.queue[m.cur] ELSE m.answers[-m.cur]
Opened(k) == IF k > 0 THEN [m EXCEPT !.queue[k].status = "sending", !.cur = k]
                      ELSE [m EXCEPT !.answers[-k].status = "sending", !.cur = k]

NextAnswer == -First(Will(m.answers))
NextFile == IF "all" \in m.opts THEN 0 ELSE IF NextIndex # 0 THEN NextIndex ELSE NextAnswer

\* A file that is gone by now is passed over.
OpenFile ==
    /\ At("send") /\ NextFile # 0
    /\ LET f == (IF NextFile > 0 THEN m.queue[NextFile] ELSE m.answers[-NextFile]).file IN
       m' = [Opened(NextFile) EXCEPT !.pc = IF disk[f] = "none" THEN "send" ELSE "xfer"]
    /\ UNCHANGED <<disk, flo, lock, toss, got, settled, start, used>>

\* Nothing left to send: the second batch of Hydra, or the end.
NoMoreFiles ==
    /\ At("send") /\ NextFile = 0
    /\ m' = IF m.reqsonly THEN [m EXCEPT !.reqsonly = FALSE] ELSE [m EXCEPT !.pc = "clean", !.cur = 0]
    /\ UNCHANGED <<disk, flo, lock, toss, got, settled, start, used>>

-----------------------------------------------------------------------------
(* The transfer of a file, and p_tx_fclose                                  *)

IsRequest(e) == Type[e.file] = "request"
Gets(f) == got' = [got EXCEPT ![f] = IF disk[f] = "full" /\ @ < 2 THEN @ + 1 ELSE @]

\* FSTAT_SUCCESS
Stored ==
    /\ At("xfer")
    /\ Gets(Current.file)
    /\ settled' = IF IsRequest(Current) THEN settled ELSE settled \cup {Current.file}
    /\ m' = [m EXCEPT !.pc = "mark", !.reqs = IF IsRequest(Current) THEN @ \cup {Current.file} ELSE @]
    /\ UNCHANGED <<disk, flo, lock, toss, start, used>>

\* FSTAT_SKIPPED: the remote never wants it.
Skipped ==
    /\ At("xfer") /\ ~IsRequest(Current) /\ used.bad < start.bad
    /\ settled' = settled \cup {Current.file}
    /\ Goes("mark")
    /\ used' = [used EXCEPT !.bad = @ + 1]
    /\ UNCHANGED <<disk, flo, lock, toss, got, start>>

\* FSTAT_REFUSED: perhaps in another session.
Refused ==
    /\ At("xfer") /\ used.bad < start.bad
    /\ Goes("send")
    /\ used' = [used EXCEPT !.bad = @ + 1]
    /\ UNCHANGED <<disk, flo, lock, toss, got, settled, start>>

\* The session fails, before or after the remote has stored the file.
Fails ==
    /\ At("xfer") /\ used.bad < start.bad
    /\ Gets(Current.file) \/ UNCHANGED got
    /\ m' = [m EXCEPT !.pc = "clean", !.ok = FALSE]
    /\ used' = [used EXCEPT !.bad = @ + 1]
    /\ UNCHANGED <<disk, flo, lock, toss, settled, start>>

\* Mutant: the line is not marked.
Marked_Not(lines, f) == lines

\* out_flo_marksent: the first line with this name gets its '~'.
Marked(lines, f) ==
    LET open == {k \in DOMAIN lines : lines[k].file = f /\ ~lines[k].sent} IN
    IF open = {} THEN lines
    ELSE [lines EXCEPT ![CHOOSE k \in open : \A j \in open : k <= j].sent = TRUE]

MarkSent ==
    /\ At("mark")
    /\ Goes("dispose")
    /\ flo' = IF Current.flo = NoFlo THEN flo ELSE [flo EXCEPT ![Current.flo].lines = Marked(@, Current.file)]
    /\ UNCHANGED <<disk, lock, toss, got, settled, start, used>>

Dispose ==
    /\ At("dispose")
    /\ Goes("send")
    /\ disk' = [disk EXCEPT ![Current.file] =
           IF Current.act \in {"unlink", "forceunlink"} THEN "none"
           ELSE IF Current.act = "truncate" THEN "empty" ELSE @]
    /\ UNCHANGED <<flo, lock, toss, got, settled, start, used>>

-----------------------------------------------------------------------------
(* The end of a session                                                     *)

\* Mutant: nothing is cleared up after a session that failed.
Rubbish_OnlyIfOk == IF ~m.ok THEN {} ELSE m.reqs \cup
    {m.answers[k].file : k \in {j \in DOMAIN m.answers : m.answers[j].act = "forceunlink"}}

\* p_session_cleanup: requests that were sent, if the session went well, and
\* temporary files in any case.
Rubbish == (IF m.ok THEN m.reqs ELSE {}) \cup
    {m.answers[k].file : k \in {j \in DOMAIN m.answers : m.answers[j].act = "forceunlink"}}

Cleanup ==
    /\ At("clean")
    /\ disk' = [f \in File |-> IF f \in Rubbish THEN "none" ELSE disk[f]]
    /\ settled' = IF m.ok THEN settled \cup m.reqs ELSE settled
    /\ m' = [m EXCEPT !.pc = IF m.ok THEN "flo" ELSE "unlock", !.i = 1, !.answers = <<>>]
    /\ UNCHANGED <<flo, lock, toss, got, start, used>>

\* Mutant: lines are counted, whether or not there is a file.
FloIsEmpty_Lines(l) == flo[l].there /\ OpenLines(l) = {}

\* Mutant: only the first line is looked at.
FloIsEmpty_First(l) == flo[l].there /\ (flo[l].lines[1].sent \/ disk[flo[l].lines[1].file] = "none")

\* out_flo_isempty: no line is left whose file there is.
FloIsEmpty(l) == flo[l].there /\ \A k \in OpenLines(l) : disk[flo[l].lines[k].file] = "none"

NextFlo == [m EXCEPT !.pc = "flo", !.i = @ + 1]

\* out_flo_unlinkempty: a .?lo file is looked at and then removed.
CheckFlo ==
    /\ At("flo") /\ m.i <= Len(m.flotab)
    /\ m' = IF FloIsEmpty(m.flotab[m.i]) THEN [m EXCEPT !.pc = "unlink"] ELSE NextFlo
    /\ UNCHANGED <<disk, flo, lock, toss, got, settled, start, used>>

UnlinkFlo ==
    /\ At("unlink")
    /\ flo' = [flo EXCEPT ![m.flotab[m.i]] = [there |-> FALSE, lines |-> <<>>]]
    /\ m' = NextFlo
    /\ UNCHANGED <<disk, lock, toss, got, settled, start, used>>

Released == IF lock = "mailer" THEN "free" ELSE lock

\* out_bsy_unlockall; after a failure the next method is tried.
Unlock ==
    /\ At("unlock") \/ (At("flo") /\ m.i > Len(m.flotab))
    /\ lock' = Released
    /\ m' = IF m.ok THEN Idle ELSE [m EXCEPT !.pc = "call"]
    /\ UNCHANGED <<disk, flo, toss, got, settled, start, used>>

\* No method is left.
Exit ==
    /\ At("call") /\ m.methods = <<>>
    /\ lock' = Released /\ m' = Idle
    /\ UNCHANGED <<disk, flo, toss, got, settled, start, used>>

-----------------------------------------------------------------------------
(* Crashes, and the tosser                                                  *)

Crash ==
    /\ ~At("idle") /\ used.crashes < start.crashes
    /\ m' = Idle
    /\ lock' = IF lock = "mailer" THEN "stale" ELSE lock
    /\ used' = [used EXCEPT !.crashes = @ + 1]
    /\ UNCHANGED <<disk, flo, toss, got, settled, start>>

\* The lock of a process that is gone is removed.
StaleLock ==
    /\ lock = "stale"
    /\ lock' = "free"
    /\ UNCHANGED <<disk, flo, m, toss, got, settled, start, used>>

Job == Head(toss.jobs)

TossBegin ==
    /\ toss.pc = "idle" /\ toss.jobs # <<>> /\ lock = "free"
    /\ lock' = "tosser" /\ toss' = [toss EXCEPT !.pc = "file"]
    /\ UNCHANGED <<disk, flo, m, got, settled, start, used>>

TossFile ==
    /\ toss.pc = "file"
    /\ disk' = [disk EXCEPT ![Job.file] = "full"]
    /\ toss' = [toss EXCEPT !.pc = "line"]
    /\ UNCHANGED <<flo, lock, m, got, settled, start, used>>

TossLine ==
    /\ toss.pc = "line"
    /\ flo' = IF Job.flo = NoFlo THEN flo
              ELSE [flo EXCEPT ![Job.flo] = [there |-> TRUE, lines |-> Append(@.lines, Unsent(Job))]]
    /\ toss' = [pc |-> "end", jobs |-> Tail(toss.jobs)]
    /\ UNCHANGED <<disk, lock, m, got, settled, start, used>>

TossEnd ==
    /\ toss.pc = "end"
    /\ lock' = "free" /\ toss' = [toss EXCEPT !.pc = "idle"]
    /\ UNCHANGED <<disk, flo, m, got, settled, start, used>>

-----------------------------------------------------------------------------
Mailer ==
    \/ Call \/ Handshake \/ OpenFile \/ NoMoreFiles \/ Stored \/ MarkSent \/ Dispose
    \/ Cleanup \/ CheckFlo \/ UnlinkFlo \/ Unlock \/ Exit
Faults == NoSession \/ Skipped \/ Refused \/ Fails \/ Crash
Tosser == TossBegin \/ TossFile \/ TossLine \/ TossEnd

Rest == At("idle") /\ ~Waiting /\ toss.jobs = <<>> /\ toss.pc = "idle" /\ UNCHANGED vars

Next == Mailer \/ Faults \/ StaleLock \/ Tosser \/ Rest

Spec == Init /\ [][Next]_vars

\* The daemon calls while there is something to send, faults are few, locks of
\* dead processes are found out and the tosser gets its turn.
FairSpec == Spec /\ WF_vars(Mailer) /\ WF_vars(StaleLock) /\ SF_vars(TossBegin) /\ WF_vars(Tosser)

-----------------------------------------------------------------------------
(* Properties                                                               *)

\* The files somebody asked this program to send.
Asked == {f \in File : f \in start.disk /\ \A k \in DOMAIN start.answers : start.answers[k].file # f}
         \cup {start.later[k].file : k \in 1..(Len(start.later) - Len(toss.jobs))}

\* A file the remote has neither stored nor skipped (for a request: in a
\* session that ended well) is on the disk and still attached, whatever fails
\* and wherever the mailer crashes.
NothingForgotten == \A f \in Asked \ settled : got[f] = 0 \/ Type[f] = "request" => disk[f] = "full" /\ Attached(f)

\* Where nothing fails, nothing is sent twice.
SentOnce == used.bad + used.crashes = 0 => \A f \in File : got[f] <= 1

\* The order the code wants, as a number: packets first, by their flavor, then
\* bundles, by their flavor, then other files, requests last.
Rank(e) ==
    CASE Type[e.file] = "netmail" -> 200 + FlavorOf(e)
      [] Type[e.file] = "arcmail" -> 100 + FlavorOf(e)
      [] Type[e.file] = "other" -> 1
      [] OTHER -> 0

\* No file is sent while a more urgent one waits.
MostUrgentFirst ==
    At("xfer") /\ ~m.reqsonly /\ m.cur > 0 =>
        \A k \in Will(m.queue) : Rank(m.queue[k]) <= Rank(Current)

\* Temporary files do not outlive the session, however it ended.
NoTemporaryLeft ==
    At("idle") /\ used.crashes = 0 =>
        \A k \in DOMAIN start.answers : start.answers[k].act = "forceunlink" => disk[start.answers[k].file] = "none"

\* Held files are not sent: "Hold files with HOLD flavor?".
HoldKept == At("xfer") /\ m.cur > 0 /\ "hold" \in start.hold => FlavorOf(Current) # 1

\* Everything is sent in the end, and the calls come to an end: nothing is
\* left in the outbound that would cause another one.
Drains == start.hold = {} => <>[](~Waiting /\ At("idle"))
=============================================================================

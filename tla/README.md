# A verification project for BinkleyForce

BinkleyForce is a FidoNet mailer: a daemon watches an *outbound* (directories of
mail for other systems), calls those systems over modem lines or TCP/IP, and each
call or answered call is a process of its own that shakes hands, exchanges files
and leaves. This directory holds TLA+ models of the parts of it that are hard to
test, the TLC runs that check them and TLAPS proofs about them.

Paths are relative to `src/source/bforce/` unless they say otherwise.

## 1. The system and its parts

| part | code | state | operations | works with |
|---|---|---|---|---|
| address locks | `outb_bsy.c`, `u_plock.c` | `.bsy`/`.csy` files with a pid in each of up to three outbounds; `bsylist` of the process | lock, check, convert `.csy` to `.bsy`, unlock all; stale locks are removed | every process that touches mail for an address |
| daemon | `daemon.c`, `daemon_call.c` | two queues (modem, TCP/IP) with a position each in one systems queue, client counters, signals, rescan timer | a pass of the main loop: signals, finished branches, rescan, one turn of each queue, sleep | forks calls; reads outbound, locks, status files, nodelist |
| branches, lines | `daemon_branch.c`, `daemon_lines.c` | table of running calls; lines on hold | add, mark from SIGCHLD, remove; hold, ready | daemon |
| systems queue, outbound scan | `outb_sysqueue.c`, `outb_scan.c`, `outb_getname.c` | entries with mail and its flavours | scan, add, reset, remove | daemon, sessions |
| status files | `sess_stat.c` | tries and hold time per address, in a file | read, update under a lock | daemon and calls |
| calls, answers, sessions | `sess_call.c`, `sess_answ.c`, `sess_main.c`, `sess_init.c`, `sess_common.c` | addresses, options, locks, return codes | connect by one method after another, detect the protocol, handshake, transfer, clean up | everything below |
| EMSI, YooHoo | `prot_emsi*.c`, `prot_yoohoo*.c` | handshake state machines with retries | send and receive handshake packets | a remote mailer over a line |
| BinkP | `prot_binkp*.c` | `s_binkp_state`: phase, one pending command, batch counters, receive state | one loop for handshake and transfer: get something to send, select, read, handle, write | a remote mailer over TCP |
| Hydra | `prot_hydra.c` | a sending and a receiving state, positions, packet numbers, timers | both directions at once, packet by packet | a remote mailer over a line |
| Zmodem | `prot_zm*.c` | state, positions, tries, an alarm | send a batch, receive a batch | a remote mailer over a line |
| Xmodem | `prot_xm*.c` | | no session begins it | |
| transfer files | `prot_common.c` | lists of sent and received files with their status | choose, open, read, rewind, close (mark and unlink); open, write, close (move to inbound) | all transfer protocols |
| flo files, session queue | `outb_flo.c`, `outb_fsqueue.c` | lines of flo files, files to send | collect, mark sent, remove empty flo files | transfer files |
| file requests | `freq_*.c` | answers added to the list of files to send | run the request processor | transfer files |
| netspool | `netspool.c` | client state | query, receive, acknowledge | transfer files |
| port locks | `io_unix_lock.c` | UUCP lock files | lock, check, unlock | calls, answers |
| I/O | `io_*.c` | terminal, socket | select, read, write, dial | protocols |
| the rest | `nodelist.c`, `conf_*.c`, `expression*`, `logger.c`, `u_*.c`, `os_*.c`, `bforce.c`, `../bfutil/` | tables read at start, helpers | lookups, parsing, formatting | all |

Parts interact through the file system (locks, outbound, status files, flo files),
through fork, exit codes and SIGCHLD (daemon and calls) and through a connection
(two mailers).

What is hard about it, and what correctness means:

- *address locks*: steps of two processes between any two system calls; crashes.
  Two sessions with one address must not both think they hold its lock, nobody
  may lose a lock while alive, nobody may wait for ever, nothing may stay behind.
- *daemon*: SIGCHLD at any point of the main loop; two positions in one table
  from which entries are removed; state in an entry, in a file and in the
  nodelist that age differently. Never two calls to one address, never more calls
  than allowed, no call to a held system; every finished call is noticed, urgent
  mail is called for.
- *detection and handshake*: both sides guess from repeated, echoed and counted
  sequences, and packets, acknowledgements and timers cross. Both sides agree on
  the handshake, the protocol and its options or the session fails on both; a
  refusal is heard; a session nothing speaks against begins; every handshake ends.
- *transfer protocols*: both sides send and receive at once (BinkP, Hydra), over a
  line that garbles (Hydra, Zmodem); refusals, skips, resumed files, requests in
  batches of their own, files that vanish or grow. A file is removed from the
  outbound only if the remote has it or declined it, what is stored is what was
  sent, a session that ends well is complete, and every session ends.
- *formats*: what is escaped on one side and taken apart on the other arrives
  as it was, whatever stood on the line before it, and nothing the link cannot
  carry is put on it but what the code puts there deliberately.
- *outbound of a session*: the file, its line in a flo file and its entry in the
  queue of a session are three copies of one fact, changed in several system calls
  with failures, crashes and a tosser between them. Nothing is forgotten, nothing
  is sent twice without a fault, urgent mail goes first, the outbound drains.

The full list, at the lines where it bites, is `hazards` in `PROJECT.json`.

## 2. Modules

| module | models | state and actions |
|---|---|---|
| `BsyLock` | `outb_bsy.c` on `u_plock.c`, as `sess_call.c`, `sess_main.c` and `daemon_call.c` use them | the lock files, and per process where it is in `outb_bsy.c` (`loc`) and in `u_plock.c` (`st`); one action per system call (`Read`, `Kill`, `UnlinkStale`, `Link`, `RemoveTmp`, ...) and per step of the loops over the outbounds; `Crash` |
| `BsyMutex` | what the locks are for | owners of the lock in each outbound; `Acquire`, `Release` |
| `BsyLockProofs` | types, exclusion, the refinement of `BsyMutex`, what the books of a process say of its lock files; proved | |
| `Daemon` | `daemon*.c`, `outb_sysqueue.c`, what a scan reports, what a call does to its status file | the main loop as a program counter, queue, positions, branches, children as the system knows them, mail; actions follow the main loop, SIGCHLD, children, timers and the outside world |
| `DaemonProofs` | children, branches and counters agree at every step; held entries are not called; proved | |
| `Handshake` | `session_init_outgoing()`, `session_init_incoming()`, both EMSI and both YooHoo state machines, the checks of `sess_main.c` | per mailer the state of the loop it is in with its timers and counters (`h`), two channels of sequences and packets; one action per kind of input in each loop, timers, hangup, a clock of five seconds a tick, noise |
| `HandshakeProofs` | what both mailers of a handshake agree on, proved | |
| `BinkpTransfer` | `binkp_loop()` in transfer mode at both ends of a connection, with the parts of `prot_common.c` and `io_unix_tty.c` it uses | `s_binkp_state` and the locals of the loop (`b`), files of both sides, two channels; actions follow the four parts of the loop and one per kind of received block |
| `BinkpProofs` | an acknowledged file is with the receiver, an M_GET finds its file, a stored file stays as it was stored; proved | |
| `Hydra` | `hydra_batch()` at both ends, both batches of a session, with the parts of `prot_common.c` it uses | `txstate`, `rxstate` and the locals of the batch (`h`), files of both sides, two channels of packets; one action per state of the switches (`Send...`) and per packet (`Recv...`), timers, noise, faults of the files |
| `HydraProofs` | stored files are intact, what a sender unlinks was settled, a good end has disposed of everything; proved | |
| `Zmodem` | `tx_zmodem()` and `rx_zmodem()` at both ends, in the two halves of a session | the state and the counters of the loop (`z`), files of both sides, two channels of headers and subpackets; one action per state and per header read in it |
| `ZmodemProofs` | every block is written where it belongs; a file alone in its batch arrives intact, or is left only if it was refused; nothing is left unsent after a good end; proved | |
| `Outbound` | `call_system()`, `session()`, the session's queue, flo files, the sender's half of `prot_common.c`, the cleanup; a tosser | files on the disk, lines of flo files, the lock, the mailer (`m`) with its queue, flo table and answers; actions are the system calls that change the disk and the decisions between them; `Crash`, `StaleLock` |
| `OutboundProofs` | the next file is the most urgent one, nothing is forgotten or sent twice, no temporary file stays; proved | |
| `Inductions` | induction over numbers and the existence of recursive functions, in the form the proofs about queues need | |
| `HydraFormat`, `ZmodemFormat`, `EmsiFormat` | encoders and decoders as functions on sequences of bytes | no state |
| `Formats` | a text typed a byte at a time over a link agreed on at the start | relates each encoder to its decoder |
| `MC...` | small instances | |

How they fit: `BsyLock` is the lock that `Outbound` and `Handshake` take as one
step and that `Daemon` finds held or free; `Handshake` ends where `BinkpTransfer`
is in transfer mode, or where `Hydra` and `Zmodem` begin; these three say how the transfer of files goes,
`Outbound` takes its result (stored, skipped, refused, failed) as an input and says
what becomes of the disk; `Daemon` calls for what `Outbound` calls `Waiting`. Each
is a module of its own because their products are out of reach, and because each
relies only on what the one below it is checked for: exclusion while a session
lasts (`SessionExclusive`), a file closed with success only if the other side has
it (`NoFileLost`).

History variables: `foul` in `BsyLock` is the lock files that somebody removed or
linked while they were another live process's. The code does this in three known
ways (a stale check that is out of date, a failed conversion, a second lock of one
process); properties say what holds apart from that. `lately` and `marked` in
`Daemon`, `trouble` in the protocols (what went wrong so far), `gone` (unlinked by
the sender), `good` (blocks stored once and in order), `got` and `settled` in
`Outbound` are history too.

Abstractions worth knowing:

- `BinkpTransfer` runs one turn of the two loops at a time (`Alone`): between two
  selects a mailer touches only its own state and its ends of the channels, and
  what it may write was settled by the select, so turns of the two sides commute.
  Blocks are read in two pieces because one of the findings is about that.
- `Hydra` and `Zmodem` measure files in units and a block is any number of them; a
  garbled packet is one the check sum rejects (a check sum that is right by chance
  is left out), and a reader of headers takes subpackets for garbage and the other
  way round, as the code does. Both protocols are driven by packets that are known
  byte by byte in the format modules; check sums are left out of these.
- `Handshake` has items on the line: a sequence, a control character the loops know,
  a packet, a garbled or cut packet, other text. Two mailers' timers run on one clock,
  which may also run early (`early`), while something is still on the line.
- `Outbound` keeps one file open at a time. BinkP's late M_GOT, which closes a file
  after the next one was opened, is in `BinkpTransfer`. Flavors are the numbers of `outbound.h`, 0 to 16.

`_Suffix` definitions (`Link_Rename`, `AckStatus_SkipIsGot`, ...) are plausible
bugs. None is part of a specification: each is put in the place of the definition
after which it is named, to see that the property it is listed with notices.

## 3. Runs

| run | instance | properties | shows |
|---|---|---|---|
| `bsy_locks` | a caller (which may crash), an answering process, the daemon; 2 outbounds; 2 connection methods | `TypeOK`, `SessionExclusive`, `ExitLeavesNoLock`, `LiveLocksUntouched`, `ImplementsMutex`, `CallsReturn` | exclusion, no lock left behind at exit, live locks untouched in first handshakes, refinement of `BsyMutex`, every call returns |
| `daemon_safety` | 2 systems with crash mail, one with an IP and a phone line, one with a nodelist phone; 2 pids; SIGCHLD, timers and mail at any point | `TablesAgree`, `HeldNotCalled` | positions and `busy` agree, one call per address, counters and limits agree with the table of calls, held systems are not called |
| `daemon_restart` | immediate and normal mail, work times, nodelist changes, all signals, `holdall` | `TablesAgree` | the same through restarts |
| `daemon_progress` | 2 systems over 1 modem line, SIGCHLD only in the sleep | `ExitProcessed`, `CrashMailCalled` | finished calls are processed, crash mail is called for |
| `handshake` | 64 pairs of mailers that know some of EMSI, YooHoo, FTS-1; logins that echo or are slow; offers of protocols; addresses of our own, busy, wrong, open; 2 garbled items; 3 early ticks | `ProtocolAgreed`, `RefusalHeard`, `EndsWell`, `HandshakeEnds` | both sides begin the same session or none, a refused caller never goes on, a session nothing speaks against begins, every handshake ends |
| `binkp_safety` | files both ways, a resumed file, every outcome of a receiver, cuts anywhere; no requests | `NoFileLost`, `StoredIntact`, `AnswersFindFile`, `EndedSettled` | no file lost, stored files intact, M_GOT, M_SKIP and M_GET find the file they speak of, a good end means all settled |
| `binkp_ends` | a request with its answer in a second batch, two files in non-reliable mode, an empty file and one that has grown | `EndsWell`, `NoStall`, `SessionEnds` | undisturbed sessions end well and never stall; every session ends on both sides |
| `hydra` | a garbled packet; files refused, skipped, unwritable, vanishing; resumed files with and without RH1, dropped calls; 64-bit longs | `StoredIntact`, `EndsWell`, `EndedSettled`, `LostOnlyAtEof`, `SessionEnds` | what arrives is intact, garbled packets alone end no session, a good end leaves nothing over, the one way to lose a file is the one of `hydra_lost`, every session ends |
| `hydra_lost` | a write error of the receiver | `NoFileLost` is violated | see `findings`: the receiver refuses a file in answer to its EOF, and the sender counts it as sent |
| `zmodem` | a garbled header or block with and without a window, the same faults as `hydra`, resumed files and files the inbound has, skipping by position, two lost headers in a session without files | `StoredIntact`, `EndsWell`, `EndedSettled`, `NoFileLost`, `SessionEnds` | as for `hydra`, and one garbled item loses no file (two of them may: `zmodem_garbled`) |
| `formats` | texts of up to 3 (Hydra), 4 (Zmodem) and 4 (EMSI) bytes of 8, 10 and 7 kinds, garbage of up to 6 of 5 kinds; every combination of options | `HydraTransparent`, `ZmodemTransparent`, `IdentKept` | what is sent is received, packet behind packet and header behind block; exactly which characters go over the line raw although the link is to be spared them (see below); which garbage a Zmodem header is found behind; brackets and braces survive EMSI |
| `outbound` | 6 files of every type, 2 flo files, all subsets of the hold options, one or two methods, a tosser, 2 failures, a crash | `NothingForgotten`, `SentOnce`, `MostUrgentFirst`, `NoTemporaryLeft`, `Drains` | see above |

`TablesAgree` is the conjunction of `BusyIsCurrent`, `CurrentHasNoBranch`,
`OneCallPerAddress`, `ClientsCountBranches` and `ChildrenWithinLimit`;
`AnswersFindFile` that of `AckFindsFile` and `GetFindsOpen`; `ZmodemTransparent` that
of `DataTransparent`, `HeaderTransparent` and `GarbageSkipped`.

The formats are not clean to the last character, and the properties say where. Hydra puts a
raw CR LF behind every packet that is not DATA, unless it is binary, also on a link that is
to carry no control characters; START and INIT, which go over a link nobody knows yet, have
one too. The receiver drops or ignores both. Zmodem puts a raw XON behind a ZCRCW, and CR LF
behind a hexadecimal header, with an XON but for ZACK and ZFIN; the next reader takes none of
them for data. `zgethdr()` does not find a header behind any garbage: `GarbageSkipped` tells,
from the garbage alone, when it returns ZERROR (8192 characters, or CAN and ZCRCW), when ZCAN
(five CAN), and that an odd number of CAN right before a header swallows its ZPAD, which
loses a binary header and not a hexadecimal one, with its two. Garbage in which a header
begins (a ZPAD, then a ZDLE) is excepted: what comes next is read as part of that header, and
the check sum, which the formats leave out, has to tell.

### Where the code does not keep its word

TLC finds each property below violated by what the code does, on a small instance.
Of these, `hydra_lost` is among the runs; the others are kept for the reader
(`tlc -config X.cfg M`, where `M` is the `MC` module of the component, or `BsyLock`; of a
configuration with several properties TLC reports the one it finds first, so leave one at a time in it).

| configuration | property | what happens |
|---|---|---|
| `bsy_stale` | `StaleRemovalTakesDeadLock` | `plock_check()` reads a pid, finds the process gone and unlinks the file; by then the file can be another, live process's lock |
| `bsy_failed` | `CsyLeftUntouched` | a failed conversion removes the `.csy` file although the code says it leaves it (`outb_bsy.c:414`): `plock_link()` unlinks its `tmpname` on failure too |
| `bsy_failed` | `SessionLocked` | a lock that vanishes between two steps of `plock_link()` makes it return `PLOCK_ERROR`, which `out_bsy_lock()` takes for "no such directory" |
| `daemon_entries` | `FinishedIsMarked` | a child that ends before `daemon_branch_add()` has recorded it, or while the table is moved, is never processed: its client is counted and its address avoided for ever |
| `daemon_entries` | `EmptyEntriesRemoved` | the loop at `daemon.c:681` steps over the entry behind a removed one |
| `daemon_domain` | `RescanFindsMail` | `out_scan()` called with no addresses never looks into domain outbounds |
| `daemon_undialable` | `UndialableNotCalled` | "never try to call it more" is forgotten when the status file is read |
| `daemon_down` | `DownNotCalled` | so is the nodelist's Hold or Down |
| `daemon_holdall` | `HoldAllObeyed` | nothing reads the `holduntil` that `holdall` sets |
| `daemon_nomodem` | `NoModemCalls` | `daemon_maxclients_modem 0` does not stop modem calls from the TCP/IP queue |
| `daemon_entries` | `DelayKept` | the delay between calls is lost with the entry |
| `handshake_passwords` | `MailForChecked` | the `else` of `sess_main.c:188` has no braces: every address becomes good, and gets its mail, if one password of the caller's was right |
| `handshake_passwords` | `HoldKept` | `yoohoo_incoming()` never calls `session_set_send_options()` |
| `outbound_unlocked` | `HoldKept` | BinkP sets the send options after the queue was created from them |
| `outbound_unlocked` | `NothingForgotten` | after a failed BinkP session `session()` has released the lock; the next method ignores that it does not get it back and works with the queue and the flo table of the first, while the tosser adds a line to a flo file that is then removed |
| `binkp_batches` | `OnlyWholeBlocks` | a new batch resets `want_read` although the header of the next block has been read; two bytes of its body are handled as a block |
| `binkp_nrskip` | `NeverStalls` | in non-reliable mode an M_SKIP or M_GOT in place of the M_GET leaves `no_more_to_send` set: both sides wait until the timeout |
| `binkp_batches` | `EndedSettled` | `waiting_got` is cleared while the last file is still being sent; without MB the session ends well without its M_GOT |
| `binkp_batches` | `AlwaysSettled` | a file asked for again after M_EOB is left unfinished by a session that ends well on both sides |
| `binkp_overlap` | `StoredIntact` | a new batch resets `frs` although an M_GET is not answered yet: the resent M_FILE then overlaps the file received meanwhile, and until the M_ERR goes out blocks of the one are appended to the other, which may be moved to the inbound |
| `binkp_spin` | `SessionEnds` | without DEBUG `emptyloop` is never incremented, and the loop never ends |
| `binkp_empty` | `EndsWell` | a file of zero length is never confirmed |
| `hydra_late` | `NoFileLost` | a timer that expires while the FINFOACK is on its way makes the sender repeat FINFO; the second FINFOACK, a skip, is taken for the answer about the next file |
| `hydra_late` | `StoredIntact` | the receiver then accepts that next file, and its FINFOACK is taken for the answer about a third one, whose data are written into the second: if the lengths agree it is moved to the inbound |
| `zmodem_late` | `NoFileLost` | the same with ZFILE and a second ZSKIP |
| `zmodem_late` | `EndedSettled` | and with a second ZFERR: the next file is left for another time although nobody refused it |
| `zmodem_garbled` | `NoFileLost` | a ZFILE whose header is garbled is repeated; the data of the second are garbled too, and the sender, whose first one was answered meanwhile, ignores the ZNAK; data and ZEOF of a file that is not open are ignored in turn, and the ZRINIT that the receiver's timer sends is taken for the file's end: unlinked here, never received there |
| `zmodem_garbled` | `StoredIntact` | a file vanishes while it is sent, and the ZFILE of the next one is lost: a ZRPOS for the first is taken for the answer, and blocks of the second complete the first |
| `zmodem_late` | `NoCrash` | with `zmodem_skip_by_pos` a file the inbound has already is accepted at its end, and its data are written to a stream that is not open |
| `formats_emsi` | `PasswordKept` | `add_str()` doubles `]`, the password is read without undoubling it |
| `formats_emsi` | `LettersKept` | `add_str()` escapes with decimal digits, `get_field()` reads hexadecimal ones; a backslash is not escaped at all |

Met while modelling, and stated in the modules by their actions rather than by a
property: in Hydra a closing error and a receive timer send RPOS without a new
packet number; a `long` of eight bytes reads the -1 and -2 of the line as positive
numbers (sessions marked `wide`); a sender whose file has vanished goes round with
EOF and RPOS until the dead timer; a lost last FINFOACK or EOFACK is fatal; the UUE
decoder rejects blocks longer than about 1545 bytes. In Zmodem a lost last ZFIN fails
a session whose files have all arrived, and one CAN of line noise in front of a binary
header loses the header. In handshakes a mailer whose two EMSI_INQ are both garbled is not
heard. In `Outbound` a request the remote skips is never removed
and called for again and again; a file with no action after its transfer is sent
again by the next method of a call in which the first one failed; a file attached
twice and truncated after the first is sent a second time, empty;
`session_set_send_options()` hands `stat()` a pointer that was never set.

### Bounds

- `BsyLock`: one address (locks of different addresses are different files and
  are taken one after the other, without waiting); two outbounds, the smallest
  number for which half of a lock can exist; `Methods` bounds the handshakes of a
  caller (the code has at most five connection methods; two suffice for a lock
  taken again after a failed handshake). More processes and outbounds are covered
  by the theorems.
- `Daemon`: two systems, two child processes (with symmetry), one port; a try
  counter of one (`MaxTries`; the code's six counters are merged); `Quiet` and
  `SigPoints` say where timers and SIGCHLD are considered. Anything that needs
  two queues, a removal in front of a position and a running call fits.
- `BinkpTransfer`: two mailers, up to three files of up to two blocks, two blocks
  per socket buffer. Crossing answers need one file each way; an answer to the
  file before the current one needs two files one way; a full buffer needs the
  smallest buffer. `Sessions` lists how a session may begin.
- `Hydra`: the same files; `MaxTries` 3 instead of 10 (a counter that matters only
  when it is reached, and it is reached), `RposIds` 4 numbers of RPOS (a number is
  compared with the last one only), `LongMod` 64 instead of 2^32 (larger than any
  position and than its negatives), two packets in flight, one garbled packet.
- `Zmodem`: `MaxTries` 5 (3 in `zmodem_late`), three items in flight, one garbled item where there are files (two
  or three in `zmodem_garbled`) and two where there are none; `SkipFin` is the code's 2. That
  blocks are written in order needs no bound: it is a theorem.
- `Handshake`: at most two addresses a side, two garbled items, three early ticks,
  two unexpected sequences instead of ten; the tries and the timers are those of
  the code, rounded to ticks of five seconds.
- `Formats`: escaping depends on the byte and the one before it, so three bytes of
  one of each kind meet every case in Hydra and in the blocks of Zmodem, where a text of
  four is a whole header. Garbage of six holds five CAN behind a character that was
  swallowed; `Garbage`, the 8192 of `zgethdr()`, is 4, so that it is reached as well. In EMSI
  an escape is three characters long, which is why texts of four are taken.
- `Outbound`: two flo files and two files in one of them are needed for "the last
  line"; one crash and two failures, because a third meets a disk that one of the
  others could have met. Three of its invariants are theorems, without any of these bounds.

### Fairness

- `BsyLock`: a process inside `outb_bsy.c` keeps running. Nothing is assumed
  of callers, and nobody has to call.
- `Daemon`: the main loop runs, children end, SIGCHLD is delivered, timers expire,
  the rescan timer comes again and again, and a system that is again and again
  ready to be called is not for ever met by a lock, a busy port or a failing
  `fork()`. The last one is about other processes and cannot be had from the code.
- `Handshake`: both mailers run and time passes. Noise need not happen.
- `BinkpTransfer`: each mailer is a running process. The timeout is an action of
  its own, which happens only when neither side can move: it is 60 seconds by
  default, and a side that can move does so within that time.
- `Hydra`, `Zmodem`: each loop runs, and its dead timer, which the code sets at every
  block that was sent or stored, expires if nothing of the kind happens any more.
- `Outbound`: the mailer runs and is called again while something waits, a lock
  whose owner has died is found stale, and the tosser gets the lock if it is free
  again and again. Crashes and failures are bounded, so they do not go on for ever.

Deadlock is checked in the protocols, in `Handshake` and in `Outbound`, where the end
is a step of its own. Processes of `BsyLock` exit, the daemon can be told to stop
and `Formats` is done when the text is, so `CHECK_DEADLOCK` is off there.

## 4. Proofs

TLC checks the instances of section 3; the theorems hold for every value of the
constants.

### Address locks

`BsyLockProofs` proves, for any sets of callers, answering processes
and daemons, any set of processes that may crash, any number of outbounds and
connection methods:

- `TypeCorrect`: `Spec => []TypeOK`;
- `MutualExclusion`: `Spec => []SessionExclusive`, exclusion among the sessions of
  one address;
- `Refinement`: `Spec => ImplementsMutex`, every step is one of `BsyMutex` or none;
- `NothingLeftBehind`: `Spec => []ExitLeavesNoLock`, a process that ends in good order
  leaves no lock file of its own;
- `FirstHandshakes`: `Spec => []LiveLocksUntouched`, nobody touches the lock of a
  live process as long as nobody locks a second time.

Assumptions are those named in `BsyLock` (`OutAssumption`, `MethAssumption`,
`PidAssumption`, `RoleAssumption`), which TLC evaluates on its instances.

`SessionExclusive` is not inductive: it says nothing of a process that is still
locking, nor of the moment in a conversion when the `.bsy` file is linked and the
process has not yet noted it. The invariant `IInv` adds, for each process, where it may be (`Position`: a
dead process is nowhere in the code, nothing counts as locked before locks are
created, and a removal of `tmpname` or of a lock happens only where the code does
one) and what it relies on (`Own`: each outbound it counts as locked, or has linked in
a conversion, has a `.bsy` file with its pid, or somebody has tampered with it).
A file has one pid in it, so two sessions that count
the same outbound as locked contradict each other. The proof goes action by action:
a step of a process changes its own position and one file; `Frame` and the `...Still`
lemmas show that the others' conjuncts survive, because a file that another live
process owned enters `foul` when it is removed or linked over.

The refinement uses `IInv` twice. A process whose claim is unchanged by a step does
not change the abstract owner (`ClaimStays`, `OthersStill`); one whose claim grows is
the only owner afterwards, because `Own` holds after the step as well and two
owners would share a file (`ClaimStep`, `MutexStep`).

`NothingLeftBehind` needs to know where the names of lock files are kept. `Books` says
that every lock file with a process's pid is in its `bsylist`, or in the locals of
the call it is in (linked and not yet noted), or in the part of a loop still to come
that unlinks it. `FirstInv` says what a process in its first handshake knows of the
outbounds in front of the one it works on: its own files are there, so a link that
fails, and the undoing after it, meets no other live process's file.

### Handshakes

`HandshakeProofs` proves, for any mailers' choices of handshakes, protocols, addresses
and any number of garbled items and early ticks:

- `Inductive`: `Spec => []HInv`, types among it;
- `SameProtocol`: `Spec => []ProtocolAgreed`, two mailers that both begin a session begin
  it with the same handshake and the same protocol;
- `TurnedAway`: `Spec => []RefusalHeard`, a caller that was refused never begins.

Both properties relate the two mailers' decisions, which are made at different times
from packets that were on the line in between. `HInv` therefore says what may be on
the line: `chan[p]` is a sequence over `For(p)`, a set that depends on what the sender has
decided. While the answering mailer has decided nothing there are only invitations and other
early signs in it; after its decision the data packet and the HELLO it has sent
carry that decision, and nothing else it sends may speak against it. `AnswererOk` and
`CallerOk` say that a decision, its verdict and the protocol chosen go together. Noise
turns an item into one that says nothing, which is in `For(p)` too. Almost all actions are `Quiet`: they leave
decisions alone and write nothing that carries one. Those that are not are the
beginning of an incoming call (`StartStep`) and the two decisions (`AnswererStep`,
`CallerStep`). That a channel remains a sequence over a set when an item is taken,
written, garbled or thrown away is proved once (lemmas on `Seq(For(p))`).

### Daemon

`DaemonProofs` proves, for any finite set of addresses, any pids, numbers of lines and
limits:

- `TablesCorrect`: `Spec => []TablesAgree`, the busy entries are the current systems of
  the queues and have no branch, one address has one entry and one child, the counters
  count the branches and the children keep to the limits;
- `HeldWait`: `Spec => HeldNotCalled`, a system whose status file holds it is not called.

Assumptions: `LineAssumption`, `MaxAssumption`, `PostAssumption`, `SetAssumption` and
`AddrAssumption` (the addresses are finitely many: four numbers of sixteen bits) of
`Daemon`.

The invariant `DInv` speaks about `Table`: the copy without the finished branch while a
removal has counted it off and not yet put the copy in place, and `branch` otherwise.
Every child the system knows has a branch in it that does not wait, or is the child of the
call that is being recorded (`ChildrenKnown`); addresses are unique in it (`TableUnique`)
and each counter is the number of branches of its kind (`Counted`). A call that has been
forked and not yet recorded is one to the current system, which has no branch, and there is
room for it (`CallOk`). While a call is being recorded the copy and `branch` have the same
addresses, pids and kinds at the same positions, and only `branch` has what SIGCHLD noted
since (`CopyOk`). That the children respect the limit follows from an injection of
children into branches, and the counters' steps from two lemmas on the number of
positions of a sequence with a property, when one is taken out or added (`CountWithout`,
`CountAdded`).

`HeldNotCalled` needs more of the queue: `HoldsAgree` says that the hold in an entry is
the one in its status file, and that a system a queue has chosen is not held. Processing
a result writes both, and the choice stands because the entry whose result it is
has a branch and a chosen one has none (`CurrentHasNoBranch`).

### Zmodem

`ZmodemProofs` proves, for any two mailers, any files of any sizes, any number of garbled
items, with the faults of the files and every timer:

- `BlocksInOrder`: `Spec => InOrder`, every block is written at the position of the file it was
  read from;
- `LoneFileIntact`: `Spec => []StoredIntact` if each mailer has at most one file to send. With
  several files `StoredIntact` is false when one of them vanishes (`zmodem_garbled`);
  without vanishing files it is model-checked only;
- `NothingQueued`: of every session, that a good end finds no file queued or open on either side, the
  first half of `EndedSettled`;
- `LoneFileSettled`: `Spec => []EndedSettled` if each mailer has at most one file to send. With
  several files it is false when a timer is late (`zmodem_late`).

The assumption, `ZmodemAssumption` of `Zmodem`, says that there are two mailers, that a file is
in the outbound of one of them, that counters and positions are natural numbers, and that
files vanish from the inbound only if they are not skipped by position.

Positions are compared once per frame: after a ZDATA that says where the receiver
stands, blocks are written without looking (`InPlace`, `RecvBlock`). So the property is about what is on
the line behind that ZDATA, while ZRPOS and repeated ZFILEs of other times cross it. The
invariant `ZInv` is stated on `View(q)`: the channel of a mailer with one more item in front, a
block that ends at the position of its file if it waits for data, and one that ends a frame
if not. `Chain` says that a block follows the last one, or the ZDATA in between, where that ends,
unless a frame was ended. `Flow` adds what the sender knows: while it is in the
middle of a frame (`OpenStates`) the last block on the line ends at its own position, and in
the states from which it may turn to another position or file (`ShutStates`) the last
frame on the line is closed (`EndsAt`, `EndsShut`). What noise, reading, writing and throwing
away do to such a sequence is proved once, in lemmas on sequences (`BehindOne`, `BehindTail`,
`BehindGarbled`, `BehindCut`, ...); an action then says one of a few things: no data
(`SaysNoData`), the end of a frame (`SaysShut`) or the next data (`SaysData`).

A file that is alone needs in addition that a block on the line is of the file the
receiver has open (`OwnBlock`), and that a file counts as stored only with every block good
(`Whole`).

A good end rests on `Books`: a mailer is in the states of what it does in this half of the
session, it says ZFIN only with nothing queued or open (`Spent`), and the caller receives, or
either is done, only after that. `Turns` sorts the actions for it: a step goes on in the
same half (`Keeps`), is the end of one (`HalfEnds`), or ends everything. So what garbled and repeated ZFINs do
to the other side does not matter. That a file is left only if the receiver refused it needs what
the line says of it (`Away`): a ZFERR on the line, or about to be sent, and a sender that has read one, mean that the file
is refused. It is refused for good (`RefusedForGood`), because the receiver then holds
it without a state in which blocks are taken, and meets a repeated ZFILE with the old verdict,
or is sending itself (`Done`). With a second file the ZFERR on the line may be about the first one,
which is the counterexample of `zmodem_late`.

### Hydra

`HydraProofs` proves, for any sessions, that is any files of any sizes in both directions, any
requests and lengths already received, any number of garbled packets, and with the faults of the
files, longs of four and of eight bytes and calls that drop at any time:

- `GoodEnd`: `Spec => []EndedSettled`, when both mailers end well both queues are empty and
  every file has its final status;
- `Intact`: `Spec => []StoredIntact`, a file in the inbound has its length and consists of its own
  blocks, each once and in order;
- `LostAtEof`: `Spec => []LostOnlyAtEof`, what a sender unlinks is in the receiver's inbound, or
  was skipped for good, or had vanished, or was refused after its end had been read.

The last two assume that no session has `"late"` among its faults: no timer expires while the answer it
waits for is on the line. They are false otherwise (`hydra_late`). `GoodEnd` assumes
nothing of timers. All of them rest on `HydraAssumption` of `Hydra`: there are two mailers; a file is an entry
of one list of its sender; and lengths, what is already received included, are below half of what a long on the line
can hold, which is what makes a position different from a refusal (-1 and -2).

`GoodEnd` is a matter of each mailer's own books, `Tidy`: which states of the sender have a current file, that
its status is final when it stops being the current one, that the queue is empty once the second
batch has asked for the end, and that `snd[f]` says "process" of the current file only.

The other two are about one direction at a time, `Direction(p)`: p as a sender, `Peer(p)` as a receiver and both
lines. `Linked` and `RcvOk` relate the two state machines: when the receiver is engaged with a file (it takes
blocks, or turns them away), it is the sender's current one; what a sender believes was refused or
skipped was. `Fore` says what is true of each packet of the sender's while it is on the line: a FINFO is about the current file and has no answer
yet, a block lies within its file and, like an end of file, is about the file the receiver is engaged with. `Backs` says it of
the answers: a FINFOACK finds the sender waiting, -1 in it was and is a skip; an EOFACK that arrives while a file is
sent means that this file is stored or turned away. An RPOS may outlive its file; it does harm only to
a sender that would obey it, so `Backs` speaks of those that are `Heeded`. `Ordered`
says that nothing about files is behind a FINFO, and no answer behind a FINFOACK: this is where a late timer breaks the argument. `Past` and `Sizes`
are the two properties with the current file told apart from those before it.

Every step of a mailer is a step of its sender or of its receiver (`Kinds`). The first changes only its own files and adds only
packets of the `Forward` kind, the second only the other's files and those of the `Backward` kind (`TxSays`, `Serves`), so that
one lemma, `Elsewhere`, takes care of the direction that is not concerned. Of the direction that is, a lemma says
what is to be shown about the packet that is added (`Ahead`, `Behind`), and then there is one lemma per action or two.

### Outbound

`OutboundProofs` proves, for any files, flo files, types and flavors, any lists of
connection methods and hold options, any number of failures and crashes:

- `MostUrgent`: `Spec => []MostUrgentFirst`, the file that is sent is the most urgent of
  those that wait;
- `TemporaryGone`: `Spec => [](AnswersApart(start) => NoTemporaryLeft)`;
- `Remembered`: `Spec => [](Orderly(start) => NothingForgotten)`;
- `OnceEach`: `Spec => [](Untroubled => \A f \in File : AskedOnce(start, f) => got[f] <= 1)`, until
  something fails a file that is asked for once is sent at most once;
- `NoneTwice`: `Spec => []((\A f \in File : AskedOnce(start, f)) => SentOnce)`.

`OutboundAssumption` types the constants; of the directory it says that a name is read
once in a pass (`order` is injective). `AnswersApart` and `Orderly` say what an outbound
looks like before the first call, and every instance of the run `outbound` is orderly: the
answers to a request are files nobody else attached; what is there is attached, requests by
their names and not in a flo file (a request in a flo file with an action would be removed
by it before the session has ended well); and the tosser has nothing to do or calls use
one method. The last one is needed: `outbound_unlocked` shows what happens otherwise.

`Best` makes one pass over the queue and compares each file with the best so far. That the
result is the maximum (`BestIs`) needs that `Better` compares the numbers `Rank` (`Ranks`),
which holds because flavors are 0 to 16, and an induction over the positions. `Those`,
`FlattenSeq` and `Best` are recursive functions: `Inductions` derives from the library's
theorems on well-founded relations the least element of a set of numbers, induction up to a
number with a set for what holds (`UpTo`), and that a function given by its first value and
a step exists (`Recursive`). The queue is then a sequence of entries each of which is attached by
its name or by a line (`ScannedIs`, `QueueIs`).

`NothingForgotten` is not inductive. The invariant adds that one of mailer and tosser is at
work at a time (`OneAtWork`: the mailer has the lock as long as it may look at the outbound, unless
there is no tosser), that the tosser has the rest of its jobs (`JobsOk`), that answers stay
those of the beginning (`AnswersOk`), that requests are left on the disk (`RequestsByName`),
and three facts about moments between two system calls: a file about to be marked and removed is
settled or a request (`SentFirst`), a flo file that was found empty is still empty when it is removed,
and a file is there when the tosser writes its line (`NothingBetween`). The step that could lose a file
is then one of five (`Dispose`, `Cleanup`, `MarkSent`, `UnlinkFlo`, `TossLine`), and
each takes away the file or the line of a settled file only.

`AskedOnce` says what may be asked so that nothing is sent twice. The file is made once, and is no answer to
a request. Beyond that it is of one of three kinds, for three different reasons: it is removed
or emptied when it has been sent, whatever attaches it (`GoesWhenSent`); it is a request attached by its
name only, which stays until the session has ended well (`ByNameOnly`); or it has no name that
attaches it and one line, which is marked (`ByOneLine`). A file with action "nothing" and two lines is not
asked for once, and is sent twice. 42 of the 44 instances of the run `outbound` ask for every file once; the
other two have an answer, a temporary file, for which `SentOnce` is only model-checked.

The invariant `Once` says of each kind how long a file that has been sent is still there: of the first,
only until `p_tx_fclose` has disposed of it, and it is the file in hand (`Going`); of the second,
until the cleanup, and then the queue does not offer it again; of the third, its line is marked before the
next scan, and meanwhile its entry, which is the only one in the queue, is not to be sent again. That the
queue has one entry for one line or one name is a fact about `Those` and `FlattenSeq`
(`ThoseAlone`, `FlattenAlone`, `ScannedOnce`); the tosser's job makes a file once and not after it
was sent (`MadeOnce`). None of this survives a failure: then the next call sends the file again.

### BinkP

`BinkpProofs` proves, for any two mailers, any files, queues and requests, socket buffers and
blocks of any size, every outcome of a receiver and connections cut anywhere:

- `AcknowledgedKept`: `Spec => []NoFileLost`, a file that was unlinked here is in the inbound there
  or was declined there;
- `AnswersFind`: `Spec => []AnswersFindFile`, an M_GET finds its file open, and no M_GOT or M_SKIP is
  handled while `pi->send` is null;
- `InboundFinal`: a file in the inbound has the length announced and stays as it is;
- `WellTyped`: the types, among them that the two batch counters are never negative and
  `emptyloop` is below ten.

Assumptions, all of `BinkpTransfer`: `NodeAssumption` (there are two mailers), `FileAssumption`
(types; a file is queued by its sender, no more of it lies in the inbound than its size, and a
request is answered by the mailer that received it),
`OnceAssumption` (a *file* of the model is an entry of a file list, so that it is queued once, or
is one answer to one request, made when the request has been received) and
`OptionAssumption` (a buffer and a block are not empty).

The reason why no file is lost is not in the statement of `NoFileLost` but in `OnePlace`: of
every file there is at any time one thing only, which is its place in a queue, its place
among the answers to a request that has not come in yet, one M_FILE, M_GET, M_GOT or M_SKIP
about it (in `extracmd`, the output buffer, a channel or the input buffer), the receiver's open file, or the
unlinked file. A command that is answered is taken out of its place and its answer put in another;
`Moved`, `Passed`, `Handled` and `Answered` say once what that does to the invariant, and an action is one of
them or touches no command at all (`Silent`, `Mute`). Then what an M_GOT says (`AckedKept`) is true
when it is written and can no longer be undone, because nothing that would change the receiver's copy exists;
and what an M_FILE or M_GET is about (`AnnouncedOpen`) cannot be closed before it is answered.

That `pi->send` is set whenever an M_GOT or M_SKIP comes in is a fact about order. A mailer drops its
file when that file is refused before its end, and it may have announced others earlier whose answers
are still to come: were one of those answers behind it, `got_skip` would read a null pointer. The way of
a command is a line of nine stages (`Stage`), from the `extracmd` of the sender to the receiver's and
back to the sender's input buffer, and `CurLast` says that of a mailer's files on that line the current
one is the last, and that none is there when there is no current one. `Sides` says which commands can be
at which stage: an M_FILE goes out, its answers come back. A step that moves commands keeps the order because both
buffers and the channel are queues (`Relocated`, with a monotone map of places); a step that answers one moves it past stages
that are empty, since `extracmd` is free and one file is received at a time (`HandedOrder`); an M_GET puts its
file last and makes it current; and an M_GOT or M_SKIP that ends the current file is about the last one, so
that nothing is behind it.

### Only model-checked

- Liveness (`CallsReturn`, `ExitProcessed`, `CrashMailCalled`, `HandshakeEnds`,
  `SessionEnds`, `Drains`), which is out of the prover's reach under fairness.
- The round trips of `Formats`: inductions over the states of two recursive functions, for which
  the lemmas of `Inductions` would be the beginning.
- `SentOnce` of answers to requests, which are made anew in every session.
- `EndsWell` of `Handshake`, of the same nature as a progress property: it needs to
  know that nothing went wrong so far, for every timer and counter of both loops.
- `StoredIntact` of `BinkpTransfer`, which is true only of some sessions (`binkp_overlap`), and what a
  good end of a session means (`EndedSettled`, `EndsWell`, `NoStall`), which is true only of sessions
  that nothing disturbs or that use batches in a certain way (`binkp_batches`, `binkp_empty`).
- `StoredIntact` of `Zmodem` with several files none of which vanishes, its `EndedSettled` with
  several files and no late timer, and its `NoFileLost` (true of one garbled item, false of two:
  `zmodem_garbled`).
- `EndsWell` of `Hydra` and `Zmodem`, which is about sessions in which little goes wrong.
- What Hydra does when a timer is late, beyond `GoodEnd`: there its files are not safe (`hydra_late`).

## 5. Not modelled

- *Locks*: reuse of pids, a full disk (`PLOCK_ERROR` for other reasons than a missing
  directory or a vanished file), failing `fcntl`, colliding temporary names, the
  build without `.csy` locks.
- *Daemon*: the pid file and daemonization, changes of the configuration at a restart,
  log messages, `hold_freqs` (never set) and `daemon_branch_check_stop_timers()` (never
  called). Mail-only hours are part of the set of closed systems. An update of a
  status file is one step.
- *Handshakes*: the bytes of a YooHoo HELLO and the strings of an EMSI packet other than
  their escapes; BinkP's own handshake, of which only the order of locks, options and
  queue is in `Outbound`. Its password or digest is compared with one string; the
  rest is a fixed sequence of messages in the loop that `BinkpTransfer` models.
- *BinkP*: netspool files, encryption, partial writes, a reset that destroys data
  already delivered, files that shrink while they are sent. "seek error", "could
  not satisfy M_GET" and a null `pi->send` are stated as unreachable between two such
  mailers (`GetFindsOpen`, `AckFindsFile`), not as steps. Bytes that follow a broken
  block are taken not to parse.
- *Hydra*: the chat, windows (the code announces none).
- *Zmodem*: frames that are answered and never sent, the loss of exactly one whole
  subpacket (which a window without positions cannot notice), `zmodem_getbyte()`
  and `zmodem_putbyte()`, which nothing calls.
- *Outbound*: unique names in the inbound, CPS and time limits, file boxes, history
  and traffic counters, the configuration with IFCICO and TELNET in one call
  (`handshake->init` meets its own ASSERT there), and a modem call that returns with
  the port open when there is no modem.
- *Xmodem*: `session()` has no case for it. *Netspool*: the other side is not in this
  repository. *Port locks*: what `BsyLock` says of `u_plock.c`, without the hard link.
- Data handling (nodelist, configuration, expressions, checksums, recoding, logging)
  and device I/O.

## 6. Plan

The components whose control is worth a model have one; locks, handshakes, the
daemon, the order of blocks in Zmodem, what is acknowledged in BinkP, Hydra's two directions and the outbound have
their proofs. What is left:

1. Proofs: `StoredIntact` and `EndedSettled` of `Zmodem` with several files, where nothing is garbled or late, with an
   invariant like `Direction` of `HydraProofs`; the round trips of `Formats`.
2. Models that could still be added: `sess_stat.c` with concurrent updates, the pid
   file, port locks, BinkP's handshake with the digest as an uninterpreted function.

------------------------------ MODULE BsyMutex -------------------------------
(***************************************************************************)
(* What the .bsy locks of an address are for: in each outbound one process *)
(* at a time relies on the lock.  A process takes one lock at a time and   *)
(* may give up several at once (the end of a session, a failed attempt, a  *)
(* death).  A lock that has been spoiled, because a process removed or     *)
(* linked one that was not its own, no longer excludes anybody.            *)
(***************************************************************************)
CONSTANTS Procs, Out

VARIABLES owner, spoiled

mvars == <<owner, spoiled>>

Init ==
  /\ owner = [i \in Out |-> {}]
  /\ spoiled = {}

Acquire(p, i) ==
  /\ owner[i] = {} \/ i \in spoiled'
  /\ owner' = [owner EXCEPT ![i] = @ \cup {p}]

Release(p) == \E S \in SUBSET Out :
  owner' = [i \in Out |-> IF i \in S THEN owner[i] \ {p} ELSE owner[i]]

Next ==
  /\ spoiled \subseteq spoiled' /\ spoiled' \subseteq Out
  /\ \/ \E p \in Procs : Release(p) \/ \E i \in Out : Acquire(p, i)
     \/ UNCHANGED owner

Spec == Init /\ [][Next]_mvars
=============================================================================

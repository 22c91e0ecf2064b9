------------------------------ MODULE MCHydra ------------------------------
(* Small instances of Hydra for TLC. *)
EXTENDS Hydra, TLC

CONSTANTS n1, n2, f1, f2, f3

Senders == [f \in File |-> IF f = f3 THEN n2 ELSE n1]
AllOfN1 == [f \in File |-> n1]
OneBlock == [f \in File |-> 1]
F1Longer == [f \in File |-> IF f = f1 THEN 2 ELSE 1]
F1Empty == [f \in File |-> IF f = f1 THEN 0 ELSE 1]

\* n1 sends s and n2 sends t.
Start(s, t, fs, k) ==
    [queue |-> n1 :> s @@ n2 :> t, have |-> [f \in File |-> 0], reqs |-> {f3},
     RH1 |-> FALSE, wide |-> FALSE, faults |-> fs, noise |-> k]

AllFaults == Fault \ {"late", "drop"}
Noisy == {Start(<<f1>>, <<>>, {}, 1), Start(<<f2>>, <<f3>>, {}, 1)}
Faulty == {Start(<<f1, f2>>, <<>>, AllFaults, 0)}
Resumed == {[Start(<<f1>>, <<f3>>, {"drop"}, 0) EXCEPT !.have[f1] = 1, !.RH1 = r] : r \in BOOLEAN}
Wide == {[Start(<<f1>>, <<f3>>, {"refuse", "skip"}, 0) EXCEPT !.wide = TRUE]}
Sample == Noisy \cup Faulty \cup Resumed \cup Wide
Refusing == {Start(<<f1>>, <<>>, {"werror"}, 0)}
LateTimer == {Start(<<f1, f2, f3>>, <<>>, {"late", "skip"}, 0)}
=============================================================================

------------------------------ MODULE MCZmodem ------------------------------
(* Small instances of Zmodem for TLC. *)
EXTENDS Zmodem, TLC

CONSTANTS n1, n2, f1, f2, f3

F1Longer == [f \in File |-> IF f = f1 THEN 2 ELSE 1]

\* The caller n1 sends s, then n2 sends t.
Start(s, t, fs, k) ==
    [queue |-> n1 :> s @@ n2 :> t, have |-> [f \in File |-> 0], old |-> {},
     window |-> 0, skipbypos |-> FALSE, faults |-> fs, noise |-> k]

Noisy == {[Start(<<f1>>, <<f3>>, {}, 1) EXCEPT !.window = w] : w \in {0, 1}}
Faulty == {Start(<<f1, f2>>, <<>>, Fault \ {"late", "drop"}, 0)}
Resumed == {[Start(<<f1>>, <<f3>>, {"drop"}, 0) EXCEPT !.have[f1] = 1, !.old = {f3}]}
ByPos == {[Start(<<f1, f2>>, <<>>, {"cerror", "werror"}, 0) EXCEPT !.old = {f1}, !.skipbypos = TRUE]}
Empty == {Start(<<>>, <<>>, {}, 2)}
Sample == Noisy \cup Faulty \cup Resumed \cup ByPos \cup Empty
\* Items that do not get through: a file announced twice, a file that has gone.
Unheard == {Start(<<f1>>, <<>>, {}, 2), Start(<<f1, f2>>, <<>>, {"svanish"}, 3)}
TwoEach == [f \in File |-> 2]
LateTimer == {Start(<<f1, f2>>, <<>>, {"late", fault}, 0) : fault \in {"skip", "refuse"}}
Exceptions == LateTimer \cup ByPos
=============================================================================

------------------------------ MODULE MCBinkp ------------------------------
(* Small instances of BinkpTransfer for TLC. *)
EXTENDS BinkpTransfer, TLC

CONSTANTS n1, n2, f1, f2, f3, f4, empty, grown

\* f3 goes one way, the others go the other way.
Senders == [f \in File |-> IF f = f3 THEN n2 ELSE n1]

\* f1 is a request, or none.
AnswersF1 == [f \in File |-> IF f = f1 THEN <<f3>> ELSE <<>>]
NoAnswers == [f \in File |-> <<>>]

\* f2 is a request, and f1 and f3 go the other way.
SendersBack == [f \in File |-> IF f \in {f1, f3} THEN n2 ELSE n1]
AnswersF2 == [f \in File |-> IF f = f2 THEN <<f3>> ELSE <<>>]

\* Two blocks, one block, none, and one that has become longer meanwhile.
Sizes == f1 :> 4 @@ f2 :> 2 @@ f3 :> 2 @@ f4 :> 2 @@ empty :> 0 @@ grown :> 1
Reals == [Sizes EXCEPT ![grown] = 2]

\* n1 sends s and n2 sends t; k units of f1 are left from an earlier session.
Begin(s, t, k, nr, mb, r) ==
    [queue |-> n1 :> s @@ n2 :> t,
     have |-> [f \in File |-> IF f = f1 THEN k ELSE 0],
     NR |-> [p \in Node |-> nr], MB |-> [p \in Node |-> mb], rx |-> [p \in Node |-> r]]

\* Files both ways, and a file of which the receiver has a part.
BothWays == {Begin(<<f4, f2>>, <<f3>>, 0, FALSE, TRUE, {"refuse", "skip"})}
Resumed == {Begin(<<f1, f2>>, <<>>, 2, FALSE, TRUE, RxOutcome)}
Faulty == BothWays \cup Resumed
\* One file, and two files, of which f1 is resumed, in non-reliable mode.
Request == {Begin(<<f1>>, <<>>, 0, FALSE, TRUE, {})}
Smooth == Request \cup {Begin(<<f1, f2>>, <<>>, 2, TRUE, TRUE, {})}
\* An empty file and one that has become longer.
Odd(r) == {Begin(<<empty, grown>>, <<>>, 0, FALSE, TRUE, r), Begin(<<empty, grown>>, <<>>, 0, TRUE, TRUE, r)}
OddOnes == Odd({"refuse"})
Ending == Smooth \cup OddOnes

\* Sessions in which the code goes wrong.
Empty == {Begin(<<empty>>, <<>>, 0, FALSE, TRUE, {})}
SingleBatch == {Begin(<<f4, f2>>, <<f3>>, 0, FALSE, FALSE, {})}
Batches == {Begin(<<f4, f2>>, <<>>, 0, FALSE, TRUE, {})}
GetLate == {Begin(<<f1, f2>>, <<>>, 2, FALSE, TRUE, {})}
Batchwise == SingleBatch \cup Batches \cup GetLate
Overlap == {Begin(<<f2>>, <<f1>>, 2, FALSE, TRUE, {})}
NonReliable == {Begin(<<f4, f2>>, <<>>, 0, TRUE, TRUE, {"refuse"})}
=============================================================================

---------------------------- MODULE MCHandshake ----------------------------
(* Small instances of Handshake for TLC. *)
EXTENDS Handshake, TLC

CONSTANTS n1, n2

All == [emsi |-> TRUE, yoohoo |-> TRUE, ftsc |-> TRUE, protos |-> {"HYD", "ZAP"}, rh1 |-> TRUE,
        npu |-> FALSE, hold |-> FALSE, nak |-> FALSE]
Only(e, y, f) == [All EXCEPT !.emsi = e, !.yoohoo = y, !.ftsc = f]
Addr(k, b) == [kind |-> k, busy |-> b]

Start(a, b, k, e) ==
    [opts |-> n1 :> a @@ n2 :> b, addrs |-> [p \in Node |-> <<Addr("right", FALSE)>>],
     genuine |-> TRUE, sleep |-> 1, hears |-> "nothing", slow |-> FALSE, inbound |-> TRUE,
     buggy |-> TRUE, stray |-> {}, noise |-> k, early |-> e]

\* Which handshake: every pair of mailers, a line that garbles nothing.
Pairs == {Start(Only(e, y, f), Only(g, z, i), 0, 0) : e, y, f, g, z, i \in BOOLEAN}
Echoes == {[Start(Only(e, y, TRUE), All, 0, 0) EXCEPT !.hears = x, !.sleep = n] :
              e, y \in BOOLEAN, x \in {"prompt", "echo"}, n \in {1, 3, 5}}

\* Who is turned away, and which protocol is chosen.
Offers == {{}, {"HYD", "JAN", "ZMO"}, {"ZAP", "ZMO", "DZA"}, {"ZMO"}}
Protos == {Start([Only(y = "E", y = "Y", FALSE) EXCEPT !.protos = s, !.npu = r, !.rh1 = r],
                 [Only(y = "E", y = "Y", FALSE) EXCEPT !.protos = t], 0, 0) :
              s, t \in Offers, y \in {"E", "Y"}, r \in BOOLEAN}
Lists == {<<Addr("own", FALSE)>>, <<Addr("wrong", FALSE)>>, <<Addr("open", TRUE), Addr("wrong", FALSE)>>,
          <<Addr("right", TRUE), Addr("right", FALSE)>>, <<Addr("open", TRUE)>>}
Doubtful == {[Start(Only(y = "E", y = "Y", FALSE), Only(y = "E", y = "Y", FALSE), 0, 0)
                 EXCEPT !.addrs[p] = l, !.genuine = g, !.slow = o, !.inbound = i] :
                 p \in {n1, n2}, l \in Lists, y \in {"E", "Y"}, g, o, i \in BOOLEAN}

\* A line that garbles two items or a clock that runs too fast.
Noisy == {[Start(All, [All EXCEPT !.nak = b], 2, 0) EXCEPT !.buggy = b] : b \in BOOLEAN}
NoisyYoohoo == {[Start(Only(FALSE, TRUE, FALSE), Only(e, TRUE, FALSE), 2, 0) EXCEPT !.stray = {"ACKc", "?"}] : e \in BOOLEAN}
Early == {Start(a, a, 0, 3) : a \in {All, Only(FALSE, TRUE, FALSE)}}

Sample == Pairs \cup Echoes \cup Protos \cup Doubtful \cup Noisy \cup NoisyYoohoo \cup Early

TwoPasswords == {[Start(All, All, 0, 0) EXCEPT !.addrs[n2] = <<Addr("right", FALSE), Addr("wrong", FALSE)>>]}
Holding == {Start(Only(FALSE, TRUE, FALSE), [Only(FALSE, TRUE, FALSE) EXCEPT !.hold = TRUE], 0, 0)}
Exceptions == TwoPasswords \cup Holding
=============================================================================

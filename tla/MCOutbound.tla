----------------------------- MODULE MCOutbound -----------------------------
(* Small instances of Outbound for TLC. *)
EXTENDS Outbound, TLC

CONSTANTS pkt, hut, bundle, file, req, temp, lo, clo

Types == pkt :> "netmail" @@ hut :> "netmail" @@ bundle :> "arcmail" @@ file :> "other"
         @@ req :> "request" @@ temp :> "other"
Flavors == pkt :> 2 @@ hut :> 1 @@ bundle :> 0 @@ file :> 0 @@ req :> 2 @@ temp :> 0
           @@ lo :> 2 @@ clo :> 16

Ln(f, a) == [file |-> f, act |-> a]
Job1(f, a, l) == [file |-> f, act |-> a, flo |-> l]

Begin(d, lf, lc, js, k, c) ==
    [disk |-> d, flo |-> lo :> lf @@ clo :> lc, later |-> js, methods |-> <<"emsi">>,
     hold |-> {}, answers |-> <<>>, rh1 |-> FALSE, order |-> <<pkt, hut, req, lo, clo, bundle, file, temp>>, bad |-> k, crashes |-> c]

Everything == {pkt, hut, bundle, file, req}
Both == {[Begin(Everything, <<Ln(file, a), Ln(bundle, "truncate")>>, <<Ln(bundle, "truncate")>>, <<>>, 1, 1)
             EXCEPT !.order = o] :
            a \in {"nothing", "unlink"},
            o \in {<<pkt, hut, req, lo, clo, bundle, file, temp>>, <<req, clo, lo, hut, pkt, bundle, file, temp>>}}
\* The tosser at work.
Tossing == {Begin({file}, <<Ln(file, a)>>, <<>>, <<Job1(bundle, "unlink", l), Job1(pkt, "unlink", NoFlo)>>, 2, 1) :
               a \in {"nothing", "unlink"}, l \in {lo, clo}}
\* A line whose file is gone; a file that is attached twice; requests.
Odd == {Begin({bundle}, <<Ln(file, "unlink"), Ln(bundle, "unlink")>>, <<Ln(bundle, "unlink")>>, <<>>, 2, 0)}
Requests == {[Begin({req, pkt, file}, <<Ln(file, "nothing")>>, <<>>, <<>>, 2, 1)
                 EXCEPT !.rh1 = r, !.answers = <<Ln(temp, "forceunlink")>>] : r \in BOOLEAN}
\* Another method after a failure, with nobody else about.
Methods == {[Begin({pkt, file, bundle}, <<Ln(file, "unlink")>>, <<Ln(bundle, "unlink")>>, <<>>, 2, 0)
                EXCEPT !.methods = <<"binkp", "emsi">>]}
Held == {[Begin(Everything, <<Ln(file, "unlink")>>, <<Ln(bundle, "unlink")>>, <<>>, 0, 0)
             EXCEPT !.hold = h, !.methods = <<x>>] : h \in SUBSET Hold, x \in {"binkp", "emsi"}}

Sample == Both \cup Tossing \cup Odd \cup Requests \cup Methods \cup Held

\* Another method, and the tosser has the lock by then.
Unlocked == {[Begin({bundle, file}, <<Ln(bundle, "unlink")>>, <<Ln(file, "unlink")>>,
                     <<Job1(temp, "unlink", lo)>>, 1, 0) EXCEPT !.methods = <<"binkp", "emsi">>]}
BinkpHolds == {[Begin({hut, pkt}, <<>>, <<>>, <<>>, 0, 0) EXCEPT !.hold = {"hold"}, !.methods = <<"binkp">>]}
Exceptions == Unlocked \cup BinkpHolds
=============================================================================

------------------------------ MODULE MCDaemon ------------------------------
(* Instances of Daemon for TLC.                                            *)
EXTENDS Daemon, TLC

CONSTANTS sysA, sysB, p1, p2

\* sysA has an IP line and a phone line, sysB the phone of the nodelist only.
MixedLines == (sysA :> <<"tcpip", "modem">>) @@ (sysB :> << >>)
\* Both have one phone line.
PhoneLines == (sysA :> <<"modem">>) @@ (sysB :> <<"modem">>)

BothCrash == {<<sysA, "crash">>, <<sysB, "crash">>}
Flavours  == {<<sysA, "immed">>, <<sysB, "normal">>}
OneEach   == [q \in Queues |-> 1]
NoModem   == [q \in Queues |-> IF q = "modem" THEN 0 ELSE 1]
AnyTime   == {{}}
SomeTimes == {{}, {sysA}}
Anywhere  == Points \ {"off"}
InSleep   == {"sleep"}
Alike     == Permutations({p1, p2})
=============================================================================

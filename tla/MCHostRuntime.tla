--------------------------- MODULE MCHostRuntime ----------------------------
(* Two instances of HostRuntime in one: a process that runs twice, with    *)
(* writers and work, and two processes that race for the data instance.    *)
EXTENDS HostRuntime

CONSTANT First

Alone == \A h \in Hosts \ {First} : host[h] = Stopped

Racing ==
    /\ faults <= 1
    /\ \A h \in Hosts : host[h].writers = 0 /\ host[h].work = 0
    /\ \A h \in Hosts \ {First} : host[h].run <= 1

Bounded == Alone \/ Racing

MCSpec == Init /\ [][Next /\ Bounded']_vars /\ Fairness
=============================================================================

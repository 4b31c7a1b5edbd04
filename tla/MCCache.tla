-------------------------------- MODULE MCCache --------------------------------
(* Two goroutines on one key of a cache of any kind. *)
EXTENDS Cache

Olric(embedded, bind, addresses, replicas, quorum) ==
    [embedded |-> embedded, bindAddr |-> bind, addresses |-> addresses, environment |-> TRUE,
     replicas |-> replicas, readQuorum |-> 1, writeQuorum |-> quorum]

NoOlric == Olric(FALSE, FALSE, FALSE, 0, 0)
Config(mode, sized, olric) == [mode |-> mode, sized |-> sized, olric |-> olric]

\* The three kinds that can be made, and configurations that the factory refuses: a cache
\* without a size, a node without an address, a client of no one, a quorum above the replicas.
SomeConfigs ==
    {Config("single", TRUE, NoOlric), Config("single", FALSE, NoOlric),
     Config("disabled", FALSE, NoOlric),
     Config("ha", FALSE, Olric(TRUE, TRUE, FALSE, 2, 2)),
     Config("ha", FALSE, Olric(TRUE, FALSE, TRUE, 2, 2)),
     Config("ha", FALSE, Olric(TRUE, TRUE, FALSE, 1, 2)),
     Config("ha", FALSE, Olric(FALSE, FALSE, TRUE, 0, 2)), Config("ha", FALSE, NoOlric)}
================================================================================

--------------------------- MODULE MCDurableJobs ---------------------------
(* Two workers, one of them with a priority list that puts the undecodable   *)
(* row first, over that row (a legacy reservation) and a job with a window   *)
(* of its own.                                                               *)
EXTENDS DurableJobs

CONSTANTS plain, poison, any, picky

MCJobs == {plain, poison}
MCWorkers == {any, picky}
MCQueues == {"default", "mail"}
MCQueueOf == [j \in MCJobs |-> IF j = poison THEN "mail" ELSE "default"]
MCRank == [w \in MCWorkers |->
    [q \in MCQueues |-> IF w = picky /\ q = "default" THEN 1 ELSE 0]]
MCOverride == [j \in MCJobs |-> IF j = plain THEN 2 ELSE Null]
MCDelays == {[sec |-> 0, sub |-> 0], [sec |-> 1, sub |-> 0], [sec |-> 1, sub |-> 1]}
=============================================================================

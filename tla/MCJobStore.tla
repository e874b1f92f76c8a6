----------------------------- MODULE MCJobStore -----------------------------
(* Small instances of JobStore: memory in units of which a user may hold   *)
(* MaxMem = 3, time in units of which MaxTime = 1 is the standard ceiling. *)
EXTENDS JobStore, TLC

Payload(mem, time, n) == [mem |-> mem, time |-> time, cases |-> n, big |-> FALSE]

Medium == Payload(2, 1, 1)
Large == Payload(4, 2, 2)       \* needs more memory and more time
Wide == Payload(4, 1, 1)        \* needs more memory

OneRun == [memory |-> 4, time |-> 2, inflight |-> None, uses |-> 1, ttl |-> 1]
ManyRuns == [memory |-> 4, time |-> 2, inflight |-> 2, uses |-> None, ttl |-> 1]
BriefMemory == [memory |-> 4, time |-> None, inflight |-> None, uses |-> None, ttl |-> 1]

ThreadPayloads == {Large}
ThreadOffers == {OneRun, ManyRuns}
QueuePayloads == {Medium}
ExpiredPayloads == {Wide}
ExpiredOffers == {BriefMemory}
NoOffers == {}

RequestSymmetry == Permutations(Requests)
=============================================================================

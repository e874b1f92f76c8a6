---------------------------- MODULE MCJobSystem -----------------------------
(* Small instances of JobSystem: memory in units of which a user may hold  *)
(* MaxMem = 3, so that two jobs of 2 do not fit together; time in units of *)
(* which MaxTime = 1 is the standard ceiling.                              *)
EXTENDS JobSystem, TLC

Payload(mem, time, n, big) == [mem |-> mem, time |-> time, cases |-> n, big |-> big]

Small == Payload(1, 1, 1, FALSE)
Medium == Payload(2, 1, 1, FALSE)
Long == Payload(2, 2, 1, FALSE)      \* needs more time
Wide == Payload(4, 1, 1, FALSE)      \* needs more memory

Large == Payload(1, 1, 1, TRUE)      \* does not fit into a message

OneSize == {Medium}
FaultPayloads == {Small}
LivePayloads == {Medium, Long, Wide, Large}

Grant1(memory, time, uses, ttl) ==
    [memory |-> memory, time |-> time, inflight |-> None, uses |-> uses, ttl |-> ttl]

NoOffers == {}
MemoryOffers == {Grant1(4, None, 1, None)}
\* the second admits a Long job by its time, and its memory is below the job's
LiveOffers == {Grant1(4, 2, 1, 1), Grant1(1, 2, None, 1)}

SlotSymmetry == Permutations(Slots)
=============================================================================

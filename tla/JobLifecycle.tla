---------------------------- MODULE JobLifecycle ----------------------------
(***************************************************************************)
(* What the queue promises for one submission, without saying how: it is   *)
(* admitted once, handed to a worker at most once, and once it is closed   *)
(* it stays closed and is never handed out.                                *)
(***************************************************************************)
CONSTANT Submissions

VARIABLES
    phase,   \* where each submission is
    handed   \* the submissions that a worker was given

TypeOK ==
    /\ phase \in [Submissions -> {"absent", "queued", "active", "closed"}]
    /\ handed \subseteq Submissions

Init ==
    /\ phase = [s \in Submissions |-> "absent"]
    /\ handed = {}

Submit(s) ==
    /\ phase[s] = "absent"
    /\ phase' = [phase EXCEPT ![s] = "queued"]
    /\ UNCHANGED handed

Start(s) ==
    /\ phase[s] = "queued"
    /\ s \notin handed
    /\ phase' = [phase EXCEPT ![s] = "active"]
    /\ handed' = handed \cup {s}

Close(s) ==
    /\ phase[s] \in {"queued", "active"}
    /\ phase' = [phase EXCEPT ![s] = "closed"]
    /\ UNCHANGED handed

Next == \E s \in Submissions : Submit(s) \/ Start(s) \/ Close(s)

Spec == Init /\ [][Next]_<<phase, handed>>
=============================================================================

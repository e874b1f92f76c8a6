------------------------------ MODULE Execution -----------------------------
(***************************************************************************)
(* What one call of runner.execute promises its caller, without time,      *)
(* processes or cgroups: it compiles, runs the n cases in order, may stop  *)
(* for a cancellation before or during any of them or at the submission's  *)
(* wall limit between two, and then returns one result, or it raises.      *)
(*                                                                         *)
(* Runner implements this; every slot thread of JobSystem goes through it. *)
(***************************************************************************)
EXTENDS Naturals

CONSTANT MaxCases   \* bound: cases of one job (MAX_CASES)

VARIABLE run   \* where the caller's thread is

Idle == [at |-> "idle"]
Raised == [at |-> "raised"]
Prepare(n) == [at |-> "prepare", n |-> n]
Compiling(n) == [at |-> "compile", n |-> n]
Between(n, ran) == [at |-> "run", n |-> n, ran |-> ran]
InCase(n, ran) == [at |-> "case", n |-> n, ran |-> ran]
Returned(n, status, reported, ran) ==
    [at |-> "returned", n |-> n, status |-> status, reported |-> reported, ran |-> ran]

Init == run = Idle

Call == run.at = "idle" /\ \E n \in 1..MaxCases : run' = Prepare(n)

Compile ==
    \/ run.at = "prepare" /\ run' = Compiling(run.n)
    \/ run.at = "compile" /\ run' = Between(run.n, 0)
    \/ /\ run.at = "compile"
       /\ \E status \in {"compile_error", "system_error"} : run' = Returned(run.n, status, 0, 0)

(* A case that was started counts as run, unless it was stopped. *)
RunCase ==
    \/ run.at = "run" /\ run.ran < run.n /\ run' = InCase(run.n, run.ran)
    \/ run.at = "case" /\ run' = Between(run.n, run.ran + 1)

(* All n cases are listed, those that did not run as cancelled. *)
Finish ==
    \/ run.at = "run" /\ run' = Returned(run.n, "completed", run.n, run.ran)
    \/ /\ run.at \in {"run", "case"} /\ run.ran < run.n
       /\ run' = Returned(run.n, "cancelled", run.n, run.ran)

Raise == run.at # "idle" /\ run' = Raised

(* The caller has reported, or its process is gone. *)
Leave == run.at # "idle" /\ run' = Idle

Next == Call \/ Compile \/ RunCase \/ Finish \/ Raise \/ Leave

(* A step of the caller's thread, or of something else. *)
Step == Next \/ UNCHANGED run

Spec == Init /\ [][Next]_run
=============================================================================

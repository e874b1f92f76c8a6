----------------------------- MODULE JobSystem ------------------------------
(***************************************************************************)
(* The job queue with its real worker: the slot threads of                 *)
(* src/remote_dev/worker.py, each running jobs through the sandboxed       *)
(* runner and talking to the control plane over the one-call-per-          *)
(* connection broker of src/remote_dev/broker.py.                          *)
(*                                                                         *)
(* A broker call has a client that waits at most ten seconds and a server  *)
(* thread that does not know whether the client still waits.  A call that  *)
(* failed on the client's side stays in `stale': it may be carried out at  *)
(* any later time, or never (a refused connection, a control plane that    *)
(* died).  A response lost on its way is such a call carried out at once.  *)
(***************************************************************************)
EXTENDS JobStore

CONSTANTS
    Slots,      \* the slot threads (DEFAULT_GLOBAL_RUN_SLOTS)
    MaxFaults   \* bound: failed broker calls and worker crashes

ASSUME SlotsAssumption == IsFiniteSet(Slots) /\ MaxFaults \in Nat

VARIABLES
    slots,     \* where each slot thread is in process_one
    orphans,   \* processes of a case that the slot thread left behind
    stale,     \* calls whose client has given up
    faults     \* faults so far

sysVars == <<jobs, cases, grants, lastJob, lastGrant, claims, now, reqs,
             slots, orphans, stale, faults>>
workerVars == <<slots, orphans, stale, faults>>

(* "claim": waiting for the answer to claim, or asleep between two calls;  *)
(* "prepare": waiting for the compile semaphore; "run": between two cases; *)
(* "case": the process of case ran+1 is alive; "report" and "fail": the    *)
(* complete or system-error call is out; "dead": an exception left run_slot.*)
Claiming == [pc |-> "claim"]
Dead == [pc |-> "dead"]
Slot ==
    {Claiming, Dead}
    \cup [pc : {"prepare", "compile"}, job : JobIds]
    \cup [pc : {"run", "case"}, job : JobIds, ran : 0..MaxCases]
    \cup [pc : {"report"}, job : JobIds, result : UNION {Executions(n) : n \in Positions}]
    \cup [pc : {"fail"}, job : JobIds, why : {"broker", "wire", "quota", "runner"}]

Call ==
    [op : {"claim"}, slot : Slots]
    \cup [op : {"complete"}, job : JobIds, result : UNION {Executions(n) : n \in Positions}]
    \cup [op : {"system-error"}, job : JobIds]

SysInit ==
    /\ Init
    /\ slots = [s \in Slots |-> Claiming]
    /\ orphans = [s \in Slots |-> {}]
    /\ stale = {}
    /\ faults = 0

CasesOf(j) == jobs[j].spec.cases

Fail(j, why) == [pc |-> "fail", job |-> j, why |-> why]

Report(j, status, reported, ran) ==
    [pc |-> "report", job |-> j,
     result |-> [status |-> status, reported |-> reported, ran |-> ran]]

Goto(s, state) == slots' = [slots EXCEPT ![s] = state]

-----------------------------------------------------------------------------
(* claim_next_job over the broker.                                         *)

(* The slot after the answer.  A job whose description is longer than a    *)
(* message cannot be sent: the handler closes the connection without an    *)
(* answer and the client's exception ends the thread.                      *)
AfterClaim(j) ==
    IF jobs'[j].status \notin Active THEN Claiming
    ELSE IF jobs[j].spec.big THEN Dead
    ELSE [pc |-> "prepare", job |-> j]

Claim(s) ==
    /\ slots[s].pc = "claim"
    /\ \E j \in JobIds : ClaimJob(j) /\ Goto(s, AfterClaim(j))
    /\ UNCHANGED <<orphans, stale, faults>>

-----------------------------------------------------------------------------
(* runner.execute.                                                         *)

(* The one compile slot is a semaphore shared by the slot threads. *)
StartCompile(s) ==
    /\ slots[s].pc = "prepare"
    /\ \A t \in Slots : slots[t].pc # "compile"
    /\ Goto(s, [slots[s] EXCEPT !.pc = "compile"])
    /\ UNCHANGED <<vars, orphans, stale, faults>>

EndCompile(s) ==
    LET j == slots[s].job IN
    /\ slots[s].pc = "compile"
    /\ \/ Goto(s, [pc |-> "run", job |-> j, ran |-> 0])
       \/ \E status \in {"compile_error", "system_error"} : Goto(s, Report(j, status, 0, 0))
    /\ UNCHANGED <<vars, orphans, stale, faults>>

(* cancel_check answered yes before case ran+1. *)
StopBeforeCase(s) ==
    LET j == slots[s].job IN
    /\ slots[s].pc = "run" /\ slots[s].ran < CasesOf(j)
    /\ IsCancelRequested(j)
    /\ Goto(s, Report(j, "cancelled", CasesOf(j), slots[s].ran))
    /\ UNCHANGED <<vars, orphans, stale, faults>>

(* run_group raises for a case above the user's aggregate, which the       *)
(* runner fixes at MAX_USER_RUNNING_MEMORY_MIB whatever was granted.       *)
RunGroupRefuses(j) == jobs[j].spec.mem > MaxMem

(* cancel_check answered no: the process of the next case is started. *)
StartCase(s) ==
    LET j == slots[s].job IN
    /\ slots[s].pc = "run" /\ slots[s].ran < CasesOf(j)
    /\ ~IsCancelRequested(j)
    /\ Goto(s, IF RunGroupRefuses(j) THEN Fail(j, "quota")
               ELSE [slots[s] EXCEPT !.pc = "case"])
    /\ UNCHANGED <<vars, orphans, stale, faults>>

(* The process ended, or was killed at one of its limits. *)
EndCase(s) ==
    /\ slots[s].pc = "case"
    /\ Goto(s, [slots[s] EXCEPT !.pc = "run", !.ran = @ + 1])
    /\ UNCHANGED <<vars, orphans, stale, faults>>

(* Mutant of StopCase: the killed case is listed as one that ran. *)
StopCaseCounted(s) ==
    LET j == slots[s].job IN
    /\ slots[s].pc = "case"
    /\ IsCancelRequested(j)
    /\ Goto(s, Report(j, "cancelled", CasesOf(j), slots[s].ran + 1))
    /\ UNCHANGED <<vars, orphans, stale, faults>>

(* cancel_check answered yes in the polling loop: the case is killed and   *)
(* listed as cancelled with those after it.                                *)
StopCase(s) ==
    LET j == slots[s].job IN
    /\ slots[s].pc = "case"
    /\ IsCancelRequested(j)
    /\ Goto(s, Report(j, "cancelled", CasesOf(j), slots[s].ran))
    /\ UNCHANGED <<vars, orphans, stale, faults>>

(* All cases ran, or the submission's wall limit was reached. *)
EndRun(s) ==
    LET j == slots[s].job IN
    /\ slots[s].pc = "run"
    /\ slots[s].ran < CasesOf(j) => ~IsCancelRequested(j)
    /\ Goto(s, Report(j, "completed", CasesOf(j), slots[s].ran))
    /\ UNCHANGED <<vars, orphans, stale, faults>>

-----------------------------------------------------------------------------
(* complete and system-error over the broker.                              *)

(* Mutant of Complete: system-error is sent after every result. *)
CompleteAndFail(s) ==
    /\ slots[s].pc = "report"
    /\ FinishJob(slots[s].job, slots[s].result)
    /\ Goto(s, Fail(slots[s].job, "wire"))
    /\ UNCHANGED <<orphans, stale, faults>>

Complete(s) ==
    /\ slots[s].pc = "report"
    /\ FinishJob(slots[s].job, slots[s].result)
    /\ Goto(s, Claiming)
    /\ UNCHANGED <<orphans, stale, faults>>

(* A result that cannot be sent: a compiler killed by a signal has a       *)
(* negative exit code, which the server answers with invalid_request; the  *)
(* output of the cases can be longer than a message.                       *)
RejectComplete(s) ==
    /\ slots[s].pc = "report"
    /\ slots[s].result.reported = 0 \/ slots[s].result.ran > 0
    /\ Goto(s, Fail(slots[s].job, "wire"))
    /\ UNCHANGED <<vars, orphans, stale, faults>>

(* Mutant of SystemError: the exception is swallowed and nothing is sent. *)
SystemErrorSkipped(s) ==
    /\ slots[s].pc = "fail"
    /\ Goto(s, Claiming)
    /\ UNCHANGED <<vars, orphans, stale, faults>>

SystemError(s) ==
    /\ slots[s].pc = "fail"
    /\ MarkJobSystemError(slots[s].job)
    /\ Goto(s, Claiming)
    /\ UNCHANGED <<orphans, stale, faults>>

-----------------------------------------------------------------------------
(* Faults.                                                                 *)

Fault == faults < MaxFaults /\ faults' = faults + 1

(* The call that slot s waits for. *)
CallOf(s) ==
    CASE slots[s].pc = "claim" -> {[op |-> "claim", slot |-> s]}
      [] slots[s].pc = "report" ->
           {[op |-> "complete", job |-> slots[s].job, result |-> slots[s].result]}
      [] slots[s].pc = "fail" -> {[op |-> "system-error", job |-> slots[s].job]}
      [] OTHER -> {}

(* The bubblewrap parent-death signal follows the thread that started the  *)
(* process: an orphan does not outlive its slot thread.                    *)
Die(s) ==
    /\ Goto(s, Dead)
    /\ orphans' = [orphans EXCEPT ![s] = {}]

(* claim and mark_job_system_error are called outside the try block: their *)
(* exceptions end the thread; one of finish_job leads to system-error.     *)
CallFails(s) ==
    /\ Fault
    /\ CallOf(s) # {}
    /\ stale' = stale \cup CallOf(s)
    /\ IF slots[s].pc = "report"
         THEN Goto(s, Fail(slots[s].job, "broker")) /\ UNCHANGED orphans
         ELSE Die(s)
    /\ UNCHANGED vars

(* cancel_check or a system call of the runner raises, after the last case *)
(* that is the closing of its cgroup.  _compile closes its cgroup on the   *)
(* way out; _run_case does not, and leaves the process of a case behind.   *)
ExecuteFails(s) ==
    /\ Fault
    /\ slots[s].pc \in {"prepare", "compile", "run", "case"}
    /\ orphans' = IF slots[s].pc = "case"
                    THEN [orphans EXCEPT ![s] = @ \cup {slots[s].job}] ELSE orphans
    /\ Goto(s, Fail(slots[s].job, "runner"))
    /\ UNCHANGED <<vars, stale>>

OrphanEnds(s) ==
    /\ \E j \in orphans[s] : orphans' = [orphans EXCEPT ![s] = @ \ {j}]
    /\ UNCHANGED <<vars, slots, stale, faults>>

(* The worker process is killed; systemd ends everything in its cgroup and *)
(* starts it again (Restart=on-failure).  Calls may be under way.          *)
WorkerCrash ==
    /\ Fault
    /\ \E s \in Slots : slots[s].pc # "dead"
    /\ stale' = stale \cup UNION {CallOf(s) : s \in Slots}
    /\ slots' = [s \in Slots |-> Claiming]
    /\ orphans' = [s \in Slots |-> {}]
    /\ UNCHANGED vars

(* The server thread carries out a call nobody waits for. *)
LateCall(c) ==
    /\ \/ c.op = "claim" /\ ClaimNextJob
       \/ c.op = "complete" /\ FinishJob(c.job, c.result)
       \/ c.op = "system-error" /\ MarkJobSystemError(c.job)
    /\ stale' = stale \ {c}
    /\ UNCHANGED <<slots, orphans, faults>>

-----------------------------------------------------------------------------
SlotStep(s) ==
    \/ Claim(s)
    \/ StartCompile(s) \/ EndCompile(s)
    \/ StopBeforeCase(s) \/ StartCase(s) \/ EndCase(s) \/ StopCase(s) \/ EndRun(s)
    \/ Complete(s) \/ RejectComplete(s) \/ SystemError(s)

SlotFault(s) == CallFails(s) \/ ExecuteFails(s)

SysNext ==
    \/ ControlPlane /\ UNCHANGED workerVars
    \/ \E s \in Slots : SlotStep(s) \/ SlotFault(s) \/ OrphanEnds(s)
    \/ WorkerCrash
    \/ \E c \in stale : LateCall(c)

SysSpec == SysInit /\ [][SysNext]_sysVars

(* Slot threads poll and run without end, compilations and cases have wall *)
(* limits: every slot thread that can take a step eventually takes one.    *)
FairSysSpec == SysSpec /\ \A s \in Slots : WF_sysVars(SlotStep(s))

-----------------------------------------------------------------------------
(* Properties.                                                             *)

(* Every slot thread and every abandoned call holds values of its type. *)
SysTypeOK ==
    /\ TypeOK
    /\ slots \in [Slots -> Slot]
    /\ orphans \in [Slots -> SUBSET JobIds]
    /\ stale \subseteq Call
    /\ faults \in 0..MaxFaults

(* The worker keeps to what JobStore allows of it: whatever calls fail,    *)
(* come late or are repeated after a crash, it reports only about jobs it  *)
(* was handed, and only results that runner.execute can return.            *)
RefinesStore == Spec

Holding(s) == slots[s].pc \notin {"claim", "dead"}
Executing(s) == slots[s].pc \in {"prepare", "compile", "run", "case"}

(* Without leases or claim ownership in the protocol: no job is ever in    *)
(* the hands of two slot threads, a process left behind counted.           *)
OneExecutor ==
    \A j \in JobIds :
        Cardinality({s \in Slots : j \in orphans[s] \/ (Holding(s) /\ slots[s].job = j)}) <= 1

(* What the slot threads of process_one keep between them, besides types:  *)
(* no job has two executors.                                               *)
SlotsConsistent == SysTypeOK /\ OneExecutor

(* While a slot executes a job, its row is active, or was cancelled by a   *)
(* request that read it before the claim; in that case cancel_check tells  *)
(* the slot to stop.  No late call ever closes a job that is executing.    *)
ExecutingIsActiveOrCancelled ==
    \A s \in Slots :
        Executing(s) =>
            LET job == jobs[slots[s].job] IN
            job.status \in Active \/ (job.status = "cancelled" /\ job.cancel)

Stranded ==
    {j \in JobIds : jobs[j].status \in Active
                    /\ \A s \in Slots : Holding(s) => slots[s].job # j}

(* A job is active although no slot has it only where calls failed or the  *)
(* worker crashed, at most one per slot and fault, or where the claim's    *)
(* answer did not fit into a message: every other reservation is held by a *)
(* slot that will release it.                                              *)
StrandedOnlyByFaults ==
    Cardinality({j \in Stranded : ~jobs[j].spec.big}) <= Cardinality(Slots) * faults

(* A result that was stored stays, unless a cancellation read the job      *)
(* while it was queued, or the answer to the call that stored it was lost  *)
(* and the slot, or a late call of it, reports a system error.             *)
ResultsAreKept ==
    [][\A j \in JobIds :
         jobs[j].status = "completed" /\ jobs'[j].status # "completed" =>
            \/ \E r \in Requests : reqs[r].pc = "cancelQueued" /\ reqs[r].job = j
            \/ \E s \in Slots : slots[s] = Fail(j, "broker")
            \/ [op |-> "system-error", job |-> j] \in stale]_sysVars

Healthy == faults = 0 /\ \A j \in JobIds : jobs[j].status # "absent" => ~jobs[j].spec.big

(* Job j waits, and its memory is above its ceiling: its grant ran out, or *)
(* is good but smaller than what every user may have without one.          *)
NeverFits(j) == jobs[j].status = "queued" /\ jobs[j].spec.mem > Ceiling(j)

(* Every submission is eventually finished while the broker answers and    *)
(* finitely many others arrive: no deadlock on the compile semaphore, no   *)
(* reservation kept for ever, also by a job that the runner refuses for    *)
(* its memory, none passed for ever by smaller ones.  Only a job may stay  *)
(* whose memory is above its own ceiling: one whose grant ran out while it *)
(* waited (ExpiredGrantLeavesQueue), or one admitted by the larger of the  *)
(* standard ceiling and its grant's, which is held to the grant's alone.   *)
EveryJobFinishes ==
    []Healthy => \A j \in JobIds :
        jobs[j].status = "queued" ~> jobs[j].status \in Terminal \/ NeverFits(j)

Executor(s) == INSTANCE Execution WITH run <-
    CASE ~Holding(s) -> [at |-> "idle"]
      [] slots[s].pc \in {"prepare", "compile"} ->
           [at |-> slots[s].pc, n |-> CasesOf(slots[s].job)]
      [] slots[s].pc \in {"run", "case"} ->
           [at |-> slots[s].pc, n |-> CasesOf(slots[s].job), ran |-> slots[s].ran]
      [] slots[s].pc = "report" ->
           [at |-> "returned", n |-> CasesOf(slots[s].job), status |-> slots[s].result.status,
            reported |-> slots[s].result.reported, ran |-> slots[s].result.ran]
      [] slots[s].pc = "fail" -> [at |-> "raised"]

(* Each slot thread sees of runner.execute what Execution, which Runner    *)
(* implements in detail, lets a caller see, also across crashes.           *)
SlotsExecute == [][\A s \in Slots : Executor(s)!Step]_sysVars

(* The memory of the processes that user u has alive, their limits counted. *)
LiveMem(u) ==
    MapThenSumSet(LAMBDA i : jobs[i].spec.mem,
                  {j \in JobIds : /\ jobs[j].user = u
                                  /\ \E s \in Slots :
                                       \/ j \in orphans[s]
                                       \/ slots[s].pc = "case" /\ slots[s].job = j})

(* README "the sum of the memory reservations of all running jobs of a     *)
(* user is at most 256 MiB", for jobs without a grant.                     *)
LiveMemoryWithinQuota == \A u \in Users : LiveMem(u) <= MaxMem
=============================================================================

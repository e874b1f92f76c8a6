------------------------------- MODULE Runner -------------------------------
(***************************************************************************)
(* One call of runner.execute in src/remote_dev/runner.py: the thread that *)
(* compiles and watches the cases, the process it watches, the cgroups of  *)
(* src/remote_dev/cgroup_v2.py, the clock, and a cancellation that may     *)
(* come at any time.                                                       *)
(*                                                                         *)
(* The thread's own steps take no time.  Time passes while it waits for    *)
(* the compiler, for the answer to cancel_check (a call to the broker of   *)
(* at most CallTime) and in time.sleep.  LocalCppRunner and                *)
(* SandboxedCppRunner have the same control; the first has no cgroups.     *)
(***************************************************************************)
EXTENDS Integers, Sequences, FiniteSets

CONSTANTS
    None,
    MaxCases,     \* bound: cases of one job (MAX_CASES)
    TimeLimit,    \* time_limit_ms of the job's cases
    TotalWall,    \* RunnerLimits.total_wall_ms
    CompileWall,  \* RunnerLimits.compile_wall_ms
    CallTime,     \* the longest cancel_check (UnixJobBrokerClient.timeout_seconds)
    Poll,         \* time.sleep(0.005) of the watching loop
    OutLimit      \* stdout_limit_bytes, stderr_limit_bytes

ASSUME RunnerAssumption ==
    /\ MaxCases \in Nat \ {0} /\ TimeLimit \in Nat \ {0} /\ TotalWall \in Nat \ {0}
    /\ CompileWall \in Nat \ {0} /\ CallTime \in Nat /\ Poll \in Nat \ {0} /\ OutLimit \in Nat
    /\ None \notin Int

VARIABLES
    runner,    \* "local" or "sandboxed"
    n,         \* the number of cases
    pc,        \* where the thread is
    pos,       \* index of the current case
    now,       \* time.monotonic()
    started,   \* when the current process was started
    deadline,  \* end of the submission's wall time
    limit,     \* effective.time_limit_ms
    elapsed,   \* elapsed_ms as the watching loop last computed it
    until,     \* when the wait, call or sleep under way ends at the latest
    answer,    \* of the cancel_check under way
    status,    \* of the current case, then of the whole execution
    results,   \* CaseResults so far
    proc,      \* the current process
    groups,    \* the job's cgroups, by name
    cancelAt   \* when the cancellation was requested, or None

clockVars == <<now, cancelAt>>
jobVars == <<runner, n>>
caseVars == <<started, limit, elapsed, deadline>>
vars == <<runner, n, pc, pos, now, started, deadline, limit, elapsed, until, answer,
          status, results, proc, groups, cancelAt>>

(* rc: "bad_alloc" is a failure that says so on stderr, "xfsz" a death by  *)
(* SIGXFSZ as the parent sees it.  oom: the kernel has killed in this      *)
(* process's cgroup while it ran.                                          *)
Process == [alive : BOOLEAN, out : 0..(OutLimit + 1), oom : BOOLEAN,
            rc : {"none", "zero", "fail", "bad_alloc", "xfsz", "killed"}]
NoProcess == [alive |-> FALSE, out |-> 0, oom |-> FALSE, rc |-> "none"]
Spawned == [NoProcess EXCEPT !.alive = TRUE]

(* dir: the directory exists; oom: its memory.events counts an oom_kill. *)
Group == [dir : BOOLEAN, oom : BOOLEAN]
NoGroup == [dir |-> FALSE, oom |-> FALSE]

CaseStatus == {"completed", "time_limit", "memory_limit", "output_limit",
               "runtime_error", "cancelled"}
(* mem: this process ran out of memory, in whatever way it showed. *)
CaseResult == [status : CaseStatus, mem : BOOLEAN]

(* Where a result says "cancelled" for a case that was not started. *)
NotRun == [status |-> "cancelled", mem |-> FALSE]

(* A job has one compile cgroup and one per case: name 0 and the positions. *)
GroupNames == 0..MaxCases

RunnerInit ==
    /\ runner \in {"local", "sandboxed"}
    /\ n = 0
    /\ pc = "idle"
    /\ pos = 1
    /\ now = 0 /\ started = 0 /\ deadline = 0 /\ limit = 0 /\ elapsed = 0 /\ until = 0
    /\ answer = None
    /\ status = "running"
    /\ results = <<>>
    /\ proc = NoProcess
    /\ groups = [g \in GroupNames |-> NoGroup]
    /\ cancelAt = None

-----------------------------------------------------------------------------
(* cgroup_v2.                                                              *)

(* Mutant of CaseGroup: all cases of a job use one directory. *)
CaseGroupOfJob(p) == 1

(* job-{job_id}-case-{case_position} *)
CaseGroup(p) == p

CompileGroup == 0

(* _group: mkdir with exist_ok, so a directory that is still there keeps   *)
(* its counters.                                                           *)
OpenGroup(g) ==
    groups' = IF runner = "sandboxed" THEN [groups EXCEPT ![g].dir = TRUE] ELSE groups

(* close: kill_all, then an rmdir whose failure is swallowed; it fails     *)
(* while a killed process has not been reaped.                             *)
CloseGroup(g) ==
    \/ groups' = [groups EXCEPT ![g] = NoGroup]
    \/ runner = "sandboxed" /\ UNCHANGED groups

(* _terminate: SIGKILL to the cgroup or the process group.  A process that *)
(* has ended in the meantime keeps its exit code.                          *)
Terminated(p) == IF p.alive THEN [p EXCEPT !.alive = FALSE, !.rc = "killed"] ELSE p

-----------------------------------------------------------------------------
(* The start of execute and _compile.                                      *)

(* JobCreate admits only the compiler the runner knows. *)
Execute ==
    /\ pc = "idle"
    /\ pc' = "prepare"
    /\ n' \in 1..MaxCases
    /\ UNCHANGED <<runner, clockVars, caseVars, pos, until, answer, status, results, proc, groups>>

(* The compile semaphore is JobSystem's StartCompile. *)
StartCompile ==
    /\ pc = "prepare"
    /\ pc' = "compiling"
    /\ started' = now
    /\ until' = now + CompileWall
    /\ proc' = Spawned
    /\ OpenGroup(CompileGroup)
    /\ UNCHANGED <<jobVars, clockVars, pos, deadline, limit, elapsed, answer, status, results>>

(* process.wait returned.  The deadline counts from here. *)
EndCompile ==
    /\ pc = "compiling" /\ ~proc.alive
    /\ CloseGroup(CompileGroup)
    /\ \/ /\ ~groups[CompileGroup].oom /\ proc.rc = "zero"
          /\ pc' = "between"
          /\ deadline' = now + TotalWall
          /\ UNCHANGED status
       \/ /\ groups[CompileGroup].oom \/ proc.rc # "zero"
          /\ pc' = "returned"
          /\ status' = IF groups[CompileGroup].oom THEN "system_error" ELSE "compile_error"
          /\ UNCHANGED deadline
    /\ proc' = NoProcess
    /\ UNCHANGED <<jobVars, clockVars, pos, started, limit, elapsed, until, answer, results>>

(* Mutant of CompileTimesOut: process.wait() without a timeout. *)
CompileNeverTimesOut == pc = "compiling" /\ proc.alive /\ now > until /\ UNCHANGED vars

(* subprocess.TimeoutExpired *)
CompileTimesOut ==
    /\ pc = "compiling" /\ proc.alive /\ now = until
    /\ proc' = Terminated(proc)
    /\ CloseGroup(CompileGroup)
    /\ pc' = "returned"
    /\ status' = "system_error"
    /\ UNCHANGED <<jobVars, clockVars, caseVars, pos, until, answer, results>>

(* Mutant of CompileRaises: the cgroup is closed only on the regular way out. *)
CompileRaisesKeepsGroup ==
    /\ pc \in {"prepare", "compiling"}
    /\ runner = "sandboxed" \/ ~proc.alive
    /\ pc' = "raised"
    /\ UNCHANGED <<jobVars, clockVars, caseVars, pos, until, answer, status, results, proc, groups>>

(* A system call raises; the finally block closes the cgroup.  Without     *)
(* cgroups none is made while the compiler runs.                           *)
CompileRaises ==
    /\ pc \in {"prepare", "compiling"}
    /\ runner = "sandboxed" \/ ~proc.alive
    /\ pc' = "raised"
    /\ proc' = Terminated(proc)
    /\ CloseGroup(CompileGroup)
    /\ UNCHANGED <<jobVars, clockVars, caseVars, pos, until, answer, status, results>>

-----------------------------------------------------------------------------
(* cancel_check: the server looks at the job at some moment of the call.   *)

Ask(state) ==
    /\ pc' = state
    /\ until' = now + CallTime
    /\ answer' = None

Asking == pc \in {"askBefore", "askDuring"}

ServerAnswers ==
    /\ Asking /\ answer = None
    /\ answer' = (cancelAt # None)
    /\ UNCHANGED <<jobVars, clockVars, caseVars, pc, pos, until, status, results, proc, groups>>

(* The broker does not answer in time, or answers with an error.  _run_case *)
(* has no handler: its process stays alive, its cgroup stays.               *)
CancelCheckRaises ==
    /\ Asking
    /\ pc' = "raised"
    /\ UNCHANGED <<jobVars, clockVars, caseVars, pos, until, answer, status, results, proc, groups>>

-----------------------------------------------------------------------------
(* The loop of execute over the cases.                                     *)

(* results with the cases from p on listed as cancelled. *)
CancelledFrom(p, done) == done \o [i \in 1..(n + 1 - p) |-> NotRun]

Return(final, listed) ==
    /\ pc' = "returned"
    /\ status' = final
    /\ results' = listed

NextCase ==
    /\ pc = "between"
    /\ \/ pos <= n /\ Ask("askBefore") /\ UNCHANGED <<status, results>>
       \/ pos > n /\ Return("completed", results) /\ UNCHANGED <<until, answer>>
    /\ UNCHANGED <<jobVars, clockVars, caseVars, pos, proc, groups>>

(* Cancelled, or remaining_ms is used up, before case pos. *)
StopBeforeCase ==
    /\ pc = "askBefore" /\ answer # None
    /\ \/ answer /\ Return("cancelled", CancelledFrom(pos, results))
       \/ ~answer /\ now >= deadline /\ Return("completed", CancelledFrom(pos, results))
    /\ UNCHANGED <<jobVars, clockVars, caseVars, pos, until, answer, proc, groups>>

(* Mutant of Effective: the case gets its own limit, whatever remains. *)
EffectiveUncapped == TimeLimit

(* min(case.time_limit_ms, remaining_ms) *)
Effective == IF TimeLimit <= deadline - now THEN TimeLimit ELSE deadline - now

StartCase ==
    /\ pc = "askBefore" /\ answer = FALSE /\ now < deadline
    /\ limit' = Effective
    /\ started' = now
    /\ status' = "running"
    /\ OpenGroup(CaseGroup(pos))
    /\ proc' = Spawned
    /\ pc' = "poll"
    /\ UNCHANGED <<jobVars, clockVars, deadline, elapsed, pos, until, answer, results>>

(* run_group refuses a case above the aggregate, or a system call fails,   *)
(* before the process exists.                                              *)
StartCaseRaises ==
    /\ pc = "askBefore" /\ answer = FALSE /\ now < deadline
    /\ OpenGroup(CaseGroup(pos))
    /\ pc' = "raised"
    /\ UNCHANGED <<jobVars, clockVars, caseVars, pos, until, answer, status, results, proc>>

-----------------------------------------------------------------------------
(* The watching loop of _run_case.                                         *)

(* process.poll(), elapsed_ms, and the call of cancel_check. *)
PollProcess ==
    /\ pc = "poll"
    /\ \/ /\ ~proc.alive
          /\ pc' = "collect"
          /\ UNCHANGED <<elapsed, until, answer>>
       \/ /\ proc.alive
          /\ elapsed' = now - started
          /\ Ask("askDuring")
    /\ UNCHANGED <<jobVars, clockVars, pos, started, deadline, limit, status, results, proc, groups>>

(* Mutant of Verdict: cancel_check is asked between the cases only. *)
VerdictUncancelled ==
    IF proc.out > OutLimit THEN "output_limit"
    ELSE IF elapsed >= limit THEN "time_limit"
    ELSE "running"

(* The tests in the order of the loop.  elapsed is older than the call.    *)
(* The test of the observed memory never holds: _limit_process sets        *)
(* RLIMIT_AS of the same process to the same limit.                        *)
Verdict ==
    IF answer THEN "cancelled"
    ELSE IF proc.out > OutLimit THEN "output_limit"
    ELSE IF elapsed >= limit THEN "time_limit"
    ELSE "running"

Watch ==
    /\ pc = "askDuring" /\ answer # None
    /\ status' = Verdict
    /\ \/ /\ Verdict = "running"
          /\ pc' = "sleep"
          /\ until' = now + Poll
          /\ UNCHANGED proc
       \/ /\ Verdict # "running"
          /\ pc' = "collect"
          /\ proc' = Terminated(proc)
          /\ UNCHANGED until
    /\ UNCHANGED <<jobVars, clockVars, caseVars, pos, answer, results, groups>>

Wake ==
    /\ pc = "sleep" /\ now = until
    /\ pc' = "poll"
    /\ UNCHANGED <<jobVars, clockVars, caseVars, pos, until, answer, status, results, proc, groups>>

(* The status of a process that the loop did not stop. *)
ExitStatus ==
    IF groups[CaseGroup(pos)].oom THEN "memory_limit"
    ELSE IF proc.out > OutLimit \/ proc.rc = "xfsz" THEN "output_limit"
    ELSE IF proc.rc = "zero" THEN "completed"
    ELSE IF proc.rc = "bad_alloc" THEN "memory_limit"
    ELSE "runtime_error"

CaseResultNow ==
    [status |-> IF status = "running" THEN ExitStatus ELSE status,
     mem |-> proc.oom \/ proc.rc = "bad_alloc"]

(* Mutant of Collect: the cases after a cancelled one are run. *)
CollectGoesOn ==
    /\ pc = "collect"
    /\ CloseGroup(CaseGroup(pos))
    /\ proc' = NoProcess
    /\ results' = Append(results, CaseResultNow)
    /\ pc' = "between" /\ pos' = pos + 1
    /\ UNCHANGED <<jobVars, clockVars, caseVars, until, answer, status>>

(* After process.wait(): the cgroup is read and closed, the result listed. *)
Collect ==
    /\ pc = "collect"
    /\ CloseGroup(CaseGroup(pos))
    /\ proc' = NoProcess
    /\ LET listed == Append(results, CaseResultNow) IN
       \/ /\ status = "cancelled"
          /\ Return("cancelled", CancelledFrom(pos + 1, listed))
          /\ UNCHANGED pos
       \/ /\ status # "cancelled"
          /\ results' = listed
          /\ pc' = "between" /\ pos' = pos + 1
          /\ UNCHANGED status
    /\ UNCHANGED <<jobVars, clockVars, caseVars, until, answer>>

-----------------------------------------------------------------------------
(* The process, the clock and the user.                                    *)

ProcessVars == <<jobVars, clockVars, caseVars, pc, pos, until, answer, status, results>>

Exits ==
    /\ proc.alive
    /\ \E rc \in {"zero", "fail", "bad_alloc"} : proc' = [proc EXCEPT !.alive = FALSE, !.rc = rc]
    /\ UNCHANGED <<ProcessVars, groups>>

Writes ==
    /\ proc.alive /\ proc.out <= OutLimit
    /\ proc' = [proc EXCEPT !.out = @ + 1]
    /\ UNCHANGED <<ProcessVars, groups>>

(* A file of the process reaches RLIMIT_FSIZE.  bubblewrap turns the       *)
(* signal into an exit code.                                               *)
FileLimit ==
    /\ proc.alive
    /\ proc' = [proc EXCEPT !.alive = FALSE, !.rc = IF runner = "local" THEN "xfsz" ELSE "fail"]
    /\ UNCHANGED <<ProcessVars, groups>>

GroupNow == IF pc = "compiling" THEN CompileGroup ELSE CaseGroup(pos)

(* The kernel kills in the cgroup: the whole program, or one of its        *)
(* children only.                                                          *)
OomKill ==
    /\ proc.alive /\ runner = "sandboxed"
    /\ groups' = [groups EXCEPT ![GroupNow].oom = TRUE]
    /\ \/ proc' = [proc EXCEPT !.oom = TRUE]
       \/ proc' = [proc EXCEPT !.oom = TRUE, !.alive = FALSE, !.rc = "fail"]
    /\ UNCHANGED ProcessVars

Waiting == pc = "compiling" \/ Asking \/ pc = "sleep"

Tick ==
    /\ Waiting /\ now < until
    /\ now' = now + 1
    /\ UNCHANGED <<jobVars, caseVars, pc, pos, until, answer, status, results, proc, groups, cancelAt>>

RequestCancel ==
    /\ cancelAt = None /\ pc \notin {"idle", "returned", "raised"}
    /\ cancelAt' = now
    /\ UNCHANGED <<jobVars, caseVars, now, pc, pos, until, answer, status, results, proc, groups>>

-----------------------------------------------------------------------------
Thread ==
    \/ Execute \/ StartCompile \/ EndCompile \/ CompileTimesOut
    \/ NextCase \/ StopBeforeCase \/ StartCase
    \/ PollProcess \/ Watch \/ Wake \/ Collect

Raises == CompileRaises \/ CancelCheckRaises \/ StartCaseRaises

Program == proc.alive /\ pc \notin {"returned", "raised"} /\ (Exits \/ Writes \/ FileLimit \/ OomKill)

RunnerNext == Thread \/ Raises \/ ServerAnswers \/ Program \/ Tick \/ RequestCancel

RunnerSpec == RunnerInit /\ [][RunnerNext]_vars

(* The thread is scheduled, the broker answers within CallTime or the call *)
(* raises, and time passes.  Nothing is asked of the program.              *)
FairRunnerSpec ==
    /\ RunnerSpec
    /\ WF_vars(Thread)
    /\ WF_vars(ServerAnswers \/ CancelCheckRaises)
    /\ WF_vars(Tick)

-----------------------------------------------------------------------------
(* Properties.                                                             *)

InCase == pc \in {"poll", "askDuring", "sleep", "collect"}

(* Every variable of execute, _compile and _run_case holds values of its   *)
(* type; no more results are listed than there are cases.                  *)
RunnerTypeOK ==
    /\ pc \in {"idle", "prepare", "compiling", "between", "askBefore", "poll", "askDuring",
               "sleep", "collect", "returned", "raised"}
    /\ n \in 0..MaxCases /\ pos \in 1..(n + 1)
    /\ limit \in 0..TimeLimit
    /\ answer \in {None, TRUE, FALSE}
    /\ status \in CaseStatus \cup {"running", "compile_error", "system_error"}
    /\ results \in Seq(CaseResult) /\ Len(results) <= n
    /\ proc \in Process
    /\ groups \in [GroupNames -> Group]
    /\ {now, started, deadline, elapsed, until} \subseteq Nat
    /\ cancelAt \in Nat \cup {None}

(* The thread is done with a process less than two calls and one sleep     *)
(* after its limit: the loop computes elapsed_ms, waits for cancel_check   *)
(* and only then compares, so a comparison may be late by a whole call.    *)
CaseWallIsBounded == InCase => now - started < limit + 2 * CallTime + Poll

(* The overruns of the cases do not add up: however many there are, the    *)
(* last one is over that close to the submission's own wall limit, and the *)
(* cancel_check before the next is all that may follow.                    *)
TotalWallIsBounded ==
    /\ InCase \/ pc = "between" => now < deadline + 2 * CallTime + Poll
    /\ pc = "askBefore" => now < deadline + 3 * CallTime + Poll

(* The wall limits of a case and of the submission are kept but for calls  *)
(* to the broker that are under way, whatever the program does.            *)
WallTimeIsBounded == CaseWallIsBounded /\ TotalWallIsBounded

(* A requested cancellation stops a running case within two calls and one  *)
(* sleep, whatever the answer that was under way when it was requested.    *)
CancelIsPrompt ==
    InCase /\ proc.alive /\ cancelAt # None =>
        now - (IF cancelAt > started THEN cancelAt ELSE started) <= 2 * CallTime + Poll

(* A case is reported as out of memory only if it was: the kernel's count  *)
(* in a cgroup that could not be removed is not taken for that of a later  *)
(* case.                                                                   *)
MemoryVerdictIsOwn ==
    \A p \in DOMAIN results : results[p].status = "memory_limit" => results[p].mem

(* When execute is over, the process is, unless it was the cancel_check of *)
(* a running case that raised.                                             *)
LeftBehindOnlyInCase ==
    pc \in {"returned", "raised"} /\ proc.alive => pc = "raised" /\ deadline # 0

(* What execute keeps, besides types: every process it started is waited   *)
(* for or killed, but for a failing cancel_check.                          *)
RunnerConsistent == RunnerTypeOK /\ LeftBehindOnlyInCase

(* How many cases ran, as finish_job will store it. *)
Ran == Cardinality({p \in DOMAIN results : results[p].status # "cancelled"})

Abstract == INSTANCE Execution WITH run <-
    CASE pc = "idle" -> [at |-> "idle"]
      [] pc = "prepare" -> [at |-> "prepare", n |-> n]
      [] pc = "compiling" -> [at |-> "compile", n |-> n]
      [] pc \in {"between", "askBefore"} -> [at |-> "run", n |-> n, ran |-> Ran]
      [] InCase -> [at |-> "case", n |-> n, ran |-> Ran]
      [] pc = "returned" -> [at |-> "returned", n |-> n, status |-> status,
                             reported |-> Len(results), ran |-> Ran]
      [] pc = "raised" -> [at |-> "raised"]

(* Whatever the process, the clock and the user do, execute goes through   *)
(* the steps that Execution allows its caller to see, and returns a result *)
(* whose list of cases fits its status.                                    *)
RefinesExecution == Abstract!Spec

(* execute ends, whatever the program does. *)
ExecuteEnds == <>(pc \in {"returned", "raised"})
=============================================================================

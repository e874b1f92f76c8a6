------------------------------ MODULE JobStore ------------------------------
(***************************************************************************)
(* The job queue of the control plane: the tables jobs, job_cases and      *)
(* quota_grants of src/remote_dev/database.py and the handlers that read   *)
(* and write them.                                                         *)
(*                                                                         *)
(* HTTP handlers run on a pool of threads, each with a connection in       *)
(* sqlite3's legacy transaction mode: a SELECT commits at once and a write *)
(* transaction opens at the first INSERT or UPDATE, so create_job and      *)
(* cancel_job are sequences of steps that other handlers interleave with.  *)
(* claim_next_job opens BEGIN IMMEDIATE first and is one step.             *)
(*                                                                         *)
(* The worker is left arbitrary here: it may report any result, any number *)
(* of times and in any order, about a job it was once handed.  JobSystem   *)
(* gives the real worker and shows that it stays within this.              *)
(***************************************************************************)
EXTENDS Integers, FiniteSets, FiniteSetsExt

CONSTANTS
    Users,        \* ids of the developers (ORDER BY user_id compares them)
    Requests,     \* threads of the HTTP pool that run a job handler
    Payloads,     \* submissions that may arrive
    Offers,       \* grants that an administrator may create
    None,         \* SQL NULL
    MaxJobs,      \* bound: rows the jobs table may ever hold
    MaxGrants,    \* bound: rows the quota_grants table may ever hold
    MaxCases,     \* bound: cases of one job (MAX_CASES)
    MaxNow,       \* bound: readings of the clock
    MaxMem,       \* MAX_USER_RUNNING_MEMORY_MIB
    MaxTime,      \* MAX_TIME_MS
    MaxInflight   \* MAX_USER_INFLIGHT

JobIds == 1..MaxJobs
GrantIds == 1..MaxGrants
Positions == 1..MaxCases
Times == 0..MaxNow
Limits == (Nat \ {0}) \cup {None}

ASSUME BoundsAssumption ==
    /\ MaxJobs \in Nat /\ MaxGrants \in Nat /\ MaxCases \in Nat /\ MaxNow \in Nat
    /\ MaxMem \in Nat /\ MaxTime \in Nat /\ MaxInflight \in Nat
ASSUME UsersAssumption == Users \subseteq Nat
ASSUME RequestsAssumption == IsFiniteSet(Requests) /\ Requests # {}
ASSUME NoneAssumption == None \notin Int
\* mem and time are the declared limits, cases the number of inputs; big marks a
\* submission whose claim response is longer than the broker's 32 MiB message
ASSUME PayloadsAssumption ==
    Payloads \subseteq [mem : Nat, time : Nat, cases : Positions, big : BOOLEAN]
\* a limit the administrator left out is None; ttl is expires_in_seconds
ASSUME OffersAssumption ==
    Offers \subseteq [memory : Limits, time : Limits, inflight : Limits,
                      uses : Limits, ttl : Limits]

(* JOB_STATES that the code writes: no statement ever sets 'running', and  *)
(* the runner reports no other final status for a whole job.               *)
Active == {"compiling"}
Inflight == {"queued"} \cup Active
Terminal == {"completed", "compile_error", "cancelled", "system_error"}

(* A case row: "ran" stands for every outcome of a case that was started.  *)
CaseStatus == {"none", "queued", "cancelled", "ran"}

VARIABLES
    jobs,       \* the jobs table
    cases,      \* the job_cases table
    grants,     \* the quota_grants table
    lastJob,    \* AUTOINCREMENT of jobs
    lastGrant,  \* AUTOINCREMENT of quota_grants
    claims,     \* successful claims so far: started_at as a rank
    now,        \* utcnow()
    reqs        \* what each HTTP thread read before its next statement

storeVars == <<jobs, cases, grants, lastJob, lastGrant, claims, now>>
vars == <<jobs, cases, grants, lastJob, lastGrant, claims, now, reqs>>

NoJob == [user |-> None, spec |-> None, grant |-> None, status |-> "absent",
          cancel |-> FALSE, created |-> 0, started |-> 0]
NoGrant == [user |-> None, offer |-> None, remaining |-> None, expires |-> None]
Idle == [pc |-> "idle"]

Job == [user : Users, spec : Payloads, grant : GrantIds \cup {None},
        status : Inflight \cup Terminal, cancel : BOOLEAN,
        created : Times, started : 0..MaxJobs]
Grant == [user : Users, offer : Offers, remaining : Nat \cup {None},
          expires : Nat \cup {None}]
Request ==
    {Idle}
    \cup [pc : {"limits"}, user : Users, spec : Payloads, count : 0..MaxJobs]
    \cup [pc : {"pick"}, user : Users, spec : Payloads]
    \cup [pc : {"insert"}, user : Users, spec : Payloads,
          grant : GrantIds \cup {None}, since : Times]
    \cup [pc : {"cancelQueued", "cancelActive"}, job : JobIds]

Init ==
    /\ jobs = [j \in JobIds |-> NoJob]
    /\ cases = [j \in JobIds |-> [p \in Positions |-> "none"]]
    /\ grants = [g \in GrantIds |-> NoGrant]
    /\ lastJob = 0
    /\ lastGrant = 0
    /\ claims = 0
    /\ now = 0
    /\ reqs = [r \in Requests |-> Idle]

-----------------------------------------------------------------------------
(* Grants.                                                                 *)

(* Mutant of Valid: a grant without uses is still good. *)
ValidIgnoringUses(g, t) ==
    /\ g \in 1..lastGrant
    /\ grants[g].expires # None => grants[g].expires > t

(* The clause "active=1 AND (expires_at IS NULL OR expires_at>?) AND       *)
(* (remaining_uses IS NULL OR remaining_uses>0)"; active is never cleared. *)
Valid(g, t) ==
    /\ g \in 1..lastGrant
    /\ grants[g].expires # None => grants[g].expires > t
    /\ grants[g].remaining # None => grants[g].remaining > 0

(* max_inflight of effective_limits. *)
InflightLimitOf(u) ==
    Max({MaxInflight} \cup
        {grants[g].offer.inflight :
            g \in {h \in GrantIds : /\ Valid(h, now)
                                    /\ grants[h].user = u
                                    /\ grants[h].offer.inflight # None}})

Standard(p) == p.mem <= MaxMem /\ p.time <= MaxTime

AtLeast(limit, n) == limit # None /\ limit >= n

(* Mutant of Covers: the user is not compared. *)
CoversAnyUser(g, u, p) ==
    /\ Valid(g, now)
    /\ p.mem <= MaxMem \/ AtLeast(grants[g].offer.memory, p.mem)
    /\ p.time <= MaxTime \/ AtLeast(grants[g].offer.time, p.time)

(* Grant g authorises payload p of user u. *)
Covers(g, u, p) ==
    /\ Valid(g, now)
    /\ grants[g].user = u
    /\ p.mem <= MaxMem \/ AtLeast(grants[g].offer.memory, p.mem)
    /\ p.time <= MaxTime \/ AtLeast(grants[g].offer.time, p.time)

(* ORDER BY (expires_at IS NULL), expires_at, id *)
ExpiresBefore(g, h) ==
    LET e == grants[g].expires
        f == grants[h].expires
    IN  \/ e # None /\ f = None
        \/ e # None /\ f # None /\ e < f
        \/ e = f /\ g < h

CreateGrant(u, o) ==
    /\ lastGrant < MaxGrants
    /\ lastGrant' = lastGrant + 1
    /\ grants' = [grants EXCEPT ![lastGrant + 1] =
                    [user |-> u, offer |-> o, remaining |-> o.uses,
                     expires |-> IF o.ttl = None THEN None ELSE now + o.ttl]]
    /\ UNCHANGED <<jobs, cases, lastJob, claims, now, reqs>>

-----------------------------------------------------------------------------
(* create_job: four statements, each its own step.                         *)

InflightJobs(u) == {j \in JobIds : jobs[j].user = u /\ jobs[j].status \in Inflight}

(* SELECT COUNT( * ) of the unfinished jobs. *)
CountInflight(r, u, p) ==
    /\ reqs[r].pc = "idle"
    /\ lastJob < MaxJobs
    /\ reqs' = [reqs EXCEPT ![r] = [pc |-> "limits", user |-> u, spec |-> p,
                                    count |-> Cardinality(InflightJobs(u))]]
    /\ UNCHANGED storeVars

(* What follows the in-flight check: the grant lookup, or the INSERT at once. *)
AfterLimits(q) ==
    IF Standard(q.spec)
      THEN [pc |-> "insert", user |-> q.user, spec |-> q.spec, grant |-> None, since |-> now]
      ELSE [pc |-> "pick", user |-> q.user, spec |-> q.spec]

(* Mutant of CheckLimits: > for >=. *)
CheckLimitsOffByOne(r) ==
    /\ reqs[r].pc = "limits"
    /\ reqs' = [reqs EXCEPT ![r] =
                  IF reqs[r].count > InflightLimitOf(reqs[r].user)
                    THEN Idle ELSE AfterLimits(reqs[r])]
    /\ UNCHANGED storeVars

(* effective_limits, then OverflowError("inflight_limit") or on. *)
CheckLimits(r) ==
    /\ reqs[r].pc = "limits"
    /\ reqs' = [reqs EXCEPT ![r] =
                  IF reqs[r].count >= InflightLimitOf(reqs[r].user)
                    THEN Idle ELSE AfterLimits(reqs[r])]
    /\ UNCHANGED storeVars

(* SELECT of the covering grant that expires first, or "quota_exceeded". *)
PickGrant(r) ==
    LET covering == {g \in GrantIds : Covers(g, reqs[r].user, reqs[r].spec)} IN
    /\ reqs[r].pc = "pick"
    /\ \/ /\ covering = {}
          /\ reqs' = [reqs EXCEPT ![r] = Idle]
       \/ \E g \in covering :
            /\ \A h \in covering \ {g} : ExpiresBefore(g, h)
            /\ reqs' = [reqs EXCEPT ![r] =
                          [pc |-> "insert", user |-> reqs[r].user, spec |-> reqs[r].spec,
                           grant |-> g, since |-> now]]
    /\ UNCHANGED storeVars

(* The INSERTs of the job and of its cases, one transaction.  created_at   *)
(* was read before the write lock was granted, so it may be older than now.*)
InsertJob(r) ==
    LET q == reqs[r]
        j == lastJob + 1
    IN
    /\ q.pc = "insert"
    /\ lastJob < MaxJobs
    /\ lastJob' = j
    /\ \E stamp \in q.since..now :
         jobs' = [jobs EXCEPT ![j] =
                    [user |-> q.user, spec |-> q.spec, grant |-> q.grant,
                     status |-> "queued", cancel |-> FALSE,
                     created |-> stamp, started |-> 0]]
    /\ cases' = [cases EXCEPT ![j] =
                   [p \in Positions |-> IF p <= q.spec.cases THEN "queued" ELSE "none"]]
    /\ reqs' = [reqs EXCEPT ![r] = Idle]
    /\ UNCHANGED <<grants, lastGrant, claims, now>>

-----------------------------------------------------------------------------
(* cancel_job and cancel_job_admin: SELECT the status, then write.         *)

CancelRead(r, j) ==
    /\ reqs[r].pc = "idle"
    /\ \/ /\ jobs[j].status = "queued"
          /\ reqs' = [reqs EXCEPT ![r] = [pc |-> "cancelQueued", job |-> j]]
       \/ /\ jobs[j].status \in Active
          /\ reqs' = [reqs EXCEPT ![r] = [pc |-> "cancelActive", job |-> j]]
    /\ UNCHANGED storeVars

CancelJob(r, u, j) == jobs[j].user = u /\ CancelRead(r, j)

CancelJobAdmin(r, j) == CancelRead(r, j)

CaseRows(j, status) ==
    [p \in Positions |-> IF cases[j][p] = "none" THEN "none" ELSE status]

(* The branch for status "queued": neither UPDATE repeats the test. *)
WriteCancelQueued(r) ==
    LET j == reqs[r].job IN
    /\ reqs[r].pc = "cancelQueued"
    /\ jobs' = [jobs EXCEPT ![j].status = "cancelled", ![j].cancel = TRUE]
    /\ cases' = [cases EXCEPT ![j] = CaseRows(j, "cancelled")]
    /\ reqs' = [reqs EXCEPT ![r] = Idle]
    /\ UNCHANGED <<grants, lastJob, lastGrant, claims, now>>

(* The branch for status "compiling": only the flag. *)
WriteCancelActive(r) ==
    /\ reqs[r].pc = "cancelActive"
    /\ jobs' = [jobs EXCEPT ![reqs[r].job].cancel = TRUE]
    /\ reqs' = [reqs EXCEPT ![r] = Idle]
    /\ UNCHANGED <<cases, grants, lastJob, lastGrant, claims, now>>

IsCancelRequested(j) == jobs[j].cancel \/ jobs[j].status = "cancelled"

-----------------------------------------------------------------------------
(* claim_next_job: one BEGIN IMMEDIATE transaction.                        *)

(* Mutant of ActiveMem: a compiling job reserves nothing. *)
ActiveMemRunningOnly(u) ==
    MapThenSumSet(LAMBDA i : jobs[i].spec.mem,
                  {j \in JobIds : jobs[j].user = u /\ jobs[j].status = "running"})

(* SUM(memory_limit_mib) over the user's jobs that hold a reservation. *)
ActiveMem(u) ==
    MapThenSumSet(LAMBDA i : jobs[i].spec.mem,
                  {j \in JobIds : jobs[j].user = u /\ jobs[j].status \in Active})

(* COALESCE(memory of the job's grant if it is still valid, 256) *)
Ceiling(j) ==
    LET g == jobs[j].grant IN
    IF g # None /\ Valid(g, now) /\ grants[g].offer.memory # None
      THEN grants[g].offer.memory ELSE MaxMem

Eligible(j) ==
    /\ jobs[j].status = "queued"
    /\ ~jobs[j].cancel
    /\ ActiveMem(jobs[j].user) + jobs[j].spec.mem <= Ceiling(j)

(* Mutant of Earlier: ORDER BY ... DESC. *)
EarlierNewestFirst(i, j) ==
    \/ jobs[i].created > jobs[j].created
    \/ jobs[i].created = jobs[j].created /\ i > j

(* ORDER BY created_at, id *)
Earlier(i, j) ==
    \/ jobs[i].created < jobs[j].created
    \/ jobs[i].created = jobs[j].created /\ i < j

(* user_queue_position = 1 *)
HeadOfUser(j) ==
    /\ Eligible(j)
    /\ \A i \in JobIds \ {j} : Eligible(i) /\ jobs[i].user = jobs[j].user => Earlier(j, i)

LastClaimed(u) == Max({0} \cup {jobs[j].started : j \in {i \in JobIds : jobs[i].user = u}})

(* Mutant of IsNext: the users are served in the order of their ids. *)
IsNextByUserId(j) ==
    /\ HeadOfUser(j)
    /\ \A i \in JobIds :
         HeadOfUser(i) /\ jobs[i].user # jobs[j].user => jobs[j].user < jobs[i].user

(* ORDER BY (last_claimed_at IS NOT NULL), last_claimed_at, user_id LIMIT 1 *)
IsNext(j) ==
    /\ HeadOfUser(j)
    /\ \A i \in JobIds :
         HeadOfUser(i) /\ jobs[i].user # jobs[j].user =>
           LET mine == LastClaimed(jobs[j].user)
               theirs == LastClaimed(jobs[i].user)
           IN  mine < theirs \/ (mine = theirs /\ jobs[j].user < jobs[i].user)

(* Mutant of HandOut: the grant is not charged. *)
HandOutUncharged(j) ==
    /\ jobs' = [jobs EXCEPT ![j].status = "compiling", ![j].started = claims + 1]
    /\ claims' = claims + 1
    /\ UNCHANGED <<cases, grants>>

(* The job is handed out: 'compiling', and a finite grant has one use less. *)
HandOut(j) ==
    /\ jobs' = [jobs EXCEPT ![j].status = "compiling", ![j].started = claims + 1]
    /\ claims' = claims + 1
    /\ LET g == jobs[j].grant IN
       grants' = IF g # None /\ grants[g].remaining # None
                   THEN [grants EXCEPT ![g].remaining = @ - 1] ELSE grants
    /\ UNCHANGED cases

(* The charge matched no row: the job is cancelled and nobody gets it. *)
GiveUp(j) ==
    /\ jobs' = [jobs EXCEPT ![j].status = "cancelled"]
    /\ cases' = [cases EXCEPT ![j] = CaseRows(j, "cancelled")]
    /\ UNCHANGED <<claims, grants>>

(* The clock is read again for the charge and may have moved since the     *)
(* SELECT.  No eligible job: the transaction is rolled back, no step.      *)
ClaimJob(j) ==
    /\ IsNext(j)
    /\ now' \in now..(now + 1) /\ now' <= MaxNow
    /\ \/ (jobs[j].grant # None => Valid(jobs[j].grant, now')) /\ HandOut(j)
       \/ jobs[j].grant # None /\ ~Valid(jobs[j].grant, now') /\ GiveUp(j)
    /\ UNCHANGED <<lastJob, lastGrant, reqs>>

ClaimNextJob == \E j \in JobIds : ClaimJob(j)

-----------------------------------------------------------------------------
(* What the worker reports.                                                *)

(* ExecutionResult of a job with n cases: cases 1..ran were started and    *)
(* the others of 1..reported were listed as cancelled.  A compilation that *)
(* did not complete lists none; a cancellation stops before the last case; *)
(* the submission's wall limit cuts a "completed" job short.               *)
Executions(n) ==
    [status : {"compile_error", "system_error"}, reported : {0}, ran : {0}]
    \cup [status : {"completed"}, reported : {n}, ran : 0..n]
    \cup [status : {"cancelled"}, reported : {n}, ran : 0..(n - 1)]

Listed(row, e) ==
    [p \in Positions |->
        IF row[p] # "none" /\ p <= e.reported
          THEN IF p <= e.ran THEN "ran" ELSE "cancelled"
          ELSE row[p]]

CloseQueued(row) == [p \in Positions |-> IF row[p] = "queued" THEN "cancelled" ELSE row[p]]

(* Mutant of FinishJob: the cases that are not listed are left as they are. *)
FinishJobNoSweep(j, e) ==
    /\ jobs' = [jobs EXCEPT ![j].status = e.status]
    /\ cases' = [cases EXCEPT ![j] = Listed(cases[j], e)]
    /\ UNCHANGED <<grants, lastJob, lastGrant, claims, now, reqs>>

(* UPDATE ... WHERE id=?: the status the row has is not looked at. *)
FinishJob(j, e) ==
    /\ jobs' = [jobs EXCEPT ![j].status = e.status]
    /\ cases' = [cases EXCEPT ![j] = CloseQueued(Listed(cases[j], e))]
    /\ UNCHANGED <<grants, lastJob, lastGrant, claims, now, reqs>>

(* Mutant of MarkJobSystemError: the job is put back for another try. *)
MarkJobRequeued(j) ==
    /\ jobs' = [jobs EXCEPT ![j].status = "queued"]
    /\ UNCHANGED <<cases, grants, lastJob, lastGrant, claims, now, reqs>>

MarkJobSystemError(j) ==
    /\ jobs' = [jobs EXCEPT ![j].status = "system_error"]
    /\ cases' = [cases EXCEPT ![j] = CloseQueued(cases[j])]
    /\ UNCHANGED <<grants, lastJob, lastGrant, claims, now, reqs>>

Claimed(j) == jobs[j].started # 0

Tick ==
    /\ now < MaxNow
    /\ now' = now + 1
    /\ UNCHANGED <<jobs, cases, grants, lastJob, lastGrant, claims, reqs>>

-----------------------------------------------------------------------------
(* The statements of one HTTP thread. *)
Handler(r) ==
    \/ \E u \in Users, p \in Payloads : CountInflight(r, u, p)
    \/ CheckLimits(r)
    \/ PickGrant(r)
    \/ InsertJob(r)
    \/ \E u \in Users, j \in JobIds : CancelJob(r, u, j)
    \/ \E j \in JobIds : CancelJobAdmin(r, j)
    \/ WriteCancelQueued(r)
    \/ WriteCancelActive(r)

ControlPlane ==
    \/ \E r \in Requests : Handler(r)
    \/ \E u \in Users, o \in Offers : CreateGrant(u, o)
    \/ Tick

WorkerReport(j) ==
    \/ \E e \in Executions(jobs[j].spec.cases) : FinishJob(j, e)
    \/ MarkJobSystemError(j)

Next ==
    \/ ControlPlane
    \/ ClaimNextJob
    \/ \E j \in JobIds : Claimed(j) /\ WorkerReport(j)

Spec == Init /\ [][Next]_vars

(* Two slot threads call claim_next_job again and again. *)
PollingSpec == Spec /\ WF_vars(ClaimNextJob)

-----------------------------------------------------------------------------
(* Properties.                                                             *)

(* Every table and every thread holds values of its type. *)
TypeOK ==
    /\ lastJob \in 0..MaxJobs
    /\ lastGrant \in 0..MaxGrants
    /\ claims \in 0..MaxJobs
    /\ now \in Times
    /\ jobs \in [JobIds -> Job \cup {NoJob}]
    /\ cases \in [JobIds -> [Positions -> CaseStatus]]
    /\ grants \in [GrantIds -> Grant \cup {NoGrant}]
    /\ reqs \in [Requests -> Request]

(* The jobs that some worker was given. *)
HandedOut == {j \in JobIds : jobs[j].started # 0}

(* How the tables and the threads hang together: rows are numbered without *)
(* gaps; threads and jobs refer to rows that exist; a queued job was never *)
(* handed out; and claims, the last rank given, counts the jobs that were. *)
TablesAgree ==
    /\ \A j \in JobIds : IF j <= lastJob THEN jobs[j] \in Job ELSE jobs[j] = NoJob
    /\ \A g \in GrantIds : IF g <= lastGrant THEN grants[g] \in Grant ELSE grants[g] = NoGrant
    /\ \A j \in JobIds : jobs[j].grant # None => jobs[j].grant <= lastGrant
    /\ \A r \in Requests : reqs[r].pc = "insert" /\ reqs[r].grant # None =>
                            reqs[r].grant <= lastGrant
    /\ \A r \in Requests : reqs[r].pc \in {"cancelQueued", "cancelActive"} =>
                            reqs[r].job <= lastJob
    /\ \A j \in JobIds : jobs[j].status = "queued" => jobs[j].started = 0
    /\ claims = Cardinality(HandedOut)

(* The phase a row of the jobs table is in, as JobLifecycle sees it. *)
PhaseOf(status) ==
    CASE status = "absent" -> "absent"
      [] status = "queued" -> "queued"
      [] status \in Active -> "active"
      [] OTHER -> "closed"

Lifecycle == INSTANCE JobLifecycle WITH
    Submissions <- JobIds,
    phase <- [j \in JobIds |-> PhaseOf(jobs[j].status)],
    handed <- HandedOut

(* However claims, late reports and stale cancellations interleave, every  *)
(* job goes through the life cycle that JobLifecycle allows: finish_job    *)
(* and mark_job_system_error do not look at the status they overwrite, and *)
(* still no job is handed out twice and none leaves a terminal state.      *)
RefinesLifecycle == Lifecycle!Spec

(* The memory limit under which job j was handed out. *)
GrantedMem(j) ==
    LET g == jobs[j].grant IN
    IF g # None /\ grants[g].offer.memory # None THEN grants[g].offer.memory ELSE MaxMem

(* ADR-003: when claim_next_job hands out a job, the declared memory of    *)
(* all jobs of the user that hold a reservation fits the limit this job    *)
(* was admitted under, whatever was claimed, finished, granted or expired  *)
(* in the meantime.                                                        *)
ReservationsFit ==
    \A j \in JobIds :
        jobs[j].status \in Active =>
            MapThenSumSet(LAMBDA i : jobs[i].spec.mem,
                          {k \in JobIds : /\ jobs[k].user = jobs[j].user
                                          /\ jobs[k].status \in Active
                                          /\ jobs[k].started <= jobs[j].started})
              <= GrantedMem(j)

(* The jobs handed out under grant g. *)
Uses(g) == {j \in JobIds : jobs[j].grant = g /\ jobs[j].started # 0}

(* A use of a grant is spent exactly when a job is handed out under it: a  *)
(* job cancelled in the queue, or given up because the grant expired,      *)
(* costs nothing, and no hand-out is free.                                 *)
GrantAccounting ==
    \A g \in GrantIds :
        grants[g].remaining # None =>
            grants[g].offer.uses =
                grants[g].remaining + Cardinality(Uses(g))

(* A finished job has no case that still looks as if it will run: clients  *)
(* that poll get_job until the job is terminal see the last word on every  *)
(* case, also after a cancellation that raced with the claim.              *)
ClosedJobHasNoQueuedCase ==
    \A j \in JobIds : jobs[j].status \in Terminal =>
        \A p \in Positions : cases[j][p] # "queued"

(* Grant g is one of user u and is large enough for payload p. *)
AuthorisedBy(g, u, p) ==
    /\ g # None
    /\ grants[g].user = u
    /\ p.mem <= MaxMem \/ AtLeast(grants[g].offer.memory, p.mem)
    /\ p.time <= MaxTime \/ AtLeast(grants[g].offer.time, p.time)

(* A job above the standard ceilings carries a grant of its own user that  *)
(* is large enough for it, although the grant was read in one transaction  *)
(* and the job inserted in another.                                        *)
ExcessIsAuthorised ==
    \A j \in JobIds :
        jobs[j].status # "absent" /\ ~Standard(jobs[j].spec) =>
            AuthorisedBy(jobs[j].grant, jobs[j].user, jobs[j].spec)

(* The largest in-flight limit user u ever had. *)
LargestLimit(u) ==
    Max({MaxInflight} \cup
        {grants[g].offer.inflight :
            g \in {h \in GrantIds : grants[h].user = u /\ grants[h].offer.inflight # None}})

(* Threads that passed the in-flight check for u and will INSERT. *)
Admitted(u) == {r \in Requests : reqs[r].pc \in {"pick", "insert"} /\ reqs[r].user = u}

(* The check of create_job is not atomic with its INSERT, yet the excess   *)
(* is bounded: the jobs in flight and those about to be inserted exceed    *)
(* the limit by less than the number of threads.                           *)
OvershootIsBounded ==
    \A u \in Users :
        Cardinality(InflightJobs(u)) + Cardinality(Admitted(u))
            < LargestLimit(u) + Cardinality(Requests)

(* Two standard jobs of one user with the same memory are handed out in    *)
(* the order they were submitted: the later one never starts while the     *)
(* earlier one still waits uncancelled, nor before it.                     *)
SameSizeInOrder ==
    \A i, j \in JobIds :
        /\ i < j /\ Claimed(j)
        /\ jobs[i].user = jobs[j].user /\ jobs[i].created <= jobs[j].created
        /\ jobs[i].grant = None /\ jobs[j].grant = None
        /\ jobs[i].spec.mem = jobs[j].spec.mem
        => /\ jobs[i].status = "queued" => jobs[i].cancel
           /\ jobs[i].started < jobs[j].started

(* Fair share: a user who has waited since before user u's latest          *)
(* submission and was never served goes ahead of a second job of u.  Only  *)
(* the first job of a user with a smaller id can have passed.              *)
NewcomerGoesFirst ==
    \A k, i \in JobIds :
        /\ k < i /\ Claimed(i)
        /\ jobs[k].status = "queued" /\ ~jobs[k].cancel /\ jobs[k].grant = None
        /\ jobs[k].user # jobs[i].user
        /\ LastClaimed(jobs[k].user) = 0
        => /\ jobs[i].user < jobs[k].user
           /\ \A h \in JobIds : jobs[h].user = jobs[i].user /\ Claimed(h) =>
                jobs[i].started <= jobs[h].started

(* A queued job whose grant has run out leaves the queue: claim_next_job   *)
(* has a branch for it, "temporary grant expired before execution".        *)
ExpiredGrantLeavesQueue ==
    \A j \in JobIds :
        (jobs[j].status = "queued" /\ jobs[j].grant # None /\ ~Valid(jobs[j].grant, now))
            ~> jobs[j].status # "queued"
=============================================================================

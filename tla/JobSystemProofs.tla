-------------------------- MODULE JobSystemProofs ---------------------------
(***************************************************************************)
(* Proofs about JobSystem: the worker with its failing, late and repeated  *)
(* calls stays within JobStore and Execution, never runs a job twice at    *)
(* the same time, and loses neither results nor reservations but for the   *)
(* reasons the properties name.  For any number of slots, faults and jobs. *)
(***************************************************************************)
EXTENDS JobSystem, JobStoreProofs

USE DEF Active, Inflight, Terminal, JobIds, Positions

(* A job row that a slot may still execute: active, or cancelled by a      *)
(* request that also set the flag cancel_check looks at.                   *)
OpenRow(row) == row.status \in Active \/ (row.status = "cancelled" /\ row.cancel)

(* What slot state q, and call c, presuppose of the tables J.              *)
Fits(q, J) ==
    q.pc \notin {"claim", "dead"} =>
        /\ J[q.job].started # 0
        /\ q.pc = "run" => q.ran <= J[q.job].spec.cases
        /\ q.pc = "case" => q.ran < J[q.job].spec.cases
        /\ q.pc = "report" => q.result \in Executions(J[q.job].spec.cases)

CallFits(c, J) ==
    c.op # "claim" =>
        /\ J[c.job].started # 0
        /\ c.op = "complete" => c.result \in Executions(J[c.job].spec.cases)

(* Slot state q and orphans o make the slot an executor of job j. *)
HasJob(q, o, j) == j \in o \/ (q.pc \notin {"claim", "dead"} /\ q.job = j)

(* The slot has a job whose end no call has been sent for. *)
Unsent(q) == q.pc \notin {"claim", "dead"} /\ ~(q.pc = "fail" /\ q.why = "broker")

WorkFits ==
    /\ \A s \in Slots : Fits(slots[s], jobs)
    /\ \A c \in stale : CallFits(c, jobs)
    /\ \A s \in Slots, j \in JobIds : j \in orphans[s] => jobs[j].started # 0

Separate ==
    \A s, t \in Slots, j \in JobIds :
        HasJob(slots[s], orphans[s], j) /\ HasJob(slots[t], orphans[t], j) => s = t

(* A job whose end was not sent is open, and nothing late is about it. *)
UnsentIsOpen ==
    \A s \in Slots :
        Unsent(slots[s]) =>
            /\ OpenRow(jobs[slots[s].job])
            /\ \A c \in stale : c.op # "claim" => c.job # slots[s].job

(* A result is on its way late at most once, and not when one is stored. *)
LateOnce ==
    \A c \in stale :
        c.op = "complete" =>
            /\ jobs[c.job].status # "completed"
            /\ \A d \in stale : d.op = "complete" /\ d.job = c.job => d = c

SysInv == Inv /\ SysTypeOK /\ WorkFits /\ Separate /\ UnsentIsOpen /\ LateOnce

-----------------------------------------------------------------------------
(* Slot states and calls. *)

(* The fields of a slot state. *)
LEMMA SlotFields ==
    ASSUME NEW q \in Slot
    PROVE  /\ q.pc \in {"claim", "dead", "prepare", "compile", "run", "case", "report", "fail"}
           /\ q.pc \notin {"claim", "dead"} => q.job \in JobIds
           /\ q.pc \in {"run", "case"} => q.ran \in 0..MaxCases
           /\ q.pc = "report" => q.result \in UNION {Executions(n) : n \in Positions}
           /\ q.pc = "fail" => q.why \in {"broker", "wire", "quota", "runner"}
  BY DEF Slot, Claiming, Dead

(* The fields of a call. *)
LEMMA CallFields ==
    ASSUME NEW c \in Call
    PROVE  /\ c.op \in {"claim", "complete", "system-error"}
           /\ c.op # "claim" => c.job \in JobIds
           /\ c.op = "complete" => c.result \in UNION {Executions(n) : n \in Positions}
  BY DEF Call

(* The states a slot passes through. *)
LEMMA SlotValues ==
    ASSUME NEW j \in JobIds
    PROVE  /\ Claiming \in Slot /\ Claiming.pc = "claim"
           /\ Dead \in Slot /\ Dead.pc = "dead"
           /\ [pc |-> "prepare", job |-> j] \in Slot
           /\ [pc |-> "compile", job |-> j] \in Slot
           /\ \A ran \in 0..MaxCases : /\ [pc |-> "run", job |-> j, ran |-> ran] \in Slot
                                       /\ [pc |-> "case", job |-> j, ran |-> ran] \in Slot
           /\ \A why \in {"broker", "wire", "quota", "runner"} :
                /\ Fail(j, why) \in Slot
                /\ Fail(j, why).pc = "fail" /\ Fail(j, why).job = j /\ Fail(j, why).why = why
  BY DEF Slot, Claiming, Dead, Fail

(* The results a slot reports. *)
LEMMA ReportValues ==
    ASSUME NEW j \in JobIds, NEW n \in Positions, NEW status, NEW reported, NEW ran,
           [status |-> status, reported |-> reported, ran |-> ran] \in Executions(n)
    PROVE  /\ Report(j, status, reported, ran) \in Slot
           /\ Report(j, status, reported, ran).pc = "report"
           /\ Report(j, status, reported, ran).job = j
           /\ Report(j, status, reported, ran).result \in Executions(n)
           /\ Report(j, status, reported, ran).result =
                [status |-> status, reported |-> reported, ran |-> ran]
  BY DEF Report, Slot

(* Jobs that exist have a number of cases. *)
LEMMA CasesType ==
    ASSUME TypeOK, NEW j \in JobIds, jobs[j].started # 0
    PROVE  jobs[j] \in Job /\ jobs[j].spec.cases \in Positions
  BY PayloadsAssumption DEF TypeOK, NoJob, Job

-----------------------------------------------------------------------------
(* What the steps of the store mean to the worker. *)

(* claim_next_job touches one job, that was never handed out. *)
LEMMA ClaimEffect ==
    ASSUME Inv, NEW j \in JobIds, ClaimJob(j)
    PROVE  /\ jobs[j].status = "queued" /\ jobs[j].started = 0
           /\ \A i \in JobIds : i # j => jobs'[i] = jobs[i]
           /\ jobs'[j].spec = jobs[j].spec
           /\ \/ jobs'[j].status = "compiling" /\ jobs'[j].started # 0
              \/ jobs'[j].status = "cancelled" /\ jobs'[j].started = 0
  <1>1. IsNext(j)
    BY DEF ClaimJob
  <1>2. jobs[j] \in Job /\ jobs[j].status = "queued" /\ jobs[j].started = 0
    BY <1>1, NextJob
  <1>3. CASE HandOut(j)
    <2>1. /\ jobs'[j] = [jobs[j] EXCEPT !.status = "compiling", !.started = claims + 1]
          /\ jobs'[j].status = "compiling" /\ jobs'[j].started # 0
          /\ jobs' = [jobs EXCEPT ![j] = jobs'[j]]
      BY <1>1, <1>3, HandOutEffect
    <2>2. jobs'[j].spec = jobs[j].spec
      BY <1>2, <2>1 DEF Job
    <2>3. \A i \in JobIds : i # j => jobs'[i] = jobs[i]
      BY <2>1 DEF Inv, TypeOK
    <2> QED
      BY <1>2, <2>1, <2>2, <2>3
  <1>4. CASE GiveUp(j)
    <2>1. jobs' = [jobs EXCEPT ![j].status = "cancelled"]
      BY <1>4 DEF GiveUp
    <2>2. /\ \A i \in JobIds : i # j => jobs'[i] = jobs[i]
          /\ jobs'[j] = [jobs[j] EXCEPT !.status = "cancelled"]
      BY <2>1 DEF Inv, TypeOK
    <2> QED
      BY <1>2, <2>2 DEF Job
  <1> QED
    BY <1>3, <1>4 DEF ClaimJob

(* A report closes its own job. *)
LEMMA ReportEffect ==
    ASSUME Inv, NEW j \in JobIds, jobs[j].started # 0,
           \/ MarkJobSystemError(j)
           \/ \E e \in Executions(jobs[j].spec.cases) : FinishJob(j, e)
    PROVE  /\ \A i \in JobIds : i # j => jobs'[i] = jobs[i]
           /\ jobs'[j].spec = jobs[j].spec /\ jobs'[j].started = jobs[j].started
           /\ MarkJobSystemError(j) => jobs'[j].status = "system_error"
           /\ jobs'[j].status \in Terminal
  <1>1. jobs[j] \in Job
    BY DEF Inv, TypeOK, NoJob
  <1>2. PICK status \in Terminal : /\ jobs' = [jobs EXCEPT ![j].status = status]
                                   /\ MarkJobSystemError(j) => status = "system_error"
    <2>1. CASE MarkJobSystemError(j)
      <3>1. jobs' = [jobs EXCEPT ![j].status = "system_error"] /\ "system_error" \in Terminal
        BY <2>1 DEF MarkJobSystemError, Terminal
      <3> QED
        BY <3>1
    <2>2. CASE ~MarkJobSystemError(j)
      BY <2>2, ExecutionStatus DEF FinishJob
    <2> QED
      BY <2>1, <2>2
  <1>3. /\ \A i \in JobIds : i # j => jobs'[i] = jobs[i]
        /\ jobs'[j] = [jobs[j] EXCEPT !.status = status]
    BY <1>2 DEF Inv, TypeOK
  <1> QED
    BY <1>1, <1>2, <1>3 DEF Job

(* Handlers, administrators and the clock: a job keeps what the worker     *)
(* knows of it, and is at most cancelled with the flag.                    *)
LEMMA ControlEffect ==
    ASSUME Inv, ControlPlane, NEW j \in JobIds, jobs[j] # NoJob
    PROVE  /\ jobs'[j].started = jobs[j].started /\ jobs'[j].spec = jobs[j].spec
           /\ \/ jobs'[j] = jobs[j]
              \/ jobs'[j].status = "cancelled" /\ jobs'[j].cancel
                 /\ \E r \in Requests : reqs[r].pc = "cancelQueued" /\ reqs[r].job = j
              \/ jobs'[j].status = jobs[j].status /\ jobs'[j].cancel
  <1>1. ASSUME NEW r \in Requests, InsertJob(r) PROVE jobs'[j] = jobs[j]
    BY <1>1, InsertEffect
  <1>2. ASSUME NEW r \in Requests, WriteCancelQueued(r)
        PROVE  \/ jobs'[j] = jobs[j]
               \/ /\ reqs[r].job = j
                  /\ jobs'[j] = [jobs[j] EXCEPT !.status = "cancelled", !.cancel = TRUE]
    BY <1>2 DEF WriteCancelQueued, Inv, TypeOK
  <1>3. ASSUME NEW r \in Requests, WriteCancelActive(r)
        PROVE  jobs'[j] = jobs[j] \/ jobs'[j] = [jobs[j] EXCEPT !.cancel = TRUE]
    BY <1>3 DEF WriteCancelActive, Inv, TypeOK
  <1>4. jobs[j] \in Job
    BY DEF Inv, TypeOK
  <1>5. ASSUME NEW r \in Requests, WriteCancelQueued(r) PROVE reqs[r].pc = "cancelQueued"
    BY <1>5 DEF WriteCancelQueued
  <1>6. CASE \E r \in Requests : InsertJob(r) \/ WriteCancelQueued(r) \/ WriteCancelActive(r)
    BY <1>1, <1>2, <1>3, <1>4, <1>5, <1>6 DEF Job
  <1>7. CASE ~(\E r \in Requests : InsertJob(r) \/ WriteCancelQueued(r) \/ WriteCancelActive(r))
    <2>1. jobs' = jobs
      BY <1>7 DEF ControlPlane, Handler, CreateGrant, Tick, CountInflight, CheckLimits, PickGrant,
                  CancelJob, CancelJobAdmin, CancelRead, storeVars
    <2> QED
      BY <2>1
  <1> QED
    BY <1>6, <1>7

-----------------------------------------------------------------------------
(* What each conjunct of the invariant asks of a step. *)

(* A step keeps what the worker knows of the jobs it was handed. *)
KeepsHanded ==
    \A j \in JobIds : jobs[j].started # 0 =>
        jobs'[j].started # 0 /\ jobs'[j].spec = jobs[j].spec

(* Every step of the store does so. *)
LEMMA HandedKept ==
    ASSUME Inv, Next
    PROVE  KeepsHanded
  <1> SUFFICES ASSUME NEW j \in JobIds, jobs[j].started # 0
               PROVE  jobs'[j].started # 0 /\ jobs'[j].spec = jobs[j].spec
    BY DEF KeepsHanded
  <1>1. CASE ControlPlane
    BY <1>1, ControlEffect DEF NoJob
  <1>2. ASSUME NEW i \in JobIds, ClaimJob(i)
        PROVE  jobs'[j].started # 0 /\ jobs'[j].spec = jobs[j].spec
    BY <1>2, ClaimEffect
  <1>3. ASSUME NEW i \in JobIds, Claimed(i), WorkerReport(i)
        PROVE  jobs'[j].started # 0 /\ jobs'[j].spec = jobs[j].spec
    <2>1. CASE i = j
      BY <1>3, <2>1, ReportEffect DEF Claimed, WorkerReport
    <2>2. CASE i # j
      BY <1>3, <2>2, ReportEffect DEF Claimed, WorkerReport
    <2> QED
      BY <2>1, <2>2
  <1> QED
    BY <1>1, <1>2, <1>3 DEF Next, ClaimNextJob

(* A job that some slot has was handed out. *)
LEMMA HadIsHanded ==
    ASSUME WorkFits, NEW s \in Slots, NEW j \in JobIds, HasJob(slots[s], orphans[s], j)
    PROVE  jobs[j].started # 0
  BY DEF WorkFits, HasJob, Fits

(* Only what is new among slots, calls and orphans has to be looked at. *)
LEMMA WorkFitsStep ==
    ASSUME SysInv, KeepsHanded,
           \A s \in Slots : slots'[s] = slots[s] \/ Fits(slots'[s], jobs'),
           \A c \in stale' : c \in stale \/ CallFits(c, jobs'),
           \A s \in Slots, j \in JobIds :
             j \in orphans'[s] => j \in orphans[s] \/ jobs'[j].started # 0
    PROVE  WorkFits'
  <1>1. ASSUME NEW s \in Slots PROVE Fits(slots'[s], jobs')
    <2>1. CASE slots'[s] = slots[s]
      <3> DEFINE q == slots[s]
      <3>1. q \in Slot /\ Fits(q, jobs)
        BY DEF SysInv, SysTypeOK, WorkFits
      <3>2. q.pc \notin {"claim", "dead"} => q.job \in JobIds
        BY <3>1, SlotFields
      <3> HIDE DEF q
      <3>3. Fits(q, jobs')
        BY <3>1, <3>2 DEF Fits, KeepsHanded
      <3> QED
        BY <2>1, <3>3 DEF q
    <2> QED
      BY <2>1
  <1>2. ASSUME NEW c \in stale' PROVE CallFits(c, jobs')
    <2>1. CASE c \in stale
      <3>1. c \in Call /\ CallFits(c, jobs)
        BY <2>1 DEF SysInv, SysTypeOK, WorkFits
      <3> QED
        BY <3>1, CallFields DEF CallFits, KeepsHanded
    <2> QED
      BY <1>2, <2>1
  <1>3. ASSUME NEW s \in Slots, NEW j \in JobIds, j \in orphans'[s] PROVE jobs'[j].started # 0
    BY <1>3 DEF SysInv, WorkFits, KeepsHanded
  <1> QED
    BY <1>1, <1>2, <1>3 DEF WorkFits

(* A slot gets only a job that nobody was handed, and only one slot does. *)
LEMMA SeparateStep ==
    ASSUME SysInv, NEW t \in Slots,
           \A s \in Slots, j \in JobIds : HasJob(slots'[s], orphans'[s], j) =>
             \/ HasJob(slots[s], orphans[s], j)
             \/ s = t /\ jobs[j].started = 0
    PROVE  Separate'
  <1> SUFFICES ASSUME NEW s \in Slots, NEW u \in Slots, NEW j \in JobIds,
                      HasJob(slots'[s], orphans'[s], j), HasJob(slots'[u], orphans'[u], j)
               PROVE  s = u
    BY DEF Separate
  <1>1. CASE HasJob(slots[s], orphans[s], j)
    <2>1. jobs[j].started # 0
      BY <1>1, HadIsHanded DEF SysInv
    <2> QED
      BY <1>1, <2>1 DEF SysInv, Separate
  <1>2. CASE HasJob(slots[u], orphans[u], j)
    <2>1. jobs[j].started # 0
      BY <1>2, HadIsHanded DEF SysInv
    <2> QED
      BY <1>2, <2>1 DEF SysInv, Separate
  <1> QED
    BY <1>1, <1>2

(* The same where no slot gets a job. *)
LEMMA SeparateKept ==
    ASSUME SysInv,
           \A s \in Slots, j \in JobIds :
             HasJob(slots'[s], orphans'[s], j) => HasJob(slots[s], orphans[s], j)
    PROVE  Separate'
  BY DEF SysInv, Separate

(* A job that a slot has not finished is in no other slot's hands. *)
LEMMA NotElsewhere ==
    ASSUME SysInv, NEW s \in Slots, NEW t \in Slots, s # t,
           slots[s].pc \notin {"claim", "dead"}, slots[t].pc \notin {"claim", "dead"}
    PROVE  slots[s].job # slots[t].job
  <1>1. slots[s].job \in JobIds
    BY SlotFields DEF SysInv, SysTypeOK
  <1> QED
    BY <1>1 DEF SysInv, Separate, HasJob

-----------------------------------------------------------------------------
(* The steps, by kind. *)

(* Steps of runner.execute, its exception included: the slot goes on with  *)
(* its job, and may leave a process of it behind.                          *)
LEMMA AdvanceInv ==
    ASSUME SysInv, NEW s \in Slots, NEW q \in Slot,
           Goto(s, q), Unsent(slots[s]), Unsent(q), q.job = slots[s].job, Fits(q, jobs),
           UNCHANGED <<vars, stale>>, faults' \in 0..MaxFaults,
           orphans' \in [Slots -> SUBSET JobIds],
           \A t \in Slots, j \in JobIds :
             j \in orphans'[t] => j \in orphans[t] \/ (t = s /\ j = slots[s].job)
    PROVE  SysInv'
  <1>1. jobs' = jobs /\ stale' = stale
    BY DEF vars
  <1>2. slots'[s] = q /\ \A t \in Slots : t # s => slots'[t] = slots[t]
    BY DEF Goto, SysInv, SysTypeOK
  <1>3. Inv'
    BY NextInv DEF SysInv
  <1>4. SysTypeOK'
    BY <1>3 DEF SysInv, SysTypeOK, Inv, Goto, vars
  <1>5. jobs[slots[s].job].started # 0
    BY DEF SysInv, WorkFits, Fits, Unsent
  <1>6. WorkFits'
    <2>1. KeepsHanded
      BY <1>1 DEF KeepsHanded
    <2>2. \A t \in Slots : slots'[t] = slots[t] \/ Fits(slots'[t], jobs')
      BY <1>1, <1>2
    <2>3. \A t \in Slots, j \in JobIds :
            j \in orphans'[t] => j \in orphans[t] \/ jobs'[j].started # 0
      BY <1>1, <1>5
    <2> QED
      BY <1>1, <2>1, <2>2, <2>3, WorkFitsStep
  <1>7. Separate'
    <2>1. \A t \in Slots, j \in JobIds :
            HasJob(slots'[t], orphans'[t], j) => HasJob(slots[t], orphans[t], j)
      BY <1>2 DEF HasJob, Unsent
    <2> QED
      BY <2>1, SeparateKept
  <1>8. UnsentIsOpen'
    BY <1>1, <1>2 DEF SysInv, UnsentIsOpen
  <1>9. LateOnce'
    BY <1>1 DEF SysInv, LateOnce
  <1> QED
    BY <1>3, <1>4, <1>6, <1>7, <1>8, <1>9 DEF SysInv

(* Handlers, administrators and the clock. *)
LEMMA ControlPlaneInv ==
    ASSUME SysInv, ControlPlane, UNCHANGED workerVars
    PROVE  SysInv'
  <1>1. slots' = slots /\ orphans' = orphans /\ stale' = stale /\ faults' = faults
    BY DEF workerVars
  <1>2. Inv'
    BY NextInv DEF SysInv, Next
  <1>3. SysTypeOK'
    BY <1>1, <1>2 DEF SysInv, SysTypeOK, Inv
  <1>4. KeepsHanded
    BY HandedKept DEF SysInv, Next
  <1>5. WorkFits'
    BY <1>1, <1>4, WorkFitsStep
  <1>6. Separate'
    BY <1>1, SeparateKept
  <1>7. UnsentIsOpen'
    <2> SUFFICES ASSUME NEW s \in Slots, Unsent(slots[s])
                 PROVE  OpenRow(jobs'[slots[s].job])
      BY <1>1 DEF SysInv, UnsentIsOpen
    <2> DEFINE j == slots[s].job
    <2>1. j \in JobIds
      BY SlotFields DEF SysInv, SysTypeOK, Unsent
    <2>2. OpenRow(jobs[j]) /\ jobs[j].started # 0
      BY DEF SysInv, UnsentIsOpen, WorkFits, Fits, Unsent
    <2>3. \/ jobs'[j] = jobs[j]
          \/ jobs'[j].status = "cancelled" /\ jobs'[j].cancel
          \/ jobs'[j].status = jobs[j].status /\ jobs'[j].cancel
      BY <2>1, <2>2, ControlEffect DEF SysInv, NoJob
    <2> QED
      BY <2>2, <2>3 DEF OpenRow
  <1>8. LateOnce'
    <2> SUFFICES ASSUME NEW c \in stale, c.op = "complete"
                 PROVE  jobs'[c.job].status # "completed"
      BY <1>1 DEF SysInv, LateOnce
    <2>1. c.job \in JobIds /\ jobs[c.job].started # 0
      BY CallFields DEF SysInv, SysTypeOK, WorkFits, CallFits
    <2>2. jobs[c.job].status # "completed"
      BY DEF SysInv, LateOnce
    <2> QED
      BY <2>1, <2>2, ControlEffect DEF SysInv, NoJob
  <1> QED
    BY <1>2, <1>3, <1>5, <1>6, <1>7, <1>8 DEF SysInv

(* A claim of slot s, or one that nobody waits for (then no slot changes). *)
LEMMA AnyClaimInv ==
    ASSUME SysInv, NEW j \in JobIds, ClaimJob(j), stale' \subseteq stale,
           UNCHANGED <<orphans, faults>>,
           \/ slots' = slots
           \/ \E s \in Slots : slots[s].pc = "claim" /\ Goto(s, AfterClaim(j))
    PROVE  SysInv'
  <1>1. Inv'
    BY NextInv DEF SysInv, Next, ClaimNextJob
  <1>2. KeepsHanded
    BY HandedKept DEF SysInv, Next, ClaimNextJob
  <1>3. /\ jobs[j].status = "queued" /\ jobs[j].started = 0
        /\ \A i \in JobIds : i # j => jobs'[i] = jobs[i]
        /\ jobs'[j].spec = jobs[j].spec
        /\ \/ jobs'[j].status = "compiling" /\ jobs'[j].started # 0
           \/ jobs'[j].status = "cancelled" /\ jobs'[j].started = 0
    BY ClaimEffect DEF SysInv
  <1> DEFINE new == AfterClaim(j)
             mine == [pc |-> "prepare", job |-> j]
  <1>4. new \in {Claiming, Dead} \/ (new = mine /\ jobs'[j].status \in Active)
    BY DEF AfterClaim
  <1> HIDE DEF new
  <1>5. new \in Slot
    <2>1. mine \in Slot /\ Claiming \in Slot /\ Dead \in Slot
      BY SlotValues
    <2> QED
      BY <1>4, <2>1
  <1>6. \A s \in Slots : slots'[s] = slots[s] \/ (slots[s].pc = "claim" /\ slots'[s] = new)
    BY DEF Goto, SysInv, SysTypeOK, new
  <1>7. SysTypeOK'
    <2>1. slots' \in [Slots -> Slot]
      BY <1>5 DEF Goto, SysInv, SysTypeOK, new
    <2> QED
      BY <1>1, <2>1 DEF SysInv, SysTypeOK, Inv
  <1>8. /\ mine.pc = "prepare" /\ mine.job = j
        /\ Claiming.pc = "claim" /\ Dead.pc = "dead"
    BY DEF Claiming, Dead
  <1> HIDE DEF mine
  <1>9. WorkFits'
    <2>1. Fits(new, jobs')
      BY <1>3, <1>4, <1>8 DEF Fits
    <2> QED
      BY <1>2, <1>6, <2>1, WorkFitsStep
  <1>10. Separate'
    <2>1. CASE slots' = slots
      BY <2>1, SeparateKept
    <2>2. CASE \E s \in Slots : slots[s].pc = "claim" /\ Goto(s, AfterClaim(j))
      <3>1. PICK s \in Slots : slots[s].pc = "claim" /\ Goto(s, new)
        BY <2>2 DEF new
      <3>2. slots'[s] = new /\ \A u \in Slots : u # s => slots'[u] = slots[u]
        BY <3>1 DEF Goto, SysInv, SysTypeOK
      <3>3. \A u \in Slots, i \in JobIds : HasJob(slots'[u], orphans'[u], i) =>
              HasJob(slots[u], orphans[u], i) \/ (u = s /\ jobs[i].started = 0)
        BY <1>3, <1>4, <1>8, <3>2 DEF HasJob
      <3> QED
        BY <3>3, SeparateStep
    <2> QED
      BY <2>1, <2>2
  <1>11. UnsentIsOpen'
    <2> SUFFICES ASSUME NEW s \in Slots, Unsent(slots'[s])
                 PROVE  /\ OpenRow(jobs'[slots'[s].job])
                        /\ \A c \in stale : c.op # "claim" => c.job # slots'[s].job
      BY DEF UnsentIsOpen
    <2>1. CASE slots'[s] = slots[s]
      <3>1. jobs[slots[s].job].started # 0 /\ slots[s].job \in JobIds
        BY <2>1, SlotFields DEF SysInv, SysTypeOK, WorkFits, Fits, Unsent
      <3>2. jobs'[slots[s].job] = jobs[slots[s].job]
        BY <1>3, <3>1
      <3> QED
        BY <2>1, <3>2 DEF SysInv, UnsentIsOpen
    <2>2. CASE slots'[s] = new
      <3>1. new = mine /\ jobs'[j].status \in Active
        BY <1>4, <1>8, <2>2 DEF Unsent
      <3>2. \A c \in stale : c.op # "claim" => c.job # j
        BY <1>3 DEF SysInv, WorkFits, CallFits
      <3> QED
        BY <1>8, <2>2, <3>1, <3>2 DEF OpenRow
    <2> QED
      BY <1>6, <2>1, <2>2
  <1>12. LateOnce'
    <2> SUFFICES ASSUME NEW c \in stale, c.op = "complete"
                 PROVE  jobs'[c.job].status # "completed"
      BY DEF SysInv, LateOnce
    <2>1. c.job \in JobIds /\ jobs[c.job].status # "completed"
      BY CallFields DEF SysInv, SysTypeOK, LateOnce
    <2> QED
      BY <1>3, <2>1
  <1> QED
    BY <1>1, <1>7, <1>9, <1>10, <1>11, <1>12 DEF SysInv

(* A report that leads slot s back to claim, or a late one (then no slot   *)
(* changes): a job that no unfinished slot and no late result is about,    *)
(* but for the ones named, gets a final status.                            *)
LEMMA AnyReportInv ==
    ASSUME SysInv, NEW j \in JobIds, jobs[j].started # 0,
           \/ MarkJobSystemError(j)
           \/ /\ \E e \in Executions(jobs[j].spec.cases) : FinishJob(j, e)
              /\ \A c \in stale' : c.op = "complete" => c.job # j,
           stale' \subseteq stale, UNCHANGED <<orphans, faults>>,
           slots' \in [Slots -> Slot],
           \A s \in Slots : slots'[s] = slots[s] \/ slots'[s] = Claiming,
           \A s \in Slots : Unsent(slots'[s]) => slots'[s].job # j
    PROVE  SysInv'
  <1>1. Claimed(j) /\ WorkerReport(j)
    BY DEF Claimed, WorkerReport
  <1>2. Inv' /\ KeepsHanded
    BY <1>1, NextInv, HandedKept DEF SysInv, Next
  <1>3. /\ \A i \in JobIds : i # j => jobs'[i] = jobs[i]
        /\ MarkJobSystemError(j) => jobs'[j].status = "system_error"
    BY ReportEffect DEF SysInv
  <1>4. SysTypeOK'
    BY <1>2 DEF SysInv, SysTypeOK, Inv
  <1>5. Claiming.pc = "claim"
    BY DEF Claiming
  <1>6. WorkFits'
    <2>1. Fits(Claiming, jobs')
      BY <1>5 DEF Fits
    <2> QED
      BY <1>2, <2>1, WorkFitsStep
  <1>7. Separate'
    <2>1. \A s \in Slots, i \in JobIds :
            HasJob(slots'[s], orphans'[s], i) => HasJob(slots[s], orphans[s], i)
      BY <1>5 DEF HasJob
    <2> QED
      BY <2>1, SeparateKept
  <1>8. UnsentIsOpen'
    <2> SUFFICES ASSUME NEW s \in Slots, Unsent(slots'[s])
                 PROVE  /\ OpenRow(jobs'[slots'[s].job])
                        /\ \A c \in stale : c.op # "claim" => c.job # slots'[s].job
      BY DEF UnsentIsOpen
    <2>1. slots'[s] = slots[s]
      BY <1>5 DEF Unsent
    <2>2. slots[s].job \in JobIds
      BY <2>1, SlotFields DEF SysInv, SysTypeOK, Unsent
    <2>3. jobs'[slots[s].job] = jobs[slots[s].job]
      BY <1>3, <2>1, <2>2
    <2> QED
      BY <2>1, <2>3 DEF SysInv, UnsentIsOpen
  <1>9. LateOnce'
    <2> SUFFICES ASSUME NEW c \in stale', c.op = "complete"
                 PROVE  jobs'[c.job].status # "completed"
      BY DEF SysInv, LateOnce
    <2>1. c.job \in JobIds /\ jobs[c.job].status # "completed"
      BY CallFields DEF SysInv, SysTypeOK, LateOnce
    <2> QED
      BY <1>3, <2>1
  <1> QED
    BY <1>2, <1>4, <1>6, <1>7, <1>8, <1>9 DEF SysInv

(* complete and system-error, answered. *)
LEMMA SlotReportInv ==
    ASSUME SysInv, NEW s \in Slots, Complete(s) \/ SystemError(s)
    PROVE  SysInv'
  <1> DEFINE q == slots[s]
             j == q.job
  <1>1. /\ q.pc \in {"report", "fail"} /\ j \in JobIds
        /\ jobs[j].started # 0
        /\ q.pc = "report" => q.result \in Executions(jobs[j].spec.cases)
    BY SlotFields DEF SysInv, SysTypeOK, WorkFits, Fits, Complete, SystemError
  <1>2. slots'[s] = Claiming /\ \A t \in Slots : t # s => slots'[t] = slots[t]
    BY DEF Goto, SysInv, SysTypeOK, Complete, SystemError
  <1>3. slots' \in [Slots -> Slot] /\ stale' = stale /\ UNCHANGED <<orphans, faults>>
    BY DEF Goto, SysInv, SysTypeOK, Complete, SystemError, Slot
  <1>4. Claiming.pc = "claim"
    BY DEF Claiming
  <1>5. \A t \in Slots : Unsent(slots'[t]) => slots'[t].job # j
    BY <1>1, <1>2, <1>4, NotElsewhere DEF Unsent
  <1>6. CASE Complete(s)
    <2>1. Unsent(q)
      BY <1>6 DEF Complete, Unsent
    <2>2. \A c \in stale : c.op # "claim" => c.job # j
      BY <2>1 DEF SysInv, UnsentIsOpen
    <2>3. \E e \in Executions(jobs[j].spec.cases) : FinishJob(j, e)
      BY <1>1, <1>6 DEF Complete
    <2> QED
      BY <1>1, <1>2, <1>3, <1>5, <2>2, <2>3, AnyReportInv
  <1>7. CASE SystemError(s)
    <2>1. MarkJobSystemError(j)
      BY <1>7 DEF SystemError
    <2> QED
      BY <1>1, <1>2, <1>3, <1>5, <2>1, AnyReportInv
  <1> QED
    BY <1>6, <1>7

(* A call that nobody waits for is carried out. *)
LEMMA LateCallInv ==
    ASSUME SysInv, NEW c \in stale, LateCall(c)
    PROVE  SysInv'
  <1>1. /\ stale' \subseteq stale /\ c \notin stale'
        /\ UNCHANGED <<orphans, faults>> /\ slots' = slots
    BY DEF LateCall
  <1>2. c \in Call /\ CallFits(c, jobs)
    BY DEF SysInv, SysTypeOK, WorkFits
  <1>3. CASE c.op = "claim"
    <2>1. PICK j \in JobIds : ClaimJob(j)
      BY <1>3 DEF LateCall, ClaimNextJob
    <2> QED
      BY <1>1, <2>1, AnyClaimInv
  <1>4. CASE c.op # "claim"
    <2> DEFINE j == c.job
    <2>1. j \in JobIds /\ jobs[j].started # 0
      BY <1>2, <1>4, CallFields DEF CallFits
    <2>2. slots' \in [Slots -> Slot]
      BY <1>1 DEF SysInv, SysTypeOK
    <2>3. \A s \in Slots : Unsent(slots'[s]) => slots'[s].job # j
      BY <1>1, <1>4 DEF SysInv, UnsentIsOpen
    <2>4. CASE c.op = "complete"
      <3>1. \E e \in Executions(jobs[j].spec.cases) : FinishJob(j, e)
        BY <1>2, <2>4 DEF LateCall, CallFits
      <3>2. \A d \in stale' : d.op = "complete" => d.job # j
        BY <1>1, <2>4 DEF SysInv, LateOnce
      <3> QED
        BY <1>1, <2>1, <2>2, <2>3, <3>1, <3>2, AnyReportInv
    <2>5. CASE c.op = "system-error"
      <3>1. MarkJobSystemError(j)
        BY <2>5 DEF LateCall
      <3> QED
        BY <1>1, <2>1, <2>2, <2>3, <3>1, AnyReportInv
    <2> QED
      BY <1>2, <1>4, <2>4, <2>5, CallFields
  <1> QED
    BY <1>3, <1>4

-----------------------------------------------------------------------------
(* Failed calls. *)

(* The call slot s waits for is about the job it has. *)
LEMMA CallOfFields ==
    ASSUME SysInv, NEW s \in Slots, NEW c \in CallOf(s)
    PROVE  /\ c \in Call /\ CallFits(c, jobs)
           /\ c.op # "claim" => /\ slots[s].pc \in {"report", "fail"}
                                /\ c.job = slots[s].job
           /\ c.op = "complete" => slots[s].pc = "report"
           /\ \A d \in CallOf(s) : d = c
  <1> DEFINE q == slots[s]
  <1>1. /\ q \in Slot /\ Fits(q, jobs)
        /\ q.pc \in {"claim", "report", "fail"}
    BY DEF CallOf, SysInv, SysTypeOK, WorkFits
  <1>2. CASE q.pc = "claim"
    BY <1>2 DEF CallOf, CallFits, Call
  <1>3. CASE q.pc = "report"
    <2>1. /\ q.job \in JobIds /\ q.result \in UNION {Executions(n) : n \in Positions}
          /\ jobs[q.job].started # 0 /\ q.result \in Executions(jobs[q.job].spec.cases)
      BY <1>1, <1>3, SlotFields DEF Fits
    <2>2. CallOf(s) = {[op |-> "complete", job |-> q.job, result |-> q.result]}
      BY <1>3 DEF CallOf
    <2>3. c = [op |-> "complete", job |-> q.job, result |-> q.result]
      BY <2>2
    <2>4. c \in Call
      BY <2>1, <2>3 DEF Call
    <2> QED
      BY <1>3, <2>1, <2>2, <2>3, <2>4 DEF CallFits
  <1>4. CASE q.pc = "fail"
    <2>1. q.job \in JobIds /\ jobs[q.job].started # 0
      BY <1>1, <1>4, SlotFields DEF Fits
    <2>2. CallOf(s) = {[op |-> "system-error", job |-> q.job]}
      BY <1>4 DEF CallOf
    <2> QED
      BY <1>4, <2>1, <2>2 DEF CallFits, Call
  <1> QED
    BY <1>1, <1>2, <1>3, <1>4

(* The calls of the slots in S fail: each of them dies, starts anew, or,   *)
(* after complete, goes on to system-error.                                *)
LEMMA FailedCallsInv ==
    ASSUME SysInv, NEW S \in SUBSET Slots, UNCHANGED vars, faults' \in 0..MaxFaults,
           stale' = stale \cup UNION {CallOf(s) : s \in S},
           slots' \in [Slots -> Slot], orphans' \in [Slots -> SUBSET JobIds],
           \A s \in Slots : orphans'[s] \subseteq orphans[s],
           \A s \in Slots \ S : slots'[s] = slots[s],
           \A s \in S : \/ slots'[s] \in {Claiming, Dead}
                        \/ slots[s].pc = "report" /\ slots'[s] = Fail(slots[s].job, "broker")
    PROVE  SysInv'
  <1>1. jobs' = jobs
    BY DEF vars
  <1>2. Inv'
    BY NextInv DEF SysInv
  <1>3. \A s \in S : \A c \in CallOf(s) : c \in Call /\ CallFits(c, jobs)
    BY CallOfFields
  <1>4. SysTypeOK'
    BY <1>2, <1>3 DEF SysInv, SysTypeOK, Inv
  <1>5. Claiming.pc = "claim" /\ Dead.pc = "dead"
    BY DEF Claiming, Dead
  <1>6. \A s \in S : slots'[s].pc \notin {"claim", "dead"} =>
          /\ slots[s].pc = "report" /\ slots'[s].pc = "fail" /\ slots'[s].why = "broker"
          /\ slots'[s].job = slots[s].job
    <2>1. \A j : /\ Fail(j, "broker").pc = "fail" /\ Fail(j, "broker").job = j
                /\ Fail(j, "broker").why = "broker"
      BY DEF Fail
    <2> QED
      BY <1>5, <2>1
  <1>7. WorkFits'
    <2>1. \A s \in Slots : slots'[s] = slots[s] \/ Fits(slots'[s], jobs')
      BY <1>1, <1>6 DEF Fits, SysInv, WorkFits
    <2>2. KeepsHanded
      BY <1>1 DEF KeepsHanded
    <2> QED
      BY <1>1, <1>3, <2>1, <2>2, WorkFitsStep
  <1>8. Separate'
    <2>1. \A s \in Slots, j \in JobIds :
            HasJob(slots'[s], orphans'[s], j) => HasJob(slots[s], orphans[s], j)
      BY <1>6 DEF HasJob
    <2> QED
      BY <2>1, SeparateKept
  <1>9. UnsentIsOpen'
    <2> SUFFICES ASSUME NEW s \in Slots, Unsent(slots'[s])
                 PROVE  /\ OpenRow(jobs[slots'[s].job])
                        /\ \A c \in stale' : c.op # "claim" => c.job # slots'[s].job
      BY <1>1 DEF UnsentIsOpen
    <2>1. s \notin S /\ slots'[s] = slots[s]
      BY <1>6 DEF Unsent
    <2>2. ASSUME NEW t \in S, NEW c \in CallOf(t), c.op # "claim"
          PROVE  c.job # slots[s].job
      <3>1. c.job = slots[t].job /\ slots[t].pc \in {"report", "fail"}
        BY <2>2, CallOfFields
      <3> QED
        BY <2>1, <2>2, <3>1, NotElsewhere DEF Unsent
    <2> QED
      BY <2>1, <2>2 DEF SysInv, UnsentIsOpen
  <1>10. LateOnce'
    <2>1. ASSUME NEW s \in S, NEW c \in CallOf(s), c.op = "complete"
          PROVE  /\ jobs[c.job].status # "completed"
                 /\ \A d \in stale : d.op # "claim" => d.job # c.job
                 /\ \A t \in S : \A d \in CallOf(t) : d.op = "complete" /\ d.job = c.job => d = c
      <3>1. /\ slots[s].pc = "report" /\ c.job = slots[s].job
            /\ \A d \in CallOf(s) : d = c
        BY <2>1, CallOfFields
      <3>2. Unsent(slots[s])
        BY <3>1 DEF Unsent
      <3>3. ASSUME NEW t \in S, NEW d \in CallOf(t), d.op = "complete", d.job = c.job
            PROVE  d = c
        <4>1. slots[t].pc = "report" /\ d.job = slots[t].job
          BY <3>3, CallOfFields
        <4>2. t = s
          BY <3>1, <3>3, <4>1, NotElsewhere
        <4> QED
          BY <3>1, <4>2
      <3> QED
        BY <3>1, <3>2, <3>3 DEF SysInv, UnsentIsOpen, OpenRow
    <2> QED
      BY <1>1, <2>1 DEF SysInv, LateOnce
  <1> QED
    BY <1>2, <1>4, <1>7, <1>8, <1>9, <1>10 DEF SysInv

LEMMA CallFailsInv ==
    ASSUME SysInv, NEW s \in Slots, CallFails(s)
    PROVE  SysInv'
  <1> DEFINE q == slots[s]
  <1>1. q.pc \in {"claim", "report", "fail"}
    BY DEF CallFails, CallOf
  <1>2. faults' \in 0..MaxFaults
    BY SlotsAssumption DEF CallFails, Fault, SysInv, SysTypeOK
  <1> DEFINE S == {s}
  <1>3. S \in SUBSET Slots /\ stale' = stale \cup UNION {CallOf(t) : t \in S}
    BY DEF CallFails
  <1>4. \/ q.pc = "report" /\ Goto(s, Fail(q.job, "broker")) /\ orphans' = orphans
        \/ Goto(s, Dead) /\ orphans' = [orphans EXCEPT ![s] = {}]
    BY DEF CallFails, Die
  <1>5. PICK new \in {Dead, Fail(q.job, "broker")} :
          /\ Goto(s, new)
          /\ new # Dead => q.pc = "report"
    BY <1>4
  <1>6. new \in Slot
    <2>1. q.pc = "report" => q.job \in JobIds
      BY SlotFields DEF SysInv, SysTypeOK
    <2>2. q.pc = "report" => Fail(q.job, "broker") \in Slot
      BY <2>1, SlotValues
    <2>3. Dead \in Slot
      BY DEF Slot
    <2> QED
      BY <1>5, <2>2, <2>3
  <1>7. /\ slots' \in [Slots -> Slot] /\ slots'[s] = new
        /\ \A t \in Slots : t # s => slots'[t] = slots[t]
    BY <1>5, <1>6 DEF Goto, SysInv, SysTypeOK
  <1>8. /\ orphans' \in [Slots -> SUBSET JobIds]
        /\ \A t \in Slots : orphans'[t] \subseteq orphans[t]
    BY <1>4 DEF SysInv, SysTypeOK
  <1>9. UNCHANGED vars
    BY DEF CallFails
  <1>10. /\ \A t \in Slots \ S : slots'[t] = slots[t]
         /\ \A t \in S : \/ slots'[t] \in {Claiming, Dead}
                         \/ slots[t].pc = "report" /\ slots'[t] = Fail(slots[t].job, "broker")
    BY <1>5, <1>7
  <1> HIDE DEF S
  <1> QED
    BY <1>2, <1>3, <1>7, <1>8, <1>9, <1>10, FailedCallsInv

LEMMA WorkerCrashInv ==
    ASSUME SysInv, WorkerCrash
    PROVE  SysInv'
  <1>1. faults' \in 0..MaxFaults
    BY SlotsAssumption DEF WorkerCrash, Fault, SysInv, SysTypeOK
  <1>2. /\ slots' \in [Slots -> Slot] /\ orphans' \in [Slots -> SUBSET JobIds]
        /\ \A s \in Slots : slots'[s] = Claiming /\ orphans'[s] \subseteq orphans[s]
    BY DEF WorkerCrash, Slot
  <1>3. UNCHANGED vars /\ stale' = stale \cup UNION {CallOf(s) : s \in Slots}
    BY DEF WorkerCrash
  <1> QED
    BY <1>1, <1>2, <1>3, FailedCallsInv

(* A process left behind ends: nothing else changes. *)
LEMMA OrphanEndsInv ==
    ASSUME SysInv, NEW s \in Slots, OrphanEnds(s)
    PROVE  SysInv'
  <1>1. /\ orphans' \in [Slots -> SUBSET JobIds]
        /\ \A t \in Slots : orphans'[t] \subseteq orphans[t]
    BY DEF OrphanEnds, SysInv, SysTypeOK
  <1> DEFINE S == {}
  <1>2. /\ UNCHANGED vars /\ S \in SUBSET Slots
        /\ stale' = stale \cup UNION {CallOf(t) : t \in S}
    BY DEF OrphanEnds
  <1>3. slots' \in [Slots -> Slot] /\ slots' = slots /\ faults' \in 0..MaxFaults
    BY DEF OrphanEnds, SysInv, SysTypeOK
  <1>4. \A t \in S : \/ slots'[t] \in {Claiming, Dead}
                     \/ slots[t].pc = "report" /\ slots'[t] = Fail(slots[t].job, "broker")
    OBVIOUS
  <1> HIDE DEF S
  <1> QED
    BY <1>1, <1>2, <1>3, <1>4, FailedCallsInv

-----------------------------------------------------------------------------
(* runner.execute. *)

(* The steps of runner.execute that return or go on. *)
ExecuteStep(s) ==
    \/ StartCompile(s) \/ EndCompile(s)
    \/ StopBeforeCase(s) \/ StartCase(s) \/ EndCase(s) \/ StopCase(s) \/ EndRun(s)
    \/ RejectComplete(s)

(* A slot of which it is known what it does with its job. *)
LEMMA HeldJob ==
    ASSUME SysInv, NEW s \in Slots, slots[s].pc \notin {"claim", "dead"}
    PROVE  /\ slots[s].job \in JobIds /\ jobs[slots[s].job].started # 0
           /\ CasesOf(slots[s].job) \in Positions
           /\ slots[s].pc \in {"run", "case"} => slots[s].ran \in 0..CasesOf(slots[s].job)
           /\ slots[s].pc = "case" => slots[s].ran + 1 \in 0..CasesOf(slots[s].job)
           /\ slots[s].pc = "report" => slots[s].result \in Executions(CasesOf(slots[s].job))
  <1> DEFINE q == slots[s]
             n == CasesOf(q.job)
  <1>1. q \in Slot /\ Fits(q, jobs)
    BY DEF SysInv, SysTypeOK, WorkFits
  <1>2. q.job \in JobIds /\ jobs[q.job].started # 0
    BY <1>1, SlotFields DEF Fits
  <1>3. n \in Positions
    BY <1>2, CasesType DEF SysInv, Inv, CasesOf
  <1>4. q.pc \in {"run", "case"} => q.ran \in 0..MaxCases
    BY <1>1, SlotFields
  <1>5. /\ q.pc = "run" => q.ran <= n
        /\ q.pc = "case" => q.ran < n
        /\ q.pc = "report" => q.result \in Executions(n)
    BY <1>1 DEF Fits, CasesOf
  <1> HIDE DEF n, q
  <1>6. /\ q.pc \in {"run", "case"} => q.ran \in 0..n
        /\ q.pc = "case" => q.ran + 1 \in 0..n
    BY <1>3, <1>4, <1>5, BoundsAssumption
  <1> QED
    BY <1>2, <1>3, <1>5, <1>6 DEF n, q

(* Where a step of runner.execute leads: to a state of the same job that   *)
(* suits its row.                                                          *)
LEMMA ExecuteTarget ==
    ASSUME SysInv, NEW s \in Slots, ExecuteStep(s)
    PROVE  \E q \in Slot : /\ Goto(s, q) /\ Unsent(slots[s]) /\ Unsent(q)
                           /\ q.job = slots[s].job /\ Fits(q, jobs)
  <1> DEFINE p == slots[s]
             j == p.job
             n == CasesOf(j)
  <1>1. p.pc \in {"prepare", "compile", "run", "case", "report"}
    BY DEF ExecuteStep, StartCompile, EndCompile, StopBeforeCase, StartCase, EndCase, StopCase,
           EndRun, RejectComplete
  <1>2. /\ Unsent(p) /\ p \in Slot
        /\ j \in JobIds /\ jobs[j].started # 0 /\ n \in Positions
        /\ n = jobs[j].spec.cases
        /\ p.pc \in {"run", "case"} => p.ran \in 0..n /\ p.ran \in 0..MaxCases
        /\ p.pc = "case" => p.ran + 1 \in 0..n
    BY <1>1, HeldJob, SlotFields DEF Unsent, SysInv, SysTypeOK, CasesOf
  <1> DEFINE Good(q) == q \in Slot /\ Unsent(q) /\ q.job = j /\ Fits(q, jobs)
  <1> HIDE DEF n
  <1>3. \A ran \in 0..n : ran \in 0..MaxCases
    BY <1>2, BoundsAssumption
  <1>4. ASSUME NEW why \in {"wire", "quota", "runner"} PROVE Good(Fail(j, why))
    <2> DEFINE q == Fail(j, why)
    <2>1. j \in JobIds /\ why \in {"broker", "wire", "quota", "runner"}
      BY <1>2
    <2>2. q \in Slot /\ q.pc = "fail" /\ q.job = j /\ q.why = why
      BY <2>1, SlotValues, Zenon
    <2> HIDE DEF q
    <2>3. Good(q)
      BY <1>2, <2>2, <1>4 DEF Unsent, Fits
    <2> QED
      BY <2>3 DEF q
  <1>5. ASSUME NEW status, NEW reported, NEW ran,
               [status |-> status, reported |-> reported, ran |-> ran] \in Executions(n)
        PROVE  Good(Report(j, status, reported, ran))
    <2> DEFINE q == Report(j, status, reported, ran)
    <2>1. q \in Slot /\ q.pc = "report" /\ q.job = j /\ q.result \in Executions(n)
      BY <1>2, <1>5, ReportValues
    <2> HIDE DEF q
    <2>2. Good(q)
      BY <1>2, <2>1 DEF Unsent, Fits
    <2> QED
      BY <2>2 DEF q
  <1>6. ASSUME NEW ran \in 0..n PROVE Good([pc |-> "run", job |-> j, ran |-> ran])
    <2> DEFINE q == [pc |-> "run", job |-> j, ran |-> ran]
    <2>1. q \in Slot /\ q.pc = "run" /\ q.job = j /\ q.ran = ran /\ ran <= n
      <3>1. j \in JobIds /\ ran \in 0..MaxCases
        BY <1>2, <1>3
      <3>2. q \in Slot
        BY <3>1, SlotValues, Zenon
      <3> QED
        BY <1>2, <3>2
    <2> HIDE DEF q
    <2>2. Good(q)
      BY <1>2, <2>1 DEF Unsent, Fits
    <2> QED
      BY <2>2 DEF q
  <1>7. ASSUME NEW ran \in 0..n, ran < n PROVE Good([pc |-> "case", job |-> j, ran |-> ran])
    BY <1>2, <1>3, <1>7, SlotValues DEF Unsent, Fits
  <1>8. Good([pc |-> "compile", job |-> j])
    BY <1>2, SlotValues DEF Unsent, Fits
  <1>9. \E q : Goto(s, q) /\ Good(q)
    <2>1. CASE StartCompile(s)
      <3>1. p.pc = "prepare" /\ Goto(s, [p EXCEPT !.pc = "compile"])
        BY <2>1 DEF StartCompile
      <3>2. [p EXCEPT !.pc = "compile"] = [pc |-> "compile", job |-> j]
        BY <1>2, <3>1 DEF Slot, Claiming, Dead
      <3> QED
        BY <1>8, <3>1, <3>2
    <2>2. CASE EndCompile(s)
      <3>1. CASE Goto(s, [pc |-> "run", job |-> j, ran |-> 0])
        <4>1. 0 \in 0..n
          BY <1>2
        <4> QED
          BY <1>6, <3>1, <4>1
      <3>2. CASE \E status \in {"compile_error", "system_error"} :
                    Goto(s, Report(j, status, 0, 0))
        <4>1. \A status \in {"compile_error", "system_error"} :
                [status |-> status, reported |-> 0, ran |-> 0] \in Executions(n)
          BY DEF Executions
        <4> QED
          BY <1>5, <3>2, <4>1
      <3> QED
        BY <2>2, <3>1, <3>2 DEF EndCompile
    <2>3. CASE StopBeforeCase(s) \/ StopCase(s)
      <3>1. /\ p.pc \in {"run", "case"} /\ p.ran < n
            /\ Goto(s, Report(j, "cancelled", n, p.ran))
        BY <2>3, HeldJob DEF StopBeforeCase, StopCase, n, SysInv, WorkFits, Fits, CasesOf
      <3>2. p.ran \in 0..(n - 1)
        BY <1>2, <3>1
      <3>3. [status |-> "cancelled", reported |-> n, ran |-> p.ran] \in Executions(n)
        BY <3>2 DEF Executions
      <3> QED
        BY <1>5, <3>1, <3>3
    <2>4. CASE StartCase(s)
      <3>1. p.pc = "run" /\ p.ran < n
        BY <2>4 DEF StartCase, n
      <3>2. [p EXCEPT !.pc = "case"] = [pc |-> "case", job |-> j, ran |-> p.ran]
        BY <1>2, <3>1 DEF Slot, Claiming, Dead
      <3>3. Goto(s, Fail(j, "quota")) \/ Goto(s, [pc |-> "case", job |-> j, ran |-> p.ran])
        BY <2>4, <3>2 DEF StartCase
      <3> QED
        BY <1>2, <1>4, <1>7, <3>1, <3>3
    <2>5. CASE EndCase(s)
      <3>1. p.pc = "case" /\ Goto(s, [p EXCEPT !.pc = "run", !.ran = p.ran + 1])
        BY <2>5 DEF EndCase
      <3>2. PICK r \in [pc : {"run", "case"}, job : JobIds, ran : 0..MaxCases] : r = p
        BY <1>2, <3>1 DEF Slot, Claiming, Dead
      <3>3. PICK k \in 0..n : k = p.ran + 1
        BY <1>2, <3>1
      <3>4. Goto(s, [r EXCEPT !.pc = "run", !.ran = k])
        BY <3>1, <3>2, <3>3
      <3>5. [r EXCEPT !.pc = "run", !.ran = k] = [pc |-> "run", job |-> r.job, ran |-> k]
        <4>1. PICK o : o = [r EXCEPT !.pc = "run"]
          OBVIOUS
        <4>2. o \in [pc : {"run", "case"}, job : JobIds, ran : 0..MaxCases] /\ o.pc = "run"
              /\ o.job = r.job
          BY <4>1
        <4>3. [o EXCEPT !.ran = k] = [pc |-> "run", job |-> r.job, ran |-> k]
          BY <4>2
        <4> QED
          BY <4>1, <4>3
      <3> QED
        BY <1>6, <3>2, <3>4, <3>5
    <2>6. CASE EndRun(s)
      <3>1. p.pc = "run" /\ Goto(s, Report(j, "completed", n, p.ran))
        BY <2>6 DEF EndRun, n
      <3>2. [status |-> "completed", reported |-> n, ran |-> p.ran] \in Executions(n)
        BY <1>2, <3>1 DEF Executions
      <3> QED
        BY <1>5, <3>1, <3>2
    <2>7. CASE RejectComplete(s)
      BY <1>4, <2>7 DEF RejectComplete
    <2> QED
      BY <2>1, <2>2, <2>3, <2>4, <2>5, <2>6, <2>7 DEF ExecuteStep
  <1> QED
    BY <1>2, <1>9

LEMMA ExecuteInv ==
    ASSUME SysInv, NEW s \in Slots, ExecuteStep(s)
    PROVE  SysInv'
  <1>1. PICK q \in Slot : /\ Goto(s, q) /\ Unsent(slots[s]) /\ Unsent(q)
                          /\ q.job = slots[s].job /\ Fits(q, jobs)
    BY ExecuteTarget
  <1>2. UNCHANGED <<vars, stale>> /\ orphans' = orphans /\ faults' = faults
    BY DEF ExecuteStep, StartCompile, EndCompile, StopBeforeCase, StartCase, EndCase, StopCase,
           EndRun, RejectComplete
  <1>3. orphans' \in [Slots -> SUBSET JobIds] /\ faults' \in 0..MaxFaults
    BY <1>2 DEF SysInv, SysTypeOK
  <1> QED
    BY <1>1, <1>2, <1>3, AdvanceInv

(* The process of a case stays behind, and is not another slot's. *)
LEMMA ExecuteFailsInv ==
    ASSUME SysInv, NEW s \in Slots, ExecuteFails(s)
    PROVE  SysInv'
  <1> DEFINE j == slots[s].job
             q == Fail(j, "runner")
  <1>1. /\ Unsent(slots[s]) /\ j \in JobIds /\ jobs[j].started # 0
    BY HeldJob DEF ExecuteFails, Unsent
  <1>2. q \in Slot /\ q.pc = "fail" /\ q.job = j /\ q.why = "runner"
    BY <1>1, SlotValues
  <1>3. Goto(s, q) /\ UNCHANGED <<vars, stale>>
    BY DEF ExecuteFails
  <1>4. faults' \in 0..MaxFaults
    BY SlotsAssumption DEF ExecuteFails, Fault, SysInv, SysTypeOK
  <1>5. \/ orphans' = orphans
        \/ orphans' = [orphans EXCEPT ![s] = orphans[s] \cup {j}]
    BY DEF ExecuteFails
  <1>6. /\ orphans' \in [Slots -> SUBSET JobIds]
        /\ \A t \in Slots, i \in JobIds :
             i \in orphans'[t] => i \in orphans[t] \/ (t = s /\ i = j)
    BY <1>1, <1>5 DEF SysInv, SysTypeOK
  <1> HIDE DEF q
  <1>7. Unsent(q) /\ Fits(q, jobs)
    BY <1>1, <1>2 DEF Unsent, Fits
  <1> QED
    BY <1>1, <1>2, <1>3, <1>4, <1>6, <1>7, AdvanceInv

-----------------------------------------------------------------------------
(* The invariant holds in every behaviour. *)

LEMMA SysInitInv == SysInit => SysInv
  <1> SUFFICES ASSUME SysInit PROVE SysInv
    OBVIOUS
  <1>1. Inv
    BY InitInv DEF SysInit
  <1>2. \A s \in Slots : slots[s] = Claiming /\ orphans[s] = {}
    BY DEF SysInit
  <1>3. Claiming.pc = "claim" /\ stale = {}
    BY DEF Claiming, SysInit
  <1>4. SysTypeOK
    BY <1>1, SlotsAssumption DEF SysInit, SysTypeOK, Inv, Slot
  <1>5. WorkFits /\ Separate /\ UnsentIsOpen /\ LateOnce
    BY <1>2, <1>3 DEF WorkFits, Fits, Separate, HasJob, UnsentIsOpen, Unsent, LateOnce
  <1> QED
    BY <1>1, <1>4, <1>5 DEF SysInv

LEMMA SysNextInv ==
    ASSUME SysInv, [SysNext]_sysVars
    PROVE  SysInv'
  <1>1. CASE UNCHANGED sysVars
    <2> DEFINE S == {}
    <2>1. /\ UNCHANGED vars /\ slots' = slots /\ orphans' = orphans /\ faults' = faults
          /\ stale' = stale \cup UNION {CallOf(t) : t \in S} /\ S \in SUBSET Slots
      BY <1>1 DEF sysVars, vars
    <2>2. \A t \in S : \/ slots'[t] \in {Claiming, Dead}
                       \/ slots[t].pc = "report" /\ slots'[t] = Fail(slots[t].job, "broker")
      OBVIOUS
    <2> HIDE DEF S
    <2> QED
      BY <2>1, <2>2, FailedCallsInv DEF SysInv, SysTypeOK
  <1>2. CASE ControlPlane /\ UNCHANGED workerVars
    BY <1>2, ControlPlaneInv
  <1>3. ASSUME NEW s \in Slots, Claim(s) PROVE SysInv'
    <2>1. PICK j \in JobIds : ClaimJob(j) /\ Goto(s, AfterClaim(j))
      BY <1>3 DEF Claim
    <2>2. slots[s].pc = "claim" /\ stale' \subseteq stale /\ UNCHANGED <<orphans, faults>>
      BY <1>3 DEF Claim
    <2> QED
      BY <2>1, <2>2, AnyClaimInv
  <1>4. ASSUME NEW s \in Slots, SlotStep(s) PROVE SysInv'
    BY <1>3, <1>4, ExecuteInv, SlotReportInv DEF SlotStep, ExecuteStep
  <1>5. ASSUME NEW s \in Slots, SlotFault(s) PROVE SysInv'
    BY <1>5, CallFailsInv, ExecuteFailsInv DEF SlotFault
  <1> QED
    BY <1>1, <1>2, <1>4, <1>5, OrphanEndsInv, WorkerCrashInv, LateCallInv DEF SysNext

LEMMA SysInvAlways == SysSpec => []SysInv
  BY SysInitInv, SysNextInv, PTL DEF SysSpec

-----------------------------------------------------------------------------
(* The worker implements the arbitrary one of JobStore. *)

(* Every step of the worker is one of JobStore, or leaves its tables alone. *)
LEMMA StoreStep ==
    ASSUME SysInv, [SysNext]_sysVars
    PROVE  [Next]_vars
  <1>1. ASSUME NEW s \in Slots, SlotStep(s) PROVE [Next]_vars
    <2>1. CASE Claim(s)
      BY <2>1 DEF Claim, Next, ClaimNextJob
    <2>2. CASE ExecuteStep(s)
      BY <2>2 DEF ExecuteStep, StartCompile, EndCompile, StopBeforeCase, StartCase, EndCase,
                 StopCase, EndRun, RejectComplete
    <2>3. CASE Complete(s)
      <3>1. /\ slots[s].job \in JobIds /\ Claimed(slots[s].job)
            /\ slots[s].result \in Executions(jobs[slots[s].job].spec.cases)
        BY <2>3, HeldJob DEF Complete, Claimed, CasesOf
      <3> QED
        BY <2>3, <3>1 DEF Complete, WorkerReport, Next
    <2>4. CASE SystemError(s)
      <3>1. slots[s].job \in JobIds /\ Claimed(slots[s].job)
        BY <2>4, HeldJob DEF SystemError, Claimed
      <3> QED
        BY <2>4, <3>1 DEF SystemError, WorkerReport, Next
    <2> QED
      BY <1>1, <2>1, <2>2, <2>3, <2>4 DEF SlotStep, ExecuteStep
  <1>2. ASSUME NEW c \in stale, LateCall(c) PROVE [Next]_vars
    <2>1. c \in Call /\ CallFits(c, jobs)
      BY DEF SysInv, SysTypeOK, WorkFits
    <2>2. CASE c.op = "claim"
      BY <1>2, <2>2 DEF LateCall, Next
    <2>3. CASE c.op # "claim"
      <3>1. /\ c.job \in JobIds /\ Claimed(c.job)
            /\ c.op = "complete" => c.result \in Executions(jobs[c.job].spec.cases)
        BY <2>1, <2>3, CallFields DEF CallFits, Claimed
      <3> QED
        BY <1>2, <2>3, <3>1 DEF LateCall, WorkerReport, Next
    <2> QED
      BY <2>2, <2>3
  <1>3. CASE ControlPlane
    BY <1>3 DEF Next
  <1>4. ASSUME NEW s \in Slots, SlotFault(s) \/ OrphanEnds(s) PROVE UNCHANGED vars
    BY <1>4 DEF SlotFault, CallFails, ExecuteFails, OrphanEnds
  <1>5. CASE WorkerCrash \/ UNCHANGED sysVars
    BY <1>5 DEF WorkerCrash, sysVars, vars
  <1> QED
    BY <1>1, <1>2, <1>3, <1>4, <1>5 DEF SysNext

(* The slot threads and the broker, with every failed, late and repeated   *)
(* call and every crash, do to the tables only what JobStore allows: they  *)
(* report about jobs they were handed, and results that runner.execute can *)
(* return for them.                                                        *)
THEOREM WorkerRefinesStore == SysSpec => RefinesStore
  <1>1. SysInit => Init
    BY DEF SysInit
  <1> QED
    BY <1>1, StoreStep, SysInvAlways, PTL DEF SysSpec, RefinesStore, Spec

(* What is proved of the queue under any worker holds with the real one:   *)
(* grants are accounted, excess is authorised, closed jobs have no queued  *)
(* case, reservations fit, the in-flight limit is overshot by less than    *)
(* the number of threads, the queue keeps its order and its fair share,    *)
(* and every job goes through its life cycle once.                         *)
THEOREM QueueIsSafeInSystem ==
    SysSpec => /\ [](GrantAccounting /\ ExcessIsAuthorised /\ ClosedJobHasNoQueuedCase)
               /\ [](ReservationsFit /\ OvershootIsBounded)
               /\ [](SameSizeInOrder /\ NewcomerGoesFirst)
               /\ RefinesLifecycle
  BY WorkerRefinesStore, GrantsAreAccounted, ExcessAlwaysAuthorised, ClosedCases,
     ReservationsAlwaysFit, OvershootBounded, SameSizeJobsKeepOrder, NewcomersGoFirst,
     QueueRefinesLifecycle, PTL DEF RefinesStore

-----------------------------------------------------------------------------
(* What the slot threads keep between them. *)

LEMMA AtMostOne ==
    ASSUME NEW S, \A a, b \in S : a = b
    PROVE  Cardinality(S) <= 1
  <1>1. CASE S = {}
    BY <1>1, FS_EmptySet
  <1>2. CASE S # {}
    <2>1. PICK a : S = {a}
      BY <1>2
    <2> QED
      BY <2>1, FS_Singleton
  <1> QED
    BY <1>1, <1>2

(* Without leases or claim ownership in the protocol, no job is ever in    *)
(* the hands of two slot threads, a process left behind counted, whatever  *)
(* fails, comes late or is repeated.                                       *)
THEOREM OneExecutorPerJob == SysSpec => []SlotsConsistent
  <1>1. ASSUME SysInv PROVE SlotsConsistent
    <2>1. ASSUME NEW j \in JobIds
          PROVE  Cardinality({s \in Slots : j \in orphans[s] \/
                                            (Holding(s) /\ slots[s].job = j)}) <= 1
      <3> DEFINE S == {s \in Slots : j \in orphans[s] \/ (Holding(s) /\ slots[s].job = j)}
      <3>1. \A s, t \in S : s = t
        BY <1>1 DEF SysInv, Separate, HasJob, Holding
      <3> HIDE DEF S
      <3>2. Cardinality(S) <= 1
        BY <3>1, AtMostOne
      <3> QED
        BY <3>2 DEF S
    <2> QED
      BY <1>1, <2>1 DEF SysInv, SlotsConsistent, OneExecutor
  <1> QED
    BY <1>1, SysInvAlways, PTL

(* While a slot executes a job, the row is active, or cancelled together   *)
(* with the flag that cancel_check reads: no late call closes the job.     *)
THEOREM ExecutingJobsAreOpen == SysSpec => []ExecutingIsActiveOrCancelled
  <1>1. SysInv => ExecutingIsActiveOrCancelled
    BY DEF SysInv, UnsentIsOpen, Unsent, OpenRow, ExecutingIsActiveOrCancelled, Executing
  <1> QED
    BY <1>1, SysInvAlways, PTL

(* A stored result is replaced only by a cancellation that read the job in *)
(* the queue, or by a system error of the slot whose complete call failed. *)
THEOREM StoredResultsAreKept == SysSpec => ResultsAreKept
  <1> DEFINE Kept(j) ==
        jobs[j].status = "completed" /\ jobs'[j].status # "completed" =>
            \/ \E r \in Requests : reqs[r].pc = "cancelQueued" /\ reqs[r].job = j
            \/ \E s \in Slots : slots[s] = Fail(j, "broker")
            \/ [op |-> "system-error", job |-> j] \in stale
  <1>1. ASSUME SysInv, [SysNext]_sysVars, NEW j \in JobIds PROVE Kept(j)
    <2> SUFFICES ASSUME jobs[j].status = "completed", jobs'[j].status # "completed"
                 PROVE  \/ \E r \in Requests : reqs[r].pc = "cancelQueued" /\ reqs[r].job = j
                        \/ \E s \in Slots : slots[s] = Fail(j, "broker")
                        \/ [op |-> "system-error", job |-> j] \in stale
      OBVIOUS
    <2>1. CASE ControlPlane
      <3>1. jobs[j] # NoJob
        BY DEF NoJob
      <3> QED
        BY <1>1, <2>1, <3>1, ControlEffect DEF SysInv
    <2>2. ASSUME NEW i \in JobIds, ClaimJob(i) PROVE FALSE
      BY <1>1, <2>2, ClaimEffect DEF SysInv
    <2>3. ASSUME NEW i \in JobIds, i # j, Claimed(i), WorkerReport(i) PROVE FALSE
      BY <1>1, <2>3, ReportEffect DEF SysInv, Claimed, WorkerReport
    <2>4. ASSUME NEW s \in Slots, Complete(s) PROVE FALSE
      <3>1. /\ slots[s].job \in JobIds /\ Claimed(slots[s].job)
            /\ slots[s].result \in Executions(jobs[slots[s].job].spec.cases)
        BY <1>1, <2>4, HeldJob DEF Complete, Claimed, CasesOf
      <3>2. OpenRow(jobs[slots[s].job])
        BY <1>1, <2>4 DEF Complete, SysInv, UnsentIsOpen, Unsent
      <3>3. slots[s].job # j
        BY <3>2 DEF OpenRow
      <3> QED
        BY <2>3, <2>4, <3>1, <3>3 DEF Complete, WorkerReport
    <2>5. ASSUME NEW s \in Slots, SystemError(s) PROVE slots[s] = Fail(j, "broker")
      <3>1. /\ slots[s].pc = "fail" /\ MarkJobSystemError(slots[s].job)
            /\ slots[s].job \in JobIds /\ Claimed(slots[s].job)
            /\ slots[s] \in Slot
        BY <1>1, <2>5, HeldJob DEF SystemError, Claimed, SysInv, SysTypeOK
      <3>2. slots[s].job = j
        BY <2>3, <3>1 DEF WorkerReport
      <3>3. slots[s].why = "broker"
        BY <1>1, <3>1, <3>2 DEF SysInv, UnsentIsOpen, Unsent, OpenRow
      <3>4. slots[s] \in [pc : {"fail"}, job : JobIds, why : {"broker", "wire", "quota", "runner"}]
        BY <3>1 DEF Slot, Claiming, Dead
      <3> QED
        BY <3>2, <3>3, <3>4 DEF Fail
    <2>6. ASSUME NEW c \in stale, LateCall(c), c.op # "claim"
          PROVE  [op |-> "system-error", job |-> j] \in stale
      <3>1. c \in Call /\ CallFits(c, jobs)
        BY <1>1 DEF SysInv, SysTypeOK, WorkFits
      <3>2. /\ c.job \in JobIds /\ Claimed(c.job)
            /\ c.op = "complete" => c.result \in Executions(jobs[c.job].spec.cases)
        BY <2>6, <3>1, CallFields DEF CallFits, Claimed
      <3>3. WorkerReport(c.job)
        BY <2>6, <3>2 DEF LateCall, WorkerReport
      <3>4. c.job = j
        BY <2>3, <3>2, <3>3
      <3>5. c.op = "system-error"
        BY <1>1, <2>6, <3>1, <3>4, CallFields DEF SysInv, LateOnce
      <3>6. c = [op |-> "system-error", job |-> j]
        BY <3>1, <3>4, <3>5 DEF Call
      <3> QED
        BY <3>6
    <2>7. CASE UNCHANGED vars
      BY <2>7 DEF vars
    <2>8. ASSUME NEW s \in Slots, SlotStep(s)
          PROVE  \/ UNCHANGED vars \/ \E i \in JobIds : ClaimJob(i)
                 \/ Complete(s) \/ SystemError(s)
      BY <2>8 DEF SlotStep, Claim, StartCompile, EndCompile, StopBeforeCase, StartCase,
                 EndCase, StopCase, EndRun, RejectComplete
    <2>9. ASSUME NEW s \in Slots, SlotFault(s) \/ OrphanEnds(s) PROVE UNCHANGED vars
      BY <2>9 DEF SlotFault, CallFails, ExecuteFails, OrphanEnds
    <2>10. CASE WorkerCrash \/ UNCHANGED sysVars
      BY <2>7, <2>10 DEF WorkerCrash, sysVars, vars
    <2>11. ASSUME NEW c \in stale, LateCall(c), c.op = "claim"
           PROVE  \E i \in JobIds : ClaimJob(i)
      BY <2>11 DEF LateCall, ClaimNextJob
    <2> QED
      BY <1>1, <2>1, <2>2, <2>4, <2>5, <2>6, <2>7, <2>8, <2>9, <2>10, <2>11 DEF SysNext
  <1>2. ASSUME SysInv, [SysNext]_sysVars PROVE [\A j \in JobIds : Kept(j)]_sysVars
    BY <1>1, <1>2
  <1> QED
    BY <1>2, SysInvAlways, PTL DEF SysSpec, ResultsAreKept

-----------------------------------------------------------------------------
(* Every slot thread goes through Execution. *)

(* What the caller of runner.execute sees in slot state q, with tables J:  *)
(* the value that Executor substitutes for run.                            *)
View(q, J) ==
    CASE q.pc \in {"claim", "dead"} -> [at |-> "idle"]
      [] q.pc \in {"prepare", "compile"} -> [at |-> q.pc, n |-> J[q.job].spec.cases]
      [] q.pc \in {"run", "case"} ->
           [at |-> q.pc, n |-> J[q.job].spec.cases, ran |-> q.ran]
      [] q.pc = "report" ->
           [at |-> "returned", n |-> J[q.job].spec.cases, status |-> q.result.status,
            reported |-> q.result.reported, ran |-> q.result.ran]
      [] q.pc = "fail" -> [at |-> "raised"]

(* The steps of Execution, on values of run. *)
RunStep(a, b) ==
    \/ a = b
    \/ a.at = "idle" /\ \E n \in 1..MaxCases : b = [at |-> "prepare", n |-> n]
    \/ a.at = "prepare" /\ b = [at |-> "compile", n |-> a.n]
    \/ a.at = "compile" /\ b = [at |-> "run", n |-> a.n, ran |-> 0]
    \/ a.at = "compile" /\ \E status \in {"compile_error", "system_error"} :
         b = [at |-> "returned", n |-> a.n, status |-> status, reported |-> 0, ran |-> 0]
    \/ a.at = "run" /\ a.ran < a.n /\ b = [at |-> "case", n |-> a.n, ran |-> a.ran]
    \/ a.at = "case" /\ b = [at |-> "run", n |-> a.n, ran |-> a.ran + 1]
    \/ a.at = "run" /\ b = [at |-> "returned", n |-> a.n, status |-> "completed",
                            reported |-> a.n, ran |-> a.ran]
    \/ /\ a.at \in {"run", "case"} /\ a.ran < a.n
       /\ b = [at |-> "returned", n |-> a.n, status |-> "cancelled",
               reported |-> a.n, ran |-> a.ran]
    \/ a.at # "idle" /\ b = [at |-> "raised"]
    \/ a.at # "idle" /\ b = [at |-> "idle"]

(* The value of run in every slot state. *)
LEMMA ViewValues ==
    ASSUME NEW q, NEW J
    PROVE  /\ q.pc \in {"claim", "dead"} => View(q, J) = [at |-> "idle"]
           /\ q.pc \in {"prepare", "compile"} =>
                View(q, J) = [at |-> q.pc, n |-> J[q.job].spec.cases]
           /\ q.pc \in {"run", "case"} =>
                View(q, J) = [at |-> q.pc, n |-> J[q.job].spec.cases, ran |-> q.ran]
           /\ q.pc = "report" =>
                View(q, J) =
                  [at |-> "returned", n |-> J[q.job].spec.cases, status |-> q.result.status,
                   reported |-> q.result.reported, ran |-> q.result.ran]
           /\ q.pc = "fail" => View(q, J) = [at |-> "raised"]
  BY DEF View

LEMMA ExecutorStep ==
    ASSUME SysInv, SysInv', NEW s \in Slots,
           RunStep(View(slots[s], jobs), View(slots'[s], jobs'))
    PROVE  Executor(s)!Step
  <1>1. /\ slots[s].pc \in {"claim", "dead", "prepare", "compile", "run", "case", "report", "fail"}
        /\ slots'[s].pc \in {"claim", "dead", "prepare", "compile", "run", "case", "report", "fail"}
    BY SlotFields DEF SysInv, SysTypeOK
  <1> DEFINE Run ==
        CASE ~Holding(s) -> [at |-> "idle"]
          [] slots[s].pc \in {"prepare", "compile"} ->
               [at |-> slots[s].pc, n |-> CasesOf(slots[s].job)]
          [] slots[s].pc \in {"run", "case"} ->
               [at |-> slots[s].pc, n |-> CasesOf(slots[s].job), ran |-> slots[s].ran]
          [] slots[s].pc = "report" ->
               [at |-> "returned", n |-> CasesOf(slots[s].job), status |-> slots[s].result.status,
                reported |-> slots[s].result.reported, ran |-> slots[s].result.ran]
          [] slots[s].pc = "fail" -> [at |-> "raised"]
  <1>2. Run = View(slots[s], jobs)
    BY <1>1 DEF View, Holding, CasesOf
  <1>3. Run' = View(slots'[s], jobs')
    BY <1>1 DEF View, Holding, CasesOf
  <1>4. RunStep(Run, Run')
    BY <1>2, <1>3
  <1> QED
    BY <1>4, Zenon DEF RunStep, Executor!Step, Executor!Next,
       Executor!Call, Executor!Compile, Executor!RunCase, Executor!Finish, Executor!Raise,
       Executor!Leave, Executor!Prepare, Executor!Compiling, Executor!Between, Executor!InCase,
       Executor!Returned, Executor!Raised, Executor!Idle

(* A slot that does not move looks the same, whatever happens to its row. *)
LEMMA ViewKept ==
    ASSUME SysInv, [SysNext]_sysVars, NEW s \in Slots, slots'[s] = slots[s]
    PROVE  View(slots'[s], jobs') = View(slots[s], jobs)
  <1> DEFINE q == slots[s]
  <1>1. KeepsHanded
    <2>1. CASE Next
      BY <2>1, HandedKept DEF SysInv
    <2>2. CASE UNCHANGED vars
      BY <2>2 DEF vars, KeepsHanded
    <2> QED
      BY <2>1, <2>2, StoreStep
  <1>2. CASE q.pc \in {"claim", "dead"}
    BY <1>2, ViewValues
  <1>3. CASE q.pc \notin {"claim", "dead"}
    <2>1. jobs'[q.job].spec = jobs[q.job].spec
      BY <1>1, <1>3, HeldJob DEF KeepsHanded
    <2> HIDE DEF q
    <2>2. View(q, jobs') = View(q, jobs)
      BY <2>1 DEF View
    <2> QED
      BY <2>2 DEF q
  <1> QED
    BY <1>2, <1>3

(* The target of a step of runner.execute, seen from outside. *)
LEMMA ExecuteView ==
    ASSUME SysInv, NEW s \in Slots, ExecuteStep(s)
    PROVE  RunStep(View(slots[s], jobs), View(slots'[s], jobs'))
  <1> DEFINE p == slots[s]
             j == p.job
             n == CasesOf(j)
             new == slots'[s]
  <1>1. jobs' = jobs
    BY DEF ExecuteStep, StartCompile, EndCompile, StopBeforeCase, StartCase, EndCase, StopCase,
           EndRun, RejectComplete, vars
  <1>2. ASSUME NEW q, Goto(s, q) PROVE new = q
    BY <1>2 DEF Goto, SysInv, SysTypeOK
  <1>3. p \in Slot /\ jobs[j].spec.cases = n
    BY DEF SysInv, SysTypeOK, CasesOf
  <1>4. ASSUME NEW why, new = Fail(j, why), p.pc \in {"run", "report"}
        PROVE  RunStep(View(p, jobs), View(new, jobs))
    <2>1. View(new, jobs) = [at |-> "raised"]
      BY <1>4, ViewValues DEF Fail
    <2>2. View(p, jobs).at # "idle"
      BY <1>4, ViewValues
    <2> QED
      BY <2>1, <2>2 DEF RunStep
  <1>5. ASSUME NEW status, NEW reported, NEW ran, new = Report(j, status, reported, ran)
        PROVE  View(new, jobs) = [at |-> "returned", n |-> n, status |-> status,
                                  reported |-> reported, ran |-> ran]
    <2>1. /\ new.pc = "report" /\ new.job = j
          /\ new.result.status = status /\ new.result.reported = reported
          /\ new.result.ran = ran
      BY <1>5 DEF Report
    <2> QED
      BY <1>3, <2>1, ViewValues
  <1> HIDE DEF n, new
  <1>6. RunStep(View(p, jobs), View(new, jobs))
    <2>1. CASE StartCompile(s)
      <3>1. p.pc = "prepare" /\ new = [p EXCEPT !.pc = "compile"]
        BY <1>2, <2>1 DEF StartCompile
      <3>2. new.pc = "compile" /\ new.job = j
        BY <1>3, <3>1 DEF Slot, Claiming, Dead
      <3>3. View(p, jobs) = [at |-> "prepare", n |-> n]
        BY <1>3, <3>1, ViewValues
      <3>4. View(new, jobs) = [at |-> "compile", n |-> n]
        BY <1>3, <3>2, ViewValues
      <3> QED
        BY <3>3, <3>4 DEF RunStep
    <2>2. CASE EndCompile(s)
      <3>1. p.pc = "compile" /\ View(p, jobs) = [at |-> "compile", n |-> n]
        BY <1>3, <2>2, ViewValues DEF EndCompile
      <3>2. CASE Goto(s, [pc |-> "run", job |-> j, ran |-> 0])
        <4>1. new.pc = "run" /\ new.job = j /\ new.ran = 0
          BY <1>2, <3>2
        <4>2. View(new, jobs) = [at |-> "run", n |-> n, ran |-> 0]
          BY <1>3, <4>1, ViewValues
        <4> QED
          BY <3>1, <4>2 DEF RunStep
      <3>3. ASSUME NEW status \in {"compile_error", "system_error"},
                   Goto(s, Report(j, status, 0, 0))
            PROVE  RunStep(View(p, jobs), View(new, jobs))
        <4>1. View(new, jobs) = [at |-> "returned", n |-> n, status |-> status,
                                 reported |-> 0, ran |-> 0]
          BY <1>2, <1>5, <3>3
        <4> QED
          BY <3>1, <4>1 DEF RunStep
      <3> QED
        BY <2>2, <3>2, <3>3 DEF EndCompile
    <2>3. CASE StopBeforeCase(s) \/ StopCase(s)
      <3>1. /\ p.pc \in {"run", "case"} /\ p.ran < n
            /\ Goto(s, Report(j, "cancelled", n, p.ran))
        BY <2>3 DEF StopBeforeCase, StopCase, n, SysInv, WorkFits, Fits, CasesOf
      <3>2. View(new, jobs) = [at |-> "returned", n |-> n, status |-> "cancelled",
                               reported |-> n, ran |-> p.ran]
        BY <1>2, <1>5, <3>1
      <3>3. View(p, jobs) = [at |-> p.pc, n |-> n, ran |-> p.ran]
        BY <1>3, <3>1, ViewValues
      <3> QED
        BY <3>1, <3>2, <3>3 DEF RunStep
    <2>4. CASE StartCase(s)
      <3>1. p.pc = "run" /\ p.ran < n /\ View(p, jobs) = [at |-> "run", n |-> n, ran |-> p.ran]
        BY <1>3, <2>4, ViewValues DEF StartCase, n
      <3>2. CASE new = Fail(j, "quota")
        BY <1>4, <3>1, <3>2
      <3>3. CASE new = [p EXCEPT !.pc = "case"]
        <4>1. new.pc = "case" /\ new.job = j /\ new.ran = p.ran
          BY <1>3, <3>1, <3>3 DEF Slot, Claiming, Dead
        <4>2. View(new, jobs) = [at |-> "case", n |-> n, ran |-> p.ran]
          BY <1>3, <4>1, ViewValues
        <4> QED
          BY <3>1, <4>2 DEF RunStep
      <3> QED
        BY <1>2, <2>4, <3>2, <3>3 DEF StartCase
    <2>5. CASE EndCase(s)
      <3>1. p.pc = "case" /\ View(p, jobs) = [at |-> "case", n |-> n, ran |-> p.ran]
        BY <1>3, <2>5, ViewValues DEF EndCase
      <3>2. PICK o : o = [p EXCEPT !.pc = "run"]
        OBVIOUS
      <3>3. /\ o \in [pc : {"run", "case"}, job : JobIds, ran : 0..MaxCases]
            /\ o.pc = "run" /\ o.job = j /\ o.ran = p.ran
        <4>1. p \in [pc : {"run", "case"}, job : JobIds, ran : 0..MaxCases]
          BY <1>3, <3>1 DEF Slot, Claiming, Dead
        <4> QED
          BY <3>2, <4>1
      <3>4. new = [o EXCEPT !.ran = p.ran + 1]
        BY <1>2, <2>5, <3>2 DEF EndCase
      <3>5. new.pc = "run" /\ new.job = j /\ new.ran = p.ran + 1
        BY <3>3, <3>4
      <3>6. View(new, jobs) = [at |-> "run", n |-> n, ran |-> p.ran + 1]
        BY <1>3, <3>5, ViewValues
      <3> QED
        BY <3>1, <3>6 DEF RunStep
    <2>6. CASE EndRun(s)
      <3>1. p.pc = "run" /\ Goto(s, Report(j, "completed", n, p.ran))
        BY <2>6 DEF EndRun, n
      <3>2. View(new, jobs) = [at |-> "returned", n |-> n, status |-> "completed",
                               reported |-> n, ran |-> p.ran]
        BY <1>2, <1>5, <3>1
      <3>3. View(p, jobs) = [at |-> "run", n |-> n, ran |-> p.ran]
        BY <1>3, <3>1, ViewValues
      <3> QED
        BY <3>2, <3>3 DEF RunStep
    <2>7. CASE RejectComplete(s)
      BY <1>2, <1>4, <2>7 DEF RejectComplete
    <2> QED
      BY <2>1, <2>2, <2>3, <2>4, <2>5, <2>6, <2>7 DEF ExecuteStep
  <1> QED
    BY <1>1, <1>6 DEF new

(* Each slot thread sees of runner.execute what Execution lets a caller    *)
(* see, across failed calls, exceptions and crashes of the worker.         *)
THEOREM SlotsGoThroughExecution == SysSpec => SlotsExecute
  <1>1. ASSUME SysInv, [SysNext]_sysVars, NEW s \in Slots
        PROVE  RunStep(View(slots[s], jobs), View(slots'[s], jobs'))
    <2> DEFINE p == slots[s]
               new == slots'[s]
    <2>1. p \in Slot /\ Claiming.pc = "claim" /\ Dead.pc = "dead"
      BY <1>1 DEF SysInv, SysTypeOK, Claiming, Dead
    <2>2. CASE new = p
      BY <1>1, <2>2, ViewKept DEF RunStep
    <2>3. CASE new \in {Claiming, Dead}
      <3>1. View(new, jobs') = [at |-> "idle"]
        BY <2>1, <2>3, ViewValues
      <3>2. View(p, jobs).at = "idle" => View(p, jobs) = [at |-> "idle"]
        <4>1. p.pc \in {"claim", "dead", "prepare", "compile", "run", "case", "report", "fail"}
          BY <2>1, SlotFields
        <4> QED
          BY <4>1, ViewValues
      <3> QED
        BY <3>1, <3>2 DEF RunStep
    <2>4. ASSUME NEW why, new = Fail(p.job, why),
                 p.pc \in {"prepare", "compile", "run", "case", "report"}
          PROVE  RunStep(View(p, jobs), View(new, jobs'))
      <3>1. View(new, jobs') = [at |-> "raised"]
        BY <2>4, ViewValues DEF Fail
      <3>2. View(p, jobs).at # "idle"
        BY <2>4, ViewValues
      <3> QED
        BY <3>1, <3>2 DEF RunStep
    <2>5. CASE Claim(s)
      <3>1. PICK j \in JobIds : ClaimJob(j) /\ new = AfterClaim(j)
        BY <1>1, <2>5 DEF Claim, Goto, SysInv, SysTypeOK
      <3>2. CASE new = [pc |-> "prepare", job |-> j]
        <4>1. jobs'[j].spec = jobs[j].spec /\ jobs[j].status = "queued"
          BY <1>1, <3>1, ClaimEffect DEF SysInv
        <4>2. jobs[j].spec.cases \in Positions
          BY <1>1, <4>1, PayloadsAssumption DEF SysInv, Inv, TypeOK, NoJob, Job
        <4>3. View(new, jobs') = [at |-> "prepare", n |-> jobs[j].spec.cases]
          BY <3>2, <4>1, ViewValues
        <4>4. View(p, jobs) = [at |-> "idle"]
          BY <2>5, ViewValues DEF Claim
        <4> QED
          BY <4>2, <4>3, <4>4 DEF RunStep
      <3> QED
        BY <2>3, <3>1, <3>2 DEF AfterClaim
    <2>6. CASE Complete(s) \/ SystemError(s)
      BY <1>1, <2>3, <2>6 DEF Complete, SystemError, Goto, SysInv, SysTypeOK
    <2>7. CASE CallFails(s)
      <3>1. \/ p.pc = "report" /\ new = Fail(p.job, "broker")
            \/ new = Dead
        BY <1>1, <2>7 DEF CallFails, Die, Goto, SysInv, SysTypeOK
      <3> QED
        BY <2>3, <2>4, <3>1
    <2>8. CASE ExecuteFails(s)
      <3>1. p.pc \in {"prepare", "compile", "run", "case"} /\ new = Fail(p.job, "runner")
        BY <1>1, <2>8 DEF ExecuteFails, Goto, SysInv, SysTypeOK
      <3> QED
        BY <2>4, <3>1
    <2>9. CASE WorkerCrash
      BY <1>1, <2>3, <2>9 DEF WorkerCrash
    <2>10. CASE SlotStep(s)
      BY <1>1, <2>5, <2>6, <2>10, ExecuteView DEF SlotStep, ExecuteStep
    <2>11. ASSUME NEW t \in Slots, t # s, SlotStep(t) \/ SlotFault(t) PROVE new = p
      <3>1. \E q : Goto(t, q)
        BY <2>11 DEF SlotStep, SlotFault, Claim, StartCompile, EndCompile, StopBeforeCase,
              StartCase, EndCase, StopCase, EndRun, Complete, RejectComplete, SystemError,
              CallFails, Die, ExecuteFails
      <3> QED
        BY <1>1, <2>11, <3>1 DEF Goto, SysInv, SysTypeOK
    <2>12. CASE \E t \in Slots : SlotStep(t) \/ SlotFault(t)
      BY <2>2, <2>7, <2>8, <2>10, <2>11, <2>12 DEF SlotFault
    <2>13. ASSUME \/ ControlPlane /\ UNCHANGED workerVars
                  \/ \E t \in Slots : OrphanEnds(t)
                  \/ \E c \in stale : LateCall(c)
                  \/ UNCHANGED sysVars
           PROVE  slots' = slots
      BY <2>13 DEF workerVars, OrphanEnds, LateCall, sysVars
    <2> QED
      BY <1>1, <2>2, <2>9, <2>12, <2>13 DEF SysNext
  <1>2. ASSUME SysInv, [SysNext]_sysVars
        PROVE  [\A s \in Slots : Executor(s)!Step]_sysVars
    <2>1. SysInv'
      BY <1>2, SysNextInv
    <2> QED
      BY <1>1, <1>2, <2>1, ExecutorStep
  <1> QED
    BY <1>2, SysInvAlways, PTL DEF SysSpec, SlotsExecute

-----------------------------------------------------------------------------
(* Reservations that nobody will release. *)

(* The jobs that StrandedOnlyByFaults counts, and the claims that are      *)
(* still to be carried out for nobody and may add one each.                *)
LostJobs == {j \in Stranded : ~jobs[j].spec.big}
LateClaims == {c \in stale : c.op = "claim"}

StrandBound ==
    Cardinality(LostJobs) + Cardinality(LateClaims) <= Cardinality(Slots) * faults

(* What is counted is finite. *)
LEMMA CountsFinite ==
    ASSUME SysInv
    PROVE  /\ IsFiniteSet(LostJobs) /\ Cardinality(LostJobs) \in Nat
           /\ IsFiniteSet(LateClaims) /\ Cardinality(LateClaims) \in Nat
           /\ Cardinality(Slots) \in Nat /\ faults \in Nat
  <1>1. IsFiniteSet(LostJobs)
    <2>1. LostJobs \subseteq JobIds
      BY DEF LostJobs, Stranded
    <2> QED
      BY <2>1, JobSetFinite
  <1>2. IsFiniteSet(LateClaims)
    <2> DEFINE f == [s \in Slots |-> [op |-> "claim", slot |-> s]]
    <2>1. \A c \in LateClaims : \E s \in Slots : c = f[s]
      BY DEF LateClaims, SysInv, SysTypeOK, Call
    <2> HIDE DEF f
    <2> QED
      BY <2>1, SlotsAssumption, ImageBound
  <1>3. faults \in Nat
    BY SlotsAssumption DEF SysInv, SysTypeOK
  <1> QED
    BY <1>1, <1>2, <1>3, SlotsAssumption, FS_CardinalityType

(* A step that adds nothing to count. *)
LEMMA NothingLost ==
    ASSUME SysInv, SysInv', StrandBound, LostJobs' \subseteq LostJobs,
           LateClaims' \subseteq LateClaims, faults' \in {faults, faults + 1}
    PROVE  StrandBound'
  <1>1. /\ Cardinality(LostJobs') <= Cardinality(LostJobs)
        /\ Cardinality(LateClaims') <= Cardinality(LateClaims)
    BY CountsFinite, FS_Subset
  <1>2. Cardinality(LostJobs') \in Nat /\ Cardinality(LateClaims') \in Nat
    <2>1. IsFiniteSet(LostJobs') /\ IsFiniteSet(LateClaims')
      BY CountsFinite, FS_Subset
    <2> QED
      BY <2>1, FS_CardinalityType
  <1>3. \A n, f \in Nat : n * f \in Nat /\ n * f <= n * (f + 1)
    OBVIOUS
  <1>4. /\ Cardinality(Slots) * faults \in Nat /\ Cardinality(Slots) * faults' \in Nat
        /\ Cardinality(Slots) * faults <= Cardinality(Slots) * faults'
    BY <1>3, CountsFinite
  <1> HIDE DEF LostJobs, LateClaims
  <1> QED
    BY <1>1, <1>2, <1>4, CountsFinite DEF StrandBound

(* A step that loses no more than what the slots held or asked for. *)
LEMMA LossPerFault ==
    ASSUME SysInv, SysInv', StrandBound,
           \A j \in LostJobs' : j \in LostJobs \/ \E s \in Slots : Holding(s) /\ j = slots[s].job,
           \A c \in LateClaims' : \/ c \in LateClaims
                                  \/ \E s \in Slots : /\ slots[s].pc = "claim"
                                                      /\ c = [op |-> "claim", slot |-> s],
           faults' = faults + 1
    PROVE  StrandBound'
  <1> DEFINE H == {s \in Slots : Holding(s)}
             C == {s \in Slots : slots[s].pc = "claim"}
             A == LostJobs' \ LostJobs
             B == LateClaims' \ LateClaims
  <1>1. IsFiniteSet(A) /\ Cardinality(A) <= Cardinality(H)
    <2> DEFINE f == [s \in H |-> slots[s].job]
    <2>1. \A j \in A : \E s \in H : j = f[s]
      OBVIOUS
    <2>2. IsFiniteSet(H)
      BY SlotsAssumption, FS_Subset
    <2> HIDE DEF f, H, A
    <2> QED
      BY <2>1, <2>2, ImageBound
  <1>2. IsFiniteSet(B) /\ Cardinality(B) <= Cardinality(C)
    <2> DEFINE f == [s \in C |-> [op |-> "claim", slot |-> s]]
    <2>1. \A c \in B : \E s \in C : c = f[s]
      OBVIOUS
    <2>2. IsFiniteSet(C)
      BY SlotsAssumption, FS_Subset
    <2> HIDE DEF f, C, B
    <2> QED
      BY <2>1, <2>2, ImageBound
  <1>3. /\ Cardinality(H) \in Nat /\ Cardinality(C) \in Nat
        /\ Cardinality(H) + Cardinality(C) <= Cardinality(Slots)
    <2>1. IsFiniteSet(H) /\ IsFiniteSet(C)
      BY SlotsAssumption, FS_Subset
    <2>2. H \cap C = {}
      BY DEF Holding
    <2>3. H \cup C \in SUBSET Slots
      OBVIOUS
    <2> HIDE DEF H, C
    <2>4. Cardinality(H \cup C) = Cardinality(H) + Cardinality(C)
      <3>1. Cardinality(H \cup C) = Cardinality(H) + Cardinality(C) - Cardinality(H \cap C)
        BY <2>1, FS_Union
      <3>2. Cardinality(H \cap C) = 0
        BY <2>2, FS_EmptySet
      <3>3. Cardinality(H) \in Nat /\ Cardinality(C) \in Nat
        BY <2>1, FS_CardinalityType
      <3> QED
        BY <3>1, <3>2, <3>3
    <2>5. Cardinality(H \cup C) <= Cardinality(Slots)
      BY <2>3, SlotsAssumption, FS_Subset
    <2> QED
      BY <2>1, <2>4, <2>5, FS_CardinalityType
  <1> HIDE DEF H, C
  <1>4. ASSUME NEW X, NEW Y, IsFiniteSet(X), IsFiniteSet(Y \ X)
        PROVE  Cardinality(Y) \in Nat /\ Cardinality(Y) <= Cardinality(X) + Cardinality(Y \ X)
    <2> DEFINE Z == X \cup (Y \ X)
    <2>1. IsFiniteSet(Z) /\ Y \in SUBSET Z
      BY <1>4, FS_Union
    <2>2. /\ Cardinality(Z) = Cardinality(X) + Cardinality(Y \ X) - Cardinality(X \cap (Y \ X))
      BY <1>4, FS_Union
    <2>3. Cardinality(X \cap (Y \ X)) = 0
      <3>1. X \cap (Y \ X) = {}
        OBVIOUS
      <3> QED
        BY <3>1, FS_EmptySet
    <2>4. Cardinality(X) \in Nat /\ Cardinality(Y \ X) \in Nat
      BY <1>4, FS_CardinalityType
    <2>5. IsFiniteSet(Y) /\ Cardinality(Y) <= Cardinality(Z)
      BY <2>1, FS_Subset
    <2>6. Cardinality(Y) \in Nat
      BY <2>5, FS_CardinalityType
    <2> QED
      BY <2>2, <2>3, <2>4, <2>5, <2>6
  <1>5. /\ Cardinality(LostJobs') \in Nat
        /\ Cardinality(LostJobs') <= Cardinality(LostJobs) + Cardinality(A)
    BY <1>1, <1>4, CountsFinite
  <1>6. /\ Cardinality(LateClaims') \in Nat
        /\ Cardinality(LateClaims') <= Cardinality(LateClaims) + Cardinality(B)
    BY <1>2, <1>4, CountsFinite
  <1>7. Cardinality(A) \in Nat /\ Cardinality(B) \in Nat
    BY <1>1, <1>2, FS_CardinalityType
  <1>8. \A n, f \in Nat : n * f \in Nat /\ n * (f + 1) = n * f + n
    OBVIOUS
  <1>9. /\ Cardinality(Slots) * faults \in Nat
        /\ Cardinality(Slots) * faults' = Cardinality(Slots) * faults + Cardinality(Slots)
    BY <1>8, CountsFinite
  <1> HIDE DEF A, B
  <1> QED
    BY <1>1, <1>2, <1>3, <1>5, <1>6, <1>7, <1>9, CountsFinite DEF StrandBound

(* Without a claim no job becomes active. *)
LEMMA ActiveKept ==
    ASSUME Inv, [Next]_vars, claims' = claims, NEW j \in JobIds, jobs'[j].status \in Active
    PROVE  jobs[j].status \in Active /\ jobs'[j].spec = jobs[j].spec
  <1>1. ASSUME NEW r \in Requests, InsertJob(r) PROVE jobs'[j] = jobs[j]
    BY <1>1, InsertEffect
  <1>2. ASSUME NEW i \in JobIds, IsNext(i), HandOut(i) PROVE FALSE
    <2>1. claims' = claims + 1
      BY <1>2, HandOutEffect
    <2>2. claims \in Int
      BY BoundsAssumption DEF Inv, TypeOK
    <2> QED
      BY <2>1, <2>2
  <1>3. ASSUME NEW i \in JobIds, jobs[i] \in Job, Rewrite(i)
        PROVE  jobs[j].status \in Active /\ jobs'[j].spec = jobs[j].spec
    <2>1. jobs'[j].status \notin Terminal
      OBVIOUS
    <2> QED
      BY <1>3, <2>1, RewriteEffect
  <1> QED
    BY <1>1, <1>2, <1>3, StepKinds DEF CreateGrant

(* A step that claims nothing, and after which every slot still has the    *)
(* job it had unless that job is closed, strands nothing.                  *)
LEMMA LostKept ==
    ASSUME SysInv, [Next]_vars, claims' = claims,
           \A s \in Slots : Holding(s) =>
             \/ slots'[s].pc \notin {"claim", "dead"} /\ slots'[s].job = slots[s].job
             \/ jobs'[slots[s].job].status \notin Active
    PROVE  LostJobs' \subseteq LostJobs
  <1> SUFFICES ASSUME NEW j \in LostJobs' PROVE j \in LostJobs
    OBVIOUS
  <1>1. /\ j \in JobIds /\ jobs'[j].status \in Active /\ ~jobs'[j].spec.big
        /\ \A s \in Slots : slots'[s].pc \notin {"claim", "dead"} => slots'[s].job # j
    BY DEF LostJobs, Stranded, Holding
  <1>2. jobs[j].status \in Active /\ jobs'[j].spec = jobs[j].spec
    BY <1>1, ActiveKept DEF SysInv
  <1>3. \A s \in Slots : Holding(s) => slots[s].job # j
    BY <1>1
  <1> QED
    BY <1>1, <1>2, <1>3 DEF LostJobs, Stranded

(* The slot that claims a job has it, unless the answer was too long. *)
LEMMA ClaimLosesNothing ==
    ASSUME SysInv, NEW s \in Slots, Claim(s)
    PROVE  LostJobs' \subseteq LostJobs
  <1> SUFFICES ASSUME NEW j \in LostJobs' PROVE j \in LostJobs
    OBVIOUS
  <1>1. /\ j \in JobIds /\ jobs'[j].status \in Active /\ ~jobs'[j].spec.big
        /\ \A t \in Slots : slots'[t].pc \notin {"claim", "dead"} => slots'[t].job # j
    BY DEF LostJobs, Stranded, Holding
  <1>2. PICK i \in JobIds : ClaimJob(i) /\ slots'[s] = AfterClaim(i)
    BY DEF Claim, Goto, SysInv, SysTypeOK
  <1>3. i # j
    <2> SUFFICES ASSUME i = j PROVE FALSE
      OBVIOUS
    <2>1. jobs'[j].spec = jobs[j].spec
      BY <1>2, ClaimEffect DEF SysInv
    <2>2. slots'[s] = [pc |-> "prepare", job |-> j]
      BY <1>1, <1>2, <2>1 DEF AfterClaim
    <2> QED
      BY <1>1, <2>2
  <1>4. jobs'[j] = jobs[j]
    <2>1. \A k \in JobIds : k # i => jobs'[k] = jobs[k]
      BY <1>2, ClaimEffect DEF SysInv
    <2> QED
      BY <1>1, <1>3, <2>1
  <1>5. \A t \in Slots : Holding(t) => slots'[t] = slots[t]
    BY DEF Claim, Holding, Goto, SysInv, SysTypeOK
  <1> QED
    BY <1>1, <1>4, <1>5 DEF LostJobs, Stranded, Holding

(* A late claim strands the job it selects, and is late no more. *)
LEMMA LateClaimBound ==
    ASSUME SysInv, SysInv', StrandBound, NEW c \in stale, LateCall(c), c.op = "claim"
    PROVE  StrandBound'
  <1>1. PICK i \in JobIds : ClaimJob(i)
    BY DEF LateCall, ClaimNextJob
  <1>2. slots' = slots /\ stale' = stale \ {c} /\ faults' = faults
    BY DEF LateCall
  <1>3. LateClaims' = LateClaims \ {c} /\ c \in LateClaims
    BY <1>2 DEF LateClaims
  <1>4. Cardinality(LateClaims') = Cardinality(LateClaims) - 1
    BY <1>3, CountsFinite, FS_RemoveElement
  <1>5. LostJobs' \in SUBSET (LostJobs \cup {i})
    <2> SUFFICES ASSUME NEW j \in LostJobs', j # i PROVE j \in LostJobs
      OBVIOUS
    <2>1. j \in JobIds
      BY DEF LostJobs, Stranded
    <2>2. jobs'[j] = jobs[j]
      BY <1>1, <2>1, ClaimEffect DEF SysInv
    <2> QED
      BY <1>2, <2>2 DEF LostJobs, Stranded, Holding
  <1>6. /\ IsFiniteSet(LostJobs \cup {i})
        /\ Cardinality(LostJobs \cup {i}) <= Cardinality(LostJobs) + 1
    <2>1. /\ IsFiniteSet(LostJobs \cup {i})
          /\ Cardinality(LostJobs \cup {i}) =
               IF i \in LostJobs THEN Cardinality(LostJobs) ELSE Cardinality(LostJobs) + 1
      BY CountsFinite, FS_AddElement
    <2> HIDE DEF LostJobs
    <2> QED
      BY <2>1, CountsFinite
  <1>7. Cardinality(LostJobs') <= Cardinality(LostJobs \cup {i})
    BY <1>5, <1>6, FS_Subset
  <1>8. /\ Cardinality(LostJobs') \in Nat /\ Cardinality(LostJobs \cup {i}) \in Nat
    <2>1. IsFiniteSet(LostJobs')
      BY <1>5, <1>6, FS_Subset
    <2> QED
      BY <1>6, <2>1, FS_CardinalityType
  <1>9. Cardinality(Slots) * faults \in Nat
    <2>1. \A n, f \in Nat : n * f \in Nat
      OBVIOUS
    <2> QED
      BY <2>1, CountsFinite
  <1> HIDE DEF LostJobs, LateClaims
  <1> QED
    BY <1>2, <1>4, <1>6, <1>7, <1>8, <1>9, CountsFinite DEF StrandBound

(* Reports close the job they are about. *)
LEMMA ReportLosesNothing ==
    ASSUME SysInv, NEW j \in JobIds, Claimed(j), WorkerReport(j),
           \A s \in Slots : Holding(s) => slots'[s] = slots[s] \/ slots[s].job = j
    PROVE  LostJobs' \subseteq LostJobs
  <1>1. [Next]_vars
    BY DEF Next
  <1>2. claims' = claims
    BY DEF WorkerReport, FinishJob, MarkJobSystemError
  <1>3. jobs'[j].status \notin Active
    BY ReportEffect DEF SysInv, Claimed, WorkerReport
  <1>4. \A s \in Slots : Holding(s) =>
          \/ slots'[s].pc \notin {"claim", "dead"} /\ slots'[s].job = slots[s].job
          \/ jobs'[slots[s].job].status \notin Active
    BY <1>3 DEF Holding
  <1> QED
    BY <1>1, <1>2, <1>4, LostKept

LEMMA StrandStep ==
    ASSUME SysInv, StrandBound, [SysNext]_sysVars
    PROVE  StrandBound'
  <1>1. SysInv' /\ [Next]_vars
    BY SysNextInv, StoreStep
  <1>2. CASE UNCHANGED sysVars
    <2>1. LostJobs' = LostJobs /\ LateClaims' = LateClaims /\ faults' = faults
      BY <1>2 DEF sysVars, LostJobs, LateClaims, Stranded, Holding
    <2> QED
      BY <1>1, <2>1, NothingLost
  <1>3. CASE ControlPlane /\ UNCHANGED workerVars
    <2>1. claims' = claims
      BY <1>3 DEF ControlPlane, Handler, CountInflight, CheckLimits, PickGrant, InsertJob,
            CancelJob, CancelJobAdmin, CancelRead, WriteCancelQueued, WriteCancelActive,
            CreateGrant, Tick, storeVars
    <2>2. slots' = slots /\ stale' = stale /\ faults' = faults
      BY <1>3 DEF workerVars
    <2>3. LostJobs' \subseteq LostJobs
      BY <1>1, <2>1, <2>2, LostKept DEF Holding
    <2> QED
      BY <1>1, <2>2, <2>3, NothingLost DEF LateClaims
  <1>4. ASSUME NEW s \in Slots, Claim(s) PROVE StrandBound'
    <2>1. stale' = stale /\ faults' = faults
      BY <1>4 DEF Claim
    <2> QED
      BY <1>1, <1>4, <2>1, ClaimLosesNothing, NothingLost DEF LateClaims
  <1>5. ASSUME NEW s \in Slots, ExecuteStep(s) \/ ExecuteFails(s) PROVE StrandBound'
    <2>1. UNCHANGED vars /\ stale' = stale /\ faults' \in {faults, faults + 1}
      BY <1>5 DEF ExecuteStep, StartCompile, EndCompile, StopBeforeCase, StartCase, EndCase,
            StopCase, EndRun, RejectComplete, ExecuteFails, Fault
    <2>2. PICK q : /\ Goto(s, q) /\ q.pc \notin {"claim", "dead"} /\ q.job = slots[s].job
      <3>1. CASE ExecuteStep(s)
        BY <3>1, ExecuteTarget DEF Unsent
      <3>2. CASE ExecuteFails(s)
        BY <3>2 DEF ExecuteFails, Fail
      <3> QED
        BY <1>5, <3>1, <3>2
    <2>3. \A t \in Slots : Holding(t) =>
            slots'[t].pc \notin {"claim", "dead"} /\ slots'[t].job = slots[t].job
      BY <2>2 DEF Goto, Holding, SysInv, SysTypeOK
    <2>4. claims' = claims
      BY <2>1 DEF vars
    <2>5. LostJobs' \subseteq LostJobs
      BY <1>1, <2>3, <2>4, LostKept
    <2> QED
      BY <1>1, <2>1, <2>5, NothingLost DEF LateClaims
  <1>6. ASSUME NEW s \in Slots, Complete(s) \/ SystemError(s) PROVE StrandBound'
    <2>1. /\ slots[s].job \in JobIds /\ Claimed(slots[s].job)
          /\ slots[s].pc = "report" => slots[s].result \in Executions(CasesOf(slots[s].job))
      BY <1>6, HeldJob DEF Complete, SystemError, Claimed
    <2>2. WorkerReport(slots[s].job)
      BY <1>6, <2>1 DEF Complete, SystemError, WorkerReport, CasesOf
    <2>3. \A t \in Slots : Holding(t) => slots'[t] = slots[t] \/ slots[t].job = slots[s].job
      BY <1>6 DEF Complete, SystemError, Goto, SysInv, SysTypeOK
    <2>4. LostJobs' \subseteq LostJobs
      BY <2>1, <2>2, <2>3, ReportLosesNothing
    <2>5. stale' = stale /\ faults' = faults
      BY <1>6 DEF Complete, SystemError
    <2> QED
      BY <1>1, <2>4, <2>5, NothingLost DEF LateClaims
  <1>7. ASSUME NEW S \in SUBSET Slots, stale' = stale \cup UNION {CallOf(s) : s \in S},
               UNCHANGED vars, faults' = faults + 1
        PROVE  StrandBound'
    <2>1. ASSUME NEW j \in LostJobs'
          PROVE  j \in LostJobs \/ \E s \in Slots : Holding(s) /\ j = slots[s].job
      BY <1>7 DEF LostJobs, Stranded, vars
    <2>2. ASSUME NEW c \in LateClaims'
          PROVE  \/ c \in LateClaims
                 \/ \E s \in Slots : slots[s].pc = "claim" /\ c = [op |-> "claim", slot |-> s]
      <3>1. CASE c \in stale
        BY <2>2, <3>1 DEF LateClaims
      <3>2. ASSUME NEW s \in S, c \in CallOf(s)
            PROVE  slots[s].pc = "claim" /\ c = [op |-> "claim", slot |-> s]
        <4>1. c.op = "claim" /\ s \in Slots
          BY <2>2 DEF LateClaims
        <4>2. slots[s].pc \in {"claim", "report", "fail"}
          BY <3>2 DEF CallOf
        <4> QED
          BY <3>2, <4>1, <4>2 DEF CallOf
      <3> QED
        BY <1>7, <2>2, <3>1, <3>2 DEF LateClaims
    <2> QED
      BY <1>1, <1>7, <2>1, <2>2, LossPerFault
  <1>8. ASSUME NEW s \in Slots, CallFails(s) PROVE StrandBound'
    <2> DEFINE S == {s}
    <2>1. /\ S \in SUBSET Slots /\ stale' = stale \cup UNION {CallOf(t) : t \in S}
          /\ UNCHANGED vars /\ faults' = faults + 1
      BY <1>8 DEF CallFails, Fault
    <2> HIDE DEF S
    <2> QED
      BY <1>7, <2>1
  <1>9. CASE WorkerCrash
    BY <1>7, <1>9 DEF WorkerCrash, Fault
  <1>10. ASSUME NEW s \in Slots, OrphanEnds(s) PROVE StrandBound'
    <2>1. UNCHANGED vars /\ slots' = slots /\ stale' = stale /\ faults' = faults
      BY <1>10 DEF OrphanEnds
    <2>2. LostJobs' = LostJobs /\ LateClaims' = LateClaims
      BY <2>1 DEF vars, LostJobs, LateClaims, Stranded, Holding
    <2> QED
      BY <1>1, <2>1, <2>2, NothingLost
  <1>11. ASSUME NEW c \in stale, LateCall(c), c.op # "claim" PROVE StrandBound'
    <2>1. c \in Call /\ CallFits(c, jobs)
      BY DEF SysInv, SysTypeOK, WorkFits
    <2>2. /\ c.job \in JobIds /\ Claimed(c.job)
          /\ c.op = "complete" => c.result \in Executions(jobs[c.job].spec.cases)
      BY <1>11, <2>1, CallFields DEF CallFits, Claimed
    <2>3. WorkerReport(c.job)
      BY <1>11, <2>2 DEF LateCall, WorkerReport
    <2>4. slots' = slots /\ stale' \subseteq stale /\ faults' = faults
      BY <1>11 DEF LateCall
    <2>5. LostJobs' \subseteq LostJobs
      BY <2>2, <2>3, <2>4, ReportLosesNothing
    <2> QED
      BY <1>1, <2>4, <2>5, NothingLost DEF LateClaims
  <1> QED
    BY <1>1, <1>2, <1>3, <1>4, <1>5, <1>6, <1>8, <1>9, <1>10, <1>11, LateClaimBound
       DEF SysNext, SlotStep, SlotFault, ExecuteStep

(* However many calls fail, a fault strands at most one job per slot: all  *)
(* other reservations are held by a slot that will release them.  The      *)
(* claims still to be carried out for nobody have to be counted with the   *)
(* stranded jobs, for each of them will strand one more.                   *)
THEOREM FewAreStranded == SysSpec => []StrandedOnlyByFaults
  <1>1. SysInit => StrandBound
    <2> SUFFICES ASSUME SysInit PROVE StrandBound
      OBVIOUS
    <2>1. LostJobs = {} /\ LateClaims = {} /\ faults = 0
      BY DEF SysInit, Init, NoJob, LostJobs, Stranded, LateClaims
    <2>2. \A n \in Nat : 0 <= n * 0
      OBVIOUS
    <2> QED
      BY <2>1, <2>2, FS_EmptySet, FS_CardinalityType, SlotsAssumption DEF StrandBound
  <1>2. ASSUME SysInv, StrandBound PROVE StrandedOnlyByFaults
    <2>1. Cardinality(LostJobs) <= Cardinality(Slots) * faults
      <3>1. \A n, f \in Nat : n * f \in Nat
        OBVIOUS
      <3>2. Cardinality(Slots) * faults \in Nat
        BY <1>2, <3>1, CountsFinite
      <3> QED
        BY <1>2, <3>2, CountsFinite DEF StrandBound
    <2> QED
      BY <2>1 DEF StrandedOnlyByFaults, LostJobs
  <1> QED
    BY <1>1, <1>2, StrandStep, SysInvAlways, PTL DEF SysSpec
=============================================================================

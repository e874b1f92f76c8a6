--------------------------- MODULE JobStoreProofs ---------------------------
(***************************************************************************)
(* Proofs about JobStore, for every number of jobs, grants, threads and    *)
(* cases and every value of the limits; and, from the order of the queue   *)
(* on, about what claim_next_job and create_job promise over time: the     *)
(* in-flight limit, the memory reserved and the fair share of the users.   *)
(***************************************************************************)
EXTENDS JobStore, FiniteSetTheorems, WellFoundedInduction, TLAPS

(* The inductive invariant the theorems rest on. *)
Inv == TypeOK /\ TablesAgree

USE DEF Active, Inflight, Terminal, CaseStatus, JobIds, GrantIds, Positions, Times

-----------------------------------------------------------------------------
(* Naturals and finite sets.                                               *)

(* Every set of naturals that is not empty has a least element: what takes *)
(* the place of induction below.                                           *)
LEMMA LeastNat ==
    ASSUME NEW T, T \subseteq Nat, T # {}
    PROVE  \E x \in T : \A y \in T : x <= y
  <1> DEFINE R == OpToRel(<, Nat)
  <1>1. IsWellFoundedOn(R, Nat)
    BY NatLessThanWellFounded, Zenon
  <1>2. \A x, y \in Nat : y < x => <<y, x>> \in R
    BY DEF OpToRel
  <1> HIDE DEF R
  <1>3. PICK x \in T : \A y \in T : ~ (<<y, x>> \in R)
    BY <1>1, WFMin, Zenon
  <1>4. \A y \in T : ~(y < x)
    BY <1>2, <1>3
  <1> QED
    BY <1>4

(* Every finite set of naturals that is not empty has a greatest element.  *)
LEMMA FiniteMax ==
    ASSUME NEW S, S \subseteq Nat, IsFiniteSet(S), S # {}
    PROVE  Max(S) \in S /\ \A y \in S : y <= Max(S)
  <1> DEFINE Bounded(U) == \E m \in U : \A y \in U : y <= m
             Bad(k) == \E U \in SUBSET Nat : IsFiniteSet(U) /\ U # {} /\ Cardinality(U) = k
                                             /\ ~Bounded(U)
             T == {k \in Nat : Bad(k)}
  <1>1. T = {}
    <2> SUFFICES ASSUME T # {} PROVE FALSE
      OBVIOUS
    <2>1. PICK k \in T : \A i \in T : k <= i
      BY LeastNat
    <2>2. PICK U \in SUBSET Nat : IsFiniteSet(U) /\ U # {} /\ Cardinality(U) = k /\ ~Bounded(U)
      BY <2>1
    <2>3. PICK u \in U : TRUE
      BY <2>2
    <2> DEFINE V == U \ {u}
    <2>4. IsFiniteSet(V) /\ Cardinality(V) = k - 1 /\ k \in Nat /\ Cardinality(V) \in Nat
      BY <2>1, <2>2, <2>3, FS_RemoveElement, FS_CardinalityType
    <2>5. V # {}
      <3> SUFFICES ASSUME V = {} PROVE FALSE
        OBVIOUS
      <3>1. \A y \in U : y = u
        OBVIOUS
      <3> QED
        BY <2>2, <2>3, <3>1
    <2>6. Bounded(V)
      <3> SUFFICES ASSUME ~Bounded(V) PROVE FALSE
        OBVIOUS
      <3>1. Bad(k - 1) /\ k - 1 \in Nat
        BY <2>2, <2>4, <2>5
      <3> QED
        BY <2>1, <2>4, <3>1
    <2>7. PICK m \in V : \A y \in V : y <= m
      BY <2>6
    <2>8. \A y \in U : y \in V \/ y = u
      OBVIOUS
    <2>9. m \in Nat /\ u \in Nat /\ m \in U
      BY <2>2, <2>3
    <2>10. CASE u <= m
      BY <2>2, <2>7, <2>8, <2>9, <2>10
    <2>11. CASE m <= u
      <3>1. \A y \in U : y <= u
        BY <2>2, <2>7, <2>8, <2>9, <2>11
      <3> QED
        BY <2>2, <2>3, <3>1
    <2> QED
      BY <2>9, <2>10, <2>11
  <1>2. Cardinality(S) \in Nat
    BY FS_CardinalityType
  <1>3. Bounded(S)
    <2> SUFFICES ASSUME ~Bounded(S) PROVE FALSE
      OBVIOUS
    <2>1. Bad(Cardinality(S))
      OBVIOUS
    <2> QED
      BY <1>1, <1>2, <2>1
  <1>4. \E m \in S : \A y \in S : m >= y
    BY <1>3
  <1>5. Max(S) \in S /\ \A y \in S : Max(S) >= y
    BY <1>4, Zenon DEF Max
  <1>6. \A y \in S : Max(S) >= y => y <= Max(S)
    BY <1>5
  <1> QED
    BY <1>5, <1>6

(* A set with an element for each element of S at most. *)
LEMMA ImageBound ==
    ASSUME NEW S, IsFiniteSet(S), NEW f, NEW T, \A t \in T : \E s \in S : t = f[s]
    PROVE  IsFiniteSet(T) /\ Cardinality(T) <= Cardinality(S)
  <1> DEFINE g == [t \in T |-> CHOOSE s \in S : t = f[s]]
  <1>1. g \in [T -> S] /\ \A t \in T : t = f[g[t]]
    OBVIOUS
  <1>2. g \in Injection(T, S)
    BY <1>1 DEF Injection, IsInjective
  <1> HIDE DEF g
  <1> QED
    BY <1>2, FS_Injection

-----------------------------------------------------------------------------
(* The invariant.                                                          *)

(* What a thread holds at each of its statements. *)
LEMMA RequestFields ==
    ASSUME NEW q \in Request
    PROVE  /\ q.pc \in {"idle", "limits", "pick", "insert", "cancelQueued", "cancelActive"}
           /\ q.pc = "idle" => q = Idle
           /\ q.pc = "limits" => q.user \in Users /\ q.spec \in Payloads
           /\ q.pc = "pick" => q.user \in Users /\ q.spec \in Payloads
           /\ q.pc = "insert" => /\ q.user \in Users /\ q.spec \in Payloads
                                 /\ q.grant \in GrantIds \cup {None} /\ q.since \in Times
           /\ q.pc \in {"cancelQueued", "cancelActive"} => q.job \in JobIds
  BY DEF Request, Idle

(* Any set of job ids is finite and no larger than the table. *)
LEMMA JobSetFinite ==
    ASSUME NEW S, S \subseteq JobIds
    PROVE  IsFiniteSet(S) /\ Cardinality(S) \in 0..MaxJobs
  <1>1. IsFiniteSet(JobIds) /\ Cardinality(JobIds) = MaxJobs
    BY FS_Interval, BoundsAssumption
  <1>2. IsFiniteSet(S) /\ Cardinality(S) <= Cardinality(JobIds)
    BY <1>1, FS_Subset
  <1> QED
    BY <1>1, <1>2, FS_CardinalityType, BoundsAssumption

(* A job that was not handed out leaves room for one more rank. *)
LEMMA RankAvailable ==
    ASSUME NEW S, S \subseteq JobIds, NEW j \in JobIds, j \notin S
    PROVE  /\ Cardinality(S) + 1 \in 0..MaxJobs
           /\ Cardinality(S \cup {j}) = Cardinality(S) + 1
  <1>1. IsFiniteSet(S) /\ Cardinality(S) \in Nat
    <2>1. IsFiniteSet(S)
      BY JobSetFinite
    <2> QED
      BY <2>1, FS_CardinalityType
  <1>2. Cardinality(S \cup {j}) = Cardinality(S) + 1
    BY <1>1, FS_AddElement
  <1>3. Cardinality(S \cup {j}) \in 0..MaxJobs
    BY JobSetFinite
  <1> QED
    BY <1>2, <1>3

LEMMA InitInv == Init => Inv
  <1> SUFFICES ASSUME Init PROVE Inv
    OBVIOUS
  <1>1. HandedOut = {}
    BY DEF Init, HandedOut, NoJob
  <1>2. TypeOK
    BY BoundsAssumption DEF Init, TypeOK, Request, Idle
  <1>3. TablesAgree
    <2>1. claims = Cardinality(HandedOut)
      BY <1>1, FS_EmptySet DEF Init
    <2>2. \A r \in Requests : reqs[r].pc = "idle"
      BY DEF Init, Idle
    <2> QED
      BY <2>1, <2>2 DEF Init, TablesAgree, NoJob
  <1> QED
    BY <1>2, <1>3 DEF Inv

-----------------------------------------------------------------------------
(* The statements that only read: a thread moves on, the tables stay. *)
LEMMA ReadStep ==
    ASSUME Inv, NEW r \in Requests, NEW q \in Request,
           reqs' = [reqs EXCEPT ![r] = q], UNCHANGED storeVars,
           q.pc = "insert" /\ q.grant # None => q.grant <= lastGrant,
           q.pc \in {"cancelQueued", "cancelActive"} => q.job <= lastJob
    PROVE  Inv'
  <1>1. TypeOK'
    BY DEF Inv, TypeOK, storeVars
  <1>2. HandedOut' = HandedOut
    BY DEF HandedOut, storeVars
  <1>3. TablesAgree'
    BY <1>2 DEF Inv, TypeOK, TablesAgree, storeVars
  <1> QED
    BY <1>1, <1>3 DEF Inv

LEMMA CountInflightInv ==
    ASSUME Inv, NEW r \in Requests, NEW u \in Users, NEW p \in Payloads,
           CountInflight(r, u, p)
    PROVE  Inv'
  <1> DEFINE q == [pc |-> "limits", user |-> u, spec |-> p,
                   count |-> Cardinality(InflightJobs(u))]
  <1>1. InflightJobs(u) \subseteq JobIds
    BY DEF InflightJobs
  <1>2. Cardinality(InflightJobs(u)) \in 0..MaxJobs
    BY <1>1, JobSetFinite
  <1>3. q \in Request
    BY <1>2 DEF Request
  <1>4. q.pc = "limits"
    OBVIOUS
  <1> QED
    BY <1>3, <1>4, ReadStep DEF CountInflight

LEMMA CheckLimitsInv ==
    ASSUME Inv, NEW r \in Requests, CheckLimits(r)
    PROVE  Inv'
  <1> DEFINE q == IF reqs[r].count >= InflightLimitOf(reqs[r].user)
                    THEN Idle ELSE AfterLimits(reqs[r])
  <1>1. reqs[r] \in Request /\ now \in Times
    BY DEF Inv, TypeOK
  <1>2. reqs[r].user \in Users /\ reqs[r].spec \in Payloads
    BY <1>1, RequestFields DEF CheckLimits
  <1>3. AfterLimits(reqs[r]) \in Request
    BY <1>1, <1>2 DEF AfterLimits, Request
  <1>4. q \in Request
    BY <1>3 DEF Request
  <1>5. /\ q.pc = "insert" /\ q.grant # None => q.grant <= lastGrant
        /\ q.pc \notin {"cancelQueued", "cancelActive"}
    BY DEF AfterLimits, Idle
  <1> QED
    BY <1>4, <1>5, ReadStep DEF CheckLimits

LEMMA PickGrantInv ==
    ASSUME Inv, NEW r \in Requests, PickGrant(r)
    PROVE  Inv'
  <1>1. reqs[r] \in Request /\ now \in Times /\ lastGrant \in 0..MaxGrants
    BY DEF Inv, TypeOK
  <1>2. reqs[r].user \in Users /\ reqs[r].spec \in Payloads
    BY <1>1, RequestFields DEF PickGrant
  <1>3. CASE reqs' = [reqs EXCEPT ![r] = Idle]
    <2>1. Idle \in Request /\ Idle.pc = "idle"
      BY DEF Request, Idle
    <2> QED
      BY <1>3, <2>1, ReadStep DEF PickGrant
  <1>4. CASE \E g \in GrantIds :
               /\ Covers(g, reqs[r].user, reqs[r].spec)
               /\ reqs' = [reqs EXCEPT ![r] =
                             [pc |-> "insert", user |-> reqs[r].user, spec |-> reqs[r].spec,
                              grant |-> g, since |-> now]]
    <2> PICK g \in GrantIds :
               /\ Covers(g, reqs[r].user, reqs[r].spec)
               /\ reqs' = [reqs EXCEPT ![r] =
                             [pc |-> "insert", user |-> reqs[r].user, spec |-> reqs[r].spec,
                              grant |-> g, since |-> now]]
      BY <1>4
    <2> DEFINE q == [pc |-> "insert", user |-> reqs[r].user, spec |-> reqs[r].spec,
                     grant |-> g, since |-> now]
    <2>1. q \in Request
      BY <1>1, <1>2 DEF Request
    <2>2. q.pc = "insert" /\ q.grant = g /\ g <= lastGrant
      BY <1>1 DEF Covers, Valid
    <2> QED
      BY <2>1, <2>2, ReadStep DEF PickGrant
  <1> QED
    BY <1>3, <1>4 DEF PickGrant

LEMMA CancelReadInv ==
    ASSUME Inv, NEW r \in Requests, NEW j \in JobIds, CancelRead(r, j)
    PROVE  Inv'
  <1>1. PICK pc \in {"cancelQueued", "cancelActive"} :
            reqs' = [reqs EXCEPT ![r] = [pc |-> pc, job |-> j]]
    BY DEF CancelRead
  <1>2. [pc |-> pc, job |-> j] \in Request
    BY <1>1 DEF Request
  <1>3. j <= lastJob
    BY DEF CancelRead, Inv, TablesAgree, NoJob
  <1> QED
    BY <1>1, <1>2, <1>3, ReadStep DEF CancelRead

-----------------------------------------------------------------------------
(* The statements that write. *)

(* Rows of the jobs table whose status or flag changes keep their owner,   *)
(* limits, grant and rank.                                                 *)
LEMMA RewriteStep ==
    ASSUME Inv, NEW j \in JobIds, jobs[j] \in Job, j <= lastJob,
           NEW new \in Job, jobs' = [jobs EXCEPT ![j] = new],
           new.grant = jobs[j].grant, new.started = jobs[j].started,
           new.status = "queued" => jobs[j].status = "queued",
           cases' \in [JobIds -> [Positions -> CaseStatus]],
           now' \in Times, NEW f \in [Requests -> Request], reqs' = f,
           \A r \in Requests : f[r] = reqs[r] \/ f[r] = Idle,
           UNCHANGED <<grants, lastJob, lastGrant, claims>>
    PROVE  Inv'
  <1>1. TypeOK'
    BY DEF Inv, TypeOK
  <1>2. HandedOut' = HandedOut
    BY DEF HandedOut, Inv, TypeOK
  <1>3. \A r \in Requests : Idle.pc = "idle"
    BY DEF Idle
  <1>4. TablesAgree'
    BY <1>2, <1>3 DEF Inv, TypeOK, TablesAgree
  <1> QED
    BY <1>1, <1>4 DEF Inv

LEMMA CaseRowsType ==
    ASSUME Inv, NEW j \in JobIds, NEW s \in CaseStatus
    PROVE  /\ CaseRows(j, s) \in [Positions -> CaseStatus]
           /\ \A p \in Positions : s # "queued" => CaseRows(j, s)[p] # "queued"
  BY DEF CaseRows, Inv, TypeOK

LEMMA CloseQueuedType ==
    ASSUME NEW row \in [Positions -> CaseStatus]
    PROVE  /\ CloseQueued(row) \in [Positions -> CaseStatus]
           /\ \A p \in Positions : CloseQueued(row)[p] # "queued"
  BY DEF CloseQueued

LEMMA ListedType ==
    ASSUME NEW row \in [Positions -> CaseStatus], NEW e
    PROVE  Listed(row, e) \in [Positions -> CaseStatus]
  BY DEF Listed

LEMMA ExecutionStatus ==
    ASSUME NEW n, NEW e \in Executions(n)
    PROVE  e.status \in Terminal
  BY DEF Executions

LEMMA InsertJobInv ==
    ASSUME Inv, NEW r \in Requests, InsertJob(r)
    PROVE  Inv'
  <1> DEFINE q == reqs[r]
             j == lastJob + 1
  <1>1. q \in Request /\ now \in Times /\ lastJob \in 0..MaxJobs /\ j \in JobIds
    BY BoundsAssumption DEF Inv, TypeOK, InsertJob
  <1>2. /\ q.user \in Users /\ q.spec \in Payloads
        /\ q.grant \in GrantIds \cup {None} /\ q.since \in Times
    BY <1>1, RequestFields DEF InsertJob
  <1>3. PICK stamp \in q.since..now :
          jobs' = [jobs EXCEPT ![j] =
                     [user |-> q.user, spec |-> q.spec, grant |-> q.grant,
                      status |-> "queued", cancel |-> FALSE,
                      created |-> stamp, started |-> 0]]
    BY DEF InsertJob
  <1> DEFINE new == [user |-> q.user, spec |-> q.spec, grant |-> q.grant,
                     status |-> "queued", cancel |-> FALSE,
                     created |-> stamp, started |-> 0]
  <1>4. stamp \in Times
    BY <1>1, <1>2, BoundsAssumption
  <1>5. new \in Job
    BY <1>2, <1>4, BoundsAssumption DEF Job
  <1>6. jobs[j] = NoJob
    BY <1>1 DEF Inv, TablesAgree
  <1>7. Idle \in Request /\ Idle.pc = "idle"
    BY DEF Request, Idle
  <1>8. TypeOK'
    <2>1. cases' \in [JobIds -> [Positions -> CaseStatus]]
      BY <1>1 DEF InsertJob, Inv, TypeOK
    <2>2. jobs' \in [JobIds -> Job \cup {NoJob}]
      BY <1>3, <1>5 DEF Inv, TypeOK
    <2>3. reqs' \in [Requests -> Request]
      BY <1>7 DEF InsertJob, Inv, TypeOK
    <2>4. lastJob' \in 0..MaxJobs
      BY <1>1 DEF InsertJob
    <2> QED
      BY <2>1, <2>2, <2>3, <2>4 DEF InsertJob, Inv, TypeOK
  <1>9. HandedOut' = HandedOut
    BY <1>1, <1>3, <1>6 DEF HandedOut, NoJob, Inv, TypeOK
  <1>10. TablesAgree'
    <2>1. \A i \in JobIds : IF i <= lastJob' THEN jobs'[i] \in Job ELSE jobs'[i] = NoJob
      <3> SUFFICES ASSUME NEW i \in JobIds
                   PROVE  IF i <= j THEN jobs'[i] \in Job ELSE jobs'[i] = NoJob
        BY DEF InsertJob
      <3>1. CASE i = j
        BY <3>1, <1>1, <1>3, <1>5 DEF Inv, TypeOK
      <3>2. CASE i # j
        <4>1. jobs'[i] = jobs[i]
          BY <3>2, <1>3 DEF Inv, TypeOK
        <4>2. i <= j <=> i <= lastJob
          BY <3>2, <1>1
        <4> QED
          BY <4>1, <4>2 DEF Inv, TablesAgree
      <3> QED
        BY <3>1, <3>2
    <2>2. \A g \in GrantIds :
            IF g <= lastGrant' THEN grants'[g] \in Grant ELSE grants'[g] = NoGrant
      BY DEF InsertJob, Inv, TablesAgree
    <2>3. \A i \in JobIds : jobs'[i].grant # None => jobs'[i].grant <= lastGrant'
      BY <1>1, <1>3 DEF InsertJob, Inv, TypeOK, TablesAgree
    <2>4. \A t \in Requests : reqs'[t].pc = "insert" /\ reqs'[t].grant # None =>
                                reqs'[t].grant <= lastGrant'
      BY <1>7 DEF InsertJob, Inv, TypeOK, TablesAgree
    <2>5. \A t \in Requests : reqs'[t].pc \in {"cancelQueued", "cancelActive"} =>
                                reqs'[t].job <= lastJob'
      <3> SUFFICES ASSUME NEW t \in Requests,
                          reqs'[t].pc \in {"cancelQueued", "cancelActive"}
                   PROVE  reqs'[t].job <= lastJob'
        OBVIOUS
      <3>1. reqs'[t] = reqs[t]
        BY <1>7 DEF InsertJob, Inv, TypeOK
      <3>2. reqs[t].job \in JobIds /\ reqs[t].job <= lastJob
        BY <3>1, RequestFields DEF Inv, TypeOK, TablesAgree
      <3> QED
        BY <3>1, <3>2, <1>1 DEF InsertJob
    <2>6. \A i \in JobIds : jobs'[i].status = "queued" => jobs'[i].started = 0
      BY <1>1, <1>3 DEF InsertJob, Inv, TypeOK, TablesAgree
    <2>7. claims' = Cardinality(HandedOut')
      BY <1>9 DEF InsertJob, Inv, TablesAgree
    <2> QED
      BY <2>1, <2>2, <2>3, <2>4, <2>5, <2>6, <2>7 DEF TablesAgree
  <1> QED
    BY <1>8, <1>10 DEF Inv

LEMMA CreateGrantInv ==
    ASSUME Inv, NEW u \in Users, NEW o \in Offers, CreateGrant(u, o)
    PROVE  Inv'
  <1> DEFINE g == lastGrant + 1
             new == [user |-> u, offer |-> o, remaining |-> o.uses,
                     expires |-> IF o.ttl = None THEN None ELSE now + o.ttl]
  <1>1. now \in Nat /\ lastGrant \in 0..MaxGrants /\ g \in GrantIds
    BY BoundsAssumption DEF Inv, TypeOK, CreateGrant
  <1>2. o.uses \in Limits /\ o.ttl \in Limits
    BY OffersAssumption
  <1>3. new \in Grant
    BY <1>1, <1>2 DEF Grant, Limits
  <1>4. grants' = [grants EXCEPT ![g] = new] /\ lastGrant' = g
    BY DEF CreateGrant
  <1>5. TypeOK'
    BY <1>1, <1>3, <1>4 DEF CreateGrant, Inv, TypeOK
  <1>6. HandedOut' = HandedOut
    BY DEF CreateGrant, HandedOut
  <1>7. TablesAgree'
    <2>1. \A h \in GrantIds : IF h <= lastGrant' THEN grants'[h] \in Grant ELSE grants'[h] = NoGrant
      <3> SUFFICES ASSUME NEW h \in GrantIds
                   PROVE  IF h <= g THEN grants'[h] \in Grant ELSE grants'[h] = NoGrant
        BY <1>4
      <3>1. CASE h = g
        BY <3>1, <1>1, <1>3, <1>4 DEF Inv, TypeOK
      <3>2. CASE h # g
        <4>1. grants'[h] = grants[h]
          BY <3>2, <1>4 DEF Inv, TypeOK
        <4>2. h <= g <=> h <= lastGrant
          BY <3>2, <1>1
        <4> QED
          BY <4>1, <4>2 DEF Inv, TablesAgree
      <3> QED
        BY <3>1, <3>2
    <2>2. \A j \in JobIds : jobs[j].grant # None => jobs[j].grant <= g
      <3> SUFFICES ASSUME NEW j \in JobIds, jobs[j].grant # None PROVE jobs[j].grant <= g
        OBVIOUS
      <3>1. jobs[j].grant <= lastGrant
        BY DEF Inv, TablesAgree
      <3>2. jobs[j].grant \in GrantIds
        BY DEF Inv, TypeOK, Job, NoJob
      <3> QED
        BY <3>1, <3>2, <1>1
    <2>3. \A r \in Requests : reqs[r].pc = "insert" /\ reqs[r].grant # None =>
                                reqs[r].grant <= g
      <3> SUFFICES ASSUME NEW r \in Requests, reqs[r].pc = "insert", reqs[r].grant # None
                   PROVE  reqs[r].grant <= g
        OBVIOUS
      <3>1. reqs[r].grant <= lastGrant
        BY DEF Inv, TablesAgree
      <3>2. reqs[r].grant \in GrantIds
        BY RequestFields DEF Inv, TypeOK
      <3> QED
        BY <3>1, <3>2, <1>1
    <2> QED
      BY <2>1, <2>2, <2>3, <1>4, <1>6 DEF CreateGrant, Inv, TablesAgree
  <1> QED
    BY <1>5, <1>7 DEF Inv

LEMMA TickInv ==
    ASSUME Inv, Tick
    PROVE  Inv'
  <1>1. HandedOut' = HandedOut
    BY DEF Tick, HandedOut
  <1> QED
    BY <1>1, BoundsAssumption DEF Tick, Inv, TypeOK, TablesAgree

LEMMA WriteCancelQueuedInv ==
    ASSUME Inv, NEW r \in Requests, WriteCancelQueued(r)
    PROVE  Inv'
  <1> DEFINE j == reqs[r].job
             new == [jobs[j] EXCEPT !.status = "cancelled", !.cancel = TRUE]
  <1>1. j \in JobIds /\ j <= lastJob /\ jobs[j] \in Job
    BY RequestFields DEF WriteCancelQueued, Inv, TypeOK, TablesAgree
  <1>2. /\ new \in Job /\ new.grant = jobs[j].grant /\ new.started = jobs[j].started
        /\ new.status = "cancelled"
    BY <1>1 DEF Job
  <1>3. jobs' = [jobs EXCEPT ![j] = new]
    BY <1>1 DEF WriteCancelQueued, Inv, TypeOK
  <1>4. cases' \in [JobIds -> [Positions -> CaseStatus]]
    BY <1>1, CaseRowsType DEF WriteCancelQueued, Inv, TypeOK
  <1>5. reqs' = [reqs EXCEPT ![r] = Idle] /\ Idle \in Request
    BY DEF WriteCancelQueued, Request
  <1>6. /\ reqs' \in [Requests -> Request]
        /\ \A t \in Requests : reqs'[t] = reqs[t] \/ reqs'[t] = Idle
    BY <1>5 DEF Inv, TypeOK
  <1>7. now' \in Times /\ UNCHANGED <<grants, lastJob, lastGrant, claims>>
    BY DEF WriteCancelQueued, Inv, TypeOK
  <1> QED
    BY <1>1, <1>2, <1>3, <1>4, <1>6, <1>7, RewriteStep

LEMMA WriteCancelActiveInv ==
    ASSUME Inv, NEW r \in Requests, WriteCancelActive(r)
    PROVE  Inv'
  <1> DEFINE j == reqs[r].job
             new == [jobs[j] EXCEPT !.cancel = TRUE]
  <1>1. j \in JobIds /\ j <= lastJob /\ jobs[j] \in Job
    BY RequestFields DEF WriteCancelActive, Inv, TypeOK, TablesAgree
  <1>2. /\ new \in Job /\ new.grant = jobs[j].grant /\ new.started = jobs[j].started
        /\ new.status = jobs[j].status
    BY <1>1 DEF Job
  <1>3. jobs' = [jobs EXCEPT ![j] = new]
    BY <1>1 DEF WriteCancelActive, Inv, TypeOK
  <1>4. cases' \in [JobIds -> [Positions -> CaseStatus]]
    BY DEF WriteCancelActive, Inv, TypeOK
  <1>5. reqs' = [reqs EXCEPT ![r] = Idle] /\ Idle \in Request
    BY DEF WriteCancelActive, Request
  <1>6. /\ reqs' \in [Requests -> Request]
        /\ \A t \in Requests : reqs'[t] = reqs[t] \/ reqs'[t] = Idle
    BY <1>5 DEF Inv, TypeOK
  <1>7. now' \in Times /\ UNCHANGED <<grants, lastJob, lastGrant, claims>>
    BY DEF WriteCancelActive, Inv, TypeOK
  <1> QED
    BY <1>1, <1>2, <1>3, <1>4, <1>6, <1>7, RewriteStep

(* The row that claim_next_job selects. *)
LEMMA NextJob ==
    ASSUME Inv, NEW j \in JobIds, IsNext(j)
    PROVE  /\ jobs[j] \in Job /\ j <= lastJob
           /\ jobs[j].status = "queued" /\ jobs[j].started = 0
           /\ j \notin HandedOut
           /\ jobs[j].grant # None => jobs[j].grant \in GrantIds /\ jobs[j].grant <= lastGrant
  <1>1. jobs[j].status = "queued"
    BY DEF IsNext, HeadOfUser, Eligible
  <1>2. jobs[j] \in Job /\ j <= lastJob
    BY <1>1 DEF Inv, TypeOK, TablesAgree, NoJob
  <1>3. jobs[j].started = 0 /\ j \notin HandedOut
    BY <1>1 DEF Inv, TablesAgree, HandedOut
  <1>4. jobs[j].grant \in GrantIds \cup {None}
    BY <1>2 DEF Job
  <1> QED
    BY <1>1, <1>2, <1>3, <1>4 DEF Inv, TablesAgree

(* What the hand-out of job j does to the tables. *)
LEMMA HandOutEffect ==
    ASSUME Inv, NEW j \in JobIds, IsNext(j), HandOut(j)
    PROVE  /\ claims + 1 \in 0..MaxJobs /\ claims' = claims + 1
           /\ HandedOut' = HandedOut \cup {j}
           /\ Cardinality(HandedOut') = Cardinality(HandedOut) + 1
           /\ jobs'[j] = [jobs[j] EXCEPT !.status = "compiling", !.started = claims + 1]
           /\ jobs'[j] \in Job /\ jobs'[j].status = "compiling"
           /\ jobs'[j].started # 0 /\ jobs'[j].grant = jobs[j].grant
           /\ jobs' = [jobs EXCEPT ![j] = jobs'[j]]
  <1>1. /\ jobs[j] \in Job /\ j \notin HandedOut
        /\ HandedOut \subseteq JobIds
    BY NextJob DEF HandedOut
  <1>2. /\ Cardinality(HandedOut) + 1 \in 0..MaxJobs
        /\ Cardinality(HandedOut \cup {j}) = Cardinality(HandedOut) + 1
    BY <1>1, RankAvailable
  <1>3. claims = Cardinality(HandedOut) /\ claims \in Nat
    BY BoundsAssumption DEF Inv, TypeOK, TablesAgree
  <1>4. claims + 1 \in 0..MaxJobs /\ claims + 1 # 0 /\ claims' = claims + 1
    BY <1>2, <1>3 DEF HandOut
  <1>5. /\ jobs'[j] = [jobs[j] EXCEPT !.status = "compiling", !.started = claims + 1]
        /\ jobs' = [jobs EXCEPT ![j] = jobs'[j]]
    BY DEF HandOut, Inv, TypeOK
  <1>6. /\ jobs'[j] \in Job /\ jobs'[j].started = claims + 1
        /\ jobs'[j].status = "compiling" /\ jobs'[j].grant = jobs[j].grant
    <2> DEFINE n == claims + 1
    <2>1. n \in 0..MaxJobs /\ jobs'[j] = [jobs[j] EXCEPT !.status = "compiling", !.started = n]
      BY <1>4, <1>5
    <2> HIDE DEF n
    <2>2. /\ jobs'[j] \in Job /\ jobs'[j].started = n
          /\ jobs'[j].status = "compiling" /\ jobs'[j].grant = jobs[j].grant
      BY <1>1, <2>1 DEF Job
    <2> QED
      BY <2>2 DEF n
  <1>7. HandedOut' = HandedOut \cup {j}
    <2>1. \A i \in JobIds : i # j => jobs'[i] = jobs[i]
      BY <1>5 DEF Inv, TypeOK
    <2>2. jobs'[j].started # 0
      BY <1>4, <1>6
    <2> QED
      BY <2>1, <2>2 DEF HandedOut
  <1> QED
    BY <1>2, <1>4, <1>5, <1>6, <1>7

(* The charge: at most one row changes, and only its remaining uses. *)
LEMMA ChargeEffect ==
    ASSUME Inv, NEW j \in JobIds, IsNext(j), HandOut(j), NEW t \in Int,
           jobs[j].grant # None => Valid(jobs[j].grant, t)
    PROVE  /\ grants' \in [GrantIds -> Grant \cup {NoGrant}]
           /\ \A g \in GrantIds : g <= lastGrant => grants'[g] \in Grant
           /\ \A g \in GrantIds : ~(g <= lastGrant) => grants'[g] = NoGrant
           /\ \A g \in GrantIds : /\ grants'[g].user = grants[g].user
                                  /\ grants'[g].offer = grants[g].offer
                                  /\ grants'[g].remaining = None <=> grants[g].remaining = None
           /\ \A g \in GrantIds : g # jobs[j].grant => grants'[g] = grants[g]
           /\ \A g \in GrantIds : g = jobs[j].grant /\ grants[g].remaining # None =>
                /\ grants[g].remaining \in Nat
                /\ grants'[g].remaining = grants[g].remaining - 1
  <1> DEFINE h == jobs[j].grant
  <1>1. CASE h # None /\ grants[h].remaining # None
    <2>1. h \in GrantIds /\ h <= lastGrant /\ grants[h] \in Grant
      BY <1>1, NextJob DEF Inv, TablesAgree
    <2>2. grants[h].remaining \in Nat /\ grants[h].remaining > 0
      BY <1>1, <2>1 DEF Grant, Valid
    <2>3. grants' = [grants EXCEPT ![h].remaining = @ - 1]
      BY <1>1 DEF HandOut
    <2>4. grants[h].remaining - 1 \in Nat /\ grants[h].remaining - 1 # None
      BY <2>2, NoneAssumption
    <2>5. /\ grants'[h] = [grants[h] EXCEPT !.remaining = @ - 1]
          /\ grants'[h] \in Grant
      BY <2>1, <2>3, <2>4 DEF Grant, Inv, TypeOK
    <2>6. /\ grants'[h].remaining = grants[h].remaining - 1
          /\ grants'[h].user = grants[h].user /\ grants'[h].offer = grants[h].offer
      BY <2>1, <2>5 DEF Grant
    <2>7. \A g \in GrantIds : g # h => grants'[g] = grants[g]
      BY <2>3 DEF Inv, TypeOK
    <2>8. grants' \in [GrantIds -> Grant \cup {NoGrant}]
      BY <2>1, <2>3, <2>5 DEF Inv, TypeOK
    <2> QED
      BY <1>1, <2>1, <2>2, <2>4, <2>5, <2>6, <2>7, <2>8 DEF Inv, TablesAgree
  <1>2. CASE ~(h # None /\ grants[h].remaining # None)
    <2>1. grants' = grants
      BY <1>2 DEF HandOut
    <2>2. \A g \in GrantIds : g # None
      BY NoneAssumption, BoundsAssumption
    <2> QED
      BY <1>2, <2>1, <2>2 DEF Inv, TypeOK, TablesAgree
  <1> QED
    BY <1>1, <1>2

LEMMA ClaimJobInv ==
    ASSUME Inv, NEW j \in JobIds, ClaimJob(j)
    PROVE  Inv'
  <1>1. IsNext(j) /\ now' \in Times /\ UNCHANGED <<lastJob, lastGrant, reqs>>
    BY BoundsAssumption DEF ClaimJob, Inv, TypeOK
  <1>2. CASE (jobs[j].grant # None => Valid(jobs[j].grant, now')) /\ HandOut(j)
    <2>1. now' \in Int
      BY <1>1
    <2>2. TypeOK'
      <3>1. jobs' \in [JobIds -> Job \cup {NoJob}]
        BY <1>1, <1>2, HandOutEffect DEF Inv, TypeOK
      <3>2. grants' \in [GrantIds -> Grant \cup {NoGrant}]
        BY <1>1, <1>2, <2>1, ChargeEffect
      <3>3. claims' \in 0..MaxJobs
        BY <1>1, <1>2, HandOutEffect
      <3>4. cases' = cases
        BY <1>2 DEF HandOut
      <3> QED
        BY <1>1, <3>1, <3>2, <3>3, <3>4 DEF Inv, TypeOK
    <2>3. TablesAgree'
      <3>1. j <= lastJob
        BY <1>1, NextJob
      <3>2. /\ jobs' = [jobs EXCEPT ![j] = jobs'[j]] /\ jobs'[j] \in Job
            /\ jobs'[j].status = "compiling" /\ jobs'[j].grant = jobs[j].grant
        BY <1>1, <1>2, HandOutEffect
      <3>3. \A i \in JobIds : i # j => jobs'[i] = jobs[i]
        BY <3>2 DEF Inv, TypeOK
      <3>4. claims' = Cardinality(HandedOut')
        BY <1>1, <1>2, HandOutEffect DEF Inv, TablesAgree
      <3>5. \A g \in GrantIds :
              IF g <= lastGrant' THEN grants'[g] \in Grant ELSE grants'[g] = NoGrant
        BY <1>1, <1>2, <2>1, ChargeEffect
      <3> QED
        BY <1>1, <3>1, <3>2, <3>3, <3>4, <3>5 DEF Inv, TablesAgree
    <2> QED
      BY <2>2, <2>3 DEF Inv
  <1>3. CASE GiveUp(j)
    <2> DEFINE new == [jobs[j] EXCEPT !.status = "cancelled"]
    <2>1. j <= lastJob /\ jobs[j] \in Job
      BY <1>1, NextJob
    <2>2. /\ new \in Job /\ new.grant = jobs[j].grant /\ new.started = jobs[j].started
          /\ new.status = "cancelled"
      BY <2>1 DEF Job
    <2>3. jobs' = [jobs EXCEPT ![j] = new]
      BY <1>3 DEF GiveUp, Inv, TypeOK
    <2>4. cases' \in [JobIds -> [Positions -> CaseStatus]]
      BY <1>3, CaseRowsType DEF GiveUp, Inv, TypeOK
    <2>5. reqs' = reqs /\ reqs \in [Requests -> Request]
      BY <1>1 DEF Inv, TypeOK
    <2>6. UNCHANGED <<grants, lastJob, lastGrant, claims>>
      BY <1>1, <1>3 DEF GiveUp
    <2> QED
      BY <1>1, <2>1, <2>2, <2>3, <2>4, <2>5, <2>6, RewriteStep
  <1> QED
    BY <1>2, <1>3 DEF ClaimJob

(* finish_job and mark_job_system_error: a final status for a known job. *)
LEMMA ReportInv ==
    ASSUME Inv, NEW j \in JobIds, Claimed(j), WorkerReport(j)
    PROVE  Inv' /\ \A p \in Positions : cases'[j][p] # "queued"
  <1>1. j <= lastJob /\ jobs[j] \in Job
    BY DEF Claimed, Inv, TypeOK, TablesAgree, NoJob
  <1>2. cases[j] \in [Positions -> CaseStatus]
    BY DEF Inv, TypeOK
  <1>3. PICK status \in Terminal : jobs' = [jobs EXCEPT ![j].status = status]
    BY ExecutionStatus DEF WorkerReport, FinishJob, MarkJobSystemError
  <1>4. PICK row \in [Positions -> CaseStatus] :
          /\ cases' = [cases EXCEPT ![j] = row]
          /\ \A p \in Positions : row[p] # "queued"
    BY <1>2, ListedType, CloseQueuedType DEF WorkerReport, FinishJob, MarkJobSystemError
  <1>5. /\ UNCHANGED <<grants, lastJob, lastGrant, claims>>
        /\ now' = now /\ reqs' = reqs
    BY DEF WorkerReport, FinishJob, MarkJobSystemError
  <1> DEFINE new == [jobs[j] EXCEPT !.status = status]
  <1>6. /\ new \in Job /\ new.grant = jobs[j].grant /\ new.started = jobs[j].started
        /\ new.status = status
    BY <1>1, <1>3 DEF Job
  <1>7. jobs' = [jobs EXCEPT ![j] = new]
    BY <1>3 DEF Inv, TypeOK
  <1>8. /\ cases' \in [JobIds -> [Positions -> CaseStatus]]
        /\ cases'[j] = row
    BY <1>4 DEF Inv, TypeOK
  <1>9. now' \in Times /\ reqs \in [Requests -> Request]
    BY <1>5 DEF Inv, TypeOK
  <1>10. Inv'
    BY <1>1, <1>5, <1>6, <1>7, <1>8, <1>9, RewriteStep
  <1> QED
    BY <1>4, <1>8, <1>10

-----------------------------------------------------------------------------
(* The invariant holds in every behaviour. *)
LEMMA NextInv ==
    ASSUME Inv, [Next]_vars
    PROVE  Inv'
  <1>1. CASE UNCHANGED vars
    BY <1>1 DEF vars, Inv, TypeOK, TablesAgree, HandedOut
  <1>2. ASSUME NEW r \in Requests, Handler(r) PROVE Inv'
    BY <1>2, CountInflightInv, CheckLimitsInv, PickGrantInv, InsertJobInv, CancelReadInv,
       WriteCancelQueuedInv, WriteCancelActiveInv
       DEF Handler, CancelJob, CancelJobAdmin
  <1>3. ASSUME ControlPlane PROVE Inv'
    BY <1>2, <1>3, CreateGrantInv, TickInv DEF ControlPlane
  <1>4. ASSUME ClaimNextJob PROVE Inv'
    BY <1>4, ClaimJobInv DEF ClaimNextJob
  <1>5. ASSUME NEW j \in JobIds, Claimed(j), WorkerReport(j) PROVE Inv'
    BY <1>5, ReportInv
  <1> QED
    BY <1>1, <1>3, <1>4, <1>5 DEF Next

LEMMA InvAlways == Spec => []Inv
  BY InitInv, NextInv, PTL DEF Spec

(* Whatever the threads, the administrator and the worker do, the tables   *)
(* of database.py hold values of their types: ranks never exceed the       *)
(* number of jobs and a grant's remaining uses never become negative.      *)
THEOREM TypeCorrect == Spec => []TypeOK
  <1>1. Inv => TypeOK
    BY DEF Inv
  <1> QED
    BY <1>1, InvAlways, PTL

(* Rows are numbered without gaps, references lead to rows that exist, a   *)
(* queued job was never handed out, and claims counts the jobs that were.  *)
THEOREM TablesAlwaysAgree == Spec => []TablesAgree
  <1>1. Inv => TablesAgree
    BY DEF Inv
  <1> QED
    BY <1>1, InvAlways, PTL

-----------------------------------------------------------------------------
(* Every step is of one of five kinds. *)

(* Job j gets a final status and final cases, or only its cancel flag; the *)
(* flag is never taken back.                                               *)
Rewrite(j) ==
    \E s \in Terminal \cup {jobs[j].status}, c \in BOOLEAN :
        /\ jobs[j].cancel => c
        /\ jobs' = [jobs EXCEPT ![j] = [jobs[j] EXCEPT !.status = s, !.cancel = c]]
        /\ \/ s = jobs[j].status /\ cases' = cases
           \/ /\ s \in Terminal
              /\ \A p \in Positions : cases'[j][p] # "queued"
              /\ \A i \in JobIds : i # j => cases'[i] = cases[i]

LEMMA StepKinds ==
    ASSUME Inv, [Next]_vars
    PROVE  \/ UNCHANGED <<jobs, cases, grants>>
           \/ \E r \in Requests : InsertJob(r)
           \/ \E u \in Users, o \in Offers : CreateGrant(u, o)
           \/ \E j \in JobIds : /\ IsNext(j) /\ HandOut(j)
                                /\ jobs[j].grant # None => Valid(jobs[j].grant, now')
           \/ \E j \in JobIds : jobs[j] \in Job /\ Rewrite(j) /\ UNCHANGED grants
  <1>1. ASSUME NEW r \in Requests, WriteCancelQueued(r)
        PROVE  \E j \in JobIds : jobs[j] \in Job /\ Rewrite(j) /\ UNCHANGED grants
    <2> DEFINE j == reqs[r].job
    <2>1. j \in JobIds /\ jobs[j] \in Job
      BY <1>1, RequestFields DEF WriteCancelQueued, Inv, TypeOK, TablesAgree
    <2>2. jobs' = [jobs EXCEPT ![j] = [jobs[j] EXCEPT !.status = "cancelled", !.cancel = TRUE]]
      BY <1>1, <2>1 DEF WriteCancelQueued, Inv, TypeOK
    <2>3. /\ \A p \in Positions : cases'[j][p] # "queued"
          /\ \A i \in JobIds : i # j => cases'[i] = cases[i]
      BY <1>1, <2>1, CaseRowsType DEF WriteCancelQueued, Inv, TypeOK
    <2> QED
      BY <1>1, <2>1, <2>2, <2>3 DEF Rewrite, WriteCancelQueued
  <1>2. ASSUME NEW r \in Requests, WriteCancelActive(r)
        PROVE  \E j \in JobIds : jobs[j] \in Job /\ Rewrite(j) /\ UNCHANGED grants
    <2> DEFINE j == reqs[r].job
               s == jobs[j].status
    <2>1. j \in JobIds /\ jobs[j] \in Job
      BY <1>2, RequestFields DEF WriteCancelActive, Inv, TypeOK, TablesAgree
    <2>2. jobs' = [jobs EXCEPT ![j] = [jobs[j] EXCEPT !.status = s, !.cancel = TRUE]]
      BY <1>2, <2>1 DEF WriteCancelActive, Inv, TypeOK, Job
    <2> QED
      BY <1>2, <2>1, <2>2 DEF Rewrite, WriteCancelActive
  <1>3. ASSUME NEW j \in JobIds, IsNext(j), GiveUp(j)
        PROVE  jobs[j] \in Job /\ Rewrite(j) /\ UNCHANGED grants
    <2> DEFINE c == jobs[j].cancel
    <2>1. jobs[j] \in Job /\ c \in BOOLEAN
      BY <1>3, NextJob DEF Job
    <2>2. jobs' = [jobs EXCEPT ![j] = [jobs[j] EXCEPT !.status = "cancelled", !.cancel = c]]
      BY <1>3, <2>1 DEF GiveUp, Inv, TypeOK, Job
    <2>3. /\ \A p \in Positions : cases'[j][p] # "queued"
          /\ \A i \in JobIds : i # j => cases'[i] = cases[i]
      BY <1>3, CaseRowsType DEF GiveUp, Inv, TypeOK
    <2> QED
      BY <1>3, <2>1, <2>2, <2>3 DEF Rewrite, GiveUp
  <1>4. ASSUME NEW j \in JobIds, Claimed(j), WorkerReport(j)
        PROVE  jobs[j] \in Job /\ Rewrite(j) /\ UNCHANGED grants
    <2> DEFINE c == jobs[j].cancel
    <2>1. jobs[j] \in Job /\ c \in BOOLEAN
      BY <1>4 DEF Claimed, Inv, TypeOK, TablesAgree, NoJob, Job
    <2>2. PICK s \in Terminal : jobs' = [jobs EXCEPT ![j].status = s]
      BY <1>4, ExecutionStatus DEF WorkerReport, FinishJob, MarkJobSystemError
    <2>3. jobs' = [jobs EXCEPT ![j] = [jobs[j] EXCEPT !.status = s, !.cancel = c]]
      BY <2>1, <2>2 DEF Inv, TypeOK, Job
    <2>4. \A p \in Positions : cases'[j][p] # "queued"
      BY <1>4, ReportInv
    <2>5. UNCHANGED grants /\ \A i \in JobIds : i # j => cases'[i] = cases[i]
      BY <1>4 DEF WorkerReport, FinishJob, MarkJobSystemError, Inv, TypeOK
    <2> QED
      BY <2>1, <2>2, <2>3, <2>4, <2>5 DEF Rewrite
  <1>5. ASSUME NEW r \in Requests, Handler(r)
        PROVE  \/ UNCHANGED <<jobs, cases, grants>>
               \/ InsertJob(r) \/ WriteCancelQueued(r) \/ WriteCancelActive(r)
    BY <1>5 DEF Handler, CountInflight, CheckLimits, PickGrant, CancelJob, CancelJobAdmin,
               CancelRead, storeVars
  <1>6. CASE UNCHANGED vars
    BY <1>6 DEF vars
  <1>7. CASE ControlPlane
    BY <1>7, <1>1, <1>2, <1>5 DEF ControlPlane, Tick
  <1>8. CASE ClaimNextJob
    BY <1>8, <1>3 DEF ClaimNextJob, ClaimJob
  <1>9. CASE \E j \in JobIds : Claimed(j) /\ WorkerReport(j)
    BY <1>9, <1>4
  <1> QED
    BY <1>6, <1>7, <1>8, <1>9 DEF Next

(* What a rewrite leaves alone. *)
LEMMA RewriteEffect ==
    ASSUME Inv, NEW j \in JobIds, jobs[j] \in Job, Rewrite(j)
    PROVE  /\ \A i \in JobIds : i # j => jobs'[i] = jobs[i]
           /\ \A i \in JobIds : /\ jobs'[i].grant = jobs[i].grant
                                /\ jobs'[i].started = jobs[i].started
                                /\ jobs'[i].user = jobs[i].user
                                /\ jobs'[i].spec = jobs[i].spec
                                /\ jobs'[i].created = jobs[i].created
                                /\ jobs[i].cancel => jobs'[i].cancel
           /\ jobs'[j].status \in Terminal \cup {jobs[j].status}
           /\ jobs'[j].status # jobs[j].status =>
                \A p \in Positions : cases'[j][p] # "queued"
           /\ cases'[j] = cases[j] \/ \A p \in Positions : cases'[j][p] # "queued"
           /\ \A i \in JobIds : i # j => cases'[i] = cases[i]
  <1>1. PICK s \in Terminal \cup {jobs[j].status}, c \in BOOLEAN :
          /\ jobs[j].cancel => c
          /\ jobs' = [jobs EXCEPT ![j] = [jobs[j] EXCEPT !.status = s, !.cancel = c]]
          /\ \/ s = jobs[j].status /\ cases' = cases
             \/ /\ s \in Terminal
                /\ \A p \in Positions : cases'[j][p] # "queued"
                /\ \A i \in JobIds : i # j => cases'[i] = cases[i]
    BY DEF Rewrite
  <1>2. jobs'[j] = [jobs[j] EXCEPT !.status = s, !.cancel = c]
    BY <1>1 DEF Inv, TypeOK
  <1>3. /\ jobs'[j].status = s /\ jobs'[j].grant = jobs[j].grant
        /\ jobs'[j].started = jobs[j].started
        /\ jobs'[j].user = jobs[j].user /\ jobs'[j].spec = jobs[j].spec
        /\ jobs'[j].created = jobs[j].created /\ jobs'[j].cancel = c
    BY <1>2 DEF Job
  <1>4. \A i \in JobIds : i # j => jobs'[i] = jobs[i]
    BY <1>1 DEF Inv, TypeOK
  <1> QED
    BY <1>1, <1>3, <1>4

(* What create_job writes. *)
LEMMA InsertEffect ==
    ASSUME Inv, NEW r \in Requests, InsertJob(r)
    PROVE  /\ lastJob + 1 \in JobIds /\ jobs[lastJob + 1] = NoJob
           /\ jobs'[lastJob + 1].status = "queued" /\ jobs'[lastJob + 1].started = 0
           /\ jobs'[lastJob + 1].user = reqs[r].user /\ jobs'[lastJob + 1].spec = reqs[r].spec
           /\ jobs'[lastJob + 1].grant = reqs[r].grant
           /\ \A i \in JobIds : i # lastJob + 1 => jobs'[i] = jobs[i] /\ cases'[i] = cases[i]
           /\ UNCHANGED grants
  <1>1. lastJob + 1 \in JobIds
    BY BoundsAssumption DEF Inv, TypeOK, InsertJob
  <1>2. jobs[lastJob + 1] = NoJob
    BY <1>1 DEF Inv, TypeOK, TablesAgree
  <1> QED
    BY <1>1, <1>2 DEF InsertJob, Inv, TypeOK

(* A finished job has no case that still looks as if it will run, for any  *)
(* interleaving of claims, cancellations and (repeated) reports.           *)
THEOREM ClosedCases == Spec => []ClosedJobHasNoQueuedCase
  <1>1. Init => ClosedJobHasNoQueuedCase
    BY DEF Init, NoJob, ClosedJobHasNoQueuedCase
  <1>2. ASSUME Inv, ClosedJobHasNoQueuedCase, [Next]_vars
        PROVE  ClosedJobHasNoQueuedCase'
    <2>1. CASE UNCHANGED <<jobs, cases, grants>>
      BY <1>2, <2>1 DEF ClosedJobHasNoQueuedCase
    <2>2. ASSUME NEW r \in Requests, InsertJob(r) PROVE ClosedJobHasNoQueuedCase'
      BY <1>2, <2>2, InsertEffect DEF ClosedJobHasNoQueuedCase
    <2>3. ASSUME NEW u \in Users, NEW o \in Offers, CreateGrant(u, o)
          PROVE  ClosedJobHasNoQueuedCase'
      BY <1>2, <2>3 DEF ClosedJobHasNoQueuedCase, CreateGrant
    <2>4. ASSUME NEW j \in JobIds, IsNext(j), HandOut(j) PROVE ClosedJobHasNoQueuedCase'
      <3>1. /\ jobs' = [jobs EXCEPT ![j] = jobs'[j]] /\ jobs'[j].status = "compiling"
            /\ cases' = cases
        BY <1>2, <2>4, HandOutEffect DEF HandOut
      <3> QED
        BY <1>2, <3>1 DEF ClosedJobHasNoQueuedCase, Inv, TypeOK
    <2>5. ASSUME NEW j \in JobIds, jobs[j] \in Job, Rewrite(j) PROVE ClosedJobHasNoQueuedCase'
      BY <1>2, <2>5, RewriteEffect DEF ClosedJobHasNoQueuedCase
    <2> QED
      BY <1>2, <2>1, <2>2, <2>3, <2>4, <2>5, StepKinds
  <1> QED
    BY <1>1, <1>2, InvAlways, PTL DEF Spec

-----------------------------------------------------------------------------
(* Grants. *)

LEMMA UsesFinite ==
    ASSUME NEW g
    PROVE  Uses(g) \subseteq JobIds /\ Cardinality(Uses(g)) \in Nat
  <1>1. Uses(g) \subseteq JobIds
    BY DEF Uses
  <1>2. IsFiniteSet(Uses(g))
    BY <1>1, JobSetFinite
  <1> QED
    BY <1>1, <1>2, FS_CardinalityType

(* A use of a grant is spent exactly when a job is handed out under it, so *)
(* a grant of n uses never carries more than n jobs.                       *)
THEOREM GrantsAreAccounted == Spec => []GrantAccounting
  <1>1. Init => GrantAccounting
    BY DEF Init, NoGrant, GrantAccounting
  <1>2. ASSUME Inv, GrantAccounting, [Next]_vars
        PROVE  GrantAccounting'
    <2>1. ASSUME UNCHANGED grants, \A g \in GrantIds : Uses(g)' = Uses(g)
          PROVE  GrantAccounting'
      BY <1>2, <2>1 DEF GrantAccounting
    <2>2. CASE UNCHANGED <<jobs, cases, grants>>
      BY <2>1, <2>2 DEF Uses
    <2>3. ASSUME NEW r \in Requests, InsertJob(r) PROVE GrantAccounting'
      <3>1. \A g \in GrantIds : Uses(g)' = Uses(g)
        BY <1>2, <2>3, InsertEffect DEF Uses, NoJob
      <3> QED
        BY <1>2, <2>1, <2>3, <3>1, InsertEffect
    <2>4. ASSUME NEW u \in Users, NEW o \in Offers, CreateGrant(u, o) PROVE GrantAccounting'
      <3> DEFINE h == lastGrant + 1
      <3>1. /\ h \in GrantIds /\ jobs' = jobs
            /\ grants'[h].remaining = o.uses /\ grants'[h].offer = o
            /\ \A g \in GrantIds : g # h => grants'[g] = grants[g]
        BY <1>2, <2>4, BoundsAssumption DEF CreateGrant, Inv, TypeOK
      <3>2. \A g \in GrantIds : Uses(g)' = Uses(g)
        BY <3>1 DEF Uses
      <3>3. Uses(h) = {}
        <4>1. ASSUME NEW i \in JobIds PROVE jobs[i].grant # h
          <5>1. lastGrant \in Nat /\ h # None
            BY <1>2, BoundsAssumption, NoneAssumption DEF Inv, TypeOK
          <5>2. jobs[i].grant # None => jobs[i].grant <= lastGrant
            BY <1>2, <4>1 DEF Inv, TablesAgree
          <5> QED
            BY <5>1, <5>2
        <4> QED
          BY <4>1 DEF Uses
      <3>4. o.uses # None => o.uses \in Nat /\ o.uses = o.uses + Cardinality(Uses(h))
        BY <3>3, FS_EmptySet, OffersAssumption DEF Limits
      <3> QED
        BY <1>2, <3>1, <3>2, <3>4 DEF GrantAccounting
    <2>5. ASSUME NEW j \in JobIds, IsNext(j), HandOut(j),
                 jobs[j].grant # None => Valid(jobs[j].grant, now')
          PROVE  GrantAccounting'
      <3> SUFFICES ASSUME NEW g \in GrantIds, grants'[g].remaining # None
                   PROVE  grants'[g].offer.uses = grants'[g].remaining + Cardinality(Uses(g)')
        BY DEF GrantAccounting
      <3> DEFINE h == jobs[j].grant
      <3>1. now' \in Int
        BY <1>2, NextInv, BoundsAssumption DEF Inv, TypeOK
      <3>2. /\ grants'[g].offer = grants[g].offer
            /\ grants[g].remaining # None
            /\ g # h => grants'[g] = grants[g]
            /\ g = h => /\ grants[g].remaining \in Nat
                        /\ grants'[g].remaining = grants[g].remaining - 1
        BY <1>2, <2>5, <3>1, ChargeEffect
      <3>3. grants[g].offer.uses = grants[g].remaining + Cardinality(Uses(g))
        BY <1>2, <3>2 DEF GrantAccounting
      <3>4. /\ jobs'[j].started # 0 /\ jobs'[j].grant = h /\ jobs[j].started = 0
            /\ \A i \in JobIds : i # j => jobs'[i] = jobs[i]
        <4>1. /\ jobs'[j].started # 0 /\ jobs'[j].grant = h
              /\ jobs' = [jobs EXCEPT ![j] = jobs'[j]]
          BY <1>2, <2>5, HandOutEffect
        <4>2. jobs[j].started = 0
          BY <1>2, <2>5, NextJob
        <4>3. \A i \in JobIds : i # j => jobs'[i] = jobs[i]
          BY <1>2, <4>1 DEF Inv, TypeOK
        <4> QED
          BY <4>1, <4>2, <4>3
      <3>5. CASE g = h
        <4>1. Uses(g)' = Uses(g) \cup {j} /\ j \notin Uses(g)
          BY <3>4, <3>5 DEF Uses
        <4>2. Cardinality(Uses(g)') = Cardinality(Uses(g)) + 1
          BY <4>1, UsesFinite, RankAvailable
        <4>3. Cardinality(Uses(g)) \in Nat
          BY UsesFinite
        <4> QED
          BY <3>2, <3>3, <3>5, <4>2, <4>3
      <3>6. CASE g # h
        <4>1. Uses(g)' = Uses(g)
          BY <3>4, <3>6 DEF Uses
        <4> QED
          BY <3>2, <3>3, <3>6, <4>1
      <3> QED
        BY <3>5, <3>6
    <2>6. ASSUME NEW j \in JobIds, jobs[j] \in Job, Rewrite(j), UNCHANGED grants
          PROVE  GrantAccounting'
      <3>1. \A g \in GrantIds : Uses(g)' = Uses(g)
        BY <1>2, <2>6, RewriteEffect DEF Uses
      <3> QED
        BY <2>1, <2>6, <3>1
    <2> QED
      BY <1>2, <2>2, <2>3, <2>4, <2>5, <2>6, StepKinds
  <1> QED
    BY <1>1, <1>2, InvAlways, PTL DEF Spec

-----------------------------------------------------------------------------
(* The life cycle of a job. *)

LEMMA PhaseValues ==
    ASSUME NEW s \in {"absent"} \cup Inflight \cup Terminal
    PROVE  /\ PhaseOf(s) \in {"absent", "queued", "active", "closed"}
           /\ s = "absent" => PhaseOf(s) = "absent"
           /\ s = "queued" => PhaseOf(s) = "queued"
           /\ s \in Active => PhaseOf(s) = "active"
           /\ s \in Terminal => PhaseOf(s) = "closed"
  BY DEF PhaseOf

Phase == [j \in JobIds |-> PhaseOf(jobs[j].status)]

LEMMA StatusValues ==
    ASSUME Inv, NEW j \in JobIds
    PROVE  /\ jobs[j].status \in {"absent"} \cup Inflight \cup Terminal
           /\ jobs[j] \in Job => jobs[j].status # "absent"
           /\ jobs[j] = NoJob => jobs[j].status = "absent"
  BY DEF Inv, TypeOK, Job, NoJob

(* Every step of the queue is a step of JobLifecycle or changes nothing    *)
(* there: no job is handed out twice, and a job that finish_job,           *)
(* mark_job_system_error or a cancellation closed never becomes active.    *)
THEOREM QueueRefinesLifecycle == Spec => RefinesLifecycle
  <1>1. Init => Lifecycle!Init
    <2> SUFFICES ASSUME Init PROVE Lifecycle!Init
      OBVIOUS
    <2>1. \A j \in JobIds : jobs[j].status = "absent" /\ jobs[j].started = 0
      BY DEF Init, NoJob
    <2>2. \A j \in JobIds : PhaseOf(jobs[j].status) = "absent"
      BY <2>1, PhaseValues
    <2>3. HandedOut = {}
      BY <2>1 DEF HandedOut
    <2> QED
      BY <2>2, <2>3 DEF Lifecycle!Init
  <1>2. ASSUME Inv, [Next]_vars
        PROVE  [Lifecycle!Next]_<<Phase, HandedOut>>
    <2> USE <1>2
    <2>1. Inv'
      BY NextInv
    <2>2. CASE UNCHANGED <<jobs, cases, grants>>
      BY <2>2 DEF Phase, HandedOut
    <2>3. ASSUME NEW r \in Requests, InsertJob(r) PROVE Lifecycle!Next
      <3> DEFINE j == lastJob + 1
      <3>1. /\ j \in JobIds /\ jobs[j].status = "absent" /\ jobs[j].started = 0
            /\ jobs'[j].status = "queued" /\ jobs'[j].started = 0
            /\ \A i \in JobIds : i # j => jobs'[i] = jobs[i]
        BY <2>3, InsertEffect DEF NoJob
      <3>2. PhaseOf(jobs[j].status) = "absent" /\ PhaseOf(jobs'[j].status) = "queued"
        BY <3>1, PhaseValues
      <3>3. Phase[j] = "absent" /\ Phase' = [Phase EXCEPT ![j] = "queued"]
        BY <3>1, <3>2 DEF Phase
      <3>4. HandedOut' = HandedOut
        BY <3>1 DEF HandedOut
      <3> QED
        BY <3>1, <3>3, <3>4 DEF Lifecycle!Next, Lifecycle!Submit, Phase
    <2>4. ASSUME NEW u \in Users, NEW o \in Offers, CreateGrant(u, o)
          PROVE  UNCHANGED <<Phase, HandedOut>>
      BY <2>4 DEF CreateGrant, Phase, HandedOut
    <2>5. ASSUME NEW j \in JobIds, IsNext(j), HandOut(j) PROVE Lifecycle!Next
      <3>1. /\ jobs[j].status = "queued" /\ j \notin HandedOut
            /\ jobs'[j].status = "compiling" /\ HandedOut' = HandedOut \cup {j}
            /\ jobs' = [jobs EXCEPT ![j] = jobs'[j]]
        BY <2>5, HandOutEffect, NextJob
      <3>2. PhaseOf(jobs[j].status) = "queued" /\ PhaseOf(jobs'[j].status) = "active"
        BY <3>1, PhaseValues
      <3>3. \A i \in JobIds : i # j => jobs'[i] = jobs[i]
        BY <3>1 DEF Inv, TypeOK
      <3>4. Phase[j] = "queued" /\ Phase' = [Phase EXCEPT ![j] = "active"]
        BY <3>2, <3>3 DEF Phase
      <3> QED
        BY <3>1, <3>4 DEF Lifecycle!Next, Lifecycle!Start, Phase
    <2>6. ASSUME NEW j \in JobIds, jobs[j] \in Job, Rewrite(j)
          PROVE  Lifecycle!Next \/ UNCHANGED <<Phase, HandedOut>>
      <3>1. HandedOut' = HandedOut
        BY <2>6, RewriteEffect DEF HandedOut
      <3>2. /\ \A i \in JobIds : i # j => jobs'[i] = jobs[i]
            /\ jobs'[j].status \in Terminal \cup {jobs[j].status}
        BY <2>6, RewriteEffect
      <3>3. jobs[j].status \in Inflight \cup Terminal
        BY <2>6, StatusValues
      <3>4. CASE jobs'[j].status = jobs[j].status
        BY <3>1, <3>2, <3>4 DEF Phase
      <3>5. CASE jobs'[j].status \in Terminal /\ jobs[j].status \in Terminal
        <4>1. PhaseOf(jobs'[j].status) = PhaseOf(jobs[j].status)
          BY <3>5, PhaseValues
        <4> QED
          BY <3>1, <3>2, <4>1 DEF Phase
      <3>6. CASE jobs'[j].status \in Terminal /\ jobs[j].status \in Inflight
        <4>1. PhaseOf(jobs'[j].status) = "closed"
          BY <3>6, PhaseValues
        <4>2. PhaseOf(jobs[j].status) \in {"queued", "active"}
          BY <3>6, PhaseValues
        <4>3. Phase[j] \in {"queued", "active"} /\ Phase' = [Phase EXCEPT ![j] = "closed"]
          BY <3>2, <4>1, <4>2 DEF Phase
        <4> QED
          BY <3>1, <4>3 DEF Lifecycle!Next, Lifecycle!Close, Phase
      <3> QED
        BY <3>2, <3>3, <3>4, <3>5, <3>6
    <2> QED
      BY <2>2, <2>3, <2>4, <2>5, <2>6, StepKinds
  <1> QED
    BY <1>1, <1>2, InvAlways, PTL DEF Spec, RefinesLifecycle, Lifecycle!Spec, Phase

-----------------------------------------------------------------------------
(* Authority for jobs above the standard ceilings. *)

(* The same for a thread that has picked a grant and not inserted yet. *)
PickIsAuthorised ==
    \A r \in Requests :
        reqs[r].pc = "insert" /\ ~Standard(reqs[r].spec) =>
            AuthorisedBy(reqs[r].grant, reqs[r].user, reqs[r].spec)

(* How a thread gets to its INSERT. *)
LEMMA RequestKinds ==
    ASSUME Inv, [Next]_vars, NEW r \in Requests
    PROVE  \/ reqs'[r] = reqs[r]
           \/ reqs'[r].pc # "insert"
           \/ Standard(reqs'[r].spec)
           \/ Covers(reqs'[r].grant, reqs'[r].user, reqs'[r].spec)
              /\ reqs'[r].grant \in GrantIds
  <1>1. CASE reqs' = reqs
    BY <1>1
  <1>2. ASSUME NEW t \in Requests, Handler(t), t # r PROVE reqs'[r] = reqs[r]
    BY <1>2 DEF Handler, CountInflight, CheckLimits, PickGrant, InsertJob, CancelJob,
               CancelJobAdmin, CancelRead, WriteCancelQueued, WriteCancelActive, Inv, TypeOK
  <1>3. ASSUME CheckLimits(r)
        PROVE  reqs'[r].pc # "insert" \/ Standard(reqs'[r].spec)
    BY <1>3 DEF CheckLimits, AfterLimits, Idle, Inv, TypeOK
  <1>4. ASSUME PickGrant(r)
        PROVE  \/ reqs'[r].pc # "insert"
               \/ Covers(reqs'[r].grant, reqs'[r].user, reqs'[r].spec)
                  /\ reqs'[r].grant \in GrantIds
    BY <1>4 DEF PickGrant, Idle, Inv, TypeOK
  <1>5. ASSUME NEW u \in Users, NEW p \in Payloads, CountInflight(r, u, p)
        PROVE  reqs'[r].pc # "insert"
    BY <1>5 DEF CountInflight, Inv, TypeOK
  <1>6. ASSUME NEW j \in JobIds, CancelRead(r, j) PROVE reqs'[r].pc # "insert"
    BY <1>6 DEF CancelRead, Inv, TypeOK
  <1>7. ASSUME InsertJob(r) \/ WriteCancelQueued(r) \/ WriteCancelActive(r)
        PROVE  reqs'[r].pc # "insert"
    BY <1>7 DEF InsertJob, WriteCancelQueued, WriteCancelActive, Idle, Inv, TypeOK
  <1>8. CASE Handler(r)
    BY <1>3, <1>4, <1>5, <1>6, <1>7, <1>8 DEF Handler, CancelJob, CancelJobAdmin
  <1>9. CASE \E t \in Requests : Handler(t)
    BY <1>2, <1>8, <1>9
  <1>10. ASSUME ~(\E t \in Requests : Handler(t)) PROVE reqs' = reqs
    BY <1>10 DEF Next, ControlPlane, CreateGrant, Tick, ClaimNextJob, ClaimJob, WorkerReport,
                FinishJob, MarkJobSystemError, vars
  <1> QED
    BY <1>1, <1>9, <1>10

(* A grant never changes its user or its limits. *)
LEMMA GrantsKeepLimits ==
    ASSUME Inv, [Next]_vars, NEW g \in GrantIds, g <= lastGrant
    PROVE  grants'[g].user = grants[g].user /\ grants'[g].offer = grants[g].offer
  <1>1. ASSUME NEW u \in Users, NEW o \in Offers, CreateGrant(u, o)
        PROVE  grants'[g] = grants[g]
    <2>1. g # lastGrant + 1
      BY BoundsAssumption DEF Inv, TypeOK
    <2> QED
      BY <1>1, <2>1 DEF CreateGrant, Inv, TypeOK
  <1>2. ASSUME NEW j \in JobIds, IsNext(j), HandOut(j),
               jobs[j].grant # None => Valid(jobs[j].grant, now')
        PROVE  grants'[g].user = grants[g].user /\ grants'[g].offer = grants[g].offer
    <2>1. now' \in Int
      BY NextInv, BoundsAssumption DEF Inv, TypeOK
    <2> QED
      BY <1>2, <2>1, ChargeEffect
  <1> QED
    BY <1>1, <1>2, StepKinds, InsertEffect

(* No job above the standard ceilings is ever in the queue without a grant *)
(* of its own user that covers it, although create_job reads the grant in  *)
(* one transaction and inserts the job in another.                         *)
THEOREM ExcessAlwaysAuthorised == Spec => []ExcessIsAuthorised
  <1> DEFINE Auth == ExcessIsAuthorised /\ PickIsAuthorised
  <1>1. Init => Auth
    BY DEF Init, NoJob, Idle, ExcessIsAuthorised, PickIsAuthorised
  <1>2. ASSUME Inv, Auth, [Next]_vars
        PROVE  Auth'
    <2> USE <1>2
    <2>1. ASSUME NEW g \in GrantIds, g <= lastGrant, NEW u, NEW p, AuthorisedBy(g, u, p)
          PROVE  AuthorisedBy(g, u, p)'
      BY <2>1, GrantsKeepLimits DEF AuthorisedBy
    <2>2. ASSUME NEW j \in JobIds,
                 jobs'[j].grant = jobs[j].grant, jobs'[j].user = jobs[j].user,
                 jobs'[j].spec = jobs[j].spec, jobs[j].status # "absent",
                 ~Standard(jobs'[j].spec)
          PROVE  AuthorisedBy(jobs[j].grant, jobs[j].user, jobs[j].spec)'
      <3>1. AuthorisedBy(jobs[j].grant, jobs[j].user, jobs[j].spec)
        BY <2>2 DEF ExcessIsAuthorised
      <3>2. jobs[j].grant \in GrantIds /\ jobs[j].grant <= lastGrant
        BY <2>2, <3>1 DEF AuthorisedBy, Inv, TypeOK, TablesAgree, Job, NoJob
      <3> QED
        BY <2>1, <2>2, <3>1, <3>2
    <2>3. ExcessIsAuthorised'
      <3> SUFFICES ASSUME NEW j \in JobIds, jobs'[j].status # "absent",
                          ~Standard(jobs'[j].spec)
                   PROVE  AuthorisedBy(jobs[j].grant, jobs[j].user, jobs[j].spec)'
        BY DEF ExcessIsAuthorised, Standard
      <3>1. ASSUME NEW r \in Requests, InsertJob(r)
            PROVE  AuthorisedBy(jobs[j].grant, jobs[j].user, jobs[j].spec)'
        <4>1. CASE j = lastJob + 1
          <5>1. /\ jobs'[j].user = reqs[r].user /\ jobs'[j].spec = reqs[r].spec
                /\ jobs'[j].grant = reqs[r].grant /\ reqs[r].pc = "insert"
            BY <3>1, <4>1, InsertEffect DEF InsertJob
          <5>2. AuthorisedBy(reqs[r].grant, reqs[r].user, reqs[r].spec)
            BY <5>1 DEF PickIsAuthorised
          <5>3. reqs[r].grant \in GrantIds /\ reqs[r].grant <= lastGrant
            BY <5>1, <5>2, RequestFields DEF AuthorisedBy, Inv, TypeOK, TablesAgree
          <5> QED
            BY <2>1, <5>1, <5>2, <5>3
        <4>2. CASE j # lastJob + 1
          BY <2>2, <3>1, <4>2, InsertEffect
        <4> QED
          BY <4>1, <4>2
      <3>2. CASE jobs' = jobs
        BY <2>2, <3>2
      <3>3. ASSUME NEW i \in JobIds, IsNext(i), HandOut(i)
            PROVE  AuthorisedBy(jobs[j].grant, jobs[j].user, jobs[j].spec)'
        <4>1. jobs[i] \in Job /\ jobs[i].status = "queued"
          BY <3>3, NextJob
        <4>2. /\ jobs' = [jobs EXCEPT ![i] = jobs'[i]]
              /\ jobs'[i] = [jobs[i] EXCEPT !.status = "compiling", !.started = claims + 1]
          BY <3>3, HandOutEffect
        <4>3. /\ jobs'[i].grant = jobs[i].grant /\ jobs'[i].user = jobs[i].user
              /\ jobs'[i].spec = jobs[i].spec
          BY <4>1, <4>2 DEF Job
        <4>4. i # j => jobs'[j] = jobs[j]
          BY <4>2 DEF Inv, TypeOK
        <4> QED
          BY <2>2, <4>1, <4>3, <4>4
      <3>4. ASSUME NEW i \in JobIds, jobs[i] \in Job, Rewrite(i)
            PROVE  AuthorisedBy(jobs[j].grant, jobs[j].user, jobs[j].spec)'
        BY <2>2, <3>4, RewriteEffect, StatusValues
      <3> QED
        BY <3>1, <3>2, <3>3, <3>4, StepKinds DEF CreateGrant
    <2>4. PickIsAuthorised'
      <3> SUFFICES ASSUME NEW r \in Requests, reqs'[r].pc = "insert",
                          ~Standard(reqs'[r].spec)
                   PROVE  AuthorisedBy(reqs[r].grant, reqs[r].user, reqs[r].spec)'
        BY DEF PickIsAuthorised, Standard
      <3>1. CASE reqs'[r] = reqs[r]
        <4>1. AuthorisedBy(reqs[r].grant, reqs[r].user, reqs[r].spec)
          BY <3>1 DEF PickIsAuthorised
        <4>2. reqs[r].grant \in GrantIds /\ reqs[r].grant <= lastGrant
          BY <3>1, <4>1, RequestFields DEF AuthorisedBy, Inv, TypeOK, TablesAgree
        <4> QED
          BY <2>1, <3>1, <4>1, <4>2
      <3>2. CASE Covers(reqs'[r].grant, reqs'[r].user, reqs'[r].spec)
                 /\ reqs'[r].grant \in GrantIds
        <4>1. reqs'[r].grant # None /\ reqs'[r].grant <= lastGrant
          BY <3>2, NoneAssumption, BoundsAssumption DEF Covers, Valid, Inv, TypeOK
        <4>2. AuthorisedBy(reqs'[r].grant, reqs'[r].user, reqs'[r].spec)
          BY <3>2, <4>1 DEF Covers, AuthorisedBy
        <4> QED
          BY <2>1, <3>2, <4>1, <4>2
      <3> QED
        BY <3>1, <3>2, RequestKinds
    <2> QED
      BY <2>3, <2>4
  <1> QED
    BY <1>1, <1>2, InvAlways, PTL DEF Spec

-----------------------------------------------------------------------------
(* The order of the queue.                                                 *)

(* The latest rank is the largest. *)
RanksGiven == \A j \in JobIds : jobs[j].started <= claims

(* Ranks are given in ascending order. *)
LEMMA RanksStep ==
    ASSUME Inv, RanksGiven, [Next]_vars
    PROVE  /\ RanksGiven'
           /\ \A j \in JobIds : IsNext(j) /\ HandOut(j) =>
                /\ jobs'[j].started = claims + 1
                /\ jobs'[j].user = jobs[j].user /\ jobs'[j].spec = jobs[j].spec
                /\ jobs'[j].grant = jobs[j].grant /\ jobs'[j].created = jobs[j].created
                /\ jobs'[j].status = "compiling" /\ jobs'[j].cancel = jobs[j].cancel
                /\ \A i \in JobIds : i # j => jobs'[i] = jobs[i]
  <1>1. Inv' /\ claims \in Int /\ claims' \in Int
    BY NextInv, BoundsAssumption DEF Inv, TypeOK
  <1>2. ASSUME \A j \in JobIds : jobs'[j].started = jobs[j].started
        PROVE  RanksGiven'
    <2>1. HandedOut' = HandedOut
      BY <1>2 DEF HandedOut
    <2>2. claims' = claims
      BY <1>1, <2>1 DEF Inv, TablesAgree
    <2> QED
      BY <1>2, <2>2 DEF RanksGiven
  <1>3. ASSUME NEW j \in JobIds, IsNext(j), HandOut(j)
        PROVE  /\ RanksGiven' /\ jobs'[j].started = claims + 1
               /\ jobs'[j].user = jobs[j].user /\ jobs'[j].spec = jobs[j].spec
               /\ jobs'[j].grant = jobs[j].grant /\ jobs'[j].created = jobs[j].created
               /\ jobs'[j].status = "compiling" /\ jobs'[j].cancel = jobs[j].cancel
               /\ \A i \in JobIds : i # j => jobs'[i] = jobs[i]
    <2>1. PICK c \in Int : c = claims + 1
      BY <1>1
    <2>2. /\ jobs[j] \in Job /\ claims' = c
          /\ jobs'[j] = [jobs[j] EXCEPT !.status = "compiling", !.started = c]
          /\ \A i \in JobIds : i # j => jobs'[i] = jobs[i]
      <3>1. /\ jobs[j] \in Job /\ claims' = claims + 1
            /\ jobs'[j] = [jobs[j] EXCEPT !.status = "compiling", !.started = claims + 1]
            /\ jobs' = [jobs EXCEPT ![j] = jobs'[j]]
        BY <1>3, HandOutEffect, NextJob
      <3>2. \A i \in JobIds : i # j => jobs'[i] = jobs[i]
        BY <3>1 DEF Inv, TypeOK
      <3> QED
        BY <2>1, <3>1, <3>2, Zenon
    <2>3. /\ jobs'[j].started = c /\ jobs'[j].user = jobs[j].user /\ jobs'[j].spec = jobs[j].spec
          /\ jobs'[j].grant = jobs[j].grant /\ jobs'[j].created = jobs[j].created
          /\ jobs'[j].status = "compiling" /\ jobs'[j].cancel = jobs[j].cancel
      BY <2>2 DEF Job
    <2>4. \A i \in JobIds : jobs[i].started \in Int
      BY BoundsAssumption DEF Inv, TypeOK, Job, NoJob
    <2>5. RanksGiven'
      <3>1. claims' = c /\ c = claims + 1
        BY <2>1, <2>2
      <3>2. ASSUME NEW i \in JobIds PROVE jobs'[i].started <= claims'
        <4>1. CASE i = j
          BY <1>1, <2>3, <3>1, <4>1
        <4>2. CASE i # j
          <5>1. jobs'[i] = jobs[i] /\ jobs[i].started \in Int
            BY <2>2, <2>4, <4>2
          <5>2. jobs[i].started <= claims
            BY DEF RanksGiven
          <5> QED
            BY <1>1, <3>1, <5>1, <5>2
        <4> QED
          BY <4>1, <4>2
      <3> QED
        BY <3>2 DEF RanksGiven
    <2> QED
      BY <2>1, <2>2, <2>3, <2>5
  <1>4. RanksGiven'
    <2>1. ASSUME NEW r \in Requests, InsertJob(r) PROVE RanksGiven'
      <3>1. \A j \in JobIds : jobs'[j].started = jobs[j].started
        BY <2>1, InsertEffect DEF NoJob
      <3> QED
        BY <1>2, <3>1
    <2>2. ASSUME NEW j \in JobIds, jobs[j] \in Job, Rewrite(j) PROVE RanksGiven'
      BY <1>2, <2>2, RewriteEffect
    <2>3. CASE jobs' = jobs
      BY <1>2, <2>3
    <2> QED
      BY <1>3, <2>1, <2>2, <2>3, StepKinds DEF CreateGrant
  <1> QED
    BY <1>3, <1>4

(* Two jobs of one user that ask for the same and have no grant can be     *)
(* claimed in the same states.                                             *)
LEMMA SameSizeEligible ==
    ASSUME NEW i \in JobIds, NEW j \in JobIds, Eligible(j),
           jobs[i].user = jobs[j].user, jobs[i].spec.mem = jobs[j].spec.mem,
           jobs[i].grant = None, jobs[j].grant = None,
           jobs[i].status = "queued", ~jobs[i].cancel
    PROVE  Eligible(i)
  <1>1. Ceiling(i) = MaxMem /\ Ceiling(j) = MaxMem
    BY DEF Ceiling
  <1> QED
    BY <1>1, Zenon DEF Eligible

(* A job that is earlier than another one is not later. *)
LEMMA EarlierIsFirst ==
    ASSUME Inv, NEW i \in JobIds, NEW j \in JobIds, jobs[i] \in Job, jobs[j] \in Job,
           i < j, jobs[i].created <= jobs[j].created
    PROVE  ~Earlier(j, i)
  <1>1. jobs[i].created \in Int /\ jobs[j].created \in Int
    BY BoundsAssumption DEF Job
  <1> QED
    BY <1>1 DEF Earlier

(* Standard jobs of one user with the same memory are handed out in the    *)
(* order they were submitted, whatever is claimed, cancelled, granted or   *)
(* finished in the meantime: a job that is skipped for lack of memory is   *)
(* never overtaken by one like it.                                         *)
THEOREM SameSizeJobsKeepOrder == Spec => []SameSizeInOrder
  <1> DEFINE InOrder(i, j) ==
        i < j /\ Claimed(j) /\ jobs[i].user = jobs[j].user /\ jobs[i].created <= jobs[j].created
          /\ jobs[i].grant = None /\ jobs[j].grant = None /\ jobs[i].spec.mem = jobs[j].spec.mem
        => /\ jobs[i].status = "queued" => jobs[i].cancel
           /\ jobs[i].started < jobs[j].started
  <1>1. Init => SameSizeInOrder /\ RanksGiven
    BY BoundsAssumption DEF Init, NoJob, SameSizeInOrder, RanksGiven, Claimed
  <1>2. ASSUME Inv, RanksGiven, SameSizeInOrder, [Next]_vars, NEW i \in JobIds, NEW j \in JobIds
        PROVE  InOrder(i, j)'
    <2> USE <1>2
    <2> SUFFICES ASSUME i < j, jobs'[j].started # 0, jobs'[i].user = jobs'[j].user,
                        jobs'[i].created <= jobs'[j].created,
                        jobs'[i].grant = None, jobs'[j].grant = None,
                        jobs'[i].spec.mem = jobs'[j].spec.mem
                 PROVE  /\ jobs'[i].status = "queued" => jobs'[i].cancel
                        /\ jobs'[i].started < jobs'[j].started
      BY DEF Claimed
    <2>1. InOrder(i, j)
      BY DEF SameSizeInOrder
    <2>2. \A k \in JobIds : jobs[k].started \in Int /\ jobs[k].started <= claims
      BY BoundsAssumption DEF Inv, TypeOK, Job, NoJob, RanksGiven
    <2>3. CASE jobs' = jobs
      BY <2>1, <2>3 DEF Claimed
    <2>4. ASSUME NEW r \in Requests, InsertJob(r)
          PROVE  /\ jobs'[i].status = "queued" => jobs'[i].cancel
                 /\ jobs'[i].started < jobs'[j].started
      <3>1. j # lastJob + 1 /\ jobs'[j] = jobs[j]
        BY <2>4, InsertEffect
      <3>2. j <= lastJob
        BY <3>1 DEF Inv, TablesAgree, NoJob
      <3>3. jobs'[i] = jobs[i]
        BY <2>4, <3>2, InsertEffect, BoundsAssumption DEF Inv, TypeOK
      <3> QED
        BY <2>1, <3>1, <3>3 DEF Claimed
    <2>5. ASSUME NEW k \in JobIds, jobs[k] \in Job, Rewrite(k)
          PROVE  /\ jobs'[i].status = "queued" => jobs'[i].cancel
                 /\ jobs'[i].started < jobs'[j].started
      <3>1. /\ jobs'[i].status \in Terminal \cup {jobs[i].status}
            /\ jobs[i].cancel => jobs'[i].cancel
        BY <2>5, RewriteEffect
      <3>2. \A h \in {i, j} : /\ jobs'[h].grant = jobs[h].grant
                              /\ jobs'[h].started = jobs[h].started
                              /\ jobs'[h].user = jobs[h].user
                              /\ jobs'[h].spec = jobs[h].spec
                              /\ jobs'[h].created = jobs[h].created
        BY <2>5, RewriteEffect
      <3> QED
        BY <2>1, <3>1, <3>2 DEF Claimed
    <2>6. ASSUME NEW k \in JobIds, IsNext(k), HandOut(k)
          PROVE  /\ jobs'[i].status = "queued" => jobs'[i].cancel
                 /\ jobs'[i].started < jobs'[j].started
      <3>1. /\ jobs'[k].started = claims + 1
            /\ jobs'[k].user = jobs[k].user /\ jobs'[k].spec = jobs[k].spec
            /\ jobs'[k].grant = jobs[k].grant /\ jobs'[k].created = jobs[k].created
            /\ jobs'[k].status = "compiling" /\ jobs'[k].cancel = jobs[k].cancel
            /\ \A h \in JobIds : h # k => jobs'[h] = jobs[h]
        BY <2>6, RanksStep
      <3>2. \A h \in {i, j} : jobs'[h].user = jobs[h].user /\ jobs'[h].spec = jobs[h].spec
              /\ jobs'[h].grant = jobs[h].grant /\ jobs'[h].created = jobs[h].created
        BY <3>1
      <3>3. claims \in Int
        BY BoundsAssumption DEF Inv, TypeOK
      <3>4. CASE k # i /\ k # j
        BY <2>1, <3>1, <3>4 DEF Claimed
      <3>5. CASE k = j
        <4>1. jobs'[i] = jobs[i] /\ jobs[j] \in Job
          BY <2>6, <3>1, <3>5, NextJob
        <4>2. ASSUME jobs[i].status = "queued", ~jobs[i].cancel PROVE FALSE
          <5>1. Eligible(j) /\ (\A h \in JobIds \ {j} :
                                  Eligible(h) /\ jobs[h].user = jobs[j].user => Earlier(j, h))
            BY <2>6, <3>5 DEF IsNext, HeadOfUser
          <5>2. Eligible(i)
            BY <3>2, <4>2, <5>1, SameSizeEligible
          <5>3. i # j /\ jobs[i] \in Job
            BY <4>2 DEF Inv, TypeOK, NoJob
          <5>4. Earlier(j, i)
            BY <3>2, <5>1, <5>2, <5>3
          <5>5. ~Earlier(j, i)
            BY <3>2, <4>1, <5>3, EarlierIsFirst
          <5> QED
            BY <5>4, <5>5
        <4> QED
          BY <2>2, <3>1, <3>3, <3>5, <4>1, <4>2
      <3>6. CASE k = i
        <4>1. jobs[j].started # 0
          BY <3>1, <3>6
        <4>2. Eligible(i)
          BY <2>6, <3>6 DEF IsNext, HeadOfUser
        <4> QED
          BY <2>1, <3>2, <4>1, <4>2 DEF Claimed, Eligible
      <3> QED
        BY <3>4, <3>5, <3>6
    <2> QED
      BY <2>3, <2>4, <2>5, <2>6, StepKinds DEF CreateGrant
  <1>3. ASSUME Inv, RanksGiven, SameSizeInOrder, [Next]_vars
        PROVE  SameSizeInOrder' /\ RanksGiven'
    BY <1>2, <1>3, RanksStep DEF SameSizeInOrder, Claimed
  <1> QED
    BY <1>1, <1>3, InvAlways, PTL DEF Spec

-----------------------------------------------------------------------------
(* The in-flight limit.                                                    *)

(* The limits among which LargestLimit chooses, with grants G. *)
LimitsIn(G, u) ==
    {MaxInflight} \cup
        {G[g].offer.inflight :
            g \in {h \in GrantIds : G[h].user = u /\ G[h].offer.inflight # None}}

(* A thread that has passed the check for u, or will if the limit is M. *)
Passes(q, u, M) ==
    \/ q.pc \in {"pick", "insert"} /\ q.user = u
    \/ q.pc = "limits" /\ q.user = u /\ q.count < M

Passing(R, u, M) == {r \in Requests : Passes(R[r], u, M)}

(* Below every limit M that u has or may still get: a thread that counted  *)
(* fewer than M jobs counted them when the others were not more than the   *)
(* other threads could add.                                                *)
RoomLeft ==
    \A u \in Users, M \in Nat :
        LargestLimit(u) <= M =>
            Cardinality(InflightJobs(u)) + Cardinality(Passing(reqs, u, M))
                < M + Cardinality(Requests)

(* There is a largest limit. *)
LEMMA LimitFacts ==
    ASSUME NEW G \in [GrantIds -> Grant \cup {NoGrant}], NEW u \in Users
    PROVE  /\ LimitsIn(G, u) \subseteq Nat
           /\ Max(LimitsIn(G, u)) \in LimitsIn(G, u)
           /\ \A m \in LimitsIn(G, u) : m <= Max(LimitsIn(G, u))
  <1> DEFINE S == {h \in GrantIds : G[h].user = u /\ G[h].offer.inflight # None}
             T == {G[g].offer.inflight : g \in S}
             f == [g \in GrantIds |-> G[g].offer.inflight]
  <1>1. T \subseteq Nat
    <2>1. u # None
      BY UsersAssumption, NoneAssumption
    <2>2. \A g \in S : G[g] \in Grant
      BY <2>1 DEF NoGrant
    <2>3. \A g \in S : G[g].offer \in Offers
      BY <2>2 DEF Grant
    <2>4. \A g \in S : G[g].offer.inflight \in Nat
      BY <2>3, OffersAssumption DEF Limits
    <2> QED
      BY <2>4
  <1>2. \A t \in T : \E s \in GrantIds : t = f[s]
    OBVIOUS
  <1>3. IsFiniteSet(GrantIds)
    BY FS_Interval, BoundsAssumption
  <1> HIDE DEF f
  <1>4. IsFiniteSet(T)
    BY <1>2, <1>3, ImageBound, Zenon
  <1>5. LimitsIn(G, u) = T \cup {MaxInflight}
    BY DEF LimitsIn
  <1> HIDE DEF T
  <1>6. /\ LimitsIn(G, u) \subseteq Nat /\ IsFiniteSet(LimitsIn(G, u))
        /\ LimitsIn(G, u) # {}
    BY <1>1, <1>4, <1>5, FS_AddElement, BoundsAssumption
  <1> QED
    BY <1>6, FiniteMax, Zenon

(* A limit that create_job compares with is one the user has or had. *)
LEMMA LimitIsLargest ==
    ASSUME Inv, NEW u \in Users
    PROVE  /\ LargestLimit(u) \in Nat /\ InflightLimitOf(u) \in Nat
           /\ InflightLimitOf(u) <= LargestLimit(u)
           /\ LargestLimit(u) = Max(LimitsIn(grants, u))
  <1>1. LargestLimit(u) = Max(LimitsIn(grants, u))
    BY Zenon DEF LargestLimit, LimitsIn
  <1> DEFINE V == {h \in GrantIds : /\ Valid(h, now)
                                    /\ grants[h].user = u
                                    /\ grants[h].offer.inflight # None}
             S == {MaxInflight} \cup {grants[g].offer.inflight : g \in V}
             G == [h \in GrantIds |-> IF Valid(h, now) THEN grants[h] ELSE NoGrant]
  <1>2. grants \in [GrantIds -> Grant \cup {NoGrant}]
    BY DEF Inv, TypeOK
  <1>3. S \subseteq LimitsIn(grants, u)
    BY DEF LimitsIn
  <1>4. G \in [GrantIds -> Grant \cup {NoGrant}]
    BY <1>2
  <1>5. LimitsIn(G, u) = S
    <2>1. \A h \in GrantIds : G[h].user = u /\ G[h].offer.inflight # None <=> h \in V
      <3>1. NoGrant.user # u
        BY UsersAssumption, NoneAssumption DEF NoGrant
      <3> QED
        BY <3>1
    <2>2. \A h \in V : G[h] = grants[h]
      OBVIOUS
    <2> HIDE DEF V, G
    <2>3. {h \in GrantIds : G[h].user = u /\ G[h].offer.inflight # None} = V
      BY <2>1 DEF V
    <2> QED
      BY <2>2, <2>3 DEF LimitsIn
  <1>6. Max(S) \in S
    BY <1>4, <1>5, LimitFacts
  <1>7. InflightLimitOf(u) = Max(S)
    BY Zenon DEF InflightLimitOf
  <1> QED
    BY <1>1, <1>2, <1>3, <1>6, <1>7, LimitFacts

(* A user's largest limit never shrinks. *)
LEMMA LimitGrows ==
    ASSUME Inv, [Next]_vars, NEW u \in Users
    PROVE  LargestLimit(u) <= LargestLimit(u)'
  <1>1. /\ grants \in [GrantIds -> Grant \cup {NoGrant}]
        /\ grants' \in [GrantIds -> Grant \cup {NoGrant}]
    BY NextInv DEF Inv, TypeOK
  <1>2. LargestLimit(u) = Max(LimitsIn(grants, u))
    BY LimitIsLargest
  <1>3. LargestLimit(u)' = Max(LimitsIn(grants', u))
    BY Zenon DEF LargestLimit, LimitsIn
  <1>4. LimitsIn(grants, u) \subseteq LimitsIn(grants', u)
    <2>1. u # None
      BY UsersAssumption, NoneAssumption
    <2>2. ASSUME NEW g \in GrantIds, grants[g].user = u
          PROVE  grants'[g].user = grants[g].user /\ grants'[g].offer = grants[g].offer
      <3>1. g <= lastGrant
        BY <2>1, <2>2 DEF Inv, TablesAgree, NoGrant
      <3> QED
        BY <3>1, GrantsKeepLimits
    <2> QED
      BY <2>2 DEF LimitsIn
  <1>5. \A m \in LimitsIn(grants, u) : m <= Max(LimitsIn(grants', u))
    BY <1>1, <1>4, LimitFacts
  <1>6. Max(LimitsIn(grants, u)) \in LimitsIn(grants, u)
    BY <1>1, LimitFacts
  <1> QED
    BY <1>2, <1>3, <1>5, <1>6

(* A thread comes to pass the check for u only by counting its jobs. *)
LEMMA PassedBefore ==
    ASSUME Inv, [Next]_vars, NEW u \in Users, NEW M \in Nat, LargestLimit(u) <= M,
           NEW r \in Requests, Passes(reqs'[r], u, M)
    PROVE  \/ Passes(reqs[r], u, M)
           \/ Cardinality(InflightJobs(u)) < M /\ UNCHANGED storeVars
  <1>1. CASE reqs'[r] = reqs[r]
    BY <1>1
  <1>2. ASSUME NEW t \in Requests, Handler(t), t # r PROVE reqs'[r] = reqs[r]
    BY <1>2 DEF Handler, CountInflight, CheckLimits, PickGrant, InsertJob, CancelJob,
               CancelJobAdmin, CancelRead, WriteCancelQueued, WriteCancelActive, Inv, TypeOK
  <1>3. ASSUME NEW v \in Users, NEW p \in Payloads, CountInflight(r, v, p)
        PROVE  Cardinality(InflightJobs(u)) < M /\ UNCHANGED storeVars
    <2>1. reqs'[r] = [pc |-> "limits", user |-> v, spec |-> p,
                      count |-> Cardinality(InflightJobs(v))]
      BY <1>3 DEF CountInflight, Inv, TypeOK
    <2>2. v = u /\ Cardinality(InflightJobs(v)) < M
      BY <2>1 DEF Passes
    <2> QED
      BY <1>3, <2>2 DEF CountInflight
  <1>4. CASE CheckLimits(r)
    <2>1. PICK q : q = reqs[r]
      OBVIOUS
    <2>2. /\ q.pc = "limits"
          /\ reqs'[r] = IF q.count >= InflightLimitOf(q.user) THEN Idle ELSE AfterLimits(q)
      BY <1>4, <2>1 DEF CheckLimits, Inv, TypeOK
    <2>3. q \in Request
      BY <2>1 DEF Inv, TypeOK
    <2>4. q.count \in Int /\ q.user \in Users
      BY <2>2, <2>3, BoundsAssumption DEF Request, Idle
    <2>5. ~Passes(Idle, u, M)
      BY DEF Passes, Idle
    <2>6. ~(q.count >= InflightLimitOf(q.user)) /\ reqs'[r] = AfterLimits(q)
      BY <2>2, <2>5
    <2>7. AfterLimits(q).user = q.user
      BY DEF AfterLimits
    <2>8. AfterLimits(q).pc \in {"insert", "pick"}
      BY DEF AfterLimits
    <2>9. q.user = u
      BY <2>6, <2>7, <2>8 DEF Passes
    <2>10. q.count < M
      BY <2>4, <2>6, <2>9, LimitIsLargest
    <2> QED
      BY <2>1, <2>2, <2>9, <2>10 DEF Passes
  <1>5. CASE PickGrant(r)
    <2>1. PICK q : q = reqs[r]
      OBVIOUS
    <2>2. /\ q.pc = "pick"
          /\ \/ reqs'[r] = Idle
             \/ \E g \in GrantIds :
                  reqs'[r] = [pc |-> "insert", user |-> q.user, spec |-> q.spec,
                              grant |-> g, since |-> now]
      BY <1>5, <2>1 DEF PickGrant, Inv, TypeOK
    <2>3. ~Passes(Idle, u, M)
      BY DEF Passes, Idle
    <2>4. reqs'[r] # Idle
      BY <2>3, Zenon
    <2>5. PICK g \in GrantIds :
             reqs'[r] = [pc |-> "insert", user |-> q.user, spec |-> q.spec,
                         grant |-> g, since |-> now]
      BY <2>2, <2>4
    <2>6. reqs'[r].user = q.user /\ reqs'[r].pc = "insert"
      BY <2>5
    <2> QED
      BY <2>1, <2>2, <2>6 DEF Passes
  <1>6. ASSUME NEW j \in JobIds, CancelRead(r, j) PROVE FALSE
    BY <1>6 DEF CancelRead, Inv, TypeOK, Passes
  <1>7. ASSUME InsertJob(r) \/ WriteCancelQueued(r) \/ WriteCancelActive(r) PROVE FALSE
    BY <1>7 DEF InsertJob, WriteCancelQueued, WriteCancelActive, Idle, Inv, TypeOK, Passes
  <1>8. CASE Handler(r)
    BY <1>3, <1>4, <1>5, <1>6, <1>7, <1>8 DEF Handler, CancelJob, CancelJobAdmin
  <1>9. CASE \E t \in Requests : Handler(t)
    BY <1>1, <1>2, <1>8, <1>9
  <1>10. ASSUME ~(\E t \in Requests : Handler(t)) PROVE reqs' = reqs
    BY <1>10 DEF Next, ControlPlane, CreateGrant, Tick, ClaimNextJob, ClaimJob, WorkerReport,
                FinishJob, MarkJobSystemError, vars
  <1> QED
    BY <1>1, <1>9, <1>10

(* A job comes into flight only by being inserted. *)
LEMMA InflightBefore ==
    ASSUME Inv, RanksGiven, [Next]_vars, ~\E r \in Requests : InsertJob(r), NEW u \in Users
    PROVE  InflightJobs(u)' \subseteq InflightJobs(u)
  <1>1. ASSUME NEW j \in JobIds, jobs[j] \in Job, Rewrite(j)
        PROVE  \A i \in JobIds : jobs'[i].user = jobs[i].user
                                 /\ jobs'[i].status \in Terminal \cup {jobs[i].status}
    BY <1>1, RewriteEffect
  <1>2. ASSUME NEW j \in JobIds, IsNext(j), HandOut(j)
        PROVE  \A i \in JobIds : jobs'[i].user = jobs[i].user
                                 /\ (jobs'[i].status = jobs[i].status \/ jobs[i].status = "queued")
    BY <1>2, RanksStep, NextJob
  <1> QED
    BY <1>1, <1>2, StepKinds DEF InflightJobs, CreateGrant

(* Counting the threads. *)
LEMMA PassingFinite ==
    ASSUME NEW S, S \subseteq Requests
    PROVE  /\ IsFiniteSet(S) /\ Cardinality(S) \in Nat
           /\ Cardinality(Requests) \in Nat \ {0}
           /\ Cardinality(S) <= Cardinality(Requests)
  BY RequestsAssumption, FS_Subset, FS_CardinalityType, FS_EmptySet

(* The room below the limits is kept. *)
LEMMA RoomStep ==
    ASSUME Inv, RanksGiven, RoomLeft, [Next]_vars
    PROVE  RoomLeft'
  <1> SUFFICES ASSUME NEW u \in Users, NEW M \in Nat, LargestLimit(u)' <= M
               PROVE  Cardinality(InflightJobs(u)') + Cardinality(Passing(reqs', u, M))
                        < M + Cardinality(Requests)
    BY DEF RoomLeft
  <1> DEFINE I == InflightJobs(u)
             J == InflightJobs(u)'
             P == Passing(reqs, u, M)
             Q == Passing(reqs', u, M)
  <1>1. Inv'
    BY NextInv
  <1>2. LargestLimit(u) \in Nat /\ LargestLimit(u)' \in Nat /\ LargestLimit(u) <= M
    <2>1. LargestLimit(u) \in Nat /\ LargestLimit(u) <= LargestLimit(u)'
      BY LimitIsLargest, LimitGrows
    <2>2. grants' \in [GrantIds -> Grant \cup {NoGrant}]
      BY <1>1 DEF Inv, TypeOK
    <2>3. LargestLimit(u)' = Max(LimitsIn(grants', u))
      BY Zenon DEF LargestLimit, LimitsIn
    <2>4. LargestLimit(u)' \in Nat
      BY <2>2, <2>3, LimitFacts
    <2> QED
      BY <2>1, <2>4
  <1>3. /\ I \subseteq JobIds /\ J \subseteq JobIds
        /\ P \subseteq Requests /\ Q \subseteq Requests
    BY DEF InflightJobs, Passing
  <1>4. IsFiniteSet(I) /\ IsFiniteSet(J) /\ Cardinality(I) \in Nat /\ Cardinality(J) \in Nat
    <2>1. IsFiniteSet(I) /\ IsFiniteSet(J)
      BY <1>3, JobSetFinite
    <2> QED
      BY <2>1, FS_CardinalityType
  <1>5. /\ IsFiniteSet(P) /\ IsFiniteSet(Q) /\ Cardinality(P) \in Nat /\ Cardinality(Q) \in Nat
        /\ Cardinality(Requests) \in Nat /\ Cardinality(Q) <= Cardinality(Requests)
    BY <1>3, PassingFinite
  <1>6. Cardinality(I) + Cardinality(P) < M + Cardinality(Requests)
    BY <1>2 DEF RoomLeft
  <1>7. CASE Cardinality(I) < M /\ UNCHANGED storeVars
    <2>1. J = I
      BY <1>7 DEF InflightJobs, storeVars
    <2> QED
      BY <1>4, <1>5, <1>7, <2>1
  <1>8. CASE ~(Cardinality(I) < M /\ UNCHANGED storeVars)
    <2>1. Q \subseteq P
      BY <1>2, <1>8, PassedBefore DEF Passing
    <2>2. CASE ~\E r \in Requests : InsertJob(r)
      <3>1. J \subseteq I
        BY <2>2, InflightBefore
      <3>2. Cardinality(J) <= Cardinality(I) /\ Cardinality(Q) <= Cardinality(P)
        BY <1>4, <1>5, <2>1, <3>1, FS_Subset
      <3> QED
        BY <1>4, <1>5, <1>6, <3>2
    <2>3. ASSUME NEW r \in Requests, InsertJob(r), reqs[r].user # u
          PROVE  Cardinality(J) + Cardinality(Q) < M + Cardinality(Requests)
      <3>1. J \subseteq I
        BY <2>3, InsertEffect DEF InflightJobs
      <3>2. Cardinality(J) <= Cardinality(I) /\ Cardinality(Q) <= Cardinality(P)
        BY <1>4, <1>5, <2>1, <3>1, FS_Subset
      <3> QED
        BY <1>4, <1>5, <1>6, <3>2
    <2>4. ASSUME NEW r \in Requests, InsertJob(r), reqs[r].user = u
          PROVE  Cardinality(J) + Cardinality(Q) < M + Cardinality(Requests)
      <3>1. J \subseteq I \cup {lastJob + 1}
        BY <2>4, InsertEffect DEF InflightJobs
      <3>2. Cardinality(J) <= Cardinality(I) + 1
        <4>1. /\ IsFiniteSet(I \cup {lastJob + 1})
              /\ Cardinality(I \cup {lastJob + 1}) <= Cardinality(I) + 1
          BY <1>4, FS_AddElement
        <4>2. Cardinality(J) <= Cardinality(I \cup {lastJob + 1})
              /\ Cardinality(I \cup {lastJob + 1}) \in Nat
          BY <3>1, <4>1, FS_Subset, FS_CardinalityType
        <4> QED
          BY <1>4, <4>1, <4>2
      <3>3. r \in P /\ r \notin Q
        <4>1. reqs[r].pc = "insert"
          BY <2>4 DEF InsertJob
        <4>2. reqs'[r] = Idle
          BY <2>4 DEF InsertJob, Inv, TypeOK
        <4> QED
          BY <2>4, <4>1, <4>2 DEF Passing, Passes, Idle
      <3>4. Cardinality(Q) <= Cardinality(P) - 1
        <4>1. Q \subseteq P \ {r}
          BY <2>1, <3>3
        <4>2. IsFiniteSet(P \ {r}) /\ Cardinality(P \ {r}) = Cardinality(P) - 1
          BY <1>5, <3>3, FS_RemoveElement
        <4> QED
          BY <4>1, <4>2, FS_Subset
      <3> HIDE DEF I, J, P, Q
      <3> QED
        BY <1>4, <1>5, <1>6, <3>2, <3>4
    <2> QED
      BY <2>2, <2>3, <2>4
  <1> QED
    BY <1>7, <1>8

(* create_job counts in one transaction and inserts in another, and yet    *)
(* the jobs in flight with those about to be inserted exceed the largest   *)
(* limit the user ever had by less than the number of threads.             *)
THEOREM OvershootBounded == Spec => []OvershootIsBounded
  <1>1. Init => RanksGiven /\ RoomLeft
    <2> SUFFICES ASSUME Init PROVE RanksGiven /\ RoomLeft
      OBVIOUS
    <2>1. RanksGiven
      BY DEF Init, NoJob, RanksGiven
    <2>2. ASSUME NEW u \in Users, NEW M \in Nat
          PROVE  Cardinality(InflightJobs(u)) + Cardinality(Passing(reqs, u, M))
                   < M + Cardinality(Requests)
      <3>1. InflightJobs(u) = {} /\ Passing(reqs, u, M) = {}
        BY DEF Init, NoJob, InflightJobs, Passing, Passes, Idle
      <3>2. Cardinality(Requests) \in Nat \ {0}
        BY PassingFinite
      <3> QED
        BY <3>1, <3>2, FS_EmptySet
    <2> QED
      BY <2>1, <2>2 DEF RoomLeft
  <1>2. ASSUME Inv, RanksGiven, RoomLeft, [Next]_vars
        PROVE  RanksGiven' /\ RoomLeft'
    BY <1>2, RanksStep, RoomStep
  <1>3. ASSUME Inv, RoomLeft PROVE OvershootIsBounded
    <2> SUFFICES ASSUME NEW u \in Users
                 PROVE  Cardinality(InflightJobs(u)) + Cardinality(Admitted(u))
                          < LargestLimit(u) + Cardinality(Requests)
      BY DEF OvershootIsBounded
    <2>1. PICK M \in Nat : M = LargestLimit(u)
      BY <1>3, LimitIsLargest
    <2>2. Cardinality(InflightJobs(u)) + Cardinality(Passing(reqs, u, M))
            < M + Cardinality(Requests)
      BY <1>3, <2>1 DEF RoomLeft
    <2>3. Admitted(u) \subseteq Passing(reqs, u, M) /\ Passing(reqs, u, M) \subseteq Requests
      BY DEF Admitted, Passing, Passes
    <2>4. /\ Cardinality(Admitted(u)) <= Cardinality(Passing(reqs, u, M))
          /\ Cardinality(Admitted(u)) \in Nat /\ Cardinality(Passing(reqs, u, M)) \in Nat
          /\ Cardinality(Requests) \in Nat
      <3>1. Admitted(u) \subseteq Requests
        BY <2>3
      <3> QED
        BY <2>3, <3>1, PassingFinite, FS_Subset
    <2>5. Cardinality(InflightJobs(u)) \in Nat
      BY JobSetFinite, BoundsAssumption DEF InflightJobs
    <2> QED
      BY <2>1, <2>2, <2>4, <2>5
  <1> QED
    BY <1>1, <1>2, <1>3, InvAlways, PTL DEF Spec

-----------------------------------------------------------------------------
(* Sums over finite sets.                                                  *)

Chosen(s) == CHOOSE x \in s : TRUE

(* f is the function by which MapThenSumSet adds up w over the subsets of S. *)
Adds(f, w, S) ==
    f = [s \in SUBSET S |->
           IF s = {} THEN 0
             ELSE w[Chosen(s)] + f[s \ {Chosen(s)}]]

Total(w, S) == MapThenSumSet(LAMBDA i : w[i], S)

(* The sum over the empty set. *)
LEMMA AddsNothing ==
    ASSUME NEW w, NEW S, NEW f, Adds(f, w, S)
    PROVE  f[{}] = 0
  <1>1. {} \in SUBSET S
    OBVIOUS
  <1> QED
    BY <1>1 DEF Adds

(* The sum over a subset that is not empty takes one element apart. *)
LEMMA AddsOne ==
    ASSUME NEW w, NEW S, NEW f, Adds(f, w, S), NEW U, U \subseteq S, U # {}
    PROVE  Chosen(U) \in U /\ f[U] = w[Chosen(U)] + f[U \ {Chosen(U)}]
  <1>1. f[U] = IF U = {} THEN 0 ELSE w[Chosen(U)] + f[U \ {Chosen(U)}]
    <2>1. U \in SUBSET S
      OBVIOUS
    <2> QED
      BY <2>1, Zenon DEF Adds
  <1>2. Chosen(U) \in U
    BY Zenon DEF Chosen
  <1> QED
    BY <1>1, <1>2

(* Two such functions agree where both are defined. *)
LEMMA AddsAgree ==
    ASSUME NEW w, NEW S, NEW T, NEW f, NEW g, Adds(f, w, S), Adds(g, w, T),
           NEW U, U \subseteq S, U \subseteq T, IsFiniteSet(U)
    PROVE  f[U] = g[U]
  <1> DEFINE Bad(k) == \E V : /\ V \subseteq S /\ V \subseteq T /\ IsFiniteSet(V)
                              /\ Cardinality(V) = k /\ f[V] # g[V]
             K == {k \in Nat : Bad(k)}
  <1>1. K = {}
    <2> SUFFICES ASSUME K # {} PROVE FALSE
      OBVIOUS
    <2>1. PICK k \in K : \A i \in K : k <= i
      BY LeastNat
    <2>2. PICK V : /\ V \subseteq S /\ V \subseteq T /\ IsFiniteSet(V)
                   /\ Cardinality(V) = k /\ f[V] # g[V]
      BY <2>1
    <2>0. V \subseteq S /\ V \subseteq T
      BY <2>2
    <2>3. V # {}
      BY <2>2, AddsNothing
    <2>4. /\ Chosen(V) \in V /\ f[V] = w[Chosen(V)] + f[V \ {Chosen(V)}]
          /\ g[V] = w[Chosen(V)] + g[V \ {Chosen(V)}]
      BY <2>0, <2>3, AddsOne, SMT
    <2>5. PICK x \in V : f[V] = w[x] + f[V \ {x}] /\ g[V] = w[x] + g[V \ {x}]
      BY <2>4
    <2>6. IsFiniteSet(V \ {x}) /\ Cardinality(V \ {x}) = k - 1 /\ k - 1 \in Nat
      <3>1. IsFiniteSet(V) /\ Cardinality(V) = k
        BY <2>2
      <3>2. IsFiniteSet(V \ {x}) /\ Cardinality(V \ {x}) = Cardinality(V) - 1
        BY <2>5, <3>1, FS_RemoveElement
      <3>3. Cardinality(V \ {x}) \in Nat
        BY <3>2, FS_CardinalityType
      <3> QED
        BY <3>1, <3>2, <3>3
    <2>7. f[V \ {x}] = g[V \ {x}]
      <3> SUFFICES ASSUME f[V \ {x}] # g[V \ {x}] PROVE FALSE
        OBVIOUS
      <3>1. V \ {x} \subseteq S /\ V \ {x} \subseteq T
        BY <2>2
      <3>2. k - 1 \in K
        BY <2>6, <3>1
      <3> QED
        BY <2>1, <2>6, <3>2
    <2> QED
      BY <2>2, <2>5, <2>7
  <1>2. Cardinality(U) \in Nat
    BY FS_CardinalityType
  <1> QED
    BY <1>1, <1>2

(* There is such a function over every finite set. *)
LEMMA AddsExists ==
    ASSUME NEW w, NEW S, IsFiniteSet(S)
    PROVE  \E f : Adds(f, w, S)
  <1> DEFINE Bad(k) == \E V : /\ IsFiniteSet(V) /\ Cardinality(V) = k
                              /\ ~\E f : Adds(f, w, V)
             K == {k \in Nat : Bad(k)}
  <1>1. K = {}
    <2> SUFFICES ASSUME K # {} PROVE FALSE
      OBVIOUS
    <2>1. PICK k \in K : \A i \in K : k <= i
      BY LeastNat
    <2>2. PICK V : IsFiniteSet(V) /\ Cardinality(V) = k /\ ~\E f : Adds(f, w, V)
      BY <2>1
    <2> DEFINE F(U) == CHOOSE f : Adds(f, w, U)
               v(s) == IF s = {} THEN 0 ELSE w[Chosen(s)] + F(s \ {Chosen(s)})[s \ {Chosen(s)}]
               h == [s \in SUBSET V |-> v(s)]
    <2>3. ASSUME NEW s, s \subseteq V, s # {}
          PROVE  /\ Chosen(s) \in s /\ IsFiniteSet(s \ {Chosen(s)})
                 /\ Adds(F(s \ {Chosen(s)}), w, s \ {Chosen(s)})
      <3>1. PICK x : x = Chosen(s)
        OBVIOUS
      <3>2. x \in s
        BY <2>3, <3>1, Zenon DEF Chosen
      <3>3. /\ IsFiniteSet(s) /\ Cardinality(s) <= k
            /\ IsFiniteSet(s \ {x}) /\ Cardinality(s \ {x}) = Cardinality(s) - 1
            /\ Cardinality(s) \in Nat /\ Cardinality(s \ {x}) \in Nat
        BY <2>2, <2>3, <3>2, FS_Subset, FS_RemoveElement, FS_CardinalityType
      <3>4. \E f : Adds(f, w, s \ {x})
        <4> SUFFICES ASSUME ~\E f : Adds(f, w, s \ {x}) PROVE FALSE
          OBVIOUS
        <4>1. Cardinality(s \ {x}) \in K
          BY <3>3
        <4> QED
          BY <2>1, <3>3, <4>1
      <3>5. Adds(F(s \ {x}), w, s \ {x})
        BY <3>4, Zenon
      <3> QED
        BY <3>1, <3>2, <3>3, <3>5
    <2>4. ASSUME NEW s, s \subseteq V, s # {}, NEW t, t = s \ {Chosen(s)}
          PROVE  v(t) = F(t)[t]
      <3>1. Adds(F(t), w, t) /\ t \subseteq V
        BY <2>3, <2>4
      <3>2. CASE t = {}
        BY <3>1, <3>2, AddsNothing
      <3>3. CASE t # {}
        <4>0. PICK f : f = F(t)
          OBVIOUS
        <4>4. Adds(f, w, t)
          BY <3>1, <4>0
        <4>5. Chosen(t) \in t /\ f[t] = w[Chosen(t)] + f[t \ {Chosen(t)}]
          BY <3>3, <4>4, AddsOne, SMT
        <4>1. PICK x : x = Chosen(t) /\ x \in t /\ f[t] = w[x] + f[t \ {x}]
          BY <4>5
        <4>2. /\ IsFiniteSet(t \ {x}) /\ Adds(F(t \ {x}), w, t \ {x})
          BY <2>3, <3>1, <3>3, <4>1
        <4>3. F(t \ {x})[t \ {x}] = f[t \ {x}]
          <5>1. t \ {x} \subseteq t
            OBVIOUS
          <5> HIDE DEF F
          <5> QED
            BY <4>2, <4>4, <5>1, AddsAgree
        <4> QED
          BY <3>3, <4>0, <4>1, <4>3
      <3> QED
        BY <3>2, <3>3
    <2>5. Adds(h, w, V)
      <3> HIDE DEF F
      <3>1. ASSUME NEW s \in SUBSET V, s # {}
            PROVE  h[s \ {Chosen(s)}] = F(s \ {Chosen(s)})[s \ {Chosen(s)}]
        <4>1. s \ {Chosen(s)} \in SUBSET V
          OBVIOUS
        <4>2. v(s \ {Chosen(s)}) = F(s \ {Chosen(s)})[s \ {Chosen(s)}]
          BY <2>4, <3>1, Zenon
        <4> QED
          BY <4>1, <4>2, Zenon
      <3>2. \A s \in SUBSET V : s # {} => h[s] = w[Chosen(s)] + h[s \ {Chosen(s)}]
        BY <3>1
      <3>3. \A s \in SUBSET V : h[s] = IF s = {} THEN 0 ELSE w[Chosen(s)] + h[s \ {Chosen(s)}]
        BY <3>2
      <3>4. h = [s \in SUBSET V |-> h[s]]
        OBVIOUS
      <3> HIDE DEF h
      <3> QED
        BY <3>3, <3>4 DEF Adds
    <2> QED
      BY <2>2, <2>5
  <1>2. Cardinality(S) \in Nat
    BY FS_CardinalityType
  <1> QED
    BY <1>1, <1>2

(* MapThenSumSet is such a function's value at the whole set. *)
LEMMA Unfold ==
    ASSUME NEW w, NEW S, IsFiniteSet(S)
    PROVE  \E g : Adds(g, w, S) /\ Total(w, S) = g[S]
  <1> DEFINE g == CHOOSE h : Adds(h, w, S)
  <1>1. Adds(g, w, S)
    BY AddsExists, Zenon
  <1>2. Total(w, S) = g[S]
    BY DEF Total, MapThenSumSet, MapThenFoldSet, Adds, Chosen
  <1> QED
    BY <1>1, <1>2

(* The sum of naturals is taken in any order. *)
LEMMA TotalParts ==
    ASSUME NEW w, NEW S, IsFiniteSet(S), \A i \in S : w[i] \in Nat
    PROVE  /\ Total(w, {}) = 0
           /\ \A U \in SUBSET S : Total(w, U) \in Nat
           /\ \A U \in SUBSET S : \A x \in U : Total(w, U) = w[x] + Total(w, U \ {x})
  <1>1. Total(w, {}) = 0
    <2>1. PICK g : Adds(g, w, {}) /\ Total(w, {}) = g[{}]
      BY Unfold, FS_EmptySet
    <2> QED
      BY <2>1, AddsNothing
  <1>2. \A U \in SUBSET S : IsFiniteSet(U) /\ Cardinality(U) \in Nat
    BY FS_Subset, FS_CardinalityType
  <1>3. ASSUME NEW U \in SUBSET S, U # {}
        PROVE  \E x \in U : Total(w, U) = w[x] + Total(w, U \ {x})
    <2>1. PICK f : Adds(f, w, U) /\ Total(w, U) = f[U]
      BY <1>2, Unfold
    <2>2. Chosen(U) \in U /\ f[U] = w[Chosen(U)] + f[U \ {Chosen(U)}]
      <3>1. U \subseteq U /\ Adds(f, w, U)
        BY <2>1
      <3> QED
        BY <1>3, <3>1, AddsOne, SMT
    <2>3. PICK x \in U : f[U] = w[x] + f[U \ {x}]
      BY <2>2
    <2>4. IsFiniteSet(U \ {x}) /\ U \ {x} \subseteq U /\ U \ {x} \subseteq U \ {x}
      BY <1>2
    <2>5. PICK g : Adds(g, w, U \ {x}) /\ Total(w, U \ {x}) = g[U \ {x}]
      BY <2>4, Unfold
    <2>6. f[U \ {x}] = g[U \ {x}]
      BY <2>1, <2>4, <2>5, AddsAgree
    <2> QED
      BY <2>1, <2>3, <2>5, <2>6
  <1> DEFINE T(U) == Total(w, U)
  <1>4. ASSUME NEW U \in SUBSET S, NEW x \in U
        PROVE  /\ U \ {x} \in SUBSET S
               /\ Cardinality(U \ {x}) = Cardinality(U) - 1
    BY <1>2, FS_RemoveElement
  <1> HIDE DEF T
  <1>5. \A U \in SUBSET S : U # {} => \E x \in U : T(U) = w[x] + T(U \ {x})
    BY <1>3 DEF T
  <1>6. T({}) = 0
    BY <1>1 DEF T
  <1>7. \A U \in SUBSET S : T(U) \in Nat
    <2> DEFINE K == {k \in Nat : \E U \in SUBSET S : Cardinality(U) = k /\ T(U) \notin Nat}
    <2>1. K = {}
      <3> SUFFICES ASSUME K # {} PROVE FALSE
        OBVIOUS
      <3>1. PICK k \in K : \A i \in K : k <= i
        BY LeastNat
      <3>2. PICK U \in SUBSET S : Cardinality(U) = k /\ T(U) \notin Nat
        BY <3>1
      <3>3. PICK x \in U : T(U) = w[x] + T(U \ {x})
        <4>1. U # {}
          BY <1>6, <3>2
        <4> QED
          BY <1>5, <4>1, Zenon
      <3>4. U \ {x} \in SUBSET S /\ Cardinality(U \ {x}) = k - 1 /\ k - 1 \in Nat
        <4>1. U \ {x} \in SUBSET S /\ Cardinality(U \ {x}) = Cardinality(U) - 1
          BY <1>4
        <4>2. Cardinality(U \ {x}) \in Nat
          BY <1>2, <4>1
        <4> QED
          BY <3>2, <4>1, <4>2
      <3>5. T(U \ {x}) \in Nat
        <4> SUFFICES ASSUME T(U \ {x}) \notin Nat PROVE FALSE
          OBVIOUS
        <4>1. k - 1 \in K
          BY <3>4
        <4> QED
          BY <3>1, <3>4, <4>1
      <3>6. w[x] \in Nat
        OBVIOUS
      <3> QED
        BY <3>2, <3>3, <3>5, <3>6
    <2> QED
      BY <1>2, <2>1
  <1>8. \A U \in SUBSET S : \A y \in U : T(U) = w[y] + T(U \ {y})
    <2> DEFINE Wrong(U) == \E y \in U : T(U) # w[y] + T(U \ {y})
               K == {k \in Nat : \E U \in SUBSET S : Cardinality(U) = k /\ Wrong(U)}
    <2>1. K = {}
      <3> SUFFICES ASSUME K # {} PROVE FALSE
        OBVIOUS
      <3>1. PICK k \in K : \A i \in K : k <= i
        BY LeastNat
      <3>2. PICK U \in SUBSET S : Cardinality(U) = k /\ Wrong(U)
        BY <3>1
      <3>3. PICK y \in U : T(U) # w[y] + T(U \ {y})
        BY <3>2
      <3>4. PICK x \in U : T(U) = w[x] + T(U \ {x})
        BY <1>5, <3>3
      <3>5. y # x
        BY <3>3, <3>4
      <3> DEFINE X == U \ {x}
                 Y == U \ {y}
                 Z == (U \ {x}) \ {y}
      <3>6. /\ X \in SUBSET S /\ Cardinality(X) = k - 1
            /\ Y \in SUBSET S /\ Cardinality(Y) = k - 1 /\ k - 1 \in Nat
        BY <1>2, <1>4, <3>2
      <3>7. ~Wrong(X) /\ ~Wrong(Y)
        <4> SUFFICES ASSUME Wrong(X) \/ Wrong(Y) PROVE FALSE
          OBVIOUS
        <4>1. k - 1 \in K
          BY <3>6
        <4> QED
          BY <3>1, <3>6, <4>1
      <3>8. T(X) = w[y] + T(Z)
        <4>1. y \in X
          BY <3>5
        <4> QED
          BY <3>7, <4>1
      <3>9. T(Y) = w[x] + T(Z)
        <4>1. x \in Y /\ Y \ {x} = Z
          BY <3>5
        <4> QED
          BY <3>7, <4>1
      <3>10. T(X) \in Nat /\ T(Y) \in Nat /\ T(Z) \in Nat /\ w[x] \in Nat /\ w[y] \in Nat
        BY <1>7
      <3>11. T(U) = w[x] + T(X) /\ T(U) # w[y] + T(Y)
        BY <3>3, <3>4
      <3> HIDE DEF X, Y, Z
      <3> QED
        BY <3>8, <3>9, <3>10, <3>11
    <2> QED
      BY <1>2, <2>1
  <1> QED
    BY <1>6, <1>7, <1>8 DEF T

(* The sum over a part is not more than the sum over the whole.            *)
LEMMA TotalPart ==
    ASSUME NEW w, NEW S, IsFiniteSet(S), \A i \in S : w[i] \in Nat, NEW P, P \subseteq S
    PROVE  Total(w, P) <= Total(w, S)
  <1> DEFINE T(U) == Total(w, U)
             Wrong(U) == P \subseteq U /\ ~(T(P) <= T(U))
             K == {k \in Nat : \E U \in SUBSET S : Cardinality(U) = k /\ Wrong(U)}
  <1>1. \A U \in SUBSET S : IsFiniteSet(U) /\ Cardinality(U) \in Nat
    BY FS_Subset, FS_CardinalityType
  <1> HIDE DEF T
  <1>2. /\ \A U \in SUBSET S : T(U) \in Nat
        /\ \A U \in SUBSET S : \A x \in U : T(U) = w[x] + T(U \ {x})
    BY TotalParts DEF T
  <1>3. K = {}
    <2> SUFFICES ASSUME K # {} PROVE FALSE
      OBVIOUS
    <2>1. PICK k \in K : \A i \in K : k <= i
      BY LeastNat
    <2>2. PICK U \in SUBSET S : Cardinality(U) = k /\ Wrong(U)
      BY <2>1
    <2>3. T(P) \in Nat /\ T(U) \in Nat
      BY <1>2
    <2>4. PICK x \in U : x \notin P
      BY <2>2, <2>3
    <2>5. IsFiniteSet(U) /\ Cardinality(U) \in Nat
      BY <1>1
    <2>6. U \ {x} \in SUBSET S /\ Cardinality(U \ {x}) = Cardinality(U) - 1
      BY <2>4, <2>5, FS_RemoveElement
    <2>7. Cardinality(U \ {x}) \in Nat
      BY <1>1, <2>6
    <2>8. T(P) <= T(U \ {x})
      <3> SUFFICES ASSUME ~(T(P) <= T(U \ {x})) PROVE FALSE
        OBVIOUS
      <3>1. Wrong(U \ {x})
        BY <2>2, <2>4
      <3>2. Cardinality(U \ {x}) \in K
        BY <2>6, <2>7, <3>1
      <3> QED
        BY <2>1, <2>2, <2>5, <2>6, <2>7, <3>2
    <2>9. T(U) = w[x] + T(U \ {x}) /\ w[x] \in Nat /\ T(U \ {x}) \in Nat
      BY <1>2, <2>6
    <2> QED
      BY <2>2, <2>3, <2>8, <2>9
  <1>4. ~Wrong(S)
    BY <1>1, <1>3
  <1> QED
    BY <1>4 DEF T

-----------------------------------------------------------------------------
(* Reserved memory.                                                        *)

(* The memory declared by the jobs of S in the table J. *)
Declared(J, S) == MapThenSumSet(LAMBDA i : J[i].spec.mem, S)

(* It is the sum of the numbers that S declares. *)
LEMMA DeclaredIsTotal ==
    ASSUME NEW J, NEW S, IsFiniteSet(S), NEW w, \A i \in S : w[i] = J[i].spec.mem
    PROVE  Declared(J, S) = Total(w, S)
  <1> DEFINE Sums(f) == f = [s \in SUBSET S |->
                               IF s = {} THEN 0
                                 ELSE J[Chosen(s)].spec.mem + f[s \ {Chosen(s)}]]
  <1>1. \A s \in SUBSET S : s # {} => Chosen(s) \in s
    BY Zenon DEF Chosen
  <1>2. ASSUME NEW f PROVE Sums(f) <=> Adds(f, w, S)
    <2>1. [s \in SUBSET S |-> IF s = {} THEN 0
                                ELSE J[Chosen(s)].spec.mem + f[s \ {Chosen(s)}]]
            = [s \in SUBSET S |-> IF s = {} THEN 0
                                ELSE w[Chosen(s)] + f[s \ {Chosen(s)}]]
      BY <1>1
    <2> QED
      BY <2>1 DEF Adds
  <1>3. PICK f : Adds(f, w, S)
    BY AddsExists
  <1>4. Sums(CHOOSE g : Sums(g))
    <2>1. Sums(f)
      BY <1>2, <1>3, Zenon
    <2> HIDE DEF Sums
    <2> QED
      BY <2>1, Zenon
  <1>5. Declared(J, S) = (CHOOSE g : Sums(g))[S]
    BY DEF Declared, MapThenSumSet, MapThenFoldSet, Chosen
  <1>6. PICK g : Sums(g) /\ Declared(J, S) = g[S]
    BY <1>4, <1>5, Zenon
  <1>7. Adds(g, w, S)
    BY <1>2, <1>6, Zenon
  <1>8. PICK h : Adds(h, w, S) /\ Total(w, S) = h[S]
    BY Unfold
  <1>9. g[S] = h[S]
    BY <1>7, <1>8, AddsAgree
  <1> QED
    BY <1>6, <1>8, <1>9

(* The memory of fewer jobs is not more. *)
LEMMA DeclaredPart ==
    ASSUME NEW J, NEW K, NEW S, NEW P, IsFiniteSet(S), P \subseteq S,
           \A i \in S : J[i].spec.mem \in Nat,
           \A i \in P : K[i].spec.mem = J[i].spec.mem
    PROVE  /\ Declared(K, P) <= Declared(J, S)
           /\ Declared(K, P) \in Nat /\ Declared(J, S) \in Nat
  <1>1. PICK w : \A i \in S : w[i] = J[i].spec.mem
    <2>1. \A i \in S : [x \in S |-> J[x].spec.mem][i] = J[i].spec.mem
      OBVIOUS
    <2> QED
      BY <2>1, Zenon
  <1>2. \A i \in S : w[i] \in Nat
    BY <1>1
  <1>3. \A i \in P : w[i] = K[i].spec.mem
    BY <1>1
  <1>4. IsFiniteSet(P)
    BY FS_Subset
  <1>5. Declared(J, S) = Total(w, S)
    BY <1>1, DeclaredIsTotal, Zenon
  <1>6. Declared(K, P) = Total(w, P)
    BY <1>3, <1>4, DeclaredIsTotal, Zenon
  <1>7. Total(w, P) <= Total(w, S)
    BY <1>2, TotalPart, Zenon
  <1>8. \A U \in SUBSET S : Total(w, U) \in Nat
    BY <1>2, TotalParts
  <1> QED
    BY <1>5, <1>6, <1>7, <1>8

(* The memory of one more job. *)
LEMMA DeclaredOneMore ==
    ASSUME NEW J, NEW S, IsFiniteSet(S), \A i \in S : J[i].spec.mem \in Nat
    PROVE  \A k \in S : Declared(J, S) = J[k].spec.mem + Declared(J, S \ {k})
  <1> SUFFICES ASSUME NEW k \in S
               PROVE  Declared(J, S) = J[k].spec.mem + Declared(J, S \ {k})
    OBVIOUS
  <1>1. PICK w : \A i \in S : w[i] = J[i].spec.mem
    <2>1. \A i \in S : [x \in S |-> J[x].spec.mem][i] = J[i].spec.mem
      OBVIOUS
    <2> QED
      BY <2>1, Zenon
  <1>2. \A i \in S : w[i] \in Nat
    BY <1>1
  <1>3. IsFiniteSet(S \ {k}) /\ \A i \in S \ {k} : w[i] = J[i].spec.mem
    BY <1>1, FS_Subset
  <1>4. Declared(J, S) = Total(w, S)
    BY <1>1, DeclaredIsTotal, Zenon
  <1>5. Declared(J, S \ {k}) = Total(w, S \ {k})
    BY <1>3, DeclaredIsTotal, Zenon
  <1>6. \A U \in SUBSET S : \A x \in U : Total(w, U) = w[x] + Total(w, U \ {x})
    BY <1>2, TotalParts
  <1>7. S \in SUBSET S
    OBVIOUS
  <1>8. Total(w, S) = w[k] + Total(w, S \ {k})
    BY <1>6, <1>7, Zenon
  <1> QED
    BY <1>1, <1>4, <1>5, <1>8

(* The clock of the control plane does not go back. *)
LEMMA ClockForward ==
    ASSUME Inv, [Next]_vars
    PROVE  now \in Nat /\ now' \in Nat /\ now <= now'
  <1>1. now \in Nat /\ now' \in Nat
    BY NextInv, BoundsAssumption DEF Inv, TypeOK
  <1>2. ASSUME NEW r \in Requests, Handler(r) PROVE now' = now
    BY <1>2 DEF Handler, CountInflight, CheckLimits, PickGrant, InsertJob, CancelJob,
                CancelJobAdmin, CancelRead, WriteCancelQueued, WriteCancelActive, storeVars
  <1>3. ASSUME NEW j \in JobIds, ClaimJob(j) PROVE now <= now'
    BY <1>1, <1>3 DEF ClaimJob
  <1>4. CASE \E r \in Requests : Handler(r)
    BY <1>1, <1>2, <1>4
  <1>5. CASE ClaimNextJob
    BY <1>1, <1>3, <1>5 DEF ClaimNextJob
  <1>6. CASE Tick
    BY <1>1, <1>6 DEF Tick
  <1>7. CASE \/ \E u \in Users, o \in Offers : CreateGrant(u, o)
             \/ \E j \in JobIds : Claimed(j) /\ WorkerReport(j)
             \/ UNCHANGED vars
    <2>1. now' = now
      BY <1>7 DEF CreateGrant, WorkerReport, FinishJob, MarkJobSystemError, vars
    <2> QED
      BY <1>1, <2>1
  <1> QED
    BY <1>4, <1>5, <1>6, <1>7 DEF Next, ControlPlane

(* The jobs of j's user that held a reservation when j was handed out. *)
Reserved(J, j) ==
    {k \in JobIds : /\ J[k].user = J[j].user
                    /\ J[k].status \in Active
                    /\ J[k].started <= J[j].started}

(* Reserved jobs are rows of the table with a declared memory. *)
LEMMA ReservedJobs ==
    ASSUME Inv
    PROVE  /\ \A j \in JobIds : IsFiniteSet(Reserved(jobs, j))
           /\ \A j \in JobIds : \A k \in Reserved(jobs, j) : jobs[k].spec.mem \in Nat
           /\ \A j \in JobIds : jobs[j].started \in Nat
           /\ \A j \in JobIds : jobs[j].status \in Active => jobs[j] \in Job
  <1>1. \A j \in JobIds : Reserved(jobs, j) \subseteq JobIds
    BY DEF Reserved
  <1>2. \A j \in JobIds : jobs[j].status \in Active => jobs[j] \in Job
    BY DEF Inv, TypeOK, NoJob
  <1>3. \A k \in JobIds : jobs[k].status \in Active => jobs[k].spec.mem \in Nat
    BY <1>2, PayloadsAssumption DEF Job
  <1> QED
    BY <1>1, <1>2, <1>3, JobSetFinite, BoundsAssumption DEF Reserved, Inv, TypeOK, Job, NoJob

(* A job that stays active keeps its limit. *)
LEMMA LimitStays ==
    ASSUME Inv, [Next]_vars, NEW j \in JobIds, jobs[j] \in Job, jobs'[j].grant = jobs[j].grant
    PROVE  GrantedMem(j)' = GrantedMem(j)
  <1>1. jobs[j].grant # None => jobs[j].grant \in GrantIds /\ jobs[j].grant <= lastGrant
    BY DEF Inv, TablesAgree, Job
  <1>2. jobs[j].grant # None => grants'[jobs[j].grant].offer = grants[jobs[j].grant].offer
    BY <1>1, GrantsKeepLimits
  <1> QED
    BY <1>2 DEF GrantedMem

(* The limit under which claim_next_job admits a job is the one it keeps.  *)
LEMMA AdmittedUnder ==
    ASSUME Inv, [Next]_vars, NEW j \in JobIds, jobs[j] \in Job,
           jobs[j].grant # None => Valid(jobs[j].grant, now')
    PROVE  Ceiling(j) = GrantedMem(j)
  <1>1. CASE jobs[j].grant = None
    BY <1>1 DEF Ceiling, GrantedMem
  <1>2. CASE jobs[j].grant # None
    <2>1. jobs[j].grant \in GrantIds /\ jobs[j].grant <= lastGrant
      BY <1>2 DEF Inv, TablesAgree, Job
    <2>2. grants[jobs[j].grant].expires \in Nat \cup {None}
      BY <2>1 DEF Inv, TablesAgree, Grant
    <2>3. Valid(jobs[j].grant, now)
      BY <1>2, <2>2, ClockForward DEF Valid
    <2> QED
      BY <1>2, <2>3 DEF Ceiling, GrantedMem
  <1> QED
    BY <1>1, <1>2

(* ADR-003: whenever claim_next_job hands out a job, the declared memory   *)
(* of all the user's jobs that hold a reservation fits the limit the job   *)
(* was admitted under, and it still does whatever is claimed, finished,    *)
(* granted or expires later.                                               *)
THEOREM ReservationsAlwaysFit == Spec => []ReservationsFit
  <1> DEFINE Fits(J, j, limit) == Declared(J, Reserved(J, j)) <= limit
  <1>1. ReservationsFit <=>
          \A j \in JobIds : jobs[j].status \in Active => Fits(jobs, j, GrantedMem(j))
    BY DEF ReservationsFit, Declared, Reserved
  <1>2. Init => ReservationsFit
    BY DEF Init, NoJob, ReservationsFit
  <1>3. ASSUME Inv, RanksGiven, ReservationsFit, [Next]_vars
        PROVE  ReservationsFit'
    <2> SUFFICES ASSUME NEW j \in JobIds, jobs'[j].status \in Active
                 PROVE  Fits(jobs', j, GrantedMem(j)')
      <3> SUFFICES ASSUME NEW j \in JobIds, jobs'[j].status \in Active
                   PROVE  MapThenSumSet(LAMBDA i : jobs'[i].spec.mem,
                            {k \in JobIds : /\ jobs'[k].user = jobs'[j].user
                                            /\ jobs'[k].status \in Active
                                            /\ jobs'[k].started <= jobs'[j].started})
                            <= GrantedMem(j)'
        BY DEF ReservationsFit, MapThenSumSet, MapThenFoldSet
      <3>1. Fits(jobs', j, GrantedMem(j)')
        OBVIOUS
      <3> QED
        BY <3>1 DEF Declared, Reserved
    <2> USE <1>3
    <2>1. ASSUME jobs[j].status \in Active, jobs'[j].grant = jobs[j].grant,
                 Reserved(jobs', j) \subseteq Reserved(jobs, j),
                 \A k \in Reserved(jobs', j) : jobs'[k].spec = jobs[k].spec
          PROVE  Fits(jobs', j, GrantedMem(j)')
      <3>1. jobs[j] \in Job /\ IsFiniteSet(Reserved(jobs, j))
            /\ \A k \in Reserved(jobs, j) : jobs[k].spec.mem \in Nat
        BY <2>1, ReservedJobs
      <3>2. /\ Declared(jobs', Reserved(jobs', j)) <= Declared(jobs, Reserved(jobs, j))
            /\ Declared(jobs', Reserved(jobs', j)) \in Nat
            /\ Declared(jobs, Reserved(jobs, j)) \in Nat
        <4>1. \A k \in Reserved(jobs', j) : jobs'[k].spec.mem = jobs[k].spec.mem
          BY <2>1
        <4> QED
          BY <2>1, <3>1, <4>1, DeclaredPart, Zenon
      <3>3. PICK G : G = GrantedMem(j) /\ G = GrantedMem(j)'
        BY <2>1, <3>1, LimitStays
      <3>4. Fits(jobs, j, G)
        BY <1>1, <2>1, <3>3
      <3>5. G \in Int
        <4>1. jobs[j].grant # None =>
                jobs[j].grant \in GrantIds /\ jobs[j].grant <= lastGrant
          BY <3>1 DEF Inv, TablesAgree, Job
        <4>2. jobs[j].grant # None => grants[jobs[j].grant].offer.memory \in Limits
          BY <4>1, OffersAssumption DEF Inv, TablesAgree, Grant
        <4> QED
          BY <3>3, <4>2, BoundsAssumption DEF GrantedMem, Limits
      <3> QED
        BY <3>2, <3>3, <3>4, <3>5
    <2>2. ASSUME jobs' = jobs PROVE Fits(jobs', j, GrantedMem(j)')
      BY <2>1, <2>2
    <2>3. ASSUME NEW r \in Requests, InsertJob(r) PROVE Fits(jobs', j, GrantedMem(j)')
      <3>1. /\ jobs'[lastJob + 1].status = "queued"
            /\ \A i \in JobIds : i # lastJob + 1 => jobs'[i] = jobs[i]
        BY <2>3, InsertEffect
      <3>2. \A i \in JobIds : jobs'[i].status \in Active => jobs'[i] = jobs[i]
        BY <3>1
      <3> QED
        BY <2>1, <3>2 DEF Reserved
    <2>4. ASSUME NEW k \in JobIds, jobs[k] \in Job, Rewrite(k)
          PROVE  Fits(jobs', j, GrantedMem(j)')
      <3>1. \A i \in JobIds : /\ jobs'[i].grant = jobs[i].grant
                              /\ jobs'[i].started = jobs[i].started
                              /\ jobs'[i].user = jobs[i].user
                              /\ jobs'[i].spec = jobs[i].spec
                              /\ jobs'[i].status \in Terminal \cup {jobs[i].status}
        BY <2>4, RewriteEffect
      <3>2. \A i \in JobIds : jobs'[i].status \in Active => jobs[i].status \in Active
        BY <3>1
      <3>3. Reserved(jobs', j) \subseteq Reserved(jobs, j)
        BY <3>1, <3>2 DEF Reserved
      <3> QED
        BY <2>1, <3>1, <3>2, <3>3 DEF Reserved
    <2>5. ASSUME NEW k \in JobIds, IsNext(k), HandOut(k),
                 jobs[k].grant # None => Valid(jobs[k].grant, now')
          PROVE  Fits(jobs', j, GrantedMem(j)')
      <3>1. /\ jobs'[k].started = claims + 1
            /\ jobs'[k].user = jobs[k].user /\ jobs'[k].spec = jobs[k].spec
            /\ jobs'[k].grant = jobs[k].grant
            /\ jobs'[k].status = "compiling"
            /\ \A i \in JobIds : i # k => jobs'[i] = jobs[i]
        BY <2>5, RanksStep
      <3>2. /\ jobs[k] \in Job /\ jobs[k].status = "queued" /\ claims \in Nat
            /\ \A i \in JobIds : jobs[i].started \in Nat /\ jobs[i].started <= claims
        BY <2>5, NextJob, ReservedJobs DEF RanksGiven, Inv, TypeOK
      <3>3. CASE j # k
        <4>1. jobs'[j] = jobs[j] /\ k \notin Reserved(jobs', j)
          BY <3>1, <3>2, <3>3 DEF Reserved
        <4>2. Reserved(jobs', j) \subseteq Reserved(jobs, j)
          BY <3>1, <4>1 DEF Reserved
        <4>3. \A i \in Reserved(jobs', j) : jobs'[i].spec = jobs[i].spec
          BY <3>1, <4>1 DEF Reserved
        <4> QED
          BY <2>1, <4>1, <4>2, <4>3
      <3>4. CASE j = k
        <4> DEFINE R == Reserved(jobs', k)
                   A == {i \in JobIds : jobs[i].user = jobs[k].user /\ jobs[i].status \in Active}
        <4>1. k \in R /\ R \ {k} \subseteq A /\ R \subseteq JobIds /\ A \subseteq JobIds
          BY <3>1, <3>2 DEF Reserved
        <4>2. IsFiniteSet(R) /\ IsFiniteSet(A)
          BY <4>1, JobSetFinite
        <4>3. \A i \in JobIds : jobs'[i].spec = jobs[i].spec
          BY <3>1
        <4>4. \A i \in A : jobs[i].spec.mem \in Nat
          BY ReservedJobs, PayloadsAssumption DEF Job
        <4>5. \A i \in R : jobs'[i].spec.mem \in Nat
          BY <3>2, <4>1, <4>3, <4>4, PayloadsAssumption DEF Job
        <4>6. \A i \in R \ {k} : jobs'[i].spec.mem = jobs[i].spec.mem
          BY <4>1, <4>3
        <4>7. ActiveMem(jobs[k].user) = Declared(jobs, A)
          BY DEF ActiveMem, Declared
        <4>8. ActiveMem(jobs[k].user) + jobs[k].spec.mem <= Ceiling(k)
          BY <2>5 DEF IsNext, HeadOfUser, Eligible
        <4>9. Ceiling(k) = GrantedMem(k)
          BY <2>5, <3>2, AdmittedUnder
        <4>10. GrantedMem(k)' = GrantedMem(k)
          BY <3>1, <3>2, LimitStays
        <4> HIDE DEF R, A
        <4>11. Declared(jobs', R) = jobs'[k].spec.mem + Declared(jobs', R \ {k})
          <5>1. \A i \in R : Declared(jobs', R) = jobs'[i].spec.mem + Declared(jobs', R \ {i})
            BY <4>2, <4>5, DeclaredOneMore, Zenon
          <5> QED
            BY <4>1, <5>1, Zenon
        <4>12. /\ Declared(jobs', R \ {k}) <= Declared(jobs, A)
               /\ Declared(jobs', R \ {k}) \in Nat /\ Declared(jobs, A) \in Nat
          BY <4>1, <4>2, <4>4, <4>6, DeclaredPart, Zenon
        <4>13. PICK m \in Nat : m = jobs'[k].spec.mem /\ m = jobs[k].spec.mem
          BY <4>1, <4>3, <4>5
        <4>14. PICK G : G = GrantedMem(k)' /\ G = Ceiling(k)
          BY <4>9, <4>10
        <4>15. G \in Int
          <5>1. jobs[k].grant # None =>
                  jobs[k].grant \in GrantIds /\ jobs[k].grant <= lastGrant
            BY <3>2 DEF Inv, TablesAgree, Job
          <5>2. jobs[k].grant # None => grants[jobs[k].grant].offer.memory \in Limits
            BY <5>1, OffersAssumption DEF Inv, TablesAgree, Grant
          <5> QED
            BY <4>9, <4>14, <5>2, BoundsAssumption DEF GrantedMem, Limits
        <4>16. Declared(jobs', R) <= G
          BY <4>7, <4>8, <4>11, <4>12, <4>13, <4>14, <4>15
        <4> QED
          BY <3>4, <4>14, <4>16 DEF R
      <3> QED
        BY <3>3, <3>4
    <2>6. ASSUME NEW u \in Users, NEW o \in Offers, CreateGrant(u, o)
          PROVE  Fits(jobs', j, GrantedMem(j)')
      BY <2>2, <2>6 DEF CreateGrant
    <2> HIDE DEF Fits
    <2> QED
      BY <2>2, <2>3, <2>4, <2>5, <2>6, StepKinds, Zenon
  <1>4. Init => RanksGiven
    BY DEF Init, NoJob, RanksGiven
  <1>5. ASSUME Inv, RanksGiven, [Next]_vars PROVE RanksGiven'
    BY <1>5, RanksStep
  <1> QED
    BY <1>2, <1>3, <1>4, <1>5, InvAlways, PTL DEF Spec

-----------------------------------------------------------------------------
(* Fair share.                                                             *)

(* The rank of the last job of u that was handed out, in the table J. *)
LastIn(J, u) == Max({0} \cup {J[j].started : j \in {i \in JobIds : J[i].user = u}})

(* It is 0 exactly for a user who was never served. *)
LEMMA NeverServedIn ==
    ASSUME NEW J, \A j \in JobIds : J[j].started \in 0..MaxJobs, NEW u
    PROVE  /\ LastIn(J, u) \in Nat
           /\ LastIn(J, u) = 0 <=> \A j \in JobIds : J[j].user = u => J[j].started = 0
  <1> DEFINE S == {0} \cup {J[j].started : j \in {i \in JobIds : J[i].user = u}}
  <1>1. \A j \in JobIds : J[j].user = u => J[j].started \in S
    OBVIOUS
  <1>2. S \subseteq 0..MaxJobs /\ S # {}
    BY BoundsAssumption
  <1>3. IsFiniteSet(S) /\ S \subseteq Nat
    <2>1. IsFiniteSet(0..MaxJobs) /\ 0..MaxJobs \subseteq Nat
      BY FS_Interval, BoundsAssumption
    <2> HIDE DEF S
    <2> QED
      BY <1>2, <2>1, FS_Subset
  <1>4. Max(S) \in S /\ \A y \in S : y <= Max(S)
    <2> HIDE DEF S
    <2> QED
      BY <1>2, <1>3, FiniteMax, Zenon
  <1>5. LastIn(J, u) = Max(S)
    BY DEF LastIn
  <1>6. LastIn(J, u) \in S /\ LastIn(J, u) \in Nat /\ \A y \in S : y <= LastIn(J, u)
    BY <1>3, <1>4, <1>5, Zenon
  <1>7. ASSUME LastIn(J, u) = 0, NEW j \in JobIds, J[j].user = u
        PROVE  J[j].started = 0
    BY <1>1, <1>6, <1>7
  <1>8. ASSUME \A j \in JobIds : J[j].user = u => J[j].started = 0
        PROVE  LastIn(J, u) = 0
    <2>1. S = {0}
      BY <1>8
    <2> QED
      BY <1>6, <2>1
  <1> QED
    BY <1>6, <1>7, <1>8

(* The same of the jobs table. *)
LEMMA NeverServed ==
    ASSUME Inv, NEW u
    PROVE  /\ LastClaimed(u) \in Nat
           /\ LastClaimed(u) = 0 <=> \A j \in JobIds : jobs[j].user = u => jobs[j].started = 0
  <1>1. \A j \in JobIds : jobs[j].started \in 0..MaxJobs
    BY BoundsAssumption DEF Inv, TypeOK, Job, NoJob
  <1>2. LastClaimed(u) = LastIn(jobs, u)
    BY DEF LastClaimed, LastIn
  <1> QED
    BY <1>1, <1>2, NeverServedIn

(* If a job of the user may be claimed, one of them is the user's first. *)
LEMMA UserHasHead ==
    ASSUME Inv, NEW k \in JobIds, Eligible(k)
    PROVE  \E j \in JobIds : HeadOfUser(j) /\ jobs[j].user = jobs[k].user
  <1> DEFINE E == {j \in JobIds : Eligible(j) /\ jobs[j].user = jobs[k].user}
             C == {c \in Nat : \E j \in E : jobs[j].created = c}
  <1>1. \A j \in JobIds : jobs[j].created \in Nat
    BY BoundsAssumption DEF Inv, TypeOK, Job, NoJob
  <1>2. PICK c \in C : \A d \in C : c <= d
    <2>1. k \in E
      OBVIOUS
    <2>2. C # {}
      BY <1>1, <2>1
    <2> QED
      BY <2>2, LeastNat
  <1> DEFINE F == {j \in E : jobs[j].created = c}
  <1>3. PICK j \in F : \A i \in F : j <= i
    <2>1. F # {} /\ F \subseteq Nat
      BY <1>2
    <2> QED
      BY <2>1, LeastNat
  <1>4. ASSUME NEW i \in JobIds \ {j}, Eligible(i), jobs[i].user = jobs[j].user
        PROVE  Earlier(j, i)
    <2>1. i \in E /\ j \in E
      BY <1>4
    <2>2. jobs[i].created \in C
      BY <1>1, <2>1
    <2>3. c <= jobs[i].created
      BY <1>2, <2>2
    <2>4. CASE jobs[i].created = c
      <3>1. j <= i
        BY <1>3, <2>1, <2>4
      <3> QED
        BY <1>3, <2>4, <3>1 DEF Earlier
    <2>5. CASE jobs[i].created # c
      BY <1>1, <1>2, <1>3, <2>3, <2>5 DEF Earlier
    <2> QED
      BY <2>4, <2>5
  <1> QED
    BY <1>3, <1>4 DEF HeadOfUser

(* A reservation is held only by a job that was handed out. *)
ActiveIsClaimed == \A j \in JobIds : jobs[j].status \in Active => Claimed(j)

(* A waiting job without a grant, of a user who was never served, may be   *)
(* claimed at any time.                                                    *)
LEMMA NewcomerIsEligible ==
    ASSUME Inv, ExcessIsAuthorised, ActiveIsClaimed, NEW k \in JobIds,
           jobs[k].status = "queued", ~jobs[k].cancel, jobs[k].grant = None,
           LastClaimed(jobs[k].user) = 0
    PROVE  Eligible(k)
  <1>1. jobs[k] \in Job
    BY DEF Inv, TypeOK, NoJob
  <1>2. Standard(jobs[k].spec)
    BY DEF ExcessIsAuthorised, AuthorisedBy
  <1>3. jobs[k].spec.mem \in Nat /\ jobs[k].spec.mem <= MaxMem
    BY <1>1, <1>2, PayloadsAssumption DEF Job, Standard
  <1>4. {j \in JobIds : jobs[j].user = jobs[k].user /\ jobs[j].status \in Active} = {}
    BY NeverServed DEF ActiveIsClaimed, Claimed
  <1>5. ActiveMem(jobs[k].user) = 0
    <2>1. ActiveMem(jobs[k].user) = Declared(jobs, {})
      BY <1>4 DEF ActiveMem, Declared
    <2>2. Declared(jobs, {}) = Total(jobs, {})
      BY FS_EmptySet, DeclaredIsTotal
    <2>3. Total(jobs, {}) = 0
      BY FS_EmptySet, TotalParts
    <2> QED
      BY <2>1, <2>2, <2>3
  <1>6. Ceiling(k) = MaxMem
    BY DEF Ceiling
  <1> QED
    BY <1>3, <1>5, <1>6, BoundsAssumption DEF Eligible

(* What a hand-out says about a newcomer who waits. *)
LEMMA NewcomerWaits ==
    ASSUME Inv, ExcessIsAuthorised, ActiveIsClaimed, NEW k \in JobIds, NEW i \in JobIds, IsNext(i),
           jobs[k].status = "queued", ~jobs[k].cancel, jobs[k].grant = None,
           jobs[k].user # jobs[i].user, LastClaimed(jobs[k].user) = 0
    PROVE  jobs[i].user < jobs[k].user /\ LastClaimed(jobs[i].user) = 0
  <1>1. PICK j \in JobIds : HeadOfUser(j) /\ jobs[j].user = jobs[k].user
    BY NewcomerIsEligible, UserHasHead
  <1>2. \/ LastClaimed(jobs[i].user) < LastClaimed(jobs[j].user)
        \/ /\ LastClaimed(jobs[i].user) = LastClaimed(jobs[j].user)
           /\ jobs[i].user < jobs[j].user
    BY <1>1 DEF IsNext
  <1>3. LastClaimed(jobs[i].user) \in Nat
    BY NeverServed
  <1> QED
    BY <1>1, <1>2, <1>3

(* Fair share: a user who has waited since before user u's latest          *)
(* submission and was never served goes ahead of a second job of u.        *)
THEOREM NewcomersGoFirst == Spec => []NewcomerGoesFirst
  <1> DEFINE Passed(J, k, i) ==
               /\ J[i].user < J[k].user
               /\ \A h \in JobIds : J[h].user = J[i].user /\ J[h].started # 0 =>
                    J[i].started <= J[h].started
             Waits(J, k, i) ==
               /\ k < i /\ J[i].started # 0
               /\ J[k].status = "queued" /\ ~J[k].cancel /\ J[k].grant = None
               /\ J[k].user # J[i].user
             Never(J, u) == \A j \in JobIds : J[j].user = u => J[j].started = 0
  <1>1. Init => ActiveIsClaimed /\ NewcomerGoesFirst /\ RanksGiven
    BY BoundsAssumption DEF Init, NoJob, ActiveIsClaimed, NewcomerGoesFirst, RanksGiven, Claimed
  <1>2. ASSUME Inv, ActiveIsClaimed, RanksGiven, [Next]_vars
        PROVE  ActiveIsClaimed'
    <2> USE <1>2
    <2> SUFFICES ASSUME NEW j \in JobIds, jobs'[j].status \in Active
                 PROVE  jobs'[j].started # 0
      BY DEF ActiveIsClaimed, Claimed
    <2>1. jobs[j].status \in Active => jobs[j].started # 0
      BY DEF ActiveIsClaimed, Claimed
    <2>2. ASSUME NEW r \in Requests, InsertJob(r) PROVE jobs'[j].started # 0
      BY <2>1, <2>2, InsertEffect
    <2>3. ASSUME NEW k \in JobIds, jobs[k] \in Job, Rewrite(k) PROVE jobs'[j].started # 0
      BY <2>1, <2>3, RewriteEffect
    <2>4. ASSUME NEW k \in JobIds, IsNext(k), HandOut(k) PROVE jobs'[j].started # 0
      <3>1. jobs'[k].started # 0 /\ \A i \in JobIds : i # k => jobs'[i] = jobs[i]
        BY <2>4, HandOutEffect, RanksStep
      <3> QED
        BY <2>1, <3>1
    <2>5. ASSUME jobs' = jobs PROVE jobs'[j].started # 0
      BY <2>1, <2>5
    <2> QED
      BY <2>2, <2>3, <2>4, <2>5, StepKinds DEF CreateGrant
  <1>3. ASSUME Inv, ActiveIsClaimed, RanksGiven, ExcessIsAuthorised, NewcomerGoesFirst,
               [Next]_vars, NEW k \in JobIds, NEW i \in JobIds,
               Waits(jobs', k, i), Never(jobs', jobs'[k].user)
        PROVE  Passed(jobs', k, i)
    <2> USE <1>3
    <2>1. Waits(jobs, k, i) /\ Never(jobs, jobs[k].user) => Passed(jobs, k, i)
      BY NeverServed DEF NewcomerGoesFirst, Claimed
    <2>2. \A j \in JobIds : jobs[j].started \in Int /\ jobs[j].started <= claims
      BY BoundsAssumption DEF Inv, TypeOK, Job, NoJob, RanksGiven
    <2>3. CASE jobs' = jobs
      BY <2>1, <2>3
    <2>4. ASSUME NEW r \in Requests, InsertJob(r) PROVE Passed(jobs', k, i)
      <3>1. /\ lastJob + 1 \in JobIds /\ jobs[lastJob + 1] = NoJob
            /\ jobs'[lastJob + 1].started = 0
            /\ \A h \in JobIds : h # lastJob + 1 => jobs'[h] = jobs[h]
        BY <2>4, InsertEffect
      <3>2. i # lastJob + 1 /\ jobs'[i] = jobs[i]
        BY <3>1
      <3>3. i <= lastJob
        BY <3>2 DEF Inv, TablesAgree, NoJob
      <3>4. jobs'[k] = jobs[k]
        BY <3>1, <3>3, BoundsAssumption DEF Inv, TypeOK
      <3>5. \A h \in JobIds : jobs[h].started # 0 => jobs'[h] = jobs[h]
        BY <3>1 DEF NoJob
      <3>6. Never(jobs, jobs[k].user)
        BY <3>4, <3>5
      <3>7. Passed(jobs, k, i)
        BY <2>1, <3>2, <3>4, <3>6
      <3> QED
        BY <3>1, <3>2, <3>4, <3>7
    <2>5. ASSUME NEW n \in JobIds, jobs[n] \in Job, Rewrite(n) PROVE Passed(jobs', k, i)
      <3>1. \A h \in JobIds : /\ jobs'[h].grant = jobs[h].grant
                              /\ jobs'[h].started = jobs[h].started
                              /\ jobs'[h].user = jobs[h].user
                              /\ jobs'[h].status \in Terminal \cup {jobs[h].status}
                              /\ jobs[h].cancel => jobs'[h].cancel
        BY <2>5, RewriteEffect
      <3>2. Waits(jobs, k, i) /\ Never(jobs, jobs[k].user)
        BY <3>1
      <3>3. Passed(jobs, k, i)
        BY <2>1, <3>2
      <3> QED
        BY <3>1, <3>3
    <2>6. ASSUME NEW n \in JobIds, IsNext(n), HandOut(n) PROVE Passed(jobs', k, i)
      <3>1. /\ jobs'[n].started = claims + 1
            /\ jobs'[n].user = jobs[n].user /\ jobs'[n].status = "compiling"
            /\ \A h \in JobIds : h # n => jobs'[h] = jobs[h]
        BY <2>6, RanksStep
      <3>2. claims \in Int /\ claims + 1 # 0 /\ n # k /\ jobs'[k] = jobs[k]
        BY <3>1, BoundsAssumption DEF Inv, TypeOK
      <3>3. \A h \in JobIds : jobs'[h].user = jobs[h].user
        BY <3>1
      <3>4. Never(jobs, jobs[k].user)
        <4>1. \A h \in JobIds : jobs[h].started # 0 => jobs'[h].started # 0
          BY <3>1, <3>2
        <4> QED
          BY <3>2, <3>3, <4>1
      <3>5. CASE i # n
        <4>1. Passed(jobs, k, i)
          BY <2>1, <3>1, <3>2, <3>4, <3>5
        <4>2. jobs'[i] = jobs[i]
          BY <3>1, <3>5
        <4>3. \A h \in JobIds : jobs'[h] = jobs[h] \/ (h = n /\ jobs'[h].started = claims + 1)
          BY <3>1
        <4> QED
          BY <2>2, <3>2, <3>3, <4>1, <4>2, <4>3
      <3>6. CASE i = n
        <4>1. LastClaimed(jobs[k].user) = 0
          BY <3>4, NeverServed
        <4>2. jobs[i].user < jobs[k].user /\ LastClaimed(jobs[i].user) = 0
          BY <2>6, <3>2, <3>3, <3>6, <4>1, NewcomerWaits
        <4>3. Never(jobs, jobs[i].user)
          BY <4>2, NeverServed
        <4>4. \A h \in JobIds : h # n /\ jobs'[h].user = jobs'[i].user => jobs'[h].started = 0
          BY <3>1, <3>3, <4>3
        <4> QED
          BY <3>1, <3>2, <3>3, <3>6, <4>2, <4>4
      <3> QED
        BY <3>5, <3>6
    <2> QED
      BY <2>3, <2>4, <2>5, <2>6, StepKinds DEF CreateGrant
  <1>4. ASSUME Inv, Inv', ActiveIsClaimed, RanksGiven, ExcessIsAuthorised, NewcomerGoesFirst,
               [Next]_vars
        PROVE  NewcomerGoesFirst'
    <2> SUFFICES ASSUME NEW k \in JobIds, NEW i \in JobIds,
                        Waits(jobs', k, i), LastClaimed(jobs[k].user)' = 0
                 PROVE  Passed(jobs', k, i)
      BY DEF NewcomerGoesFirst, Claimed
    <2>1. Never(jobs', jobs'[k].user)
      <3>1. \A j \in JobIds : jobs'[j].started \in 0..MaxJobs
        <4>1. \A j \in JobIds : jobs'[j] \in Job \cup {NoJob}
          BY <1>4 DEF Inv, TypeOK
        <4> QED
          BY <4>1, BoundsAssumption DEF Job, NoJob
      <3>2. LastClaimed(jobs[k].user)' = LastIn(jobs', jobs'[k].user)
        BY DEF LastClaimed, LastIn
      <3> QED
        BY <3>1, <3>2, NeverServedIn
    <2> HIDE DEF Passed, Waits, Never
    <2> QED
      BY <1>3, <1>4, <2>1
  <1>5. ASSUME Inv, RanksGiven, [Next]_vars PROVE Inv' /\ RanksGiven'
    BY <1>5, NextInv, RanksStep
  <1> QED
    BY <1>1, <1>2, <1>4, <1>5, InvAlways, ExcessAlwaysAuthorised, PTL DEF Spec
=============================================================================

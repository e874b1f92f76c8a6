---------------------------- MODULE RunnerProofs ----------------------------
(***************************************************************************)
(* What execute keeps, for every length of limits, calls and sleeps, every *)
(* number of cases and every program: the wall limits and the delay of a   *)
(* cancellation; that processes are waited for and verdicts are about      *)
(* their own case; and that its caller sees a call of Execution.           *)
(***************************************************************************)
EXTENDS Runner, SequenceTheorems, FiniteSetTheorems, TLAPS

(* Only what is compared with the clock is typed; integers are enough. *)
TimeTypes ==
    /\ now \in Int /\ started \in Int /\ deadline \in Int
    /\ limit \in Int /\ elapsed \in Int /\ until \in Int

(* No wait lasts longer than what it is for. *)
WaitsEnd ==
    /\ Asking \/ pc = "sleep" => now <= until
    /\ Asking => until <= now + CallTime
    /\ pc = "sleep" => until <= now + Poll

(* How late the loop can be at each of its points.  elapsed is compared    *)
(* with the limit only when the call after it has ended.                   *)
LoopIsInTime ==
    /\ pc = "poll" => now - started < limit + CallTime + Poll
    /\ pc = "askDuring" => /\ elapsed < limit + CallTime + Poll
                           /\ until <= started + elapsed + CallTime
    /\ pc = "sleep" => until - started < limit + CallTime + Poll
    /\ pc = "collect" => now - started < limit + 2 * CallTime + Poll

(* A case gets no more than what is left of the submission's time. *)
SubmissionIsInTime ==
    /\ InCase => limit <= deadline - started
    /\ pc = "between" => now < deadline + 2 * CallTime + Poll
    /\ pc = "askBefore" => until < deadline + 3 * CallTime + Poll

WallInv == TimeTypes /\ WaitsEnd /\ LoopIsInTime /\ SubmissionIsInTime

(* From when a cancellation of the current case counts. *)
Since == IF cancelAt > started THEN cancelAt ELSE started

ToldNo == answer # None /\ answer = FALSE

CancelTypes ==
    /\ answer # None => answer \in BOOLEAN
    /\ cancelAt # None => cancelAt \in Int
    /\ proc \in Process

(* How long a requested cancellation can have waited at each point of the  *)
(* loop.  An answer no was given before the request.                       *)
RequestIsHeard ==
    cancelAt # None =>
        /\ cancelAt <= now
        /\ pc = "poll" => now - Since <= CallTime + Poll
        /\ pc = "sleep" => until - Since <= CallTime + Poll
        /\ pc = "askDuring" => until - Since <= 2 * CallTime + Poll
        /\ pc = "askDuring" /\ ToldNo => until - Since <= CallTime

CancelInv ==
    /\ CancelTypes
    /\ pc = "collect" => ~proc.alive
    /\ RequestIsHeard

-----------------------------------------------------------------------------
(* A loop that goes on has found the process within its limit.             *)
LEMMA RunningIsInTime ==
    ASSUME Verdict = "running", elapsed \in Int, limit \in Int
    PROVE  elapsed < limit
<1>1. CASE elapsed >= limit
  <2>1. Verdict \in {"cancelled", "output_limit", "time_limit"}
    BY <1>1 DEF Verdict
  <2>2. QED BY <2>1
<1>2. QED BY <1>1

(* A loop that goes on was not told of a cancellation. *)
LEMMA RunningIsToldNo ==
    ASSUME Verdict = "running", answer # None, answer \in BOOLEAN
    PROVE  ToldNo
<1>1. CASE answer = TRUE
  <2>1. Verdict = "cancelled" BY <1>1 DEF Verdict
  <2>2. QED BY <2>1
<1>2. CASE answer = FALSE
  BY <1>2, Zenon DEF ToldNo
<1>3. QED BY <1>1, <1>2

-----------------------------------------------------------------------------
(* The wall limits.                                                        *)

(* The wall limits hold before execute is called. *)
LEMMA WallInit == RunnerInit => WallInv
  BY RunnerAssumption
     DEF RunnerInit, WallInv, TimeTypes, WaitsEnd, LoopIsInTime, SubmissionIsInTime, Asking, InCase

(* Steps that move neither the clock nor the thread. *)
LEMMA WallStutter ==
    ASSUME WallInv,
           UNCHANGED <<pc, now, started, deadline, limit, elapsed, until>>
    PROVE  WallInv'
  BY DEF WallInv, TimeTypes, WaitsEnd, LoopIsInTime, SubmissionIsInTime, Asking, InCase

(* The thread is where nothing is claimed of it. *)
LEMMA WallElsewhere ==
    ASSUME TimeTypes', pc' \in {"prepare", "compiling", "returned", "raised"}
    PROVE  WallInv'
  BY DEF WallInv, WaitsEnd, LoopIsInTime, SubmissionIsInTime, Asking, InCase

(* The wall limits survive every step of execute. *)
LEMMA WallStep == WallInv /\ [RunnerNext]_vars => WallInv'
<1> SUFFICES ASSUME WallInv, [RunnerNext]_vars PROVE WallInv'
  OBVIOUS
<1> USE RunnerAssumption
<1> TimeTypes
  BY DEF WallInv
<1>1. CASE Execute
  BY <1>1, WallElsewhere DEF Execute, clockVars, caseVars, TimeTypes
<1>2. CASE StartCompile
  <2>1. TimeTypes'
    BY <1>2 DEF StartCompile, clockVars, TimeTypes
  <2>2. QED
    BY <1>2, <2>1, WallElsewhere DEF StartCompile
<1>3. CASE EndCompile
  <2>1. \/ pc' = "between" /\ deadline' = now + TotalWall
        \/ pc' = "returned" /\ deadline' = deadline
    BY <1>3 DEF EndCompile
  <2>2. UNCHANGED <<now, started, limit, elapsed, until, answer, cancelAt>>
    BY <1>3 DEF EndCompile, clockVars
  <2>3. TimeTypes'
    BY <2>1, <2>2 DEF TimeTypes
  <2>4. CASE pc' = "between" /\ deadline' = now + TotalWall
    <3>1. now' < deadline' + 2 * CallTime + Poll
      BY <2>2, <2>4 DEF TimeTypes
    <3>2. QED
      BY <2>3, <2>4, <3>1 DEF WallInv, WaitsEnd, LoopIsInTime, SubmissionIsInTime, Asking, InCase
  <2>5. QED BY <2>1, <2>3, <2>4, WallElsewhere
<1>4. CASE CompileTimesOut
  BY <1>4, WallElsewhere DEF CompileTimesOut, clockVars, caseVars, TimeTypes
<1>5. CASE NextCase
  <2>1. CASE pos <= n /\ Ask("askBefore") /\ UNCHANGED <<status, results>>
    BY <1>5, <2>1 DEF NextCase, Ask, clockVars, caseVars, WallInv, TimeTypes, WaitsEnd,
                      LoopIsInTime, SubmissionIsInTime, Asking, InCase
  <2>2. CASE pos > n /\ Return("completed", results) /\ UNCHANGED <<until, answer>>
    BY <1>5, <2>2, WallElsewhere DEF NextCase, Return, clockVars, caseVars, TimeTypes
  <2>3. QED BY <1>5, <2>1, <2>2 DEF NextCase
<1>6. CASE StopBeforeCase
  <2>1. pc' = "returned"
    BY <1>6 DEF StopBeforeCase, Return
  <2>2. QED
    BY <1>6, <2>1, WallElsewhere DEF StopBeforeCase, clockVars, caseVars, TimeTypes
<1>7. CASE StartCase
  <2>1. Effective \in Int /\ Effective >= 0 /\ Effective <= deadline - now
    BY <1>7 DEF StartCase, Effective, TimeTypes
  <2>2. QED
    BY <1>7, <2>1 DEF StartCase, clockVars, WallInv, TimeTypes, WaitsEnd, LoopIsInTime,
                      SubmissionIsInTime, Asking, InCase
<1>8. CASE PollProcess
  <2>1. /\ pc = "poll"
        /\ UNCHANGED <<now, started, deadline, limit, cancelAt>>
    BY <1>8 DEF PollProcess, clockVars
  <2>2. /\ now - started < limit + CallTime + Poll
        /\ limit <= deadline - started
    BY <2>1 DEF WallInv, LoopIsInTime, SubmissionIsInTime, InCase
  <2>3. CASE ~proc.alive
    <3>1. pc' = "collect" /\ UNCHANGED <<elapsed, until, answer>>
      BY <1>8, <2>3 DEF PollProcess
    <3>2. TimeTypes'
      BY <2>1, <3>1 DEF TimeTypes
    <3>3. now' - started' < limit' + 2 * CallTime + Poll /\ limit' <= deadline' - started'
      BY <2>1, <2>2 DEF TimeTypes
    <3>4. QED
      BY <3>1, <3>2, <3>3 DEF WallInv, WaitsEnd, LoopIsInTime, SubmissionIsInTime, Asking, InCase
  <2>4. CASE proc.alive
    <3>1. pc' = "askDuring" /\ elapsed' = now - started /\ until' = now + CallTime
      BY <1>8, <2>4 DEF PollProcess, Ask
    <3>2. TimeTypes'
      BY <2>1, <3>1 DEF TimeTypes
    <3>3. /\ elapsed' < limit' + CallTime + Poll
          /\ until' <= started' + elapsed' + CallTime
          /\ limit' <= deadline' - started'
          /\ now' <= until' /\ until' <= now' + CallTime
      BY <2>1, <2>2, <3>1 DEF TimeTypes
    <3>4. QED
      BY <3>1, <3>2, <3>3 DEF WallInv, WaitsEnd, LoopIsInTime, SubmissionIsInTime, Asking, InCase
  <2>5. QED BY <2>3, <2>4
<1>9. CASE Watch
  <2>1. /\ pc = "askDuring"
        /\ UNCHANGED <<now, started, deadline, limit, elapsed, answer, cancelAt>>
    BY <1>9 DEF Watch, clockVars, caseVars
  <2>2. /\ elapsed < limit + CallTime + Poll
        /\ until <= started + elapsed + CallTime
        /\ limit <= deadline - started
        /\ now <= until
    BY <2>1 DEF WallInv, WaitsEnd, LoopIsInTime, SubmissionIsInTime, Asking, InCase
  <2>3. CASE Verdict = "running"
    <3>1. elapsed < limit
      BY <2>3, RunningIsInTime DEF TimeTypes
    <3>2. pc' = "sleep" /\ until' = now + Poll
      BY <1>9, <2>3 DEF Watch
    <3>3. TimeTypes'
      BY <2>1, <3>2 DEF TimeTypes
    <3>4. /\ until' - started' < limit' + CallTime + Poll
          /\ limit' <= deadline' - started'
          /\ now' <= until' /\ until' <= now' + Poll
      BY <2>1, <2>2, <3>1, <3>2 DEF TimeTypes
    <3>5. QED
      BY <3>2, <3>3, <3>4 DEF WallInv, WaitsEnd, LoopIsInTime, SubmissionIsInTime, Asking, InCase
  <2>4. CASE Verdict # "running"
    <3>1. pc' = "collect" /\ until' = until
      BY <1>9, <2>4 DEF Watch
    <3>2. TimeTypes'
      BY <2>1, <3>1 DEF TimeTypes
    <3>3. now' - started' < limit' + 2 * CallTime + Poll /\ limit' <= deadline' - started'
      BY <2>1, <2>2 DEF TimeTypes
    <3>4. QED
      BY <3>1, <3>2, <3>3 DEF WallInv, WaitsEnd, LoopIsInTime, SubmissionIsInTime, Asking, InCase
  <2>5. QED BY <2>3, <2>4
<1>10. CASE Wake
  BY <1>10 DEF Wake, clockVars, caseVars, WallInv, TimeTypes, WaitsEnd, LoopIsInTime,
               SubmissionIsInTime, Asking, InCase
<1>11. CASE Collect
  <2>1. /\ pc = "collect" /\ pc' \in {"between", "returned"}
        /\ UNCHANGED <<now, started, deadline, limit, elapsed, until, answer, cancelAt>>
    BY <1>11 DEF Collect, Return, clockVars, caseVars
  <2>2. TimeTypes'
    BY <2>1 DEF TimeTypes
  <2>3. now - started < limit + 2 * CallTime + Poll /\ limit <= deadline - started
    BY <2>1 DEF WallInv, LoopIsInTime, SubmissionIsInTime, InCase
  <2>4. now' < deadline' + 2 * CallTime + Poll
    BY <2>1, <2>3 DEF TimeTypes
  <2>5. QED
    BY <2>1, <2>2, <2>4 DEF WallInv, WaitsEnd, LoopIsInTime, SubmissionIsInTime, Asking, InCase
<1>12. CASE Raises
  <2>1. /\ pc' = "raised"
        /\ UNCHANGED <<now, started, deadline, limit, elapsed, until, answer, cancelAt>>
    BY <1>12 DEF Raises, CompileRaises, CancelCheckRaises, StartCaseRaises, clockVars, caseVars
  <2>2. QED BY <2>1, WallElsewhere DEF TimeTypes
<1>13. CASE ServerAnswers
  BY <1>13, WallStutter DEF ServerAnswers, clockVars, caseVars
<1>14. CASE Program
  BY <1>14, WallStutter DEF Program, Exits, Writes, FileLimit, OomKill, ProcessVars, clockVars,
                            caseVars, TimeTypes
<1>15. CASE Tick
  <2>1. /\ pc = "compiling" \/ Asking \/ pc = "sleep"
        /\ now < until /\ now' = now + 1
        /\ UNCHANGED <<pc, started, deadline, limit, elapsed, until, answer, cancelAt>>
    BY <1>15 DEF Tick, Waiting, caseVars
  <2>2. TimeTypes'
    BY <2>1 DEF TimeTypes
  <2>3. WaitsEnd'
    BY <2>1, <2>2 DEF WallInv, WaitsEnd, TimeTypes, Asking
  <2>4. LoopIsInTime'
    BY <2>1, <2>2 DEF WallInv, LoopIsInTime, TimeTypes, Asking
  <2>5. SubmissionIsInTime'
    BY <2>1, <2>2 DEF WallInv, SubmissionIsInTime, TimeTypes, Asking, InCase
  <2>6. QED BY <2>2, <2>3, <2>4, <2>5 DEF WallInv
<1>16. CASE RequestCancel
  BY <1>16, WallStutter DEF RequestCancel, caseVars, TimeTypes
<1>17. CASE UNCHANGED vars
  BY <1>17, WallStutter DEF vars, TimeTypes
<1>18. QED
  BY <1>1, <1>2, <1>3, <1>4, <1>5, <1>6, <1>7, <1>8, <1>9, <1>10, <1>11, <1>12, <1>13, <1>14,
     <1>15, <1>16, <1>17 DEF RunnerNext, Thread

(* The bounds at each point of the loop give those of the property. *)
LEMMA WallFollows == WallInv => WallTimeIsBounded
  BY RunnerAssumption
     DEF WallInv, TimeTypes, WaitsEnd, LoopIsInTime, SubmissionIsInTime, WallTimeIsBounded,
         CaseWallIsBounded, TotalWallIsBounded, Asking, InCase

(* For all limits, calls and sleeps of the runner, any number of cases and *)
(* whatever the program does: a case is over less than two cancel_check    *)
(* calls and a sleep after its limit, and so is the last case after the    *)
(* submission's.                                                           *)
THEOREM WallTime == RunnerSpec => []WallTimeIsBounded
<1>1. RunnerInit => WallInv BY WallInit
<1>2. WallInv /\ [RunnerNext]_vars => WallInv' BY WallStep
<1>3. WallInv => WallTimeIsBounded BY WallFollows
<1>4. QED BY <1>1, <1>2, <1>3, PTL DEF RunnerSpec

-----------------------------------------------------------------------------
(* The delay of a cancellation.                                            *)

(* A process that was terminated is a process and has ended. *)
LEMMA ProcessTypes ==
    /\ NoProcess \in Process
    /\ Spawned \in Process
    /\ \A p \in Process : Terminated(p) \in Process /\ ~Terminated(p).alive
<1> USE RunnerAssumption
<1>1. NoProcess \in Process
  BY DEF NoProcess, Process
<1>2. Spawned \in Process
  <2>1. \A p \in Process : [p EXCEPT !.alive = TRUE] \in Process
    BY DEF Process
  <2>2. QED BY <1>1, <2>1 DEF Spawned
<1>3. ASSUME NEW p \in Process
      PROVE  Terminated(p) \in Process /\ ~Terminated(p).alive
  BY <1>3 DEF Terminated, Process
<1>4. QED BY <1>1, <1>2, <1>3

(* Nothing is waited for before execute is called. *)
LEMMA CancelInit == RunnerInit => CancelInv
<1> SUFFICES ASSUME RunnerInit PROVE CancelInv
  OBVIOUS
<1>1. CancelTypes
  BY ProcessTypes DEF RunnerInit, CancelTypes
<1>2. QED
  BY <1>1 DEF RunnerInit, CancelInv, RequestIsHeard

(* Steps of the program: they leave a process a process and never revive   *)
(* one that has ended.                                                     *)
LEMMA ProgramTypes ==
    ASSUME Program, proc \in Process
    PROVE  proc' \in Process /\ proc.alive
<1> USE RunnerAssumption
<1>1. proc.alive
  BY DEF Program
<1>2. CASE Exits
  BY <1>2 DEF Exits, Process
<1>3. CASE Writes
  BY <1>3 DEF Writes, Process
<1>4. CASE FileLimit
  BY <1>4 DEF FileLimit, Process
<1>5. CASE OomKill
  BY <1>5 DEF OomKill, Process
<1>6. QED BY <1>1, <1>2, <1>3, <1>4, <1>5 DEF Program

(* Every step of execute keeps the types. *)
LEMMA CancelTypesStep ==
    ASSUME CancelTypes, TimeTypes, RunnerNext
    PROVE  CancelTypes'
<1> USE RunnerAssumption
<1>1. proc' \in Process
  <2>1. CASE Program
    BY <2>1, ProgramTypes DEF CancelTypes
  <2>2. CASE ~Program
    <3>1. proc' \in {proc, NoProcess, Spawned, Terminated(proc)}
      BY <2>2 DEF RunnerNext, Thread, Raises, Execute, StartCompile, EndCompile, CompileTimesOut,
                  NextCase, StopBeforeCase, StartCase, PollProcess, Watch, Wake, Collect,
                  CompileRaises, CancelCheckRaises, StartCaseRaises, ServerAnswers, Tick,
                  RequestCancel
    <3>2. QED BY <3>1, ProcessTypes DEF CancelTypes
  <2>3. QED BY <2>1, <2>2
<1>2. cancelAt' # None => cancelAt' \in Int
  <2>1. cancelAt' = cancelAt \/ cancelAt' = now
    BY DEF RunnerNext, Thread, Raises, Execute, StartCompile, EndCompile, CompileTimesOut,
           NextCase, StopBeforeCase, StartCase, PollProcess, Watch, Wake, Collect,
           CompileRaises, CancelCheckRaises, StartCaseRaises, ServerAnswers, Tick,
           RequestCancel, Program, Exits, Writes, FileLimit, OomKill, ProcessVars, clockVars
  <2>2. QED BY <2>1 DEF CancelTypes, TimeTypes
<1>3. answer' # None => answer' \in BOOLEAN
  <2>1. answer' = answer \/ answer' = None \/ answer' \in BOOLEAN
    BY DEF RunnerNext, Thread, Raises, Execute, StartCompile, EndCompile, CompileTimesOut,
           NextCase, StopBeforeCase, StartCase, PollProcess, Watch, Wake, Collect,
           CompileRaises, CancelCheckRaises, StartCaseRaises, ServerAnswers, Tick,
           RequestCancel, Program, Exits, Writes, FileLimit, OomKill, ProcessVars, Ask
  <2>2. QED BY <2>1 DEF CancelTypes
<1>4. QED BY <1>1, <1>2, <1>3 DEF CancelTypes

(* A process that was not started, or that the loop has seen ended, is not *)
(* alive when its result is collected.                                     *)
LEMMA CollectedIsDead ==
    ASSUME CancelTypes, RunnerNext, pc = "collect" => ~proc.alive, pc' = "collect"
    PROVE  ~proc'.alive
<1>1. CASE Watch
  <2>1. proc' = Terminated(proc)
    BY <1>1 DEF Watch
  <2>2. QED BY <2>1, ProcessTypes DEF CancelTypes
<1>2. CASE PollProcess
  BY <1>2 DEF PollProcess, Ask
<1>3. CASE ~Watch /\ ~PollProcess
  <2>1. pc = "collect" /\ ~Program => proc' = proc
    BY <1>3 DEF RunnerNext, Thread, Raises, Execute, StartCompile, EndCompile, CompileTimesOut,
                NextCase, StopBeforeCase, StartCase, Wake, Collect, Return, CompileRaises,
                CancelCheckRaises, StartCaseRaises, ServerAnswers, Tick, RequestCancel
  <2>2. pc = "collect"
    BY <1>3 DEF RunnerNext, Thread, Raises, Execute, StartCompile, EndCompile, CompileTimesOut,
                NextCase, Ask, StopBeforeCase, StartCase, Wake, Collect, Return, CompileRaises,
                CancelCheckRaises, StartCaseRaises, ServerAnswers, Tick, RequestCancel,
                Program, Exits, Writes, FileLimit, OomKill, ProcessVars
  <2>3. ~Program
    BY <2>2 DEF Program
  <2>4. QED BY <2>1, <2>2, <2>3
<1>4. QED BY <1>1, <1>2, <1>3

(* The thread is where a request is not waited for. *)
LEMMA HeardElsewhere ==
    ASSUME cancelAt' # None => cancelAt' <= now',
           pc' \notin {"poll", "sleep", "askDuring"}
    PROVE  RequestIsHeard'
  BY DEF RequestIsHeard

(* Steps that move neither the clock, the thread nor the request. *)
LEMMA HeardStutter ==
    ASSUME RequestIsHeard, UNCHANGED <<pc, now, started, until, answer, cancelAt>>
    PROVE  RequestIsHeard'
  BY DEF RequestIsHeard, Since, ToldNo

(* No step makes a request wait longer than RequestIsHeard says. *)
LEMMA HeardStep ==
    ASSUME TimeTypes, WaitsEnd, CancelTypes, RequestIsHeard, RunnerNext
    PROVE  RequestIsHeard'
<1> USE RunnerAssumption
<1> cancelAt # None => cancelAt \in Int /\ cancelAt <= now
  BY DEF CancelTypes, RequestIsHeard
<1>1. CASE Execute \/ StartCompile \/ EndCompile \/ CompileTimesOut \/ NextCase \/ StopBeforeCase
           \/ Collect \/ Raises
  <2>1. pc' \in {"prepare", "compiling", "between", "askBefore", "returned", "raised"}
    BY <1>1 DEF Execute, StartCompile, EndCompile, CompileTimesOut, NextCase, Ask, StopBeforeCase,
                Collect, Return, Raises, CompileRaises, CancelCheckRaises, StartCaseRaises
  <2>2. UNCHANGED <<now, cancelAt>>
    BY <1>1 DEF Execute, StartCompile, EndCompile, CompileTimesOut, NextCase, StopBeforeCase,
                Collect, Raises, CompileRaises, CancelCheckRaises, StartCaseRaises, clockVars
  <2>3. QED BY <2>1, <2>2, HeardElsewhere
<1>2. CASE StartCase
  <2>1. pc' = "poll" /\ started' = now /\ UNCHANGED <<now, cancelAt>>
    BY <1>2 DEF StartCase, clockVars
  <2>2. cancelAt' # None => Since' = now
    BY <2>1 DEF Since, TimeTypes
  <2>3. QED BY <2>1, <2>2 DEF RequestIsHeard, TimeTypes
<1>3. CASE PollProcess
  <2>1. /\ pc = "poll" /\ UNCHANGED <<now, started, cancelAt>>
        /\ \/ pc' = "collect"
           \/ pc' = "askDuring" /\ until' = now + CallTime /\ answer' = None
    BY <1>3 DEF PollProcess, Ask, clockVars
  <2>2. CASE pc' = "collect"
    BY <2>1, <2>2, HeardElsewhere
  <2>3. CASE pc' = "askDuring" /\ until' = now + CallTime /\ answer' = None
    <3>1. ~ToldNo'
      BY <2>3 DEF ToldNo
    <3>2. cancelAt # None => now - Since <= CallTime + Poll /\ Since \in Int
      BY <2>1 DEF RequestIsHeard, Since, TimeTypes
    <3>3. Since' = Since
      BY <2>1 DEF Since
    <3>4. QED
      BY <2>1, <2>3, <3>1, <3>2, <3>3 DEF RequestIsHeard, TimeTypes
  <2>4. QED BY <2>1, <2>2, <2>3
<1>4. CASE Watch
  <2>1. /\ pc = "askDuring" /\ answer # None /\ UNCHANGED <<now, started, cancelAt>>
        /\ \/ Verdict = "running" /\ pc' = "sleep" /\ until' = now + Poll
           \/ pc' = "collect"
    BY <1>4 DEF Watch, clockVars, caseVars
  <2>2. CASE pc' = "collect"
    BY <2>1, <2>2, HeardElsewhere
  <2>3. CASE Verdict = "running" /\ pc' = "sleep" /\ until' = now + Poll
    <3>1. ToldNo
      <4>1. answer \in BOOLEAN
        BY <2>1, Zenon DEF CancelTypes
      <4>2. QED BY <2>1, <2>3, <4>1, RunningIsToldNo
    <3>2. cancelAt # None => until - Since <= CallTime /\ Since \in Int
      BY <2>1, <3>1 DEF RequestIsHeard, Since, TimeTypes
    <3>3. now <= until
      BY <2>1 DEF WaitsEnd, Asking
    <3>4. Since' = Since
      BY <2>1 DEF Since
    <3>5. QED
      BY <2>1, <2>3, <3>2, <3>3, <3>4 DEF RequestIsHeard, TimeTypes
  <2>4. QED BY <2>1, <2>2, <2>3
<1>5. CASE Wake
  <2>1. pc = "sleep" /\ now = until /\ pc' = "poll" /\ UNCHANGED <<now, started, cancelAt>>
    BY <1>5 DEF Wake, clockVars, caseVars
  <2>2. Since' = Since
    BY <2>1 DEF Since
  <2>3. QED BY <2>1, <2>2 DEF RequestIsHeard
<1>6. CASE ServerAnswers
  <2>1. answer' = (cancelAt # None) /\ UNCHANGED <<pc, now, started, until, cancelAt>>
    BY <1>6 DEF ServerAnswers, clockVars, caseVars
  <2>2. ToldNo' => cancelAt = None
    BY <2>1, Zenon DEF ToldNo
  <2>3. Since' = Since
    BY <2>1 DEF Since
  <2>4. UNCHANGED <<pc, now, until, cancelAt>>
    BY <2>1, Zenon
  <2>5. QED BY <2>2, <2>3, <2>4 DEF RequestIsHeard
<1>7. CASE Program
  BY <1>7, HeardStutter DEF Program, Exits, Writes, FileLimit, OomKill, ProcessVars, clockVars,
                            caseVars
<1>8. CASE Tick
  <2>1. /\ pc = "compiling" \/ Asking \/ pc = "sleep"
        /\ now < until /\ now' = now + 1
        /\ UNCHANGED <<pc, started, until, answer, cancelAt>>
    BY <1>8 DEF Tick, Waiting, caseVars
  <2>2. Since' = Since /\ ToldNo' = ToldNo
    BY <2>1 DEF Since, ToldNo
  <2>3. pc # "poll"
    BY <2>1 DEF Asking
  <2>4. cancelAt' # None => cancelAt' <= now'
    BY <2>1 DEF TimeTypes
  <2>5. QED BY <2>1, <2>2, <2>3, <2>4 DEF RequestIsHeard
<1>9. CASE RequestCancel
  <2>1. cancelAt' = now /\ UNCHANGED <<pc, now, started, until, answer>>
    BY <1>9 DEF RequestCancel, caseVars
  <2>2. Since' \in Int /\ Since' >= now
    BY <2>1 DEF Since, TimeTypes
  <2>3. /\ pc = "askDuring" => until <= now + CallTime
        /\ pc = "sleep" => until <= now + Poll
    BY DEF WaitsEnd, Asking
  <2>4. ASSUME NEW s \in Int, s >= now
        PROVE  /\ now - s <= CallTime + Poll
               /\ pc = "sleep" => until - s <= CallTime + Poll
               /\ pc = "askDuring" => until - s <= CallTime /\ until - s <= 2 * CallTime + Poll
    BY <2>3, <2>4 DEF TimeTypes
  <2>5. /\ now - Since' <= CallTime + Poll
        /\ pc = "sleep" => until - Since' <= CallTime + Poll
        /\ pc = "askDuring" => until - Since' <= CallTime /\ until - Since' <= 2 * CallTime + Poll
    BY <2>2, <2>4, Zenon
  <2>6. cancelAt' <= now'
    BY <2>1 DEF TimeTypes
  <2>7. pc' = pc /\ now' = now /\ until' = until
    BY <2>1, Zenon
  <2>8. QED BY <2>5, <2>6, <2>7, Zenon DEF RequestIsHeard
<1>10. QED
  BY <1>1, <1>2, <1>3, <1>4, <1>5, <1>6, <1>7, <1>8, <1>9 DEF RunnerNext, Thread

(* Every step of execute keeps the delay of a request bounded. *)
LEMMA CancelStep == WallInv /\ CancelInv /\ [RunnerNext]_vars => CancelInv'
<1> SUFFICES ASSUME WallInv, CancelInv, [RunnerNext]_vars PROVE CancelInv'
  OBVIOUS
<1> TimeTypes /\ WaitsEnd
  BY DEF WallInv
<1>1. CASE RunnerNext
  BY <1>1, CancelTypesStep, CollectedIsDead, HeardStep DEF CancelInv
<1>2. CASE UNCHANGED vars
  <2>1. CancelTypes'
    BY <1>2, Zenon DEF vars, CancelInv, CancelTypes
  <2>2. pc' = "collect" => ~proc'.alive
    BY <1>2, Zenon DEF vars, CancelInv
  <2>3. UNCHANGED <<pc, now, started, until, answer, cancelAt>>
    BY <1>2, Zenon DEF vars
  <2>4. QED BY <2>1, <2>2, <2>3, HeardStutter DEF CancelInv
<1>3. QED BY <1>1, <1>2

(* The delays at each point of the loop give that of the property. *)
LEMMA CancelFollows == WallInv /\ CancelInv => CancelIsPrompt
<1> SUFFICES ASSUME WallInv, CancelInv, InCase, proc.alive, cancelAt # None
             PROVE  now - Since <= 2 * CallTime + Poll
  BY DEF CancelIsPrompt, Since
<1> USE RunnerAssumption
<1>1. Since \in Int /\ TimeTypes
  BY DEF WallInv, TimeTypes, CancelInv, CancelTypes, Since
<1>2. pc \in {"poll", "askDuring", "sleep"}
  BY DEF InCase, CancelInv
<1>3. pc # "poll" => now <= until
  BY <1>2 DEF WallInv, WaitsEnd, Asking
<1>4. QED
  BY <1>1, <1>2, <1>3 DEF CancelInv, RequestIsHeard, TimeTypes

(* For all lengths of calls and sleeps, and whatever the program and the   *)
(* clock do: a running case whose cancellation was requested is stopped    *)
(* within two cancel_check calls and a sleep.                              *)
THEOREM CancelPrompt == RunnerSpec => []CancelIsPrompt
<1>1. RunnerInit => WallInv /\ CancelInv
  BY WallInit, CancelInit
<1>2. WallInv /\ CancelInv /\ [RunnerNext]_vars => WallInv' /\ CancelInv'
  BY WallStep, CancelStep
<1>3. WallInv /\ CancelInv => CancelIsPrompt
  BY CancelFollows
<1>4. QED BY <1>1, <1>2, <1>3, PTL DEF RunnerSpec

-----------------------------------------------------------------------------
(* What execute keeps besides time: its position, its results, its process *)
(* and its cgroups.                                                        *)

(* The clock and what is read from it are naturals: no process started     *)
(* later than now.                                                         *)
ClockTypes ==
    /\ now \in Nat /\ started \in Nat /\ started <= now
    /\ deadline \in Nat /\ elapsed \in Nat /\ until \in Nat
    /\ limit \in 0..TimeLimit
    /\ cancelAt # None => cancelAt \in Nat

(* Where the thread is in its list of cases.  A deadline is set once the   *)
(* program is compiled.                                                    *)
Progress ==
    /\ pc \in {"idle", "prepare", "compiling", "between", "askBefore", "poll", "askDuring",
               "sleep", "collect", "returned", "raised"}
    /\ n \in 0..MaxCases /\ pos \in 1..(n + 1)
    /\ pc \in {"idle", "prepare", "compiling"} => pos = 1
    /\ pc = "askBefore" \/ InCase => pos <= n
    /\ pc \in {"between", "askBefore"} \/ InCase => deadline > 0

(* status belongs to the current case until a result is returned.  A loop  *)
(* that has stopped a case has not found it out of memory.                 *)
StatusFits ==
    /\ status \in CaseStatus \cup {"running", "compile_error", "system_error"}
    /\ pc \in {"idle", "prepare", "compiling", "poll", "askDuring", "sleep"} => status = "running"
    /\ pc = "collect" => status \in {"running", "cancelled", "output_limit", "time_limit"}

(* The cases before pos are listed, and none of them as cancelled. *)
CasesListed ==
    /\ results \in Seq(CaseResult) /\ Len(results) <= n
    /\ pc # "returned" =>
         Len(results) = pos - 1 /\ \A i \in 1..(pos - 1) : results[i].status # "cancelled"

(* A process is alive while it is waited for or watched, or where a        *)
(* cancel_check has raised during its case.                                *)
ProcessIsWatched ==
    proc.alive => \/ pc = "compiling"
                  \/ pc \in {"poll", "askDuring", "sleep", "raised"} /\ deadline > 0

(* The kernel's count in the cgroup of a case yet to come is zero, and in  *)
(* that of the current case it is about the current process.               *)
CountsAreOwn ==
    /\ groups \in [GroupNames -> Group]
    /\ pc \notin {"returned", "raised"} =>
         \A g \in GroupNames : g # CompileGroup /\ groups[g].oom =>
                                 g < pos \/ (g = pos /\ InCase /\ proc.oom)

RunnerInv ==
    /\ CancelTypes /\ ClockTypes /\ Progress /\ StatusFits
    /\ CasesListed /\ ProcessIsWatched /\ CountsAreOwn /\ MemoryVerdictIsOwn

(* The invariant holds before execute is called. *)
LEMMA RunnerInitially == RunnerInit => RunnerInv
<1> SUFFICES ASSUME RunnerInit PROVE RunnerInv
  OBVIOUS
<1> USE RunnerAssumption
<1>1. CancelTypes
  BY CancelInit DEF CancelInv
<1>2. ClockTypes /\ Progress /\ StatusFits
  BY DEF RunnerInit, ClockTypes, Progress, StatusFits, InCase
<1>3. CasesListed /\ MemoryVerdictIsOwn
  BY DEF RunnerInit, CasesListed, MemoryVerdictIsOwn
<1>4. ProcessIsWatched
  BY DEF RunnerInit, ProcessIsWatched, NoProcess
<1>5. CountsAreOwn
  BY DEF RunnerInit, CountsAreOwn, NoGroup, Group
<1>6. QED BY <1>1, <1>2, <1>3, <1>4, <1>5 DEF RunnerInv

(* Time stays a natural number. *)
LEMMA ClockStep ==
    ASSUME ClockTypes, RunnerNext
    PROVE  ClockTypes'
<1> USE RunnerAssumption
<1>1. CASE Thread \/ Raises
  <2>1. UNCHANGED <<now, cancelAt>>
    BY <1>1 DEF Thread, Raises, Execute, StartCompile, EndCompile, CompileTimesOut, NextCase,
                StopBeforeCase, StartCase, PollProcess, Watch, Wake, Collect, CompileRaises,
                CancelCheckRaises, StartCaseRaises, clockVars
  <2>2. started' \in {started, now}
    BY <1>1 DEF Thread, Raises, Execute, StartCompile, EndCompile, CompileTimesOut, NextCase,
                StopBeforeCase, StartCase, PollProcess, Watch, Wake, Collect, CompileRaises,
                CancelCheckRaises, StartCaseRaises, caseVars
  <2>3. deadline' \in {deadline, now + TotalWall}
    BY <1>1 DEF Thread, Raises, Execute, StartCompile, EndCompile, CompileTimesOut, NextCase,
                StopBeforeCase, StartCase, PollProcess, Watch, Wake, Collect, CompileRaises,
                CancelCheckRaises, StartCaseRaises, caseVars
  <2>4. elapsed' \in {elapsed, now - started}
    BY <1>1 DEF Thread, Raises, Execute, StartCompile, EndCompile, CompileTimesOut, NextCase,
                StopBeforeCase, StartCase, PollProcess, Watch, Wake, Collect, CompileRaises,
                CancelCheckRaises, StartCaseRaises, caseVars
  <2>5. until' \in {until, now + CompileWall, now + CallTime, now + Poll}
    BY <1>1 DEF Thread, Raises, Execute, StartCompile, EndCompile, CompileTimesOut, NextCase, Ask,
                StopBeforeCase, StartCase, PollProcess, Watch, Wake, Collect, CompileRaises,
                CancelCheckRaises, StartCaseRaises
  <2>6. limit' \in 0..TimeLimit
    <3>1. CASE StartCase
      BY <3>1 DEF StartCase, Effective, ClockTypes
    <3>2. CASE ~StartCase
      <4>1. limit' = limit
        BY <1>1, <3>2 DEF Thread, Raises, Execute, StartCompile, EndCompile, CompileTimesOut,
              NextCase, StopBeforeCase, PollProcess, Watch, Wake, Collect, CompileRaises,
              CancelCheckRaises, StartCaseRaises, caseVars
      <4>2. QED BY <4>1 DEF ClockTypes
    <3>3. QED BY <3>1, <3>2
  <2>7. QED
    BY <2>1, <2>2, <2>3, <2>4, <2>5, <2>6 DEF ClockTypes
<1>2. CASE ServerAnswers
  BY <1>2 DEF ServerAnswers, clockVars, caseVars, ClockTypes
<1>3. CASE Program
  BY <1>3 DEF Program, Exits, Writes, FileLimit, OomKill, ProcessVars, clockVars, caseVars,
              ClockTypes
<1>4. CASE Tick
  BY <1>4 DEF Tick, caseVars, ClockTypes
<1>5. CASE RequestCancel
  BY <1>5 DEF RequestCancel, caseVars, ClockTypes
<1>6. QED BY <1>1, <1>2, <1>3, <1>4, <1>5 DEF RunnerNext

(* Steps of the program, the clock and the user leave the thread and its   *)
(* list alone.                                                             *)
LEMMA OthersSteps ==
    ASSUME Program \/ Tick \/ RequestCancel \/ ServerAnswers
    PROVE  UNCHANGED <<runner, n, pc, pos, deadline, status, results>>
  BY DEF Program, Exits, Writes, FileLimit, OomKill, ProcessVars, Tick, RequestCancel,
         ServerAnswers, jobVars, caseVars

(* What the steps of the thread do to its place in the list. *)
LEMMA ThreadSteps ==
    ASSUME Thread \/ Raises
    PROVE  /\ runner' = runner
           /\ n' = n \/ Execute
           /\ pos' = pos \/ (Collect /\ status # "cancelled" /\ pos' = pos + 1 /\ pc' = "between")
           /\ deadline' = deadline \/ (EndCompile /\ deadline' = now + TotalWall)
  BY DEF Thread, Raises, Execute, StartCompile, EndCompile, CompileTimesOut, NextCase,
         StopBeforeCase, StartCase, PollProcess, Watch, Wake, Collect, CompileRaises,
         CancelCheckRaises, StartCaseRaises, jobVars, caseVars, Return

(* The thread stays within its list of cases. *)
LEMMA ProgressStep ==
    ASSUME ClockTypes, Progress, RunnerNext
    PROVE  Progress'
<1> USE RunnerAssumption
<1>1. CASE Execute
  <2>1. pc = "idle" /\ pc' = "prepare" /\ n' \in 1..MaxCases /\ pos' = pos
    BY <1>1 DEF Execute
  <2>2. pos' = 1
    BY <2>1, Zenon DEF Progress
  <2>3. \A m \in 1..MaxCases : m \in 0..MaxCases /\ 1 \in 1..(m + 1)
    OBVIOUS
  <2>4. QED BY <2>1, <2>2, <2>3 DEF Progress, InCase
<1>2. CASE StartCompile \/ CompileTimesOut \/ Raises
  BY <1>2 DEF StartCompile, CompileTimesOut, Raises, CompileRaises, CancelCheckRaises,
              StartCaseRaises, jobVars, caseVars, Progress, InCase
<1>3. CASE EndCompile
  BY <1>3 DEF EndCompile, jobVars, Progress, ClockTypes, InCase
<1>4. CASE NextCase \/ StopBeforeCase
  BY <1>4 DEF NextCase, StopBeforeCase, Ask, Return, jobVars, caseVars, Progress, InCase
<1>5. CASE StartCase
  BY <1>5 DEF StartCase, jobVars, Progress, InCase
<1>6. CASE PollProcess
  BY <1>6 DEF PollProcess, Ask, jobVars, Progress, InCase
<1>7. CASE Watch \/ Wake
  BY <1>7 DEF Watch, Wake, jobVars, caseVars, Progress, InCase
<1>8. CASE Collect
  BY <1>8 DEF Collect, Return, jobVars, caseVars, Progress, InCase
<1>9. CASE Program \/ Tick \/ RequestCancel \/ ServerAnswers
  BY <1>9, OthersSteps DEF Progress, InCase
<1>10. QED
  BY <1>1, <1>2, <1>3, <1>4, <1>5, <1>6, <1>7, <1>8, <1>9 DEF RunnerNext, Thread

(* Values the loop can give to the status of a case it stops. *)
LEMMA Verdicts == Verdict \in {"running", "cancelled", "output_limit", "time_limit"}
  BY DEF Verdict

(* A case that ended by itself is not reported as cancelled. *)
LEMMA ExitStatuses ==
    ExitStatus \in {"completed", "memory_limit", "output_limit", "runtime_error"}
  BY DEF ExitStatus

(* status belongs to the current case. *)
LEMMA StatusStep ==
    ASSUME Progress, StatusFits, RunnerNext
    PROVE  StatusFits'
<1>1. CASE Execute \/ StartCompile \/ Raises
  BY <1>1 DEF Execute, StartCompile, Raises, CompileRaises, CancelCheckRaises, StartCaseRaises,
              StatusFits
<1>2. CASE EndCompile \/ CompileTimesOut
  BY <1>2 DEF EndCompile, CompileTimesOut, StatusFits
<1>3. CASE NextCase \/ StopBeforeCase
  BY <1>3 DEF NextCase, StopBeforeCase, Ask, Return, StatusFits, CaseStatus
<1>4. CASE StartCase
  BY <1>4 DEF StartCase, StatusFits
<1>5. CASE PollProcess \/ Wake
  BY <1>5 DEF PollProcess, Ask, Wake, StatusFits
<1>6. CASE Watch
  BY <1>6, Verdicts DEF Watch, StatusFits, CaseStatus
<1>7. CASE Collect
  BY <1>7 DEF Collect, Return, StatusFits, CaseStatus
<1>8. CASE Program \/ Tick \/ RequestCancel \/ ServerAnswers
  BY <1>8, OthersSteps DEF StatusFits
<1>9. QED
  BY <1>1, <1>2, <1>3, <1>4, <1>5, <1>6, <1>7, <1>8 DEF RunnerNext, Thread

(* Appending cases that were not run. *)
LEMMA CancelledFromTypes ==
    ASSUME NEW done \in Seq(CaseResult), NEW p \in Nat, n \in Nat, p = Len(done) + 1, p <= n + 1
    PROVE  /\ CancelledFrom(p, done) \in Seq(CaseResult)
           /\ Len(CancelledFrom(p, done)) = n
           /\ \A i \in 1..Len(done) : CancelledFrom(p, done)[i] = done[i]
           /\ \A i \in p..n : CancelledFrom(p, done)[i] = NotRun
<1> DEFINE rest == [i \in 1..(n + 1 - p) |-> NotRun]
<1>1. NotRun \in CaseResult
  BY DEF NotRun, CaseResult, CaseStatus
<1>2. n + 1 - p \in Nat
  OBVIOUS
<1>3. rest \in Seq(CaseResult)
  BY <1>1, <1>2, IsASeq
<1>4. Len(rest) = n + 1 - p
  BY <1>2, <1>3, LenProperties, SMT
<1>5. \A i \in 1..(n + 1 - p) : rest[i] = NotRun
  OBVIOUS
<1> HIDE DEF rest
<1>6. CancelledFrom(p, done) = done \o rest
  BY DEF CancelledFrom, rest
<1>7. PICK all : all = done \o rest
  OBVIOUS
<1>8. /\ all \in Seq(CaseResult)
      /\ Len(all) = Len(done) + Len(rest)
      /\ \A i \in 1..Len(all) :
           all[i] = IF i <= Len(done) THEN done[i] ELSE rest[i - Len(done)]
  BY <1>3, <1>7, ConcatProperties, Zenon
<1>9. Len(done) \in Nat
  OBVIOUS
<1>10. Len(all) = n
  BY <1>4, <1>8, <1>9
<1>11. \A i \in 1..Len(done) : all[i] = done[i]
  BY <1>8, <1>9, <1>10
<1>12. ASSUME NEW i \in p..n PROVE all[i] = NotRun
  <2>1. i - Len(done) \in 1..(n + 1 - p) /\ i \in 1..Len(all) /\ ~(i <= Len(done))
    BY <1>9, <1>10
  <2>2. all[i] = rest[i - Len(done)]
    BY <1>8, <2>1
  <2>3. QED BY <1>5, <2>1, <2>2
<1>13. CancelledFrom(p, done) = all
  BY <1>6, <1>7, Zenon
<1>14. QED
  BY <1>8, <1>10, <1>11, <1>12, <1>13, Zenon

(* A case that the loop collects has a result of its own. *)
LEMMA CollectedResult ==
    ASSUME StatusFits, CancelTypes, CountsAreOwn, Progress, pc = "collect"
    PROVE  /\ CaseResultNow \in CaseResult
           /\ CaseResultNow.status = "cancelled" <=> status = "cancelled"
           /\ CaseResultNow.status = "memory_limit" => CaseResultNow.mem
<1> USE RunnerAssumption
<1>1. status \in {"running", "cancelled", "output_limit", "time_limit"}
  BY DEF StatusFits
<1>2. PICK r : r = CaseResultNow
  OBVIOUS
<1>3. /\ r = [status |-> r.status, mem |-> r.mem]
      /\ r.status = IF status = "running" THEN ExitStatus ELSE status
      /\ r.mem = (proc.oom \/ proc.rc = "bad_alloc")
  BY <1>2 DEF CaseResultNow
<1>4. r.mem \in BOOLEAN
  BY <1>3, Zenon
<1>5. r.status \in CaseStatus
  BY <1>1, <1>3, ExitStatuses DEF CaseStatus
<1>6. r \in CaseResult
  BY <1>3, <1>4, <1>5 DEF CaseResult
<1>7. r.status = "cancelled" <=> status = "cancelled"
  BY <1>1, <1>3, ExitStatuses
<1>8. ASSUME r.status = "memory_limit" PROVE proc.oom \/ proc.rc = "bad_alloc"
  <2>1. ExitStatus = "memory_limit"
    BY <1>1, <1>3, <1>8
  <2>2. groups[pos].oom \/ proc.rc = "bad_alloc"
    BY <2>1 DEF ExitStatus, CaseGroup
  <2>3. pos \in GroupNames /\ pos # CompileGroup
    BY DEF Progress, InCase, GroupNames, CompileGroup
  <2>4. groups[pos].oom => proc.oom
    BY <2>3 DEF CountsAreOwn, Progress
  <2>5. QED BY <2>2, <2>4
<1>9. QED BY <1>2, <1>3, <1>6, <1>7, <1>8

(* The cases before pos are listed, and none of them as cancelled: a       *)
(* cancelled one is the last to be run.                                    *)
LEMMA ListedStep ==
    ASSUME CancelTypes, Progress, StatusFits, CountsAreOwn, CasesListed, RunnerNext
    PROVE  CasesListed'
<1> USE RunnerAssumption
<1>1. CASE results' = results /\ n' = n /\ pos' = pos /\ pc # "returned"
  BY <1>1 DEF CasesListed
<1>2. CASE Execute
  <2>1. Len(results) = 0 /\ pos = 1
    BY <1>2 DEF Execute, CasesListed, Progress
  <2>2. n' \in 1..MaxCases /\ pos' = pos /\ results' = results
    BY <1>2 DEF Execute
  <2>3. QED BY <2>1, <2>2 DEF CasesListed
<1>3. CASE StopBeforeCase
  <2>1. /\ pc = "askBefore" /\ pc' = "returned" /\ n' = n
        /\ results' = CancelledFrom(pos, results)
    BY <1>3 DEF StopBeforeCase, Return, jobVars
  <2>2. pos \in Nat /\ n \in Nat /\ pos = Len(results) + 1 /\ pos <= n + 1
    BY <2>1 DEF CasesListed, Progress
  <2>3. results' \in Seq(CaseResult) /\ Len(results') = n
    BY <2>1, <2>2, CancelledFromTypes, Zenon DEF CasesListed
  <2>4. QED BY <2>1, <2>2, <2>3 DEF CasesListed
<1>4. CASE Collect
  <2>1. PICK r, listed : r = CaseResultNow /\ listed = Append(results, r)
    OBVIOUS
  <2>2. r \in CaseResult /\ (r.status = "cancelled" <=> status = "cancelled")
    BY <1>4, <2>1, CollectedResult, Zenon DEF Collect
  <2>3. pos \in 1..n /\ n \in Nat /\ Len(results) = pos - 1
    BY <1>4 DEF Collect, Progress, InCase, CasesListed
  <2>4. /\ listed \in Seq(CaseResult) /\ Len(listed) = pos
        /\ listed[pos] = r /\ \A i \in 1..(pos - 1) : listed[i] = results[i]
    BY <2>1, <2>2, <2>3, AppendProperties DEF CasesListed
  <2>5. n' = n
    BY <1>4 DEF Collect, jobVars
  <2>6. \/ pc' = "returned" /\ pos' = pos /\ results' = CancelledFrom(pos + 1, listed)
        \/ status # "cancelled" /\ pc' = "between" /\ pos' = pos + 1 /\ results' = listed
    BY <1>4, <2>1 DEF Collect, Return
  <2>7. CASE pc' = "returned" /\ pos' = pos /\ results' = CancelledFrom(pos + 1, listed)
    <3>1. pos + 1 \in Nat /\ pos + 1 = Len(listed) + 1 /\ pos + 1 <= n + 1
      BY <2>3, <2>4
    <3>2. results' \in Seq(CaseResult) /\ Len(results') = n
      BY <2>3, <2>4, <2>7, <3>1, CancelledFromTypes, Zenon
    <3>3. QED BY <2>3, <2>5, <2>7, <3>2 DEF CasesListed
  <2>8. CASE status # "cancelled" /\ pc' = "between" /\ pos' = pos + 1 /\ results' = listed
    <3>1. \A i \in 1..pos : listed[i].status # "cancelled"
      <4>1. SUFFICES ASSUME NEW i \in 1..pos PROVE listed[i].status # "cancelled"
        OBVIOUS
      <4>2. CASE i = pos
        BY <2>2, <2>4, <2>8, <4>2
      <4>3. CASE i # pos
        <5>1. i \in 1..(pos - 1)
          BY <2>3, <4>3
        <5>2. results[i].status # "cancelled"
          BY <1>4, <5>1 DEF Collect, CasesListed
        <5>3. QED BY <2>4, <5>1, <5>2
      <4>4. QED BY <4>2, <4>3
    <3>2. pos' - 1 = pos
      BY <2>3, <2>8
    <3>3. QED BY <2>3, <2>4, <2>5, <2>8, <3>1, <3>2 DEF CasesListed
  <2>9. QED BY <2>6, <2>7, <2>8
<1>5. CASE NextCase
  <2>1. results' = results /\ n' = n /\ pos' = pos /\ pc # "returned"
    BY <1>5 DEF NextCase, Return, jobVars
  <2>2. QED BY <1>1, <2>1
<1>6. CASE pc = "returned" /\ (Program \/ Tick \/ RequestCancel \/ ServerAnswers)
  BY <1>6, OthersSteps DEF CasesListed
<1>7. QED
  <2>1. CASE Program \/ Tick \/ RequestCancel \/ ServerAnswers
    BY <1>1, <1>6, <2>1, OthersSteps
  <2>2. CASE (Thread \/ Raises) /\ ~Execute /\ ~StopBeforeCase /\ ~Collect /\ ~NextCase
    <3>1. results' = results /\ n' = n /\ pos' = pos /\ pc # "returned"
      BY <2>2 DEF Thread, Raises, StartCompile, EndCompile, CompileTimesOut,
                  StartCase, PollProcess, Watch, Wake, CompileRaises,
                  CancelCheckRaises, StartCaseRaises, jobVars, Return, Asking
    <3>2. QED BY <1>1, <3>1
  <2>3. QED
    BY <1>2, <1>3, <1>4, <1>5, <2>1, <2>2 DEF RunnerNext, Thread

(* No process is left behind, but by a cancel_check that raises. *)
LEMMA WatchedStep ==
    ASSUME CancelTypes, Progress, ClockTypes, ProcessIsWatched, RunnerNext
    PROVE  ProcessIsWatched'
<1> USE RunnerAssumption
<1>1. CASE proc' \in {NoProcess, Terminated(proc)}
  <2>1. ~proc'.alive
    BY <1>1, ProcessTypes DEF CancelTypes, NoProcess
  <2>2. QED BY <2>1 DEF ProcessIsWatched
<1>2. CASE StartCompile
  BY <1>2 DEF StartCompile, ProcessIsWatched
<1>3. CASE StartCase
  BY <1>3 DEF StartCase, ProcessIsWatched, Progress
<1>4. CASE Execute \/ NextCase \/ StopBeforeCase \/ StartCaseRaises
  <2>1. proc' = proc /\ pc \in {"idle", "between", "askBefore"}
    BY <1>4 DEF Execute, NextCase, StopBeforeCase, StartCaseRaises
  <2>2. QED BY <2>1 DEF ProcessIsWatched
<1>5. CASE CancelCheckRaises
  BY <1>5 DEF CancelCheckRaises, caseVars, Asking, ProcessIsWatched
<1>6. CASE PollProcess \/ Wake
  BY <1>6 DEF PollProcess, Ask, Wake, caseVars, ProcessIsWatched
<1>7. CASE Watch /\ proc' = proc
  BY <1>7, ProcessTypes DEF Watch, caseVars, ProcessIsWatched, CancelTypes
<1>8. CASE Program
  <2>1. proc.alive
    BY <1>8 DEF Program
  <2>2. QED
    BY <1>8, <2>1, OthersSteps DEF ProcessIsWatched
<1>9. CASE Tick \/ RequestCancel \/ ServerAnswers
  BY <1>9, OthersSteps DEF Tick, RequestCancel, ServerAnswers, ProcessIsWatched
<1>10. QED
  BY <1>1, <1>2, <1>3, <1>4, <1>5, <1>6, <1>7, <1>8, <1>9
     DEF RunnerNext, Thread, Raises, EndCompile, CompileTimesOut, Watch, Collect, CompileRaises

(* Opening a cgroup keeps its count, closing one changes no other. *)
LEMMA GroupSteps ==
    ASSUME groups \in [GroupNames -> Group], NEW g \in GroupNames
    PROVE  /\ OpenGroup(g) => /\ groups' \in [GroupNames -> Group]
                              /\ \A h \in GroupNames : groups'[h].oom = groups[h].oom
           /\ CloseGroup(g) => /\ groups' \in [GroupNames -> Group]
                               /\ \A h \in GroupNames : groups'[h].oom => groups[h].oom
<1>1. \A k \in Group : [k EXCEPT !.dir = TRUE] \in Group /\ [k EXCEPT !.dir = TRUE].oom = k.oom
  BY DEF Group
<1>2. NoGroup \in Group /\ ~NoGroup.oom
  BY DEF NoGroup, Group
<1>3. ASSUME OpenGroup(g)
      PROVE  /\ groups' \in [GroupNames -> Group]
             /\ \A h \in GroupNames : groups'[h].oom = groups[h].oom
  <2>1. groups[g] \in Group
    OBVIOUS
  <2>2. PICK k \in Group : k = [groups[g] EXCEPT !.dir = TRUE] /\ k.oom = groups[g].oom
    BY <1>1, <2>1
  <2>3. groups' = groups \/ groups' = [groups EXCEPT ![g] = k]
    BY <1>3, <2>2 DEF OpenGroup
  <2>4. QED BY <2>2, <2>3
<1>4. ASSUME CloseGroup(g)
      PROVE  /\ groups' \in [GroupNames -> Group]
             /\ \A h \in GroupNames : groups'[h].oom => groups[h].oom
  <2>1. PICK k \in Group : k = NoGroup /\ ~k.oom
    BY <1>2
  <2>2. groups' = groups \/ groups' = [groups EXCEPT ![g] = k]
    BY <1>4, <2>1 DEF CloseGroup
  <2>3. QED BY <2>1, <2>2
<1>5. QED BY <1>3, <1>4

(* A count once made never passes to another case, although its directory  *)
(* may stay: each case has a name of its own, and only a process that is   *)
(* still watched can be killed by the kernel.                              *)
LEMMA CountsStep ==
    ASSUME CancelTypes, Progress, ProcessIsWatched, CountsAreOwn, RunnerNext
    PROVE  CountsAreOwn'
<1> USE RunnerAssumption
<1>1. /\ groups \in [GroupNames -> Group] /\ CompileGroup \in GroupNames
      /\ pc = "askBefore" \/ InCase => CaseGroup(pos) \in GroupNames
  BY DEF CountsAreOwn, CompileGroup, CaseGroup, GroupNames, Progress
<1>2. CASE pc' \in {"returned", "raised"} /\ ~Program
  <2>1. \/ groups' = groups
        \/ \E g \in GroupNames : OpenGroup(g) \/ CloseGroup(g)
    BY <1>1, <1>2 DEF RunnerNext, Thread, Raises, Execute, StartCompile, EndCompile,
          CompileTimesOut, NextCase, Ask, StopBeforeCase, StartCase, PollProcess, Watch, Wake,
          Collect, CompileRaises, CancelCheckRaises, StartCaseRaises, Tick, RequestCancel,
          ServerAnswers, InCase
  <2>2. groups' \in [GroupNames -> Group]
    BY <1>1, <2>1, GroupSteps
  <2>3. QED BY <1>2, <2>2 DEF CountsAreOwn
<1>3. CASE StartCompile
  <2>1. pc = "prepare" /\ pc' = "compiling" /\ pos' = pos /\ OpenGroup(CompileGroup)
    BY <1>3 DEF StartCompile
  <2>2. QED BY <1>1, <2>1, GroupSteps DEF CountsAreOwn, InCase
<1>4. CASE EndCompile /\ pc' = "between"
  <2>1. pc = "compiling" /\ pos' = pos /\ CloseGroup(CompileGroup)
    BY <1>4 DEF EndCompile
  <2>2. QED BY <1>1, <1>4, <2>1, GroupSteps DEF CountsAreOwn, InCase
<1>5. CASE StartCase
  <2>1. pc = "askBefore" /\ pc' = "poll" /\ pos' = pos /\ OpenGroup(CaseGroup(pos))
    BY <1>5 DEF StartCase
  <2>2. QED BY <1>1, <2>1, GroupSteps DEF CountsAreOwn, InCase
<1>6. CASE Collect /\ pc' = "between"
  <2>1. pc = "collect" /\ pos' = pos + 1 /\ CloseGroup(CaseGroup(pos))
    BY <1>6 DEF Collect, Return
  <2>2. groups' \in [GroupNames -> Group] /\ \A h \in GroupNames : groups'[h].oom => groups[h].oom
    BY <1>1, <2>1, GroupSteps DEF InCase
  <2>3. \A g \in GroupNames : g # CompileGroup /\ groups[g].oom => g < pos \/ g = pos
    BY <2>1 DEF CountsAreOwn
  <2>4. pos \in Int /\ GroupNames \subseteq Int
    BY DEF Progress, GroupNames
  <2>5. \A g \in GroupNames : g # CompileGroup /\ groups'[g].oom => g < pos'
    BY <2>1, <2>2, <2>3, <2>4
  <2>6. QED BY <2>2, <2>5 DEF CountsAreOwn
<1>7. CASE /\ groups' = groups /\ pos' = pos /\ proc'.oom = proc.oom
           /\ pc \notin {"returned", "raised"} /\ (InCase => InCase')
  BY <1>7 DEF CountsAreOwn
<1>8. CASE Watch
  <2>1. /\ groups' = groups /\ pos' = pos /\ pc = "askDuring" /\ pc' \in {"sleep", "collect"}
        /\ proc' \in {proc, Terminated(proc)}
    BY <1>8 DEF Watch
  <2>2. proc'.oom = proc.oom
    BY <2>1 DEF Terminated, CancelTypes, Process
  <2>3. QED BY <1>7, <2>1, <2>2 DEF InCase
<1>9. CASE Execute \/ NextCase \/ PollProcess \/ Wake \/ Tick \/ RequestCancel \/ ServerAnswers
  <2>1. groups' = groups /\ pos' = pos /\ proc' = proc
    BY <1>9 DEF Execute, NextCase, PollProcess, Wake, Tick, RequestCancel, ServerAnswers
  <2>2. pc \in {"returned", "raised"} => pc' = pc
    BY <1>9 DEF Execute, NextCase, PollProcess, Wake, Tick, RequestCancel, ServerAnswers
  <2>3. InCase => InCase'
    BY <1>9 DEF Execute, NextCase, PollProcess, Ask, Wake, Tick, RequestCancel, ServerAnswers,
                InCase
  <2>4. QED BY <1>7, <2>1, <2>2, <2>3 DEF CountsAreOwn
<1>10. CASE Program
  <2>1. proc.alive /\ pc \notin {"returned", "raised"} /\ pc' = pc /\ pos' = pos
    BY <1>10, OthersSteps DEF Program
  <2>2. CASE groups' = groups /\ proc'.oom = proc.oom
    BY <1>7, <2>1, <2>2 DEF InCase
  <2>3. CASE OomKill
    <3>1. PICK g : g = GroupNow
      OBVIOUS
    <3>2. g \in GroupNames /\ (g = CompileGroup \/ (g = pos /\ InCase))
      <4>1. CASE pc = "compiling"
        BY <1>1, <3>1, <4>1 DEF GroupNow
      <4>2. CASE pc # "compiling"
        <5>1. InCase
          BY <2>1, <4>2 DEF ProcessIsWatched, InCase
        <5>2. g = CaseGroup(pos)
          BY <3>1, <4>2 DEF GroupNow
        <5>3. QED BY <1>1, <5>1, <5>2 DEF CaseGroup
      <4>3. QED BY <4>1, <4>2
    <3>3. groups' = [groups EXCEPT ![g].oom = TRUE]
      BY <2>3, <3>1 DEF OomKill
    <3>4. \A k \in Group : [k EXCEPT !.oom = TRUE] \in Group
      BY DEF Group
    <3>5. groups' \in [GroupNames -> Group] /\ \A h \in GroupNames : h # g => groups'[h] = groups[h]
      BY <1>1, <3>2, <3>3, <3>4
    <3>6. proc'.oom
      BY <2>3 DEF OomKill, CancelTypes, Process
    <3>7. QED BY <2>1, <3>2, <3>5, <3>6 DEF CountsAreOwn, InCase
  <2>4. CASE Exits \/ Writes \/ FileLimit
    <3>1. groups' = groups /\ proc'.oom = proc.oom
      BY <2>4 DEF Exits, Writes, FileLimit, CancelTypes, Process
    <3>2. QED BY <2>2, <3>1
  <2>5. QED BY <1>10, <2>3, <2>4 DEF Program
<1>11. QED
  <2>1. EndCompile => pc' \in {"between", "returned"}
    BY DEF EndCompile
  <2>2. Collect => pc' \in {"between", "returned"}
    BY DEF Collect, Return
  <2>3. CompileTimesOut \/ StopBeforeCase \/ Raises => pc' \in {"returned", "raised"}
    BY DEF CompileTimesOut, StopBeforeCase, Return, Raises, CompileRaises, CancelCheckRaises,
           StartCaseRaises
  <2>4. QED
    BY <1>2, <1>3, <1>4, <1>5, <1>6, <1>8, <1>9, <1>10, <2>1, <2>2, <2>3 DEF RunnerNext, Thread

(* Only the case that is collected gets a new verdict. *)
LEMMA VerdictStep ==
    ASSUME CancelTypes, Progress, StatusFits, CasesListed, CountsAreOwn, MemoryVerdictIsOwn,
           RunnerNext
    PROVE  MemoryVerdictIsOwn'
<1> USE RunnerAssumption
<1> DEFINE Own(list) == \A i \in 1..Len(list) : list[i].status = "memory_limit" => list[i].mem
<1>1. \A list \in Seq(CaseResult) : DOMAIN list = 1..Len(list)
  OBVIOUS
<1>2. results \in Seq(CaseResult) /\ Own(results)
  BY <1>1 DEF CasesListed, MemoryVerdictIsOwn
<1>3. results' \in Seq(CaseResult)
  BY ListedStep DEF CasesListed
<1>4. \A done \in Seq(CaseResult), p \in Nat :
        Own(done) /\ p = Len(done) + 1 /\ p <= n + 1 => Own(CancelledFrom(p, done))
  <2>1. SUFFICES ASSUME NEW done \in Seq(CaseResult), NEW p \in Nat,
                        Own(done), p = Len(done) + 1, p <= n + 1
                 PROVE  Own(CancelledFrom(p, done))
    OBVIOUS
  <2>2. n \in Nat
    BY DEF Progress
  <2>3. PICK all : all = CancelledFrom(p, done)
    OBVIOUS
  <2>4. /\ Len(all) = n
        /\ \A i \in 1..Len(done) : all[i] = done[i]
        /\ \A i \in p..n : all[i] = NotRun
    <3>1. /\ done \in Seq(CaseResult) /\ p \in Nat /\ n \in Nat
          /\ p = Len(done) + 1 /\ p <= n + 1
      BY <2>1, <2>2
    <3>2. QED BY <2>3, <3>1, CancelledFromTypes, Zenon
  <2>5. NotRun.status # "memory_limit"
    BY DEF NotRun
  <2>6. Own(all)
    BY <2>1, <2>2, <2>4, <2>5
  <2>7. QED BY <2>3, <2>6, Zenon
<1>5. Own(results')
  <2>1. CASE results' = results
    BY <1>2, <2>1
  <2>2. CASE StopBeforeCase
    <3>1. results' = CancelledFrom(pos, results)
      BY <2>2 DEF StopBeforeCase, Return
    <3>2. pos \in Nat /\ pos = Len(results) + 1 /\ pos <= n + 1
      BY <2>2 DEF StopBeforeCase, CasesListed, Progress
    <3>3. QED BY <1>2, <1>4, <3>1, <3>2, Zenon
  <2>3. CASE Collect
    <3>1. PICK r, listed : r = CaseResultNow /\ listed = Append(results, r)
      OBVIOUS
    <3>2. r \in CaseResult /\ (r.status = "memory_limit" => r.mem)
      BY <2>3, <3>1, CollectedResult, Zenon DEF Collect
    <3>3. /\ listed \in Seq(CaseResult) /\ Len(listed) = Len(results) + 1
          /\ listed[Len(results) + 1] = r
          /\ \A i \in 1..Len(results) : listed[i] = results[i]
      BY <1>2, <3>1, <3>2, AppendProperties
    <3>4. pos \in Nat /\ Len(results) + 1 = pos /\ pos <= n /\ n \in Nat
      BY <2>3 DEF Collect, CasesListed, Progress, InCase
    <3>5. Own(listed)
      BY <1>2, <3>2, <3>3, <3>4
    <3>6. results' = listed \/ results' = CancelledFrom(pos + 1, listed)
      BY <2>3, <3>1 DEF Collect, Return
    <3>7. pos + 1 \in Nat /\ pos + 1 = Len(listed) + 1 /\ pos + 1 <= n + 1
      BY <3>3, <3>4
    <3>8. QED BY <1>4, <3>3, <3>5, <3>6, <3>7, Zenon
  <2>4. CASE ~StopBeforeCase /\ ~Collect
    <3>1. results' = results
      BY <2>4, OthersSteps DEF RunnerNext, Thread, Raises, Execute, StartCompile, EndCompile,
          CompileTimesOut, NextCase, Return, StartCase, PollProcess, Watch, Wake, CompileRaises,
          CancelCheckRaises, StartCaseRaises
    <3>2. QED BY <2>1, <3>1
  <2>5. QED BY <2>2, <2>3, <2>4
<1>6. QED BY <1>1, <1>3, <1>5 DEF MemoryVerdictIsOwn

(* Every step of execute keeps the invariant. *)
LEMMA RunnerStep == WallInv /\ RunnerInv /\ [RunnerNext]_vars => RunnerInv'
<1> SUFFICES ASSUME WallInv, RunnerInv, [RunnerNext]_vars PROVE RunnerInv'
  OBVIOUS
<1>1. CASE RunnerNext
  <2>1. TimeTypes
    BY DEF WallInv
  <2>2. CancelTypes'
    BY <1>1, <2>1, CancelTypesStep DEF RunnerInv
  <2>3. ClockTypes' /\ Progress' /\ StatusFits'
    BY <1>1, ClockStep, ProgressStep, StatusStep DEF RunnerInv
  <2>4. CasesListed' /\ ProcessIsWatched' /\ CountsAreOwn' /\ MemoryVerdictIsOwn'
    BY <1>1, ListedStep, WatchedStep, CountsStep, VerdictStep DEF RunnerInv
  <2>5. QED BY <2>2, <2>3, <2>4 DEF RunnerInv
<1>2. CASE UNCHANGED vars
  <2>1. UNCHANGED <<n, pc, pos, now, started, deadline, limit, elapsed, until, answer,
                    status, results, proc, groups, cancelAt>>
    BY <1>2, Zenon DEF vars
  <2>2. CancelTypes' /\ ClockTypes'
    BY <2>1, Zenon DEF RunnerInv, CancelTypes, ClockTypes
  <2>3. Progress' /\ StatusFits'
    BY <2>1, Zenon DEF RunnerInv, Progress, StatusFits, InCase
  <2>4. CasesListed' /\ ProcessIsWatched'
    BY <2>1, Zenon DEF RunnerInv, CasesListed, ProcessIsWatched
  <2>5. CountsAreOwn' /\ MemoryVerdictIsOwn'
    BY <2>1, Zenon DEF RunnerInv, CountsAreOwn, MemoryVerdictIsOwn, InCase
  <2>6. QED BY <2>2, <2>3, <2>4, <2>5 DEF RunnerInv
<1>3. QED BY <1>1, <1>2

(* The invariant holds whenever execute is. *)
LEMMA RunnerInvAlways == RunnerSpec => [](WallInv /\ RunnerInv)
<1>1. RunnerInit => WallInv /\ RunnerInv
  BY WallInit, RunnerInitially
<1>2. WallInv /\ RunnerInv /\ [RunnerNext]_vars => WallInv' /\ RunnerInv'
  BY WallStep, RunnerStep
<1>3. QED BY <1>1, <1>2, PTL DEF RunnerSpec

(* Every variable keeps its type, no more results are listed than there    *)
(* are cases, and when execute is over so is every process it started,     *)
(* unless the cancel_check of a running case raised.                       *)
THEOREM ProcessesAreWaitedFor == RunnerSpec => []RunnerConsistent
<1>1. ASSUME RunnerInv PROVE RunnerConsistent
  <2>1. answer \in {None, TRUE, FALSE}
    BY <1>1, Zenon DEF RunnerInv, CancelTypes
  <2>2. cancelAt \in Nat \cup {None}
    BY <1>1, Zenon DEF RunnerInv, ClockTypes
  <2>3. {now, started, deadline, elapsed, until} \subseteq Nat /\ limit \in 0..TimeLimit
    BY <1>1 DEF RunnerInv, ClockTypes
  <2>4. /\ n \in 0..MaxCases /\ pos \in 1..(n + 1)
        /\ pc \in {"idle", "prepare", "compiling", "between", "askBefore", "poll", "askDuring",
                   "sleep", "collect", "returned", "raised"}
        /\ status \in CaseStatus \cup {"running", "compile_error", "system_error"}
    BY <1>1 DEF RunnerInv, Progress, StatusFits
  <2>5. /\ results \in Seq(CaseResult) /\ Len(results) <= n
        /\ proc \in Process /\ groups \in [GroupNames -> Group]
    BY <1>1 DEF RunnerInv, CancelTypes, CasesListed, CountsAreOwn
  <2>6. RunnerTypeOK
    BY <2>1, <2>2, <2>3, <2>4, <2>5, Zenon DEF RunnerTypeOK
  <2>7. LeftBehindOnlyInCase
    BY <1>1 DEF RunnerInv, ProcessIsWatched, LeftBehindOnlyInCase
  <2>8. QED BY <2>6, <2>7 DEF RunnerConsistent
<1>2. QED BY <1>1, RunnerInvAlways, PTL

(* A case is reported as out of memory only if its own process was,        *)
(* whatever cgroups could not be removed.                                  *)
THEOREM MemoryVerdicts == RunnerSpec => []MemoryVerdictIsOwn
<1>1. RunnerInv => MemoryVerdictIsOwn
  BY DEF RunnerInv
<1>2. QED BY <1>1, RunnerInvAlways, PTL

-----------------------------------------------------------------------------
(* Runner implements Execution.                                            *)

(* How many of the listed cases ran. *)
RanIn(list) == Cardinality({p \in DOMAIN list : list[p].status # "cancelled"})

(* What the caller sees: the value that Abstract substitutes for run. *)
View(at, cases, list, final) ==
    CASE at = "idle" -> [at |-> "idle"]
      [] at = "prepare" -> [at |-> "prepare", n |-> cases]
      [] at = "compiling" -> [at |-> "compile", n |-> cases]
      [] at \in {"between", "askBefore"} -> [at |-> "run", n |-> cases, ran |-> RanIn(list)]
      [] at \in {"poll", "askDuring", "sleep", "collect"} ->
           [at |-> "case", n |-> cases, ran |-> RanIn(list)]
      [] at = "returned" -> [at |-> "returned", n |-> cases, status |-> final,
                             reported |-> Len(list), ran |-> RanIn(list)]
      [] at = "raised" -> [at |-> "raised"]

(* The steps of Execution that execute takes, on values of run. *)
RunStep(a, b) ==
    \/ a = b
    \/ a.at = "idle" /\ \E m \in 1..MaxCases : b = [at |-> "prepare", n |-> m]
    \/ a.at = "prepare" /\ b = [at |-> "compile", n |-> a.n]
    \/ a.at = "compile" /\ b = [at |-> "run", n |-> a.n, ran |-> 0]
    \/ a.at = "compile" /\ \E final \in {"compile_error", "system_error"} :
         b = [at |-> "returned", n |-> a.n, status |-> final, reported |-> 0, ran |-> 0]
    \/ a.at = "run" /\ a.ran < a.n /\ b = [at |-> "case", n |-> a.n, ran |-> a.ran]
    \/ a.at = "case" /\ b = [at |-> "run", n |-> a.n, ran |-> a.ran + 1]
    \/ a.at = "run" /\ b = [at |-> "returned", n |-> a.n, status |-> "completed",
                            reported |-> a.n, ran |-> a.ran]
    \/ /\ a.at \in {"run", "case"} /\ a.ran < a.n
       /\ b = [at |-> "returned", n |-> a.n, status |-> "cancelled",
               reported |-> a.n, ran |-> a.ran]
    \/ a.at # "idle" /\ b = [at |-> "raised"]

(* The value of run at each point of execute. *)
LEMMA ViewValues ==
    ASSUME NEW cases, NEW list, NEW final
    PROVE  /\ View("idle", cases, list, final) = [at |-> "idle"]
           /\ View("prepare", cases, list, final) = [at |-> "prepare", n |-> cases]
           /\ View("compiling", cases, list, final) = [at |-> "compile", n |-> cases]
           /\ \A at \in {"between", "askBefore"} :
                View(at, cases, list, final) = [at |-> "run", n |-> cases, ran |-> RanIn(list)]
           /\ \A at \in {"poll", "askDuring", "sleep", "collect"} :
                View(at, cases, list, final) = [at |-> "case", n |-> cases, ran |-> RanIn(list)]
           /\ View("returned", cases, list, final) =
                [at |-> "returned", n |-> cases, status |-> final,
                 reported |-> Len(list), ran |-> RanIn(list)]
           /\ View("raised", cases, list, final) = [at |-> "raised"]
  BY DEF View

(* If the first k cases ran and the others did not, k ran. *)
LEMMA RanCount ==
    ASSUME NEW list \in Seq(CaseResult), NEW k \in 0..Len(list),
           \A i \in 1..k : list[i].status # "cancelled",
           \A i \in (k + 1)..Len(list) : list[i].status = "cancelled"
    PROVE  RanIn(list) = k
<1>1. {p \in DOMAIN list : list[p].status # "cancelled"} = 1..k
  OBVIOUS
<1>2. Cardinality(1..k) = IF 1 > k THEN 0 ELSE k - 1 + 1
  BY FS_Interval
<1>3. Cardinality(1..k) = k
  BY <1>2
<1>4. QED BY <1>1, <1>3 DEF RanIn

(* Before execute returns, the cases before pos have run. *)
LEMMA RanSoFar ==
    ASSUME NEW list \in Seq(CaseResult), NEW p \in Nat, Len(list) = p - 1,
           \A i \in 1..(p - 1) : list[i].status # "cancelled"
    PROVE  RanIn(list) = p - 1
  BY RanCount

(* Listing the rest as cancelled counts no case as run. *)
LEMMA RanWithRest ==
    ASSUME NEW done \in Seq(CaseResult), NEW p \in Nat, n \in Nat, p = Len(done) + 1, p <= n + 1,
           NEW k \in 0..Len(done),
           \A i \in 1..k : done[i].status # "cancelled",
           \A i \in (k + 1)..Len(done) : done[i].status = "cancelled"
    PROVE  Len(CancelledFrom(p, done)) = n /\ RanIn(CancelledFrom(p, done)) = k
<1>1. PICK all : all = CancelledFrom(p, done)
  OBVIOUS
<1>2. /\ all \in Seq(CaseResult) /\ Len(all) = n
      /\ \A i \in 1..Len(done) : all[i] = done[i]
      /\ \A i \in p..n : all[i] = NotRun
  BY <1>1, CancelledFromTypes, Zenon
<1>3. NotRun.status = "cancelled"
  BY DEF NotRun
<1>4. k \in 0..Len(all) /\ \A i \in 1..k : all[i].status # "cancelled"
  BY <1>2
<1>5. \A i \in (k + 1)..Len(all) : all[i].status = "cancelled"
  <2>1. SUFFICES ASSUME NEW i \in (k + 1)..n PROVE all[i].status = "cancelled"
    BY <1>2
  <2>2. CASE i \in 1..Len(done)
    BY <1>2, <2>2
  <2>3. CASE i \in p..n
    BY <1>2, <1>3, <2>3
  <2>4. QED BY <2>2, <2>3
<1>6. RanIn(all) = k
  BY <1>2, <1>4, <1>5, RanCount
<1>7. QED BY <1>1, <1>2, <1>6, Zenon

(* Every step of execute shows its caller a step of Execution or nothing. *)
LEMMA ExecutionStep ==
    ASSUME RunnerInv, RunnerInv', RunnerNext
    PROVE  RunStep(View(pc, n, results, status), View(pc', n', results', status'))
<1> DEFINE now0 == View(pc, n, results, status)
           next == View(pc', n', results', status')
<1>1. /\ results \in Seq(CaseResult) /\ pos \in Nat /\ n \in Nat /\ pos <= n + 1
      /\ pc # "returned" => /\ Len(results) = pos - 1
                            /\ \A i \in 1..(pos - 1) : results[i].status # "cancelled"
                            /\ RanIn(results) = pos - 1
      /\ pc = "askBefore" \/ InCase => pos <= n
  BY RanSoFar DEF RunnerInv, CasesListed, Progress
<1>2. CASE UNCHANGED <<n, results, status>> /\ (pc' = pc \/ (InCase /\ InCase'))
  <2>1. now0 = next
    BY <1>2, ViewValues DEF InCase
  <2>2. QED BY <2>1 DEF RunStep
<1>3. CASE Raises
  <2>1. pc' = "raised" /\ pc \in {"prepare", "compiling", "askBefore", "askDuring"}
    BY <1>3 DEF Raises, CompileRaises, CancelCheckRaises, StartCaseRaises, Asking
  <2>2. next = [at |-> "raised"] /\ now0.at # "idle"
    BY <2>1, ViewValues
  <2>3. QED BY <2>2 DEF RunStep
<1>4. CASE Execute
  <2>1. pc = "idle" /\ pc' = "prepare" /\ n' \in 1..MaxCases
    BY <1>4 DEF Execute
  <2>2. now0 = [at |-> "idle"] /\ next = [at |-> "prepare", n |-> n']
    BY <2>1, ViewValues
  <2>3. QED BY <2>1, <2>2 DEF RunStep
<1>5. CASE StartCompile
  <2>1. pc = "prepare" /\ pc' = "compiling" /\ n' = n
    BY <1>5 DEF StartCompile, jobVars
  <2>2. now0 = [at |-> "prepare", n |-> n] /\ next = [at |-> "compile", n |-> n]
    BY <2>1, ViewValues
  <2>3. QED BY <2>2 DEF RunStep
<1>6. CASE EndCompile \/ CompileTimesOut
  <2>1. /\ pc = "compiling" /\ n' = n /\ results' = results
        /\ \/ pc' = "between"
           \/ pc' = "returned" /\ status' \in {"compile_error", "system_error"}
    BY <1>6 DEF EndCompile, CompileTimesOut, jobVars
  <2>2. now0 = [at |-> "compile", n |-> n]
    BY <2>1, ViewValues
  <2>3. Len(results) = 0 /\ RanIn(results) = 0
    BY <1>1, <2>1 DEF RunnerInv, Progress
  <2>4. CASE pc' = "between"
    <3>1. next = [at |-> "run", n |-> n, ran |-> 0]
      BY <2>1, <2>3, <2>4, ViewValues
    <3>2. QED BY <2>2, <3>1 DEF RunStep
  <2>5. CASE pc' = "returned" /\ status' \in {"compile_error", "system_error"}
    <3>1. next = [at |-> "returned", n |-> n, status |-> status', reported |-> 0, ran |-> 0]
      BY <2>1, <2>3, <2>5, ViewValues
    <3>2. QED BY <2>2, <2>5, <3>1 DEF RunStep
  <2>6. QED BY <2>1, <2>4, <2>5
<1>7. CASE NextCase
  <2>1. /\ pc = "between" /\ n' = n /\ results' = results
        /\ \/ pc' = "askBefore"
           \/ pos > n /\ pc' = "returned" /\ status' = "completed"
    BY <1>7 DEF NextCase, Ask, Return, jobVars
  <2>2. now0 = [at |-> "run", n |-> n, ran |-> RanIn(results)]
    BY <2>1, ViewValues
  <2>3. CASE pc' = "askBefore"
    <3>1. next = now0
      BY <2>1, <2>2, <2>3, ViewValues
    <3>2. QED BY <3>1 DEF RunStep
  <2>4. CASE pos > n /\ pc' = "returned" /\ status' = "completed"
    <3>1. Len(results) = n
      BY <1>1, <2>1, <2>4
    <3>2. next = [at |-> "returned", n |-> n, status |-> "completed",
                  reported |-> n, ran |-> RanIn(results)]
      BY <2>1, <2>4, <3>1, ViewValues
    <3>3. QED BY <2>2, <3>2 DEF RunStep
  <2>5. QED BY <2>1, <2>3, <2>4
<1>8. CASE StopBeforeCase
  <2>1. /\ pc = "askBefore" /\ pc' = "returned" /\ n' = n
        /\ status' \in {"completed", "cancelled"} /\ results' = CancelledFrom(pos, results)
    BY <1>8 DEF StopBeforeCase, Return, jobVars
  <2>2. /\ pos = Len(results) + 1 /\ pos - 1 \in 0..Len(results) /\ pos <= n + 1
        /\ \A i \in 1..(pos - 1) : results[i].status # "cancelled"
        /\ \A i \in ((pos - 1) + 1)..Len(results) : results[i].status = "cancelled"
    BY <1>1, <2>1
  <2>3. PICK k : k = pos - 1
    OBVIOUS
  <2>4. /\ pos = Len(results) + 1 /\ k \in 0..Len(results) /\ pos <= n + 1
        /\ \A i \in 1..k : results[i].status # "cancelled"
        /\ \A i \in (k + 1)..Len(results) : results[i].status = "cancelled"
    BY <2>2, <2>3
  <2>5. Len(results') = n /\ RanIn(results') = k
    BY <1>1, <2>1, <2>4, RanWithRest, Zenon
  <2>6. now0 = [at |-> "run", n |-> n, ran |-> k]
    BY <1>1, <2>1, <2>3, ViewValues
  <2>7. next = [at |-> "returned", n |-> n, status |-> status', reported |-> n, ran |-> k]
    BY <2>1, <2>5, ViewValues
  <2>8. k < n
    BY <1>1, <2>1, <2>3
  <2>9. QED BY <2>1, <2>6, <2>7, <2>8 DEF RunStep
<1>9. CASE StartCase
  <2>1. pc = "askBefore" /\ pc' = "poll" /\ n' = n /\ results' = results
    BY <1>9 DEF StartCase, jobVars
  <2>2. PICK k : k = RanIn(results)
    OBVIOUS
  <2>3. /\ now0 = [at |-> "run", n |-> n, ran |-> k]
        /\ next = [at |-> "case", n |-> n, ran |-> k]
    BY <2>1, <2>2, ViewValues
  <2>4. k < n
    BY <1>1, <2>1, <2>2
  <2>5. QED BY <2>3, <2>4 DEF RunStep
<1>10. CASE Collect
  <2>1. PICK r, listed : r = CaseResultNow /\ listed = Append(results, r)
    OBVIOUS
  <2>2. r \in CaseResult /\ (r.status = "cancelled" <=> status = "cancelled")
    BY <1>10, <2>1, CollectedResult, Zenon DEF Collect, RunnerInv
  <2>3. PICK k \in Nat : k = pos - 1
    BY <1>1, <1>10 DEF RunnerInv, Progress
  <2>4. pc = "collect" /\ n' = n /\ k = Len(results) /\ k < n /\ RanIn(results) = k
    BY <1>1, <1>10, <2>3 DEF Collect, InCase, jobVars
  <2>5. /\ listed \in Seq(CaseResult) /\ Len(listed) = k + 1 /\ listed[k + 1] = r
        /\ \A i \in 1..k : listed[i].status # "cancelled"
    BY <1>1, <2>1, <2>2, <2>3, <2>4, AppendProperties
  <2>6. now0 = [at |-> "case", n |-> n, ran |-> k]
    BY <2>4, ViewValues
  <2>7. \/ /\ status = "cancelled" /\ pc' = "returned" /\ status' = "cancelled"
           /\ results' = CancelledFrom(pos + 1, listed)
        \/ status # "cancelled" /\ pc' = "between" /\ results' = listed
    BY <1>10, <2>1 DEF Collect, Return
  <2>8. CASE /\ status = "cancelled" /\ pc' = "returned" /\ status' = "cancelled"
             /\ results' = CancelledFrom(pos + 1, listed)
    <3>1. r.status = "cancelled"
      BY <2>2, <2>8
    <3>2. \A i \in (k + 1)..Len(listed) : listed[i].status = "cancelled"
      BY <2>5, <3>1
    <3>3. /\ pos + 1 \in Nat /\ pos + 1 = Len(listed) + 1 /\ pos + 1 <= n + 1
          /\ k \in 0..Len(listed)
      BY <1>1, <2>3, <2>4, <2>5
    <3>4. Len(results') = n /\ RanIn(results') = k
      BY <1>1, <2>5, <2>8, <3>2, <3>3, RanWithRest, Zenon
    <3>5. next = [at |-> "returned", n |-> n, status |-> "cancelled", reported |-> n, ran |-> k]
      BY <2>4, <2>8, <3>4, ViewValues
    <3>6. QED BY <2>4, <2>6, <3>5 DEF RunStep
  <2>9. CASE status # "cancelled" /\ pc' = "between" /\ results' = listed
    <3>1. \A i \in 1..(k + 1) : listed[i].status # "cancelled"
      <4>1. r.status # "cancelled"
        BY <2>2, <2>9
      <4>2. \A i \in 1..(k + 1) : i \in 1..k \/ i = k + 1
        OBVIOUS
      <4>3. QED BY <2>5, <4>1, <4>2
    <3>2. PICK m \in Nat : m = k + 1
      OBVIOUS
    <3>3. /\ m \in 0..Len(listed) /\ \A i \in 1..m : listed[i].status # "cancelled"
          /\ \A i \in (m + 1)..Len(listed) : listed[i].status = "cancelled"
      BY <2>5, <3>1, <3>2
    <3>4. RanIn(results') = k + 1
      BY <2>5, <2>9, <3>2, <3>3, RanCount
    <3>5. next = [at |-> "run", n |-> n, ran |-> k + 1]
      BY <2>4, <2>9, <3>4, ViewValues
    <3>6. QED BY <2>6, <3>5 DEF RunStep
  <2>10. QED BY <2>7, <2>8, <2>9
<1>11. CASE PollProcess \/ Wake
  BY <1>2, <1>11 DEF PollProcess, Ask, Wake, InCase, jobVars
<1>12. CASE Watch
  <2>1. /\ pc = "askDuring" /\ pc' \in {"sleep", "collect"} /\ n' = n /\ results' = results
    BY <1>12 DEF Watch, jobVars
  <2>2. now0 = next
    BY <2>1, ViewValues
  <2>3. QED BY <2>2 DEF RunStep
<1>13. CASE Program \/ Tick \/ RequestCancel \/ ServerAnswers
  BY <1>2, <1>13, OthersSteps
<1>14. QED
  BY <1>3, <1>4, <1>5, <1>6, <1>7, <1>8, <1>9, <1>10, <1>11, <1>12, <1>13
     DEF RunnerNext, Thread

(* Whatever the process, the clock and the user do, execute goes through   *)
(* the steps of Execution and returns a list of cases that fits its        *)
(* status, for any number of cases and any limits.                         *)
THEOREM RunnerImplementsExecution == RunnerSpec => RefinesExecution
<1> DEFINE Run ==
      CASE pc = "idle" -> [at |-> "idle"]
        [] pc = "prepare" -> [at |-> "prepare", n |-> n]
        [] pc = "compiling" -> [at |-> "compile", n |-> n]
        [] pc \in {"between", "askBefore"} -> [at |-> "run", n |-> n, ran |-> Ran]
        [] InCase -> [at |-> "case", n |-> n, ran |-> Ran]
        [] pc = "returned" -> [at |-> "returned", n |-> n, status |-> status,
                               reported |-> Len(results), ran |-> Ran]
        [] pc = "raised" -> [at |-> "raised"]
<1>1. RunnerInit => Abstract!Init
  BY DEF RunnerInit, InCase, Abstract!Init, Abstract!Idle
<1>2. ASSUME RunnerInv, RunnerInv', [RunnerNext]_vars
      PROVE  [Abstract!Next]_Run
  <2>1. Run = View(pc, n, results, status)
    BY DEF View, RanIn, Ran, InCase
  <2>2. Run' = View(pc', n', results', status')
    BY DEF View, RanIn, Ran, InCase
  <2>3. RunStep(Run, Run')
    <3>1. CASE RunnerNext
      BY <1>2, <2>1, <2>2, <3>1, ExecutionStep
    <3>2. CASE UNCHANGED vars
      BY <2>1, <2>2, <3>2, Zenon DEF vars, RunStep
    <3>3. QED BY <1>2, <3>1, <3>2
  <2>4. QED
    BY <2>3, Zenon DEF RunStep, Abstract!Next, Abstract!Call, Abstract!Compile,
       Abstract!RunCase, Abstract!Finish, Abstract!Raise, Abstract!Prepare, Abstract!Compiling,
       Abstract!Between, Abstract!InCase, Abstract!Returned, Abstract!Raised
<1>3. QED
  BY <1>1, <1>2, RunnerInvAlways, PTL DEF RunnerSpec, RefinesExecution, Abstract!Spec
=============================================================================

# TLA+ models of the Remote Dev Platform

The platform gives a few developers a browser editor and a queue to which they
submit single-file C++ programs. A control plane (FastAPI and SQLite) keeps
accounts, quotas and the queue; a worker process in another service takes jobs
over a Unix socket, compiles and runs them in a sandbox and reports back. The
repository's code is under `src/` here; paths below are those of the repository.

## Inventory

| Component | State | Operations | Interacts with |
|---|---|---|---|
| Job queue and grants (`database.py`, `app.py`) | tables `jobs`, `job_cases`, `quota_grants` | `create_job`, `cancel_job`, `cancel_job_admin`, `create_grant`, `claim_next_job`, `finish_job`, `mark_job_system_error`, `is_cancel_requested` | HTTP threads; broker threads |
| Broker (`broker.py`) | one call per connection; the client waits ten seconds | `claim`, `cancel-check`, `complete`, `system-error` | worker, database |
| Worker (`worker.py`) | two slot threads | `process_one`, `run_forever` | broker, runner |
| Runner (`runner.py`, `cgroup_v2.py`) | compile semaphore, processes, cgroups | `execute`, `_compile`, `_run_case`, `run_group` | worker (`cancel_check`) |
| Accounts, sessions, limiter (`database.py`, `app.py`) | tables `users`, `sessions`, `login_failures` | login, logout, update, revoke; create and rotate are refused in managed mode | HTTP threads |
| Include policy (`headers.py`, `database.py`) | table `header_policy` | `validate_direct_includes`, `set_header`, `initialize` | `create_job`, audit log |
| Extension catalogue (`database.py`) | `extension_catalog`, `extension_requests` | add, request, approve | HTTP threads, audit log |
| Bootstrap CLI (`cli.py`, `verify_bootstrap.py`, `gateway_config.py`) | credential files, release roster | `bootstrap_instance`, verification | database, files |
| Deployment (`deploy/scripts`) | releases, backups, trees, workspace images | install, prepare, backup, restore, rollback | systemd |
| Editor extension (`extension/src`) | submit panel | submit, poll, cancel | HTTP API |
| Admin pages, sandbox launcher, lockdown | none of interest | | |

What is hard here. Python's `sqlite3` opens a write transaction at the first
`INSERT` or `UPDATE`; a `SELECT` before it commits on its own. `create_job`,
the cancellations and `record_login_failure` therefore read in
one transaction and act in another, on a pool of threads. `finish_job` and
`mark_job_system_error` overwrite a job's status without looking at it. The
broker has no leases and no retries: a call whose client timed out may still be
carried out. Exceptions of `claim` and `system-error` end a slot thread, those
of `cancel-check` leave a process behind. The loop that watches a case waits
for the broker between reading the clock and comparing it. Grants expire while
jobs wait. The panel's message handler runs once per click, each invocation on
its own between its awaits. A change and its audit record are two
transactions. The include check reads a source otherwise than the compiler does.
Backups are taken while instances may be set up, restores are interrupted
and repeated. `PROJECT.json` lists these hazards with the lines they are at.

What makes the parts correct:

* queue: a job is handed out at most once and never leaves a final state;
  reservations fit the quota; grants are charged once per hand-out and only to
  their owner; per-user order and turns between users;
* worker: at most one executor per job; every job ends; results that were
  stored stay; nothing is reserved that no slot has;
* runner: limits are enforced within a known delay, whatever the program and
  the broker do; the list of results fits the status; a verdict is about the
  case it is given for; it ends;
* accounts: a changed password or a disabled account ends its sessions; the
  limiter's block begins and ends when it should;
* policy: where the parser reads a source as the compiler does, it refuses every
  include that is not enabled and nothing else; a job meets a policy that was in
  force; decisions survive restarts and are what the audit log says;
* bootstrap, backup, restore: what was completed stays, what was interrupted can
  be completed, nothing is lost on the way;
* panel: the buttons fit what is under way.

## Modules

| Module | Models |
|---|---|
| `JobLifecycle` | the promise for one submission: absent, queued, active, closed; handed out once |
| `JobStore` | the three job tables with all their handlers; the worker is arbitrary |
| `JobStoreProofs` | the theorems about `JobStore`: tables, grants, the refinement of `JobLifecycle`, order, turns, in-flight limit, memory |
| `Execution` | the promise of one call of `runner.execute` to its caller |
| `Runner` | that call in detail: clock, processes, cgroups, cancel checks |
| `RunnerProofs` | the theorems about `Runner` |
| `JobSystem` | `JobStore` with the real worker and broker and their failures; the runner as in `Execution` |
| `JobSystemProofs` | the theorems about `JobSystem` |
| `Accounts` | developer accounts, sessions and the login limiter |
| `AccountsProofs` | the theorems about `Accounts` |
| `IncludePolicy` | the include parser, what it means, and what a compiler includes |
| `AdminPolicy` | header policy, extension catalogue, audit log |
| `AdminPolicyProofs` | the theorems about `AdminPolicy` and the parser |
| `Bootstrap` | the offline bootstrap command, killed, failing and repeated |
| `BootstrapProofs` | the theorems about `Bootstrap` |
| `BackupRestore` | `backup.sh` and `restore.sh`, interrupted and repeated, beside the setting up of instances |
| `BackupRestoreProofs` | the theorems about `BackupRestore` |
| `SubmitPanel` | the panel of the editor extension, over `JobLifecycle` |
| `SubmitPanelProofs` | the theorems about `SubmitPanel` |
| `MCJobStore`, `MCJobSystem`, `MCAccounts`, `MCBootstrap`, `MCAdminPolicy` | payloads, grants, sources and symmetry for TLC |

How they fit together: `JobStore` is shown to implement `JobLifecycle`, and
`SubmitPanel` uses `JobLifecycle` for the control plane it talks to. `Runner` is
shown to implement `Execution`, and every slot thread of `JobSystem` is shown to
take only steps of `Execution`, so that what `JobSystem` says of a slot is said
of the code in `Runner`. `JobSystem` is shown to implement `JobStore`.

### JobStore

`jobs`, `cases`, `grants` are the tables, indexed by row id; an absent row is
`NoJob` or `NoGrant`. `lastJob` and `lastGrant` are the autoincrement counters.
`claims` numbers the successful claims and stands for `started_at`, of which
the code uses only the order. `now` is the clock that grants and `created_at`
are read from. `reqs[r]` is what HTTP thread `r` has read and not yet acted on.

`create_job` is `CountInflight`, `CheckLimits`, `PickGrant`, `InsertJob`: the
count, `effective_limits`, the choice of a grant and the inserts. The insert's
time stamp is taken before the write lock and may be older than `now`. A
cancellation is `CancelRead` followed by `WriteCancelQueued` or
`WriteCancelActive`. `claim_next_job` starts with `BEGIN IMMEDIATE` and is the
single step `ClaimJob`, in which the clock may move between the eligibility
test and the charge: that is the only way into `GiveUp` for a memory grant.
`FinishJob` and `MarkJobSystemError` write as the code does, unconditionally,
and `Next` lets them happen for any job that was ever handed out.

A case is `queued`, `cancelled` or `ran`, the last for every outcome of a
started case. `Executions` are the results `runner.execute` can return.

### Execution and Runner

`Execution` has one variable, what the caller can see of a call: being compiled,
between two cases, in one, returned with a status and the numbers of cases
listed and run, or raised.

`Runner` is one call. Its thread's own steps take no time; time passes, tick by
tick, while it waits for the compiler, for the answer to `cancel_check` and in
`time.sleep`. `until` is when that wait ends at the latest: the compiler's wall
limit, the broker client's time-out, the length of the sleep. The server looks
at the job at one moment of a `cancel_check` (`ServerAnswers`), and the answer
is used when the call is over, or the call raises. `PollProcess` reads the clock
into `elapsed` before the call, `Watch` compares it afterwards, in the order of
the code. The process may at any time exit, write, run into its file-size limit
or into the cgroup's memory limit, in the last case as a whole or with a child
only. A cgroup whose `rmdir` fails keeps its directory and its count
(`CloseGroup`), and `mkdir` takes a directory that is there (`OpenGroup`).
`runner` tells the two classes apart: `LocalCppRunner` has no cgroups and sees
the signal of a process that `SandboxedCppRunner` sees as an exit code.

`limit` and `deadline` are in the same unit as the clock, so the rounding of
milliseconds is left out. The loop's test of the resident memory against the
limit is not a branch of `Verdict`: the address space of the same process is
limited to the same number.

### JobSystem

`slots[s]` is where a slot thread is in `process_one`. A broker call and its
handling are one step when the call succeeds. `CallFails` ends it on the
client's side and puts it in `stale`, from which `LateCall` may carry it out at
any later time, or never: this covers refused connections, time-outs before and
after the server acted, and answers that were lost. `ExecuteFails` is an
exception in the runner, `orphans[s]` the processes it leaves. `WorkerCrash`
kills the process and lets systemd start it again. `faults` counts all three
kinds and `MaxFaults` bounds them. The payload flag `big` marks a job whose
JSON description is longer than a message. A case above the aggregate of
256 MiB is refused by `run_group` (`RunGroupRefuses`), whatever grant the job
has.

### Accounts

`users` are the developer rows by public id, `sessions` and `failures` the
tables, `threads` what each HTTP thread holds. A login is `LoginGate`, `Verify`,
then `ReadFailure` and `WriteFailure`, or `ClearFailures` and `IssueSession`. The
accounts are there from the start: `cli.py` serves in managed mode only, where
`create_user` and the rotation of tokens answer 403 before they do anything, and
`bootstrap-instance.sh` makes accounts while the control plane is stopped. Time
is in half seconds because `login_retry_after` rounds to whole seconds. A session
also remembers the password it was opened with, and `overlapped` the rows of the
limiter that two threads worked for at once; no action reads either.

### IncludePolicy and AdminPolicy

A source is a sequence of the characters that comments, line ends, splices and
string literals are made of, and of whole words: the directive, headers in angle
brackets (of which some are absolute) and in quotes. `StripComments`,
`SpliceLines`, `Lines`, `IsDirective`, `Value` and `Judge` are the steps of
`validate_direct_includes` in its order. `Scan` is the loop of
`_strip_comments`: its mode says after each character whether the loop is in code
or in a comment, or has read the first of the two characters that it skips
together. Line numbers are those of the spliced text, as the code counts them,
not those of the editor.

Both references work on positions; they share
`Starts` and `Blanked` with these steps, and nothing else. The first is what the program means: a mark opens a comment unless it lies in one
(`Comments`, `Uncommented`). The second is what a compiler includes, whether the
parser can see it or not: it removes splices first (`Kept`), then comments and
string literals are the regions that begin outside each other (`CppRegions`), and
a directive is the first token of its line, with or without a blank behind the
word (`CppDirectives`). `Violations` are the directives that include anything
but an enabled header. The two readings differ in what is a comment when splices
or literals hold comment marks (`ReadsCommentsAlike` says where they agree), and
in directives without a blank (`Glued`). The properties make exceptions
of these two. Left out of the compiler's reading are escapes, character and raw literals, splices inside a word, the conditions of
`#if`, and `#include_next` and `#import`.

`AdminPolicy` has the tables and the threads of two handlers: an administrator's
change and its audit record are two steps, of which the second may raise
(`AuditFails`); a developer's submission is checked and inserted in two steps. A
submission remembers the policies in force since its check. `raced` and `lost`
record which changes were interleaved and which records were never written, so
that the properties can except exactly those; no action reads them. A violated
constraint ends a request with nothing changed and is no step.

### Bootstrap

`rows` are the developers' rows, `dir` the credential directory (per instance
the published file and the staging files), `disk` the states of the directory
that a loss of power can leave, `proc` the running command. Each system call
and each transaction of `bootstrap_instance` that changes something is one
step; the checks before the first of them are `Recoverable` and `Creatable`,
and a refused command is no step. A run's number stands for its pid, its token
and the token's hash. `bootstrap-instance.sh` holds a lock and requires stopped
services, so one command runs at a time. `Kill` and `PowerLoss` end it anywhere,
`Raise` is an exception of the current call and follows the handlers, and
`Interrupt` a `KeyboardInterrupt` where it differs from an `Exception`: between
the commit and the publication. There `except Exception` does not see it (nor an
exception of the read with which `create_developer` ends, after its commit), the
`finally` block removes the staging file, and the row stays without a
credential: every later run answers "recovery state is ambiguous", although
docs/deployment.md:92 promises recovery there. `LostOnlyByInterrupt` says that
this is the only way to lose a committed account. A kill before the token is
written leaves an empty staging file, which later runs refuse; that comes before
the commit, where the documentation promises nothing.

### BackupRestore

The database and each of the three trees are the set of instances they hold.
`bk` and `rs` are the running scripts, each copy, removal and move one step; a
removal or move of one tree is taken as a whole. An instance is set up in four
steps: `prepare-host.sh` writes its configuration and makes its image
(`WriteConfig`, `CreateImage`), `bootstrap_instance` requires the image and
commits the account (`BootstrapInstance`), and `code-server@` makes the state
directory (`StartInstance`). The lock of `bootstrap-instance.sh` is not one that
`backup.sh` takes, and `backup.sh` looks only before it begins whether instances
are active, so the four steps go on beside a backup. `restore.sh` requires all
to be stopped, and the operator is taken to set up nothing until a
restore that began to replace data is completed. The scripts take no lock against
each other, so one operator is assumed for them. `attempt` remembers what a
restore found when it was first run, and `damaged` that the live data is a
mixture; both only serve the properties.

### SubmitPanel

`calls` are the invocations of the message handler and what each awaits, `inbox`
the messages on their way to the page, `view` the page's buttons, `activeJob`
and the job it shows. A request may fail before or after it had its effect.
`doubled` records a click on submit while the page did not know yet that it is
busy.

## Runs

Passing:

| Run | Shows |
|---|---|
| `store_threads` | two users, two threads at the in-flight limit with jobs of two cases, a grant that expires, reports in any order: `TypeOK`, `TablesAgree`, `OvershootIsBounded`, `ReservationsFit`, `GrantAccounting`, `ExcessIsAuthorised`, `ClosedJobHasNoQueuedCase`, `RefinesLifecycle` |
| `store_queue` | two users, three jobs of which two do not fit together: `SameSizeInOrder`, `NewcomerGoesFirst` |
| `system_faults` | two slots, three jobs, one fault of any kind: `SlotsConsistent` (types, one executor per job), `ExecutingIsActiveOrCancelled`, `StrandedOnlyByFaults` (two jobs of three at most), `RefinesStore`, `ResultsAreKept` |
| `system_live` | two jobs out of a standard one, one that needs more time, one that needs more memory than the runner's aggregate, one too long for a message; a grant of one use that raises both limits and expires, or one that raises the time and has less memory than the standard: `SlotsExecute`, and, while nothing fails, `EveryJobFinishes` |
| `runner_limits` | both runners, up to two cases, calls and sleeps of one unit: `RunnerConsistent` (types, no process left behind), `WallTimeIsBounded` (of a case and of the submission), `CancelIsPrompt`, `MemoryVerdictIsOwn`, `RefinesExecution`, `ExecuteEnds` |
| `accounts` | one account, two threads, one update, three sessions, a crash, threshold two, a window of three half seconds, two blocks: `AccountsTypeOK`, `StaleSessionsOnlyByRaces`, `CounterStopsAtThreshold` |
| `policy` | every source of up to four characters, and every directive with two before and three after it, against both references: `ParserMeetsReference` (comments and refusals); two administrators, two developers, three changes, a restart, audit records that cannot be written: `CatalogConsistent` (types, approvals audited, first requests can be approved), `JobsMeetThePolicy`, `AuditTellsThePolicy` |
| `bootstrap_recovery` | two instances, two names, five commands, four faults of any kind: `BootConsistent` (types, one staging file), `DoneIsDurable`, `LostOnlyByInterrupt` |
| `restore_interrupted` | two instances, three backups, two faults: `BackupConsistent` (types, backups paired, an interrupted restore can be run again), `NothingIsLost`, `CompletedIsTheBackup` |
| `panel` | two submissions, a cancellation, two polls, a page up to two messages behind: `PanelConsistent` (types, one job at a time), `CancelIsOffered`, `FinalResultIsShown`, `SubmitComesBack` |

Violations, each a disagreement between the code and what the repository says
of it (quoted in `PROJECT.json` under `findings`):

| Run | Property | What happens |
|---|---|---|
| `store_expired` | `ExpiredGrantLeavesQueue` | a large job whose grant expired, or was used up by another job, is never eligible again |
| `system_memory` | `LiveMemoryWithinQuota` | a stale cancellation frees the reservation of a running job |

What the models show besides, as exceptions of the properties that hold:

* A submission within the documented sizes can be longer than a broker message
  of 32 MiB once encoded. The claim is then committed, its answer dropped, and
  the job stays `compiling`; `StrandedOnlyByFaults` excepts such jobs.
* README.md:16 allows 5 unfinished jobs per user; `create_job` counts before it
  inserts, and `n` concurrent requests can bring a user to `n - 1` more
  (`OvershootIsBounded`).
* A `cancel_check` that raises while a case runs leaves its process alive and
  unwatched (`LeftBehindOnlyInCase` excepts it).
* A queued job whose memory is above its own ceiling stays queued;
  `EveryJobFinishes` excepts it (`NeverFits`). One way is a grant that ran out,
  which `store_expired` shows. The other needs no expiry: `create_job` admits a
  job by the larger of the standard memory and the grant's (database.py:426),
  `claim_next_job` holds it to the grant's alone (database.py:471-476). A job that
  a grant admits for its time, and whose memory is above the grant's, therefore
  never starts, although the grant is valid and the schema allows it.
* docs/architecture.md:20 and admin.html promise that only listed headers can be
  included directly. `headers.py:44` demands a blank behind `#include`, which C++
  does not: `#include<b>` passes with `b` disabled. Comments are removed before
  splices and without a look at string literals (headers.py:42), so a spliced
  comment mark, or one in a literal, hides a directive from the check.
  `ParserMeetsReference` and `JobsMeetThePolicy` except these (`Glued`,
  `ReadsCommentsAlike`).
* The other way round, a comment over several lines inside a directive, or one with
  a backslash at its end, makes the check refuse a line that is right
  (`RefusesNothingElse` excepts it).
* When the insertion of an audit record raises, the request answers 500 although
  its change is committed and stays unrecorded (`lost`).
* A case above 256 MiB ends as `system_error` in the runner, although a memory
  grant admitted and charged it; `EveryJobFinishes` covers that it ends.
* A case may run two broker calls and a sleep past its limit (`CaseWallIsBounded`
  says no longer), and a cancellation may take as long.
* docs/deployment.md section 10 says to run an interrupted restore again. After
  an interrupted `--empty-target` restore neither mode accepts the target: it is
  not empty, and has no database to back up (`CanBeRunAgain` excepts it). Images
  that `cp` could not copy go unnoticed (`CompletedIsTheBackup` excepts them).
* A second click on submit while the file is read starts a second submission,
  and a failed cancellation gives the submit button back and takes the cancel
  button away while the job is polled (`OneJobAtATime` and `CancelIsOffered`
  except both). The message of a stopped poll speaks of the job's history on
  reopening; nothing in the extension queries it.
* A developer may ask again for an extension that was approved; that request can
  never be approved (`FirstRequestsCanBeApproved`).
* Two threads that fail for one name and address at once can lose a failure, lift
  or renew a block; `CounterStopsAtThreshold` excepts their row (`overlapped`), and
  holds of every other row meanwhile.

Bounds. Memory is scaled so that a user may hold 3: two jobs of 2 do not fit,
4 needs a grant. `MaxTime` is 1, so a limit of 2 needs a time
grant. `MaxInflight` is 1 or 2, so that the limit is met, and 3 where the faults
are the question. Two or three jobs
are what the properties relate (a pair in order, a pair and a competitor), and
two threads are enough for every race found: each is between one reader and one
writer. `system_faults` has a job more than two slots can strand with its one
fault, which the bound of `StrandedOnlyByFaults` would otherwise not notice.
`system_live` needs two jobs: with finitely many arrivals the smaller jobs that
pass a larger one come to an end, and one that arrives while another runs or
waits is every case of waiting for memory or for a slot. That a
user who submits without end can hold up a larger job of their own for ever is
outside the property. `MaxNow` of 1 or 2 lets a grant of one unit expire at any step. In
`Runner` a call and a sleep take up to one unit each, a case has two and the
submission three, so that a case reaches its own limit, the second one the
submission's, and an overrun of each kind happens; two cases let one case meet
what another left. The longest source is one that holds a comment, a splice and
a directive at once; it also holds a string literal with a comment mark in it.
Three backups are one to restore from and a safety copy for
each of two attempts. The bounds `MaxJobs`, `MaxGrants`, `MaxNow`, `MaxFaults`,
`MaxIds`, `MaxSessions`, `MaxUpdates`, `MaxCrashes`, `MaxRuns`, `MaxBackups` and
`MaxCases` stop the instances, and a bounded instance comes to rest, so deadlock
is not checked there; that the system does not get stuck is `EveryJobFinishes`
and `ExecuteEnds`. In `policy` and `panel` deadlock is checked. HTTP threads, in
`system_faults` slots, in `Accounts` passwords, in `Bootstrap` instances and
names, and in `AdminPolicy` developers and administrators are interchangeable;
the runs with liveness properties use no symmetry.

Fairness. `FairSysSpec` asks that a slot thread that can take a step takes one:
`run_forever` loops without condition, compilation and cases end at their wall
limits (`ExecuteEnds` shows it of the runner), and broker calls at their
time-out. A dead slot thread is not replaced, so `EveryJobFinishes` is stated
for behaviours without faults. `FairRunnerSpec` asks that the thread is
scheduled, that time passes and that the broker's call ends, by its answer or by
its time-out; nothing is asked of the program. `FairPanelSpec` asks that the
page handles its messages and that every await ends: `api` aborts a request
after 15 s, and the timer fires. `PollingSpec` asks of claiming alone that it
happens. HTTP threads, users and administrators are not fair.

## Proofs

What a run shows on a small instance a theorem shows for every value of the
constants. The assumptions are those of the modules: bounds are naturals (some
of them positive), payloads and grants have their types, user ids are naturals,
the sets of HTTP threads, of administrators' threads and of slots are finite, the
pool has a thread, the default headers are headers, the words of a source differ
from its marks, an absolute header is no other header, and the value that stands
for an absent row or number is neither.
Each inductive invariant below was checked by TLC, on the run of the property it
is for, before it was proved. One lemma per action shows that it is kept.

### JobStoreProofs

| Theorem | States |
|---|---|
| `TypeCorrect` | `Spec => []TypeOK` |
| `TablesAlwaysAgree` | `Spec => []TablesAgree` |
| `ClosedCases` | `Spec => []ClosedJobHasNoQueuedCase` |
| `GrantsAreAccounted` | `Spec => []GrantAccounting` |
| `ExcessAlwaysAuthorised` | `Spec => []ExcessIsAuthorised` |
| `QueueRefinesLifecycle` | `Spec => RefinesLifecycle` |
| `SameSizeJobsKeepOrder` | `Spec => []SameSizeInOrder` |
| `OvershootBounded` | `Spec => []OvershootIsBounded` |
| `ReservationsAlwaysFit` | `Spec => []ReservationsFit` |
| `NewcomersGoFirst` | `Spec => []NewcomerGoesFirst` |

The inductive invariant is `Inv == TypeOK /\ TablesAgree`. `TypeOK` alone is
not inductive. `claims` stays within its bound only because it counts the jobs
handed out and the job being claimed is not yet one of them, which needs that a
queued job was never handed out; a row written by a cancellation is a job only
because a thread refers to a row that exists; and the row after `lastJob` is
free only because rows are numbered without gaps.
`StepKinds` then says that every step leaves the tables
alone, rewrites one job's status, inserts a job, adds a grant or hands a job
out; the other theorems are inductions over these kinds of step, with `Inv` as
context. `QueueRefinesLifecycle` maps a status to a phase and the jobs with a
rank to `handed`, and shows each kind of step to be a step of `JobLifecycle` or
a stutter.

The order rests on `RanksGiven`: no rank is above `claims`, so a rank given now
is later than all others, and of two queued jobs of one size the later one is
eligible only if the earlier one is (`SameSizeEligible`).
`NewcomersGoFirst` adds that an active job was claimed (`ActiveIsClaimed`).

The overshoot is not inductive as stated, because a grant that arrives raises the
limit a waiting thread is about to read. `RoomLeft` therefore speaks of every
limit `M` at or above all the user has: the jobs in flight and the threads that
will still pass a test against `M` are fewer than `M` plus the number of threads.

`ReservationsFit` compares a sum over a set of jobs with a limit. The sum
is a fold of the community modules, and the library's induction over finite sets
cannot be used by the provers; the facts needed (a sum over fewer jobs is not larger, a sum with one job more is
larger by that job's memory) are proved by the least size of a counterexample,
which `LeastNat` gives from the well-foundedness of `<`.

### JobSystemProofs

| Theorem | States |
|---|---|
| `WorkerRefinesStore` | `SysSpec => RefinesStore` |
| `QueueIsSafeInSystem` | the theorems about `JobStore`, of `SysSpec` |
| `OneExecutorPerJob` | `SysSpec => []SlotsConsistent` |
| `ExecutingJobsAreOpen` | `SysSpec => []ExecutingIsActiveOrCancelled` |
| `StoredResultsAreKept` | `SysSpec => ResultsAreKept` |
| `SlotsGoThroughExecution` | `SysSpec => SlotsExecute` |
| `FewAreStranded` | `SysSpec => []StrandedOnlyByFaults` |

`SysInv` is `Inv` of the tables with the types of the slots and four conjuncts
that say why a protocol without leases does not hand a job to two executors.
`WorkFits`: what a slot has, or a late call is about, was claimed, and a result
fits the cases of its job. `Separate`: no two slots have the same job, the
processes left behind counted. `UnsentIsOpen`: a job whose end no call was sent
for is active, or cancelled with the flag set, and no late call is about it; this
is what makes `Separate` inductive, because only a queued job is claimed.
`LateOnce`: a result is late at most once, and not when one is stored.
`FewAreStranded` counts late claims with stranded jobs (`StrandBound`): a claim
that is carried out for nobody strands a job after its fault was counted.

### RunnerProofs

For a program, a clock and a user that do what they like:

| Theorem | States |
|---|---|
| `WallTime` | `RunnerSpec => []WallTimeIsBounded` |
| `CancelPrompt` | `RunnerSpec => []CancelIsPrompt` |
| `ProcessesAreWaitedFor` | `RunnerSpec => []RunnerConsistent` |
| `MemoryVerdicts` | `RunnerSpec => []MemoryVerdictIsOwn` |
| `RunnerImplementsExecution` | `RunnerSpec => RefinesExecution` |

The bounds are not inductive: a call that begins late could end later still.
`WallInv` therefore says how late each point of the loop can be (`LoopIsInTime`):
a loop that goes on had `elapsed` below the limit before the call, so it comes
back to `poll` at most a call and a sleep after the limit, and the next call
ends a second call later, when the comparison stops it. `WaitsEnd` bounds each
wait, and `SubmissionIsInTime` keeps that a case got no more than what was left
until `deadline`, which is why overruns do not add up. `CancelInv` does the same
for a request (`RequestIsHeard`): an answer "no" was given before the request,
so a request finds at most one such call and one sleep before the call that
hears it. `CancelPrompt` uses `WallInv` for the ends of waits.

`RunnerInv` is for the other three. `Progress` and `StatusFits` say which case the
thread is at and what its status can be there, `CasesListed` that the cases before
it are listed and none of them as cancelled, `ProcessIsWatched` where a process
can be alive. `CountsAreOwn` is what `MemoryVerdictIsOwn` needs: the kernel's count
in the directory of a case yet to come is zero, and that of the current case is
about its own process, although directories that could not be removed are used
again.

### AccountsProofs

| Theorem | States |
|---|---|
| `AccountsKeepTypes` | `AccountsSpec => []AccountsTypeOK` |
| `UpdatesEndSessions` | `AccountsSpec => []StaleSessionsOnlyByRaces` |
| `LoginsAreStopped` | `AccountsSpec => []CounterStopsAtThreshold` |

`AccountsKeepTypes` includes that names stay apart, although an update changes
them. For `UpdatesEndSessions` the logins that will still open a stale session are
counted with the stale sessions (`StaleAreFew`): an update can make one of each
thread, and nothing else makes any. `LoginsAreStopped` holds of any number of
threads, for the rows that no two of them worked for at once. Its invariant says
that such a row has one thread at most (`Alone`), how window and block fit
together (`RowFits`: a row below the threshold has no block, one with a block
keeps it until its window is over) and what a login knows that has passed the gate
(`GatePassed`).

### BootstrapProofs

| Theorem | States |
|---|---|
| `StagingIsNeverAmbiguous` | `BootSpec => []BootConsistent` |
| `ReturnedIsDurable` | `BootSpec => []DoneIsDurable` |
| `OnlyInterruptsLose` | `BootSpec => []LostOnlyByInterrupt` |

`BootInv` says of every state of the directory that a loss of power can leave that
no instance has two staging files (`Unambiguous`), and of every step of the command
what it found or wrote so far (`ProcFits`). `LostAreInterrupted` counts, with the
instances that cannot be completed in some such state, the one whose staging file
the `finally` block is about to remove.

### BackupRestoreProofs

| Theorem | States |
|---|---|
| `BackupsStayPaired` | `BackupSpec => []BackupConsistent` |
| `RestoreLosesNothing` | `BackupSpec => []NothingIsLost` |
| `CompletedRestoreIsTheBackup` | `BackupSpec => []CompletedIsTheBackup` |

`RestoreInv` starts from the order in which an instance is set up (`LiveFits`: an
account has its image), follows a backup (`CopyFits`: its copy of the database is
older than the images it copies) and a restore (`RestoreFits`: what it staged is of the
chosen backup, and the trees before its step are in place). `AttemptFits` is why
nothing is lost: nothing is replaced before all that the attempt found is in a
completed backup (`Protected`), and until then a restore accepts the target;
`SafetyCopyFits` is why the backup that `--backup-current` waits for is one of all
that is in place.

### SubmitPanelProofs

| Theorem | States |
|---|---|
| `OneJobUnderWay` | `PanelSpec => []PanelConsistent` |
| `PolledJobCanBeCancelled` | `PanelSpec => []CancelIsOffered` |
| `ShownResultIsFinal` | `PanelSpec => []FinalResultIsShown` |

The buttons say something of the job under way only after the page has handled
its messages, and the page may be any number of them behind. `Streams` says what
the messages between them are: those that announce the job, if the page has not
handled them yet, then results. `Orderly` says it of the submission under way, and
that without one the last message enables the page. Then a click that finds the
button enabled finds no submission, or is one of those `doubled` records.
`ResultsFit` needs neither: the last result posted ended the last submission.

### AdminPolicyProofs

| Theorem | States |
|---|---|
| `CommentsAreStripped` | `StripComments(source) = Uncommented(source)`, for every source |
| `ParserRefusesViolations` | where `ReadsCommentsAlike(source)`: `RefusesViolations` and `RefusesNothingElse`, for every source and set of headers |
| `PlainSourcesReadAlike` | a source without splices and string literals meets that condition |
| `ParserAlwaysMeetsReference` | `PolicySpec => []ParserMeetsReference` |
| `JobsAlwaysMeetThePolicy` | `PolicySpec => []JobsMeetThePolicy` |
| `AuditAlwaysTellsThePolicy` | `PolicySpec => []AuditTellsThePolicy` |
| `CatalogStaysConsistent` | `PolicySpec => []CatalogConsistent` |

The first three say of sources of any length what the run `policy` checks up to
four characters, and around a directive with two before it and three after it.
They are inductions over a source, which the library's theorems do not give the
provers. Two lemmas take their place, both from the well-foundedness of `<`:
`AllPositions`, that a set of positions with 0 and with the successor of each
holds all of them, and `RecursionExists`, that a recursive function exists,
which is what makes its definition usable at all.

*Comments.* `Entered` are the marks at which the loop enters a comment.
`InsideIsWithin`: while the loop is in a comment, it is in the one it entered last,
and that one is not over. `CommentedIsInside`: up to the `Closer` of a comment it
stays there. So a mark is entered exactly when it does not lie in an entered
comment; `CommentsAreEntered` shows that only one set of marks does that, hence
it is the set the reference chooses.

*Directives.* `LinesAreBuilt` turns the splicing and the splitting into one pass
over the source, and `LinesAreLaidOut` says of that pass where each character
stands: `row` and `col` of a position are counted, the characters kept are
in the lines at their places, in order, and every place is taken by one of
them. With this correspondence the directives of the text by positions are those
of the lines (`DirectivesStand`, `StandingAreDirectives`), what is behind them is
the same (`InkBehind`), one is accepted when it names one enabled header
(`AcceptedAreGranted`), and its row is one more than the number of line ends
before it that were not spliced (`RowIsCounted`). `RefusedAreUngranted` is the sum:
which lines the parser refuses, by positions.

*What the compiler reads.* `RegionsAreDecided`: from left to right it is settled of
every mark whether it lies in a region, so the choice in `Regions` is never of
an empty set. Where the two readings take the same for comments, what is no
token for the compiler is a blank or a line end for the program, and a line of
the program lies in one of the compiler's (`TokensAreInk`). So a directive that
includes something else is one of the program's if a blank follows the word, and is
refused (`ViolationsAreUngranted`); the other way round, a refused line has a
directive that is not one enabled header, if no comment looks like the end of a line
(`UngrantedAreRefusable`).

*Policy and log.* `PolicyTypes` is `PolicyTypeOK` with `BuiltinStay`: a default
header always has a row, so the insert of the defaults at a restart changes
nothing. `JobsMeetThePolicy` needs `ChecksHold`: what is past the check passed it
under one of the policies in force since then; with `ParserRefusesViolations` that
policy allows the source. `AuditTellsThePolicy` needs `InFlightTells`: about
a header that was not raced at most one record is on its way, and it says what the
table says; it will be the last record when it is written. `CatalogConsistent` needs
`RequestsInTurn`: of two requests of a developer for an extension the
earlier one is approved, so that two administrators cannot both find a request
decidable. Its count of records in the log, lost, and on their way is kept
because a step moves one record (`TimesAppend`), to the log or to the lost ones, or,
at a restart, all of them, each once, from the threads to the lost ones (`TimesLost`).

### What is only model-checked

Liveness, which is out of the prover's reach: `EveryJobFinishes`, `ExecuteEnds`,
`SubmitComesBack`; the first of finitely many arrivals, since a bounded instance has
no others. Of the properties that the code violates nothing is
proved; `store_expired` and `system_memory` show how they fail.

## Not modelled

Session expiry, API tokens and the admin scope of the limiter; peer
authorisation and framing of the broker beyond the message limit; the measured
peak memory and the arguments of bubblewrap; the rounding of milliseconds in the
runner; `init-admin`, the gateway's configuration and file modes; of the
deployment scripts `install.sh`, which installs a release, and `rollback.sh`, which
switches a symbolic link; `create_user` and the rotation of tokens, which
production refuses and only tests of `create_app` reach; of the compiler's reading what `IncludePolicy`
names; of the extension the choice of a file, the token file
and the forbidden commands. The web pages, the sandbox launcher and the editor
lockdown are policy or presentation without state of their own and stay out.

## Plan

1. `rollback.sh` and `install.sh` with their symbolic links, beside
   `BackupRestore`.
2. What the limiter's counter keeps with several threads.

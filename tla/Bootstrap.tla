----------------------------- MODULE Bootstrap ------------------------------
(***************************************************************************)
(* The offline bootstrap of a managed instance: bootstrap_instance of      *)
(* src/remote_dev/cli.py, which creates the developer's row and publishes  *)
(* its API token as a credential file, one durable step at a time.         *)
(*                                                                         *)
(* deploy/scripts/bootstrap-instance.sh holds the deployment lock and      *)
(* requires the services to be stopped, so there is one process at a time. *)
(* It may be killed or lose its power anywhere, a system call may fail, or *)
(* the operator may press Ctrl-C; the operator then runs it again.         *)
(*                                                                         *)
(* A commit of the database is durable.  A change of the credential        *)
(* directory is durable once the directory was synchronised; until then a  *)
(* loss of power goes back to some earlier state of the directory (the     *)
(* file system journals directory operations in order).                    *)
(***************************************************************************)
EXTENDS Integers, FiniteSets

CONSTANTS
    Instances,  \* the release roster: public ids with a prepared image
    Names,      \* user names the operator may pass
    None,       \* no row, no file
    Empty,      \* what a file holds before its token is written
    MaxRuns,    \* bound: executions of the command
    MaxFaults   \* bound: kills, power losses, failed calls, interrupts

ASSUME BootstrapAssumption ==
    /\ MaxRuns \in Nat /\ MaxFaults \in Nat
    /\ None \notin Nat /\ Empty \notin Nat
    /\ None \notin [name : Names, token : 1..MaxRuns]   \* no row is not a row

VARIABLES
    rows,       \* the developers in the users table, by public id
    dir,        \* the credential directory as the process sees it
    disk,       \* the states of it that a loss of power can leave
    proc,       \* the running command
    runs,       \* executions so far; a run's number is its pid and its token
    done,       \* instances for which a run returned the developer
    faults,     \* faults so far
    interrupts  \* of these, interrupts between the commit and the publication

bootVars == <<rows, dir, disk, proc, runs, done, faults, interrupts>>

Runs == 1..MaxRuns
NoFiles == [final |-> None, staged |-> {}]
Idle == [pc |-> "idle"]

Row == [name : Names, token : Runs]
Files == [final : Runs \cup {None}, staged : SUBSET [run : Runs, token : Runs \cup {Empty}]]

(* What the command does next for instance inst; `run' is the staging file *)
(* it works on, `fresh' whether it creates the row or recovers.            *)
Proc ==
    {Idle} \cup
    [pc : {"drop", "dropped", "stage", "write", "sync", "commit", "link",
           "unlink", "close", "compensate", "cleanup"},
     inst : Instances, name : Names, run : Runs, fresh : BOOLEAN]

BootInit ==
    /\ rows = [i \in Instances |-> None]
    /\ dir = [i \in Instances |-> NoFiles]
    /\ disk = {dir}
    /\ proc = Idle
    /\ runs = 0
    /\ done = {}
    /\ faults = 0
    /\ interrupts = 0

-----------------------------------------------------------------------------
(* The checks before the first change.  Tokens stand for their hashes.     *)

HasRow(i) == rows[i] # None
NameTaken(n) == \E i \in Instances : HasRow(i) /\ rows[i].name = n

Same(i, n) == HasRow(i) /\ rows[i].name = n

(* The row exists: the published token or the one staging file must match, *)
(* and so must a staging file beside a published token.                    *)
Recoverable(i, n) ==
    /\ Same(i, n)
    /\ Cardinality(dir[i].staged) <= 1
    /\ dir[i].final \in {None, rows[i].token}
    /\ \A s \in dir[i].staged : s.token = rows[i].token
    /\ dir[i].final = None => dir[i].staged # {}

(* Neither the instance nor the name is known: nothing may be published,   *)
(* and one staging file of an earlier run may be left, if not empty.       *)
Creatable(i, n) ==
    /\ ~HasRow(i) /\ ~NameTaken(n)
    /\ dir[i].final = None
    /\ Cardinality(dir[i].staged) <= 1
    /\ \A s \in dir[i].staged : s.token # Empty

(* A command that is refused changes nothing and is left out. *)
Start(i, n) ==
    LET begin(pc, run, fresh) ==
          proc' = [pc |-> pc, inst |-> i, name |-> n, run |-> run, fresh |-> fresh]
        staged == dir[i].staged
    IN
    /\ proc = Idle
    /\ runs < MaxRuns
    /\ runs' = runs + 1
    /\ \/ /\ Creatable(i, n)
          /\ begin(IF staged = {} THEN "stage" ELSE "drop", runs + 1, TRUE)
       \/ /\ Recoverable(i, n)
          /\ IF staged = {}
               THEN begin("close", runs + 1, FALSE)
               ELSE \E s \in staged :
                      begin(IF dir[i].final = None THEN "link" ELSE "unlink", s.run, FALSE)
    /\ UNCHANGED <<rows, dir, disk, done, faults, interrupts>>

-----------------------------------------------------------------------------
(* The steps.                                                              *)

At(pc) == proc # Idle /\ proc.pc = pc
Goto(pc) == proc' = [proc EXCEPT !.pc = pc]

(* A change of the files of the instance, not yet synchronised. *)
Change(files) ==
    /\ dir' = [dir EXCEPT ![proc.inst] = files]
    /\ disk' = disk \cup {dir'}

Synchronise == disk' = {dir} /\ UNCHANGED dir

MyFiles == dir[proc.inst]
WithoutStaging ==
    [MyFiles EXCEPT !.staged = {s \in @ : s.run # proc.run}]

(* Mutant of Drop: the old staging file stays. *)
DropSkipped ==
    /\ At("drop")
    /\ Goto("dropped")
    /\ UNCHANGED <<rows, dir, disk, runs, done, faults, interrupts>>

(* The staging file of a run that never committed. *)
Drop ==
    /\ At("drop")
    /\ Change([MyFiles EXCEPT !.staged = {}])
    /\ Goto("dropped")
    /\ UNCHANGED <<rows, runs, done, faults, interrupts>>

SyncDrop ==
    /\ At("dropped")
    /\ Synchronise
    /\ Goto("stage")
    /\ UNCHANGED <<rows, runs, done, faults, interrupts>>

Stage ==
    /\ At("stage")
    /\ Change([MyFiles EXCEPT !.staged = @ \cup {[run |-> proc.run, token |-> Empty]}])
    /\ Goto("write")
    /\ UNCHANGED <<rows, runs, done, faults, interrupts>>

(* The token is written and the file synchronised: no state of the disk    *)
(* still has the file empty.                                               *)
Write ==
    LET written(d) ==
          [d EXCEPT ![proc.inst].staged =
             {IF s.run = proc.run THEN [s EXCEPT !.token = proc.run] ELSE s : s \in @}]
    IN
    /\ At("write")
    /\ dir' = written(dir)
    /\ disk' = {written(d) : d \in disk}
    /\ Goto("sync")
    /\ UNCHANGED <<rows, runs, done, faults, interrupts>>

SyncStage ==
    /\ At("sync")
    /\ Synchronise
    /\ Goto("commit")
    /\ UNCHANGED <<rows, runs, done, faults, interrupts>>

CreateDeveloper ==
    /\ At("commit")
    /\ rows' = [rows EXCEPT ![proc.inst] = [name |-> proc.name, token |-> proc.run]]
    /\ Goto("link")
    /\ UNCHANGED <<dir, disk, runs, done, faults, interrupts>>

Link ==
    /\ At("link")
    /\ MyFiles.final = None
    /\ \E s \in MyFiles.staged :
         s.run = proc.run /\ Change([MyFiles EXCEPT !.final = s.token])
    /\ Goto("unlink")
    /\ UNCHANGED <<rows, runs, done, faults, interrupts>>

Unlink ==
    /\ At("unlink")
    /\ Change(WithoutStaging)
    /\ Goto("close")
    /\ UNCHANGED <<rows, runs, done, faults, interrupts>>

(* Mutant of Return: the directory is not synchronised. *)
ReturnUnsynced ==
    /\ At("close")
    /\ done' = done \cup {proc.inst}
    /\ proc' = Idle
    /\ UNCHANGED <<rows, dir, disk, runs, faults, interrupts>>

Return ==
    /\ At("close")
    /\ Synchronise
    /\ done' = done \cup {proc.inst}
    /\ proc' = Idle
    /\ UNCHANGED <<rows, runs, faults, interrupts>>

(* delete_unconfigured_developer, after a failed publication. *)
Compensate ==
    /\ At("compensate")
    /\ rows' = [rows EXCEPT ![proc.inst] = None]
    /\ Goto("cleanup")
    /\ UNCHANGED <<dir, disk, runs, done, faults, interrupts>>

(* The finally block removes the staging file. *)
Cleanup ==
    /\ At("cleanup")
    /\ Change(WithoutStaging)
    /\ proc' = Idle
    /\ UNCHANGED <<rows, runs, done, faults, interrupts>>

-----------------------------------------------------------------------------
(* Faults.                                                                 *)

Fault == proc # Idle /\ faults < MaxFaults /\ faults' = faults + 1

Kill ==
    /\ Fault
    /\ proc' = Idle
    /\ UNCHANGED <<rows, dir, disk, runs, done, interrupts>>

(* Power is lost, during a run or after it. *)
PowerLoss ==
    /\ faults < MaxFaults /\ faults' = faults + 1
    /\ dir' \in disk
    /\ disk' = {dir'}
    /\ proc' = Idle
    /\ UNCHANGED <<rows, runs, done, interrupts>>

(* Mutant of Handler: preserve_temporary is not set. *)
HandlerNotPreserving ==
    CASE ~proc.fresh \/ proc.pc \in {"drop", "dropped", "stage", "cleanup"} -> "idle"
      [] proc.fresh /\ proc.pc \in {"link", "unlink"} -> "compensate"
      [] OTHER -> "cleanup"

(* Where an exception of the current step leads: a recovery has no         *)
(* handler, nor have the steps before the staging file exists; a failed    *)
(* publication is compensated for, and where that fails the staging file   *)
(* is preserved.                                                           *)
Handler ==
    CASE ~proc.fresh \/ proc.pc \in {"drop", "dropped", "stage", "compensate", "cleanup"} -> "idle"
      [] proc.fresh /\ proc.pc \in {"link", "unlink"} -> "compensate"
      [] OTHER -> "cleanup"

Raise ==
    /\ Fault
    /\ IF Handler = "idle" THEN proc' = Idle ELSE Goto(Handler)
    /\ UNCHANGED <<rows, dir, disk, runs, done, interrupts>>

(* Ctrl-C after the commit is no Exception: nothing is compensated for,    *)
(* and the finally block runs.  An exception of create_developer's reading *)
(* of the row it has committed ends the same way.                          *)
Interrupt ==
    /\ Fault
    /\ proc.pc \in {"link", "unlink"} /\ proc.fresh
    /\ interrupts' = interrupts + 1
    /\ Goto("cleanup")
    /\ UNCHANGED <<rows, dir, disk, runs, done>>

-----------------------------------------------------------------------------
BootStep ==
    \/ Drop \/ SyncDrop \/ Stage \/ Write \/ SyncStage \/ CreateDeveloper
    \/ Link \/ Unlink \/ Return \/ Compensate \/ Cleanup

BootNext ==
    \/ \E i \in Instances, n \in Names : Start(i, n)
    \/ BootStep
    \/ Kill \/ PowerLoss \/ Raise \/ Interrupt

BootSpec == BootInit /\ [][BootNext]_bootVars

-----------------------------------------------------------------------------
(* Properties.                                                             *)

(* Rows, files, disk states and the command hold values of their types. *)
BootTypeOK ==
    /\ rows \in [Instances -> Row \cup {None}]
    /\ dir \in [Instances -> Files]
    /\ dir \in disk /\ disk \subseteq [Instances -> Files]
    /\ proc \in Proc
    /\ runs \in 0..MaxRuns
    /\ done \subseteq Instances
    /\ faults \in 0..MaxFaults /\ interrupts \in 0..faults

(* What verify_bootstrap accepts of one instance's row and credential. *)
Verifies(d, i) ==
    HasRow(i) /\ d[i].final = rows[i].token /\ d[i].staged = {}

(* Once the command has returned for an instance, its credential passes    *)
(* verify_bootstrap for ever: whatever runs and faults follow, in every    *)
(* state of the directory that a loss of power can leave.                  *)
DoneIsDurable == \A i \in done : \A d \in disk : Verifies(d, i)

(* No sequence of failed, killed and repeated runs leaves two staging      *)
(* files: the answer "recovery state is ambiguous" is never given for two. *)
OneStagingFile ==
    \A d \in disk : \A i \in Instances : Cardinality(d[i].staged) <= 1

(* The state that bootstrap_instance keeps, besides types: staging is      *)
(* never ambiguous.                                                        *)
BootConsistent == BootTypeOK /\ OneStagingFile

Lost ==
    {i \in Instances : proc = Idle /\ HasRow(i) /\ ~Recoverable(i, rows[i].name)}

(* docs/deployment.md:92, on a command that ends after the commit and      *)
(* before the publication: an instance that has a row can be completed by  *)
(* running the command again, whatever was killed, failed or lost its      *)
(* power before.  The exception is an interrupt in that very window, for   *)
(* which the finally block removes the staging file and keeps the row.     *)
LostOnlyByInterrupt == Cardinality(Lost) <= interrupts
=============================================================================

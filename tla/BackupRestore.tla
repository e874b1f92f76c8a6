---------------------------- MODULE BackupRestore ---------------------------
(***************************************************************************)
(* deploy/scripts/backup.sh and restore.sh: what is copied when, while the *)
(* scripts that set up instances may go on, and what an interruption at    *)
(* any command leaves behind.                                              *)
(*                                                                         *)
(* The content of the database and of the three trees is the set of        *)
(* instances they hold; a tree that does not exist is like an empty one.   *)
(* One backup and one restore run at a time.  Staging directories end in   *)
(* .incomplete, are never restored from and are filled anew by the next    *)
(* run, so an interruption forgets them.                                   *)
(***************************************************************************)
EXTENDS Naturals, Sequences

CONSTANTS
    Instances,    \* UUIDs of developers
    MaxBackups,   \* bound: completed backups
    MaxFaults     \* bound: interruptions, hidden failures and lost hosts

ASSUME BackupAssumption == MaxBackups \in Nat /\ MaxFaults \in Nat

Trees == {"ws", "state", "config"}
Order == <<"ws", "state", "config">>   \* the order of rm -rf and of mv

VARIABLES
    live,      \* CONTROL_DB and the three trees
    backups,   \* completed backups, oldest first
    bk,        \* the running backup.sh
    rs,        \* the running restore.sh
    attempt,   \* the restore that is not completed: its mode, what it found when it was
               \* first run, and whether it began to replace data
    damaged,   \* the live data is a mixture, or lacks images
    faults

backupVars == <<live, backups, bk, rs, attempt, damaged, faults>>

\* file: the control database exists
Content == [file : BOOLEAN, db : SUBSET Instances, ws : SUBSET Instances,
            state : SUBSET Instances, config : SUBSET Instances]
Nothing == [file |-> FALSE, db |-> {}, ws |-> {}, state |-> {}, config |-> {}]

Backup == [copy : Content, damaged : BOOLEAN]
NoBackup == [pc |-> "none"]
NoRestore == [pc |-> "none"]
NoAttempt == [mode |-> "none", found |-> Nothing, replacing |-> FALSE]
BackupProc == {NoBackup} \cup [pc : {"images", "trees", "publish"}, copy : Content, damaged : BOOLEAN]
RestoreProc ==
    {NoRestore}
    \cup [pc : {"backup", "images", "trees", "done"}, from : 1..MaxBackups,
          staged : Content, hidden : BOOLEAN]
    \cup [pc : {"remove", "move"}, step : 1..3, from : 1..MaxBackups,
          staged : Content, hidden : BOOLEAN]
    \cup [pc : {"database"}, from : 1..MaxBackups, staged : Content, hidden : BOOLEAN]

BackupInit ==
    /\ live = [Nothing EXCEPT !.file = TRUE]
    /\ backups = <<>>
    /\ bk = NoBackup
    /\ rs = NoRestore
    /\ attempt = NoAttempt
    /\ damaged = FALSE
    /\ faults = 0

-----------------------------------------------------------------------------
(* Instances are set up while the host has its database and no restore is  *)
(* under way or to be run again.  The lock of bootstrap-instance.sh is one *)
(* that backup.sh does not take: they may overlap.                         *)

Online == rs.pc = "none" /\ attempt.mode = "none" /\ live.file

(* prepare-host.sh: the configuration of an instance, then its image if    *)
(* there is none.                                                          *)
WriteConfig(i) ==
    /\ Online
    /\ live' = [live EXCEPT !.config = @ \cup {i}]
    /\ UNCHANGED <<backups, bk, rs, attempt, damaged, faults>>

CreateImage(i) ==
    /\ Online
    /\ i \in live.config
    /\ live' = [live EXCEPT !.ws = @ \cup {i}]
    /\ UNCHANGED <<backups, bk, rs, attempt, damaged, faults>>

(* bootstrap_instance refuses an instance without an image and commits the *)
(* row of its developer.                                                   *)
BootstrapInstance(i) ==
    /\ Online
    /\ i \in live.ws
    /\ live' = [live EXCEPT !.db = @ \cup {i}]
    /\ UNCHANGED <<backups, bk, rs, attempt, damaged, faults>>

(* code-server@ mounts the image and makes the state directory; backup.sh  *)
(* only looks before it begins whether an instance is active.              *)
StartInstance(i) ==
    /\ Online
    /\ i \in live.db \cap live.ws \cap live.config
    /\ live' = [live EXCEPT !.state = @ \cup {i}]
    /\ UNCHANGED <<backups, bk, rs, attempt, damaged, faults>>

-----------------------------------------------------------------------------
(* backup.sh                                                               *)

CanBackUp == bk.pc = "none" /\ live.file /\ Len(backups) < MaxBackups

(* sqlite3 .backup: one consistent copy of the database. *)
Snapshot == [pc |-> "images", copy |-> [Nothing EXCEPT !.file = TRUE, !.db = live.db], damaged |-> damaged]

BackUp ==
    /\ rs.pc = "none" /\ CanBackUp
    /\ bk' = Snapshot
    /\ UNCHANGED <<live, backups, rs, attempt, damaged, faults>>

CopyImages ==
    /\ bk.pc = "images"
    /\ bk' = [bk EXCEPT !.pc = "trees", !.copy.ws = live.ws]
    /\ UNCHANGED <<live, backups, rs, attempt, damaged, faults>>

(* Mutant of CopyTrees: the database is copied last. *)
CopyDatabaseLast ==
    /\ bk.pc = "trees"
    /\ bk' = [bk EXCEPT !.pc = "publish", !.copy = [live EXCEPT !.ws = bk.copy.ws]]
    /\ UNCHANGED <<live, backups, rs, attempt, damaged, faults>>

(* rsync of the state, cp of the known configuration files. *)
CopyTrees ==
    /\ bk.pc = "trees"
    /\ bk' = [bk EXCEPT !.pc = "publish", !.copy.state = live.state, !.copy.config = live.config]
    /\ UNCHANGED <<live, backups, rs, attempt, damaged, faults>>

(* mv of the finished directory to its UUID.  A restore that waits for its *)
(* safety copy goes on.                                                    *)
Publish ==
    /\ bk.pc = "publish"
    /\ backups' = Append(backups, [copy |-> bk.copy, damaged |-> bk.damaged])
    /\ bk' = NoBackup
    /\ rs' = IF rs.pc = "backup" THEN [rs EXCEPT !.pc = "images"] ELSE rs
    /\ UNCHANGED <<live, attempt, damaged, faults>>

-----------------------------------------------------------------------------
(* restore.sh                                                              *)

IsEmpty == ~live.file /\ \A t \in Trees : live[t] = {}

Restore(b, state) ==
    rs' = [pc |-> state, from |-> b, staged |-> Nothing, hidden |-> FALSE]

(* A restore that is run again is the same attempt. *)
Attempt(mode) ==
    attempt' = IF attempt.replacing THEN attempt
               ELSE [mode |-> mode, found |-> live, replacing |-> FALSE]

(* Mutant of RestoreBackupCurrent: the safety copy is started, and not     *)
(* waited for.                                                             *)
RestoreInBackground(b) ==
    /\ rs.pc = "none" /\ CanBackUp
    /\ bk' = Snapshot
    /\ Restore(b, "images")
    /\ Attempt("--backup-current")
    /\ UNCHANGED <<live, backups, damaged, faults>>

(* --backup-current runs backup.sh, which needs a control database. *)
RestoreBackupCurrent(b) ==
    /\ rs.pc = "none" /\ CanBackUp
    /\ bk' = Snapshot
    /\ Restore(b, "backup")
    /\ Attempt("--backup-current")
    /\ UNCHANGED <<live, backups, damaged, faults>>

RestoreEmptyTarget(b) ==
    /\ rs.pc = "none" /\ bk.pc = "none"
    /\ IsEmpty
    /\ Restore(b, "images")
    /\ Attempt("--empty-target")
    /\ UNCHANGED <<live, backups, bk, damaged, faults>>

Chosen == backups[rs.from].copy

(* cp ... 2>/dev/null || true: images that could not be copied go unnoticed. *)
StageImages ==
    /\ rs.pc = "images"
    /\ \/ /\ rs' = [rs EXCEPT !.pc = "trees", !.staged.ws = Chosen.ws]
          /\ UNCHANGED faults
       \/ /\ faults < MaxFaults /\ faults' = faults + 1
          /\ \E some \in SUBSET Chosen.ws \ {Chosen.ws} :
               rs' = [rs EXCEPT !.pc = "trees", !.staged.ws = some, !.hidden = TRUE]
    /\ UNCHANGED <<live, backups, bk, attempt, damaged>>

(* rsync of state and config, .backup of the database. *)
StageTrees ==
    /\ rs.pc = "trees"
    /\ rs' = [pc |-> "remove", step |-> 1, from |-> rs.from, hidden |-> rs.hidden,
              staged |-> [Chosen EXCEPT !.ws = rs.staged.ws]]
    /\ UNCHANGED <<live, backups, bk, attempt, damaged, faults>>

Removed(t) == [live EXCEPT ![t] = {}]

(* rm -rf of one tree. *)
Remove ==
    /\ rs.pc = "remove"
    /\ live' = Removed(Order[rs.step])
    /\ damaged' = TRUE
    /\ attempt' = [attempt EXCEPT !.replacing = TRUE]
    /\ rs' = IF rs.step < 3 THEN [rs EXCEPT !.step = @ + 1]
             ELSE [rs EXCEPT !.pc = "move", !.step = 1]
    /\ UNCHANGED <<backups, bk, faults>>

(* Mutant of Moved: mv into a directory that is still there. *)
MovedInto(t) == [live EXCEPT ![t] = attempt.found[t]]

Moved(t) == [live EXCEPT ![t] = rs.staged[t]]

(* mv of one staged tree into place. *)
Move ==
    /\ rs.pc = "move"
    /\ live' = Moved(Order[rs.step])
    /\ rs' = IF rs.step < 3 THEN [rs EXCEPT !.step = @ + 1]
             ELSE [pc |-> "database", from |-> rs.from, staged |-> rs.staged, hidden |-> rs.hidden]
    /\ UNCHANGED <<backups, bk, attempt, damaged, faults>>

(* install as control.db.new, then mv -f. *)
InstallDatabase ==
    /\ rs.pc = "database"
    /\ live' = [live EXCEPT !.file = TRUE, !.db = rs.staged.db]
    /\ damaged' = (rs.hidden \/ backups[rs.from].damaged)
    /\ rs' = [rs EXCEPT !.pc = "done"]
    /\ UNCHANGED <<backups, bk, attempt, faults>>

ReportDone ==
    /\ rs.pc = "done"
    /\ rs' = NoRestore
    /\ attempt' = NoAttempt
    /\ UNCHANGED <<live, backups, bk, damaged, faults>>

-----------------------------------------------------------------------------
(* Faults.                                                                 *)

(* A command of the running scripts fails or they are killed: set -e ends  *)
(* both, restore.sh because its backup.sh failed.                          *)
Interrupt ==
    /\ faults < MaxFaults /\ faults' = faults + 1
    /\ bk.pc # "none" \/ rs.pc \notin {"none", "done"}
    /\ bk' = NoBackup
    /\ rs' = NoRestore
    /\ attempt' = IF attempt.replacing THEN attempt ELSE NoAttempt
    /\ UNCHANGED <<live, backups, damaged>>

(* The host is lost and set up again; its backups are kept elsewhere. *)
LoseHost ==
    /\ faults < MaxFaults /\ faults' = faults + 1
    /\ bk.pc = "none" /\ rs.pc = "none" /\ ~IsEmpty
    /\ live' = Nothing
    /\ damaged' = FALSE
    /\ attempt' = NoAttempt
    /\ UNCHANGED <<backups, bk, rs>>

-----------------------------------------------------------------------------
BackupNext ==
    \/ \E i \in Instances :
         WriteConfig(i) \/ CreateImage(i) \/ BootstrapInstance(i) \/ StartInstance(i)
    \/ BackUp \/ CopyImages \/ CopyTrees \/ Publish
    \/ \E b \in DOMAIN backups : RestoreBackupCurrent(b) \/ RestoreEmptyTarget(b)
    \/ StageImages \/ StageTrees \/ Remove \/ Move \/ InstallDatabase \/ ReportDone
    \/ Interrupt \/ LoseHost

BackupSpec == BackupInit /\ [][BackupNext]_backupVars

-----------------------------------------------------------------------------
(* Properties.                                                             *)

(* Every script holds values of its type. *)
BackupTypeOK ==
    /\ live \in Content
    /\ backups \in Seq(Backup) /\ Len(backups) <= MaxBackups
    /\ bk \in BackupProc
    /\ rs \in RestoreProc
    /\ attempt.found \in Content /\ attempt.replacing \in BOOLEAN
    /\ damaged \in BOOLEAN

(* backup.sh copies the database first and the images after it, while an   *)
(* instance may be set up: every account of a completed backup still has   *)
(* its image in it, because bootstrap_instance requires the image and none *)
(* is ever removed.  Excepted is what was copied from a mixture that an    *)
(* interrupted restore had left.                                           *)
BackupsArePaired ==
    \A b \in DOMAIN backups :
        ~backups[b].damaged => backups[b].copy.db \subseteq backups[b].copy.ws

Kept(part, i) ==
    \/ i \in live[part]
    \/ \E b \in DOMAIN backups : i \in backups[b].copy[part]

(* "Targets are inactive and either empty or protected by a completed      *)
(* backup": whatever a restore found is still in place or in a completed   *)
(* backup, wherever it is interrupted and however often it is repeated.    *)
NothingIsLost ==
    attempt.mode # "none" =>
        \A part \in Trees \cup {"db"} : \A i \in attempt.found[part] : Kept(part, i)

(* A restore that says it is completed has put in place what the chosen    *)
(* backup holds and nothing else, also after earlier attempts that were    *)
(* interrupted; only images may be missing, those whose cp failed.         *)
CompletedIsTheBackup ==
    rs.pc = "done" =>
        /\ live.file /\ live.db = Chosen.db /\ live.state = Chosen.state /\ live.config = Chosen.config
        /\ live.ws \subseteq Chosen.ws
        /\ live.ws = Chosen.ws \/ rs.hidden

(* deployment.md 10: an interrupted restore is run again.  One of the two  *)
(* modes accepts what the interruption left, unless it was an              *)
(* --empty-target restore, which leaves a target that is neither empty nor *)
(* has a database to back up.                                              *)
CanBeRunAgain ==
    bk.pc = "none" /\ rs.pc = "none" =>
        live.file \/ IsEmpty \/ attempt.mode = "--empty-target"

(* What backup.sh and restore.sh keep, besides types, wherever they are    *)
(* interrupted: backups hold the image of every account, and a restore can *)
(* be run again.                                                           *)
BackupConsistent == BackupTypeOK /\ BackupsArePaired /\ CanBeRunAgain
=============================================================================

------------------------ MODULE BackupRestoreProofs ------------------------
(***************************************************************************)
(* Proofs about BackupRestore: what backup.sh and restore.sh keep wherever *)
(* they are interrupted, for any instances and any number of backups.      *)
(***************************************************************************)
EXTENDS BackupRestore, SequenceTheorems, TLAPS

-----------------------------------------------------------------------------
(* The inductive invariant.                                                *)

Parts == Trees \cup {"db"}

Modes == {"none", "--backup-current", "--empty-target"}

Types ==
    /\ BackupTypeOK
    /\ attempt \in [mode : Modes, found : Content, replacing : BOOLEAN]

(* The live data is paired unless it is known to be a mixture, and without *)
(* its file the database is empty.                                         *)
LiveFits ==
    /\ ~damaged => live.db \subseteq live.ws
    /\ ~live.file => live.db = {}

(* A running backup.sh has room, and its copy of the database is older than *)
(* the images that it copies.                                               *)
CopyFits ==
    bk.pc # "none" =>
        /\ Len(backups) < MaxBackups
        /\ rs.pc \in {"none", "backup"}
        /\ bk.copy.db \subseteq live.db
        /\ bk.pc = "images" /\ ~bk.damaged => bk.copy.db \subseteq live.ws
        /\ bk.pc # "images" /\ ~bk.damaged => bk.copy.db \subseteq bk.copy.ws

(* The safety copy of a restore is one of all that is in place. *)
SafetyCopyFits ==
    rs.pc = "backup" =>
        /\ bk.pc # "none"
        /\ bk.copy.db = live.db
        /\ bk.pc # "images" => bk.copy.ws = live.ws
        /\ bk.pc = "publish" => bk.copy.state = live.state /\ bk.copy.config = live.config

StagedImages == rs.staged.ws \subseteq Chosen.ws /\ (rs.staged.ws = Chosen.ws \/ rs.hidden)

(* What restore.sh staged of the chosen backup, and what it put in place. *)
RestoreFits ==
    rs.pc # "none" =>
        /\ rs.from \in DOMAIN backups
        /\ attempt.mode # "none"
        /\ rs.pc \in {"trees", "remove", "move", "database", "done"} => StagedImages
        /\ rs.pc \in {"remove", "move", "database", "done"} =>
             /\ rs.staged.db = Chosen.db /\ rs.staged.state = Chosen.state
             /\ rs.staged.config = Chosen.config
        /\ rs.pc \in {"move", "database"} => damaged
        /\ rs.pc \in {"move", "database", "done"} => attempt.replacing
        /\ rs.pc = "move" =>
             /\ rs.step > 1 => live.ws = rs.staged.ws
             /\ rs.step > 2 => live.state = rs.staged.state
        /\ rs.pc \in {"database", "done"} =>
             \A t \in Trees : live[t] = rs.staged[t]
        /\ rs.pc = "done" => live.file /\ live.db = rs.staged.db

(* What a restore found is in a completed backup. *)
Protected ==
    \A part \in Parts : \A i \in attempt.found[part] :
        \E b \in DOMAIN backups : i \in backups[b].copy[part]

(* A restore replaces nothing that is not protected, and until it does the *)
(* target is one that a restore accepts.                                   *)
AttemptFits ==
    /\ attempt.mode = "--backup-current" => live.file
    /\ ~attempt.replacing => live.file \/ IsEmpty
    /\ attempt.replacing => attempt.mode # "none" /\ Protected
    /\ attempt.mode # "none" => Protected \/ (rs.pc = "backup" /\ attempt.found = live)

RestoreInv ==
    /\ Types /\ BackupsArePaired /\ LiveFits /\ CopyFits
    /\ SafetyCopyFits /\ RestoreFits /\ AttemptFits

-----------------------------------------------------------------------------
(* Lemmas about the state.                                                 *)

(* The fields of a content. *)
LEMMA ContentFields ==
    ASSUME NEW c \in Content
    PROVE  /\ c.file \in BOOLEAN
           /\ \A part \in Parts : c[part] \in SUBSET Instances
  BY DEF Content, Parts, Trees

(* A content with one part replaced. *)
Replaced(c, part, S) == [c EXCEPT ![part] = S]

LEMMA ReplacedPart ==
    ASSUME NEW c \in Content, NEW part \in Parts, NEW S \in SUBSET Instances
    PROVE  /\ Replaced(c, part, S) \in Content
           /\ Replaced(c, part, S).file = c.file
           /\ Replaced(c, part, S)[part] = S
           /\ \A other \in Parts : other # part => Replaced(c, part, S)[other] = c[other]
  BY DEF Replaced, Content, Parts, Trees

(* The parts of a content by name. *)
LEMMA PartNames ==
    ASSUME NEW c
    PROVE  c["ws"] = c.ws /\ c["state"] = c.state /\ c["config"] = c.config /\ c["db"] = c.db
  OBVIOUS

LEMMA NothingFields ==
    /\ Nothing \in Content /\ ~Nothing.file
    /\ \A part \in Parts : Nothing[part] = {}
  BY DEF Nothing, Content, Parts, Trees

LEMMA CopyFields ==
    ASSUME bk \in BackupProc
    PROVE  /\ bk.pc \in {"none", "images", "trees", "publish"}
           /\ bk.pc # "none" => bk.copy \in Content /\ bk.damaged \in BOOLEAN
  BY DEF BackupProc, NoBackup

LEMMA RestoreFields ==
    ASSUME rs \in RestoreProc
    PROVE  /\ rs.pc \in {"none", "backup", "images", "trees", "done", "remove", "move", "database"}
           /\ rs.pc # "none" =>
                rs.from \in 1..MaxBackups /\ rs.staged \in Content /\ rs.hidden \in BOOLEAN
           /\ rs.pc \in {"remove", "move"} => rs.step \in 1..3
  BY DEF RestoreProc, NoRestore

(* What the parts of the invariant say of the current state. *)
LEMMA Facts ==
    ASSUME RestoreInv
    PROVE  /\ live \in Content /\ backups \in Seq(Backup) /\ Len(backups) <= MaxBackups
           /\ Len(backups) \in Nat /\ DOMAIN backups = 1..Len(backups) /\ MaxBackups \in Nat
           /\ bk \in BackupProc /\ rs \in RestoreProc
           /\ attempt \in [mode : Modes, found : Content, replacing : BOOLEAN]
           /\ damaged \in BOOLEAN
           /\ \A b \in DOMAIN backups : backups[b] \in Backup /\ backups[b].copy \in Content
           /\ rs.pc # "none" => Chosen \in Content
  <1>1. backups \in Seq(Backup)
    BY DEF RestoreInv, Types, BackupTypeOK
  <1>2. Len(backups) \in Nat /\ DOMAIN backups = 1..Len(backups)
    BY <1>1
  <1>3. \A b \in DOMAIN backups : backups[b] \in Backup /\ backups[b].copy \in Content
    <2>1. \A b \in DOMAIN backups : backups[b] \in Backup
      BY <1>1, <1>2, ElementOfSeq
    <2> QED
      BY <2>1 DEF Backup
  <1>4. rs.pc # "none" => Chosen \in Content
    BY <1>3 DEF RestoreInv, RestoreFits, Chosen
  <1> QED
    BY <1>1, <1>2, <1>3, <1>4, BackupAssumption DEF RestoreInv, Types, BackupTypeOK

(* A part of the running scripts' states that a step leaves alone. *)
LEMMA SameTypes ==
    ASSUME RestoreInv, UNCHANGED backups, live' \in Content, bk' \in BackupProc,
           rs' \in RestoreProc, attempt' \in [mode : Modes, found : Content, replacing : BOOLEAN],
           damaged' \in BOOLEAN
    PROVE  Types' /\ BackupsArePaired'
  BY DEF RestoreInv, Types, BackupTypeOK, BackupsArePaired

(* Protection does not depend on the live data. *)
LEMMA StaysProtected ==
    ASSUME Protected, UNCHANGED backups, attempt'.found = attempt.found
    PROVE  Protected'
  BY DEF Protected

LEMMA InitHolds == BackupInit => RestoreInv
  <1> SUFFICES ASSUME BackupInit PROVE RestoreInv
    OBVIOUS
  <1>1. PICK c : c = [Nothing EXCEPT !.file = TRUE]
    OBVIOUS
  <1>2. /\ live = c /\ c \in Content /\ c.file /\ c.db = {} /\ c.ws = {}
        /\ backups = <<>> /\ bk = NoBackup /\ rs = NoRestore /\ attempt = NoAttempt
        /\ damaged = FALSE
    BY <1>1 DEF BackupInit, Nothing, Content
  <1>3. Types
    <2>1. backups \in Seq(Backup) /\ Len(backups) <= MaxBackups
      BY <1>2, BackupAssumption
    <2>2. attempt \in [mode : Modes, found : Content, replacing : BOOLEAN]
      BY <1>2, NothingFields DEF NoAttempt, Modes
    <2>3. bk \in BackupProc /\ rs \in RestoreProc
      BY <1>2 DEF BackupProc, RestoreProc
    <2>4. attempt.found \in Content /\ attempt.replacing \in BOOLEAN
      BY <2>2
    <2> QED
      BY <1>2, <2>1, <2>2, <2>3, <2>4 DEF Types, BackupTypeOK
  <1>4. BackupsArePaired /\ LiveFits
    BY <1>2 DEF BackupsArePaired, LiveFits
  <1>5. CopyFits /\ SafetyCopyFits /\ RestoreFits /\ AttemptFits
    BY <1>2 DEF CopyFits, SafetyCopyFits, RestoreFits, AttemptFits, NoBackup, NoRestore, NoAttempt
  <1> QED
    BY <1>3, <1>4, <1>5 DEF RestoreInv

-----------------------------------------------------------------------------
(* Instances that are set up.                                              *)

(* Nothing or only a backup runs: the live data grows, the images first.    *)
LEMMA OnlineStep ==
    ASSUME RestoreInv, Online, live' \in Content, live'.file = live.file,
           live.db \subseteq live'.db,
           ~damaged => live'.db \subseteq live'.ws,
           bk.pc = "images" /\ ~bk.damaged => bk.copy.db \subseteq live'.ws,
           UNCHANGED <<backups, bk, rs, attempt, damaged, faults>>
    PROVE  RestoreInv'
  <1>1. rs.pc = "none" /\ attempt.mode = "none" /\ live.file
    BY DEF Online
  <1>2. Types' /\ BackupsArePaired'
    BY Facts, SameTypes
  <1>3. LiveFits'
    BY <1>1 DEF RestoreInv, LiveFits
  <1>4. CopyFits'
    <2>1. CopyFits
      BY DEF RestoreInv
    <2> QED
      BY <2>1 DEF CopyFits
  <1>5. SafetyCopyFits' /\ RestoreFits'
    BY <1>1 DEF SafetyCopyFits, RestoreFits
  <1>6. AttemptFits'
    BY <1>1 DEF RestoreInv, AttemptFits
  <1> QED
    BY <1>2, <1>3, <1>4, <1>5, <1>6 DEF RestoreInv

LEMMA OnlineKeeps ==
    ASSUME RestoreInv, NEW i \in Instances,
           WriteConfig(i) \/ CreateImage(i) \/ BootstrapInstance(i) \/ StartInstance(i)
    PROVE  RestoreInv'
  <1>1. live \in Content /\ live.db \in SUBSET Instances /\ live.ws \in SUBSET Instances
        /\ live.state \in SUBSET Instances /\ live.config \in SUBSET Instances
    BY Facts DEF Content
  <1>2. /\ ~damaged => live.db \subseteq live.ws
        /\ bk.pc = "images" /\ ~bk.damaged => bk.copy.db \subseteq live.ws
    BY DEF RestoreInv, LiveFits, CopyFits
  <1>3. CASE WriteConfig(i)
    <2>1. Online /\ live' = [live EXCEPT !.config = @ \cup {i}]
          /\ UNCHANGED <<backups, bk, rs, attempt, damaged, faults>>
      BY <1>3 DEF WriteConfig
    <2>2. live' \in Content /\ live'.file = live.file /\ live'.db = live.db
          /\ live'.ws = live.ws
      BY <1>1, <2>1 DEF Content
    <2> QED
      BY <1>2, <2>1, <2>2, OnlineStep
  <1>4. CASE CreateImage(i)
    <2>1. Online /\ live' = [live EXCEPT !.ws = @ \cup {i}]
          /\ UNCHANGED <<backups, bk, rs, attempt, damaged, faults>>
      BY <1>4 DEF CreateImage
    <2>2. live' \in Content /\ live'.file = live.file /\ live'.db = live.db
          /\ live'.ws = live.ws \cup {i}
      BY <1>1, <2>1 DEF Content
    <2> QED
      BY <1>2, <2>1, <2>2, OnlineStep
  <1>5. CASE BootstrapInstance(i)
    <2>1. Online /\ i \in live.ws /\ live' = [live EXCEPT !.db = @ \cup {i}]
          /\ UNCHANGED <<backups, bk, rs, attempt, damaged, faults>>
      BY <1>5 DEF BootstrapInstance
    <2>2. live' \in Content /\ live'.file = live.file /\ live'.ws = live.ws
          /\ live'.db = live.db \cup {i}
      BY <1>1, <2>1 DEF Content
    <2> QED
      BY <1>2, <2>1, <2>2, OnlineStep
  <1>6. CASE StartInstance(i)
    <2>1. Online /\ live' = [live EXCEPT !.state = @ \cup {i}]
          /\ UNCHANGED <<backups, bk, rs, attempt, damaged, faults>>
      BY <1>6 DEF StartInstance
    <2>2. live' \in Content /\ live'.file = live.file /\ live'.db = live.db
          /\ live'.ws = live.ws
      BY <1>1, <2>1 DEF Content
    <2> QED
      BY <1>2, <2>1, <2>2, OnlineStep
  <1> QED
    BY <1>3, <1>4, <1>5, <1>6

-----------------------------------------------------------------------------
(* backup.sh                                                               *)

(* The copy that backup.sh starts with. *)
LEMMA SnapshotFields ==
    ASSUME RestoreInv
    PROVE  /\ Snapshot \in BackupProc /\ Snapshot.pc = "images" /\ Snapshot.damaged = damaged
           /\ Snapshot.copy \in Content /\ Snapshot.copy.db = live.db
  <1>1. live.db \in SUBSET Instances /\ damaged \in BOOLEAN
    BY Facts DEF Content
  <1>2. PICK c : c = [Nothing EXCEPT !.file = TRUE, !.db = live.db]
    OBVIOUS
  <1>3. c \in Content /\ c.db = live.db
    BY <1>1, <1>2 DEF Nothing, Content
  <1>4. Snapshot = [pc |-> "images", copy |-> c, damaged |-> damaged]
    BY <1>2 DEF Snapshot
  <1> QED
    BY <1>1, <1>3, <1>4 DEF BackupProc

LEMMA BackUpKeeps ==
    ASSUME RestoreInv, BackUp
    PROVE  RestoreInv'
  <1>1. rs.pc = "none" /\ bk.pc = "none" /\ Len(backups) < MaxBackups /\ bk' = Snapshot
        /\ UNCHANGED <<live, backups, rs, attempt, damaged, faults>>
    BY DEF BackUp, CanBackUp
  <1>2. Types' /\ BackupsArePaired'
    BY <1>1, Facts, SnapshotFields, SameTypes
  <1>3. LiveFits' /\ SafetyCopyFits' /\ RestoreFits'
    BY <1>1 DEF RestoreInv, LiveFits, SafetyCopyFits, RestoreFits
  <1>4. CopyFits'
    BY <1>1, SnapshotFields DEF RestoreInv, LiveFits, CopyFits
  <1>5. AttemptFits'
    <2>1. AttemptFits
      BY DEF RestoreInv
    <2>2. IsEmpty' = IsEmpty /\ Protected' = Protected
      BY <1>1 DEF IsEmpty, Protected
    <2> QED
      BY <1>1, <2>1, <2>2 DEF AttemptFits
  <1> QED
    BY <1>2, <1>3, <1>4, <1>5 DEF RestoreInv

(* Images, then state and configuration, as they are when they are copied.  *)
LEMMA CopyKeeps ==
    ASSUME RestoreInv, CopyImages \/ CopyTrees
    PROVE  RestoreInv'
  <1>1. bk.pc \in {"images", "trees"} /\ bk \in BackupProc
        /\ UNCHANGED <<live, backups, rs, attempt, damaged, faults>>
    BY Facts DEF CopyImages, CopyTrees
  <1>2. /\ bk.copy \in Content /\ bk.damaged \in BOOLEAN /\ live \in Content
        /\ live.ws \in SUBSET Instances /\ live.state \in SUBSET Instances
        /\ live.config \in SUBSET Instances
    BY <1>1, CopyFields, Facts DEF Content
  <1>3. /\ bk' \in BackupProc /\ bk'.pc # "none" /\ bk'.pc # "images"
        /\ bk'.damaged = bk.damaged
        /\ bk'.copy.db = bk.copy.db
        /\ bk.pc = "images" => bk'.pc = "trees" /\ bk'.copy.ws = live.ws
        /\ bk.pc = "trees" => bk'.copy.ws = bk.copy.ws
        /\ bk'.pc = "publish" => bk'.copy.state = live.state /\ bk'.copy.config = live.config
    <2>1. CASE CopyImages
      <3>1. PICK c : c = [bk.copy EXCEPT !.ws = live.ws]
        OBVIOUS
      <3>2. c \in Content /\ c.ws = live.ws /\ c.db = bk.copy.db
        BY <1>2, <3>1 DEF Content
      <3>3. bk.pc = "images"
        BY <2>1 DEF CopyImages
      <3>4. bk' = [pc |-> "trees", copy |-> c, damaged |-> bk.damaged]
        <4>1. bk = [pc |-> bk.pc, copy |-> bk.copy, damaged |-> bk.damaged]
          BY <1>1, <3>3 DEF BackupProc, NoBackup
        <4>2. PICK q : q = [bk EXCEPT !.copy = c]
          OBVIOUS
        <4>3. q = [pc |-> bk.pc, copy |-> c, damaged |-> bk.damaged]
          BY <4>1, <4>2
        <4>4. bk' = [q EXCEPT !.pc = "trees"]
          BY <2>1, <3>1, <4>1, <4>2 DEF CopyImages
        <4> QED
          BY <4>3, <4>4
      <3> QED
        BY <1>2, <3>2, <3>3, <3>4 DEF BackupProc
    <2>2. CASE CopyTrees
      <3>1. PICK c : c = [bk.copy EXCEPT !.state = live.state, !.config = live.config]
        OBVIOUS
      <3>2. c \in Content /\ c.ws = bk.copy.ws /\ c.db = bk.copy.db
            /\ c.state = live.state /\ c.config = live.config
        BY <1>2, <3>1 DEF Content
      <3>3. bk.pc = "trees"
        BY <2>2 DEF CopyTrees
      <3>4. bk' = [pc |-> "publish", copy |-> c, damaged |-> bk.damaged]
        <4>1. bk = [pc |-> bk.pc, copy |-> bk.copy, damaged |-> bk.damaged]
          BY <1>1, <3>3 DEF BackupProc, NoBackup
        <4>2. PICK q : q = [bk EXCEPT !.copy = c]
          OBVIOUS
        <4>3. q = [pc |-> bk.pc, copy |-> c, damaged |-> bk.damaged]
          BY <4>1, <4>2
        <4>4. bk' = [q EXCEPT !.pc = "publish"]
          BY <2>2, <3>1, <4>1, <4>2 DEF CopyTrees
        <4> QED
          BY <4>3, <4>4
      <3> QED
        BY <1>2, <3>2, <3>3, <3>4 DEF BackupProc
    <2> QED
      BY <2>1, <2>2
  <1>4. Types' /\ BackupsArePaired'
    BY <1>1, <1>3, Facts, SameTypes
  <1>5. LiveFits' /\ RestoreFits'
    <2>1. Chosen' = Chosen
      BY <1>1 DEF Chosen
    <2> QED
      BY <1>1, <2>1 DEF RestoreInv, LiveFits, RestoreFits, StagedImages
  <1>6. CopyFits'
    <2>1. CopyFits
      BY DEF RestoreInv
    <2> QED
      BY <1>1, <1>3, <2>1 DEF CopyFits
  <1>7. SafetyCopyFits'
    <2>1. SafetyCopyFits
      BY DEF RestoreInv
    <2> QED
      BY <1>1, <1>3, <2>1 DEF SafetyCopyFits
  <1>8. AttemptFits'
    <2>1. AttemptFits
      BY DEF RestoreInv
    <2>2. IsEmpty' = IsEmpty /\ Protected' = Protected
      BY <1>1 DEF IsEmpty, Protected
    <2> QED
      BY <1>1, <2>1, <2>2 DEF AttemptFits
  <1> QED
    BY <1>4, <1>5, <1>6, <1>7, <1>8 DEF RestoreInv

(* A backup is completed; what a waiting restore found is protected by it.  *)
LEMMA PublishKeeps ==
    ASSUME RestoreInv, Publish
    PROVE  RestoreInv'
  <1> DEFINE new == [copy |-> bk.copy, damaged |-> bk.damaged]
             n == Len(backups)
  <1>1. /\ bk.pc = "publish" /\ backups' = Append(backups, new) /\ bk' = NoBackup
        /\ rs' = IF rs.pc = "backup" THEN [rs EXCEPT !.pc = "images"] ELSE rs
        /\ UNCHANGED <<live, attempt, damaged, faults>>
    BY DEF Publish
  <1>2. /\ new \in Backup /\ new.copy \in Content /\ n \in Nat /\ n < MaxBackups
        /\ backups \in Seq(Backup) /\ rs \in RestoreProc /\ DOMAIN backups = 1..n
        /\ MaxBackups \in Nat /\ rs.pc \in {"none", "backup"}
        /\ ~bk.damaged => bk.copy.db \subseteq bk.copy.ws
    BY <1>1, Facts, CopyFields DEF Backup, RestoreInv, CopyFits
  <1> HIDE DEF new
  <1>3. /\ backups' \in Seq(Backup) /\ Len(backups') = n + 1 /\ DOMAIN backups' = 1..(n + 1)
        /\ \A b \in 1..n : backups'[b] = backups[b]
        /\ backups'[n + 1] = new
    BY <1>1, <1>2, AppendProperties
  <1>4. /\ rs' \in RestoreProc /\ rs'.pc = (IF rs.pc = "backup" THEN "images" ELSE rs.pc)
        /\ rs.pc # "none" => rs'.from = rs.from
    <2>1. CASE rs.pc = "backup"
      <3>1. rs' = [rs EXCEPT !.pc = "images"]
        BY <1>1, <2>1
      <3>2. rs \in [pc : {"backup", "images", "trees", "done"}, from : 1..MaxBackups,
                    staged : Content, hidden : BOOLEAN]
        BY <1>2, <2>1 DEF RestoreProc, NoRestore
      <3>3. /\ rs' \in [pc : {"backup", "images", "trees", "done"}, from : 1..MaxBackups,
                         staged : Content, hidden : BOOLEAN]
            /\ rs'.pc = "images" /\ rs'.from = rs.from
        BY <3>1, <3>2
      <3> QED
        BY <2>1, <3>3 DEF RestoreProc
    <2>2. CASE rs.pc # "backup"
      BY <1>1, <1>2, <2>2
    <2> QED
      BY <2>1, <2>2
  <1>5. bk' \in BackupProc /\ bk'.pc = "none"
    BY <1>1 DEF BackupProc, NoBackup
  <1>6. Types'
    <2>1. Types
      BY DEF RestoreInv
    <2> QED
      BY <1>1, <1>2, <1>3, <1>4, <1>5, <2>1 DEF Types, BackupTypeOK
  <1>7. BackupsArePaired'
    <2>1. ~new.damaged => new.copy.db \subseteq new.copy.ws
      BY <1>2 DEF new
    <2>2. \A b \in 1..(n + 1) : b \in 1..n \/ b = n + 1
      BY <1>2
    <2>3. \A b \in 1..n : ~backups[b].damaged => backups[b].copy.db \subseteq backups[b].copy.ws
      BY <1>2 DEF RestoreInv, BackupsArePaired
    <2> QED
      BY <1>3, <2>1, <2>2, <2>3 DEF BackupsArePaired
  <1>8. LiveFits' /\ CopyFits' /\ SafetyCopyFits'
    BY <1>1, <1>2, <1>4, <1>5 DEF RestoreInv, LiveFits, CopyFits, SafetyCopyFits
  <1>9. RestoreFits'
    <2>1. rs.pc # "none" => rs.from \in 1..n /\ attempt.mode # "none"
      BY <1>2 DEF RestoreInv, RestoreFits
    <2>2. \A b \in 1..n : b \in 1..(n + 1)
      BY <1>2
    <2> QED
      BY <1>1, <1>2, <1>3, <1>4, <2>1, <2>2 DEF RestoreFits
  <1>10. AttemptFits'
    <2>1. AttemptFits /\ SafetyCopyFits
      BY DEF RestoreInv
    <2>2. Protected => Protected'
      <3>1. \A b \in 1..n : b \in 1..(n + 1)
        BY <1>2
      <3> QED
        BY <1>1, <1>2, <1>3, <3>1 DEF Protected
    <2>3. rs.pc = "backup" /\ attempt.found = live => Protected'
      <3> SUFFICES ASSUME rs.pc = "backup", attempt.found = live,
                          NEW part \in Parts, NEW i \in live[part]
                   PROVE  \E b \in DOMAIN backups' : i \in backups'[b].copy[part]
        BY <1>1 DEF Protected
      <3>1. /\ bk.copy.db = live.db /\ bk.copy.ws = live.ws
            /\ bk.copy.state = live.state /\ bk.copy.config = live.config
        BY <1>1, <2>1 DEF SafetyCopyFits
      <3>2. bk.copy[part] = live[part]
        BY <3>1 DEF Parts, Trees
      <3>3. n + 1 \in DOMAIN backups' /\ backups'[n + 1].copy = bk.copy
        BY <1>2, <1>3 DEF new
      <3> QED
        BY <3>2, <3>3
    <2>4. IsEmpty' = IsEmpty
      BY <1>1 DEF IsEmpty
    <2> QED
      BY <1>1, <2>1, <2>2, <2>3, <2>4 DEF AttemptFits
  <1> QED
    BY <1>6, <1>7, <1>8, <1>9, <1>10 DEF RestoreInv

-----------------------------------------------------------------------------
(* restore.sh                                                              *)

(* A restore begins, for the first time or again. *)
LEMMA StartKeeps ==
    ASSUME RestoreInv, NEW b \in DOMAIN backups, RestoreBackupCurrent(b) \/ RestoreEmptyTarget(b)
    PROVE  RestoreInv'
  <1> DEFINE mode == IF RestoreBackupCurrent(b) THEN "--backup-current" ELSE "--empty-target"
             pc == IF RestoreBackupCurrent(b) THEN "backup" ELSE "images"
  <1>1. /\ rs.pc = "none" /\ bk.pc = "none"
        /\ UNCHANGED <<live, backups, damaged, faults>>
        /\ Restore(b, pc) /\ Attempt(mode)
        /\ RestoreBackupCurrent(b) => live.file /\ Len(backups) < MaxBackups /\ bk' = Snapshot
        /\ ~RestoreBackupCurrent(b) => IsEmpty /\ bk' = bk
    BY DEF RestoreBackupCurrent, RestoreEmptyTarget, CanBackUp
  <1>2. /\ live \in Content /\ bk \in BackupProc /\ damaged \in BOOLEAN
        /\ attempt \in [mode : Modes, found : Content, replacing : BOOLEAN]
        /\ b \in 1..MaxBackups
    BY Facts
  <1>3. /\ rs' \in RestoreProc /\ rs'.pc = pc /\ rs'.from = b
    BY <1>1, <1>2, NothingFields DEF Restore, RestoreProc
  <1>4. /\ attempt' \in [mode : Modes, found : Content, replacing : BOOLEAN]
        /\ attempt.replacing => attempt' = attempt
        /\ ~attempt.replacing => /\ attempt'.mode = mode /\ attempt'.found = live
                                 /\ ~attempt'.replacing
    BY <1>1, <1>2 DEF Attempt, Modes
  <1>5. bk' \in BackupProc
    BY <1>1, <1>2, SnapshotFields
  <1>6. Types' /\ BackupsArePaired'
    BY <1>1, <1>2, <1>3, <1>4, <1>5, SameTypes
  <1>7. LiveFits'
    BY <1>1 DEF RestoreInv, LiveFits
  <1>8. CopyFits' /\ SafetyCopyFits'
    <2>1. CASE RestoreBackupCurrent(b)
      BY <1>1, <1>3, <2>1, SnapshotFields DEF RestoreInv, LiveFits, CopyFits, SafetyCopyFits
    <2>2. CASE ~RestoreBackupCurrent(b)
      BY <1>1, <1>3, <2>2 DEF CopyFits, SafetyCopyFits
    <2> QED
      BY <2>1, <2>2
  <1>9. AttemptFits
    BY DEF RestoreInv
  <1>10. RestoreFits'
    BY <1>1, <1>3, <1>4, <1>9 DEF RestoreFits, AttemptFits
  <1>11. AttemptFits'
    <2>1. IsEmpty' = IsEmpty
      BY <1>1 DEF IsEmpty
    <2>2. CASE attempt.replacing
      <3>1. Protected'
        BY <1>1, <1>4, <1>9, <2>2, StaysProtected DEF AttemptFits
      <3> QED
        BY <1>1, <1>4, <1>9, <2>1, <2>2, <3>1 DEF AttemptFits
    <2>3. CASE ~attempt.replacing /\ RestoreBackupCurrent(b)
      BY <1>1, <1>3, <1>4, <2>3 DEF AttemptFits
    <2>4. CASE ~attempt.replacing /\ ~RestoreBackupCurrent(b)
      <3>1. IsEmpty /\ live.db = {}
        BY <1>1, <2>4 DEF RestoreInv, LiveFits, IsEmpty
      <3>2. \A part \in Parts : live[part] = {}
        BY <3>1 DEF IsEmpty, Parts
      <3>3. Protected'
        BY <1>4, <2>4, <3>2 DEF Protected
      <3> QED
        BY <1>1, <1>4, <2>1, <2>4, <3>1, <3>3 DEF AttemptFits
    <2> QED
      BY <2>2, <2>3, <2>4
  <1> QED
    BY <1>6, <1>7, <1>8, <1>10, <1>11 DEF RestoreInv

(* A step of a restore that has its safety copy: data is changed only by    *)
(* one that is known to replace it.                                         *)
LEMMA RestoreStep ==
    ASSUME RestoreInv, rs.pc \notin {"none", "backup"}, UNCHANGED <<backups, bk>>,
           rs' \in RestoreProc, rs'.pc \notin {"none", "backup"},
           live' \in Content, damaged' \in BOOLEAN, live.file => live'.file,
           attempt' \in [mode : Modes, found : Content, replacing : BOOLEAN],
           attempt'.mode = attempt.mode, attempt'.found = attempt.found,
           attempt.replacing => attempt'.replacing,
           attempt'.replacing \/ live' = live,
           LiveFits', RestoreFits'
    PROVE  RestoreInv'
  <1>1. bk.pc = "none" /\ attempt.mode # "none"
    BY DEF RestoreInv, CopyFits, RestoreFits
  <1>2. Types' /\ BackupsArePaired'
    BY Facts, SameTypes
  <1>3. CopyFits' /\ SafetyCopyFits'
    BY <1>1 DEF CopyFits, SafetyCopyFits
  <1>4. AttemptFits'
    <2>1. AttemptFits
      BY DEF RestoreInv
    <2>2. Protected'
      BY <1>1, <2>1, StaysProtected DEF AttemptFits
    <2>3. ~attempt'.replacing => live'.file \/ IsEmpty'
      <3>1. ASSUME ~attempt'.replacing PROVE live'.file \/ IsEmpty'
        <4>1. live' = live /\ ~attempt.replacing
          BY <3>1, Facts
        <4>2. IsEmpty' = IsEmpty
          BY <4>1 DEF IsEmpty
        <4> QED
          BY <2>1, <4>1, <4>2 DEF AttemptFits
      <3> QED
        BY <3>1
    <2> QED
      BY <1>1, <2>1, <2>2, <2>3 DEF AttemptFits
  <1> QED
    BY <1>2, <1>3, <1>4 DEF RestoreInv

LEMMA StageKeeps ==
    ASSUME RestoreInv, StageImages \/ StageTrees
    PROVE  RestoreInv'
  <1>1. /\ rs.pc \in {"images", "trees"} /\ rs \in RestoreProc
        /\ UNCHANGED <<live, backups, bk, attempt, damaged>>
    BY Facts DEF StageImages, StageTrees
  <1>2. /\ rs.from \in DOMAIN backups /\ rs.from \in 1..MaxBackups /\ rs.staged \in Content
        /\ rs.hidden \in BOOLEAN /\ Chosen \in Content /\ attempt.mode # "none"
        /\ Chosen.ws \in SUBSET Instances /\ rs.staged.ws \in SUBSET Instances
    BY <1>1, Facts, RestoreFields DEF RestoreInv, RestoreFits, Content
  <1>3. /\ rs' \in RestoreProc /\ rs'.pc \in {"trees", "remove"} /\ rs'.from = rs.from
        /\ rs'.staged.ws \subseteq Chosen.ws
        /\ rs'.staged.ws = Chosen.ws \/ rs'.hidden
        /\ rs'.pc = "remove" => /\ rs'.staged.db = Chosen.db /\ rs'.staged.state = Chosen.state
                                /\ rs'.staged.config = Chosen.config
    <2>1. CASE StageImages
      <3>1. rs.pc = "images"
        BY <2>1 DEF StageImages
      <3>2. rs = [pc |-> "images", from |-> rs.from, staged |-> rs.staged, hidden |-> rs.hidden]
        BY <1>1, <3>1 DEF RestoreProc, NoRestore
      <3>3. PICK some \in SUBSET Chosen.ws, hid \in BOOLEAN :
              /\ some = Chosen.ws \/ hid
              /\ \/ hid = rs.hidden /\ rs' = [rs EXCEPT !.pc = "trees", !.staged.ws = some]
                 \/ hid = TRUE /\ rs' = [rs EXCEPT !.pc = "trees", !.staged.ws = some,
                                                   !.hidden = TRUE]
        BY <1>2, <2>1 DEF StageImages
      <3>4. PICK c : c = [rs.staged EXCEPT !.ws = some]
        OBVIOUS
      <3>5. c \in Content /\ c.ws = some
        BY <1>2, <3>4 DEF Content
      <3>6. PICK q : q = [rs EXCEPT !.staged = c]
        OBVIOUS
      <3>7. q = [pc |-> "images", from |-> rs.from, staged |-> c, hidden |-> rs.hidden]
        BY <3>2, <3>6
      <3>8. \/ hid = rs.hidden /\ rs' = [q EXCEPT !.pc = "trees"]
            \/ hid = TRUE /\ rs' = [q EXCEPT !.pc = "trees", !.hidden = TRUE]
        BY <3>2, <3>3, <3>4, <3>6
      <3>11. rs' = [pc |-> "trees", from |-> rs.from, staged |-> c, hidden |-> hid]
        <4>1. CASE hid = rs.hidden /\ rs' = [q EXCEPT !.pc = "trees"]
          BY <3>7, <4>1
        <4>2. CASE hid = TRUE /\ rs' = [q EXCEPT !.pc = "trees", !.hidden = TRUE]
          BY <3>7, <4>2
        <4> QED
          BY <3>8, <4>1, <4>2
      <3>12. rs' \in RestoreProc
        BY <1>2, <3>5, <3>11 DEF RestoreProc
      <3>13. rs'.pc = "trees" /\ rs'.from = rs.from /\ rs'.staged = c /\ rs'.hidden = hid
        BY <3>11
      <3>14. c.ws \subseteq Chosen.ws /\ (c.ws = Chosen.ws \/ hid)
        BY <3>3, <3>5
      <3> QED
        BY <3>12, <3>13, <3>14
    <2>2. CASE StageTrees
      <3>1. PICK c : c = [Chosen EXCEPT !.ws = rs.staged.ws]
        OBVIOUS
      <3>2. /\ c \in Content /\ c.ws = rs.staged.ws /\ c.db = Chosen.db
            /\ c.state = Chosen.state /\ c.config = Chosen.config
        BY <1>2, <3>1 DEF Content
      <3>3. /\ rs.pc = "trees"
            /\ rs' = [pc |-> "remove", step |-> 1, from |-> rs.from, hidden |-> rs.hidden,
                      staged |-> c]
        BY <2>2, <3>1 DEF StageTrees
      <3>4. StagedImages
        BY <3>3 DEF RestoreInv, RestoreFits
      <3>5. rs' \in RestoreProc
        BY <1>2, <3>2, <3>3 DEF RestoreProc
      <3> QED
        BY <3>2, <3>3, <3>4, <3>5 DEF StagedImages
    <2> QED
      BY <2>1, <2>2
  <1>4. Chosen' = Chosen
    BY <1>1, <1>3 DEF Chosen
  <1>5. RestoreFits' /\ LiveFits'
    BY <1>1, <1>2, <1>3, <1>4 DEF RestoreFits, StagedImages, RestoreInv, LiveFits
  <1> QED
    BY <1>1, <1>3, <1>5, Facts, RestoreStep

(* The step that replaces a tree, and the state after it. *)
LEMMA NextTree ==
    ASSUME RestoreInv, rs.pc \in {"remove", "move"},
           UNCHANGED <<backups, bk>>,
           LET last == IF rs.pc = "remove" THEN [rs EXCEPT !.pc = "move", !.step = 1]
                       ELSE [pc |-> "database", from |-> rs.from, staged |-> rs.staged,
                             hidden |-> rs.hidden]
           IN rs' = IF rs.step < 3 THEN [rs EXCEPT !.step = @ + 1] ELSE last
    PROVE  /\ rs.step \in 1..3 /\ rs' \in RestoreProc
           /\ rs'.from = rs.from /\ rs'.staged = rs.staged /\ rs'.hidden = rs.hidden
           /\ rs.step < 3 => rs'.pc = rs.pc /\ rs'.step = rs.step + 1
           /\ rs.step = 3 /\ rs.pc = "remove" => rs'.pc = "move" /\ rs'.step = 1
           /\ rs.step = 3 /\ rs.pc = "move" => rs'.pc = "database"
           /\ rs.staged \in Content
           /\ Chosen' = Chosen /\ attempt.mode # "none" /\ rs.from \in DOMAIN backups
           /\ StagedImages /\ StagedImages'
           /\ rs.staged.db = Chosen.db /\ rs.staged.state = Chosen.state
           /\ rs.staged.config = Chosen.config
  <1>1. rs \in [pc : {"remove", "move"}, step : 1..3, from : 1..MaxBackups,
                staged : Content, hidden : BOOLEAN]
    BY Facts DEF RestoreProc, NoRestore
  <1>2. \/ rs.step < 3 /\ rs' = [rs EXCEPT !.step = rs.step + 1] /\ rs.step + 1 \in 1..3
        \/ rs.step = 3 /\ rs.pc = "remove" /\ rs' = [rs EXCEPT !.pc = "move", !.step = 1]
        \/ rs.step = 3 /\ rs.pc = "move"
           /\ rs' = [pc |-> "database", from |-> rs.from, staged |-> rs.staged,
                     hidden |-> rs.hidden]
    BY <1>1
  <1>3. /\ rs.step \in 1..3 /\ rs' \in RestoreProc
        /\ rs'.from = rs.from /\ rs'.staged = rs.staged /\ rs'.hidden = rs.hidden
        /\ rs.step < 3 => rs'.pc = rs.pc /\ rs'.step = rs.step + 1
        /\ rs.step = 3 /\ rs.pc = "remove" => rs'.pc = "move" /\ rs'.step = 1
        /\ rs.step = 3 /\ rs.pc = "move" => rs'.pc = "database"
    <2>1. CASE rs.step < 3
      <3>1. rs' = [rs EXCEPT !.step = rs.step + 1] /\ rs.step + 1 \in 1..3
        BY <1>2, <2>1
      <3> QED
        BY <1>1, <2>1, <3>1 DEF RestoreProc
    <2>2. CASE rs.step = 3 /\ rs.pc = "remove"
      <3>1. rs' = [rs EXCEPT !.pc = "move", !.step = 1]
        BY <1>2, <2>2
      <3>2. rs = [pc |-> rs.pc, step |-> rs.step, from |-> rs.from, staged |-> rs.staged,
                  hidden |-> rs.hidden]
        BY <1>1
      <3>3. rs' = [pc |-> "move", step |-> 1, from |-> rs.from, staged |-> rs.staged,
                   hidden |-> rs.hidden]
        BY <3>1, <3>2
      <3>4. rs' \in RestoreProc
        BY <1>1, <3>3 DEF RestoreProc
      <3> QED
        BY <2>2, <3>3, <3>4
    <2>3. CASE rs.step = 3 /\ rs.pc = "move"
      <3>1. rs' = [pc |-> "database", from |-> rs.from, staged |-> rs.staged,
                   hidden |-> rs.hidden]
        BY <1>2, <2>3
      <3> QED
        BY <1>1, <2>3, <3>1 DEF RestoreProc
    <2> QED
      BY <1>1, <1>2, <2>1, <2>2, <2>3
  <1>4. Chosen' = Chosen
    BY <1>3 DEF Chosen
  <1>5. /\ attempt.mode # "none" /\ rs.from \in DOMAIN backups /\ StagedImages
        /\ rs.staged.db = Chosen.db /\ rs.staged.state = Chosen.state
        /\ rs.staged.config = Chosen.config
    BY DEF RestoreInv, RestoreFits
  <1>6. StagedImages'
    BY <1>3, <1>4, <1>5 DEF StagedImages
  <1> QED
    BY <1>1, <1>3, <1>4, <1>5, <1>6

(* A name of the order stands for one tree. *)
LEMMA TreeAt ==
    /\ Order[1] = "ws" /\ Order[2] = "state" /\ Order[3] = "config"
    /\ \A k \in 1..3 : Order[k] \in Trees /\ Order[k] \in Parts
  BY DEF Order, Trees, Parts

(* rm -rf of a tree that is protected. *)
LEMMA RemoveKeeps ==
    ASSUME RestoreInv, Remove
    PROVE  RestoreInv'
  <1>1. /\ rs.pc = "remove" /\ live' = [live EXCEPT ![Order[rs.step]] = {}]
        /\ damaged' = TRUE /\ attempt' = [attempt EXCEPT !.replacing = TRUE]
        /\ rs' = IF rs.step < 3 THEN [rs EXCEPT !.step = @ + 1]
                 ELSE [rs EXCEPT !.pc = "move", !.step = 1]
        /\ UNCHANGED <<backups, bk, faults>>
    BY DEF Remove, Removed
  <1>2. /\ rs.step \in 1..3 /\ rs' \in RestoreProc
        /\ rs'.from = rs.from /\ rs'.staged = rs.staged /\ rs'.hidden = rs.hidden
        /\ rs'.pc \in {"remove", "move"} /\ (rs'.pc = "move" => rs'.step = 1)
        /\ Chosen' = Chosen /\ attempt.mode # "none" /\ rs.from \in DOMAIN backups
        /\ StagedImages'
        /\ rs.staged.db = Chosen.db /\ rs.staged.state = Chosen.state
        /\ rs.staged.config = Chosen.config
    <2>1. LET last == IF rs.pc = "remove" THEN [rs EXCEPT !.pc = "move", !.step = 1]
                      ELSE [pc |-> "database", from |-> rs.from, staged |-> rs.staged,
                            hidden |-> rs.hidden]
          IN rs' = IF rs.step < 3 THEN [rs EXCEPT !.step = @ + 1] ELSE last
      BY <1>1
    <2>2. rs.step \in 1..3 => rs.step < 3 \/ rs.step = 3
      OBVIOUS
    <2> QED
      BY <1>1, <2>1, <2>2, NextTree
  <1>3. PICK t \in Parts : t = Order[rs.step] /\ t \in Trees
    BY <1>2, TreeAt
  <1>4. /\ live' \in Content /\ live'.file = live.file
        /\ \A part \in Parts : live'[part] = {} \/ live'[part] = live[part]
    <2>1. PICK S \in SUBSET Instances : S = {}
      OBVIOUS
    <2>2. live' = Replaced(live, t, S)
      BY <1>1, <1>3, <2>1 DEF Replaced
    <2>3. live \in Content
      BY Facts
    <2>4. /\ live' \in Content /\ live'.file = live.file /\ live'[t] = S
          /\ \A other \in Parts : other # t => live'[other] = live[other]
      BY <2>2, <2>3, ReplacedPart, Zenon
    <2> QED
      BY <2>1, <2>4
  <1>5. attempt' \in [mode : Modes, found : Content, replacing : BOOLEAN]
        /\ attempt'.mode = attempt.mode /\ attempt'.found = attempt.found /\ attempt'.replacing
    BY <1>1, Facts
  <1>6. LiveFits'
    <2>1. live'.db = {} \/ live'.db = live.db
      BY <1>4 DEF Parts
    <2> QED
      BY <1>1, <1>4, <2>1 DEF RestoreInv, LiveFits
  <1>7. RestoreFits'
    BY <1>1, <1>2, <1>5 DEF RestoreFits
  <1> QED
    BY <1>1, <1>2, <1>4, <1>5, <1>6, <1>7, Facts, RestoreStep

(* mv of a staged tree to where nothing is left. *)
LEMMA MoveKeeps ==
    ASSUME RestoreInv, Move
    PROVE  RestoreInv'
  <1>1. /\ rs.pc = "move"
        /\ live' = [live EXCEPT ![Order[rs.step]] = rs.staged[Order[rs.step]]]
        /\ rs' = IF rs.step < 3 THEN [rs EXCEPT !.step = @ + 1]
                 ELSE [pc |-> "database", from |-> rs.from, staged |-> rs.staged,
                       hidden |-> rs.hidden]
        /\ UNCHANGED <<backups, bk, attempt, damaged, faults>>
    BY DEF Move, Moved
  <1>2. /\ rs.step \in 1..3 /\ rs' \in RestoreProc
        /\ rs'.from = rs.from /\ rs'.staged = rs.staged /\ rs'.hidden = rs.hidden
        /\ rs.step < 3 => rs'.pc = "move" /\ rs'.step = rs.step + 1
        /\ rs.step = 3 => rs'.pc = "database"
        /\ rs.staged \in Content
        /\ Chosen' = Chosen /\ attempt.mode # "none" /\ rs.from \in DOMAIN backups
        /\ StagedImages'
        /\ rs.staged.db = Chosen.db /\ rs.staged.state = Chosen.state
        /\ rs.staged.config = Chosen.config
    <2>1. LET last == IF rs.pc = "remove" THEN [rs EXCEPT !.pc = "move", !.step = 1]
                      ELSE [pc |-> "database", from |-> rs.from, staged |-> rs.staged,
                            hidden |-> rs.hidden]
          IN rs' = IF rs.step < 3 THEN [rs EXCEPT !.step = @ + 1] ELSE last
      BY <1>1
    <2> QED
      BY <1>1, <2>1, NextTree
  <1>3. /\ damaged /\ attempt.replacing
        /\ rs.step > 1 => live.ws = rs.staged.ws
        /\ rs.step > 2 => live.state = rs.staged.state
    BY <1>1 DEF RestoreInv, RestoreFits
  <1>4. PICK t \in Parts : t = Order[rs.step] /\ t \in Trees
    BY <1>2, TreeAt
  <1>5. /\ live' \in Content /\ live'.file = live.file
        /\ live'[t] = rs.staged[t]
        /\ \A part \in Parts : part # t => live'[part] = live[part]
    <2>1. PICK S : S = rs.staged[t]
      OBVIOUS
    <2>2. S \in SUBSET Instances
      BY <1>2, <1>4, <2>1, ContentFields
    <2>3. live' = Replaced(live, t, S)
      BY <1>1, <1>4, <2>1 DEF Replaced
    <2>4. live \in Content
      BY Facts
    <2>5. /\ live' \in Content /\ live'.file = live.file /\ live'[t] = S
          /\ \A other \in Parts : other # t => live'[other] = live[other]
      BY <2>2, <2>3, <2>4, ReplacedPart, Zenon
    <2> QED
      BY <2>1, <2>5
  <1>6. LiveFits'
    <2>1. live'.db = live.db
      BY <1>4, <1>5 DEF Parts, Trees
    <2> QED
      BY <1>1, <1>3, <1>5, <2>1 DEF RestoreInv, LiveFits
  <1>7. /\ rs.step >= 1 => live'.ws = rs.staged.ws
        /\ rs.step >= 2 => live'.state = rs.staged.state
        /\ rs.step >= 3 => live'.config = rs.staged.config
    <2>1. "ws" \in Parts /\ "state" \in Parts /\ "config" \in Parts
      BY DEF Parts, Trees
    <2>2. CASE rs.step = 1
      BY <1>4, <1>5, <2>1, <2>2, TreeAt
    <2>3. CASE rs.step = 2
      BY <1>3, <1>4, <1>5, <2>1, <2>3, TreeAt
    <2>4. CASE rs.step = 3
      BY <1>3, <1>4, <1>5, <2>1, <2>4, TreeAt
    <2> QED
      BY <1>2, <2>2, <2>3, <2>4
  <1>8. RestoreFits'
    <2>1. CASE rs.step < 3
      BY <1>1, <1>2, <1>3, <1>7, <2>1 DEF RestoreFits
    <2>2. CASE rs.step = 3
      <3>1. \A u \in Trees : live'[u] = rs.staged[u]
        BY <1>7, <2>2 DEF Trees
      <3> QED
        BY <1>1, <1>2, <1>3, <2>2, <3>1 DEF RestoreFits
    <2> QED
      BY <1>2, <2>1, <2>2
  <1> QED
    BY <1>1, <1>2, <1>3, <1>5, <1>6, <1>8, Facts, RestoreStep

(* The database is put in place last. *)
LEMMA InstallKeeps ==
    ASSUME RestoreInv, InstallDatabase
    PROVE  RestoreInv'
  <1>1. /\ rs.pc = "database" /\ live' = [live EXCEPT !.file = TRUE, !.db = rs.staged.db]
        /\ damaged' = (rs.hidden \/ backups[rs.from].damaged)
        /\ rs' = [rs EXCEPT !.pc = "done"]
        /\ UNCHANGED <<backups, bk, attempt, faults>>
    BY DEF InstallDatabase
  <1>2. /\ rs \in RestoreProc /\ live \in Content /\ rs.staged \in Content
        /\ rs.from \in DOMAIN backups /\ rs.hidden \in BOOLEAN
        /\ backups[rs.from].damaged \in BOOLEAN
    BY <1>1, Facts, RestoreFields DEF RestoreInv, RestoreFits, Backup
  <1>3. /\ StagedImages /\ attempt.mode # "none" /\ attempt.replacing
        /\ rs.staged.db = Chosen.db /\ rs.staged.state = Chosen.state
        /\ rs.staged.config = Chosen.config
        /\ \A t \in Trees : live[t] = rs.staged[t]
    BY <1>1 DEF RestoreInv, RestoreFits
  <1>4. /\ live' \in Content /\ live'.file /\ live'.db = rs.staged.db
        /\ \A t \in Trees : live'[t] = live[t]
    BY <1>1, <1>2 DEF Content, Trees
  <1>5. /\ rs' \in RestoreProc /\ rs'.pc = "done" /\ rs'.from = rs.from
        /\ rs'.staged = rs.staged /\ rs'.hidden = rs.hidden
    <2>1. rs \in [pc : {"database"}, from : 1..MaxBackups, staged : Content, hidden : BOOLEAN]
      BY <1>1, <1>2 DEF RestoreProc, NoRestore
    <2>2. rs' = [pc |-> "done", from |-> rs.from, staged |-> rs.staged, hidden |-> rs.hidden]
      BY <1>1, <2>1
    <2> QED
      BY <2>1, <2>2 DEF RestoreProc
  <1>6. Chosen' = Chosen /\ StagedImages'
    BY <1>1, <1>3, <1>5 DEF Chosen, StagedImages
  <1>7. LiveFits'
    <2>1. ASSUME ~damaged' PROVE live'.db \subseteq live'.ws
      <3>1. ~rs.hidden /\ ~backups[rs.from].damaged
        BY <1>1, <2>1
      <3>2. rs.staged.ws = Chosen.ws
        BY <1>3, <3>1 DEF StagedImages
      <3>3. Chosen.db \subseteq Chosen.ws
        BY <1>2, <3>1 DEF RestoreInv, BackupsArePaired, Chosen
      <3>4. live'.ws = rs.staged.ws
        BY <1>3, <1>4 DEF Trees
      <3> QED
        BY <1>3, <1>4, <3>2, <3>3, <3>4
    <2> QED
      BY <1>4, <2>1 DEF LiveFits
  <1>8. RestoreFits'
    BY <1>1, <1>2, <1>3, <1>4, <1>5, <1>6 DEF RestoreFits
  <1>9. damaged' \in BOOLEAN
    BY <1>1, <1>2
  <1> QED
    BY <1>1, <1>3, <1>4, <1>5, <1>7, <1>8, <1>9, Facts, RestoreStep

-----------------------------------------------------------------------------
(* The end of an attempt, and faults.                                      *)

LEMMA NoneFields ==
    /\ NoRestore \in RestoreProc /\ NoRestore.pc = "none"
    /\ NoBackup \in BackupProc /\ NoBackup.pc = "none"
    /\ NoAttempt \in [mode : Modes, found : Content, replacing : BOOLEAN]
    /\ NoAttempt.mode = "none" /\ ~NoAttempt.replacing
  BY NothingFields DEF NoRestore, RestoreProc, NoBackup, BackupProc, NoAttempt, Modes

(* Both scripts are over, and what is in place is a target for the next.   *)
LEMMA ScriptsEnd ==
    ASSUME RestoreInv, UNCHANGED backups, bk' = NoBackup, rs' = NoRestore,
           live' \in Content, damaged' \in BOOLEAN, LiveFits',
           \/ attempt' = NoAttempt /\ (live'.file \/ IsEmpty')
           \/ attempt' = attempt /\ attempt.replacing /\ live' = live
    PROVE  RestoreInv'
  <1>1. Types' /\ BackupsArePaired'
    BY Facts, NoneFields, SameTypes
  <1>2. CopyFits' /\ SafetyCopyFits' /\ RestoreFits'
    BY NoneFields DEF CopyFits, SafetyCopyFits, RestoreFits
  <1>3. AttemptFits'
    <2>1. CASE attempt' = NoAttempt /\ (live'.file \/ IsEmpty')
      BY <2>1, NoneFields DEF AttemptFits
    <2>2. CASE attempt' = attempt /\ attempt.replacing /\ live' = live
      <3>1. AttemptFits
        BY DEF RestoreInv
      <3>2. Protected'
        BY <2>2, <3>1, StaysProtected DEF AttemptFits
      <3> QED
        BY <2>2, <3>1, <3>2 DEF AttemptFits
    <2> QED
      BY <2>1, <2>2
  <1> QED
    BY <1>1, <1>2, <1>3 DEF RestoreInv

LEMMA EndKeeps ==
    ASSUME RestoreInv, ReportDone \/ Interrupt \/ LoseHost
    PROVE  RestoreInv'
  <1>1. LiveFits /\ AttemptFits /\ bk \in BackupProc /\ rs \in RestoreProc
        /\ live \in Content /\ damaged \in BOOLEAN
    BY Facts DEF RestoreInv
  <1>2. CASE ReportDone
    <2>1. /\ rs.pc = "done" /\ rs' = NoRestore /\ attempt' = NoAttempt
          /\ UNCHANGED <<live, backups, bk, damaged, faults>>
      BY <1>2 DEF ReportDone
    <2>2. live.file
      BY <2>1 DEF RestoreInv, RestoreFits
    <2>3. bk.pc = "none"
      BY <2>1 DEF RestoreInv, CopyFits
    <2>4. bk = NoBackup
      BY <1>1, <2>3 DEF BackupProc
    <2>5. LiveFits'
      BY <1>1, <2>1 DEF LiveFits
    <2> QED
      BY <1>1, <2>1, <2>2, <2>4, <2>5, ScriptsEnd
  <1>3. CASE Interrupt
    <2>1. /\ bk' = NoBackup /\ rs' = NoRestore
          /\ attempt' = IF attempt.replacing THEN attempt ELSE NoAttempt
          /\ UNCHANGED <<live, backups, damaged>>
      BY <1>3 DEF Interrupt
    <2>2. LiveFits'
      BY <1>1, <2>1 DEF LiveFits
    <2>3. ~attempt.replacing => live'.file \/ IsEmpty'
      BY <1>1, <2>1 DEF AttemptFits, IsEmpty
    <2> QED
      BY <1>1, <2>1, <2>2, <2>3, ScriptsEnd
  <1>4. CASE LoseHost
    <2>1. /\ bk.pc = "none" /\ rs.pc = "none" /\ live' = Nothing /\ damaged' = FALSE
          /\ attempt' = NoAttempt
          /\ UNCHANGED <<backups, bk, rs>>
      BY <1>4 DEF LoseHost
    <2>2. bk = NoBackup /\ rs = NoRestore
      BY <1>1, <2>1 DEF BackupProc, RestoreProc
    <2>3. \A part \in Parts : live'[part] = {}
      BY <2>1, NothingFields
    <2>4. IsEmpty' /\ LiveFits'
      BY <2>1, <2>3, NothingFields DEF IsEmpty, LiveFits, Parts
    <2> QED
      BY <2>1, <2>2, <2>4, NothingFields, ScriptsEnd
  <1> QED
    BY <1>2, <1>3, <1>4

LEMMA RestKeeps ==
    ASSUME RestoreInv, UNCHANGED backupVars
    PROVE  RestoreInv'
  <1>1. UNCHANGED live /\ UNCHANGED backups /\ UNCHANGED bk /\ UNCHANGED rs
        /\ UNCHANGED attempt /\ UNCHANGED damaged
    BY DEF backupVars
  <1>2. Types' /\ BackupsArePaired'
    BY <1>1, Facts, SameTypes
  <1>3. LiveFits' /\ CopyFits' /\ SafetyCopyFits'
    BY <1>1 DEF RestoreInv, LiveFits, CopyFits, SafetyCopyFits
  <1>4. RestoreFits'
    BY <1>1 DEF RestoreInv, RestoreFits, StagedImages, Chosen
  <1>5. AttemptFits'
    BY <1>1 DEF RestoreInv, AttemptFits, Protected, IsEmpty
  <1> QED
    BY <1>2, <1>3, <1>4, <1>5 DEF RestoreInv

(* The invariant holds in every state. *)
LEMMA InvHolds == BackupSpec => []RestoreInv
  <1>1. RestoreInv /\ [BackupNext]_backupVars => RestoreInv'
    BY OnlineKeeps, BackUpKeeps, CopyKeeps, PublishKeeps, StartKeeps, StageKeeps, RemoveKeeps,
       MoveKeeps, InstallKeeps, EndKeeps, RestKeeps, Zenon DEF BackupNext
  <1> QED
    BY <1>1, InitHolds, PTL DEF BackupSpec

(* Wherever backup.sh and restore.sh are interrupted: every account of a    *)
(* completed backup has its image in it, and one of the two modes of        *)
(* restore.sh accepts what is in place, unless an --empty-target restore    *)
(* was interrupted while it replaced data.                                  *)
THEOREM BackupsStayPaired == BackupSpec => []BackupConsistent
  <1>1. RestoreInv => BackupConsistent
    <2> SUFFICES ASSUME RestoreInv PROVE BackupConsistent
      OBVIOUS
    <2>1. CanBeRunAgain
      <3>1. AttemptFits /\ attempt.mode \in Modes /\ attempt.replacing \in BOOLEAN
        BY Facts DEF RestoreInv
      <3> QED
        BY <3>1 DEF CanBeRunAgain, AttemptFits, Modes
    <2> QED
      BY <2>1 DEF RestoreInv, Types, BackupConsistent
  <1> QED
    BY <1>1, InvHolds, PTL

(* restore.sh replaces what it found only after a completed backup of it,   *)
(* however often it is interrupted and run again.                           *)
THEOREM RestoreLosesNothing == BackupSpec => []NothingIsLost
  <1>1. RestoreInv => NothingIsLost
    <2> SUFFICES ASSUME RestoreInv, attempt.mode # "none",
                        NEW part \in Trees \cup {"db"}, NEW i \in attempt.found[part]
                 PROVE  Kept(part, i)
      BY DEF NothingIsLost
    <2>1. AttemptFits /\ part \in Parts
      BY DEF RestoreInv, Parts
    <2>2. CASE Protected
      BY <2>1, <2>2 DEF Protected, Kept
    <2>3. CASE attempt.found = live
      BY <2>3 DEF Kept
    <2> QED
      BY <2>1, <2>2, <2>3 DEF AttemptFits
  <1> QED
    BY <1>1, InvHolds, PTL

(* A restore that reports its completion has put in place the chosen backup *)
(* and nothing else, but for images whose copy failed unnoticed.            *)
THEOREM CompletedRestoreIsTheBackup == BackupSpec => []CompletedIsTheBackup
  <1>1. RestoreInv => CompletedIsTheBackup
    <2> SUFFICES ASSUME RestoreInv, rs.pc = "done"
                 PROVE  /\ live.file /\ live.db = Chosen.db /\ live.state = Chosen.state
                        /\ live.config = Chosen.config /\ live.ws \subseteq Chosen.ws
                        /\ live.ws = Chosen.ws \/ rs.hidden
      BY DEF CompletedIsTheBackup
    <2>1. /\ StagedImages
          /\ rs.staged.db = Chosen.db /\ rs.staged.state = Chosen.state
          /\ rs.staged.config = Chosen.config
          /\ \A t \in Trees : live[t] = rs.staged[t]
          /\ live.file /\ live.db = rs.staged.db
      BY DEF RestoreInv, RestoreFits
    <2>2. live.ws = rs.staged.ws /\ live.state = rs.staged.state
          /\ live.config = rs.staged.config
      BY <2>1 DEF Trees
    <2> QED
      BY <2>1, <2>2 DEF StagedImages
  <1> QED
    BY <1>1, InvHolds, PTL
=============================================================================

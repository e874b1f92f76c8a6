-------------------------- MODULE BootstrapProofs --------------------------
(***************************************************************************)
(* Proofs about Bootstrap: what the offline bootstrap keeps through any    *)
(* number of runs, kills, power losses, failed calls and interrupts, for   *)
(* any roster and any names.                                               *)
(***************************************************************************)
EXTENDS Bootstrap, FiniteSetTheorems, TLAPS

USE DEF Runs

-----------------------------------------------------------------------------
(* The inductive invariant.                                                *)

(* Files from which a run can complete a row with that token. *)
Whole(files, token) ==
    /\ files.final \in {None, token}
    /\ \A s \in files.staged : s.token = token
    /\ files.final = None => files.staged # {}

(* Instances with a row that some state of the disk cannot complete ... *)
Broken == {i \in Instances : HasRow(i) /\ \E d \in disk : ~Whole(d[i], rows[i].token)}

(* ... and the one whose staging file the finally block is about to remove *)
(* although its token is not published.                                    *)
Doomed ==
    {i \in Instances : /\ proc # Idle /\ proc.pc = "cleanup" /\ proc.inst = i
                       /\ HasRow(i) /\ dir[i].final = None}

LostAreInterrupted ==
    IsFiniteSet(Broken \cup Doomed) /\ Cardinality(Broken \cup Doomed) <= interrupts

(* One staging file at most, in every state of the disk. *)
Unambiguous ==
    \A d \in disk : \A i \in Instances : \A r, s \in d[i].staged : r = s

Staged(run, token) == [run |-> run, token |-> token]

(* What the command found or did so far, at each of its steps. *)
ProcFits ==
    LET q == proc
        i == proc.inst
        f == dir[proc.inst]
        token == rows[proc.inst].token
    IN
    proc # Idle =>
        /\ q.fresh => i \notin done
        /\ q.pc \in {"drop", "dropped", "stage", "write", "sync", "commit"} =>
             q.fresh /\ ~HasRow(i) /\ f.final = None
        /\ q.pc \in {"compensate", "cleanup"} => q.fresh
        /\ q.pc \in {"dropped", "stage"} => f.staged = {}
        /\ q.pc = "write" => f.staged = {Staged(q.run, Empty)}
        /\ q.pc \in {"sync", "commit"} => f.staged = {Staged(q.run, q.run)}
        /\ q.pc = "commit" => disk = {dir}
        /\ q.pc \in {"link", "unlink"} => f.staged = {Staged(q.run, token)}
        /\ q.pc = "close" => f.staged = {}
        /\ q.pc \in {"link", "unlink", "close"} => HasRow(i)
        /\ q.pc = "link" => f.final = None
        /\ q.pc \in {"unlink", "close"} => f.final = token

BootInv ==
    /\ BootTypeOK /\ Unambiguous /\ ProcFits
    /\ DoneIsDurable /\ LostAreInterrupted

-----------------------------------------------------------------------------
(* Lemmas about the state.                                                 *)

LEMMA FilesFields ==
    ASSUME NEW f \in Files
    PROVE  /\ \A S \in SUBSET [run : Runs, token : Runs \cup {Empty}] :
                /\ [f EXCEPT !.staged = S] \in Files
                /\ [f EXCEPT !.staged = S].staged = S
                /\ [f EXCEPT !.staged = S].final = f.final
           /\ \A x \in Runs \cup {None} :
                /\ [f EXCEPT !.final = x] \in Files
                /\ [f EXCEPT !.final = x].staged = f.staged
                /\ [f EXCEPT !.final = x].final = x
           /\ f.staged \in SUBSET [run : Runs, token : Runs \cup {Empty}]
           /\ f.final \in Runs \cup {None}
  BY DEF Files

(* The steps of a command. *)
Steps == {"drop", "dropped", "stage", "write", "sync", "commit", "link",
          "unlink", "close", "compensate", "cleanup"}

LEMMA ProcFields ==
    ASSUME proc \in Proc, proc # Idle
    PROVE  /\ proc.pc \in Steps /\ proc.inst \in Instances /\ proc.name \in Names
           /\ proc.run \in Runs /\ proc.fresh \in BOOLEAN
  BY DEF Proc, Steps

LEMMA GotoFields ==
    ASSUME proc \in Proc, proc # Idle, NEW pc \in Steps, Goto(pc)
    PROVE  /\ proc' \in Proc /\ proc' # Idle
           /\ proc'.pc = pc /\ proc'.inst = proc.inst /\ proc'.run = proc.run
           /\ proc'.fresh = proc.fresh
  <1>1. PICK q : q = [proc EXCEPT !.pc = pc]
    OBVIOUS
  <1>2. /\ q \in [pc : Steps, inst : Instances, name : Names, run : Runs, fresh : BOOLEAN]
        /\ q.pc = pc /\ q.inst = proc.inst /\ q.run = proc.run /\ q.fresh = proc.fresh
    BY <1>1 DEF Proc, Steps
  <1>3. q # Idle
    BY <1>2 DEF Idle, Steps
  <1> QED
    BY <1>1, <1>2, <1>3 DEF Goto, Proc, Steps

(* Fewer instances at risk, or one more and one more interrupt. *)
LEMMA AtRisk ==
    ASSUME BootTypeOK, LostAreInterrupted,
           \/ (Broken \cup Doomed)' \subseteq Broken \cup Doomed /\ interrupts' = interrupts
           \/ \E i : (Broken \cup Doomed)' \subseteq Broken \cup Doomed \cup {i}
                     /\ interrupts' = interrupts + 1
    PROVE  LostAreInterrupted'
  <1>1. PICK S : S = Broken \cup Doomed
    OBVIOUS
  <1>2. PICK T : T = (Broken \cup Doomed)'
    OBVIOUS
  <1>3. IsFiniteSet(S) /\ Cardinality(S) \in Nat /\ Cardinality(S) <= interrupts
        /\ interrupts \in Int
    BY <1>1, FS_CardinalityType, BootstrapAssumption DEF LostAreInterrupted, BootTypeOK
  <1>4. CASE T \subseteq S /\ interrupts' = interrupts
    <2>1. IsFiniteSet(T) /\ Cardinality(T) <= Cardinality(S)
      BY <1>3, <1>4, FS_Subset
    <2>2. Cardinality(T) \in Nat
      BY <2>1, FS_CardinalityType
    <2> QED
      BY <1>2, <1>3, <1>4, <2>1, <2>2 DEF LostAreInterrupted
  <1>5. ASSUME NEW i, T \subseteq S \cup {i}, interrupts' = interrupts + 1
        PROVE  LostAreInterrupted'
    <2>1. IsFiniteSet(S \cup {i}) /\ Cardinality(S \cup {i}) <= Cardinality(S) + 1
      BY <1>3, FS_AddElement
    <2>2. IsFiniteSet(T) /\ Cardinality(T) <= Cardinality(S \cup {i})
      BY <1>5, <2>1, FS_Subset
    <2>3. Cardinality(T) \in Nat /\ Cardinality(S \cup {i}) \in Nat
      BY <2>1, <2>2, FS_CardinalityType
    <2> QED
      BY <1>2, <1>3, <1>5, <2>1, <2>2, <2>3 DEF LostAreInterrupted
  <1> QED
    BY <1>1, <1>2, <1>4, <1>5

(* Steps that leave rows and files, but for what the disk may still hold. *)
LEMMA DiskShrinks ==
    ASSUME BootInv, disk' \subseteq disk, UNCHANGED <<rows, done>>, interrupts' = interrupts,
           Doomed' \subseteq Broken \cup Doomed
    PROVE  Unambiguous' /\ DoneIsDurable' /\ LostAreInterrupted'
  <1>1. BootTypeOK /\ Unambiguous /\ DoneIsDurable /\ LostAreInterrupted
    BY DEF BootInv
  <1>2. Unambiguous'
    BY <1>1 DEF Unambiguous
  <1>3. DoneIsDurable'
    BY <1>1 DEF DoneIsDurable, Verifies, HasRow
  <1>4. Broken' \subseteq Broken
    BY DEF Broken, HasRow
  <1> QED
    BY <1>1, <1>2, <1>3, <1>4, AtRisk

(* Steps that change the files of one instance for which no run has        *)
(* returned, to some that a run can complete.                              *)
LEMMA FilesChange ==
    ASSUME BootInv, NEW i \in Instances, NEW f \in Files,
           dir' = [dir EXCEPT ![i] = f], disk' = disk \cup {dir'},
           UNCHANGED <<rows, done>>, interrupts' = interrupts,
           i \notin done, \A r, s \in f.staged : r = s,
           HasRow(i) => Whole(f, rows[i].token) \/ i \in Broken \cup Doomed,
           Doomed' \subseteq Broken \cup Doomed
    PROVE  /\ Unambiguous' /\ DoneIsDurable' /\ LostAreInterrupted'
           /\ dir' \in [Instances -> Files] /\ dir' \in disk'
           /\ disk' \subseteq [Instances -> Files]
           /\ dir'[i] = f
  <1>1. BootTypeOK /\ Unambiguous /\ DoneIsDurable /\ LostAreInterrupted
    BY DEF BootInv
  <1>2. /\ dir' \in [Instances -> Files] /\ dir'[i] = f
        /\ \A j \in Instances : j # i => dir'[j] = dir[j]
        /\ dir \in disk /\ disk \subseteq [Instances -> Files]
    BY <1>1 DEF BootTypeOK
  <1>3. \A d \in disk' : \A j \in Instances :
          (\E e \in disk : d[j] = e[j]) \/ (j = i /\ d[j] = f)
    BY <1>2
  <1>4. Unambiguous'
    <2> SUFFICES ASSUME NEW d \in disk', NEW j \in Instances
                 PROVE  \A r, s \in d[j].staged : r = s
      BY DEF Unambiguous
    <2> QED
      BY <1>1, <1>3 DEF Unambiguous
  <1>5. DoneIsDurable'
    <2> SUFFICES ASSUME NEW j \in done, NEW d \in disk'
                 PROVE  Verifies(d, j)'
      BY DEF DoneIsDurable
    <2>1. j \in Instances /\ j # i
      BY <1>1 DEF BootTypeOK
    <2>2. PICK e \in disk : d[j] = e[j]
      BY <1>3, <2>1
    <2>3. Verifies(e, j)
      BY <1>1 DEF DoneIsDurable
    <2> QED
      BY <2>2, <2>3 DEF Verifies, HasRow
  <1>6. Broken' \subseteq Broken \cup Doomed
    <2> SUFFICES ASSUME NEW j \in Instances, HasRow(j), NEW d \in disk',
                        ~Whole(d[j], rows[j].token)
                 PROVE  j \in Broken \cup Doomed
      BY DEF Broken, HasRow
    <2>1. CASE \E e \in disk : d[j] = e[j]
      BY <2>1 DEF Broken
    <2>2. CASE j = i /\ d[j] = f
      BY <2>2
    <2> QED
      BY <1>3, <2>1, <2>2
  <1> QED
    BY <1>1, <1>2, <1>4, <1>5, <1>6, AtRisk

(* An instance at risk that keeps row, files and step stays so. *)
LEMMA NotDoomed ==
    ASSUME proc' = Idle \/ proc'.pc # "cleanup"
    PROVE  Doomed' = {}
  BY DEF Doomed

LEMMA InitHolds == BootInit => BootInv
  <1> SUFFICES ASSUME BootInit PROVE BootInv
    OBVIOUS
  <1>1. NoFiles \in Files /\ NoFiles.staged = {}
    BY DEF NoFiles, Files
  <1>2. BootTypeOK
    BY <1>1, BootstrapAssumption DEF BootInit, BootTypeOK, Proc
  <1>3. Unambiguous /\ ProcFits /\ DoneIsDurable
    BY <1>1 DEF BootInit, Unambiguous, ProcFits, DoneIsDurable
  <1>4. Broken \cup Doomed = {} /\ interrupts = 0
    BY DEF BootInit, Broken, Doomed, HasRow
  <1>5. LostAreInterrupted
    BY <1>4, FS_EmptySet DEF LostAreInterrupted
  <1> QED
    BY <1>2, <1>3, <1>5 DEF BootInv

-----------------------------------------------------------------------------
(* The steps of the command.                                               *)

(* What is known where a command runs. *)
LEMMA Running ==
    ASSUME BootInv, proc # Idle
    PROVE  /\ BootTypeOK /\ Unambiguous /\ ProcFits /\ DoneIsDurable /\ LostAreInterrupted
           /\ proc \in Proc /\ proc.inst \in Instances /\ proc.pc \in Steps /\ proc.run \in Runs
           /\ proc.name \in Names /\ proc.fresh \in BOOLEAN
           /\ dir[proc.inst] \in Files /\ dir \in disk
           /\ proc.pc \in {"link", "unlink"} => proc.inst \notin done
           /\ \A r, s \in dir[proc.inst].staged : r = s
           /\ HasRow(proc.inst) => rows[proc.inst] \in Row
  <1>1. BootTypeOK /\ Unambiguous /\ ProcFits /\ DoneIsDurable /\ LostAreInterrupted
    BY DEF BootInv
  <1>2. proc \in Proc
    BY <1>1 DEF BootTypeOK
  <1>3. /\ proc.inst \in Instances /\ proc.pc \in Steps /\ proc.run \in Runs
        /\ proc.name \in Names /\ proc.fresh \in BOOLEAN
    BY <1>2, ProcFields
  <1>4. dir[proc.inst] \in Files /\ dir \in disk
    BY <1>1, <1>3 DEF BootTypeOK
  <1>5. ASSUME proc.pc \in {"link", "unlink"}, proc.inst \in done PROVE FALSE
    BY <1>1, <1>4, <1>5 DEF DoneIsDurable, Verifies, ProcFits
  <1>6. \A r, s \in dir[proc.inst].staged : r = s
    BY <1>1, <1>3, <1>4 DEF Unambiguous
  <1>7. HasRow(proc.inst) => rows[proc.inst] \in Row
    BY <1>1, <1>3 DEF BootTypeOK, HasRow
  <1> QED
    BY <1>1, <1>2, <1>3, <1>4, <1>5, <1>6, <1>7

LEMMA DropKeeps ==
    ASSUME BootInv, Drop
    PROVE  BootInv'
  <1> DEFINE i == proc.inst
             f == dir[proc.inst]
  <1>1. /\ proc # Idle /\ proc.pc = "drop" /\ Goto("dropped")
        /\ UNCHANGED <<rows, runs, done, faults, interrupts>>
    BY DEF Drop, At
  <1>2. /\ BootTypeOK /\ ProcFits /\ i \in Instances /\ f \in Files /\ proc \in Proc
        /\ proc.fresh \in BOOLEAN
    BY <1>1, Running
  <1>3. PICK g : g = [f EXCEPT !.staged = {}]
    OBVIOUS
  <1>4. g \in Files /\ g.staged = {} /\ g.final = f.final
    BY <1>2, <1>3, FilesFields
  <1>5. dir' = [dir EXCEPT ![i] = g] /\ disk' = disk \cup {dir'}
    BY <1>3 DEF Drop, Change, MyFiles
  <1>6. /\ proc' \in Proc /\ proc' # Idle /\ proc'.pc = "dropped" /\ proc'.inst = i
        /\ proc'.run = proc.run /\ proc'.fresh = proc.fresh
    BY <1>1, <1>2, GotoFields DEF Steps
  <1>7. i \notin done /\ ~HasRow(i) /\ f.final = None /\ proc.fresh
    BY <1>1, <1>2 DEF ProcFits
  <1>8. Doomed' \subseteq Broken \cup Doomed
    BY <1>6, NotDoomed
  <1>9. /\ Unambiguous' /\ DoneIsDurable' /\ LostAreInterrupted'
        /\ dir' \in [Instances -> Files] /\ dir' \in disk'
        /\ disk' \subseteq [Instances -> Files]
        /\ dir'[i] = g
    BY <1>1, <1>2, <1>4, <1>5, <1>7, <1>8, FilesChange
  <1>10. BootTypeOK'
    BY <1>1, <1>2, <1>6, <1>9 DEF BootTypeOK
  <1>11. ProcFits'
    BY <1>1, <1>4, <1>6, <1>7, <1>9 DEF ProcFits, HasRow
  <1> QED
    BY <1>9, <1>10, <1>11 DEF BootInv

LEMMA StageKeeps ==
    ASSUME BootInv, Stage
    PROVE  BootInv'
  <1> DEFINE i == proc.inst
             f == dir[proc.inst]
             S == {Staged(proc.run, Empty)}
  <1>1. /\ proc # Idle /\ proc.pc = "stage" /\ Goto("write")
        /\ UNCHANGED <<rows, runs, done, faults, interrupts>>
    BY DEF Stage, At
  <1>2. /\ BootTypeOK /\ ProcFits /\ i \in Instances /\ f \in Files /\ proc \in Proc
        /\ proc.run \in Runs
    BY <1>1, Running
  <1>3. i \notin done /\ ~HasRow(i) /\ f.final = None /\ f.staged = {} /\ proc.fresh
    BY <1>1, <1>2 DEF ProcFits
  <1>4. PICK g : g = [f EXCEPT !.staged = S]
    OBVIOUS
  <1>5. g \in Files /\ g.staged = S /\ g.final = f.final
    <2>1. S \in SUBSET [run : Runs, token : Runs \cup {Empty}]
      BY <1>2 DEF Staged
    <2> HIDE DEF S
    <2> QED
      BY <1>2, <1>4, <2>1, FilesFields
  <1>6. dir' = [dir EXCEPT ![i] = g] /\ disk' = disk \cup {dir'}
    <2>1. f.staged \cup {[run |-> proc.run, token |-> Empty]} = S
      BY <1>3 DEF Staged
    <2>2. g = [f EXCEPT !.staged = f.staged \cup {[run |-> proc.run, token |-> Empty]}]
      BY <1>4, <2>1
    <2> QED
      BY <2>2 DEF Stage, Change, MyFiles
  <1>7. /\ proc' \in Proc /\ proc' # Idle /\ proc'.pc = "write" /\ proc'.inst = i
        /\ proc'.run = proc.run /\ proc'.fresh = proc.fresh
    BY <1>1, <1>2, GotoFields DEF Steps
  <1>8. Doomed' \subseteq Broken \cup Doomed
    BY <1>7, NotDoomed
  <1>9. \A r, s \in g.staged : r = s
    BY <1>5
  <1>10. /\ Unambiguous' /\ DoneIsDurable' /\ LostAreInterrupted'
         /\ dir' \in [Instances -> Files] /\ dir' \in disk'
         /\ disk' \subseteq [Instances -> Files]
         /\ dir'[i] = g
    BY <1>1, <1>2, <1>3, <1>5, <1>6, <1>8, <1>9, FilesChange
  <1>11. BootTypeOK'
    BY <1>1, <1>2, <1>7, <1>10 DEF BootTypeOK
  <1>12. ProcFits'
    BY <1>1, <1>3, <1>5, <1>7, <1>10 DEF ProcFits, HasRow
  <1> QED
    BY <1>10, <1>11, <1>12 DEF BootInv

LEMMA LinkKeeps ==
    ASSUME BootInv, Link
    PROVE  BootInv'
  <1> DEFINE i == proc.inst
             f == dir[proc.inst]
             token == rows[proc.inst].token
  <1>1. /\ proc # Idle /\ proc.pc = "link" /\ Goto("unlink")
        /\ UNCHANGED <<rows, runs, done, faults, interrupts>>
    BY DEF Link, At
  <1>2. /\ BootTypeOK /\ ProcFits /\ i \in Instances /\ f \in Files /\ proc \in Proc
        /\ i \notin done
    BY <1>1, Running
  <1>3. HasRow(i) /\ f.staged = {Staged(proc.run, token)} /\ token \in Runs
    BY <1>1, <1>2, Running DEF ProcFits, Row
  <1>4. PICK g : g = [f EXCEPT !.final = token]
    OBVIOUS
  <1>5. g \in Files /\ g.staged = f.staged /\ g.final = token
    BY <1>2, <1>3, <1>4, FilesFields
  <1>6. dir' = [dir EXCEPT ![i] = g] /\ disk' = disk \cup {dir'}
    <2>1. PICK s \in f.staged : Change([MyFiles EXCEPT !.final = s.token])
      BY DEF Link, MyFiles
    <2>2. s.token = token
      BY <1>3, <2>1 DEF Staged
    <2> QED
      BY <1>4, <2>1, <2>2 DEF Change, MyFiles
  <1>7. /\ proc' \in Proc /\ proc' # Idle /\ proc'.pc = "unlink" /\ proc'.inst = i
        /\ proc'.run = proc.run /\ proc'.fresh = proc.fresh
    BY <1>1, <1>2, GotoFields DEF Steps
  <1>8. Doomed' \subseteq Broken \cup Doomed
    BY <1>7, NotDoomed
  <1>9. \A r, s \in g.staged : r = s
    BY <1>3, <1>5
  <1>10. Whole(g, token)
    BY <1>3, <1>5 DEF Whole, Staged
  <1>11. /\ Unambiguous' /\ DoneIsDurable' /\ LostAreInterrupted'
         /\ dir' \in [Instances -> Files] /\ dir' \in disk'
         /\ disk' \subseteq [Instances -> Files]
         /\ dir'[i] = g
    BY <1>1, <1>2, <1>5, <1>6, <1>8, <1>9, <1>10, FilesChange
  <1>12. BootTypeOK'
    BY <1>1, <1>2, <1>7, <1>11 DEF BootTypeOK
  <1>13. ProcFits'
    BY <1>1, <1>2, <1>3, <1>5, <1>7, <1>11 DEF ProcFits, HasRow
  <1> QED
    BY <1>11, <1>12, <1>13 DEF BootInv

(* The files of the instance without the staging file of this run. *)
LEMMA WithoutStagingFields ==
    ASSUME BootInv, proc # Idle
    PROVE  /\ WithoutStaging \in Files /\ WithoutStaging.final = dir[proc.inst].final
           /\ WithoutStaging.staged = {s \in dir[proc.inst].staged : s.run # proc.run}
  <1> DEFINE f == dir[proc.inst]
             S == {s \in f.staged : s.run # proc.run}
  <1>1. f \in Files
    BY Running
  <1>2. S \in SUBSET [run : Runs, token : Runs \cup {Empty}]
    BY <1>1, FilesFields
  <1>3. WithoutStaging = [f EXCEPT !.staged = S]
    BY DEF WithoutStaging, MyFiles
  <1> HIDE DEF S
  <1>4. WithoutStaging \in Files /\ WithoutStaging.final = f.final /\ WithoutStaging.staged = S
    BY <1>1, <1>2, <1>3, FilesFields
  <1> QED
    BY <1>4 DEF S

LEMMA UnlinkKeeps ==
    ASSUME BootInv, Unlink
    PROVE  BootInv'
  <1> DEFINE i == proc.inst
             f == dir[proc.inst]
             token == rows[proc.inst].token
  <1>1. /\ proc # Idle /\ proc.pc = "unlink" /\ Goto("close")
        /\ UNCHANGED <<rows, runs, done, faults, interrupts>>
    BY DEF Unlink, At
  <1>2. /\ BootTypeOK /\ ProcFits /\ i \in Instances /\ f \in Files /\ proc \in Proc
        /\ i \notin done
    BY <1>1, Running
  <1>3. HasRow(i) /\ f.staged = {Staged(proc.run, token)} /\ f.final = token
    BY <1>1, <1>2 DEF ProcFits
  <1>4. PICK g : g = WithoutStaging
    OBVIOUS
  <1>5. g \in Files /\ g.staged = {} /\ g.final = token
    BY <1>1, <1>3, <1>4, WithoutStagingFields DEF Staged
  <1>6. dir' = [dir EXCEPT ![i] = g] /\ disk' = disk \cup {dir'}
    BY <1>4 DEF Unlink, Change
  <1>7. /\ proc' \in Proc /\ proc' # Idle /\ proc'.pc = "close" /\ proc'.inst = i
        /\ proc'.run = proc.run /\ proc'.fresh = proc.fresh
    BY <1>1, <1>2, GotoFields DEF Steps
  <1>8. Doomed' \subseteq Broken \cup Doomed
    BY <1>7, NotDoomed
  <1>9. token # None
    BY <1>1, <1>3, Running, BootstrapAssumption DEF Row
  <1>10. Whole(g, token)
    BY <1>5, <1>9 DEF Whole
  <1>11. /\ Unambiguous' /\ DoneIsDurable' /\ LostAreInterrupted'
         /\ dir' \in [Instances -> Files] /\ dir' \in disk'
         /\ disk' \subseteq [Instances -> Files]
         /\ dir'[i] = g
    BY <1>1, <1>2, <1>5, <1>6, <1>8, <1>10, FilesChange
  <1>12. BootTypeOK'
    BY <1>1, <1>2, <1>7, <1>11 DEF BootTypeOK
  <1>13. ProcFits'
    BY <1>1, <1>2, <1>3, <1>5, <1>7, <1>11 DEF ProcFits, HasRow
  <1> QED
    BY <1>11, <1>12, <1>13 DEF BootInv

(* The finally block: it breaks an instance only where it was doomed.      *)
LEMMA CleanupKeeps ==
    ASSUME BootInv, Cleanup
    PROVE  BootInv'
  <1> DEFINE i == proc.inst
             f == dir[proc.inst]
             token == rows[proc.inst].token
  <1>1. /\ proc # Idle /\ proc.pc = "cleanup" /\ proc' = Idle
        /\ UNCHANGED <<rows, runs, done, faults, interrupts>>
    BY DEF Cleanup, At
  <1>2. /\ BootTypeOK /\ ProcFits /\ i \in Instances /\ f \in Files /\ proc \in Proc
        /\ dir \in disk /\ \A r, s \in f.staged : r = s
    BY <1>1, Running
  <1>3. i \notin done
    BY <1>1, <1>2 DEF ProcFits
  <1>4. PICK g : g = WithoutStaging
    OBVIOUS
  <1>5. g \in Files /\ g.staged \subseteq f.staged /\ g.final = f.final
    BY <1>1, <1>4, WithoutStagingFields
  <1>6. dir' = [dir EXCEPT ![i] = g] /\ disk' = disk \cup {dir'}
    BY <1>4 DEF Cleanup, Change
  <1>7. Doomed' \subseteq Broken \cup Doomed
    BY <1>1, NotDoomed
  <1>8. HasRow(i) => Whole(g, token) \/ i \in Broken \cup Doomed
    <2> SUFFICES ASSUME HasRow(i), i \notin Broken, i \notin Doomed PROVE Whole(g, token)
      OBVIOUS
    <2>1. Whole(f, token)
      BY <1>2 DEF Broken
    <2>2. f.final # None
      BY <1>1, <1>2 DEF Doomed
    <2> QED
      BY <1>5, <2>1, <2>2 DEF Whole
  <1>9. \A r, s \in g.staged : r = s
    BY <1>2, <1>5
  <1>10. /\ Unambiguous' /\ DoneIsDurable' /\ LostAreInterrupted'
         /\ dir' \in [Instances -> Files] /\ dir' \in disk'
         /\ disk' \subseteq [Instances -> Files]
    BY <1>1, <1>2, <1>3, <1>5, <1>6, <1>7, <1>8, <1>9, FilesChange
  <1>11. BootTypeOK' /\ ProcFits'
    BY <1>1, <1>2, <1>10 DEF BootTypeOK, Proc, ProcFits
  <1> QED
    BY <1>10, <1>11 DEF BootInv

(* The directory is synchronised before and after the staging file is made. *)
LEMMA SyncKeeps ==
    ASSUME BootInv, SyncDrop \/ SyncStage
    PROVE  BootInv'
  <1> DEFINE i == proc.inst
             pc == IF proc.pc = "dropped" THEN "stage" ELSE "commit"
  <1>1. /\ proc # Idle /\ proc.pc \in {"dropped", "sync"} /\ Goto(pc)
        /\ disk' = {dir} /\ dir' = dir
        /\ UNCHANGED <<rows, runs, done, faults, interrupts>>
    BY DEF SyncDrop, SyncStage, At, Synchronise
  <1>2. /\ BootTypeOK /\ ProcFits /\ i \in Instances /\ proc \in Proc /\ dir \in disk
    BY <1>1, Running
  <1>3. /\ proc' \in Proc /\ proc' # Idle /\ proc'.pc = pc /\ proc'.inst = i
        /\ proc'.run = proc.run /\ proc'.fresh = proc.fresh
    BY <1>1, <1>2, GotoFields DEF Steps
  <1>4. Unambiguous' /\ DoneIsDurable' /\ LostAreInterrupted'
    <2>1. Doomed' \subseteq Broken \cup Doomed
      BY <1>3, NotDoomed
    <2>2. disk' \subseteq disk
      BY <1>1, <1>2
    <2> QED
      BY <1>1, <2>1, <2>2, DiskShrinks
  <1>5. BootTypeOK'
    BY <1>1, <1>2, <1>3 DEF BootTypeOK
  <1>6. ProcFits'
    BY <1>1, <1>2, <1>3 DEF ProcFits, HasRow
  <1> QED
    BY <1>4, <1>5, <1>6 DEF BootInv

(* The token is written to the staging file, in every state of the disk.   *)
LEMMA WriteKeeps ==
    ASSUME BootInv, Write
    PROVE  BootInv'
  <1> DEFINE i == proc.inst
             f == dir[proc.inst]
             token(s) == IF s.run = proc.run THEN [s EXCEPT !.token = proc.run] ELSE s
             written(d) == [d EXCEPT ![i].staged = {token(s) : s \in @}]
  <1>1. /\ proc # Idle /\ proc.pc = "write" /\ Goto("sync")
        /\ dir' = written(dir) /\ disk' = {written(d) : d \in disk}
        /\ UNCHANGED <<rows, runs, done, faults, interrupts>>
    BY DEF Write, At
  <1>2. /\ BootTypeOK /\ Unambiguous /\ ProcFits /\ DoneIsDurable /\ LostAreInterrupted
        /\ i \in Instances /\ f \in Files /\ proc \in Proc /\ proc.run \in Runs
        /\ dir \in disk /\ disk \subseteq [Instances -> Files]
    BY <1>1, Running DEF BootTypeOK
  <1>3. /\ i \notin done /\ ~HasRow(i) /\ f.final = None /\ proc.fresh
        /\ f.staged = {Staged(proc.run, Empty)}
    BY <1>1, <1>2 DEF ProcFits
  <1>4. ASSUME NEW d \in [Instances -> Files]
        PROVE  /\ written(d) \in [Instances -> Files]
               /\ \A j \in Instances : j # i => written(d)[j] = d[j]
               /\ written(d)[i].final = d[i].final
               /\ written(d)[i].staged = {token(s) : s \in d[i].staged}
    <2>1. PICK S : S = {token(s) : s \in d[i].staged}
      OBVIOUS
    <2>2. d[i] \in Files
      BY <1>2
    <2>3. S \in SUBSET [run : Runs, token : Runs \cup {Empty}]
      <3>1. ASSUME NEW s \in d[i].staged
            PROVE  token(s) \in [run : Runs, token : Runs \cup {Empty}]
        <4>1. s \in [run : Runs, token : Runs \cup {Empty}]
          BY <2>2 DEF Files
        <4> QED
          BY <1>2, <4>1
      <3> HIDE DEF token
      <3> QED
        BY <2>1, <3>1
    <2>4. PICK g : g = [d[i] EXCEPT !.staged = S]
      OBVIOUS
    <2>5. g \in Files /\ g.staged = S /\ g.final = d[i].final
      BY <2>2, <2>3, <2>4, FilesFields
    <2>6. written(d) = [d EXCEPT ![i] = g]
      BY <2>1, <2>4
    <2> HIDE DEF token, written
    <2> QED
      BY <1>2, <2>1, <2>5, <2>6
  <1>5. \A s : s = Staged(proc.run, Empty) => token(s) = Staged(proc.run, proc.run)
    BY DEF Staged
  <1> HIDE DEF token, written
  <1>6. /\ dir' \in [Instances -> Files] /\ dir' \in disk' /\ disk' \subseteq [Instances -> Files]
        /\ dir'[i].final = None /\ dir'[i].staged = {Staged(proc.run, proc.run)}
    <2>1. dir \in [Instances -> Files]
      BY <1>2
    <2>2. dir'[i].staged = {token(s) : s \in {Staged(proc.run, Empty)}}
      BY <1>1, <1>3, <1>4, <2>1
    <2>3. dir'[i].staged = {Staged(proc.run, proc.run)}
      BY <1>5, <2>2
    <2> QED
      BY <1>1, <1>2, <1>3, <1>4, <2>1, <2>3
  <1>7. \A d \in disk' : \E e \in disk :
          /\ \A j \in Instances : j # i => d[j] = e[j]
          /\ d[i].staged = {token(s) : s \in e[i].staged}
    BY <1>1, <1>2, <1>4
  <1>8. Unambiguous'
    <2> SUFFICES ASSUME NEW d \in disk', NEW j \in Instances
                 PROVE  \A r, s \in d[j].staged : r = s
      BY DEF Unambiguous
    <2>1. PICK e \in disk : /\ \A k \in Instances : k # i => d[k] = e[k]
                            /\ d[i].staged = {token(s) : s \in e[i].staged}
      BY <1>7
    <2>2. \A r, s \in e[j].staged : r = s
      BY <1>2 DEF Unambiguous
    <2>3. CASE j # i
      BY <2>1, <2>2, <2>3
    <2>4. CASE j = i
      BY <2>1, <2>2, <2>4, Zenon
    <2> QED
      BY <2>3, <2>4
  <1>9. DoneIsDurable'
    <2> SUFFICES ASSUME NEW j \in done, NEW d \in disk'
                 PROVE  Verifies(d, j)'
      BY <1>1 DEF DoneIsDurable
    <2>1. j \in Instances /\ j # i
      BY <1>2, <1>3 DEF BootTypeOK
    <2>2. PICK e \in disk : d[j] = e[j]
      BY <1>7, <2>1
    <2>3. Verifies(e, j)
      BY <1>2 DEF DoneIsDurable
    <2> QED
      BY <1>1, <2>2, <2>3 DEF Verifies, HasRow
  <1>10. /\ proc' \in Proc /\ proc' # Idle /\ proc'.pc = "sync" /\ proc'.inst = i
         /\ proc'.run = proc.run /\ proc'.fresh = proc.fresh
    BY <1>1, <1>2, GotoFields DEF Steps
  <1>11. LostAreInterrupted'
    <2>1. Broken' \subseteq Broken
      <3> SUFFICES ASSUME NEW j \in Instances, HasRow(j), NEW d \in disk',
                          ~Whole(d[j], rows[j].token)
                   PROVE  j \in Broken
        BY <1>1 DEF Broken, HasRow
      <3>1. j # i
        BY <1>3
      <3>2. PICK e \in disk : d[j] = e[j]
        BY <1>7, <3>1
      <3> QED
        BY <3>2 DEF Broken
    <2>2. Doomed' = {}
      BY <1>10, NotDoomed
    <2> QED
      BY <1>1, <1>2, <2>1, <2>2, AtRisk
  <1>12. BootTypeOK'
    BY <1>1, <1>2, <1>6, <1>10 DEF BootTypeOK
  <1>13. ProcFits'
    BY <1>1, <1>3, <1>6, <1>10 DEF ProcFits, HasRow
  <1> QED
    BY <1>8, <1>9, <1>11, <1>12, <1>13 DEF BootInv

(* The commit of the row, whose staging file is on the disk.               *)
LEMMA CommitKeeps ==
    ASSUME BootInv, CreateDeveloper
    PROVE  BootInv'
  <1> DEFINE i == proc.inst
             f == dir[proc.inst]
             row == [name |-> proc.name, token |-> proc.run]
  <1>1. /\ proc # Idle /\ proc.pc = "commit" /\ Goto("link")
        /\ rows' = [rows EXCEPT ![i] = row]
        /\ UNCHANGED <<dir, disk, runs, done, faults, interrupts>>
    BY DEF CreateDeveloper, At
  <1>2. /\ BootTypeOK /\ Unambiguous /\ ProcFits /\ DoneIsDurable /\ LostAreInterrupted
        /\ i \in Instances /\ proc \in Proc /\ proc.run \in Runs /\ proc.name \in Names
    BY <1>1, Running
  <1>3. /\ i \notin done /\ f.final = None /\ proc.fresh
        /\ f.staged = {Staged(proc.run, proc.run)} /\ disk = {dir}
    BY <1>1, <1>2 DEF ProcFits
  <1>4. row \in Row /\ row # None /\ row.token = proc.run
    BY <1>2, BootstrapAssumption DEF Row
  <1>5. /\ rows' \in [Instances -> Row \cup {None}] /\ rows'[i] = row
        /\ \A j \in Instances : j # i => rows'[j] = rows[j]
    BY <1>1, <1>2, <1>4 DEF BootTypeOK
  <1> HIDE DEF row
  <1>6. /\ proc' \in Proc /\ proc' # Idle /\ proc'.pc = "link" /\ proc'.inst = i
        /\ proc'.run = proc.run /\ proc'.fresh = proc.fresh
    BY <1>1, <1>2, GotoFields DEF Steps
  <1>7. BootTypeOK' /\ Unambiguous'
    BY <1>1, <1>2, <1>5, <1>6 DEF BootTypeOK, Unambiguous
  <1>8. DoneIsDurable'
    <2> SUFFICES ASSUME NEW j \in done, NEW d \in disk
                 PROVE  Verifies(d, j)'
      BY <1>1 DEF DoneIsDurable
    <2>1. j \in Instances /\ j # i /\ Verifies(d, j)
      BY <1>2, <1>3 DEF BootTypeOK, DoneIsDurable
    <2> QED
      BY <1>5, <2>1 DEF Verifies, HasRow
  <1>9. LostAreInterrupted'
    <2>1. Whole(f, proc.run)
      BY <1>3 DEF Whole, Staged
    <2>2. Broken' \subseteq Broken
      <3> SUFFICES ASSUME NEW j \in Instances, rows'[j] # None, NEW d \in disk,
                          ~Whole(d[j], rows'[j].token)
                   PROVE  j \in Broken
        BY <1>1 DEF Broken, HasRow
      <3>1. j # i
        BY <1>3, <1>4, <1>5, <2>1
      <3> QED
        BY <1>5, <3>1 DEF Broken, HasRow
    <2>3. Doomed' = {}
      BY <1>6, NotDoomed
    <2> QED
      BY <1>1, <1>2, <2>2, <2>3, AtRisk
  <1>10. ProcFits'
    BY <1>1, <1>3, <1>4, <1>5, <1>6 DEF ProcFits, HasRow
  <1> QED
    BY <1>7, <1>8, <1>9, <1>10 DEF BootInv

(* The last synchronisation and the return. *)
LEMMA ReturnKeeps ==
    ASSUME BootInv, Return
    PROVE  BootInv'
  <1> DEFINE i == proc.inst
             f == dir[proc.inst]
  <1>1. /\ proc # Idle /\ proc.pc = "close" /\ proc' = Idle
        /\ done' = done \cup {i} /\ disk' = {dir} /\ dir' = dir
        /\ UNCHANGED <<rows, runs, faults, interrupts>>
    BY DEF Return, At, Synchronise
  <1>2. /\ BootTypeOK /\ Unambiguous /\ ProcFits /\ DoneIsDurable /\ LostAreInterrupted
        /\ i \in Instances /\ dir \in disk
    BY <1>1, Running
  <1>3. HasRow(i) /\ f.staged = {} /\ f.final = rows[i].token
    BY <1>1, <1>2 DEF ProcFits
  <1>4. BootTypeOK' /\ Unambiguous' /\ ProcFits'
    BY <1>1, <1>2 DEF BootTypeOK, Unambiguous, ProcFits, Proc
  <1>5. DoneIsDurable'
    BY <1>1, <1>2, <1>3 DEF DoneIsDurable, Verifies, HasRow
  <1>6. LostAreInterrupted'
    <2>1. Broken' \subseteq Broken
      BY <1>1, <1>2 DEF Broken, HasRow
    <2>2. Doomed' = {}
      BY <1>1, NotDoomed
    <2> QED
      BY <1>1, <1>2, <2>1, <2>2, AtRisk
  <1> QED
    BY <1>4, <1>5, <1>6 DEF BootInv

(* The row of a failed publication is taken back. *)
LEMMA CompensateKeeps ==
    ASSUME BootInv, Compensate
    PROVE  BootInv'
  <1> DEFINE i == proc.inst
  <1>1. /\ proc # Idle /\ proc.pc = "compensate" /\ Goto("cleanup")
        /\ rows' = [rows EXCEPT ![i] = None]
        /\ UNCHANGED <<dir, disk, runs, done, faults, interrupts>>
    BY DEF Compensate, At
  <1>2. /\ BootTypeOK /\ Unambiguous /\ ProcFits /\ DoneIsDurable /\ LostAreInterrupted
        /\ i \in Instances /\ proc \in Proc
    BY <1>1, Running
  <1>3. i \notin done /\ proc.fresh
    BY <1>1, <1>2 DEF ProcFits
  <1>4. /\ rows' \in [Instances -> Row \cup {None}] /\ rows'[i] = None
        /\ \A j \in Instances : j # i => rows'[j] = rows[j]
    BY <1>1, <1>2 DEF BootTypeOK
  <1>5. /\ proc' \in Proc /\ proc' # Idle /\ proc'.pc = "cleanup" /\ proc'.inst = i
        /\ proc'.run = proc.run /\ proc'.fresh = proc.fresh
    BY <1>1, <1>2, GotoFields DEF Steps
  <1>6. BootTypeOK' /\ Unambiguous'
    BY <1>1, <1>2, <1>4, <1>5 DEF BootTypeOK, Unambiguous
  <1>7. ProcFits'
    BY <1>1, <1>3, <1>5 DEF ProcFits
  <1>8. DoneIsDurable'
    <2> SUFFICES ASSUME NEW j \in done, NEW d \in disk
                 PROVE  Verifies(d, j)'
      BY <1>1 DEF DoneIsDurable
    <2>1. j \in Instances /\ j # i /\ Verifies(d, j)
      BY <1>2, <1>3 DEF BootTypeOK, DoneIsDurable
    <2> QED
      BY <1>4, <2>1 DEF Verifies, HasRow
  <1>9. LostAreInterrupted'
    <2>1. Broken' \subseteq Broken
      BY <1>1, <1>4 DEF Broken, HasRow
    <2>2. Doomed' = {}
      BY <1>4, <1>5 DEF Doomed, HasRow
    <2> QED
      BY <1>1, <1>2, <2>1, <2>2, AtRisk
  <1> QED
    BY <1>6, <1>7, <1>8, <1>9 DEF BootInv

(* A run that finds what it can create or complete.                        *)
LEMMA StartKeeps ==
    ASSUME BootInv, NEW i \in Instances, NEW n \in Names, Start(i, n)
    PROVE  BootInv'
  <1> DEFINE f == dir[i]
             token == rows[i].token
             begun(pc, run, fresh) ==
               proc' = [pc |-> pc, inst |-> i, name |-> n, run |-> run, fresh |-> fresh]
  <1>1. /\ runs < MaxRuns /\ runs' = runs + 1
        /\ UNCHANGED <<rows, dir, disk, done, faults, interrupts>>
    BY DEF Start
  <1>2. BootTypeOK /\ Unambiguous /\ ProcFits /\ DoneIsDurable /\ LostAreInterrupted
    BY DEF BootInv
  <1>3. /\ dir \in disk /\ f \in Files /\ runs + 1 \in Runs
        /\ \A r, s \in f.staged : r = s
        /\ f.staged \in SUBSET [run : Runs, token : Runs \cup {Empty}]
    BY <1>1, <1>2, BootstrapAssumption, FilesFields DEF BootTypeOK, Unambiguous
  <1>4. \/ /\ Creatable(i, n)
           /\ \/ begun("stage", runs + 1, TRUE) /\ f.staged = {}
              \/ begun("drop", runs + 1, TRUE)
        \/ Recoverable(i, n) /\ f.staged = {} /\ begun("close", runs + 1, FALSE)
        \/ /\ Recoverable(i, n)
           /\ \E s \in f.staged :
                begun(IF f.final = None THEN "link" ELSE "unlink", s.run, FALSE)
    BY DEF Start
  <1>5. /\ proc' \in Proc /\ proc' # Idle /\ proc'.pc # "cleanup" /\ ProcFits'
    <2>1. CASE /\ Creatable(i, n)
               /\ \/ begun("stage", runs + 1, TRUE) /\ f.staged = {}
                  \/ begun("drop", runs + 1, TRUE)
      <3>1. ~HasRow(i) /\ f.final = None
        BY <2>1 DEF Creatable
      <3>2. i \notin done
        BY <1>2, <1>3, <3>1 DEF DoneIsDurable, Verifies
      <3>3. PICK pc \in {"stage", "drop"} : /\ begun(pc, runs + 1, TRUE)
                                            /\ pc = "stage" => f.staged = {}
        BY <2>1
      <3>4. /\ proc'.pc = pc /\ proc'.inst = i /\ proc'.run = runs + 1 /\ proc'.fresh = TRUE
            /\ proc' \in Proc /\ proc' # Idle
        BY <1>3, <3>3 DEF Proc, Idle
      <3> QED
        BY <1>1, <3>1, <3>2, <3>3, <3>4 DEF ProcFits, HasRow
    <2>2. CASE Recoverable(i, n) /\ f.staged = {} /\ begun("close", runs + 1, FALSE)
      <3>1. HasRow(i) /\ f.final = token
        BY <2>2 DEF Recoverable, Same
      <3>2. /\ proc'.pc = "close" /\ proc'.inst = i /\ proc'.fresh = FALSE
            /\ proc' \in Proc /\ proc' # Idle
        BY <1>3, <2>2 DEF Proc, Idle
      <3> QED
        BY <1>1, <2>2, <3>1, <3>2 DEF ProcFits, HasRow
    <2>3. ASSUME Recoverable(i, n), NEW s \in f.staged,
                 begun(IF f.final = None THEN "link" ELSE "unlink", s.run, FALSE)
          PROVE  proc' \in Proc /\ proc' # Idle /\ proc'.pc # "cleanup" /\ ProcFits'
      <3>1. HasRow(i) /\ s.token = token /\ f.final \in {None, token}
        BY <2>3 DEF Recoverable, Same
      <3>2. s \in [run : Runs, token : Runs \cup {Empty}]
        BY <1>3
      <3>3. s = Staged(s.run, token) /\ s.run \in Runs
        BY <3>1, <3>2 DEF Staged
      <3>4. f.staged = {Staged(s.run, token)}
        BY <1>3, <3>3
      <3>5. PICK pc \in {"link", "unlink"} : /\ begun(pc, s.run, FALSE)
                                             /\ pc = "link" => f.final = None
                                             /\ pc = "unlink" => f.final = token
        BY <2>3, <3>1
      <3>6. /\ proc'.pc = pc /\ proc'.inst = i /\ proc'.run = s.run /\ proc'.fresh = FALSE
            /\ proc' \in Proc /\ proc' # Idle
        BY <3>3, <3>5 DEF Proc, Idle
      <3> QED
        BY <1>1, <3>1, <3>4, <3>5, <3>6 DEF ProcFits, HasRow
    <2> QED
      BY <1>4, <2>1, <2>2, <2>3
  <1>6. BootTypeOK'
    BY <1>1, <1>2, <1>5, BootstrapAssumption DEF BootTypeOK
  <1>7. Unambiguous' /\ DoneIsDurable' /\ LostAreInterrupted'
    <2>1. Doomed' \subseteq Broken \cup Doomed
      BY <1>5, NotDoomed
    <2> QED
      BY <1>1, <2>1, DiskShrinks
  <1> QED
    BY <1>5, <1>6, <1>7 DEF BootInv

-----------------------------------------------------------------------------
(* Faults.                                                                 *)

(* The process is gone, and power with it or not. *)
LEMMA KillKeeps ==
    ASSUME BootInv, Kill \/ PowerLoss
    PROVE  BootInv'
  <1>1. /\ faults < MaxFaults /\ faults' = faults + 1 /\ proc' = Idle
        /\ dir' \in disk' /\ disk' \subseteq disk
        /\ UNCHANGED <<rows, runs, done, interrupts>>
    BY DEF Kill, PowerLoss, Fault, BootInv, BootTypeOK
  <1>2. BootTypeOK
    BY DEF BootInv
  <1>3. BootTypeOK'
    BY <1>1, <1>2, BootstrapAssumption DEF BootTypeOK, Proc
  <1>4. ProcFits'
    BY <1>1 DEF ProcFits
  <1>5. Unambiguous' /\ DoneIsDurable' /\ LostAreInterrupted'
    <2>1. Doomed' \subseteq Broken \cup Doomed
      BY <1>1, NotDoomed
    <2> QED
      BY <1>1, <2>1, DiskShrinks
  <1> QED
    BY <1>3, <1>4, <1>5 DEF BootInv

(* An exception: its handler never meets a row whose token is not           *)
(* published, unless it compensates for the row first.                      *)
LEMMA RaiseKeeps ==
    ASSUME BootInv, Raise
    PROVE  BootInv'
  <1> DEFINE i == proc.inst
             f == dir[proc.inst]
  <1>1. /\ proc # Idle /\ faults < MaxFaults /\ faults' = faults + 1
        /\ UNCHANGED <<rows, dir, disk, runs, done, interrupts>>
    BY DEF Raise, Fault
  <1>2. /\ BootTypeOK /\ Unambiguous /\ ProcFits /\ DoneIsDurable /\ LostAreInterrupted
        /\ i \in Instances /\ proc \in Proc /\ proc.pc \in Steps /\ proc.fresh \in BOOLEAN
    BY <1>1, Running
  <1>3. CASE Handler = "idle"
    <2>1. proc' = Idle
      BY <1>3 DEF Raise
    <2>2. BootTypeOK' /\ ProcFits'
      BY <1>1, <1>2, <2>1, BootstrapAssumption DEF BootTypeOK, Proc, ProcFits
    <2>3. Unambiguous' /\ DoneIsDurable' /\ LostAreInterrupted'
      <3>1. Doomed' \subseteq Broken \cup Doomed
        BY <2>1, NotDoomed
      <3> QED
        BY <1>1, <3>1, DiskShrinks
    <2> QED
      BY <2>2, <2>3 DEF BootInv
  <1>4. CASE Handler # "idle"
    <2>1. /\ Goto(Handler) /\ proc.fresh
          /\ \/ proc.pc \in {"link", "unlink"} /\ Handler = "compensate"
             \/ proc.pc \in {"write", "sync", "commit", "close"} /\ Handler = "cleanup"
      <3>1. Goto(Handler)
        BY <1>4 DEF Raise
      <3>2. proc.fresh /\ proc.pc \in {"link", "unlink", "write", "sync", "commit", "close"}
        BY <1>2, <1>4 DEF Handler, Steps
      <3>3. CASE proc.pc \in {"link", "unlink"}
        BY <3>1, <3>2, <3>3 DEF Handler
      <3>4. CASE proc.pc \in {"write", "sync", "commit", "close"}
        BY <3>1, <3>2, <3>4 DEF Handler
      <3> QED
        BY <3>2, <3>3, <3>4
    <2>2. Handler \in Steps
      BY <2>1 DEF Steps
    <2>3. /\ proc' \in Proc /\ proc' # Idle /\ proc'.pc = Handler /\ proc'.inst = i
          /\ proc'.run = proc.run /\ proc'.fresh = proc.fresh
      BY <1>1, <1>2, <2>1, <2>2, GotoFields
    <2>4. BootTypeOK'
      BY <1>1, <1>2, <2>3, BootstrapAssumption DEF BootTypeOK
    <2>5. ProcFits'
      BY <1>1, <1>2, <2>1, <2>3 DEF ProcFits
    <2>6. Unambiguous' /\ DoneIsDurable' /\ LostAreInterrupted'
      <3>1. Doomed' \subseteq Broken \cup Doomed
        <4>1. CASE proc.pc \in {"link", "unlink"}
          BY <2>1, <2>3, <4>1, NotDoomed
        <4>2. CASE proc.pc \in {"write", "sync", "commit"}
          <5>1. ~HasRow(i)
            BY <1>1, <1>2, <4>2 DEF ProcFits
          <5> QED
            BY <1>1, <2>3, <5>1 DEF Doomed, HasRow
        <4>3. CASE proc.pc = "close"
          <5>1. HasRow(i) /\ f.final = rows[i].token
            BY <1>1, <1>2, <4>3 DEF ProcFits
          <5>2. f.final # None
            BY <1>1, <5>1, Running, BootstrapAssumption DEF Row
          <5> QED
            BY <1>1, <2>3, <5>2 DEF Doomed
        <4> QED
          BY <2>1, <4>1, <4>2, <4>3
      <3> QED
        BY <1>1, <3>1, DiskShrinks
    <2> QED
      BY <2>4, <2>5, <2>6 DEF BootInv
  <1> QED
    BY <1>3, <1>4

(* Ctrl-C between the commit and the publication dooms the instance. *)
LEMMA InterruptKeeps ==
    ASSUME BootInv, Interrupt
    PROVE  BootInv'
  <1> DEFINE i == proc.inst
  <1>1. /\ proc # Idle /\ faults < MaxFaults /\ faults' = faults + 1
        /\ proc.fresh /\ proc.pc \in {"link", "unlink"} /\ Goto("cleanup")
        /\ interrupts' = interrupts + 1
        /\ UNCHANGED <<rows, dir, disk, runs, done>>
    BY DEF Interrupt, Fault
  <1>2. /\ BootTypeOK /\ Unambiguous /\ ProcFits /\ DoneIsDurable /\ LostAreInterrupted
        /\ proc \in Proc
    BY <1>1, Running
  <1>3. /\ proc' \in Proc /\ proc' # Idle /\ proc'.pc = "cleanup" /\ proc'.inst = i
        /\ proc'.run = proc.run /\ proc'.fresh = proc.fresh
    BY <1>1, <1>2, GotoFields DEF Steps
  <1>4. BootTypeOK'
    BY <1>1, <1>2, <1>3, BootstrapAssumption DEF BootTypeOK
  <1>5. ProcFits'
    BY <1>1, <1>2, <1>3 DEF ProcFits
  <1>6. Unambiguous' /\ DoneIsDurable'
    BY <1>1, <1>2 DEF Unambiguous, DoneIsDurable, Verifies, HasRow
  <1>7. LostAreInterrupted'
    <2>1. Broken' = Broken /\ Doomed' \subseteq {i}
      BY <1>1, <1>3 DEF Broken, Doomed, HasRow
    <2>2. (Broken \cup Doomed)' \subseteq Broken \cup Doomed \cup {i}
      BY <2>1
    <2> QED
      BY <1>1, <1>2, <2>2, AtRisk
  <1> QED
    BY <1>4, <1>5, <1>6, <1>7 DEF BootInv

LEMMA RestKeeps ==
    ASSUME BootInv, UNCHANGED bootVars
    PROVE  BootInv'
  <1>1. UNCHANGED rows /\ UNCHANGED dir /\ UNCHANGED disk /\ UNCHANGED proc
        /\ UNCHANGED runs /\ UNCHANGED done /\ UNCHANGED faults /\ UNCHANGED interrupts
    BY DEF bootVars
  <1>2. BootTypeOK' /\ ProcFits'
    <2>1. BootTypeOK /\ ProcFits
      BY DEF BootInv
    <2>2. BootTypeOK'
      BY <1>1, <2>1 DEF BootTypeOK
    <2>3. ProcFits'
      BY <1>1, <2>1 DEF ProcFits, HasRow
    <2> QED
      BY <2>2, <2>3
  <1>3. Doomed' \subseteq Broken \cup Doomed
    BY <1>1 DEF Doomed, HasRow
  <1>4. Unambiguous' /\ DoneIsDurable' /\ LostAreInterrupted'
    BY <1>1, <1>3, DiskShrinks
  <1> QED
    BY <1>2, <1>4 DEF BootInv

(* The invariant holds in every state. *)
LEMMA InvHolds == BootSpec => []BootInv
  <1>1. BootInv /\ [BootNext]_bootVars => BootInv'
    <2> SUFFICES ASSUME BootInv, [BootNext]_bootVars PROVE BootInv'
      OBVIOUS
    <2>1. CASE BootStep
      BY <2>1, DropKeeps, StageKeeps, LinkKeeps, UnlinkKeeps, CleanupKeeps, SyncKeeps,
         WriteKeeps, CommitKeeps, ReturnKeeps, CompensateKeeps DEF BootStep
    <2> QED
      BY <2>1, StartKeeps, KillKeeps, RaiseKeeps, InterruptKeeps, RestKeeps DEF BootNext
  <1> QED
    BY <1>1, InitHolds, PTL DEF BootSpec

-----------------------------------------------------------------------------
(* What it means.                                                          *)

(* Sets in which any two elements are equal have one at most. *)
LEMMA OneAtMost ==
    ASSUME NEW S, \A r, s \in S : r = s
    PROVE  Cardinality(S) \in {0, 1}
  <1>1. CASE S = {}
    BY <1>1, FS_EmptySet
  <1>2. CASE S # {}
    <2>1. PICK s : S = {s}
      BY <1>2
    <2> QED
      BY <2>1, FS_Singleton
  <1> QED
    BY <1>1, <1>2

(* bootstrap_instance refuses to start beside two staging files, and no     *)
(* sequence of failed, killed and repeated runs leaves two.                 *)
THEOREM StagingIsNeverAmbiguous == BootSpec => []BootConsistent
  <1>1. BootInv => BootConsistent
    BY OneAtMost DEF BootInv, Unambiguous, BootConsistent, OneStagingFile
  <1> QED
    BY <1>1, InvHolds, PTL

(* Once bootstrap_instance returned, row and credential belong together for *)
(* ever, in every state of the directory that a loss of power can leave.    *)
THEOREM ReturnedIsDurable == BootSpec => []DoneIsDurable
  <1>1. BootInv => DoneIsDurable
    BY DEF BootInv
  <1> QED
    BY <1>1, InvHolds, PTL

(* A row is completed by running the command again, whatever was killed,    *)
(* failed or lost its power, but for one instance per interrupt between the *)
(* commit and the publication.                                              *)
THEOREM OnlyInterruptsLose == BootSpec => []LostOnlyByInterrupt
  <1>1. BootInv => LostOnlyByInterrupt
    <2> SUFFICES ASSUME BootInv PROVE LostOnlyByInterrupt
      OBVIOUS
    <2>1. BootTypeOK /\ Unambiguous /\ LostAreInterrupted
      BY DEF BootInv
    <2>2. Lost \subseteq Broken
      <3> SUFFICES ASSUME NEW i \in Instances, HasRow(i), ~Recoverable(i, rows[i].name)
                   PROVE  i \in Broken
        BY DEF Lost
      <3>1. dir \in disk /\ \A r, s \in dir[i].staged : r = s
        BY <2>1 DEF BootTypeOK, Unambiguous
      <3>2. Cardinality(dir[i].staged) <= 1
        BY <3>1, OneAtMost
      <3>3. ~Whole(dir[i], rows[i].token)
        BY <3>2 DEF Recoverable, Same, Whole
      <3> QED
        BY <3>1, <3>3 DEF Broken
    <2>3. /\ IsFiniteSet(Broken \cup Doomed)
          /\ Cardinality(Lost) <= Cardinality(Broken \cup Doomed) /\ IsFiniteSet(Lost)
      BY <2>1, <2>2, FS_Subset DEF LostAreInterrupted
    <2>4. Cardinality(Lost) \in Nat /\ Cardinality(Broken \cup Doomed) \in Nat
          /\ interrupts \in Int
      BY <2>1, <2>3, FS_CardinalityType, BootstrapAssumption DEF BootTypeOK
    <2> QED
      BY <2>1, <2>3, <2>4 DEF LostAreInterrupted, LostOnlyByInterrupt
  <1> QED
    BY <1>1, InvHolds, PTL
=============================================================================

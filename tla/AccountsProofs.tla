--------------------------- MODULE AccountsProofs ---------------------------
(***************************************************************************)
(* Proofs about Accounts: what logins, updates and crashes keep,        *)
(* for any number of threads, names, passwords, ids and sessions.    *)
(***************************************************************************)
EXTENDS Accounts, FiniteSetTheorems, WellFoundedInduction, TLAPS

USE DEF Ids, SessionIds, Times

-----------------------------------------------------------------------------
(* Sets.                                                                   *)

(* Every set of naturals that is not empty has a least element. *)
LEMMA LeastNat ==
    ASSUME NEW T, T \subseteq Nat, T # {}
    PROVE  \E x \in T : \A y \in T : x <= y
  <1> DEFINE R == OpToRel(<, Nat)
  <1>1. IsWellFoundedOn(R, Nat)
    BY NatLessThanWellFounded, Zenon
  <1>2. \A x, y \in Nat : y < x => <<y, x>> \in R
    BY DEF OpToRel
  <1> HIDE DEF R
  <1>3. PICK x \in T : \A y \in T : ~ (<<y, x>> \in R)
    BY <1>1, WFMin, Zenon
  <1>4. \A y \in T : ~(y < x)
    BY <1>2, <1>3
  <1> QED
    BY <1>4

-----------------------------------------------------------------------------
(* The inductive invariant.                                                *)

(* A thread that will open a session for a login that is not good any more. *)
StaleThreads ==
    {t \in Threads :
        /\ threads[t].pc \in {"clear", "session"}
        /\ \/ users[threads[t].user].status = "disabled"
           \/ users[threads[t].user].password # threads[t].password}

(* The sessions an update failed to end, with those that are still to be   *)
(* opened, are at most one per thread and update.                          *)
StaleAreFew ==
    Cardinality(StaleSessions) + Cardinality(StaleThreads) <= Cardinality(Threads) * updates

AccountsInv ==
    /\ AccountsTypeOK
    /\ StaleAreFew

-----------------------------------------------------------------------------
(* Types.                                                                  *)

(* The row that record_login_failure writes is one of the table. *)
LEMMA NextFailureType ==
    ASSUME NEW old \in Failure \cup {NoFailure}, NEW t \in Times
    PROVE  NextFailure(old, t) \in Failure
  <1>1. old.count \in Nat /\ old.first \in Times
    BY AccountBounds DEF Failure, NoFailure
  <1> QED
    BY <1>1, AccountBounds DEF NextFailure, Failure

(* The fields a state of a thread has. *)
LEMMA ThreadFields ==
    ASSUME NEW q \in Thread
    PROVE  /\ q.pc \in {"verify", "fail", "upsert", "clear"} =>
                q.name \in Names /\ q.source \in Sources
           /\ q.pc = "fail" => q.since \in Times
           /\ q.pc = "upsert" => q.row \in Failure
           /\ q.pc \in {"clear", "session"} => q.password \in Passwords /\ q.user \in Ids
           /\ q.pc = "verify" => q.password \in Passwords
  BY DEF Thread, Idle

(* A thread's next state, where the other threads stay. *)
LEMMA GotoType ==
    ASSUME AccountsTypeOK, NEW t \in Threads, NEW q \in Thread, Goto(t, q)
    PROVE  /\ threads' \in [Threads -> Thread] /\ threads'[t] = q
           /\ \A s \in Threads : s # t => threads'[s] = threads[s]
  BY DEF AccountsTypeOK, Goto

(* A step of a login that leaves users and sessions as they are: what the  *)
(* thread's state p becomes.                                               *)
Quiet(p, q) ==
    q.pc \in {"clear", "session"} =>
        \/ p.pc \in {"clear", "session"} /\ q.user = p.user /\ q.password = p.password
        \/ users[q.user].status = "active" /\ users[q.user].password = q.password

QuietStep ==
    /\ \E t \in Threads, q \in Thread : Goto(t, q) /\ Quiet(threads[t], q)
    /\ overlapped' \subseteq Names \X Sources
    /\ failures' \in [Names \X Sources -> Failure \cup {NoFailure}]
    /\ UNCHANGED <<users, sessions, now, updates, crashes>>

LEMMA LoginIsQuiet ==
    ASSUME AccountsTypeOK, NEW t \in Threads,
           \/ \E n \in Names, s \in Sources, p \in Passwords : LoginGate(t, n, s, p)
           \/ Verify(t) \/ ReadFailure(t) \/ WriteFailure(t) \/ ClearFailures(t)
    PROVE  QuietStep
  <1> DEFINE p == threads[t]
  <1>1. p \in Thread /\ now \in Times
    BY DEF AccountsTypeOK
  <1>2. ASSUME NEW n \in Names, NEW s \in Sources, NEW w \in Passwords, LoginGate(t, n, s, w)
        PROVE  QuietStep
    <2> DEFINE q == [pc |-> "verify", name |-> n, source |-> s, password |-> w]
    <2>1. q \in Thread
      BY DEF Thread
    <2>2. Goto(t, q) /\ p.pc = "idle" /\ failures' = failures
          /\ UNCHANGED <<users, sessions, now, updates, crashes>>
          /\ overlapped' \subseteq overlapped \cup {<<n, s>>}
      BY <1>2 DEF LoginGate
    <2> QED
      BY <2>1, <2>2 DEF QuietStep, Quiet, AccountsTypeOK
  <1>3. CASE Verify(t)
    <2>1. /\ p.pc = "verify" /\ failures' = failures
          /\ UNCHANGED <<users, sessions, now, updates, crashes, overlapped>>
          /\ p.name \in Names /\ p.source \in Sources /\ p.password \in Passwords
      BY <1>1, <1>3, ThreadFields DEF Verify
    <2> DEFINE f == [pc |-> "fail", name |-> p.name, source |-> p.source, since |-> now]
               c(i) == [pc |-> "clear", name |-> p.name, source |-> p.source,
                        password |-> p.password, user |-> i]
    <2>2. \/ Goto(t, f)
          \/ \E i \in Ids : /\ users[i].status = "active"
                            /\ users[i].password = p.password /\ Goto(t, c(i))
      BY <1>3 DEF Verify, Named
    <2>3. CASE Goto(t, f)
      <3>1. f \in Thread
        BY <1>1, <2>1 DEF Thread
      <3> QED
        BY <2>1, <2>3, <3>1 DEF QuietStep, Quiet, AccountsTypeOK
    <2>4. ASSUME NEW i \in Ids, users[i].status = "active",
                 users[i].password = p.password, Goto(t, c(i))
          PROVE  QuietStep
      <3>1. c(i) \in Thread
        BY <2>1 DEF Thread
      <3> QED
        BY <2>1, <2>4, <3>1 DEF QuietStep, Quiet, AccountsTypeOK
    <2> QED
      BY <2>2, <2>3, <2>4
  <1>4. CASE ReadFailure(t)
    <2>1. /\ p.pc = "fail" /\ failures' = failures
          /\ UNCHANGED <<users, sessions, now, updates, crashes, overlapped>>
          /\ p.name \in Names /\ p.source \in Sources /\ p.since \in Times
      BY <1>1, <1>4, ThreadFields DEF ReadFailure
    <2>2. PICK stamp \in p.since..now :
             Goto(t, [pc |-> "upsert", name |-> p.name, source |-> p.source,
                      row |-> NextFailure(failures[<<p.name, p.source>>], stamp)])
      BY <1>4 DEF ReadFailure
    <2>3. PICK row : row = NextFailure(failures[<<p.name, p.source>>], stamp)
      OBVIOUS
    <2>4. row \in Failure
      <3>1. stamp \in Times
        BY <1>1, <2>1, <2>2, AccountBounds
      <3>2. failures[<<p.name, p.source>>] \in Failure \cup {NoFailure}
        BY <2>1 DEF AccountsTypeOK
      <3> QED
        BY <2>3, <3>1, <3>2, NextFailureType
    <2> DEFINE q == [pc |-> "upsert", name |-> p.name, source |-> p.source, row |-> row]
    <2>5. q \in Thread /\ Goto(t, q)
      BY <2>1, <2>2, <2>3, <2>4 DEF Thread
    <2> QED
      BY <2>1, <2>5 DEF QuietStep, Quiet, AccountsTypeOK
  <1>5. CASE WriteFailure(t)
    <2>1. /\ p.pc = "upsert"
          /\ failures' = [failures EXCEPT ![<<p.name, p.source>>] = p.row]
          /\ Goto(t, Idle)
          /\ UNCHANGED <<users, sessions, now, updates, crashes, overlapped>>
          /\ p.row \in Failure
      BY <1>1, <1>5, ThreadFields DEF WriteFailure
    <2>2. Idle \in Thread /\ failures' \in [Names \X Sources -> Failure \cup {NoFailure}]
      BY <2>1 DEF Thread, AccountsTypeOK
    <2> QED
      BY <2>1, <2>2 DEF QuietStep, Quiet, Idle, AccountsTypeOK
  <1>6. CASE ClearFailures(t)
    <2>1. /\ p.pc = "clear"
          /\ failures' = [failures EXCEPT ![<<p.name, p.source>>] = NoFailure]
          /\ Goto(t, [pc |-> "session", password |-> p.password, user |-> p.user])
          /\ UNCHANGED <<users, sessions, now, updates, crashes, overlapped>>
          /\ p.password \in Passwords /\ p.user \in Ids
      BY <1>1, <1>6, ThreadFields DEF ClearFailures
    <2> DEFINE q == [pc |-> "session", password |-> p.password, user |-> p.user]
    <2>2. q \in Thread /\ failures' \in [Names \X Sources -> Failure \cup {NoFailure}]
      BY <2>1 DEF Thread, AccountsTypeOK
    <2> QED
      BY <2>1, <2>2 DEF QuietStep, Quiet, AccountsTypeOK
  <1> QED
    BY <1>2, <1>3, <1>4, <1>5, <1>6

(* Some sessions end. *)
SessionsEnd ==
    /\ sessions' \in [SessionIds -> Session \cup {NoSession}]
    /\ \A k \in SessionIds : sessions'[k] \in {sessions[k], NoSession}
    /\ UNCHANGED <<users, failures, now, threads, updates, crashes, overlapped>>

ClockOnly ==
    /\ now' \in Times
    /\ UNCHANGED <<users, sessions, failures, threads, updates, crashes, overlapped>>

(* What is left of the sessions when those of one user end. *)
LEMMA WithoutType ==
    ASSUME AccountsTypeOK, NEW i
    PROVE  /\ WithoutSessionsOf(i) \in [SessionIds -> Session \cup {NoSession}]
           /\ \A k \in SessionIds : WithoutSessionsOf(i)[k] \in {sessions[k], NoSession}
           /\ \A k \in SessionIds : WithoutSessionsOf(i)[k] # NoSession =>
                WithoutSessionsOf(i)[k].user # i
  BY DEF WithoutSessionsOf, AccountsTypeOK

(* Every step is of one of six kinds. *)
LEMMA StepKinds ==
    ASSUME AccountsTypeOK, [AccountsNext]_accountVars
    PROVE  \/ QuietStep
           \/ \E t \in Threads : IssueSession(t)
           \/ SessionsEnd
           \/ \E i \in Ids, c \in Changes : UpdateDeveloper(i, c)
           \/ ControlCrash
           \/ ClockOnly
  <1>1. ASSUME NEW t \in Threads, DeveloperLogin(t)
        PROVE  QuietStep \/ IssueSession(t)
    BY <1>1, LoginIsQuiet DEF DeveloperLogin
  <1>2. ASSUME NEW k \in SessionIds, Logout(k) PROVE SessionsEnd
    BY <1>2 DEF Logout, SessionsEnd, AccountsTypeOK
  <1>3. ASSUME NEW i \in Ids, RevokeUserSessions(i) PROVE SessionsEnd
    BY <1>3, WithoutType DEF RevokeUserSessions, SessionsEnd
  <1>4. ASSUME Clock \/ UNCHANGED accountVars PROVE ClockOnly
    BY <1>4, AccountBounds DEF Clock, accountVars, ClockOnly, AccountsTypeOK
  <1> QED
    BY <1>1, <1>2, <1>3, <1>4, Zenon DEF AccountsNext

-----------------------------------------------------------------------------
(* The invariant is kept.                                                  *)

(* The sets that are counted are finite. *)
LEMMA Counted ==
    ASSUME AccountsTypeOK
    PROVE  /\ \A S \in SUBSET SessionIds : IsFiniteSet(S) /\ Cardinality(S) \in Nat
           /\ \A S \in SUBSET Threads :
                /\ IsFiniteSet(S) /\ Cardinality(S) \in Nat
                /\ Cardinality(S) <= Cardinality(Threads)
           /\ Cardinality(Threads) \in Nat
  <1>1. IsFiniteSet(SessionIds)
    BY FS_Interval, AccountBounds
  <1>2. \A S \in SUBSET SessionIds : IsFiniteSet(S) /\ Cardinality(S) \in Nat
    BY <1>1, FS_Subset, FS_CardinalityType
  <1>3. \A S \in SUBSET Threads :
          /\ IsFiniteSet(S) /\ Cardinality(S) \in Nat
          /\ Cardinality(S) <= Cardinality(Threads)
    BY AccountSets, FS_Subset, FS_CardinalityType
  <1> QED
    BY <1>2, <1>3, AccountSets, FS_CardinalityType

(* Initially it holds. *)
LEMMA InitHolds == AccountsInit => AccountsInv
  <1> SUFFICES ASSUME AccountsInit PROVE AccountsInv
    OBVIOUS
  <1>1. AccountsTypeOK
    BY AccountBounds DEF AccountsInit, AccountsTypeOK, Thread
  <1>2. StaleThreads = {} /\ StaleSessions = {} /\ updates = 0
    BY DEF AccountsInit, StaleThreads, StaleSessions, Idle
  <1>3. Cardinality({}) = 0 /\ Cardinality(Threads) \in Nat
    BY AccountSets, FS_EmptySet, FS_CardinalityType
  <1>4. Cardinality(Threads) * 0 = 0
    BY <1>3
  <1>5. StaleAreFew
    BY <1>2, <1>3, <1>4 DEF StaleAreFew
  <1> QED
    BY <1>1, <1>5 DEF AccountsInv

(* Fewer stale sessions and threads, more updates. *)
LEMMA FewerStale ==
    ASSUME AccountsTypeOK, AccountsTypeOK', StaleAreFew, StaleSessions' \subseteq StaleSessions,
           \/ StaleThreads' \subseteq StaleThreads /\ updates' = updates
           \/ updates' = updates + 1
    PROVE  StaleAreFew'
  <1>1. /\ StaleThreads \subseteq Threads /\ StaleSessions \subseteq SessionIds
        /\ StaleThreads' \subseteq Threads
    BY DEF StaleThreads, StaleSessions
  <1>2. /\ IsFiniteSet(StaleSessions) /\ IsFiniteSet(StaleThreads)
        /\ Cardinality(StaleSessions) \in Nat /\ Cardinality(StaleThreads) \in Nat
        /\ Cardinality(StaleThreads') \in Nat
        /\ Cardinality(StaleThreads') <= Cardinality(Threads)
        /\ Cardinality(Threads) \in Nat
    BY <1>1, Counted
  <1>3. Cardinality(StaleSessions') \in Nat
        /\ Cardinality(StaleSessions') <= Cardinality(StaleSessions)
    BY <1>2, FS_Subset, FS_CardinalityType
  <1>4. PICK n : n = Cardinality(Threads)
    OBVIOUS
  <1>5. PICK b : b = n * updates
    OBVIOUS
  <1>6. n \in Nat /\ updates \in Nat /\ b \in Int
    BY <1>2, <1>4, <1>5, AccountBounds DEF AccountsTypeOK
  <1>7. Cardinality(StaleSessions) + Cardinality(StaleThreads) <= b
    BY <1>4, <1>5 DEF StaleAreFew
  <1>8. CASE StaleThreads' \subseteq StaleThreads /\ updates' = updates
    <2>1. Cardinality(StaleThreads') <= Cardinality(StaleThreads)
      BY <1>2, <1>8, FS_Subset
    <2>2. Cardinality(StaleSessions') + Cardinality(StaleThreads') <= b
      BY <1>2, <1>3, <1>6, <1>7, <2>1
    <2> QED
      BY <1>4, <1>5, <1>8, <2>2 DEF StaleAreFew
  <1>9. CASE updates' = updates + 1
    <2>1. n * (updates + 1) = b + n
      BY <1>5, <1>6
    <2>2. Cardinality(StaleSessions') + Cardinality(StaleThreads') <= b + n
      BY <1>2, <1>3, <1>4, <1>6, <1>7
    <2> QED
      BY <1>4, <1>9, <2>1, <2>2 DEF StaleAreFew
  <1> QED
    BY <1>8, <1>9

(* Steps of a thread that touch no table but login_failures. *)
LEMMA QuietKeeps ==
    ASSUME AccountsInv, QuietStep
    PROVE  AccountsInv'
  <1>1. AccountsTypeOK /\ StaleAreFew
    BY DEF AccountsInv
  <1>2. PICK t \in Threads, q \in Thread : Goto(t, q) /\ Quiet(threads[t], q)
    BY DEF QuietStep
  <1>3. /\ UNCHANGED <<users, sessions, now, updates, crashes>>
        /\ failures' \in [Names \X Sources -> Failure \cup {NoFailure}]
        /\ overlapped' \subseteq Names \X Sources
    BY DEF QuietStep
  <1>4. /\ threads' \in [Threads -> Thread] /\ threads'[t] = q
        /\ \A s \in Threads : s # t => threads'[s] = threads[s]
    BY <1>1, <1>2, GotoType
  <1>5. AccountsTypeOK'
    BY <1>1, <1>3, <1>4 DEF AccountsTypeOK
  <1>6. users' = users
    BY <1>3
  <1>7. StaleSessions' = StaleSessions
    BY <1>3 DEF StaleSessions
  <1>8. StaleThreads' \subseteq StaleThreads
    <2> SUFFICES ASSUME NEW s \in StaleThreads' PROVE s \in StaleThreads
      OBVIOUS
    <2>1. /\ s \in Threads /\ threads'[s].pc \in {"clear", "session"}
          /\ \/ users[threads'[s].user].status = "disabled"
             \/ users[threads'[s].user].password # threads'[s].password
      BY <1>6 DEF StaleThreads
    <2>2. CASE s # t
      BY <1>4, <2>1, <2>2 DEF StaleThreads
    <2>3. CASE s = t
      <3>1. Quiet(threads[t], q) /\ threads'[s] = q
        BY <1>2, <1>4, <2>3
      <3>2. /\ threads[t].pc \in {"clear", "session"}
            /\ q.user = threads[t].user /\ q.password = threads[t].password
        BY <2>1, <3>1 DEF Quiet
      <3> QED
        BY <2>1, <2>3, <3>1, <3>2 DEF StaleThreads
    <2> QED
      BY <2>2, <2>3
  <1>9. StaleAreFew'
    BY <1>1, <1>3, <1>5, <1>7, <1>8, FewerStale
  <1> QED
    BY <1>5, <1>9 DEF AccountsInv

(* create_session, also of a login that is not good any more. *)
LEMMA IssueKeeps ==
    ASSUME AccountsInv, NEW t \in Threads, IssueSession(t)
    PROVE  AccountsInv'
  <1> DEFINE p == threads[t]
  <1>1. AccountsTypeOK /\ StaleAreFew
    BY DEF AccountsInv
  <1>2. /\ p.pc = "session" /\ Goto(t, Idle) /\ FreeSessions # {}
        /\ UNCHANGED <<users, failures, now, updates, crashes, overlapped>>
    BY DEF IssueSession
  <1>3. PICK k \in SessionIds : /\ sessions[k] = NoSession
                                /\ sessions' = [sessions EXCEPT ![k] =
                                     [user |-> p.user, password |-> p.password]]
    <2>1. FreeSessions \subseteq Nat
      BY AccountBounds DEF FreeSessions
    <2>2. PICK x \in FreeSessions : \A y \in FreeSessions : x <= y
      BY <1>2, <2>1, LeastNat
    <2>3. Min(FreeSessions) \in FreeSessions
      BY <2>2 DEF Min
    <2> QED
      BY <2>3 DEF IssueSession, FreeSessions
  <1>4. p.user \in Ids /\ p.password \in Passwords
    BY <1>1, <1>2, ThreadFields DEF AccountsTypeOK
  <1>5. /\ threads' \in [Threads -> Thread] /\ threads'[t] = Idle
        /\ \A s \in Threads : s # t => threads'[s] = threads[s]
    <2>1. Idle \in Thread
      BY DEF Thread
    <2> QED
      BY <1>1, <1>2, <2>1, GotoType
  <1>6. Idle.pc = "idle"
    BY DEF Idle
  <1>7. /\ sessions'[k] = [user |-> p.user, password |-> p.password]
        /\ \A j \in SessionIds : j # k => sessions'[j] = sessions[j]
        /\ sessions' \in [SessionIds -> Session \cup {NoSession}]
    BY <1>1, <1>3, <1>4 DEF AccountsTypeOK, Session
  <1>8. AccountsTypeOK'
    BY <1>1, <1>2, <1>5, <1>7 DEF AccountsTypeOK
  <1>9. StaleThreads \subseteq Threads /\ StaleSessions \subseteq SessionIds
         /\ k \notin StaleSessions
    BY <1>3 DEF StaleThreads, StaleSessions
  <1>10. /\ StaleThreads' = StaleThreads \ {t}
         /\ StaleSessions' \ {k} = StaleSessions
         /\ k \in StaleSessions' => t \in StaleThreads
    <2>1. StaleThreads' = StaleThreads \ {t}
      BY <1>2, <1>5, <1>6 DEF StaleThreads
    <2>2. StaleSessions' \ {k} = StaleSessions
      BY <1>2, <1>3, <1>7 DEF StaleSessions
    <2>3. k \in StaleSessions' => t \in StaleThreads
      BY <1>2, <1>7 DEF StaleSessions, StaleThreads
    <2> QED
      BY <2>1, <2>2, <2>3
  <1>11. /\ IsFiniteSet(StaleSessions) /\ IsFiniteSet(StaleThreads)
         /\ Cardinality(StaleSessions) \in Nat /\ Cardinality(StaleThreads) \in Nat
    BY <1>1, <1>9, Counted
  <1>12. Cardinality(StaleSessions') + Cardinality(StaleThreads')
           <= Cardinality(StaleSessions) + Cardinality(StaleThreads)
    <2>1. CASE k \in StaleSessions'
      <3>1. StaleSessions' = StaleSessions \cup {k}
        BY <1>10, <2>1
      <3>2. Cardinality(StaleSessions \cup {k}) = Cardinality(StaleSessions) + 1
        BY <1>9, <1>11, FS_AddElement
      <3>3. Cardinality(StaleThreads \ {t}) = Cardinality(StaleThreads) - 1
        BY <1>10, <1>11, <2>1, FS_RemoveElement
      <3> QED
        BY <1>10, <1>11, <3>1, <3>2, <3>3
    <2>2. CASE k \notin StaleSessions'
      <3>1. StaleSessions' = StaleSessions
        BY <1>10, <2>2
      <3>2. /\ Cardinality(StaleThreads \ {t}) <= Cardinality(StaleThreads)
            /\ Cardinality(StaleThreads \ {t}) \in Nat
        BY <1>11, FS_Subset, FS_CardinalityType
      <3> QED
        BY <1>10, <1>11, <3>1, <3>2
    <2> QED
      BY <2>1, <2>2
  <1>13. StaleAreFew'
    <2>1. PICK b : b = Cardinality(Threads) * updates /\ b = (Cardinality(Threads) * updates)'
      BY <1>2
    <2>2. b \in Int
      BY <1>1, <2>1, Counted, AccountBounds DEF AccountsTypeOK
    <2>3. StaleThreads' \subseteq Threads /\ StaleSessions' \subseteq SessionIds
      BY DEF StaleThreads, StaleSessions
    <2>4. Cardinality(StaleSessions') \in Nat /\ Cardinality(StaleThreads') \in Nat
      BY <1>8, <1>1, <2>3, Counted
    <2> QED
      BY <1>1, <1>11, <1>12, <2>1, <2>2, <2>4 DEF StaleAreFew
  <1> QED
    BY <1>8, <1>13 DEF AccountsInv

(* A logout, or the end of every session of a user. *)
LEMMA EndKeeps ==
    ASSUME AccountsInv, SessionsEnd
    PROVE  AccountsInv'
  <1>1. AccountsTypeOK /\ StaleAreFew
    BY DEF AccountsInv
  <1>2. /\ sessions' \in [SessionIds -> Session \cup {NoSession}]
        /\ \A k \in SessionIds : sessions'[k] \in {sessions[k], NoSession}
        /\ UNCHANGED <<users, failures, now, threads, updates, crashes, overlapped>>
    BY DEF SessionsEnd
  <1>3. AccountsTypeOK'
    BY <1>1, <1>2 DEF AccountsTypeOK
  <1>4. StaleSessions' \subseteq StaleSessions /\ StaleThreads' \subseteq StaleThreads
    BY <1>2 DEF StaleSessions, StaleThreads
  <1>5. StaleAreFew'
    BY <1>1, <1>2, <1>3, <1>4, FewerStale
  <1> QED
    BY <1>3, <1>5 DEF AccountsInv

(* update_developer: the sessions it means to end are ended with it, logins *)
(* that verified the old row are not: one per thread at most.               *)
LEMMA UpdateKeeps ==
    ASSUME AccountsInv, NEW i \in Ids, NEW c \in Changes, UpdateDeveloper(i, c)
    PROVE  AccountsInv'
  <1>1. AccountsTypeOK /\ StaleAreFew
    BY DEF AccountsInv
  <1>2. /\ updates < MaxUpdates /\ updates' = updates + 1
        /\ UNCHANGED <<failures, now, threads, crashes, overlapped>>
    BY DEF UpdateDeveloper
  <1>3. PICK row : row = Updated(users[i], c)
    OBVIOUS
  <1>4. users' = [users EXCEPT ![i] = row]
    BY <1>3 DEF UpdateDeveloper
  <1>5. /\ users[i] \in User
        /\ c.name \in Names \cup {None} /\ c.password \in Passwords \cup {None}
        /\ c.status \in {"active", "disabled", None}
    BY <1>1 DEF AccountsTypeOK, Changes
  <1>6. /\ row \in User
        /\ c.status # "disabled" => row.status = users[i].status \/ row.status = "active"
        /\ c.password = None => row.password = users[i].password
    <2>1. row = [f \in {"name", "password", "status"} |->
                   IF c[f] = None THEN users[i][f] ELSE c[f]]
      BY <1>3, <1>5 DEF Updated, User
    <2>2. row = [name |-> IF c.name = None THEN users[i].name ELSE c.name,
                 password |-> IF c.password = None THEN users[i].password ELSE c.password,
                 status |-> IF c.status = None THEN users[i].status ELSE c.status]
      BY <2>1
    <2> QED
      BY <1>5, <2>2 DEF User
  <1>7. /\ users' \in [Ids -> User] /\ users'[i] = row
        /\ \A j \in Ids : j # i => users'[j] = users[j]
    BY <1>1, <1>4, <1>6 DEF AccountsTypeOK
  <1>8. /\ sessions' \in [SessionIds -> Session \cup {NoSession}]
        /\ \A k \in SessionIds : sessions'[k] \in {sessions[k], NoSession}
        /\ c.status = "disabled" \/ c.password # None =>
             \A k \in SessionIds : sessions'[k] # NoSession => sessions'[k].user # i
    <2>1. CASE c.status = "disabled" \/ c.password # None
      BY <1>1, <2>1, WithoutType DEF UpdateDeveloper
    <2>2. CASE ~(c.status = "disabled" \/ c.password # None)
      BY <1>1, <2>2 DEF UpdateDeveloper, AccountsTypeOK
    <2> QED
      BY <2>1, <2>2
  <1>9. AccountsTypeOK'
    <2>1. c.name # None => \A j \in Ids : users[j].name = c.name => j = i
      BY DEF UpdateDeveloper, Named
    <2>2. row.name = IF c.name = None THEN users[i].name ELSE c.name
      BY <1>3, <1>5 DEF Updated, User
    <2>3. NamesUnique(users')
      BY <1>1, <1>7, <2>1, <2>2 DEF NamesUnique, AccountsTypeOK
    <2> QED
      BY <1>1, <1>2, <1>7, <1>8, <2>3, AccountBounds DEF AccountsTypeOK
  <1>10. StaleSessions' \subseteq StaleSessions
    <2> SUFFICES ASSUME NEW k \in StaleSessions' PROVE k \in StaleSessions
      OBVIOUS
    <2>1. /\ k \in SessionIds /\ sessions'[k] # NoSession /\ sessions'[k] = sessions[k]
          /\ \/ users'[sessions[k].user].status = "disabled"
             \/ users'[sessions[k].user].password # sessions[k].password
      BY <1>8 DEF StaleSessions
    <2>2. sessions[k].user \in Ids
      BY <1>1, <2>1 DEF AccountsTypeOK, Session
    <2>3. CASE sessions[k].user # i
      BY <1>7, <2>1, <2>2, <2>3 DEF StaleSessions
    <2>4. CASE sessions[k].user = i
      <3>1. c.status # "disabled" /\ c.password = None
        BY <1>8, <2>1, <2>4
      <3> QED
        BY <1>6, <1>7, <2>1, <2>4, <3>1 DEF StaleSessions
    <2> QED
      BY <2>3, <2>4
  <1>11. StaleAreFew'
    BY <1>1, <1>2, <1>9, <1>10, FewerStale
  <1> QED
    BY <1>9, <1>11 DEF AccountsInv

(* The control plane died, and every login with it. *)
LEMMA CrashKeeps ==
    ASSUME AccountsInv, ControlCrash
    PROVE  AccountsInv'
  <1>1. AccountsTypeOK /\ StaleAreFew
    BY DEF AccountsInv
  <1>2. /\ crashes < MaxCrashes /\ crashes' = crashes + 1
        /\ threads' = [t \in Threads |-> Idle]
        /\ UNCHANGED <<users, sessions, failures, now, updates, overlapped>>
    BY DEF ControlCrash
  <1>3. Idle \in Thread /\ Idle.pc = "idle"
    BY DEF Thread, Idle
  <1>4. AccountsTypeOK'
    BY <1>1, <1>2, <1>3, AccountBounds DEF AccountsTypeOK
  <1>5. StaleThreads' = {} /\ StaleSessions' = StaleSessions
    BY <1>2, <1>3 DEF StaleThreads, StaleSessions
  <1>6. StaleAreFew'
    BY <1>1, <1>2, <1>4, <1>5, FewerStale
  <1> QED
    BY <1>4, <1>6 DEF AccountsInv

LEMMA ClockKeeps ==
    ASSUME AccountsInv, ClockOnly
    PROVE  AccountsInv'
  <1>1. AccountsTypeOK /\ StaleAreFew
    BY DEF AccountsInv
  <1>2. /\ now' \in Times
        /\ UNCHANGED <<users, sessions, failures, threads, updates, crashes, overlapped>>
    BY DEF ClockOnly
  <1>3. AccountsTypeOK'
    BY <1>1, <1>2 DEF AccountsTypeOK
  <1>4. StaleThreads' = StaleThreads /\ StaleSessions' = StaleSessions
    BY <1>2 DEF StaleThreads, StaleSessions
  <1>5. StaleAreFew'
    BY <1>1, <1>2, <1>4 DEF StaleAreFew
  <1> QED
    BY <1>3, <1>5 DEF AccountsInv

(* The invariant holds in every state. *)
LEMMA InvHolds == AccountsSpec => []AccountsInv
  <1>1. AccountsInv /\ [AccountsNext]_accountVars => AccountsInv'
    <2> SUFFICES ASSUME AccountsInv, [AccountsNext]_accountVars PROVE AccountsInv'
      OBVIOUS
    <2>1. AccountsTypeOK
      BY DEF AccountsInv
    <2> QED
      BY <2>1, StepKinds, QuietKeeps, IssueKeeps, EndKeeps, UpdateKeeps, CrashKeeps,
         ClockKeeps, Zenon
  <1> QED
    BY <1>1, InitHolds, PTL DEF AccountsSpec

(* Every value the handlers write is one of its table, and user names stay *)
(* distinct under the changes of an administrator.                         *)
THEOREM AccountsKeepTypes == AccountsSpec => []AccountsTypeOK
  <1>1. AccountsInv => AccountsTypeOK
    BY DEF AccountsInv
  <1> QED
    BY <1>1, InvHolds, PTL

(* A login that verified a password before update_developer replaced it, or *)
(* disabled the account, opens its session after the others were ended: one *)
(* per thread and update at most, however many sessions and users there are.*)
THEOREM UpdatesEndSessions == AccountsSpec => []StaleSessionsOnlyByRaces
  <1>1. AccountsInv => StaleSessionsOnlyByRaces
    <2> SUFFICES ASSUME AccountsInv PROVE StaleSessionsOnlyByRaces
      OBVIOUS
    <2>1. AccountsTypeOK /\ StaleAreFew
      BY DEF AccountsInv
    <2>2. StaleSessions \subseteq SessionIds /\ StaleThreads \subseteq Threads
      BY DEF StaleSessions, StaleThreads
    <2>3. /\ Cardinality(StaleSessions) \in Nat /\ Cardinality(StaleThreads) \in Nat
          /\ Cardinality(Threads) \in Nat /\ updates \in Nat
      BY <2>1, <2>2, Counted, AccountBounds DEF AccountsTypeOK
    <2>4. PICK b : b = Cardinality(Threads) * updates
      OBVIOUS
    <2>5. b \in Int
      BY <2>3, <2>4
    <2> QED
      BY <2>1, <2>3, <2>4, <2>5 DEF StaleAreFew, StaleSessionsOnlyByRaces
  <1> QED
    BY <1>1, InvHolds, PTL

-----------------------------------------------------------------------------
(* The login limiter, for the rows that two threads never worked for at    *)
(* once.                                                                   *)

(* A row below the threshold has no block, and one with a block keeps it   *)
(* until its counting window is over.                                      *)
RowFits(row, time) ==
    /\ row.count <= Threshold
    /\ row.first <= time
    /\ row.until = None => row.count < Threshold
    /\ row.until # None => row.until >= row.first + Window

(* The block of a row, if it has one, was over at that time. *)
Over(row, time) == row.until = None \/ row.until <= time

(* What a login knows of the row it may count a failure in. *)
LoginFits(q, row, time) ==
    /\ q.pc = "verify" => Over(row, time)
    /\ q.pc = "fail" => Over(row, q.since) /\ row.first <= q.since /\ q.since <= time
    /\ q.pc = "upsert" => RowFits(q.row, time)

Rows == (Names \X Sources) \ overlapped

GatePassed ==
    \A x \in Rows : \A t \in Handling(x) : LoginFits(threads[t], failures[x], now)

Alone == \A x \in Rows : \A s, t \in Handling(x) : s = t

LimiterInv ==
    /\ AccountsTypeOK
    /\ \A x \in Rows : RowFits(failures[x], now)
    /\ GatePassed /\ Alone

(* login_retry_after lets a client in when its block is over, not before. *)
LEMMA NoRetryMeansOver ==
    ASSUME NEW r \in Int, RetryAfter(r) = 0
    PROVE  r <= 0
  <1> SUFFICES ASSUME r > 0 PROVE FALSE
    OBVIOUS
  <1>1. PICK v : v = (r \div 2) + (r % 2)
    OBVIOUS
  <1>2. v \in Int /\ v > 0
    BY <1>1
  <1>3. Max({0, v}) = v
    <2>1. \A x \in {0, v} : (\A y \in {0, v} : x >= y) <=> x = v
      BY <1>2
    <2>2. v \in {0, v} /\ \A y \in {0, v} : v >= y
      BY <1>2
    <2>3. \E x \in {0, v} : \A y \in {0, v} : x >= y
      BY <2>2
    <2> QED
      BY <2>1, <2>3 DEF Max
  <1>4. RetryAfter(r) = Max({0, v})
    BY <1>1 DEF RetryAfter
  <1> QED
    BY <1>2, <1>3, <1>4

(* The window and the block fit together: a failure after the block starts *)
(* at one, a failure before there is one stays below or reaches it.        *)
LEMMA NextFailureFits ==
    ASSUME NEW old \in Failure \cup {NoFailure}, NEW t \in Times, NEW time \in Times, t <= time,
           RowFits(old, t), Over(old, t)
    PROVE  RowFits(NextFailure(old, t), time)
  <1>1. /\ Threshold \in Nat \ {0} /\ Window \in Nat \ {0} /\ MaxNow \in Nat /\ None \notin Nat
    BY AccountBounds, AccountSets
  <1>2. /\ old.count \in Nat /\ old.first \in Nat /\ t \in Nat /\ time \in Nat
        /\ old.until # None => old.until \in Nat
        /\ old.until = None => old.count < Threshold
        /\ old.until # None => old.until >= old.first + Window /\ old.until <= t
        /\ old.first <= t
    BY <1>1 DEF Failure, NoFailure, RowFits, Over
  <1>3. PICK fresh \in BOOLEAN : fresh <=> (old = NoFailure \/ t - old.first >= Window)
    OBVIOUS
  <1>4. PICK row : row = NextFailure(old, t)
    OBVIOUS
  <1>5. CASE fresh
    <2>1. /\ row.count = 1 /\ row.first = t
          /\ row.until = IF 1 >= Threshold THEN t + Window ELSE None
      BY <1>3, <1>4, <1>5 DEF NextFailure
    <2>2. RowFits(row, time)
      BY <1>1, <1>2, <2>1 DEF RowFits
    <2> QED
      BY <1>4, <2>2
  <1>6. CASE ~fresh
    <2>1. /\ row.count = old.count + 1 /\ row.first = old.first
          /\ row.until = IF old.count + 1 >= Threshold THEN t + Window ELSE None
      BY <1>3, <1>4, <1>6 DEF NextFailure
    <2>2. t - old.first < Window
      BY <1>1, <1>2, <1>3, <1>6
    <2>3. old.until = None
      BY <1>1, <1>2, <2>2
    <2>4. RowFits(row, time)
      BY <1>1, <1>2, <2>1, <2>3 DEF RowFits
    <2> QED
      BY <1>4, <2>4
  <1> QED
    BY <1>5, <1>6

(* Time passing ends blocks and starts none. *)
LEMMA Later ==
    ASSUME NEW row \in Failure \cup {NoFailure}, NEW a \in Times, NEW b \in Times, a <= b
    PROVE  /\ RowFits(row, a) => RowFits(row, b)
           /\ Over(row, a) => Over(row, b)
  <1>1. MaxNow \in Nat /\ row.first \in Nat /\ (row.until # None => row.until \in Nat)
    BY AccountBounds DEF Failure, NoFailure
  <1> QED
    BY <1>1 DEF RowFits, Over

LEMMA LimiterInit == AccountsInit => LimiterInv
  <1> SUFFICES ASSUME AccountsInit PROVE LimiterInv
    OBVIOUS
  <1>1. AccountsTypeOK
    BY InitHolds DEF AccountsInv
  <1>2. \A x : Handling(x) = {}
    BY DEF AccountsInit, Handling, Idle
  <1>3. \A x \in Names \X Sources : RowFits(failures[x], now)
    BY AccountBounds DEF AccountsInit, RowFits, NoFailure
  <1> QED
    BY <1>1, <1>2, <1>3 DEF LimiterInv, GatePassed, Alone, Rows

(* Steps that write no row and no login that could. *)
LEMMA LimiterRests ==
    ASSUME LimiterInv, AccountsTypeOK', UNCHANGED <<failures, overlapped>>, now <= now',
           \A t \in Threads : \/ threads'[t] = threads[t]
                              \/ threads'[t].pc \notin {"verify", "fail", "upsert", "clear"}
    PROVE  LimiterInv'
  <1>1. /\ AccountsTypeOK /\ GatePassed /\ Alone /\ now \in Times /\ now' \in Times
        /\ failures' = failures /\ overlapped' = overlapped
    BY DEF LimiterInv, AccountsTypeOK
  <1>2. Rows' = Rows /\ \A x \in Rows : x \in Names \X Sources
    BY <1>1 DEF Rows
  <1>3. \A x : \A t \in Handling(x)' : t \in Handling(x) /\ threads'[t] = threads[t]
    BY DEF Handling
  <1>4. \A x \in Rows : RowFits(failures[x], now')
    BY <1>1, <1>2, Later DEF LimiterInv, AccountsTypeOK
  <1>5. ASSUME NEW x \in Rows, NEW t \in Handling(x)'
        PROVE  LoginFits(threads'[t], failures[x], now')
    <2> DEFINE q == threads[t]
    <2>1. t \in Threads /\ q \in Thread /\ threads'[t] = q /\ LoginFits(q, failures[x], now)
      BY <1>1, <1>3, <1>5 DEF AccountsTypeOK, GatePassed, Handling
    <2>2. failures[x] \in Failure \cup {NoFailure}
      BY <1>1, <1>2 DEF AccountsTypeOK
    <2>3. q.pc = "verify" => Over(failures[x], now')
      BY <1>1, <2>1, <2>2, Later DEF LoginFits
    <2>4. q.pc = "fail" => q.since <= now'
      BY <1>1, <2>1, ThreadFields, AccountBounds DEF LoginFits
    <2>5. q.pc = "upsert" => RowFits(q.row, now')
      BY <1>1, <2>1, ThreadFields, Later DEF LoginFits
    <2> QED
      BY <2>1, <2>3, <2>4, <2>5 DEF LoginFits
  <1>6. GatePassed'
    BY <1>1, <1>2, <1>5 DEF GatePassed
  <1>7. Alone'
    BY <1>1, <1>2, <1>3 DEF Alone
  <1> QED
    BY <1>1, <1>2, <1>4, <1>6, <1>7 DEF LimiterInv

(* A step of the thread that works for row x, if there is no other. *)
LEMMA LimiterStep ==
    ASSUME LimiterInv, AccountsTypeOK', now' = now, overlapped \subseteq overlapped',
           NEW t \in Threads, NEW q \in Thread, Goto(t, q),
           NEW x \in Names \X Sources,
           q.pc \in {"verify", "fail", "upsert", "clear"} => x = <<q.name, q.source>>,
           \A y \in Names \X Sources : y # x => failures'[y] = failures[y],
           \/ x \in overlapped'
           \/ /\ Handling(x) \subseteq {t}
              /\ RowFits(failures'[x], now) /\ LoginFits(q, failures'[x], now)
    PROVE  LimiterInv'
  <1>1. /\ AccountsTypeOK /\ GatePassed /\ Alone
        /\ \A y \in Rows : RowFits(failures[y], now)
        /\ Rows' \subseteq Rows /\ \A y \in Rows : y \in Names \X Sources
    BY DEF LimiterInv, Rows
  <1>2. /\ threads'[t] = q
        /\ \A s \in Threads : s # t => threads'[s] = threads[s]
    BY <1>1, GotoType
  <1>3. x \in Rows' => /\ Handling(x) \subseteq {t}
                       /\ RowFits(failures'[x], now) /\ LoginFits(q, failures'[x], now)
    BY DEF Rows
  <1>4. \A y \in Rows' : \A s \in Handling(y)' : s # t => s \in Handling(y) /\ y # x
    <2> SUFFICES ASSUME NEW y \in Rows', NEW s \in Handling(y)', s # t
                 PROVE  s \in Handling(y) /\ y # x
      OBVIOUS
    <2>1. s \in Handling(y)
      BY <1>2 DEF Handling
    <2> QED
      BY <1>3, <2>1
  <1>5. \A y : t \in Handling(y)' => y = x
    BY <1>2 DEF Handling
  <1>6. \A y \in Rows' : RowFits(failures'[y], now')
    <2> SUFFICES ASSUME NEW y \in Rows' PROVE RowFits(failures'[y], now)
      OBVIOUS
    <2> QED
      BY <1>1, <1>3
  <1>7. ASSUME NEW y \in Rows', NEW s \in Handling(y)'
        PROVE  LoginFits(threads'[s], failures'[y], now)
    <2>1. CASE s = t
      BY <1>2, <1>3, <1>5, <1>7, <2>1
    <2>2. CASE s # t
      <3>1. s \in Handling(y) /\ y # x /\ s \in Threads
        BY <1>4, <1>7, <2>2 DEF Handling
      <3>2. threads'[s] = threads[s] /\ failures'[y] = failures[y]
        BY <1>1, <1>2, <2>2, <3>1
      <3>3. LoginFits(threads[s], failures[y], now)
        BY <1>1, <3>1 DEF GatePassed
      <3> QED
        BY <3>2, <3>3
    <2> QED
      BY <2>1, <2>2
  <1>8. GatePassed'
    BY <1>7 DEF GatePassed
  <1>9. Alone'
    <2> SUFFICES ASSUME NEW y \in Rows', NEW s \in Handling(y)', NEW r \in Handling(y)'
                 PROVE  s = r
      BY DEF Alone
    <2>1. CASE s # t /\ r # t
      BY <1>1, <1>4, <2>1 DEF Alone
    <2>2. CASE s = t
      BY <1>4, <1>5, <2>2
    <2>3. CASE r = t
      BY <1>4, <1>5, <2>3
    <2> QED
      BY <2>1, <2>2, <2>3
  <1> QED
    BY <1>6, <1>8, <1>9 DEF LimiterInv

(* A step of a login. *)
LEMMA LimiterKeepsLogin ==
    ASSUME LimiterInv, AccountsTypeOK', NEW t \in Threads, DeveloperLogin(t)
    PROVE  LimiterInv'
  <1> DEFINE p == threads[t]
             x == <<p.name, p.source>>
  <1>1. /\ AccountsTypeOK /\ GatePassed /\ Alone /\ p \in Thread /\ now \in Times
        /\ \A y \in Rows : RowFits(failures[y], now)
    BY DEF LimiterInv, AccountsTypeOK
  <1>2. MaxNow \in Nat /\ Idle \in Thread /\ Idle.pc = "idle"
    BY AccountBounds DEF Thread, Idle
  <1>3. p.pc \in {"verify", "fail", "upsert", "clear"} =>
          /\ x \in Names \X Sources /\ t \in Handling(x)
          /\ failures[x] \in Failure \cup {NoFailure}
          /\ \/ x \in overlapped
             \/ /\ Handling(x) \subseteq {t} /\ RowFits(failures[x], now)
                /\ LoginFits(p, failures[x], now)
    <2> SUFFICES ASSUME p.pc \in {"verify", "fail", "upsert", "clear"}
                 PROVE  /\ x \in Names \X Sources /\ t \in Handling(x)
                        /\ failures[x] \in Failure \cup {NoFailure}
                        /\ \/ x \in overlapped
                           \/ /\ Handling(x) \subseteq {t} /\ RowFits(failures[x], now)
                              /\ LoginFits(p, failures[x], now)
      OBVIOUS
    <2>1. x \in Names \X Sources /\ t \in Handling(x)
      BY <1>1, ThreadFields DEF Handling
    <2>2. x \notin overlapped => x \in Rows
      BY <2>1 DEF Rows
    <2>3. x \in Rows => /\ Handling(x) \subseteq {t} /\ RowFits(failures[x], now)
                        /\ LoginFits(p, failures[x], now)
      BY <1>1, <2>1 DEF Alone, GatePassed
    <2> QED
      BY <1>1, <2>1, <2>2, <2>3 DEF AccountsTypeOK
  <1>4. ASSUME NEW n \in Names, NEW s \in Sources, NEW w \in Passwords, LoginGate(t, n, s, w)
        PROVE  LimiterInv'
    <2> DEFINE q == [pc |-> "verify", name |-> n, source |-> s, password |-> w]
               y == <<n, s>>
    <2>1. q \in Thread /\ y \in Names \X Sources
      BY DEF Thread
    <2>2. /\ Goto(t, q) /\ failures' = failures /\ now' = now /\ ~Refused(n, s)
          /\ overlapped' = overlapped \cup {z \in {y} : Handling(z) # {}}
      BY <1>4 DEF LoginGate
    <2>3. PICK row \in Failure \cup {NoFailure} : row = failures[y]
      BY <1>1, <2>1 DEF AccountsTypeOK
    <2>4. Over(row, now)
      <3>1. CASE row.until = None
        BY <3>1 DEF Over
      <3>2. CASE row.until # None
        <4>1. row.until \in Nat /\ now \in Nat
          BY <1>1, <1>2, <2>3, <3>2 DEF Failure, NoFailure
        <4>2. RetryAfter(row.until - now) = 0
          BY <2>2, <2>3, <3>2 DEF Refused
        <4>3. row.until - now <= 0
          BY <4>1, <4>2, NoRetryMeansOver
        <4> QED
          BY <4>1, <4>3 DEF Over
      <3> QED
        BY <3>1, <3>2
    <2>5. \/ y \in overlapped'
          \/ /\ Handling(y) \subseteq {t}
             /\ RowFits(failures'[y], now) /\ LoginFits(q, failures'[y], now)
      <3>1. CASE y \in overlapped \/ Handling(y) # {}
        BY <2>2, <3>1
      <3>2. CASE y \notin overlapped /\ Handling(y) = {}
        <4>1. RowFits(failures[y], now)
          BY <1>1, <2>1, <3>2 DEF Rows
        <4> QED
          BY <2>2, <2>3, <2>4, <3>2, <4>1 DEF LoginFits
      <3> QED
        BY <3>1, <3>2
    <2>6. overlapped \subseteq overlapped' /\ y = <<q.name, q.source>>
          /\ \A z \in Names \X Sources : z # y => failures'[z] = failures[z]
      BY <2>2
    <2> HIDE DEF q, y
    <2> QED
      BY <2>1, <2>2, <2>5, <2>6, LimiterStep
  <1>5. CASE Verify(t)
    <2>1. /\ p.pc = "verify" /\ failures' = failures /\ now' = now /\ overlapped' = overlapped
          /\ p.name \in Names /\ p.source \in Sources /\ p.password \in Passwords
      BY <1>1, <1>5, ThreadFields DEF Verify
    <2> DEFINE f == [pc |-> "fail", name |-> p.name, source |-> p.source, since |-> now]
               c(i) == [pc |-> "clear", name |-> p.name, source |-> p.source,
                        password |-> p.password, user |-> i]
    <2>2. PICK q \in Thread : Goto(t, q) /\ (q = f \/ \E i \in Ids : q = c(i))
      <3>1. Goto(t, f) \/ \E i \in Ids : Goto(t, c(i))
        BY <1>5 DEF Verify, Named
      <3>2. f \in Thread /\ \A i \in Ids : c(i) \in Thread
        BY <1>1, <2>1 DEF Thread
      <3> QED
        BY <3>1, <3>2
    <2>3. x = <<q.name, q.source>>
      BY <2>2
    <2>4. \/ x \in overlapped'
          \/ /\ Handling(x) \subseteq {t}
             /\ RowFits(failures'[x], now) /\ LoginFits(q, failures'[x], now)
      <3>1. CASE x \in overlapped
        BY <2>1, <3>1
      <3>2. CASE x \notin overlapped
        <4>1. Handling(x) \subseteq {t} /\ RowFits(failures[x], now) /\ Over(failures[x], now)
          BY <1>3, <2>1, <3>2 DEF LoginFits
        <4>2. failures[x].first <= now /\ now <= now
          BY <1>1, <1>2, <4>1 DEF RowFits
        <4>3. q.pc \in {"fail", "clear"} /\ (q.pc = "fail" => q.since = now)
          BY <2>2
        <4> QED
          BY <2>1, <4>1, <4>2, <4>3 DEF LoginFits
      <3> QED
        BY <3>1, <3>2
    <2> QED
      BY <1>3, <2>1, <2>2, <2>3, <2>4, LimiterStep
  <1>6. CASE ReadFailure(t)
    <2>1. /\ p.pc = "fail" /\ failures' = failures /\ now' = now /\ overlapped' = overlapped
          /\ p.name \in Names /\ p.source \in Sources /\ p.since \in Times
      BY <1>1, <1>6, ThreadFields DEF ReadFailure
    <2>2. PICK old \in Failure \cup {NoFailure} : old = failures[x]
      BY <1>3, <2>1
    <2>3. PICK stamp \in p.since..now :
             Goto(t, [pc |-> "upsert", name |-> p.name, source |-> p.source,
                      row |-> NextFailure(old, stamp)])
      BY <1>6, <2>2 DEF ReadFailure
    <2>4. PICK row : row = NextFailure(old, stamp)
      OBVIOUS
    <2>5. stamp \in Nat /\ p.since <= stamp /\ stamp <= now
      BY <1>1, <1>2, <2>1, <2>3
    <2>6. stamp \in Times
      BY <1>1, <1>2, <2>5
    <2>7. row \in Failure
      BY <2>4, <2>6, NextFailureType
    <2> DEFINE q == [pc |-> "upsert", name |-> p.name, source |-> p.source, row |-> row]
    <2>8. q \in Thread /\ Goto(t, q) /\ x = <<q.name, q.source>>
      BY <2>1, <2>3, <2>4, <2>7 DEF Thread
    <2>9. x \notin overlapped => RowFits(row, now)
      <3> SUFFICES ASSUME x \notin overlapped PROVE RowFits(row, now)
        OBVIOUS
      <3>1. old.first <= p.since /\ Over(old, p.since) /\ RowFits(old, now)
        BY <1>3, <2>1, <2>2 DEF LoginFits
      <3>2. RowFits(old, p.since)
        BY <3>1 DEF RowFits
      <3>3. RowFits(old, stamp) /\ Over(old, stamp)
        BY <2>1, <2>5, <2>6, <3>1, <3>2, Later
      <3> QED
        BY <1>1, <2>4, <2>5, <2>6, <3>3, NextFailureFits
    <2>10. \/ x \in overlapped'
           \/ /\ Handling(x) \subseteq {t}
              /\ RowFits(failures'[x], now) /\ LoginFits(q, failures'[x], now)
      BY <1>3, <2>1, <2>9 DEF LoginFits
    <2> HIDE DEF q
    <2> QED
      BY <1>3, <2>1, <2>8, <2>10, LimiterStep
  <1>7. CASE WriteFailure(t)
    <2>1. /\ p.pc = "upsert" /\ now' = now /\ overlapped' = overlapped
          /\ failures' = [failures EXCEPT ![x] = p.row] /\ Goto(t, Idle)
      BY <1>7 DEF WriteFailure
    <2>2. failures'[x] = p.row
          /\ \A y \in Names \X Sources : y # x => failures'[y] = failures[y]
      BY <1>1, <1>3, <2>1 DEF AccountsTypeOK
    <2>3. \/ x \in overlapped'
          \/ /\ Handling(x) \subseteq {t}
             /\ RowFits(failures'[x], now) /\ LoginFits(Idle, failures'[x], now)
      BY <1>2, <1>3, <2>1, <2>2 DEF LoginFits
    <2> QED
      BY <1>2, <1>3, <2>1, <2>2, <2>3, LimiterStep
  <1>8. CASE ClearFailures(t)
    <2>1. /\ p.pc = "clear" /\ now' = now /\ overlapped' = overlapped
          /\ failures' = [failures EXCEPT ![x] = NoFailure]
          /\ p.password \in Passwords /\ p.user \in Ids
      BY <1>1, <1>8, ThreadFields DEF ClearFailures
    <2>2. PICK q : q = [pc |-> "session", password |-> p.password, user |-> p.user]
      OBVIOUS
    <2>3. q \in Thread /\ Goto(t, q) /\ q.pc = "session"
      BY <1>8, <2>1, <2>2 DEF Thread, ClearFailures
    <2>4. failures'[x] = NoFailure
          /\ \A y \in Names \X Sources : y # x => failures'[y] = failures[y]
      BY <1>1, <1>3, <2>1 DEF AccountsTypeOK
    <2>5. RowFits(NoFailure, now)
      BY <1>1, <1>2, AccountBounds DEF RowFits, NoFailure
    <2>6. \/ x \in overlapped'
          \/ /\ Handling(x) \subseteq {t}
             /\ RowFits(failures'[x], now) /\ LoginFits(q, failures'[x], now)
      BY <1>3, <2>1, <2>3, <2>4, <2>5 DEF LoginFits
    <2> QED
      BY <1>3, <2>1, <2>3, <2>4, <2>6, LimiterStep
  <1>9. CASE IssueSession(t)
    <2>1. failures' = failures /\ now' = now /\ overlapped' = overlapped /\ Goto(t, Idle)
      BY <1>9 DEF IssueSession
    <2>2. \A s \in Threads : threads'[s] = threads[s] \/ threads'[s].pc = "idle"
      BY <1>1, <1>2, <2>1, GotoType
    <2>3. now <= now'
      BY <1>1, <1>2, <2>1
    <2> QED
      BY <2>1, <2>2, <2>3, LimiterRests
  <1> QED
    BY <1>4, <1>5, <1>6, <1>7, <1>8, <1>9 DEF DeveloperLogin

(* The steps of no client. *)
LEMMA LimiterKeepsRest ==
    ASSUME LimiterInv, AccountsTypeOK',
           \/ \E k \in SessionIds : Logout(k)
           \/ \E i \in Ids : RevokeUserSessions(i)
           \/ \E i \in Ids, c \in Changes : UpdateDeveloper(i, c)
           \/ Clock \/ ControlCrash \/ UNCHANGED accountVars
    PROVE  LimiterInv'
  <1>1. now \in Int /\ Idle.pc = "idle"
    BY AccountBounds DEF LimiterInv, AccountsTypeOK, Idle
  <1>2. CASE Clock
    BY <1>1, <1>2, LimiterRests DEF Clock
  <1>3. CASE ControlCrash
    <2>1. UNCHANGED <<failures, overlapped>> /\ now' = now
          /\ \A t \in Threads : threads'[t].pc = "idle"
      BY <1>1, <1>3 DEF ControlCrash
    <2> QED
      BY <1>1, <2>1, LimiterRests
  <1>4. CASE ~Clock /\ ~ControlCrash
    <2>1. UNCHANGED <<failures, overlapped, now, threads>>
      BY <1>4 DEF Logout, RevokeUserSessions, UpdateDeveloper, accountVars
    <2> QED
      BY <1>1, <2>1, LimiterRests
  <1> QED
    BY <1>2, <1>3, <1>4

(* The row of a user name and address never counts past the threshold if    *)
(* its logins never overlap, whatever other threads do.  A failure is       *)
(* counted only after enforce_login_limit found no block, or one that is    *)
(* over; the window of the row is over by then, and the count starts again. *)
(* Two threads with one row may count past it: record_login_failure then    *)
(* counts in a row whose block began after its thread had passed the gate.  *)
THEOREM LoginsAreStopped == AccountsSpec => []CounterStopsAtThreshold
  <1>1. LimiterInv /\ AccountsTypeOK' /\ [AccountsNext]_accountVars => LimiterInv'
    BY LimiterKeepsLogin, LimiterKeepsRest, Zenon DEF AccountsNext
  <1>2. AccountsInv => AccountsTypeOK
    BY DEF AccountsInv
  <1>3. LimiterInv => CounterStopsAtThreshold
    BY DEF LimiterInv, RowFits, CounterStopsAtThreshold, Rows
  <1> QED
    BY <1>1, <1>2, <1>3, LimiterInit, InvHolds, PTL DEF AccountsSpec
=============================================================================

------------------------------ MODULE Accounts ------------------------------
(***************************************************************************)
(* Developer accounts, browser sessions and the login limiter of the       *)
(* control plane: the tables users, sessions and login_failures and the    *)
(* handlers of src/remote_dev/app.py.                                      *)
(*                                                                         *)
(* Every database call of a handler is a transaction of its own, and       *)
(* record_login_failure reads before its write transaction opens: a login  *)
(* is up to five steps on a pool of threads.  update_developer and         *)
(* revoke_user_sessions write in one transaction what depends only on      *)
(* values that never change, and are one step each.                        *)
(*                                                                         *)
(* The accounts are there from the start: serve always runs in managed     *)
(* mode, where create_user answers 403 before it does anything, and        *)
(* bootstrap-instance.sh makes accounts while the control plane is stopped *)
(* (BackupRestore).                                                        *)
(***************************************************************************)
EXTENDS Integers, FiniteSets, FiniteSetsExt

CONSTANTS
    Threads,      \* threads of the HTTP pool
    Names,        \* user names
    Sources,      \* client addresses
    Passwords,
    None,         \* SQL NULL
    MaxIds,       \* bound: developer accounts
    MaxSessions,  \* bound: rows of the sessions table
    MaxNow,       \* bound: readings of the clock, in half seconds
    MaxUpdates,   \* bound: calls of update_developer
    MaxCrashes,   \* bound: crashes of the control plane
    Threshold,    \* failures that start a block (5)
    Window        \* the 15 minutes of a counting window and of a block

Ids == 1..MaxIds
SessionIds == 1..MaxSessions
Times == 0..MaxNow

ASSUME AccountBounds ==
    /\ MaxIds \in Nat /\ MaxSessions \in Nat /\ MaxNow \in Nat
    /\ MaxUpdates \in Nat /\ MaxCrashes \in Nat
    /\ Threshold \in Nat \ {0} /\ Window \in Nat \ {0}
ASSUME AccountSets ==
    /\ IsFiniteSet(Threads) /\ Threads # {}
    /\ None \notin Names \cup Passwords \cup {"active", "disabled"} /\ None \notin Nat

VARIABLES
    users,      \* the developers in the users table, by public id
    sessions,   \* the sessions table
    failures,   \* the login_failures table, rows of scope developer
    now,        \* utcnow()
    threads,    \* what each thread knows before its next call
    updates,    \* calls of update_developer so far
    crashes,    \* crashes so far
    overlapped  \* history: rows of login_failures two threads worked for at once

accountVars == <<users, sessions, failures, now, threads, updates, crashes, overlapped>>

NoSession == [user |-> None, password |-> None]
NoFailure == [count |-> 0, first |-> 0, until |-> None]
Idle == [pc |-> "idle"]

User == [name : Names, password : Passwords, status : {"active", "disabled"}]
\* password is the one the login verified; the table does not store it
Session == [user : Ids, password : Passwords]
Failure == [count : Nat \ {0}, first : Times, until : Nat \cup {None}]
Thread ==
    {Idle}
    \cup [pc : {"verify"}, name : Names, source : Sources, password : Passwords]
    \cup [pc : {"fail"}, name : Names, source : Sources, since : Times]
    \cup [pc : {"upsert"}, name : Names, source : Sources, row : Failure]
    \cup [pc : {"clear"}, name : Names, source : Sources, password : Passwords, user : Ids]
    \cup [pc : {"session"}, password : Passwords, user : Ids]

(* username is UNIQUE. *)
NamesUnique(u) == \A i, j \in Ids : u[i].name = u[j].name => i = j

AccountsInit ==
    /\ users \in {u \in [Ids -> User] : NamesUnique(u) /\ \A i \in Ids : u[i].status = "active"}
    /\ sessions = [k \in SessionIds |-> NoSession]
    /\ failures = [x \in Names \X Sources |-> NoFailure]
    /\ now = 0
    /\ threads = [t \in Threads |-> Idle]
    /\ updates = 0
    /\ crashes = 0
    /\ overlapped = {}

Goto(t, state) == threads' = [threads EXCEPT ![t] = state]

Named(n) == {i \in Ids : users[i].name = n}

-----------------------------------------------------------------------------
(* The login limiter.                                                      *)

(* login_retry_after for a block with `remaining' half seconds to go: int()*)
(* rounds towards zero, and any fraction, of a negative number too, adds 1.*)
RetryAfter(remaining) ==
    LET whole == IF remaining >= 0 THEN remaining \div 2 ELSE -((-remaining) \div 2)
    IN  Max({0, whole + (remaining % 2)})

Refused(n, s) ==
    /\ failures[<<n, s>>].until # None
    /\ RetryAfter(failures[<<n, s>>].until - now) # 0

(* Mutant of NextFailure: > for >= in the test of the window. *)
NextFailureLateReset(old, t) ==
    LET fresh == old = NoFailure \/ t - old.first > Window
        count == IF fresh THEN 1 ELSE old.count + 1
    IN  [count |-> count,
         first |-> IF fresh THEN t ELSE old.first,
         until |-> IF count >= Threshold THEN t + Window ELSE None]

(* The row that record_login_failure writes at time t over row `old'. *)
NextFailure(old, t) ==
    LET fresh == old = NoFailure \/ t - old.first >= Window
        count == IF fresh THEN 1 ELSE old.count + 1
    IN  [count |-> count,
         first |-> IF fresh THEN t ELSE old.first,
         until |-> IF count >= Threshold THEN t + Window ELSE None]

(* Threads between the gate and their last write to row x. *)
Handling(x) ==
    {t \in Threads : /\ threads[t].pc \in {"verify", "fail", "upsert", "clear"}
                     /\ x = <<threads[t].name, threads[t].source>>}

(* enforce_login_limit; a refused login is answered 429 and changes nothing. *)
LoginGate(t, n, s, p) ==
    /\ threads[t].pc = "idle"
    /\ ~Refused(n, s)
    /\ Goto(t, [pc |-> "verify", name |-> n, source |-> s, password |-> p])
    /\ overlapped' = overlapped \cup {x \in {<<n, s>>} : Handling(x) # {}}
    /\ UNCHANGED <<users, sessions, failures, now, updates, crashes>>

(* get_user_by_username and verify_password. *)
Verify(t) ==
    LET q == threads[t]
        found == {i \in Named(q.name) : /\ users[i].status = "active"
                                        /\ users[i].password = q.password}
    IN
    /\ q.pc = "verify"
    /\ \/ /\ found = {}
          /\ Goto(t, [pc |-> "fail", name |-> q.name, source |-> q.source, since |-> now])
       \/ \E i \in found :
            Goto(t, [pc |-> "clear", name |-> q.name, source |-> q.source,
                     password |-> q.password, user |-> i])
    /\ UNCHANGED <<users, sessions, failures, now, updates, crashes, overlapped>>

(* record_login_failure up to its SELECT; the clock was read before it. *)
ReadFailure(t) ==
    LET q == threads[t] IN
    /\ q.pc = "fail"
    /\ \E stamp \in q.since..now :
         Goto(t, [pc |-> "upsert", name |-> q.name, source |-> q.source,
                  row |-> NextFailure(failures[<<q.name, q.source>>], stamp)])
    /\ UNCHANGED <<users, sessions, failures, now, updates, crashes, overlapped>>

(* Its upsert, whatever the row has become. *)
WriteFailure(t) ==
    LET q == threads[t] IN
    /\ q.pc = "upsert"
    /\ failures' = [failures EXCEPT ![<<q.name, q.source>>] = q.row]
    /\ Goto(t, Idle)
    /\ UNCHANGED <<users, sessions, now, updates, crashes, overlapped>>

ClearFailures(t) ==
    LET q == threads[t] IN
    /\ q.pc = "clear"
    /\ failures' = [failures EXCEPT ![<<q.name, q.source>>] = NoFailure]
    /\ Goto(t, [pc |-> "session", password |-> q.password, user |-> q.user])
    /\ UNCHANGED <<users, sessions, now, updates, crashes, overlapped>>

-----------------------------------------------------------------------------
(* Sessions.                                                               *)

FreeSessions == {k \in SessionIds : sessions[k] = NoSession}

(* create_session: nothing is read again. *)
IssueSession(t) ==
    /\ threads[t].pc = "session"
    /\ FreeSessions # {}
    /\ sessions' = [sessions EXCEPT ![Min(FreeSessions)] =
                      [user |-> threads[t].user, password |-> threads[t].password]]
    /\ Goto(t, Idle)
    /\ UNCHANGED <<users, failures, now, updates, crashes, overlapped>>

(* get_session_user accepts the cookie of session k. *)
Accepted(k) == sessions[k] # NoSession /\ users[sessions[k].user].status = "active"

Logout(k) ==
    /\ Accepted(k)
    /\ sessions' = [sessions EXCEPT ![k] = NoSession]
    /\ UNCHANGED <<users, failures, now, threads, updates, crashes, overlapped>>

WithoutSessionsOf(i) ==
    [k \in SessionIds |-> IF sessions[k].user = i THEN NoSession ELSE sessions[k]]

RevokeUserSessions(i) ==
    /\ sessions' = WithoutSessionsOf(i)
    /\ UNCHANGED <<users, failures, now, threads, updates, crashes, overlapped>>

(* The fields of a PATCH, None where one is left out. *)
Changes ==
    [name : Names \cup {None}, status : {"active", "disabled", None},
     password : Passwords \cup {None}] \ {[name |-> None, status |-> None, password |-> None]}

(* Mutant of Updated: without exclude_none. *)
UpdatedWithNulls(row, c) == c

(* exclude_none: only the fields supplied are written. *)
Updated(row, c) ==
    [f \in DOMAIN row |-> IF c[f] = None THEN row[f] ELSE c[f]]

(* Mutant of UpdateDeveloper: a new password keeps the sessions. *)
UpdateDeveloperKeepsSessions(i, c) ==
    /\ updates < MaxUpdates
    /\ c.name # None => Named(c.name) \subseteq {i}
    /\ users' = [users EXCEPT ![i] = Updated(@, c)]
    /\ sessions' = IF c.status = "disabled" THEN WithoutSessionsOf(i) ELSE sessions
    /\ updates' = updates + 1
    /\ UNCHANGED <<failures, now, threads, crashes, overlapped>>

(* A name in use fails the UNIQUE constraint and rolls everything back. *)
UpdateDeveloper(i, c) ==
    /\ updates < MaxUpdates
    /\ c.name # None => Named(c.name) \subseteq {i}
    /\ users' = [users EXCEPT ![i] = Updated(@, c)]
    /\ sessions' = IF c.status = "disabled" \/ c.password # None
                     THEN WithoutSessionsOf(i) ELSE sessions
    /\ updates' = updates + 1
    /\ UNCHANGED <<failures, now, threads, crashes, overlapped>>

-----------------------------------------------------------------------------
Clock ==
    /\ now < MaxNow
    /\ now' = now + 1
    /\ UNCHANGED <<users, sessions, failures, threads, updates, crashes, overlapped>>

(* The control plane dies and is started again: the threads are gone. *)
ControlCrash ==
    /\ crashes < MaxCrashes
    /\ crashes' = crashes + 1
    /\ threads' = [t \in Threads |-> Idle]
    /\ UNCHANGED <<users, sessions, failures, now, updates, overlapped>>

DeveloperLogin(t) ==
    \/ \E n \in Names, s \in Sources, p \in Passwords : LoginGate(t, n, s, p)
    \/ Verify(t)
    \/ ReadFailure(t) \/ WriteFailure(t)
    \/ ClearFailures(t) \/ IssueSession(t)

AccountsNext ==
    \/ \E t \in Threads : DeveloperLogin(t)
    \/ \E k \in SessionIds : Logout(k)
    \/ \E i \in Ids : RevokeUserSessions(i)
    \/ \E i \in Ids, c \in Changes : UpdateDeveloper(i, c)
    \/ Clock
    \/ ControlCrash

AccountsSpec == AccountsInit /\ [][AccountsNext]_accountVars

-----------------------------------------------------------------------------
(* Properties.                                                             *)

(* Every table and every thread holds values of its type, and a change of  *)
(* names keeps them apart.                                                 *)
AccountsTypeOK ==
    /\ users \in [Ids -> User] /\ NamesUnique(users)
    /\ sessions \in [SessionIds -> Session \cup {NoSession}]
    /\ failures \in [Names \X Sources -> Failure \cup {NoFailure}]
    /\ now \in Times
    /\ threads \in [Threads -> Thread]
    /\ updates \in 0..MaxUpdates
    /\ crashes \in 0..MaxCrashes
    /\ overlapped \subseteq Names \X Sources

(* Sessions that update_developer meant to end. *)
StaleSessions ==
    {k \in SessionIds :
        /\ sessions[k] # NoSession
        /\ LET u == users[sessions[k].user] IN
           u.status = "disabled" \/ u.password # sessions[k].password}

(* A session opened with a password that was replaced, or of an account    *)
(* that was disabled, survives only where a login had verified the         *)
(* password before the update and inserted its session after it: at most   *)
(* one per thread for each update.                                         *)
StaleSessionsOnlyByRaces ==
    Cardinality(StaleSessions) <= Cardinality(Threads) * updates

(* The counting window and the block fit together so that the counter of a *)
(* user name and address stops at the threshold: when a block is over its  *)
(* window is over too, and the next failure starts again at one instead of *)
(* renewing the block.  Logins under way for other names or addresses do   *)
(* not matter; two threads with one row may count past it, since each      *)
(* passed the gate before the other's failure was written.                 *)
CounterStopsAtThreshold ==
    \A x \in (Names \X Sources) \ overlapped : failures[x].count <= Threshold
=============================================================================

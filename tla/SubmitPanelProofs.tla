-------------------------- MODULE SubmitPanelProofs -------------------------
(***************************************************************************)
(* Proofs about SubmitPanel: what the message handler and the page keep    *)
(* between them, for any number of clicks, jobs, polls and messages that   *)
(* the page is behind.                                                     *)
(***************************************************************************)
EXTENDS SubmitPanel, FiniteSetTheorems, SequenceTheorems, TLAPS

-----------------------------------------------------------------------------
(* The inductive invariant.                                                *)

HasJob == {"posted", "poll", "get"}
Polling == {"poll", "get"}
Over == {"idle", "done", "failed"}

(* What an invocation awaits says which handler it is; one that has its    *)
(* answer has a job.                                                       *)
CallFits(c) ==
    /\ c \in Submits => ~At(c, "cancel")
    /\ c \in Cancels => calls[c].at \in {"idle", "cancel", "done", "failed"}
    /\ At(c, "get") => calls[c].polls < MaxPolls
    /\ calls[c].at \in HasJob => calls[c].job \in Jobs /\ phase[calls[c].job] # "absent"
    /\ At(c, "cancel") => calls[c].job \in Jobs

CallsFit ==
    /\ \A c \in Calls : CallFits(c)
    /\ (\E j \in Jobs : phase[j] # "absent") => \E c \in Submits : ~At(c, "idle")

(* A job that is shown, or will be shown, as closed is closed. *)
ClosedIsClosed ==
    /\ \A n \in 1..Len(inbox) :
         inbox[n].type = "result" /\ inbox[n].phase = "closed" => phase[inbox[n].job] = "closed"
    /\ view.phase = "closed" => view.shown # NoJob /\ phase[view.shown] = "closed"

(* The last result that view v shows, or will show after the messages of   *)
(* box, is that of a closed job.                                           *)
LastIsClosed(box, v) ==
    \/ /\ v.phase = "closed"
       /\ \A n \in 1..Len(box) : box[n].type = "busy"
    \/ \E n \in 1..Len(box) :
         /\ box[n].type = "result" /\ box[n].phase = "closed"
         /\ \A m \in 1..Len(box) : m > n => box[m].type = "busy"

(* No submission is under way and none failed. *)
AllIsOver ==
    /\ Live = {} /\ \E c \in Submits : At(c, "done")
    /\ \A c \in Submits : ~At(c, "failed")

ResultsFit == AllIsOver => LastIsClosed(inbox, view)

(* The messages for the buttons: the handler is busy, or with job j, and   *)
(* the page may be used again.                                             *)
Announces(j) == Busy(TRUE, j)
Enables == Busy(FALSE, NoJob)

(* The page with view v has still to handle the first k of what announces  *)
(* job j: that the handler is busy, and with which job.                    *)
Behind(box, v, k, j) ==
    \/ k = 0 /\ v.busy /\ v.active = j
    \/ k = 1 /\ v.busy /\ box[1] = Announces(j)
    \/ k = 2 /\ ~v.busy /\ box[1] = Announces(NoJob) /\ box[2] = Announces(j)

(* Up to message last the box announces job j and shows it. *)
Streams(box, v, j, last) ==
    \E k \in {0, 1, 2} :
        /\ k <= last /\ Behind(box, v, k, j)
        /\ \A n \in 1..Len(box) : n > k /\ n <= last => box[n].type = "result"

(* What the page knows and is about to be told of an invocation. *)
Follows(box, v, call) ==
    /\ call.at = "read" => Len(box) = 0 /\ ~v.busy
    /\ call.at \in {"post", "posted"} =>
         \/ Len(box) = 0 /\ v.busy
         \/ Len(box) = 1 /\ box[1] = Announces(NoJob) /\ ~v.busy
    /\ call.at \in Polling => Streams(box, v, call.job, Len(box))

(* With no submission under way the page is enabled, or will be. *)
Rests(box, v) ==
    \/ Len(box) = 0 /\ ~v.busy
    \/ /\ Len(box) # 0 /\ box[Len(box)] = Enables
       /\ \E j \in Jobs : Streams(box, v, j, Len(box) - 1)

Orderly ==
    /\ \A c, d \in Live : c = d
    /\ \A c \in Live : Follows(inbox, view, calls[c])
    /\ Live = {} => Rests(inbox, view)

PanelInv ==
    /\ PanelTypeOK /\ CallsFit /\ ClosedIsClosed /\ ResultsFit
    /\ Undisturbed => Orderly

-----------------------------------------------------------------------------
(* Lemmas about calls, messages and the two of them.                       *)

LEMMA CallNames ==
    /\ Submits \subseteq Calls /\ Cancels \subseteq Calls
    /\ \A c \in Cancels : c \notin Submits
    /\ \A c \in Calls : c \in Submits \/ c \in Cancels
    /\ Submits \subseteq Int /\ Jobs \subseteq Int /\ NoJob \notin Jobs
  BY PanelAssumption DEF Calls, Submits, Cancels, Jobs, NoJob

LEMMA MessageFields ==
    /\ \A j \in Jobs \cup {NoJob} :
         /\ Announces(j) \in Messages /\ Announces(j).type = "busy"
         /\ Announces(j).value = TRUE /\ Announces(j).job = j
    /\ Enables \in Messages /\ Enables.type = "busy"
    /\ Enables.value = FALSE /\ Enables.job = NoJob
    /\ \A m \in Messages :
         \/ m.type = "busy" /\ m.value \in BOOLEAN /\ m.job \in Jobs \cup {NoJob}
         \/ m.type = "result" /\ m.job \in Jobs /\ m.phase \in {"queued", "active", "closed"}
  BY DEF Messages, Busy, Announces, Enables

LEMMA Facts ==
    ASSUME PanelTypeOK
    PROVE  /\ phase \in [Jobs -> {"absent", "queued", "active", "closed"}]
           /\ handed \subseteq Jobs
           /\ calls \in [Calls -> Call]
           /\ inbox \in Seq(Messages) /\ Len(inbox) \in Nat /\ Len(inbox) <= MaxLag
           /\ \A n \in 1..Len(inbox) : inbox[n] \in Messages
           /\ view \in [busy : BOOLEAN, active : Jobs \cup {NoJob}, shown : Jobs \cup {NoJob},
                        phase : {"queued", "active", "closed"}]
           /\ visible \in BOOLEAN /\ doubled \in BOOLEAN
  BY DEF PanelTypeOK, Lifecycle!TypeOK

LEMMA PostOne ==
    ASSUME inbox \in Seq(Messages), NEW m \in Messages, Posted(<<m>>)
    PROVE  /\ inbox' \in Seq(Messages) /\ Len(inbox') = Len(inbox) + 1 /\ Len(inbox') <= MaxLag
           /\ \A n \in 1..Len(inbox) : inbox'[n] = inbox[n]
           /\ inbox'[Len(inbox) + 1] = m
  BY DEF Posted

LEMMA PostTwo ==
    ASSUME inbox \in Seq(Messages), NEW m1 \in Messages, NEW m2 \in Messages,
           Posted(<<m1, m2>>)
    PROVE  /\ inbox' \in Seq(Messages) /\ Len(inbox') = Len(inbox) + 2 /\ Len(inbox') <= MaxLag
           /\ \A n \in 1..Len(inbox) : inbox'[n] = inbox[n]
           /\ inbox'[Len(inbox) + 1] = m1 /\ inbox'[Len(inbox) + 2] = m2
  BY DEF Posted

(* An invocation goes to its next await. *)
LEMMA GoesFields ==
    ASSUME calls \in [Calls -> Call], NEW c \in Calls,
           NEW w \in {"read", "post", "poll", "get", "done"}, Goes(c, w)
    PROVE  /\ calls' \in [Calls -> Call]
           /\ calls'[c].at = w /\ calls'[c].job = calls[c].job
           /\ calls'[c].polls = calls[c].polls
           /\ \A d \in Calls : d # c => calls'[d] = calls[d]
  BY DEF Goes, Call

(* An invocation ends. *)
LEMMA EndsFields ==
    ASSUME calls \in [Calls -> Call], NEW c \in Calls, NEW how \in {"done", "failed"},
           Ends(c, how)
    PROVE  /\ calls' \in [Calls -> Call]
           /\ calls'[c].at = how /\ calls'[c].job = calls[c].job
           /\ \A d \in Calls : d # c => calls'[d] = calls[d]
  <1>1. PICK r : r = [calls[c] EXCEPT !.at = how, !.polls = 0]
    OBVIOUS
  <1>2. r \in Call /\ r.at = how /\ r.job = calls[c].job
    <2>1. 0 \in 0..MaxPolls
      BY PanelAssumption
    <2> QED
      BY <1>1, <2>1 DEF Call
  <1>3. calls' = [calls EXCEPT ![c] = r]
    BY <1>1 DEF Ends
  <1> QED
    BY <1>2, <1>3

(* The control plane moves a job, never back to absent and never out of    *)
(* closed.                                                                 *)
LEMMA JobsGoOn ==
    ASSUME Lifecycle!TypeOK, NEW j \in Jobs,
           Lifecycle!Submit(j) \/ Lifecycle!Start(j) \/ Lifecycle!Close(j)
    PROVE  /\ Lifecycle!TypeOK' /\ phase'[j] # "absent"
           /\ \A k \in Jobs : /\ phase[k] # "absent" => phase'[k] # "absent"
                              /\ phase[k] = "closed" => phase'[k] = "closed"
  BY DEF Lifecycle!TypeOK, Lifecycle!Submit, Lifecycle!Start, Lifecycle!Close

(* What is said of the invocations holds after one of them went on. *)
LEMMA OneCallGoesOn ==
    ASSUME CallsFit, NEW c \in Calls, \A d \in Calls : d # c => calls'[d] = calls[d],
           CallFits(c)', ~At(c, "idle")',
           \A j \in Jobs : phase[j] # "absent" => phase'[j] # "absent",
           c \in Submits \/ phase' = phase \/ \E j \in Jobs : phase[j] # "absent"
    PROVE  CallsFit'
  <1>1. ASSUME NEW d \in Calls PROVE CallFits(d)'
    BY <1>1 DEF CallsFit, CallFits, At, HasJob
  <1>2. ASSUME \E j \in Jobs : phase'[j] # "absent" PROVE \E d \in Submits : ~At(d, "idle")'
    <2>1. CASE c \in Submits
      BY <2>1
    <2>2. CASE \E j \in Jobs : phase[j] # "absent"
      <3>1. PICK d \in Submits : ~At(d, "idle")
        BY <2>2 DEF CallsFit
      <3> QED
        BY <3>1, CallNames DEF At
    <2> QED
      BY <1>2, <2>1, <2>2
  <1> QED
    BY <1>1, <1>2 DEF CallsFit

(* Nothing that was said of the calls, the jobs and the page is undone.    *)
LEMMA UndisturbedBefore ==
    ASSUME Undisturbed', doubled => doubled',
           \A c \in Calls : At(c, "failed") => At(c, "failed")'
    PROVE  Undisturbed
  BY DEF Undisturbed

(* The jobs go on, and a message that shows none as closed is added. *)
LEMMA ClosedStays ==
    ASSUME PanelTypeOK, ClosedIsClosed, view' = view,
           \A k \in Jobs : phase[k] = "closed" => phase'[k] = "closed",
           \/ inbox' = inbox
           \/ /\ Len(inbox') = Len(inbox) + 1
              /\ \A n \in 1..Len(inbox) : inbox'[n] = inbox[n]
              /\ inbox'[Len(inbox) + 1].type = "busy"
    PROVE  ClosedIsClosed'
  <1>1. ASSUME NEW n \in 1..Len(inbox'), inbox'[n].type = "result", inbox'[n].phase = "closed"
        PROVE  phase'[inbox'[n].job] = "closed"
    <2>1. n \in 1..Len(inbox) /\ inbox'[n] = inbox[n]
      BY <1>1, Facts
    <2>2. inbox[n] \in Messages
      BY <2>1, Facts
    <2>3. inbox[n].job \in Jobs
      BY <1>1, <2>1, <2>2, MessageFields
    <2>4. phase[inbox[n].job] = "closed"
      BY <1>1, <2>1 DEF ClosedIsClosed
    <2> QED
      BY <2>1, <2>3, <2>4
  <1>2. ASSUME view'.phase = "closed"
        PROVE  view'.shown # NoJob /\ phase'[view'.shown] = "closed"
    <2>1. view.shown # NoJob /\ phase[view.shown] = "closed" /\ view.shown \in Jobs \cup {NoJob}
      BY <1>2, Facts DEF ClosedIsClosed
    <2> QED
      BY <2>1
  <1> QED
    BY <1>1, <1>2 DEF ClosedIsClosed

(* A message for the buttons is added after the last result. *)
LEMMA LastStays ==
    ASSUME NEW v, NEW box \in Seq(Messages), NEW more \in Seq(Messages),
           Len(more) = Len(box) + 1, \A n \in 1..Len(box) : more[n] = box[n],
           more[Len(box) + 1].type = "busy", LastIsClosed(box, v)
    PROVE  LastIsClosed(more, v)
  <1>1. \A n \in 1..Len(more) : n \in 1..Len(box) \/ n = Len(box) + 1
    OBVIOUS
  <1>2. CASE v.phase = "closed" /\ \A n \in 1..Len(box) : box[n].type = "busy"
    BY <1>1, <1>2 DEF LastIsClosed
  <1>3. ASSUME NEW n \in 1..Len(box), box[n].type = "result", box[n].phase = "closed",
               \A m \in 1..Len(box) : m > n => box[m].type = "busy"
        PROVE  LastIsClosed(more, v)
    <2>1. n \in 1..Len(more) /\ more[n] = box[n]
      OBVIOUS
    <2>2. \A m \in 1..Len(more) : m > n => more[m].type = "busy"
      BY <1>1, <1>3
    <2> QED
      BY <1>3, <2>1, <2>2 DEF LastIsClosed
  <1> QED
    BY <1>2, <1>3 DEF LastIsClosed

(* The last answer of a job that is closed is added. *)
LEMMA LastArrives ==
    ASSUME NEW v, NEW box \in Seq(Messages), NEW more \in Seq(Messages),
           Len(more) = Len(box) + 2,
           more[Len(box) + 1].type = "result", more[Len(box) + 1].phase = "closed",
           more[Len(box) + 2].type = "busy"
    PROVE  LastIsClosed(more, v)
  <1>1. Len(box) + 1 \in 1..Len(more)
    OBVIOUS
  <1>2. \A m \in 1..Len(more) : m > Len(box) + 1 => m = Len(box) + 2
    OBVIOUS
  <1> QED
    BY <1>1, <1>2 DEF LastIsClosed

(* A stream goes on with one more result, whatever follows it. *)
LEMMA StreamGrows ==
    ASSUME NEW v, NEW j \in Jobs, NEW box \in Seq(Messages), NEW more \in Seq(Messages),
           Len(more) > Len(box), \A n \in 1..Len(box) : more[n] = box[n],
           more[Len(box) + 1].type = "result", Streams(box, v, j, Len(box))
    PROVE  Streams(more, v, j, Len(box) + 1)
  <1>1. PICK k \in {0, 1, 2} :
          /\ k <= Len(box) /\ Behind(box, v, k, j)
          /\ \A n \in 1..Len(box) : n > k /\ n <= Len(box) => box[n].type = "result"
    BY DEF Streams
  <1>2. Behind(more, v, k, j)
    BY <1>1 DEF Behind
  <1>3. \A n \in 1..Len(more) : n > k /\ n <= Len(box) + 1 =>
          n = Len(box) + 1 \/ (n \in 1..Len(box) /\ n > k /\ n <= Len(box))
    OBVIOUS
  <1>4. \A n \in 1..Len(more) : n > k /\ n <= Len(box) + 1 => more[n].type = "result"
    BY <1>1, <1>3
  <1>5. k <= Len(box) + 1
    BY <1>1
  <1> QED
    BY <1>2, <1>4, <1>5 DEF Streams

(* A job is announced to a page that knows, or will know, that the handler *)
(* is busy.                                                                *)
LEMMA StreamBegins ==
    ASSUME NEW v, NEW j \in Jobs, NEW box \in Seq(Messages), NEW more \in Seq(Messages),
           Len(more) = Len(box) + 1, \A n \in 1..Len(box) : more[n] = box[n],
           more[Len(box) + 1] = Announces(j),
           \/ Len(box) = 0 /\ v.busy
           \/ Len(box) = 1 /\ box[1] = Announces(NoJob) /\ ~v.busy
    PROVE  Streams(more, v, j, Len(more))
  <1>1. CASE Len(box) = 0 /\ v.busy
    <2>1. more[1] = Announces(j) /\ Len(more) = 1
      BY <1>1
    <2>2. Behind(more, v, 1, j)
      BY <1>1, <2>1 DEF Behind
    <2>3. \A n \in 1..Len(more) : n > 1 /\ n <= Len(more) => more[n].type = "result"
      BY <2>1
    <2> QED
      BY <2>1, <2>2, <2>3 DEF Streams
  <1>2. CASE Len(box) = 1 /\ box[1] = Announces(NoJob) /\ ~v.busy
    <2>1. more[1] = Announces(NoJob) /\ more[2] = Announces(j) /\ Len(more) = 2
      BY <1>2
    <2>2. Behind(more, v, 2, j)
      BY <1>2, <2>1 DEF Behind
    <2>3. PICK k \in {0, 1, 2} : k = 2
      OBVIOUS
    <2>4. \A n \in 1..Len(more) : ~(n > k /\ n <= Len(more))
      BY <2>1, <2>3
    <2>5. k <= Len(more) /\ Behind(more, v, k, j)
      BY <2>1, <2>2, <2>3
    <2> QED
      BY <2>4, <2>5 DEF Streams
  <1> QED
    BY <1>1, <1>2

(* The page handles the first message of a stream. *)
LEMMA StreamIsShown ==
    ASSUME NEW v, NEW w, NEW j \in Jobs, NEW box \in Seq(Messages), NEW rest \in Seq(Messages),
           NEW last \in Nat, last > 0, last <= Len(box),
           Len(rest) = Len(box) - 1, \A n \in 1..Len(rest) : rest[n] = box[n + 1],
           box[1].type = "busy" => w.busy = box[1].value /\ w.active = box[1].job,
           box[1].type = "result" => w.busy = v.busy /\ w.active = v.active,
           Streams(box, v, j, last)
    PROVE  Streams(rest, w, j, last - 1)
  <1>1. PICK k \in {0, 1, 2} :
          /\ k <= last /\ Behind(box, v, k, j)
          /\ \A n \in 1..Len(box) : n > k /\ n <= last => box[n].type = "result"
    BY DEF Streams
  <1>2. ASSUME NEW n \in 1..Len(rest), n + 1 > k, n + 1 <= last
        PROVE  rest[n].type = "result"
    <2>1. n + 1 \in 1..Len(box)
      OBVIOUS
    <2> QED
      BY <1>1, <1>2, <2>1
  <1>3. CASE k = 0
    <2>1. box[1].type = "result"
      BY <1>1, <1>3
    <2>2. Behind(rest, w, 0, j)
      BY <1>1, <1>3, <2>1 DEF Behind
    <2>3. ASSUME NEW n \in 1..Len(rest), n > 0, n <= last - 1 PROVE rest[n].type = "result"
      <3>1. n + 1 > k /\ n + 1 <= last
        BY <1>3, <2>3
      <3> QED
        BY <1>2, <3>1
    <2> QED
      BY <2>2, <2>3 DEF Streams
  <1>4. CASE k = 1
    <2>1. box[1] = Announces(j) /\ v.busy
      BY <1>1, <1>4 DEF Behind
    <2>2. Behind(rest, w, 0, j)
      BY <2>1, MessageFields DEF Behind
    <2>3. ASSUME NEW n \in 1..Len(rest), n > 0, n <= last - 1 PROVE rest[n].type = "result"
      <3>1. n + 1 > k /\ n + 1 <= last
        BY <1>4, <2>3
      <3> QED
        BY <1>2, <3>1
    <2> QED
      BY <2>2, <2>3 DEF Streams
  <1>5. CASE k = 2
    <2>1. box[1] = Announces(NoJob) /\ box[2] = Announces(j) /\ last >= 2
      BY <1>1, <1>5 DEF Behind
    <2>2. rest[1] = Announces(j)
      BY <2>1
    <2>3. w.busy
      BY <2>1, MessageFields
    <2>4. Behind(rest, w, 1, j)
      BY <2>2, <2>3 DEF Behind
    <2>5. ASSUME NEW n \in 1..Len(rest), n > 1, n <= last - 1 PROVE rest[n].type = "result"
      <3>1. n + 1 > k /\ n + 1 <= last
        BY <1>5, <2>5
      <3> QED
        BY <1>2, <3>1
    <2> QED
      BY <2>1, <2>4, <2>5 DEF Streams
  <1> QED
    BY <1>3, <1>4, <1>5

-----------------------------------------------------------------------------
(* Every step keeps the invariant.                                         *)

LEMMA InitHolds == PanelInit => PanelInv
  <1> SUFFICES ASSUME PanelInit PROVE PanelInv
    OBVIOUS
  <1>1. PanelTypeOK
    <2>1. Lifecycle!TypeOK
      BY DEF PanelInit, Lifecycle!Init, Lifecycle!TypeOK
    <2>2. calls \in [Calls -> Call]
      <3>1. 0 \in 0..MaxPolls
        BY PanelAssumption
      <3>2. [at |-> "idle", job |-> NoJob, polls |-> 0] \in Call
        BY <3>1 DEF Call
      <3> QED
        BY <3>2 DEF PanelInit
    <2>3. inbox \in Seq(Messages) /\ Len(inbox) <= MaxLag
      BY PanelAssumption DEF PanelInit
    <2> QED
      BY <2>1, <2>2, <2>3 DEF PanelInit, PanelTypeOK
  <1>2. \A c \in Calls : At(c, "idle")
    BY DEF PanelInit, At
  <1>3. CallsFit
    BY <1>2, CallNames DEF CallsFit, CallFits, At, HasJob, PanelInit, Lifecycle!Init
  <1>4. ClosedIsClosed
    BY DEF PanelInit, ClosedIsClosed
  <1>5. Live = {} /\ ~\E c \in Submits : At(c, "done")
    BY <1>2, CallNames DEF Live, At
  <1>6. Rests(inbox, view)
    BY DEF PanelInit, Rests
  <1> QED
    BY <1>1, <1>3, <1>4, <1>5, <1>6 DEF PanelInv, ResultsFit, AllIsOver, Orderly

(* A submission that is under way goes on, and the page with it. *)
LEMMA LiveGoesOn ==
    ASSUME PanelInv, NEW c \in Submits, c \in Live, calls'[c].at \notin Over,
           \A d \in Calls : d # c => calls'[d] = calls[d], doubled' = doubled,
           Orderly => Follows(inbox', view', calls'[c])
    PROVE  ResultsFit' /\ (Undisturbed' => Orderly')
  <1>1. c \in Live'
    BY DEF Live, Over
  <1>2. \A d \in Live' : d # c => d \in Live
    BY CallNames DEF Live
  <1>3. ResultsFit'
    BY <1>1 DEF ResultsFit, AllIsOver
  <1>4. ASSUME Undisturbed' PROVE Orderly'
    <2>1. \A d \in Calls : At(d, "failed") => At(d, "failed")'
      BY CallNames DEF At, Live
    <2>2. Orderly
      BY <1>4, <2>1, UndisturbedBefore DEF PanelInv
    <2>3. \A d \in Live' : d = c
      BY <1>2, <2>2 DEF Orderly
    <2> QED
      BY <1>1, <2>2, <2>3 DEF Orderly
  <1> QED
    BY <1>3, <1>4

(* No submission and nothing of the page changes. *)
LEMMA SubmitsStay ==
    ASSUME PanelInv, \A c \in Submits : calls'[c] = calls[c], inbox' = inbox, view' = view,
           doubled => doubled', \A c \in Calls : At(c, "failed") => At(c, "failed")'
    PROVE  ResultsFit' /\ (Undisturbed' => Orderly')
  <1>1. Live' = Live
    BY DEF Live
  <1>2. AllIsOver' => AllIsOver
    BY <1>1 DEF AllIsOver, At
  <1>3. Undisturbed' => Undisturbed
    BY UndisturbedBefore
  <1>4. Orderly => Orderly'
    BY <1>1 DEF Orderly, Live
  <1> QED
    BY <1>2, <1>3, <1>4 DEF PanelInv, ResultsFit

(* Only submissions read, send, poll and get. *)
LEMMA SubmitAt ==
    ASSUME PanelInv, NEW c \in Calls, calls[c].at \in {"read", "post", "posted", "poll", "get"}
    PROVE  c \in Submits /\ c \in Live
  BY CallNames DEF PanelInv, CallsFit, CallFits, Live

LEMMA ShowKeeps ==
    ASSUME PanelInv, Show
    PROVE  PanelInv'
  <1>1. /\ inbox # <<>> /\ view' = Told(Head(inbox)) /\ inbox' = Tail(inbox)
        /\ UNCHANGED <<phase, handed, calls, visible, doubled>>
    BY DEF Show
  <1>2. /\ PanelTypeOK /\ CallsFit /\ ClosedIsClosed /\ ResultsFit
        /\ Undisturbed => Orderly
    BY DEF PanelInv
  <1>3. PICK m : m = inbox[1]
    OBVIOUS
  <1>4. /\ Len(inbox) \in Nat \ {0} /\ Head(inbox) = m /\ m \in Messages
        /\ inbox' \in Seq(Messages) /\ Len(inbox') = Len(inbox) - 1
        /\ \A n \in 1..Len(inbox') : inbox'[n] = inbox[n + 1] /\ n + 1 \in 1..Len(inbox)
    BY <1>1, <1>2, <1>3, Facts
  <1>5. /\ view' \in [busy : BOOLEAN, active : Jobs \cup {NoJob}, shown : Jobs \cup {NoJob},
                      phase : {"queued", "active", "closed"}]
        /\ m.type = "busy" => /\ view'.busy = m.value /\ view'.active = m.job
                              /\ view'.shown = view.shown /\ view'.phase = view.phase
        /\ m.type = "result" => /\ view'.busy = view.busy /\ view'.active = view.active
                                /\ view'.shown = m.job /\ view'.phase = m.phase
    <2>1. view' = IF m.type = "busy" THEN [view EXCEPT !.busy = m.value, !.active = m.job]
                  ELSE [view EXCEPT !.shown = m.job, !.phase = m.phase]
      BY <1>1, <1>4 DEF Told
    <2> QED
      BY <1>2, <1>4, <2>1, Facts, MessageFields
  <1>6. PanelTypeOK'
    <2>1. Len(inbox') <= MaxLag
      BY <1>2, <1>4, Facts, PanelAssumption
    <2> QED
      BY <1>1, <1>2, <1>4, <1>5, <2>1 DEF PanelTypeOK, Lifecycle!TypeOK
  <1>7. CallsFit'
    BY <1>1, <1>2 DEF CallsFit, CallFits, At
  <1>8. ClosedIsClosed'
    <2>1. ASSUME NEW n \in 1..Len(inbox'), inbox'[n].type = "result",
                 inbox'[n].phase = "closed"
          PROVE  phase'[inbox'[n].job] = "closed"
      BY <1>1, <1>2, <1>4, <2>1 DEF ClosedIsClosed
    <2>2. ASSUME view'.phase = "closed"
          PROVE  view'.shown # NoJob /\ phase'[view'.shown] = "closed"
      <3>1. CASE m.type = "busy"
        BY <1>1, <1>2, <1>5, <2>2, <3>1 DEF ClosedIsClosed
      <3>2. CASE m.type = "result"
        <4>1. 1 \in 1..Len(inbox) /\ m.job \in Jobs
          BY <1>4, <3>2, MessageFields
        <4>2. phase[m.job] = "closed"
          BY <1>2, <1>3, <1>5, <2>2, <3>2, <4>1 DEF ClosedIsClosed
        <4> QED
          BY <1>1, <1>5, <3>2, <4>1, <4>2, CallNames
      <3> QED
        BY <1>4, <3>1, <3>2, MessageFields
    <2> QED
      BY <2>1, <2>2 DEF ClosedIsClosed
  <1>9. ResultsFit'
    <2>1. AllIsOver' => AllIsOver
      BY <1>1 DEF AllIsOver, Live, At
    <2>2. ASSUME LastIsClosed(inbox, view) PROVE LastIsClosed(inbox', view')
      <3>1. CASE /\ view.phase = "closed"
                 /\ \A n \in 1..Len(inbox) : inbox[n].type = "busy"
        <4>1. m.type = "busy"
          BY <1>3, <1>4, <3>1
        <4> QED
          BY <1>4, <1>5, <3>1, <4>1 DEF LastIsClosed
      <3>2. ASSUME NEW n \in 1..Len(inbox), inbox[n].type = "result",
                   inbox[n].phase = "closed",
                   \A k \in 1..Len(inbox) : k > n => inbox[k].type = "busy"
            PROVE  LastIsClosed(inbox', view')
        <4>1. CASE n = 1
          <5>1. view'.phase = "closed"
            BY <1>3, <1>5, <3>2, <4>1
          <5>2. \A k \in 1..Len(inbox') : inbox'[k].type = "busy"
            BY <1>4, <3>2, <4>1
          <5> QED
            BY <5>1, <5>2 DEF LastIsClosed
        <4>2. CASE n # 1
          <5>1. n - 1 \in 1..Len(inbox') /\ inbox'[n - 1] = inbox[n]
            BY <1>4, <4>2
          <5>2. \A k \in 1..Len(inbox') : k > n - 1 => inbox'[k].type = "busy"
            BY <1>4, <3>2
          <5> QED
            BY <3>2, <5>1, <5>2 DEF LastIsClosed
        <4> QED
          BY <4>1, <4>2
      <3> QED
        BY <2>2, <3>1, <3>2 DEF LastIsClosed
    <2> QED
      BY <1>2, <2>1, <2>2 DEF ResultsFit
  <1>10. ASSUME Undisturbed' PROVE Orderly'
    <2>1. Orderly /\ Live' = Live
      BY <1>1, <1>2, <1>10 DEF Undisturbed, At, Live
    <2>2. ASSUME NEW j \in Jobs, NEW last \in Nat, last > 0, last <= Len(inbox),
                 Streams(inbox, view, j, last)
          PROVE  Streams(inbox', view', j, last - 1)
      BY <1>2, <1>3, <1>4, <1>5, <2>2, StreamIsShown, Facts
    <2>3. ASSUME NEW c \in Live' PROVE Follows(inbox', view', calls'[c])
      <3>1. calls'[c] = calls[c] /\ Follows(inbox, view, calls[c]) /\ c \in Calls
        BY <1>1, <2>1, <2>3, CallNames DEF Orderly, Live
      <3>2. calls[c].at # "read"
        BY <1>4, <3>1 DEF Follows
      <3>3. CASE calls[c].at \in {"post", "posted"}
        <4>1. Len(inbox) = 1 /\ m = Announces(NoJob)
          BY <1>3, <1>4, <3>1, <3>3 DEF Follows
        <4>2. Len(inbox') = 0 /\ view'.busy
          BY <1>4, <1>5, <4>1, MessageFields
        <4> QED
          BY <3>1, <3>3, <4>2 DEF Follows, Polling
      <3>4. CASE calls[c].at \in Polling
        <4>1. calls[c].job \in Jobs /\ Streams(inbox, view, calls[c].job, Len(inbox))
          BY <1>2, <3>1, <3>4 DEF Follows, CallsFit, CallFits, HasJob, Polling
        <4>2. Streams(inbox', view', calls[c].job, Len(inbox'))
          BY <1>4, <2>2, <4>1
        <4> QED
          BY <3>1, <3>4, <4>2 DEF Follows, Polling
      <3>5. CASE calls[c].at \notin {"read", "post", "posted"} \cup Polling
        BY <3>1, <3>5 DEF Follows
      <3> QED
        BY <3>2, <3>3, <3>4, <3>5
    <2>4. ASSUME Live' = {} PROVE Rests(inbox', view')
      <3>1. /\ inbox[Len(inbox)] = Enables
            /\ \E j \in Jobs : Streams(inbox, view, j, Len(inbox) - 1)
        BY <1>4, <2>1, <2>4 DEF Orderly, Rests
      <3>2. CASE Len(inbox) = 1
        BY <1>3, <1>4, <1>5, <3>1, <3>2, MessageFields DEF Rests
      <3>3. CASE Len(inbox) > 1
        <4>1. PICK j \in Jobs : Streams(inbox, view, j, Len(inbox) - 1)
          BY <3>1
        <4>2. Streams(inbox', view', j, Len(inbox') - 1)
          BY <1>4, <2>2, <3>3, <4>1
        <4>3. Len(inbox') # 0 /\ inbox'[Len(inbox')] = Enables
          BY <1>4, <3>1, <3>3
        <4> QED
          BY <4>2, <4>3 DEF Rests
      <3> QED
        BY <1>4, <3>2, <3>3
    <2> QED
      BY <2>1, <2>3, <2>4 DEF Orderly
  <1> QED
    BY <1>6, <1>7, <1>8, <1>9, <1>10 DEF PanelInv

LEMMA ClickSubmitKeeps ==
    ASSUME PanelInv, NEW c \in Submits, ClickSubmit(c)
    PROVE  PanelInv'
  <1>1. /\ ~view.busy /\ At(c, "idle") /\ Goes(c, "read")
        /\ doubled' = (doubled \/ Unannounced)
        /\ UNCHANGED <<phase, handed, inbox, view, visible>>
    BY CallNames DEF ClickSubmit
  <1>2. /\ PanelTypeOK /\ CallsFit /\ ClosedIsClosed /\ ResultsFit
        /\ Undisturbed => Orderly
    BY DEF PanelInv
  <1>3. /\ calls' \in [Calls -> Call] /\ calls'[c].at = "read"
        /\ \A d \in Calls : d # c => calls'[d] = calls[d]
    BY <1>1, <1>2, Facts, GoesFields, CallNames
  <1>4. PanelTypeOK'
    <2>1. Unannounced \in BOOLEAN
      BY DEF Unannounced
    <2>2. doubled' \in BOOLEAN
      BY <1>1, <1>2, <2>1, Facts
    <2> QED
      BY <1>1, <1>2, <1>3, <2>2 DEF PanelTypeOK, Lifecycle!TypeOK
  <1>5. CallsFit'
    <2>1. CallFits(c)' /\ ~At(c, "idle")'
      BY <1>3, CallNames DEF CallFits, At, HasJob
    <2> QED
      BY <1>1, <1>2, <1>3, <2>1, CallNames, OneCallGoesOn
  <1>6. ClosedIsClosed'
    BY <1>1, <1>2, ClosedStays
  <1>7. c \in Live'
    BY <1>3 DEF Live
  <1>8. ResultsFit'
    BY <1>7 DEF ResultsFit, AllIsOver
  <1>9. ASSUME Undisturbed' PROVE Orderly'
    <2>1. ~Unannounced
      BY <1>1, <1>9 DEF Undisturbed
    <2>2. \A d \in Calls : At(d, "failed") => At(d, "failed")'
      BY <1>1, <1>3 DEF At
    <2>3. Orderly
      BY <1>1, <1>2, <1>9, <2>2, UndisturbedBefore
    <2>4. \A n \in 1..Len(inbox) : inbox[n] # Announces(NoJob)
      <3>1. \A n \in DOMAIN inbox : inbox[n] # Announces(NoJob)
        BY <2>1, Zenon DEF Unannounced, Announces
      <3>2. DOMAIN inbox = 1..Len(inbox)
        BY <1>2, Facts
      <3> QED
        BY <3>1, <3>2
    <2>5. \A j \in Jobs : \A last \in Nat : last <= Len(inbox) => ~Streams(inbox, view, j, last)
      <3> SUFFICES ASSUME NEW j \in Jobs, NEW last \in Nat, last <= Len(inbox),
                          Streams(inbox, view, j, last)
                   PROVE  FALSE
        OBVIOUS
      <3>1. PICK k \in {0, 1, 2} : k <= last /\ Behind(inbox, view, k, j)
        BY DEF Streams
      <3>2. k = 2 /\ inbox[1] = Announces(NoJob)
        BY <1>1, <3>1 DEF Behind
      <3>3. 1 \in 1..Len(inbox)
        BY <1>2, <3>1, <3>2, Facts
      <3> QED
        BY <2>4, <3>2, <3>3
    <2>6. Live = {}
      <3> SUFFICES ASSUME NEW d \in Live PROVE FALSE
        OBVIOUS
      <3>1. Follows(inbox, view, calls[d]) /\ d \in Calls /\ d \in Submits
        BY <2>3, CallNames DEF Orderly, Live
      <3>2. ~At(d, "read")
        BY <2>1, <3>1 DEF Unannounced
      <3>3. calls[d].at \notin {"post", "posted"}
        <4>1. Len(inbox) = 1 => 1 \in 1..Len(inbox)
          OBVIOUS
        <4> QED
          BY <1>1, <2>4, <3>1, <4>1 DEF Follows
      <3>4. calls[d].at \notin Polling
        <4> SUFFICES ASSUME calls[d].at \in Polling PROVE FALSE
          OBVIOUS
        <4>1. calls[d].job \in Jobs
          BY <1>2, <3>1 DEF CallsFit, CallFits, Polling, HasJob
        <4>2. Streams(inbox, view, calls[d].job, Len(inbox))
          BY <3>1 DEF Follows
        <4> QED
          BY <1>2, <2>5, <4>1, <4>2, Facts
      <3>5. ~At(d, "cancel") /\ calls[d] \in Call /\ calls[d].at \notin Over
        BY <1>2, <3>1, Facts DEF CallsFit, CallFits, Live, Over
      <3> QED
        BY <3>2, <3>3, <3>4, <3>5 DEF Call, At, Over, Polling
    <2>7. Rests(inbox, view)
      BY <2>3, <2>6 DEF Orderly
    <2>8. Len(inbox) = 0
      <3> SUFFICES ASSUME Len(inbox) # 0 PROVE FALSE
        OBVIOUS
      <3>1. PICK j \in Jobs : Streams(inbox, view, j, Len(inbox) - 1)
        BY <2>7 DEF Rests
      <3>2. Len(inbox) - 1 \in Nat /\ Len(inbox) - 1 <= Len(inbox)
        BY <1>2, Facts
      <3> QED
        BY <2>5, <3>1, <3>2
    <2>9. \A d \in Live' : d = c
      BY <1>3, <2>6, CallNames DEF Live
    <2>10. Follows(inbox', view', calls'[c])
      BY <1>1, <1>3, <2>8 DEF Follows, Polling
    <2> QED
      BY <1>7, <2>9, <2>10 DEF Orderly
  <1> QED
    BY <1>4, <1>5, <1>6, <1>8, <1>9 DEF PanelInv

LEMMA ClickCancelKeeps ==
    ASSUME PanelInv, NEW c \in Cancels, ClickCancel(c)
    PROVE  PanelInv'
  <1>1. /\ view.active # NoJob /\ At(c, "idle")
        /\ calls' = [calls EXCEPT ![c].at = "cancel", ![c].job = view.active]
        /\ UNCHANGED <<phase, handed, inbox, view, visible, doubled>>
    BY DEF ClickCancel
  <1>2. PanelTypeOK /\ CallsFit /\ ClosedIsClosed
    BY DEF PanelInv
  <1>3. /\ calls' \in [Calls -> Call] /\ calls'[c].at = "cancel" /\ calls'[c].job = view.active
        /\ \A d \in Calls : d # c => calls'[d] = calls[d]
    <2>1. c \in Calls /\ calls[c] \in Call /\ view.active \in Jobs \cup {NoJob}
      BY <1>2, CallNames, Facts
    <2>2. PICK r : r = [calls[c] EXCEPT !.at = "cancel", !.job = view.active]
      OBVIOUS
    <2>3. r \in Call /\ r.at = "cancel" /\ r.job = view.active
      BY <2>1, <2>2 DEF Call
    <2>4. calls' = [calls EXCEPT ![c] = r]
      BY <1>1, <2>2
    <2> QED
      BY <1>2, <2>1, <2>3, <2>4, Facts
  <1>4. PanelTypeOK'
    BY <1>1, <1>2, <1>3 DEF PanelTypeOK, Lifecycle!TypeOK
  <1>5. CallsFit'
    <2>1. CallFits(c)' /\ ~At(c, "idle")'
      BY <1>1, <1>2, <1>3, CallNames, Facts DEF CallFits, At, HasJob
    <2> QED
      BY <1>1, <1>2, <1>3, <2>1, CallNames, OneCallGoesOn
  <1>6. ClosedIsClosed'
    BY <1>1, <1>2, ClosedStays
  <1>7. /\ \A d \in Submits : calls'[d] = calls[d]
        /\ \A d \in Calls : At(d, "failed") => At(d, "failed")'
    BY <1>1, <1>3, CallNames DEF At
  <1>8. ResultsFit' /\ (Undisturbed' => Orderly')
    BY <1>1, <1>7, SubmitsStay
  <1> QED
    BY <1>4, <1>5, <1>6, <1>8 DEF PanelInv

(* The panel is hidden or shown, or nothing happens. *)
LEMMA HideKeeps ==
    ASSUME PanelInv, Hide \/ UNCHANGED panelVars
    PROVE  PanelInv'
  <1>1. UNCHANGED <<phase, handed, calls, inbox, view, doubled>> /\ visible' \in BOOLEAN
    BY Facts DEF Hide, panelVars, PanelInv
  <1>2. PanelTypeOK /\ CallsFit /\ ClosedIsClosed
    BY DEF PanelInv
  <1>3. PanelTypeOK'
    BY <1>1, <1>2 DEF PanelTypeOK, Lifecycle!TypeOK
  <1>4. CallsFit'
    BY <1>1, <1>2 DEF CallsFit, CallFits, At
  <1>5. ClosedIsClosed'
    BY <1>1, <1>2, ClosedStays
  <1>6. ResultsFit' /\ (Undisturbed' => Orderly')
    BY <1>1, SubmitsStay DEF At
  <1> QED
    BY <1>3, <1>4, <1>5, <1>6 DEF PanelInv

(* The queue and the workers move a job. *)
LEMMA JobMovesKeeps ==
    ASSUME PanelInv, NEW j \in Jobs, JobMoves(j)
    PROVE  PanelInv'
  <1>1. /\ Lifecycle!Start(j) \/ Lifecycle!Close(j)
        /\ UNCHANGED <<calls, inbox, view, visible, doubled>>
    BY DEF JobMoves
  <1>2. PanelTypeOK /\ CallsFit /\ ClosedIsClosed
    BY DEF PanelInv
  <1>3. /\ Lifecycle!TypeOK'
        /\ \A k \in Jobs : /\ phase[k] # "absent" => phase'[k] # "absent"
                           /\ phase[k] = "closed" => phase'[k] = "closed"
    BY <1>1, <1>2, JobsGoOn DEF PanelTypeOK
  <1>4. \E k \in Jobs : phase[k] # "absent"
    BY <1>1 DEF Lifecycle!Start, Lifecycle!Close
  <1>5. PanelTypeOK'
    BY <1>1, <1>2, <1>3 DEF PanelTypeOK
  <1>6. CallsFit'
    <2>1. \A c \in Calls : CallFits(c)'
      BY <1>1, <1>2, <1>3 DEF CallsFit, CallFits, At, HasJob
    <2>2. \E c \in Submits : ~At(c, "idle")'
      BY <1>1, <1>2, <1>4 DEF CallsFit, At
    <2> QED
      BY <2>1, <2>2 DEF CallsFit
  <1>7. ClosedIsClosed'
    BY <1>1, <1>2, <1>3, ClosedStays
  <1>8. ResultsFit' /\ (Undisturbed' => Orderly')
    BY <1>1, SubmitsStay DEF At
  <1> QED
    BY <1>5, <1>6, <1>7, <1>8 DEF PanelInv

(* The catch clause of either handler. *)
LEMMA ThrowKeeps ==
    ASSUME PanelInv, NEW c \in Calls, Throw(c), calls[c].at \notin Over,
           UNCHANGED <<phase, handed, view, visible, doubled>>
    PROVE  PanelInv'
  <1>1. PanelTypeOK /\ CallsFit /\ ClosedIsClosed /\ ResultsFit
    BY DEF PanelInv
  <1>2. Enables \in Messages /\ Enables.type = "busy"
    BY MessageFields
  <1>3. /\ inbox' \in Seq(Messages) /\ Len(inbox') = Len(inbox) + 1 /\ Len(inbox') <= MaxLag
        /\ \A n \in 1..Len(inbox) : inbox'[n] = inbox[n]
        /\ inbox'[Len(inbox) + 1].type = "busy"
    BY <1>1, <1>2, Facts, PostOne DEF Throw, Enables
  <1>4. /\ calls' \in [Calls -> Call] /\ calls'[c].at = "failed"
        /\ \A d \in Calls : d # c => calls'[d] = calls[d]
    BY <1>1, Facts, EndsFields DEF Throw
  <1>5. PanelTypeOK'
    BY <1>1, <1>3, <1>4 DEF PanelTypeOK, Lifecycle!TypeOK
  <1>6. CallsFit'
    <2>1. CallFits(c)' /\ ~At(c, "idle")'
      BY <1>4 DEF CallFits, At, HasJob
    <2> QED
      BY <1>1, <1>4, <2>1, OneCallGoesOn
  <1>7. ClosedIsClosed'
    BY <1>1, <1>3, ClosedStays
  <1>8. ResultsFit'
    <2>1. CASE c \in Submits
      BY <1>4, <2>1 DEF ResultsFit, AllIsOver, At
    <2>2. CASE c \notin Submits
      <3>1. \A d \in Submits : calls'[d] = calls[d]
        BY <1>4, <2>2, CallNames
      <3>2. AllIsOver' => AllIsOver
        BY <3>1 DEF AllIsOver, Live, At
      <3>3. LastIsClosed(inbox, view) => LastIsClosed(inbox', view')
        BY <1>1, <1>3, LastStays, Facts
      <3> QED
        BY <1>1, <3>2, <3>3 DEF ResultsFit
    <2> QED
      BY <2>1, <2>2
  <1>9. ~Undisturbed'
    BY <1>4 DEF Undisturbed, At
  <1> QED
    BY <1>5, <1>6, <1>7, <1>8, <1>9 DEF PanelInv

LEMMA FailsKeep ==
    ASSUME PanelInv, NEW c \in Calls, Fails(c)
    PROVE  PanelInv'
  BY ThrowKeeps DEF Fails, Over

LEMMA CancelServedKeeps ==
    ASSUME PanelInv, NEW c \in Calls, CancelServed(c)
    PROVE  PanelInv'
  <1>1. /\ At(c, "cancel") /\ Goes(c, "done")
        /\ \/ phase[calls[c].job] = "queued" /\ Lifecycle!Close(calls[c].job)
           \/ UNCHANGED <<phase, handed>>
        /\ UNCHANGED <<inbox, view, visible, doubled>>
    BY DEF CancelServed
  <1>2. PanelTypeOK /\ CallsFit /\ ClosedIsClosed
    BY DEF PanelInv
  <1>3. /\ calls' \in [Calls -> Call] /\ calls'[c].at = "done"
        /\ \A d \in Calls : d # c => calls'[d] = calls[d]
    BY <1>1, <1>2, Facts, GoesFields
  <1>4. c \notin Submits /\ calls[c].job \in Jobs
    BY <1>1, <1>2 DEF CallsFit, CallFits
  <1>5. /\ Lifecycle!TypeOK'
        /\ \A k \in Jobs : /\ phase[k] # "absent" => phase'[k] # "absent"
                           /\ phase[k] = "closed" => phase'[k] = "closed"
        /\ phase' = phase \/ \E k \in Jobs : phase[k] # "absent"
    <2>1. CASE phase[calls[c].job] = "queued" /\ Lifecycle!Close(calls[c].job)
      BY <1>2, <1>4, <2>1, JobsGoOn DEF PanelTypeOK
    <2>2. CASE UNCHANGED <<phase, handed>>
      BY <1>2, <2>2 DEF PanelTypeOK, Lifecycle!TypeOK
    <2> QED
      BY <1>1, <2>1, <2>2
  <1>6. PanelTypeOK'
    BY <1>1, <1>2, <1>3, <1>5 DEF PanelTypeOK
  <1>7. CallsFit'
    <2>1. CallFits(c)' /\ ~At(c, "idle")'
      BY <1>3, <1>4 DEF CallFits, At, HasJob
    <2> QED
      BY <1>2, <1>3, <1>5, <2>1, OneCallGoesOn
  <1>8. ClosedIsClosed'
    BY <1>1, <1>2, <1>5, ClosedStays
  <1>9. /\ \A d \in Submits : calls'[d] = calls[d]
        /\ \A d \in Calls : At(d, "failed") => At(d, "failed")'
    BY <1>1, <1>3, <1>4, CallNames DEF At
  <1>10. ResultsFit' /\ (Undisturbed' => Orderly')
    BY <1>1, <1>9, SubmitsStay
  <1> QED
    BY <1>6, <1>7, <1>8, <1>10 DEF PanelInv

LEMMA FileReadKeeps ==
    ASSUME PanelInv, NEW c \in Calls, FileRead(c)
    PROVE  PanelInv'
  <1>1. /\ At(c, "read") /\ Goes(c, "post") /\ Posted(<<Announces(NoJob)>>)
        /\ UNCHANGED <<phase, handed, view, visible, doubled>>
    BY DEF FileRead, Announces
  <1>2. PanelTypeOK /\ CallsFit /\ ClosedIsClosed
    BY DEF PanelInv
  <1>3. c \in Submits /\ c \in Live
    BY <1>1, SubmitAt DEF At
  <1>4. Announces(NoJob) \in Messages /\ Announces(NoJob).type = "busy"
    BY MessageFields
  <1>5. /\ inbox' \in Seq(Messages) /\ Len(inbox') = Len(inbox) + 1 /\ Len(inbox') <= MaxLag
        /\ \A n \in 1..Len(inbox) : inbox'[n] = inbox[n]
        /\ inbox'[Len(inbox) + 1] = Announces(NoJob)
    BY <1>1, <1>2, <1>4, Facts, PostOne
  <1>6. /\ calls' \in [Calls -> Call] /\ calls'[c].at = "post"
        /\ \A d \in Calls : d # c => calls'[d] = calls[d]
    BY <1>1, <1>2, Facts, GoesFields
  <1>7. PanelTypeOK'
    BY <1>1, <1>2, <1>5, <1>6 DEF PanelTypeOK, Lifecycle!TypeOK
  <1>8. CallsFit'
    <2>1. CallFits(c)' /\ ~At(c, "idle")'
      BY <1>3, <1>6, CallNames DEF CallFits, At, HasJob
    <2> QED
      BY <1>1, <1>2, <1>3, <1>6, <2>1, OneCallGoesOn
  <1>9. ClosedIsClosed'
    BY <1>1, <1>2, <1>4, <1>5, ClosedStays
  <1>10. Orderly => Follows(inbox', view', calls'[c])
    <2> SUFFICES ASSUME Orderly PROVE Follows(inbox', view', calls'[c])
      OBVIOUS
    <2>1. Len(inbox) = 0 /\ ~view.busy
      BY <1>1, <1>3 DEF Orderly, Follows, At
    <2> QED
      BY <1>1, <1>5, <1>6, <2>1 DEF Follows, Polling
  <1>11. ResultsFit' /\ (Undisturbed' => Orderly')
    BY <1>1, <1>3, <1>6, <1>10, LiveGoesOn DEF Over
  <1> QED
    BY <1>7, <1>8, <1>9, <1>11 DEF PanelInv

LEMMA JobCreatedKeeps ==
    ASSUME PanelInv, NEW c \in Calls, JobCreated(c)
    PROVE  PanelInv'
  <1>1. PICK j \in Jobs : /\ Lifecycle!Submit(j)
                          /\ calls' = [calls EXCEPT ![c].at = "posted", ![c].job = j]
    BY DEF JobCreated
  <1>2. At(c, "post") /\ UNCHANGED <<inbox, view, visible, doubled>>
    BY DEF JobCreated
  <1>3. PanelTypeOK /\ CallsFit /\ ClosedIsClosed
    BY DEF PanelInv
  <1>4. c \in Submits /\ c \in Live
    BY <1>2, SubmitAt DEF At
  <1>5. /\ calls' \in [Calls -> Call] /\ calls'[c].at = "posted" /\ calls'[c].job = j
        /\ \A d \in Calls : d # c => calls'[d] = calls[d]
    <2>1. calls[c] \in Call
      BY <1>3, Facts
    <2>2. PICK r : r = [calls[c] EXCEPT !.at = "posted", !.job = j]
      OBVIOUS
    <2>3. r \in Call /\ r.at = "posted" /\ r.job = j
      BY <2>1, <2>2 DEF Call
    <2>4. calls' = [calls EXCEPT ![c] = r]
      BY <1>1, <2>2
    <2> QED
      BY <1>3, <2>3, <2>4, Facts
  <1>6. /\ Lifecycle!TypeOK' /\ phase'[j] # "absent"
        /\ \A k \in Jobs : /\ phase[k] # "absent" => phase'[k] # "absent"
                           /\ phase[k] = "closed" => phase'[k] = "closed"
    BY <1>1, <1>3, JobsGoOn DEF PanelTypeOK
  <1>7. PanelTypeOK'
    BY <1>2, <1>3, <1>5, <1>6 DEF PanelTypeOK
  <1>8. CallsFit'
    <2>1. CallFits(c)' /\ ~At(c, "idle")'
      BY <1>4, <1>5, <1>6, CallNames DEF CallFits, At, HasJob
    <2> QED
      BY <1>3, <1>4, <1>5, <1>6, <2>1, OneCallGoesOn
  <1>9. ClosedIsClosed'
    BY <1>2, <1>3, <1>6, ClosedStays
  <1>10. Orderly => Follows(inbox', view', calls'[c])
    <2> SUFFICES ASSUME Orderly PROVE Follows(inbox', view', calls'[c])
      OBVIOUS
    <2>1. Follows(inbox, view, calls[c])
      BY <1>4 DEF Orderly
    <2> QED
      BY <1>2, <1>5, <2>1 DEF Follows, Polling, At
  <1>11. ResultsFit' /\ (Undisturbed' => Orderly')
    BY <1>2, <1>4, <1>5, <1>10, LiveGoesOn DEF Over
  <1> QED
    BY <1>7, <1>8, <1>9, <1>11 DEF PanelInv

LEMMA JobAnsweredKeeps ==
    ASSUME PanelInv, NEW c \in Calls, JobAnswered(c)
    PROVE  PanelInv'
  <1>1. /\ At(c, "posted") /\ Goes(c, "poll") /\ Posted(<<Announces(calls[c].job)>>)
        /\ UNCHANGED <<phase, handed, view, visible, doubled>>
    BY DEF JobAnswered, Announces
  <1>2. PanelTypeOK /\ CallsFit /\ ClosedIsClosed
    BY DEF PanelInv
  <1>3. c \in Submits /\ c \in Live
    BY <1>1, SubmitAt DEF At
  <1>4. PICK j \in Jobs : j = calls[c].job /\ phase[j] # "absent"
    BY <1>1, <1>2 DEF CallsFit, CallFits, At, HasJob
  <1>5. Announces(j) \in Messages /\ Announces(j).type = "busy"
    BY MessageFields
  <1>6. /\ inbox' \in Seq(Messages) /\ Len(inbox') = Len(inbox) + 1 /\ Len(inbox') <= MaxLag
        /\ \A n \in 1..Len(inbox) : inbox'[n] = inbox[n]
        /\ inbox'[Len(inbox) + 1] = Announces(j)
    BY <1>1, <1>2, <1>4, <1>5, Facts, PostOne
  <1>7. /\ calls' \in [Calls -> Call] /\ calls'[c].at = "poll" /\ calls'[c].job = j
        /\ \A d \in Calls : d # c => calls'[d] = calls[d]
    BY <1>1, <1>2, <1>4, Facts, GoesFields
  <1>8. PanelTypeOK'
    BY <1>1, <1>2, <1>6, <1>7 DEF PanelTypeOK, Lifecycle!TypeOK
  <1>9. CallsFit'
    <2>1. CallFits(c)' /\ ~At(c, "idle")'
      BY <1>1, <1>3, <1>4, <1>7, CallNames DEF CallFits, At, HasJob
    <2> QED
      BY <1>1, <1>2, <1>3, <1>7, <2>1, OneCallGoesOn
  <1>10. ClosedIsClosed'
    BY <1>1, <1>2, <1>5, <1>6, ClosedStays
  <1>11. Orderly => Follows(inbox', view', calls'[c])
    <2> SUFFICES ASSUME Orderly PROVE Follows(inbox', view', calls'[c])
      OBVIOUS
    <2>1. Follows(inbox, view, calls[c])
      BY <1>3 DEF Orderly
    <2>2. \/ Len(inbox) = 0 /\ view.busy
          \/ Len(inbox) = 1 /\ inbox[1] = Announces(NoJob) /\ ~view.busy
      BY <1>1, <2>1 DEF Follows, At
    <2>3. Streams(inbox', view, j, Len(inbox'))
      BY <1>2, <1>6, <2>2, StreamBegins, Facts
    <2> QED
      BY <1>1, <1>7, <2>3 DEF Follows, Polling
  <1>12. ResultsFit' /\ (Undisturbed' => Orderly')
    BY <1>1, <1>3, <1>7, <1>11, LiveGoesOn DEF Over
  <1> QED
    BY <1>8, <1>9, <1>10, <1>12 DEF PanelInv

LEMMA PollKeeps ==
    ASSUME PanelInv, NEW c \in Calls, Poll(c)
    PROVE  PanelInv'
  <1>1. /\ At(c, "poll") /\ UNCHANGED <<phase, handed, view, visible, doubled>>
        /\ (PollGoesOn(c) /\ Goes(c, "get") /\ UNCHANGED inbox) \/ Throw(c)
    BY DEF Poll
  <1>2. PanelTypeOK /\ CallsFit /\ ClosedIsClosed
    BY DEF PanelInv
  <1>3. CASE Throw(c)
    BY <1>1, <1>3, ThrowKeeps DEF At, Over
  <1>4. CASE PollGoesOn(c) /\ Goes(c, "get") /\ UNCHANGED inbox
    <2>1. c \in Submits /\ c \in Live
      BY <1>1, SubmitAt DEF At
    <2>2. /\ calls' \in [Calls -> Call] /\ calls'[c].at = "get"
          /\ calls'[c].job = calls[c].job /\ calls'[c].polls = calls[c].polls
          /\ \A d \in Calls : d # c => calls'[d] = calls[d]
      BY <1>2, <1>4, Facts, GoesFields
    <2>3. calls[c].job \in Jobs /\ phase[calls[c].job] # "absent"
      BY <1>1, <1>2 DEF CallsFit, CallFits, At, HasJob
    <2>4. PanelTypeOK'
      BY <1>1, <1>2, <1>4, <2>2 DEF PanelTypeOK, Lifecycle!TypeOK
    <2>5. CallsFit'
      <3>1. CallFits(c)' /\ ~At(c, "idle")'
        BY <1>1, <1>4, <2>1, <2>2, <2>3, CallNames DEF CallFits, At, HasJob, PollGoesOn
      <3> QED
        BY <1>1, <1>2, <2>1, <2>2, <3>1, OneCallGoesOn
    <2>6. ClosedIsClosed'
      BY <1>1, <1>2, <1>4, ClosedStays
    <2>7. Orderly => Follows(inbox', view', calls'[c])
      <3> SUFFICES ASSUME Orderly PROVE Follows(inbox', view', calls'[c])
        OBVIOUS
      <3>1. Follows(inbox, view, calls[c])
        BY <2>1 DEF Orderly
      <3> QED
        BY <1>1, <1>4, <2>2, <3>1 DEF Follows, Polling, At
    <2>8. ResultsFit' /\ (Undisturbed' => Orderly')
      BY <1>1, <2>1, <2>2, <2>7, LiveGoesOn DEF Over
    <2> QED
      BY <2>4, <2>5, <2>6, <2>8 DEF PanelInv
  <1> QED
    BY <1>1, <1>3, <1>4

(* The state of the job is shown, and more is polled. *)
LEMMA JobGoesOnKeeps ==
    ASSUME PanelInv, NEW c \in Calls, JobRead(c), phase[calls[c].job] # "closed"
    PROVE  PanelInv'
  <1>1. PanelTypeOK /\ CallsFit /\ ClosedIsClosed
    BY DEF PanelInv
  <1>2. At(c, "get") /\ UNCHANGED <<phase, handed, view, visible, doubled>>
    BY DEF JobRead
  <1>3. /\ c \in Submits /\ c \in Live
        /\ calls[c].job \in Jobs /\ phase[calls[c].job] # "absent"
        /\ calls[c] \in Call /\ calls[c].polls < MaxPolls
    BY <1>1, <1>2, SubmitAt, Facts DEF CallsFit, CallFits, At, HasJob
  <1>4. PICK m : m = Result(calls[c].job)
    OBVIOUS
  <1>5. m \in Messages /\ m.type = "result" /\ m.job = calls[c].job /\ m.phase # "closed"
    <2>1. phase[calls[c].job] \in {"queued", "active", "closed"}
      BY <1>1, <1>3, Facts
    <2> QED
      BY <1>3, <1>4, <2>1 DEF Result, Messages
  <1>6. /\ inbox' \in Seq(Messages) /\ Len(inbox') = Len(inbox) + 1 /\ Len(inbox') <= MaxLag
        /\ \A n \in 1..Len(inbox) : inbox'[n] = inbox[n]
        /\ inbox'[Len(inbox) + 1] = m
    <2>1. Posted(<<m>>)
      BY <1>4 DEF JobRead, Answered, Enables
    <2> QED
      BY <1>1, <1>5, <2>1, Facts, PostOne
  <1>7. /\ calls' \in [Calls -> Call] /\ calls'[c].at = "poll"
        /\ calls'[c].job = calls[c].job
        /\ \A d \in Calls : d # c => calls'[d] = calls[d]
    <2>1. PICK r : r = [calls[c] EXCEPT !.at = "poll", !.polls = calls[c].polls + 1]
      OBVIOUS
    <2>2. calls[c].polls + 1 \in 0..MaxPolls
      BY <1>3, PanelAssumption DEF Call
    <2>3. r \in Call /\ r.at = "poll" /\ r.job = calls[c].job
      BY <1>3, <2>1, <2>2 DEF Call
    <2>4. calls' = [calls EXCEPT ![c] = r]
      BY <2>1 DEF JobRead
    <2> QED
      BY <1>1, <2>3, <2>4, Facts
  <1>8. PanelTypeOK'
    BY <1>1, <1>2, <1>6, <1>7 DEF PanelTypeOK, Lifecycle!TypeOK
  <1>9. CallsFit'
    <2>1. CallFits(c)' /\ ~At(c, "idle")'
      BY <1>2, <1>3, <1>7, CallNames DEF CallFits, At, HasJob
    <2> QED
      BY <1>1, <1>2, <1>3, <1>7, <2>1, OneCallGoesOn
  <1>10. ClosedIsClosed'
    <2>1. \A n \in 1..Len(inbox') : n \in 1..Len(inbox) \/ n = Len(inbox) + 1
      BY <1>1, <1>6, Facts
    <2>2. \A n \in 1..Len(inbox') :
            inbox'[n].type = "result" /\ inbox'[n].phase = "closed"
              => n \in 1..Len(inbox) /\ inbox'[n] = inbox[n]
      BY <1>5, <1>6, <2>1
    <2> QED
      BY <1>1, <1>2, <2>2 DEF ClosedIsClosed
  <1>11. Orderly => Follows(inbox', view', calls'[c])
    <2> SUFFICES ASSUME Orderly PROVE Follows(inbox', view', calls'[c])
      OBVIOUS
    <2>1. Streams(inbox, view, calls[c].job, Len(inbox))
      BY <1>2, <1>3 DEF Orderly, Follows, Polling, At
    <2>2. Streams(inbox', view, calls[c].job, Len(inbox'))
      BY <1>1, <1>3, <1>5, <1>6, <2>1, StreamGrows, Facts
    <2> QED
      BY <1>2, <1>7, <2>2 DEF Follows, Polling
  <1>12. ResultsFit' /\ (Undisturbed' => Orderly')
    BY <1>2, <1>3, <1>7, <1>11, LiveGoesOn DEF Over
  <1> QED
    BY <1>8, <1>9, <1>10, <1>12 DEF PanelInv

(* The result is shown, and the buttons are given back. *)
LEMMA JobIsOverKeeps ==
    ASSUME PanelInv, NEW c \in Calls, JobRead(c), phase[calls[c].job] = "closed"
    PROVE  PanelInv'
  <1>1. /\ PanelTypeOK /\ CallsFit /\ ClosedIsClosed
        /\ Undisturbed => Orderly
    BY DEF PanelInv
  <1>2. At(c, "get") /\ Ends(c, "done") /\ UNCHANGED <<phase, handed, view, visible, doubled>>
    BY DEF JobRead
  <1>3. c \in Submits /\ c \in Live /\ calls[c].job \in Jobs
    BY <1>1, <1>2, SubmitAt DEF CallsFit, CallFits, At, HasJob
  <1>4. PICK m : m = Result(calls[c].job)
    OBVIOUS
  <1>5. PICK b : b = Enables
    OBVIOUS
  <1>6. /\ m \in Messages /\ m.type = "result" /\ m.job = calls[c].job /\ m.phase = "closed"
        /\ b \in Messages /\ b.type = "busy"
    BY <1>3, <1>4, <1>5, MessageFields DEF Result, Messages
  <1>7. /\ inbox' \in Seq(Messages) /\ Len(inbox') = Len(inbox) + 2 /\ Len(inbox') <= MaxLag
        /\ \A n \in 1..Len(inbox) : inbox'[n] = inbox[n]
        /\ inbox'[Len(inbox) + 1] = m /\ inbox'[Len(inbox) + 2] = b
    <2>1. Posted(<<m, b>>)
      BY <1>4, <1>5 DEF JobRead, Answered, Enables
    <2> QED
      BY <1>1, <1>6, <2>1, Facts, PostTwo
  <1>8. /\ calls' \in [Calls -> Call] /\ calls'[c].at = "done"
        /\ \A d \in Calls : d # c => calls'[d] = calls[d]
    BY <1>1, <1>2, Facts, EndsFields
  <1>9. PanelTypeOK'
    BY <1>1, <1>2, <1>7, <1>8 DEF PanelTypeOK, Lifecycle!TypeOK
  <1>10. CallsFit'
    <2>1. CallFits(c)' /\ ~At(c, "idle")'
      BY <1>3, <1>8, CallNames DEF CallFits, At, HasJob
    <2> QED
      BY <1>1, <1>2, <1>3, <1>8, <2>1, OneCallGoesOn
  <1>11. ClosedIsClosed'
    <2>1. \A n \in 1..Len(inbox') :
            n \in 1..Len(inbox) \/ n = Len(inbox) + 1 \/ n = Len(inbox) + 2
      BY <1>1, <1>7, Facts
    <2>2. ASSUME NEW n \in 1..Len(inbox'), inbox'[n].type = "result",
                 inbox'[n].phase = "closed"
          PROVE  phase'[inbox'[n].job] = "closed"
      <3>1. CASE n \in 1..Len(inbox)
        BY <1>1, <1>2, <1>7, <2>2, <3>1 DEF ClosedIsClosed
      <3>2. CASE n = Len(inbox) + 1
        BY <1>2, <1>6, <1>7, <3>2
      <3>3. n # Len(inbox) + 2
        BY <1>6, <1>7, <2>2
      <3> QED
        BY <2>1, <3>1, <3>2, <3>3
    <2> QED
      BY <1>1, <1>2, <2>2 DEF ClosedIsClosed
  <1>12. ResultsFit'
    BY <1>1, <1>6, <1>7, LastArrives, Facts DEF ResultsFit
  <1>13. ASSUME Undisturbed' PROVE Orderly'
    <2>1. \A d \in Calls : At(d, "failed") => At(d, "failed")'
      BY <1>2, <1>8 DEF At
    <2>2. Orderly
      BY <1>1, <1>2, <1>13, <2>1, UndisturbedBefore
    <2>3. Live' = {}
      <3> SUFFICES ASSUME NEW d \in Live' PROVE FALSE
        OBVIOUS
      <3>1. d # c /\ d \in Live
        BY <1>8, CallNames DEF Live
      <3> QED
        BY <1>3, <2>2, <3>1 DEF Orderly
    <2>4. Streams(inbox, view, calls[c].job, Len(inbox))
      BY <1>2, <1>3, <2>2 DEF Orderly, Follows, Polling, At
    <2>5. Streams(inbox', view', calls[c].job, Len(inbox) + 1)
      BY <1>1, <1>2, <1>3, <1>6, <1>7, <2>4, StreamGrows, Facts
    <2>6. Len(inbox) + 1 = Len(inbox') - 1 /\ Len(inbox) + 2 = Len(inbox') /\ Len(inbox') # 0
      BY <1>1, <1>7, Facts
    <2>7. Rests(inbox', view')
      BY <1>3, <1>5, <1>7, <2>5, <2>6 DEF Rests
    <2> QED
      BY <2>3, <2>7 DEF Orderly
  <1> QED
    BY <1>9, <1>10, <1>11, <1>12, <1>13 DEF PanelInv

LEMMA InvHolds == PanelSpec => []PanelInv
  <1>1. PanelInv /\ [PanelNext]_panelVars => PanelInv'
    BY ShowKeeps, ClickSubmitKeeps, ClickCancelKeeps, HideKeeps, FileReadKeeps,
       JobCreatedKeeps, JobAnsweredKeeps, PollKeeps, JobGoesOnKeeps, JobIsOverKeeps,
       CancelServedKeeps, FailsKeep, JobMovesKeeps, Zenon DEF PanelNext, Step
  <1> QED
    BY <1>1, InitHolds, PTL DEF PanelSpec

-----------------------------------------------------------------------------
(* The properties.                                                         *)

LEMMA OneAtMost ==
    ASSUME NEW S, \A c, d \in S : c = d
    PROVE  Cardinality(S) <= 1
  <1>1. CASE S = {}
    BY <1>1, FS_EmptySet
  <1>2. CASE S # {}
    <2>1. PICK c : S = {c}
      BY <1>2
    <2>2. Cardinality({c}) = 1
      BY FS_Singleton
    <2> QED
      BY <2>1, <2>2
  <1> QED
    BY <1>1, <1>2

(* The page keeps one submission under way, unless a second click came      *)
(* before the page was told of the first, or an invocation failed, and the  *)
(* page, the invocations and the messages keep their types.                 *)
THEOREM OneJobUnderWay == PanelSpec => []PanelConsistent
  <1>1. PanelInv => PanelConsistent
    BY OneAtMost DEF PanelInv, Orderly, PanelConsistent, OneJobAtATime
  <1> QED
    BY <1>1, InvHolds, PTL

(* While a job is polled, a page that has handled its messages offers to    *)
(* cancel that very job.                                                    *)
THEOREM PolledJobCanBeCancelled == PanelSpec => []CancelIsOffered
  <1>1. PanelInv => CancelIsOffered
    <2> SUFFICES ASSUME PanelInv, NEW c \in Submits, Undisturbed, inbox = <<>>,
                        calls[c].at \in {"poll", "get"}
                 PROVE  view.busy /\ view.active = calls[c].job
      BY DEF CancelIsOffered
    <2>1. c \in Live /\ Orderly
      BY DEF Live, PanelInv
    <2>2. Streams(inbox, view, calls[c].job, Len(inbox))
      BY <2>1 DEF Orderly, Follows, Polling
    <2>3. Len(inbox) = 0
      OBVIOUS
    <2>4. PICK k \in {0, 1, 2} : k <= Len(inbox) /\ Behind(inbox, view, k, calls[c].job)
      BY <2>2 DEF Streams
    <2>5. k = 0
      BY <2>3, <2>4
    <2> QED
      BY <2>4, <2>5 DEF Behind
  <1> QED
    BY <1>1, InvHolds, PTL

(* When every submission is over and none failed, the page shows, or will   *)
(* show, the final state of a job, whatever was clicked, hidden or slow.    *)
THEOREM ShownResultIsFinal == PanelSpec => []FinalResultIsShown
  <1>1. PanelInv => FinalResultIsShown
    <2> SUFFICES ASSUME PanelInv, inbox = <<>>, Live = {}, \E j \in Jobs : phase[j] # "absent",
                        \A c \in Submits : ~At(c, "failed")
                 PROVE  /\ view.shown # NoJob /\ view.phase = "closed"
                        /\ phase[view.shown] = "closed"
      BY DEF FinalResultIsShown
    <2>1. PICK c \in Submits : ~At(c, "idle")
      BY DEF PanelInv, CallsFit
    <2>2. At(c, "done")
      BY <2>1 DEF Live, At
    <2>3. AllIsOver
      BY <2>2 DEF AllIsOver
    <2>4. LastIsClosed(inbox, view)
      BY <2>3 DEF PanelInv, ResultsFit
    <2>5. view.phase = "closed"
      BY <2>4 DEF LastIsClosed
    <2> QED
      BY <2>5 DEF PanelInv, ClosedIsClosed
  <1> QED
    BY <1>1, InvHolds, PTL
=============================================================================

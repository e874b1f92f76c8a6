---------------------------- MODULE SubmitPanel -----------------------------
(***************************************************************************)
(* The submit panel of the editor extension (extension/src/extension.ts):  *)
(* the page with its two buttons, the message handler of the extension     *)
(* host, every invocation of which runs on its own between its awaits, the *)
(* polling of the job, and requests to the control plane that may fail     *)
(* before or after they had their effect.                                  *)
(*                                                                         *)
(* The control plane is taken by what it promises for a submission,        *)
(* JobLifecycle, which JobStore is shown to implement.  The texts of the   *)
(* status line are left out.                                               *)
(***************************************************************************)
EXTENDS Naturals, Sequences, FiniteSets

CONSTANTS
    MaxSubmits,   \* bound: clicks on submit, and so jobs
    MaxCancels,   \* bound: clicks on cancel
    MaxLag,       \* bound: messages the page is behind
    MaxPolls      \* answers that fit before the deadline of 240 s, at most 300

ASSUME PanelAssumption ==
    /\ MaxSubmits \in Nat \ {0} /\ MaxCancels \in Nat
    /\ MaxLag \in Nat \ {0, 1} /\ MaxPolls \in Nat \ {0}

Jobs == 1..MaxSubmits
NoJob == 0
Submits == 1..MaxSubmits                               \* invocations of the handler
Cancels == MaxSubmits + 1 .. MaxSubmits + MaxCancels
Calls == Submits \cup Cancels

VARIABLES
    phase, handed,   \* the control plane, as in JobLifecycle
    calls,           \* what each invocation of the message handler awaits
    inbox,           \* messages posted to the page and not yet handled by it
    view,            \* the page: buttons, activeJob and the job it shows
    visible,         \* panel.visible
    doubled          \* submit was clicked again before the page was told to disable it

panelVars == <<phase, handed, calls, inbox, view, visible, doubled>>

Lifecycle == INSTANCE JobLifecycle WITH Submissions <- Jobs

Busy(value, j) == [type |-> "busy", value |-> value, job |-> j]
Result(j) == [type |-> "result", job |-> j, phase |-> phase[j]]
Messages ==
    [type : {"busy"}, value : BOOLEAN, job : Jobs \cup {NoJob}]
    \cup [type : {"result"}, job : Jobs, phase : {"queued", "active", "closed"}]

Posted(messages) ==
    /\ Len(inbox) + Len(messages) <= MaxLag
    /\ inbox' = inbox \o messages

Call == [at : {"idle", "read", "post", "posted", "poll", "get", "cancel", "done", "failed"},
         job : Jobs \cup {NoJob}, polls : 0..MaxPolls]

PanelInit ==
    /\ Lifecycle!Init
    /\ calls = [c \in Calls |-> [at |-> "idle", job |-> NoJob, polls |-> 0]]
    /\ inbox = <<>>
    /\ view = [busy |-> FALSE, active |-> NoJob, shown |-> NoJob, phase |-> "queued"]
    /\ visible = TRUE
    /\ doubled = FALSE

At(c, where) == calls[c].at = where
Goes(c, where) == calls' = [calls EXCEPT ![c].at = where]
Ends(c, how) == calls' = [calls EXCEPT ![c].at = how, ![c].polls = 0]

-----------------------------------------------------------------------------
(* The page.                                                               *)

Told(m) ==
    IF m.type = "busy" THEN [view EXCEPT !.busy = m.value, !.active = m.job]
    ELSE [view EXCEPT !.shown = m.job, !.phase = m.phase]

(* The listener for messages: setBusy or render. *)
Show ==
    /\ inbox # <<>>
    /\ view' = Told(Head(inbox))
    /\ inbox' = Tail(inbox)
    /\ UNCHANGED <<phase, handed, calls, visible, doubled>>

(* A click that the page does not know to disable its button for. *)
Unannounced ==
    \/ \E c \in Submits : At(c, "read")
    \/ \E n \in DOMAIN inbox : inbox[n] = Busy(TRUE, NoJob)

ClickSubmit(c) ==
    /\ ~view.busy
    /\ \A d \in Submits : At(d, "idle") <=> d >= c
    /\ Goes(c, "read")
    /\ doubled' = (doubled \/ Unannounced)
    /\ UNCHANGED <<phase, handed, inbox, view, visible>>

ClickCancel(c) ==
    /\ view.busy /\ view.active # NoJob
    /\ At(c, "idle")
    /\ calls' = [calls EXCEPT ![c].at = "cancel", ![c].job = view.active]
    /\ UNCHANGED <<phase, handed, inbox, view, visible, doubled>>

Hide == visible' = ~visible /\ UNCHANGED <<phase, handed, calls, inbox, view, doubled>>

-----------------------------------------------------------------------------
(* The handler of the "submit" message.                                    *)

(* Mutant of Throw: the error is shown and the buttons are left alone. *)
ThrowOnly(c) == Ends(c, "failed") /\ UNCHANGED inbox

(* The catch clause. *)
Throw(c) == Ends(c, "failed") /\ Posted(<<Busy(FALSE, NoJob)>>)

(* Limits refused, a file outside the workspace, a file that cannot be     *)
(* read, a request that is refused or not answered in 15 s, the last two   *)
(* also after the job was created.                                         *)
Fails(c) ==
    /\ calls[c].at \in {"read", "post", "posted", "get", "cancel"}
    /\ Throw(c)
    /\ UNCHANGED <<phase, handed, view, visible, doubled>>

(* Mutant of FileRead: the page is not told. *)
FileReadQuietly(c) ==
    /\ At(c, "read")
    /\ Goes(c, "post")
    /\ UNCHANGED <<phase, handed, inbox, view, visible, doubled>>

FileRead(c) ==
    /\ At(c, "read")
    /\ Goes(c, "post")
    /\ Posted(<<Busy(TRUE, NoJob)>>)
    /\ UNCHANGED <<phase, handed, view, visible, doubled>>

(* POST /api/jobs takes effect. *)
JobCreated(c) ==
    /\ At(c, "post")
    /\ \E j \in Jobs :
        /\ \A k \in Jobs : k < j => phase[k] # "absent"
        /\ Lifecycle!Submit(j)
        /\ calls' = [calls EXCEPT ![c].at = "posted", ![c].job = j]
    /\ UNCHANGED <<inbox, view, visible, doubled>>

JobAnswered(c) ==
    /\ At(c, "posted")
    /\ Goes(c, "poll")
    /\ Posted(<<Busy(TRUE, calls[c].job)>>)
    /\ UNCHANGED <<phase, handed, view, visible, doubled>>

PollGoesOn(c) == visible /\ calls[c].polls < MaxPolls

(* The head of pollJob's loop, at once or 800 ms after an answer.  The     *)
(* deadline may pass after any answer.                                     *)
Poll(c) ==
    /\ At(c, "poll")
    /\ \/ PollGoesOn(c) /\ Goes(c, "get") /\ UNCHANGED inbox
       \/ (~visible \/ calls[c].polls > 0) /\ Throw(c)
    /\ UNCHANGED <<phase, handed, view, visible, doubled>>

(* Mutant of Answered: the job is looked at before it is shown. *)
AnsweredUnshown(c) ==
    LET j == calls[c].job IN
    IF phase[j] = "closed" THEN <<Busy(FALSE, NoJob)>> ELSE <<Result(j)>>

(* Mutant of Answered: the page is told again that it is busy. *)
AnsweredBusy(c) ==
    LET j == calls[c].job IN
    IF phase[j] = "closed" THEN <<Result(j), Busy(FALSE, NoJob)>>
    ELSE <<Result(j), Busy(TRUE, NoJob)>>

Answered(c) ==
    LET j == calls[c].job IN
    IF phase[j] = "closed" THEN <<Result(j), Busy(FALSE, NoJob)>> ELSE <<Result(j)>>

(* GET /api/jobs/<id>: the job is shown, and the last time the buttons are *)
(* given back.                                                             *)
JobRead(c) ==
    /\ At(c, "get")
    /\ Posted(Answered(c))
    /\ IF phase[calls[c].job] = "closed" THEN Ends(c, "done")
       ELSE calls' = [calls EXCEPT ![c].at = "poll", ![c].polls = @ + 1]
    /\ UNCHANGED <<phase, handed, view, visible, doubled>>

-----------------------------------------------------------------------------
(* The handler of the "cancel" message: a queued job is closed, a running  *)
(* one is asked to stop, a closed one is left alone.  A request whose      *)
(* answer is lost is a Fails after a JobMoves.                             *)
CancelServed(c) ==
    /\ At(c, "cancel")
    /\ \/ phase[calls[c].job] = "queued" /\ Lifecycle!Close(calls[c].job)
       \/ phase[calls[c].job] # "queued" /\ UNCHANGED <<phase, handed>>
    /\ Goes(c, "done")
    /\ UNCHANGED <<inbox, view, visible, doubled>>

(* The queue and the workers. *)
JobMoves(j) ==
    /\ Lifecycle!Start(j) \/ Lifecycle!Close(j)
    /\ UNCHANGED <<calls, inbox, view, visible, doubled>>

-----------------------------------------------------------------------------
Step(c) ==
    FileRead(c) \/ JobCreated(c) \/ JobAnswered(c) \/ Poll(c) \/ JobRead(c)
    \/ CancelServed(c) \/ Fails(c)

PanelNext ==
    \/ Show
    \/ \E c \in Submits : ClickSubmit(c)
    \/ \E c \in Cancels : ClickCancel(c)
    \/ Hide
    \/ \E c \in Calls : Step(c)
    \/ \E j \in Jobs : JobMoves(j)

PanelSpec == PanelInit /\ [][PanelNext]_panelVars

(* The page handles its messages; every await ends: files are read or      *)
(* refused, requests are aborted after 15 s, the timer fires.              *)
FairPanelSpec ==
    /\ PanelSpec
    /\ WF_panelVars(Show)
    /\ \A c \in Calls : WF_panelVars(Step(c))

-----------------------------------------------------------------------------
(* Properties.                                                             *)

(* The page and the invocations hold values of their types; an invocation  *)
(* polls no longer than its deadline.                                      *)
PanelTypeOK ==
    /\ Lifecycle!TypeOK
    /\ calls \in [Calls -> Call]
    /\ inbox \in Seq(Messages) /\ Len(inbox) <= MaxLag
    /\ view \in [busy : BOOLEAN, active : Jobs \cup {NoJob}, shown : Jobs \cup {NoJob},
                 phase : {"queued", "active", "closed"}]
    /\ visible \in BOOLEAN /\ doubled \in BOOLEAN

Live == {c \in Submits : calls[c].at \notin {"idle", "done", "failed"}}
Undisturbed == ~doubled /\ \A c \in Calls : ~At(c, "failed")

(* The buttons keep one job under way at a time.  Two things defeat them:  *)
(* a second click while the first invocation still reads the file, since   *)
(* the page is told to disable the button only after that, and an          *)
(* invocation that failed, of a cancellation too, since its catch clause   *)
(* enables the button whatever the others do.                              *)
OneJobAtATime == Undisturbed => Cardinality(Live) <= 1

(* What the message handler and the page keep between them, besides types: *)
(* one job at a time.                                                      *)
PanelConsistent == PanelTypeOK /\ OneJobAtATime

(* While a job is polled, the page that has handled its messages offers to *)
(* cancel that job: no message of another invocation or of an earlier job  *)
(* takes activeJob away.                                                   *)
CancelIsOffered ==
    \A c \in Submits :
        Undisturbed /\ inbox = <<>> /\ calls[c].at \in {"poll", "get"} =>
            view.busy /\ view.active = calls[c].job

(* What the page shows when all is over is final: the last job it polled,  *)
(* as it was closed.  It shows a job unfinished, or none, only where an    *)
(* invocation failed.                                                      *)
FinalResultIsShown ==
    inbox = <<>> /\ Live = {} /\ (\E j \in Jobs : phase[j] # "absent")
        /\ (\A c \in Submits : ~At(c, "failed")) =>
            view.shown # NoJob /\ view.phase = "closed" /\ phase[view.shown] = "closed"

(* The developer can always submit again: whatever is refused, lost,       *)
(* hidden or slow, the button comes back.                                  *)
SubmitComesBack == view.busy ~> ~view.busy
=============================================================================

---------------------------- MODULE AdminPolicy -----------------------------
(***************************************************************************)
(* What administrators decide for developers: the headers a source may     *)
(* include and the extensions a developer may have, with the audit log,    *)
(* the requests that meet them at the same time and restarts of the        *)
(* control plane between a change and its audit record.                    *)
(*                                                                         *)
(* A request handler is a thread; each of its database calls is a step.    *)
(* An IntegrityError of a change ends a request with nothing changed and   *)
(* is no step.                                                             *)
(***************************************************************************)
EXTENDS IncludePolicy, SequencesExt

CONSTANTS
    Builtin,      \* DEFAULT_HEADERS
    Developers,
    Extensions,   \* extension_id and version of what may be added to the catalogue
    Admins,       \* threads that serve administrators
    Sources,      \* what developers submit
    Samples,      \* sources on which the parser is compared with its reference
    MaxUpdates,   \* bound: changes by administrators
    MaxRestarts   \* bound: restarts of the control plane

ASSUME PolicyAssumption ==
    /\ Builtin \subseteq Headers
    /\ Sources \subseteq Seq(Characters) /\ Samples \subseteq Seq(Characters)
    /\ IsFiniteSet(Admins)
    /\ MaxUpdates \in Nat /\ MaxRestarts \in Nat

VARIABLES
    rows,       \* header_policy
    catalog,    \* extension_catalog
    requests,   \* extension_requests, in the order of their ids
    audit,      \* audit_log
    admins,     \* the audit record that each administrator's thread still has to write
    devs,       \* each developer's submission
    raced,      \* headers changed by two threads at once, or whose record was lost
    lost,       \* audit records lost by restarts, or by an insertion that raised
    restarts

policyVars == <<rows, catalog, requests, audit, admins, devs, raced, lost, restarts>>

HeaderUpdate(h, on) == [action |-> "header.update", target |-> h, on |-> on]
CatalogAdd(e) == [action |-> "extension.catalog.add", target |-> e]
RequestApprove(r) == [action |-> "extension.request.approve", target |-> r]
None == [action |-> "none"]
Records ==
    [action : {"header.update"}, target : Headers, on : BOOLEAN]
    \cup [action : {"extension.catalog.add"}, target : Extensions]
    \cup [action : {"extension.request.approve"}, target : DOMAIN requests]

Request == [user : Developers, item : Extensions, status : {"pending", "approved"}]

Idle == [at |-> "idle"]
\* policies: those in force from the check of the includes to the insertion
Submission ==
    {Idle} \cup [at : {"checked", "queued"}, source : Sources, policies : SUBSET SUBSET Headers]

(* initialize, on an empty database. *)
PolicyInit ==
    /\ rows = [h \in Headers |-> IF h \in Builtin THEN "enabled" ELSE "absent"]
    /\ catalog = {}
    /\ requests = <<>>
    /\ audit = <<>>
    /\ admins = [a \in Admins |-> None]
    /\ devs = [d \in Developers |-> Idle]
    /\ raced = {}
    /\ lost = <<>>
    /\ restarts = 0

InFlight == {a \in Admins : admins[a] # None}
Updates == Len(audit) + Len(lost) + Cardinality(InFlight)
MayUpdate(a) == admins[a] = None /\ Updates < MaxUpdates

-----------------------------------------------------------------------------
(* Headers.                                                                *)

Enabled(table) == {h \in Headers : table[h] = "enabled"}
EnabledHeaders == Enabled(rows)

HeaderSet(h, on) == [rows EXCEPT ![h] = IF on THEN "enabled" ELSE "disabled"]

SetHeader(a, h, on) ==
    /\ MayUpdate(a)
    /\ rows' = HeaderSet(h, on)
    /\ admins' = [admins EXCEPT ![a] = HeaderUpdate(h, on)]
    /\ raced' = raced \cup {g \in {h} : \E b \in InFlight : \E x \in BOOLEAN : admins[b] = HeaderUpdate(g, x)}
    /\ devs' = [d \in Developers |->
                    IF devs[d].at = "checked"
                      THEN [devs[d] EXCEPT !.policies = @ \cup {Enabled(rows')}] ELSE devs[d]]
    /\ UNCHANGED <<catalog, requests, audit, lost, restarts>>

(* Mutant of CheckIncludes: the policy of the start is kept. *)
CheckIncludesCached(d, source) ==
    /\ devs[d] = Idle
    /\ ValidateDirectIncludes(source, Builtin) = {}
    /\ devs' = [devs EXCEPT ![d] = [at |-> "checked", source |-> source,
                                    policies |-> {EnabledHeaders}]]
    /\ UNCHANGED <<rows, catalog, requests, audit, admins, raced, lost, restarts>>

(* create_job of app.py: the includes are checked against the policy, and  *)
(* the job is inserted by a call of its own.                               *)
CheckIncludes(d, source) ==
    /\ devs[d] = Idle
    /\ ValidateDirectIncludes(source, EnabledHeaders) = {}
    /\ devs' = [devs EXCEPT ![d] = [at |-> "checked", source |-> source,
                                    policies |-> {EnabledHeaders}]]
    /\ UNCHANGED <<rows, catalog, requests, audit, admins, raced, lost, restarts>>

CreateJob(d) ==
    /\ devs[d].at = "checked"
    /\ devs' = [devs EXCEPT ![d].at = "queued"]
    /\ UNCHANGED <<rows, catalog, requests, audit, admins, raced, lost, restarts>>

(* The answer, after which the developer may submit again. *)
AnswerJob(d) ==
    /\ devs[d].at = "queued"
    /\ devs' = [devs EXCEPT ![d] = Idle]
    /\ UNCHANGED <<rows, catalog, requests, audit, admins, raced, lost, restarts>>

-----------------------------------------------------------------------------
(* Extensions.                                                             *)

(* UNIQUE(extension_id, version) *)
AddExtension(a, e) ==
    /\ MayUpdate(a)
    /\ e \notin catalog
    /\ catalog' = catalog \cup {e}
    /\ admins' = [admins EXCEPT ![a] = CatalogAdd(e)]
    /\ UNCHANGED <<rows, requests, audit, devs, raced, lost, restarts>>

(* UNIQUE(user_id, catalog_id, status) *)
IsUnique(d, e, status) ==
    ~ \E r \in DOMAIN requests : requests[r] = [user |-> d, item |-> e, status |-> status]

RequestExtension(d, e) ==
    /\ e \in catalog
    /\ IsUnique(d, e, "pending")
    /\ requests' = Append(requests, [user |-> d, item |-> e, status |-> "pending"])
    /\ UNCHANGED <<rows, catalog, audit, admins, devs, raced, lost, restarts>>

(* Mutant of Decidable: WHERE id=? *)
DecidableTwice(r) ==
    requests[r].status = "approved" \/ IsUnique(requests[r].user, requests[r].item, "approved")

Decidable(r) ==
    /\ requests[r].status = "pending"
    /\ IsUnique(requests[r].user, requests[r].item, "approved")

(* decide_extension_request; a request decided by another administrator is *)
(* answered with 404.                                                      *)
ApproveExtension(a, r) ==
    /\ MayUpdate(a)
    /\ Decidable(r)
    /\ requests' = [requests EXCEPT ![r].status = "approved"]
    /\ admins' = [admins EXCEPT ![a] = RequestApprove(r)]
    /\ UNCHANGED <<rows, catalog, audit, devs, raced, lost, restarts>>

-----------------------------------------------------------------------------
(* database.audit, in a transaction of its own. *)
Audit(a) ==
    /\ admins[a] # None
    /\ audit' = Append(audit, admins[a])
    /\ admins' = [admins EXCEPT ![a] = None]
    /\ UNCHANGED <<rows, catalog, requests, devs, raced, lost, restarts>>

(* Its INSERT raises: the request is answered with an error, although what *)
(* it changed is committed.                                                *)
AuditFails(a) ==
    /\ admins[a] # None
    /\ lost' = Append(lost, admins[a])
    /\ raced' = raced \cup {h \in Headers : \E on \in BOOLEAN : admins[a] = HeaderUpdate(h, on)}
    /\ admins' = [admins EXCEPT ![a] = None]
    /\ UNCHANGED <<rows, catalog, requests, audit, devs, restarts>>

(* Mutant of Initialized: INSERT OR REPLACE. *)
InitializedAnew == [h \in Headers |-> IF h \in Builtin THEN "enabled" ELSE rows[h]]

(* INSERT OR IGNORE of the defaults. *)
Initialized == [h \in Headers |-> IF h \in Builtin /\ rows[h] = "absent" THEN "enabled" ELSE rows[h]]

(* The control plane is stopped with its threads, and started again. *)
Restart ==
    /\ restarts < MaxRestarts /\ restarts' = restarts + 1
    /\ rows' = Initialized
    /\ lost' = lost \o SetToSeq({admins[a] : a \in InFlight})
    /\ raced' = raced \cup {h \in Headers :
                    \E a \in InFlight : \E on \in BOOLEAN : admins[a] = HeaderUpdate(h, on)}
    /\ admins' = [a \in Admins |-> None]
    /\ devs' = [d \in Developers |-> Idle]
    /\ UNCHANGED <<catalog, requests, audit>>

-----------------------------------------------------------------------------
Approve == \E a \in Admins : \E r \in DOMAIN requests : ApproveExtension(a, r)

PolicyNext ==
    \/ \E a \in Admins : \/ \E h \in Headers, on \in BOOLEAN : SetHeader(a, h, on)
                         \/ \E e \in Extensions : AddExtension(a, e)
                         \/ Audit(a) \/ AuditFails(a)
    \/ Approve
    \/ \E d \in Developers : \/ \E source \in Sources : CheckIncludes(d, source)
                             \/ CreateJob(d) \/ AnswerJob(d)
                             \/ \E e \in Extensions : RequestExtension(d, e)
    \/ Restart

PolicySpec == PolicyInit /\ [][PolicyNext]_policyVars

-----------------------------------------------------------------------------
(* Properties.                                                             *)

(* The tables and the threads hold values of their types, and no developer *)
(* has two pending or two approved requests for one extension.             *)
PolicyTypeOK ==
    /\ rows \in [Headers -> {"enabled", "disabled", "absent"}]
    /\ catalog \subseteq Extensions
    /\ requests \in Seq(Request)
    /\ \A q, r \in DOMAIN requests : q # r => requests[q] # requests[r]
    /\ audit \in Seq(Records) /\ lost \in Seq(Records)
    /\ admins \in [Admins -> Records \cup {None}]
    /\ devs \in [Developers -> Submission]
    /\ raced \subseteq Headers

(* The parser is a function of a source and a policy: it is compared with  *)
(* its reference on every sample once, under the policy that a control     *)
(* plane starts with.                                                      *)
Fresh ==
    /\ Updates = 0 /\ requests = <<>> /\ restarts = 0
    /\ \A d \in Developers : devs[d] = Idle

(* _strip_comments blanks exactly the comments, and keeps every line where *)
(* it was.  Where that is what the compiler takes for comments, every      *)
(* directive that includes anything but an enabled header is refused at    *)
(* its line, unless what it includes follows #include without a blank;     *)
(* and every line that is refused has a directive that does not include    *)
(* one enabled header and nothing else.                                    *)
ParserMeetsReference ==
    Fresh => \A source \in Samples :
        /\ StripComments(source) = Uncommented(source)
        /\ ReadsCommentsAlike(source) =>
            RefusesViolations(source, EnabledHeaders) /\ RefusesNothingElse(source, EnabledHeaders)

(* The policies under which a source includes only enabled headers, but    *)
(* for what the parser does not see: directives without a blank, splices   *)
(* and literals that change what is a comment.                             *)
Allows(source) ==
    {policy \in SUBSET Headers :
        ReadsCommentsAlike(source) => \A p \in Violations(source, policy) : Glued(source, p)}

Allowing == UNION {{<<source, policy>> : policy \in Allows(source)} : source \in Sources}

(* A job is inserted only with a source that includes enabled headers      *)
(* under a policy that was in force while its request was served: not      *)
(* under an older one, nor under a mixture of two.                         *)
JobsMeetThePolicy ==
    \A d \in Developers :
        devs[d].at = "queued" =>
            \E policy \in devs[d].policies : <<devs[d].source, policy>> \in Allowing

Times(record, log) == Cardinality({n \in DOMAIN log : log[n] = record})

(* Every approval is recorded once: two administrators who approve the     *)
(* same request do not both succeed, and the record is lost only by a      *)
(* restart or an insertion that raises.                                    *)
ApprovalsAreAudited ==
    \A r \in DOMAIN requests :
        Times(RequestApprove(r), audit) + Times(RequestApprove(r), lost)
            + Cardinality({a \in Admins : admins[a] = RequestApprove(r)})
        = IF requests[r].status = "approved" THEN 1 ELSE 0

AboutHeader(h, record) == record.action = "header.update" /\ record.target = h

(* The log tells the policy in force: the last record of a header that no  *)
(* two threads changed at once, and of which no record was lost, is what   *)
(* the table says.                                                         *)
AuditTellsThePolicy ==
    \A h \in Headers \ raced : \A n \in DOMAIN audit :
        /\ AboutHeader(h, audit[n])
        /\ \A m \in DOMAIN audit : m > n => ~AboutHeader(h, audit[m])
        /\ \A a \in Admins : ~AboutHeader(h, admins[a])
        => (rows[h] = "enabled") = audit[n].on

(* A request that cannot be approved is one too many: its developer has    *)
(* the extension already.  Any other can be approved at once, whatever was *)
(* decided before.                                                         *)
FirstRequestsCanBeApproved ==
    \A r \in DOMAIN requests :
        requests[r].status = "pending" /\ ~Decidable(r) =>
            \E q \in 1 .. r - 1 : requests[q] = [requests[r] EXCEPT !.status = "approved"]

(* What the unique constraint keeps when two administrators decide at the  *)
(* same time, besides types: no approval is made twice, and none is        *)
(* prevented by another developer's.                                       *)
CatalogConsistent == PolicyTypeOK /\ ApprovalsAreAudited /\ FirstRequestsCanBeApproved
=============================================================================

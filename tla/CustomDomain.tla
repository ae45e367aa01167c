---------------------------- MODULE CustomDomain ----------------------------
(***************************************************************************)
(* One custom hostname: its row, what the domain provider holds for it,    *)
(* the worker that reconciles the two (services/onlyevs-worker/index.ts,   *)
(* processDomain; lib/vercel-domain-server.ts), and the owner who asks for *)
(* the hostname and for its removal (components/owner/WorkspaceDomains.tsx).*)
(*                                                                         *)
(* One worker: its pass waits for its jobs, so no two of them overlap.     *)
(***************************************************************************)
EXTENDS Naturals

CONSTANTS
    MaxDomainEdits,   \* bound: requests and removals by the owner
    MaxDomainFaults   \* bound: failed calls to the provider, crashes

VARIABLES
    domain,    \* onlyevs_custom_domains, the hostname's row
    attached,  \* the provider's project holds the hostname
    proven,    \* the owner's records: none, of ownership, and of routing
    domainJob, \* where the job is, and the status it claimed
    domainEdits, domainFaults

vars == <<domain, attached, proven, domainJob, domainEdits, domainFaults>>

NoDomain == [status |-> "absent", due |-> FALSE, claimed |-> FALSE]
NoDomainJob == [at |-> "idle", status |-> "absent"]

Init ==
    /\ domain = NoDomain /\ attached = FALSE /\ proven = "nothing"
    /\ domainJob = NoDomainJob /\ domainEdits = 0 /\ domainFaults = 0

Fault == domainFaults < MaxDomainFaults /\ domainFaults' = domainFaults + 1
Edit == domainEdits < MaxDomainEdits /\ domainEdits' = domainEdits + 1

(***************************************************************************)
(* The owner.                                                              *)
(***************************************************************************)
RequestDomain ==
    /\ Edit /\ domain.status = "absent"
    /\ domain' = [NoDomain EXCEPT !.status = "requested", !.due = TRUE]
    /\ UNCHANGED <<attached, proven, domainJob, domainFaults>>

RequestRemoval ==
    /\ Edit /\ domain.status \notin {"absent", "removal_requested"}
    /\ domain' = [domain EXCEPT !.status = "removal_requested", !.due = TRUE,
                                !.claimed = FALSE]
    /\ UNCHANGED <<attached, proven, domainJob, domainFaults>>

\* the owner's records: the TXT record first, then the routing
Publish ==
    /\ \/ proven = "nothing" /\ proven' = "ownership"
       \/ proven = "ownership" /\ proven' = "routing"
    /\ UNCHANGED <<domain, attached, domainJob, domainEdits, domainFaults>>

(***************************************************************************)
(* processDomain.                                                          *)
(***************************************************************************)
DomainDue ==
    /\ domain.status \in {"requested", "pending_verification", "pending_dns",
                          "removal_requested"}
    /\ ~domain.due /\ domain' = [domain EXCEPT !.due = TRUE]
    /\ UNCHANGED <<attached, proven, domainJob, domainEdits, domainFaults>>

\* Mutant: a hostname whose ownership is proven is not looked at again.
MutClaimable == domain.status \in {"requested", "pending_verification", "removal_requested"}
Claimable == domain.status \notin {"absent", "active", "error"}

\* claim_onlyevs_due_domains leaves 'active' and 'error' alone
ClaimDomain ==
    /\ domainJob.at = "idle" /\ domain.due /\ ~domain.claimed /\ Claimable
    /\ domain' = [domain EXCEPT !.claimed = TRUE]
    /\ domainJob' = [at |-> "claimed", status |-> domain.status]
    /\ UNCHANGED <<attached, proven, domainEdits, domainFaults>>

LapseDomain ==
    /\ domain.claimed /\ domainJob.at = "idle"
    /\ domain' = [domain EXCEPT !.claimed = FALSE]
    /\ UNCHANGED <<attached, proven, domainJob, domainEdits, domainFaults>>

\* addProjectDomain: a hostname that is attached already counts as added
Attach ==
    /\ domainJob = [at |-> "claimed", status |-> "requested"]
    /\ attached' = TRUE
    /\ domainJob' = [domainJob EXCEPT !.at = "reconciling"]
    /\ UNCHANGED <<domain, proven, domainEdits, domainFaults>>

\* domainStatusFromProvider
FromProvider ==
    CASE proven = "nothing"   -> "pending_verification"
      [] proven = "ownership" -> "pending_dns"
      [] proven = "routing"   -> "active"

\* what the provider says is read now and written later
Reconcile ==
    /\ \/ domainJob.at = "reconciling"
       \/ /\ domainJob.at = "claimed"
          /\ domainJob.status \in {"pending_verification", "pending_dns"}
    /\ attached
    /\ domainJob' = [domainJob EXCEPT !.at = FromProvider]
    /\ UNCHANGED <<domain, attached, proven, domainEdits, domainFaults>>

\* an UPDATE by id
Row(new) == domain' = IF domain.status = "absent" THEN domain ELSE new

Record ==
    /\ domainJob.at \in {"pending_verification", "pending_dns", "active"}
    /\ Row([NoDomain EXCEPT !.status = domainJob.at])
    /\ domainJob' = NoDomainJob
    /\ UNCHANGED <<attached, proven, domainEdits, domainFaults>>

\* removeProjectDomain: a hostname that is not attached counts as removed
Detach ==
    /\ domainJob = [at |-> "claimed", status |-> "removal_requested"]
    /\ attached' = FALSE
    /\ domainJob' = [domainJob EXCEPT !.at = "detached"]
    /\ UNCHANGED <<domain, proven, domainEdits, domainFaults>>

\* Mutant: the row goes first, and the provider's entry only if the call works.
MutDelete ==
    /\ domainJob = [at |-> "claimed", status |-> "removal_requested"]
    /\ domain' = NoDomain /\ domainJob' = NoDomainJob
    /\ UNCHANGED <<attached, proven, domainEdits, domainFaults>>

Delete ==
    /\ domainJob.at = "detached"
    /\ domain' = NoDomain /\ domainJob' = NoDomainJob
    /\ UNCHANGED <<attached, proven, domainEdits, domainFaults>>

\* the catch writes the status the job claimed, or 'error' for good
ProviderFails ==
    /\ domainJob.at \in {"claimed", "reconciling"} /\ Fault
    /\ \E status \in {"error", domainJob.status} :
         Row([NoDomain EXCEPT !.status = status])
    /\ attached' \in {attached, attached \/ domainJob.status = "requested",
                      attached /\ domainJob.status # "removal_requested"}
    /\ domainJob' = NoDomainJob
    /\ UNCHANGED <<proven, domainEdits>>

CrashDomain ==
    /\ domainJob.at # "idle" /\ Fault /\ domainJob' = NoDomainJob
    /\ UNCHANGED <<domain, attached, proven, domainEdits>>

Runs == Attach \/ Reconcile \/ Record \/ Detach \/ Delete \/ ProviderFails
Next == \/ RequestDomain \/ RequestRemoval \/ Publish \/ DomainDue \/ ClaimDomain
        \/ LapseDomain \/ Runs \/ CrashDomain

Fairness == WF_vars(DomainDue) /\ WF_vars(ClaimDomain) /\ WF_vars(LapseDomain)
            /\ WF_vars(Runs)

Spec == Init /\ [][Next]_vars
FairSpec == Spec /\ Fairness

(***************************************************************************)
(* Properties.                                                             *)
(***************************************************************************)
DomainStatus == {"absent", "requested", "pending_verification", "pending_dns",
                 "active", "error", "removal_requested"}

TypeOK ==
    /\ domain \in [status : DomainStatus, due : BOOLEAN, claimed : BOOLEAN]
    /\ attached \in BOOLEAN /\ proven \in {"nothing", "ownership", "routing"}
    /\ domainJob \in [at : DomainStatus \cup {"idle", "claimed", "reconciling", "detached"},
                      status : DomainStatus]
    /\ domainEdits <= MaxDomainEdits /\ domainFaults <= MaxDomainFaults

\* No hostname is left behind at the provider: as long as it is attached there
\* is a row that says so, through failed and repeated calls and a job that dies
\* between the provider's answer and the row (processDomain, WorkspaceDomains).
DetachedBeforeForgotten == attached => domain.status # "absent"

\* Once the owner's records are right the hostname is activated, or needs the
\* owner, whatever call fails in between (processDomain's five-minute checks).
RoutedIsActivated ==
    proven = "routing" /\ domain.status \in {"requested", "pending_verification", "pending_dns"}
      ~> domain.status \in {"active", "error", "absent", "removal_requested"}
=============================================================================

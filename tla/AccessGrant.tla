---------------------------- MODULE AccessGrant ----------------------------
(***************************************************************************)
(* The lifecycle of a guest's Tesla driver invitation: the access-grant    *)
(* row, the worker jobs that act on it (services/onlyevs-worker/index.ts), *)
(* the owner's RPCs that change it (supabase/migrations), the guest who    *)
(* reads and redeems the link, and Tesla's own invitation list.            *)
(*                                                                         *)
(* All grants of an instance share one vehicle and one Tesla integration:  *)
(* that is where their jobs meet, in the provider's list and in the        *)
(* advisory lock.  Time is counted in ticks coarser than the short delays  *)
(* of the code (30 seconds, 2 and 5 minutes), so a short delay is "now"    *)
(* and the worker may take it up at any later moment.                      *)
(***************************************************************************)
EXTENDS Naturals, FiniteSets

CONSTANTS
  Grants,       \* access-grant rows, one per trip
  Workers,      \* running worker processes
  Invites,      \* ids Tesla may give to invitations
  None,         \* SQL null
  Owner,        \* the creator of an invitation made by hand in Tesla's app
  FirstWindow,  \* [issue, revoke] of a freshly confirmed trip
  Windows,      \* the windows a calendar change may move a trip to
  InviteLife,   \* ticks until an invitation expires (24 hours in the code)
  FaultKinds,   \* which failures the environment may inject
  MaxFaults,    \* bound: failures in a behaviour
  MaxChanges,   \* bound: owner decisions and integration changes
  MaxTime       \* bound: the last tick

Jobs == Workers \X Grants

Window == [issue : Nat, revoke : Nat]

ASSUME NullAssumption ==
  /\ None \notin Grants \cup Workers \cup Invites \cup Jobs \cup Nat
  /\ Owner \notin Grants \cup {None}

ASSUME WindowAssumption ==
  /\ FirstWindow \in Window
  /\ FirstWindow.revoke > FirstWindow.issue
  /\ Windows \subseteq {w \in Window : w.revoke > w.issue}

ASSUME BoundAssumption ==
  /\ MaxFaults \in Nat /\ MaxChanges \in Nat /\ MaxTime \in Nat
  /\ InviteLife \in Nat

VARIABLES
  now,        \* the database clock
  trip,       \* onlyevs_trips.status, as far as grants read it
  review,     \* TRUE while the trip's calendar candidate can still change it
  bound,      \* the guest finished onboarding and consented
  row,        \* onlyevs_access_grants
  secret,     \* onlyevs_access_secrets: whose URL is stored for the grant
  connected,  \* the Tesla integration has status 'connected'
  lock,       \* holder of the integration's advisory lock
  pc,         \* where each job stands
  mem,        \* what each job remembers of its context
  fresh,      \* jobs whose context.revision is still the row's revision
  open,       \* invitations Tesla lists
  creator,    \* for whom an invitation was created
  known,      \* the invitation URLs each guest has been handed
  drivers,    \* guests who are drivers of the vehicle
  inflight,   \* grants with a POST whose sender is gone and that may land
  faults,     \* failures so far
  changes     \* owner decisions so far

ownerVars == <<trip, review, bound, connected, changes>>
teslaVars == <<open, creator, known, drivers, inflight>>
jobVars   == <<lock, pc, mem>>
vars == <<now, ownerVars, row, secret, jobVars, fresh, teslaVars, faults>>

Status == {"scheduled", "issuing", "invite_ready", "revoking", "revoked",
           "expired", "reauth_required", "failed_retryable",
           "failed_terminal", "manual_review"}

\* Statuses the owner's RPCs treat as over.
Terminal == {"revoked", "expired", "failed_terminal"}

\* Statuses in which no worker will ever claim the row again.
Unclaimed == Terminal \cup {"manual_review"}

Row == [status : Status, issue : Nat, revoke : Nat, expires : Nat \cup {None},
        next : Nat \cup {None}, claimedBy : Workers \cup {None},
        leased : BOOLEAN, pid : Invites \cup {None},
        saved : BOOLEAN, before : SUBSET Invites]

PC == {"idle", "queued", "context", "refresh", "before", "reserve", "post",
       "after", "commit", "supersede", "audit", "finish", "startRevoke",
       "revoke", "forget", "record", "drivers", "remove"}

\* The part of a job that runs with the integration's lock held.
InSession == PC \ {"idle", "queued"}

Mem == [issuing : BOOLEAN, revoke : Nat, pid : Invites \cup {None},
        saved : BOOLEAN, before : SUBSET Invites, inv : Invites \cup {None}]

NoMem == [issuing |-> FALSE, revoke |-> 0, pid |-> None,
          saved |-> FALSE, before |-> {}, inv |-> None]

NewRow == [status |-> "scheduled", issue |-> FirstWindow.issue,
           revoke |-> FirstWindow.revoke, expires |-> None,
           next |-> FirstWindow.issue, claimedBy |-> None, leased |-> FALSE,
           pid |-> None, saved |-> FALSE, before |-> {}]

Init ==
  /\ now = 0
  /\ trip = [g \in Grants |-> "live"]
  /\ review = [g \in Grants |-> TRUE]
  /\ bound = [g \in Grants |-> FALSE]
  /\ row = [g \in Grants |-> NewRow]
  /\ secret = [g \in Grants |-> None]
  /\ connected = TRUE
  /\ lock = None
  /\ pc = [j \in Jobs |-> "idle"]
  /\ mem = [j \in Jobs |-> NoMem]
  /\ fresh = {}
  /\ open = {}
  /\ creator = [i \in Invites |-> None]
  /\ known = [g \in Grants |-> {}]
  /\ drivers = {}
  /\ inflight = {}
  /\ faults = 0
  /\ changes = 0

-----------------------------------------------------------------------------
(* Helpers.                                                                *)

Unused == {i \in Invites : creator[i] = None}

\* The row checks of the onlyevs_access_grants table: a write that breaks one
\* raises instead.
RowChecks(r) == /\ r.revoke > r.issue
                /\ r.expires # None => r.expires > r.issue

\* onlyevs_integration_audit_events takes only these results; an insert of
\* any other raises.
AuditAccepts(result) ==
  result \in {"success", "failure", "ambiguous", "denied",
              "completed_local_only"}

\* Every write of a grant row raises its revision, so every context read
\* before it is out of date, but for the jobs in keep, which see the new one.
Write(g, r, keep) ==
  /\ row' = [row EXCEPT ![g] = r]
  /\ fresh' = {j \in fresh : j[2] # g} \cup keep

\* Mutant: clearing the claim clears the before-set with it.
MutSetGrant(g, r) ==
  Write(g, [r EXCEPT !.claimedBy = None, !.leased = FALSE,
                     !.saved = FALSE, !.before = {}], {})

\* setGrant: an unconditional update that also clears the claim.
SetGrant(g, r) ==
  Write(g, [r EXCEPT !.claimedBy = None, !.leased = FALSE], {})

At(w, g, l) == pc[<<w, g>>] = l

Goto(w, g, l) == pc' = [pc EXCEPT ![<<w, g>>] = l]

\* Mutant: no finally block releases the lock.
MutLeave(w, g) ==
  /\ Goto(w, g, "idle")
  /\ mem' = [mem EXCEPT ![<<w, g>>] = NoMem]
  /\ UNCHANGED lock

\* The finally block of processGrant.
Leave(w, g) ==
  /\ Goto(w, g, "idle")
  /\ mem' = [mem EXCEPT ![<<w, g>>] = NoMem]
  /\ lock' = IF lock = <<w, g>> THEN None ELSE lock

\* Automation stops: nothing claims a grant in manual review.
Parked(r) == [r EXCEPT !.status = "manual_review", !.next = None]

Park(w, g) == SetGrant(g, Parked(row[g])) /\ Leave(w, g)

\* Mutant: an ambiguous outcome is retried like any other.
MutParkAndAudit(w, g, r) ==
  /\ SetGrant(g, [r EXCEPT !.status = "failed_retryable", !.next = now])
  /\ Goto(w, g, "finish")
  /\ UNCHANGED <<lock, mem>>

\* Automation stops, and the job goes on to record why.
ParkAndAudit(w, g, r) ==
  /\ SetGrant(g, Parked(r))
  /\ Goto(w, g, "finish")
  /\ UNCHANGED <<lock, mem>>

\* Mutant: a failure never has a next action.
MutCatch(w, g, s) ==
  /\ SetGrant(g, [row[g] EXCEPT !.status = s, !.next = None])
  /\ Leave(w, g)

\* The catch block of processGrant: only a retryable failure has a next action.
Catch(w, g, s) ==
  /\ SetGrant(g, [row[g] EXCEPT
                    !.status = s,
                    !.next = IF s = "failed_retryable" THEN now ELSE None])
  /\ Leave(w, g)

\* A Tesla request fails for good (4xx) or for now (408, 409, 429, 5xx, network).
TeslaErrors == {"failed_retryable", "failed_terminal"}

Fault(kind) ==
  /\ kind \in FaultKinds
  /\ faults < MaxFaults
  /\ faults' = faults + 1

\* claim_onlyevs_due_access_grants: which rows are due.
Due ==
  {g \in Grants :
    /\ row[g].next # None
    /\ row[g].next <= now
    /\ ~row[g].leased
    /\ \/ row[g].status \in {"issuing", "revoking", "invite_ready"}
       \/ row[g].status \in {"scheduled", "failed_retryable"} /\ bound[g]}

-----------------------------------------------------------------------------
(* A worker's job on one grant.                                            *)

\* A pass of runOnce starts when every job of the last pass has settled.
Claim(w) ==
  /\ \A g \in Grants : At(w, g, "idle")
  /\ Due # {}
  /\ row' = [g \in Grants |->
               IF g \in Due
               THEN [row[g] EXCEPT !.claimedBy = w, !.leased = TRUE]
               ELSE row[g]]
  /\ fresh' = {j \in fresh : j[2] \notin Due}
  /\ pc' = [j \in Jobs |-> IF j[1] = w /\ j[2] \in Due THEN "queued" ELSE pc[j]]
  /\ UNCHANGED <<now, ownerVars, secret, lock, mem, teslaVars, faults>>

\* The job gets a connection, reads its context and tries the lock.
Begin(w, g) ==
  /\ At(w, g, "queued")
  /\ \/ /\ ~(connected /\ bound[g])
        /\ SetGrant(g, [row[g] EXCEPT !.status = "reauth_required",
                                      !.next = None])
        /\ Leave(w, g)
     \/ /\ connected /\ bound[g]
        /\ lock # None
        /\ SetGrant(g, [row[g] EXCEPT !.next = now])
        /\ Leave(w, g)
     \/ /\ connected /\ bound[g]
        /\ lock = None
        /\ lock' = <<w, g>>
        /\ Goto(w, g, "context")
        /\ UNCHANGED <<row, fresh, mem>>
  /\ UNCHANGED <<now, ownerVars, secret, teslaVars, faults>>

\* The context is read again under the lock.
ReadContext(w, g) ==
  /\ At(w, g, "context")
  /\ \/ /\ ~connected
        /\ SetGrant(g, [row[g] EXCEPT !.next = now])
        /\ Leave(w, g)
     \/ /\ connected
        /\ mem' = [mem EXCEPT ![<<w, g>>] =
             [issuing |-> row[g].status = "issuing", revoke |-> row[g].revoke,
              pid |-> row[g].pid, saved |-> row[g].saved,
              before |-> row[g].before, inv |-> None]]
        /\ fresh' = fresh \cup {<<w, g>>}
        /\ Goto(w, g, "refresh")
        /\ UNCHANGED <<row, lock>>
  /\ UNCHANGED <<now, ownerVars, secret, teslaVars, faults>>

\* The access token is refreshed and the clock decides between the two paths.
Refresh(w, g) ==
  /\ At(w, g, "refresh")
  /\ \/ /\ Goto(w, g, IF now >= mem[<<w, g>>].revoke THEN "startRevoke"
                                                ELSE "before")
        /\ UNCHANGED <<row, fresh, lock, mem, faults>>
     \/ /\ Fault("refresh")
        /\ Catch(w, g, "failed_retryable")
     \/ /\ Fault("reauth")
        /\ Catch(w, g, "reauth_required")
  /\ UNCHANGED <<now, ownerVars, secret, teslaVars>>

\* issueAccess: a grant found issuing is recovered from its saved before-set;
\* any other one lists the invitations now.
Before(w, g) ==
  /\ At(w, g, "before")
  /\ \/ /\ mem[<<w, g>>].issuing
        /\ IF mem[<<w, g>>].saved
           THEN Goto(w, g, "after") /\ UNCHANGED <<row, fresh, lock, mem>>
           ELSE Park(w, g)
        /\ UNCHANGED faults
     \/ /\ ~mem[<<w, g>>].issuing
        /\ mem' = [mem EXCEPT ![<<w, g>>] = [@ EXCEPT !.before = open]]
        /\ Goto(w, g, "reserve")
        /\ UNCHANGED <<row, fresh, lock, faults>>
     \/ /\ ~mem[<<w, g>>].issuing
        /\ Fault("tesla")
        /\ \E s \in TeslaErrors : Catch(w, g, s)
  /\ UNCHANGED <<now, ownerVars, secret, teslaVars>>

\* The claim still stands and the row is the one that was read.
Fenced(w, g) == row[g].claimedBy = w /\ <<w, g>> \in fresh

\* The before-set is made durable before anything is asked of Tesla.
Reserve(w, g) ==
  /\ At(w, g, "reserve")
  /\ \/ /\ Fenced(w, g)
        /\ Write(g, [row[g] EXCEPT !.status = "issuing", !.saved = TRUE,
                                   !.before = mem[<<w, g>>].before, !.next = now],
                 {<<w, g>>})
        /\ Goto(w, g, "post")
        /\ UNCHANGED <<lock, mem>>
     \/ /\ ~Fenced(w, g)
        /\ Leave(w, g)
        /\ UNCHANGED <<row, fresh>>
  /\ UNCHANGED <<now, ownerVars, secret, teslaVars, faults>>

Create(i, c) ==
  /\ open' = open \cup {i}
  /\ creator' = [creator EXCEPT ![i] = c]

PostOk(w, g) ==
  /\ At(w, g, "post")
  /\ \E i \in Unused : Create(i, g)
  /\ Goto(w, g, "after")
  /\ UNCHANGED <<now, ownerVars, row, secret, lock, mem, fresh,
                 known, drivers, inflight, faults>>

\* Mutant: a failed POST is left to the recovery of issuing grants.
MutPostFails(w, g) ==
  /\ At(w, g, "post")
  /\ Fault("post") /\ inflight' \in {inflight, inflight \cup {g}}
  /\ SetGrant(g, [row[g] EXCEPT !.next = now]) /\ Leave(w, g)
  /\ UNCHANGED <<now, ownerVars, secret, open, creator, known, drivers>>

\* No answer, or a refusal: the request may have reached Tesla all the same.
\* Tesla refuses when the instance has no id left.
PostFails(w, g) ==
  /\ At(w, g, "post")
  /\ \/ Fault("post") /\ inflight' \in {inflight, inflight \cup {g}}
     \/ Unused = {} /\ UNCHANGED <<inflight, faults>>
  /\ ParkAndAudit(w, g, row[g])
  /\ UNCHANGED <<now, ownerVars, secret, open, creator, known, drivers>>

\* reconcileNewInvitation: the ids Tesla lists now and did not list before.
Candidates(w, g) == open \ mem[<<w, g>>].before

ListAfter(w, g) ==
  /\ At(w, g, "after")
  /\ \/ /\ \E i \in Invites :
             /\ Candidates(w, g) = {i}
             /\ mem' = [mem EXCEPT ![<<w, g>>] = [@ EXCEPT !.inv = i]]
        /\ Goto(w, g, "commit")
        /\ UNCHANGED <<row, fresh, lock, faults>>
     \/ /\ \E i \in Invites :   \* listed without a usable share URL
             /\ Candidates(w, g) = {i}
             /\ ParkAndAudit(w, g, [row[g] EXCEPT !.pid = i])
        /\ Fault("url")
     \/ /\ Cardinality(Candidates(w, g)) # 1
        /\ ParkAndAudit(w, g, row[g])
        /\ UNCHANGED faults
     \/ /\ Fault("list")
        /\ SetGrant(g, [row[g] EXCEPT !.status = "issuing", !.next = now])
        /\ Leave(w, g)
  /\ UNCHANGED <<now, ownerVars, secret, teslaVars>>

\* Mutant: an id the row already has is kept.
MutReadyRow(g, i) ==
  [row[g] EXCEPT !.status = "invite_ready", !.expires = now + InviteLife,
                 !.pid = IF row[g].pid = None THEN i ELSE row[g].pid,
                 !.next = row[g].revoke, !.saved = FALSE, !.before = {},
                 !.claimedBy = None, !.leased = FALSE]

\* The row the transaction of issueAccess writes.
ReadyRow(g, i) ==
  [row[g] EXCEPT !.status = "invite_ready", !.pid = i,
                 !.expires = now + InviteLife, !.next = row[g].revoke,
                 !.saved = FALSE, !.before = {},
                 !.claimedBy = None, !.leased = FALSE]

\* Mutant: the status alone is the guard, with no fence.
MutCommitGuard(w, g) == row[g].status = "issuing"

\* The select .. for update that opens the transaction.
CommitGuard(w, g) ==
  /\ Fenced(w, g)
  /\ row[g].status = "issuing"
  /\ trip[g] # "cancelled"

\* Publishing is one transaction; it raises when the row would break a table
\* check, and publishes nothing when its guard selects no row.
Commit(w, g) ==
  /\ At(w, g, "commit")
  /\ \/ /\ CommitGuard(w, g)
        /\ RowChecks(ReadyRow(g, mem[<<w, g>>].inv))
        /\ Write(g, ReadyRow(g, mem[<<w, g>>].inv), {})
        /\ secret' = [secret EXCEPT ![g] = mem[<<w, g>>].inv]
        /\ Goto(w, g, "finish")
        /\ UNCHANGED <<lock, mem>>
     \/ /\ CommitGuard(w, g)
        /\ ~RowChecks(ReadyRow(g, mem[<<w, g>>].inv))
        /\ Catch(w, g, "failed_retryable")
        /\ UNCHANGED secret
     \/ /\ ~CommitGuard(w, g)
        /\ Goto(w, g, "supersede")
        /\ UNCHANGED <<row, secret, lock, mem, fresh>>
  /\ UNCHANGED <<now, ownerVars, teslaVars, faults>>

\* The stale invitation is withdrawn at once.  When Tesla refuses, or when the
\* audit row is refused, the inner catch sends the grant to manual review.
Supersede(w, g) ==
  LET inv == mem[<<w, g>>].inv
      ToReview == /\ SetGrant(g, Parked([row[g] EXCEPT !.pid = inv]))
                  /\ Goto(w, g, "audit")
                  /\ UNCHANGED <<lock, mem>>
  IN /\ At(w, g, "supersede")
     /\ \/ /\ inv \in open
           /\ open' = open \ {inv}
           /\ IF AuditAccepts("revoked")
              THEN Leave(w, g) /\ UNCHANGED <<row, fresh>>
              ELSE ToReview
           /\ UNCHANGED faults
        \/ /\ inv \notin open
           /\ ToReview
           /\ UNCHANGED <<open, faults>>
        \/ /\ Fault("tesla")
           /\ ToReview
           /\ UNCHANGED open
     /\ UNCHANGED <<now, ownerVars, secret, creator, known, drivers, inflight>>

\* The last statement of the superseded path; when it raises, processGrant's
\* catch block has the last word.
Audit(w, g) ==
  /\ At(w, g, "audit")
  /\ IF AuditAccepts("manual_review")
     THEN Leave(w, g) /\ UNCHANGED <<row, fresh>>
     ELSE Catch(w, g, "failed_retryable")
  /\ UNCHANGED <<now, ownerVars, secret, teslaVars, faults>>

\* The audit row, after a success with the bookend capture, ends a job; when
\* one of them raises, processGrant's catch block has the last word.
Finish(w, g) ==
  /\ At(w, g, "finish")
  /\ \/ Leave(w, g) /\ UNCHANGED <<row, fresh, faults>>
     \/ Fault("db") /\ Catch(w, g, "failed_retryable")
  /\ UNCHANGED <<now, ownerVars, secret, teslaVars>>

\* revokeAccess begins: without an id to revoke the grant is parked.
StartRevoke(w, g) ==
  /\ At(w, g, "startRevoke")
  /\ \/ /\ mem[<<w, g>>].pid = None
        /\ Park(w, g)
     \/ /\ mem[<<w, g>>].pid # None
        /\ Write(g, [row[g] EXCEPT !.status = "revoking"], {})
        /\ Goto(w, g, "revoke")
        /\ UNCHANGED <<lock, mem>>
  /\ UNCHANGED <<now, ownerVars, secret, teslaVars, faults>>

\* Mutant: the answer to the withdrawal is not looked at.
MutRevokeCall(w, g) ==
  /\ At(w, g, "revoke")
  /\ open' \in {open, open \ {mem[<<w, g>>].pid}}
  /\ Goto(w, g, "forget")
  /\ UNCHANGED <<now, ownerVars, row, secret, lock, mem, fresh, creator, known,
                 drivers, inflight, faults>>

\* Tesla withdraws an open invitation, answers 404 for any other one, or fails
\* with or without having done it.
RevokeCall(w, g) ==
  /\ At(w, g, "revoke")
  /\ \/ /\ mem[<<w, g>>].pid \in open
        /\ open' = open \ {mem[<<w, g>>].pid}
        /\ Goto(w, g, "forget")
        /\ UNCHANGED <<row, fresh, lock, mem, faults>>
     \/ /\ mem[<<w, g>>].pid \notin open
        /\ Goto(w, g, "drivers")
        /\ UNCHANGED <<row, fresh, lock, mem, open, faults>>
     \/ /\ Fault("tesla")
        /\ open' \in {open, open \ {mem[<<w, g>>].pid}}
        /\ \E s \in TeslaErrors : Catch(w, g, s)
  /\ UNCHANGED <<now, ownerVars, secret, creator, known, drivers, inflight>>

\* The secret goes first, in a statement of its own; then the grant is revoked.
DropSecret(w, g) ==
  /\ At(w, g, "forget")
  /\ secret' = [secret EXCEPT ![g] = None]
  /\ Goto(w, g, "record")
  /\ UNCHANGED <<now, ownerVars, row, lock, mem, fresh, teslaVars, faults>>

RecordRevoked(w, g) ==
  /\ At(w, g, "record")
  /\ SetGrant(g, [row[g] EXCEPT !.status = "revoked", !.next = None])
  /\ Goto(w, g, "finish")
  /\ UNCHANGED <<now, ownerVars, secret, lock, mem, teslaVars, faults>>

\* After a 404 the driver is found by the guest's own Tesla subject.
ListDrivers(w, g) ==
  /\ At(w, g, "drivers")
  /\ \/ /\ g \in drivers
        /\ Goto(w, g, "remove")
        /\ UNCHANGED <<row, fresh, lock, mem, faults>>
     \/ /\ g \notin drivers
        /\ ParkAndAudit(w, g, row[g])
        /\ UNCHANGED faults
     \/ /\ Fault("tesla")
        /\ \E s \in TeslaErrors : Catch(w, g, s)
  /\ UNCHANGED <<now, ownerVars, secret, teslaVars>>

RemoveDriver(w, g) ==
  /\ At(w, g, "remove")
  /\ \/ /\ drivers' = drivers \ {g}
        /\ Goto(w, g, "forget")
        /\ UNCHANGED <<row, fresh, lock, mem, faults>>
     \/ /\ Fault("tesla")
        /\ drivers' \in {drivers, drivers \ {g}}
        /\ \E s \in TeslaErrors : Catch(w, g, s)
  /\ UNCHANGED <<now, ownerVars, secret, open, creator, known, inflight>>

\* A worker process dies: its connections drop, and with them its lock.  A
\* POST it had sent may still reach Tesla.
Crash(w) ==
  /\ Fault("crash")
  /\ \E g \in Grants : pc[<<w, g>>] # "idle"
  /\ pc' = [j \in Jobs |-> IF j[1] = w THEN "idle" ELSE pc[j]]
  /\ mem' = [j \in Jobs |-> IF j[1] = w THEN NoMem ELSE mem[j]]
  /\ lock' = IF lock # None /\ lock[1] = w THEN None ELSE lock
  /\ fresh' = {j \in fresh : j[1] # w}
  /\ \E sent \in SUBSET {g \in Grants : At(w, g, "post")} :
       inflight' = inflight \cup sent
  /\ UNCHANGED <<now, ownerVars, row, secret, open, creator, known, drivers>>

\* claim_expires_at passes.
LeaseLapses(g) ==
  /\ row[g].leased
  /\ row' = [row EXCEPT ![g] = [@ EXCEPT !.leased = FALSE]]
  /\ UNCHANGED <<now, ownerVars, secret, jobVars, fresh, teslaVars, faults>>

-----------------------------------------------------------------------------
(* The owner, the calendar, the guest and Tesla.                           *)

Change == changes < MaxChanges /\ changes' = changes + 1

Later(a, b) == IF a >= b THEN a ELSE b
Earlier(a, b) == IF a <= b THEN a ELSE b

\* resolve_onlyevs_calendar_candidate_change(.., 'apply'): the trip moves to
\* the calendar's window.
ResolveApply(g, win) ==
  /\ Change
  /\ review[g]
  /\ LET old == row[g]
         moved == [old EXCEPT
           !.status = IF old.status = "issuing" /\ old.pid = None
                      THEN "scheduled" ELSE old.status,
           !.issue = win.issue, !.revoke = win.revoke,
           !.next = IF old.status \in Terminal THEN None
                    ELSE IF old.status \in {"scheduled", "issuing",
                              "failed_retryable", "reauth_required"}
                    THEN Later(now, win.issue) ELSE Later(now, win.revoke),
           !.claimedBy = None, !.leased = FALSE]
     IN RowChecks(moved) /\ Write(g, moved, {})
  /\ trip' = [trip EXCEPT ![g] = "live"]
  /\ UNCHANGED <<now, review, bound, connected, secret, jobVars, teslaVars,
                 faults>>

\* resolve_onlyevs_calendar_candidate_change(.., 'cancel').
ResolveCancel(g) ==
  /\ Change
  /\ review[g]
  /\ LET old == row[g]
     IN Write(g, [old EXCEPT
          !.status = IF old.pid = None THEN "expired" ELSE old.status,
          !.revoke = IF old.status \in Terminal THEN old.revoke
                     ELSE Later(now, old.issue + 1),
          !.next = IF old.status \in Terminal \/ old.pid = None
                   THEN None ELSE now,
          !.claimedBy = None, !.leased = FALSE], {})
  /\ review' = [review EXCEPT ![g] = FALSE]
  /\ trip' = [trip EXCEPT ![g] = "cancelled"]
  /\ UNCHANGED <<now, bound, connected, secret, jobVars, teslaVars, faults>>

\* The row cancel_onlyevs_trip writes.
CancelledRow(g) ==
  LET old == row[g]
  IN [old EXCEPT
        !.status = IF old.pid = None THEN "expired" ELSE old.status,
        !.revoke = Earlier(old.revoke, now),
        !.next = IF old.pid = None THEN None ELSE now,
        !.claimedBy = None, !.leased = FALSE]

\* cancel_onlyevs_trip: it raises, and changes nothing, when the row it would
\* write breaks a table check.
OwnerCancel(g) ==
  /\ Change
  /\ trip[g] = "live"
  /\ \/ row[g].status \in Unclaimed /\ UNCHANGED <<row, fresh>>
     \/ /\ row[g].status \notin Unclaimed
        /\ RowChecks(CancelledRow(g))
        /\ Write(g, CancelledRow(g), {})
  /\ trip' = [trip EXCEPT ![g] = "cancelled"]
  /\ UNCHANGED <<now, review, bound, connected, secret, jobVars, teslaVars,
                 faults>>

\* Another lane of the worker finds the credential dead, or the owner
\* disconnects, which the RPC allows once every grant is over.
IntegrationLost ==
  /\ Change
  /\ connected
  /\ "reauth" \in FaultKinds \/ \A g \in Grants : row[g].status \in Terminal
  /\ connected' = FALSE
  /\ UNCHANGED <<now, trip, review, bound, row, secret, jobVars, fresh,
                 teslaVars, faults>>

\* complete_onlyevs_integration.
Reconnect ==
  /\ Change
  /\ ~connected
  /\ connected' = TRUE
  /\ UNCHANGED <<now, trip, review, bound, row, secret, jobVars, fresh,
                 teslaVars, faults>>

\* complete_onlyevs_guest_onboarding.
Onboard(g) ==
  /\ ~bound[g]
  /\ trip[g] = "live"
  /\ bound' = [bound EXCEPT ![g] = TRUE]
  /\ UNCHANGED <<now, trip, review, row, secret, connected, jobVars, fresh,
                 teslaVars, faults, changes>>

\* get_onlyevs_ready_invite returns a row.
Readable(g) ==
  /\ trip[g] # "cancelled"
  /\ bound[g]
  /\ row[g].status = "invite_ready"
  /\ row[g].issue <= now /\ row[g].revoke > now
  /\ secret[g] # None

GuestReads(g) ==
  /\ Readable(g)
  /\ secret[g] \notin known[g]
  /\ known' = [known EXCEPT ![g] = @ \cup {secret[g]}]
  /\ UNCHANGED <<now, ownerVars, row, secret, jobVars, fresh, open, creator,
                 drivers, inflight, faults>>

\* The guest accepts the invitation: Tesla drops it and adds a driver.
GuestRedeems(g) ==
  /\ \E i \in known[g] \cap open : open' = open \ {i}
  /\ drivers' = drivers \cup {g}
  /\ UNCHANGED <<now, ownerVars, row, secret, jobVars, fresh, creator, known,
                 inflight, faults>>

\* A POST whose sender is gone reaches Tesla.
Land(g) ==
  /\ g \in inflight
  /\ \E i \in Unused : Create(i, g)
  /\ inflight' = inflight \ {g}
  /\ UNCHANGED <<now, ownerVars, row, secret, jobVars, fresh, known, drivers,
                 faults>>

\* The vehicle's owner invites somebody from Tesla's own app.
OwnerInvites ==
  /\ Fault("byhand")
  /\ \E i \in Unused : Create(i, Owner)
  /\ UNCHANGED <<now, ownerVars, row, secret, jobVars, fresh, known, drivers,
                 inflight>>

\* An invitation leaves Tesla's list for a reason of Tesla's: it expires, or
\* somebody else accepts the link.
InviteLeaves(i) ==
  /\ i \in open
  /\ Fault("leaves")
  /\ open' = open \ {i}
  /\ UNCHANGED <<now, ownerVars, row, secret, jobVars, fresh, creator, known,
                 drivers, inflight>>

Tick ==
  /\ now < MaxTime
  /\ now' = now + 1
  /\ UNCHANGED <<ownerVars, row, secret, jobVars, fresh, teslaVars, faults>>

-----------------------------------------------------------------------------
IssueStep(w, g) ==
  \/ Before(w, g) \/ Reserve(w, g) \/ PostOk(w, g) \/ PostFails(w, g)
  \/ ListAfter(w, g) \/ Commit(w, g) \/ Supersede(w, g) \/ Audit(w, g)

RevokeStep(w, g) ==
  \/ StartRevoke(w, g) \/ RevokeCall(w, g) \/ DropSecret(w, g)
  \/ RecordRevoked(w, g) \/ ListDrivers(w, g) \/ RemoveDriver(w, g)

JobStep(w, g) ==
  \/ Begin(w, g) \/ ReadContext(w, g) \/ Refresh(w, g)
  \/ IssueStep(w, g) \/ RevokeStep(w, g) \/ Finish(w, g)

OwnerStep(g) ==
  \/ \E win \in Windows : ResolveApply(g, win)
  \/ ResolveCancel(g) \/ OwnerCancel(g)

GuestStep(g) == Onboard(g) \/ GuestReads(g) \/ GuestRedeems(g)

Next ==
  \/ \E w \in Workers : Claim(w) \/ Crash(w)
  \/ \E w \in Workers, g \in Grants : JobStep(w, g)
  \/ \E g \in Grants : OwnerStep(g) \/ GuestStep(g) \/ LeaseLapses(g) \/ Land(g)
  \/ \E i \in Invites : InviteLeaves(i)
  \/ OwnerInvites \/ IntegrationLost \/ Reconnect \/ Tick

Spec == Init /\ [][Next]_vars

\* The worker loops for ever, a claim always lapses and time passes.
Fairness ==
  /\ \A w \in Workers : WF_vars(Claim(w))
  /\ \A w \in Workers, g \in Grants : WF_vars(JobStep(w, g))
  /\ \A g \in Grants : WF_vars(LeaseLapses(g))
  /\ WF_vars(Tick)

FairSpec == Spec /\ Fairness

-----------------------------------------------------------------------------
(* Properties.                                                             *)

\* Every variable has its type.
TypeOK ==
  /\ now \in Nat
  /\ trip \in [Grants -> {"live", "cancelled"}]
  /\ review \in [Grants -> BOOLEAN]
  /\ bound \in [Grants -> BOOLEAN]
  /\ row \in [Grants -> Row]
  /\ secret \in [Grants -> Invites \cup {None}]
  /\ connected \in BOOLEAN
  /\ lock \in Jobs \cup {None}
  /\ pc \in [Jobs -> PC]
  /\ mem \in [Jobs -> Mem]
  /\ fresh \subseteq Jobs
  /\ open \subseteq Invites
  /\ creator \in [Invites -> Grants \cup {Owner, None}]
  /\ known \in [Grants -> SUBSET Invites]
  /\ drivers \subseteq Grants
  /\ inflight \subseteq Grants
  /\ faults \in Nat
  /\ changes \in Nat

\* Whatever crashes, and however claims lapse and are taken again, the jobs
\* that talk to Tesla are exactly the one that holds the integration's lock.
SessionExclusive == \A j \in Jobs : pc[j] \in InSession <=> lock = j

\* The URL a guest can read is that of the invitation the row will revoke:
\* otherwise revocation would withdraw some other invitation.
PublishedMatches ==
  \A g \in Grants : row[g].status = "invite_ready" =>
    row[g].pid # None /\ secret[g] = row[g].pid

\* A grant found issuing, by a worker that did not create the invitation, has
\* its before-set: although a failed list writes 'issuing' over whatever the
\* owner made of the row meanwhile.
IssuingIsRecoverable ==
  \A g \in Grants : row[g].status = "issuing" => row[g].saved

\* An invitation recorded in the row and still open at Tesla is in somebody's
\* care: a worker will claim the row again, or is on it, or people are told.
KnownLiveIsWatched ==
  \A g \in Grants : row[g].pid \in open =>
    \/ row[g].next # None
    \/ \E w \in Workers : pc[<<w, g>>] \in InSession
    \/ row[g].status \in {"manual_review", "reauth_required", "failed_terminal"}

\* 'revoked' is only written when Tesla has dropped the recorded invitation.
RevokedIsGone ==
  \A g \in Grants : row[g].status = "revoked" => row[g].pid \notin open

\* The guest is only ever handed an invitation made for that guest's own trip,
\* although Tesla's list is shared and an invitation is only told apart by
\* being new in it.
HandedOutIsOwn == \A g \in Grants : \A i \in known[g] : creator[i] = g

\* Once a grant is 'revoked' its guest does not drive the vehicle, and holds no
\* link that would let the guest drive it.
RevokedEndsAccess ==
  \A g \in Grants : row[g].status = "revoked" =>
    g \notin drivers /\ known[g] \cap open = {}

\* Invitations made for a grant that its row does not know of.
Unrecorded(g) == {i \in open : creator[i] = g /\ i # row[g].pid}

\* No invitation is asked for a live trip while an earlier one, made for it
\* by a request whose outcome was never recorded, is open at Tesla.
NeverRetriesAmbiguousCreate ==
  \A w \in Workers, g \in Grants :
    At(w, g, "post") /\ trip[g] = "live" => Unrecorded(g) = {}

\* Access that has ended does not stay open: the recorded invitation is
\* withdrawn, or the trip is extended, or people are told.
EndedAccessIsWithdrawn ==
  \A g \in Grants :
    row[g].pid \in open /\ now >= row[g].revoke
      ~> \/ row[g].pid \notin open
         \/ now < row[g].revoke
         \/ row[g].status \in {"manual_review", "reauth_required",
                               "failed_terminal"}

-----------------------------------------------------------------------------
(* What the guest is promised: see GuestLink.                              *)

Shown == [g \in Grants |-> IF row[g].status = "invite_ready" THEN secret[g]
                                                             ELSE None]
Live == [g \in Grants |-> trip[g] # "cancelled"]

Link == INSTANCE GuestLink WITH live <- Live, shown <- Shown, handed <- known

\* The grant's row, secret and trip implement the link the guest is promised.
ImplementsGuestLink == Link!Spec
=============================================================================

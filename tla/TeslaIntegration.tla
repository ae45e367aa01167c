-------------------------- MODULE TeslaIntegration --------------------------
(***************************************************************************)
(* One Tesla integration of a workspace: its status, the refresh token it  *)
(* stores, one telemetry enrollment per vehicle, and the worker's jobs on  *)
(* them (services/onlyevs-worker/index.ts, processTelemetry and            *)
(* syncChargingInvoices), beside the owner's connect, disconnect and       *)
(* force-disconnect RPCs.                                                  *)
(*                                                                         *)
(*  - every job claims a row, then takes the integration's advisory lock,  *)
(*    refreshes (and so rotates) the token, and calls Tesla;               *)
(*  - a claim lapses after two minutes, so a job may run on a stale copy   *)
(*    of its row; every write of a job is by vehicle, not by claim;        *)
(*  - a removal asked for the whole integration ends by deleting the       *)
(*    credentials once no enrollment is left.                              *)
(*                                                                         *)
(* There is no clock: a row is due (its retry is minutes away) or parked   *)
(* (365 days away).                                                        *)
(***************************************************************************)
EXTENDS Integers, FiniteSets

CONSTANTS
    Vehicles,     \* the workspace's vehicles
    Jobs,         \* jobs that run at the same time, of one or more workers
    Charging,     \* the subject of a charging-invoice job
    Failures,     \* the ways a call to Tesla fails that are looked at
    MaxAttempts,  \* TELEMETRY_REMOVAL_MAX_ATTEMPTS
    MaxEdits,     \* bound: the owner's consents and changes of the fleet
    MaxFaults     \* bound: crashes, and claims that lapse under their job

\* "not_yet" is a missing key, a firmware too old or a reason unknown to this
\* build; "reauth" a refused refresh; "refused" any other answer not retried
FailureKinds == {"reauth", "config", "retryable", "not_yet", "max_configs",
                 "hardware", "refused"}

None == "none"

ASSUME IntegrationAssumption ==
    /\ Failures \subseteq FailureKinds
    /\ Charging \notin Vehicles /\ None \notin Jobs
    /\ MaxAttempts \in Nat \ {0} /\ MaxEdits \in Nat /\ MaxFaults \in Nat

VARIABLES
    status,      \* onlyevs_integrations.status
    cred,        \* the stored refresh token: none, live, or spent at Tesla
    row,         \* onlyevs_telemetry_enrollments, by vehicle
    fleet,       \* onlyevs_vehicles.status, by vehicle
    streaming,   \* vehicles Tesla holds a telemetry configuration for
    lock,        \* the job holding the integration's advisory lock
    job,         \* where each job is and what it has read
    unconfirmed, \* vehicles whose removal was given up on, or forced
    edits, faults,
    lost         \* a rotated token was lost with the process that held it

vars == <<status, cred, row, fleet, streaming, lock, job, unconfirmed,
          edits, faults, lost>>

\* "config_error" is 'error' with one of the codes of a deployment's own gap
RowStatus == {None, "requested", "configuring", "pending_sync", "active",
              "unsupported", "error", "config_error", "removal_requested"}
NoRow == [status |-> None, applied |-> FALSE, attempts |-> 0,
          due |-> FALSE, claimed |-> FALSE]
Seeded == [NoRow EXCEPT !.status = "requested", !.due = TRUE]

Idle == [at |-> "idle", on |-> Charging, removal |-> FALSE, applied |-> FALSE,
         attempts |-> 0, result |-> "ok"]

Init ==
    /\ status = "disconnected" /\ cred = None
    /\ row = [v \in Vehicles |-> NoRow]
    /\ fleet \in [Vehicles -> {"active"}]
    /\ streaming = {} /\ lock = None /\ unconfirmed = {}
    /\ job = [j \in Jobs |-> Idle]
    /\ edits = 0 /\ faults = 0 /\ lost = FALSE

Enrolled == {v \in Vehicles : row[v].status # None}
Fault == faults < MaxFaults /\ faults' = faults + 1
Once(a) == IF a + 1 < MaxAttempts THEN a + 1 ELSE MaxAttempts
owner == <<fleet, edits>>

(***************************************************************************)
(* The owner.                                                              *)
(***************************************************************************)
\* complete_onlyevs_integration: from any status, over any stored token
Connect ==
    /\ edits < MaxEdits /\ edits' = edits + 1
    /\ status' = "connected" /\ cred' = "live"
    /\ lost' = FALSE
    /\ UNCHANGED <<row, fleet, streaming, lock, job, unconfirmed, faults>>

Disconnect ==
    /\ status \in {"connected", "reauth_required"}
    /\ row' = [v \in Vehicles |-> IF row[v].status = None THEN row[v] ELSE
                 [row[v] EXCEPT !.status = "removal_requested", !.due = TRUE,
                                !.claimed = FALSE]]
    /\ IF Enrolled # {}
         THEN status' = "disconnecting" /\ UNCHANGED cred
         ELSE status' = "disconnected" /\ cred' = None
    /\ UNCHANGED <<owner, streaming, lock, job, unconfirmed, faults, lost>>

ForceDisconnect ==
    /\ status = "disconnecting"
    /\ status' = "disconnected" /\ cred' = None
    /\ row' = [v \in Vehicles |-> NoRow]
    /\ unconfirmed' = unconfirmed \cup Enrolled
    /\ UNCHANGED <<owner, streaming, lock, job, faults, lost>>

EditVehicle(v) ==
    /\ edits < MaxEdits /\ edits' = edits + 1
    /\ fleet' = [fleet EXCEPT ![v] = IF @ = "active" THEN "retired" ELSE "active"]
    /\ UNCHANGED <<status, cred, row, streaming, lock, job, unconfirmed,
                   faults, lost>>

(***************************************************************************)
(* runOnce: enroll the active vehicles of a connected integration, ask for *)
(* the removal of the others.  The two statements commit separately.       *)
(***************************************************************************)
Seed ==
    /\ status = "connected"
    /\ row' = [v \in Vehicles |->
                 IF fleet[v] = "active" /\ row[v].status = None
                   THEN Seeded ELSE row[v]]
    /\ row' # row
    /\ UNCHANGED <<status, cred, owner, streaming, lock, job, unconfirmed,
                   faults, lost>>

SweepRetired ==
    /\ row' = [v \in Vehicles |->
                 IF fleet[v] # "active"
                    /\ row[v].status \notin {None, "removal_requested"}
                   THEN [row[v] EXCEPT !.status = "removal_requested",
                                       !.due = TRUE, !.claimed = FALSE]
                   ELSE row[v]]
    /\ row' # row
    /\ UNCHANGED <<status, cred, owner, streaming, lock, job, unconfirmed,
                   faults, lost>>

(***************************************************************************)
(* A job.  At(j, s) is where its process stands; To moves it.              *)
(***************************************************************************)
At(j, s) == job[j].at = s
To(j, s) == job' = [job EXCEPT ![j].at = s]
Forget(j) == job' = [job EXCEPT ![j] = Idle]
Unlock(j) == lock' = IF lock = j THEN None ELSE lock

\* some job, or a stale one, is on the vehicle
Busied(v) == \E j \in Jobs : ~At(j, "idle") /\ job[j].on = v

\* an UPDATE by vehicle: nothing is written when the row is gone
Write(v, new) == row' = IF row[v].status = None THEN row
                        ELSE [row EXCEPT ![v] = new]
Release(v, st, due) == [row[v] EXCEPT !.status = st, !.due = due,
                                      !.claimed = FALSE]

\* claim_onlyevs_due_telemetry: 'unsupported' and 'error' rows are not claimed
Claim(j, v) ==
    /\ At(j, "idle")
    /\ row[v].due /\ ~row[v].claimed
    /\ row[v].status \notin {None, "unsupported", "error"}
    /\ row' = [row EXCEPT ![v].claimed = TRUE]
    /\ LET removal == row[v].status = "removal_requested" IN
         job' = [job EXCEPT ![j] = [Idle EXCEPT !.at = "claimed", !.on = v,
                   !.removal = removal,
                   !.applied = ~removal /\ row[v].applied,
                   !.attempts = IF removal THEN row[v].attempts ELSE 0]]
    /\ UNCHANGED <<status, cred, owner, streaming, lock, unconfirmed, faults, lost>>

ClaimCharging(j) ==
    /\ At(j, "idle") /\ status = "connected"
    /\ \A k \in Jobs : job[k].at # "idle" => job[k].on # Charging
    /\ job' = [job EXCEPT ![j] = [Idle EXCEPT !.at = "claimed"]]
    /\ UNCHANGED <<status, cred, row, owner, streaming, lock, unconfirmed,
                   faults, lost>>

\* two minutes pass: the row can be claimed again, its job dead or still going
Lapse(v) ==
    /\ row[v].claimed
    /\ IF Busied(v) THEN Fault ELSE UNCHANGED faults
    /\ row' = [row EXCEPT ![v].claimed = FALSE]
    /\ UNCHANGED <<status, cred, owner, streaming, lock, job, unconfirmed, lost>>

\* Mutant: a lock that is held is waited for by going on without it.
MutBusy(j) ==
    /\ At(j, "claimed") /\ lock # None /\ cred # None
    /\ To(j, "rotated") /\ cred' = "spent"
    /\ UNCHANGED <<status, row, owner, streaming, lock, unconfirmed, faults, lost>>

\* acquireIntegrationLock refused: back in 30 seconds, claim given up
Busy(j) ==
    /\ At(j, "claimed") /\ lock # None
    /\ IF job[j].on = Charging THEN UNCHANGED row
       ELSE LET v == job[j].on IN Write(v, Release(v, row[v].status, TRUE))
    /\ Forget(j)
    /\ UNCHANGED <<status, cred, owner, streaming, lock, unconfirmed, faults, lost>>

\* telemetryContext, chargingSyncContext: what the job needs is still there
HasContext(j) ==
    /\ cred # None
    /\ IF job[j].on = Charging THEN status = "connected"
       ELSE row[job[j].on].status # None

NoContext(j) ==
    /\ At(j, "claimed") /\ lock = None /\ ~HasContext(j)
    /\ IF job[j].on = Charging THEN UNCHANGED row
       ELSE LET v == job[j].on IN Write(v, Release(v, "error", FALSE))
    /\ Forget(j)
    /\ UNCHANGED <<status, cred, owner, streaming, lock, unconfirmed, faults, lost>>

\* TeslaTelemetryClient: how the call a job makes may fail.  A request that is
\* retryable may have been carried out all the same.
Fails(j, kinds) == \E why \in kinds \cap Failures :
    job' = [job EXCEPT ![j].at = "failed", ![j].result = why]

\* refreshTeslaToken: Tesla answers with a new token and drops the old one
Refresh(j) ==
    /\ At(j, "claimed") /\ lock = None /\ HasContext(j)
    /\ lock' = j
    /\ IF cred = "live"
         THEN To(j, "rotated") /\ cred' = "spent"
         ELSE /\ job' = [job EXCEPT ![j].at = "failed", ![j].result = "reauth"]
              /\ UNCHANGED cred
    /\ UNCHANGED <<status, row, owner, streaming, unconfirmed, faults, lost>>

\* ... or it fails, or Tesla withdraws the owner's consent
RefreshFails(j) ==
    /\ At(j, "claimed") /\ lock = None /\ HasContext(j)
    /\ lock' = j
    /\ Fails(j, {"reauth", "retryable"})
    /\ UNCHANGED <<status, cred, row, owner, streaming, unconfirmed, faults, lost>>

\* persistRotatedTeslaToken: by integration, whatever credential is there now
Persist(j) ==
    /\ At(j, "rotated")
    /\ cred' = IF cred = None THEN None ELSE "live"
    /\ To(j, "ready")
    /\ UNCHANGED <<status, row, owner, streaming, lock, unconfirmed, faults, lost>>

Remove(j) ==
    /\ At(j, "ready") /\ job[j].removal
    /\ \/ To(j, "removed") /\ streaming' = streaming \ {job[j].on}
       \/ Fails(j, {"retryable"}) /\ streaming' = streaming \ {job[j].on}
       \/ Fails(j, {"config", "retryable", "refused"}) /\ UNCHANGED streaming
    /\ UNCHANGED <<status, cred, row, owner, lock, unconfirmed, faults, lost>>

\* the configuration asked for is not the one applied last: none was yet, or
\* a guest's consent to share the location has changed since
Reconfigure(j) ==
    /\ At(j, "ready") /\ job[j].on # Charging
    /\ ~job[j].removal
    /\ LET v == job[j].on IN Write(v, [row[v] EXCEPT !.status = "configuring"])
    /\ To(j, "configuring")
    /\ UNCHANGED <<status, cred, owner, streaming, lock, unconfirmed, faults, lost>>

\* the key probe of a first configuration, and the configuration
Configure(j) ==
    /\ At(j, "configuring")
    /\ \/ /\ job' = [job EXCEPT ![j].at = "answered", ![j].applied = TRUE,
                                 ![j].result = "pending_sync"]
          /\ streaming' = streaming \cup {job[j].on}
       \/ Fails(j, {"retryable"}) /\ streaming' = streaming \cup {job[j].on}
       \/ Fails(j, FailureKinds \ {"reauth"}) /\ UNCHANGED streaming
    /\ UNCHANGED <<status, cred, row, owner, lock, unconfirmed, faults, lost>>

Poll(j) ==
    /\ At(j, "ready") /\ job[j].on # Charging
    /\ ~job[j].removal /\ job[j].applied
    /\ \/ \E answer \in {"active", "pending_sync", "unsupported"} :
            /\ answer = "active" => job[j].on \in streaming
            /\ job' = [job EXCEPT ![j].at = "answered", ![j].result = answer]
       \/ Fails(j, {"config", "retryable", "refused"})
    /\ UNCHANGED <<status, cred, row, owner, streaming, lock, unconfirmed,
                   faults, lost>>

\* what Tesla answered is written over whatever the row says by now
Report(j) ==
    /\ At(j, "answered")
    /\ LET v == job[j].on IN
         Write(v, [Release(v, job[j].result, TRUE) EXCEPT !.applied = job[j].applied])
    /\ Unlock(j) /\ Forget(j)
    /\ UNCHANGED <<status, cred, owner, streaming, unconfirmed, faults, lost>>

\* The row goes: Tesla confirmed its removal, or the attempts are used up
GivesUp(j) == /\ At(j, "failed") /\ job[j].removal
              /\ job[j].attempts + 1 >= MaxAttempts

\* Mutant: a removal given up on is not recorded.
MutDrop(j) ==
    /\ At(j, "removed") \/ GivesUp(j)
    /\ row' = [row EXCEPT ![job[j].on] = NoRow]
    /\ UNCHANGED unconfirmed
    /\ To(j, "dropped")
    /\ UNCHANGED <<status, cred, owner, streaming, lock, faults, lost>>

Drop(j) ==
    /\ At(j, "removed") \/ GivesUp(j)
    /\ row' = [row EXCEPT ![job[j].on] = NoRow]
    /\ unconfirmed' = IF At(j, "removed") THEN unconfirmed \ {job[j].on}
                      ELSE unconfirmed \cup {job[j].on}
    /\ To(j, "dropped")
    /\ UNCHANGED <<status, cred, owner, streaming, lock, faults, lost>>

\* finishTeslaDisconnect: the credentials go with the last enrollment
Finish(j) ==
    /\ At(j, "dropped")
    /\ IF Enrolled # {} THEN UNCHANGED <<status, cred>>
       ELSE /\ cred' = None
            /\ status' = IF status = "disconnecting" THEN "disconnected" ELSE status
    /\ Unlock(j) /\ Forget(j)
    /\ UNCHANGED <<row, owner, streaming, unconfirmed, faults, lost>>

\* Mutant: a removal that may be tried again is not counted.
MutCaught(j) ==
    LET v == job[j].on IN
      IF job[j].removal THEN Release(v, "removal_requested", TRUE)
      ELSE Release(v, "error", FALSE)

\* what the catch writes to the row, by the kind of the failure
Caught(j) ==
    LET v == job[j].on  why == job[j].result
        removal == job[j].removal
        again == IF removal THEN "removal_requested"
                 ELSE IF job[j].applied THEN "pending_sync" ELSE "requested"
        To_(st, due, counts) ==
          [Release(v, st, due) EXCEPT !.attempts = IF counts THEN Once(@) ELSE @]
    IN CASE why = "config" /\ removal  -> To_("removal_requested", TRUE, TRUE)
         [] why = "config" /\ ~removal -> To_("config_error", TRUE, FALSE)
         [] why = "not_yet"  -> To_("error", TRUE, FALSE)
         [] why = "max_configs" -> To_("unsupported", TRUE, FALSE)
         [] why = "retryable"   -> To_(again, TRUE, TRUE)
         [] why = "hardware"    -> To_("unsupported", FALSE, TRUE)
         [] why \in {"reauth", "refused"} -> To_("error", FALSE, TRUE)

Catch(j) ==
    /\ At(j, "failed") /\ ~GivesUp(j)
    /\ status' = IF job[j].result = "reauth" THEN "reauth_required" ELSE status
    /\ IF job[j].on = Charging THEN UNCHANGED row
       ELSE Write(job[j].on, Caught(j))
    /\ Unlock(j) /\ Forget(j)
    /\ UNCHANGED <<cred, owner, streaming, unconfirmed, faults, lost>>

\* syncChargingInvoices, past the token: a 401 or 403 ends it as reauth
SyncCharging(j) ==
    /\ At(j, "ready") /\ job[j].on = Charging
    /\ \/ Forget(j) /\ Unlock(j)
       \/ Fails(j, {"reauth", "retryable"}) /\ UNCHANGED lock
    /\ UNCHANGED <<status, cred, row, owner, streaming, unconfirmed, faults, lost>>

\* the process ends: its session's advisory lock goes with it
Crash(j) ==
    /\ Fault /\ ~At(j, "idle")
    /\ Unlock(j) /\ Forget(j)
    /\ lost' = (lost \/ At(j, "rotated"))
    /\ UNCHANGED <<status, cred, row, owner, streaming, unconfirmed>>

Runs(j) == \/ Busy(j) \/ NoContext(j) \/ Persist(j) \/ Remove(j)
           \/ Reconfigure(j) \/ Configure(j) \/ Poll(j) \/ Report(j)
           \/ Drop(j) \/ Finish(j) \/ Catch(j) \/ SyncCharging(j)
Takes(j) == Refresh(j) \/ RefreshFails(j)

Next ==
    \/ Connect \/ Disconnect \/ ForceDisconnect \/ Seed \/ SweepRetired
    \/ \E v \in Vehicles : EditVehicle(v) \/ Lapse(v)
    \/ \E j \in Jobs : \/ ClaimCharging(j) \/ Takes(j) \/ Runs(j) \/ Crash(j)
                       \/ \E v \in Vehicles : Claim(j, v)

Spec == Init /\ [][Next]_vars

(***************************************************************************)
(* runOnce sweeps after the jobs of the pass before have ended, and claims  *)
(* after it swept; a job's awaits all time out.  Polls are minutes to      *)
(* hours apart and a job holds the lock for seconds: again and again a     *)
(* sweep finds no job on the vehicle, a claim follows, and its job finds   *)
(* the lock free.                                                          *)
(***************************************************************************)
Fairness ==
    /\ WF_vars(Seed)
    /\ \A j \in Jobs : WF_vars(Takes(j) \/ Runs(j))
    /\ \A v \in Vehicles :
         /\ WF_vars(Lapse(v))
         /\ SF_vars(~Busied(v) /\ SweepRetired)
         /\ SF_vars(\E j \in Jobs : /\ lock = None /\ Claim(j, v)
                                  /\ row[v].status = "removal_requested")
         /\ SF_vars(\E j \in Jobs : /\ job[j].on = v /\ job[j].removal
                                  /\ Takes(j))

FairSpec == Spec /\ Fairness

(***************************************************************************)
(* Properties.                                                             *)
(***************************************************************************)
TypeOK ==
    /\ status \in {"connected", "reauth_required", "disconnecting", "disconnected"}
    /\ cred \in {None, "live", "spent"}
    /\ row \in [Vehicles -> [status : RowStatus, applied : BOOLEAN,
                 attempts : 0 .. MaxAttempts, due : BOOLEAN, claimed : BOOLEAN]]
    /\ fleet \in [Vehicles -> {"active", "retired"}]
    /\ streaming \subseteq Vehicles /\ unconfirmed \subseteq Vehicles
    /\ lock \in Jobs \cup {None}
    /\ job \in [Jobs -> [at : {"idle", "claimed", "rotated", "ready", "configuring",
                 "answered", "removed", "dropped", "failed"},
         on : Vehicles \cup {Charging}, removal : BOOLEAN, applied : BOOLEAN,
         attempts : 0 .. MaxAttempts,
         result : FailureKinds \cup {"ok", "active", "pending_sync", "unsupported"}]]
    /\ edits \in 0 .. MaxEdits
    /\ faults \in 0 .. MaxFaults /\ lost \in BOOLEAN

\* A rotation is never half done: while no job holds the integration's lock,
\* the stored refresh token is one Tesla still takes, unless the process that
\* rotated it died before storing the new one (refreshTeslaToken,
\* persistRotatedTeslaToken, acquireIntegrationLock).
TokenKept == lock = None /\ cred # None => cred = "live" \/ lost

\* No stream is forgotten: Tesla holds no telemetry configuration for a vehicle
\* without an enrollment, unless its removal is on record as unconfirmed
\* (processTelemetry's removal, its retry cap, the forced disconnect).
NoForgottenStream == streaming \ Enrolled \subseteq unconfirmed

\* A vehicle taken out of the fleet loses its enrollment however often Tesla
\* refuses, because the attempts are counted; only without any stored
\* credential is there nobody to do it (runOnce's sweep, processTelemetry).
\* Jobs that overlap on one vehicle for ever are set aside: each could write
\* its old status over the sweep's mark.
RetiredVehicleLeaves == \A v \in Vehicles :
    []<>~Busied(v) =>
      (fleet[v] = "retired" ~> \/ v \notin Enrolled \/ fleet[v] = "active"
                              \/ cred = None)

\* A disconnect ends (CHANGELOG.md: "so a disconnect can never spin forever").
DisconnectCompletes == status = "disconnecting" ~> status # "disconnecting"
=============================================================================

---------------------------- MODULE EmailAction ----------------------------
(***************************************************************************)
(* What a reservation's emails do to its trip: the candidates parsed from  *)
(* them, the actions a manager confirms, the worker jobs that advance      *)
(* those actions (services/onlyevs-worker/email.ts), the owner alert and   *)
(* SendGrid's events about it, and the 30-minute brake before anything     *)
(* destructive (20260816150000_onlyevs_email_action_lifecycle.sql).        *)
(*                                                                         *)
(* All emails belong to one reservation.  An email is named by when it     *)
(* occurred, and so are its candidate, its action (one per candidate: the  *)
(* idempotency key), the action's outbox job and the trip a booking makes. *)
(***************************************************************************)
EXTENDS Naturals, FiniteSets

CONSTANTS
  Emails,      \* when each email of the reservation occurred
  Event,       \* its event type
  Applied,     \* bookings whose trip exists from the start
  Workers,     \* running worker processes
  None,        \* SQL null
  Brake,       \* ticks between the accepted alert and the change (30 minutes)
  Reports,     \* the sets of events SendGrid may report of a message
  FaultKinds,  \* which failures the environment may inject
  MaxFaults,   \* bound: failures in a behaviour
  MaxChanges,  \* bound: decisions of the owner other than to confirm or abort
  MaxTime      \* bound: the last tick

ASSUME NullAssumption == None \notin Nat

ASSUME EmailAssumption ==
  /\ Emails \subseteq Nat
  /\ Event \in [Emails -> {"booking", "change", "cancellation"}]
  /\ Applied \subseteq {c \in Emails : Event[c] = "booking"}

EventTypes == {"processed", "delivered", "deferred", "bounce", "dropped",
               "blocked"}

ASSUME BoundAssumption ==
  /\ Brake \in Nat /\ MaxFaults \in Nat /\ MaxChanges \in Nat /\ MaxTime \in Nat
  /\ Reports \subseteq SUBSET EventTypes

VARIABLES
  now,       \* the database clock
  cand,      \* onlyevs_email_candidates.state, "absent" before the insert
  intact,    \* the candidate still has the revision and facts confirmed
  effect,    \* onlyevs_email_candidates.effective_trip_id
  act,       \* onlyevs_email_actions.state, "none" before the insert
  target,    \* onlyevs_email_actions.effective_trip_id
  deadline,  \* onlyevs_email_actions.brake_deadline
  delivery,  \* state of the delivery the action names, "none" without one
  trip,      \* onlyevs_trips.status, "none" before the insert
  enabled,   \* the email integration has a working status
  job,       \* the action's row in onlyevs_email_outbox
  parse,     \* the open transaction that parses an email
  pc,        \* where each worker stands with each action
  mem,       \* what processActionJob remembers of its last call
  sent,      \* how often SendGrid took the owner alert
  report,    \* the events SendGrid will report of it
  heard,     \* the events the webhook has handled
  faults,    \* failures so far
  changes    \* owner decisions so far

candVars   == <<cand, intact, effect>>
actVars    == <<act, target, deadline>>
mailVars   == <<sent, report, heard>>
workerVars == <<pc, mem>>
vars == <<now, candVars, actVars, delivery, trip, enabled, job, parse,
          workerVars, mailVars, faults, changes>>

Jobs == Workers \X Emails

Destructive(c) == Event[c] = "cancellation"

CandState == {"absent", "needs_review", "applying", "applied", "dismissed",
              "superseded"}

InFlight == {"queued", "claimed", "validating", "awaiting_owner_alert",
             "revocation_pending", "provider_mutating", "db_committing"}
Terminal == {"succeeded", "aborted", "superseded", "needs_review"}
ActState == {"none"} \cup InFlight \cup Terminal

DeliveryState == {"none", "sending", "accepted", "delivered",
                  "delivery_paused", "bounced", "dropped", "failed_retryable"}

Job == [state : {"none", "pending", "claimed", "completed"}, due : Nat,
        leased : BOOLEAN]

Parse == [at : {"idle", "chosen", "holding", "done"},
          prior : Emails \cup {None}, kills : BOOLEAN]

Mem == [state : ActState, deadline : Nat \cup {None}, moved : BOOLEAN]

PC == {"idle", "execute", "alert", "link", "send", "finish"}

NoJob == [state |-> "none", due |-> 0, leased |-> FALSE]
NoParse == [at |-> "idle", prior |-> None, kills |-> FALSE]
NoMem == [state |-> "none", deadline |-> None, moved |-> FALSE]

Init ==
  /\ now = 0
  /\ cand = [c \in Emails |-> IF c \in Applied THEN "applied" ELSE "absent"]
  /\ intact = [c \in Emails |-> FALSE]
  /\ effect = [c \in Emails |-> IF c \in Applied THEN c ELSE None]
  /\ act = [c \in Emails |-> IF c \in Applied THEN "succeeded" ELSE "none"]
  /\ target = [c \in Emails |-> IF c \in Applied THEN c ELSE None]
  /\ deadline = [c \in Emails |-> None]
  /\ delivery = [c \in Emails |-> "none"]
  /\ trip = [c \in Emails |-> IF c \in Applied THEN "live" ELSE "none"]
  /\ enabled = TRUE
  /\ job = [c \in Emails |->
              IF c \in Applied THEN [NoJob EXCEPT !.state = "completed"]
                               ELSE NoJob]
  /\ parse = [c \in Emails |-> NoParse]
  /\ pc = [j \in Jobs |-> "idle"]
  /\ mem = [j \in Jobs |-> NoMem]
  /\ sent = [c \in Emails |-> 0]
  /\ report = [c \in Emails |-> {}]
  /\ heard = [c \in Emails |-> {}]
  /\ faults = 0
  /\ changes = 0

-----------------------------------------------------------------------------
(* Helpers.                                                                *)

Fault(kind) ==
  /\ kind \in FaultKinds
  /\ faults < MaxFaults
  /\ faults' = faults + 1

Change == changes < MaxChanges /\ changes' = changes + 1

IsNewest(c, S) == c \in S /\ \A d \in S : d <= c

Newest(S) ==
  IF \E c \in S : IsNewest(c, S) THEN CHOOSE c \in S : IsNewest(c, S) ELSE None

\* Rows locked by a parse that has superseded them and has not committed.
CandLocked(c) ==
  \E n \in Emails : parse[n].at \in {"holding", "done"} /\ parse[n].prior = c
ActLocked(c) == \E n \in Emails : parse[n].kills /\ parse[n].prior = c

ActTo(c, s) == act' = [act EXCEPT ![c] = s]

\* update .. set state = s where state = 'applying'
CandTo(c, s) ==
  /\ ~CandLocked(c)
  /\ cand' = IF cand[c] = "applying" THEN [cand EXCEPT ![c] = s] ELSE cand

JobTo(c, s, due) ==
  job' = [job EXCEPT ![c] = [state |-> s, due |-> due, leased |-> FALSE]]

-----------------------------------------------------------------------------
(* execute_onlyevs_email_action: one legal edge per call.                  *)

\* Mutant: only the action is sent back.
MutToReview(c) ==
  /\ ActTo(c, "needs_review")
  /\ UNCHANGED <<cand, effect, target, trip>>

\* Validation conflict, incomplete facts, a target that is over: the owner
\* has to look.
ToReview(c) ==
  /\ ActTo(c, "needs_review")
  /\ CandTo(c, "needs_review")
  /\ UNCHANGED <<effect, target, trip>>

\* What 'validating' reads again.
Valid(c) == cand[c] = "applying" /\ intact[c] /\ enabled

Succeed(c, t) ==
  /\ ActTo(c, "succeeded")
  /\ target' = [target EXCEPT ![c] = t]
  /\ CandTo(c, "applied")
  /\ effect' = IF cand[c] = "applying" THEN [effect EXCEPT ![c] = t] ELSE effect

\* create_trip, unless facts are missing or the vehicle is taken.
CreateTrip(c) ==
  /\ Event[c] = "booking"
  /\ trip' = [trip EXCEPT ![c] = "live"]
  /\ Succeed(c, c)

\* apply_update, unless the vehicle is taken.
ApplyUpdate(c) ==
  /\ Event[c] = "change"
  /\ trip[target[c]] = "live"
  /\ trip' = trip
  /\ Succeed(c, target[c])

\* cancel_trip: a trip that is cancelled already counts as done.
CancelTrip(c) ==
  /\ Event[c] = "cancellation"
  /\ trip[target[c]] \in {"live", "cancelled"}
  /\ trip' = [trip EXCEPT ![target[c]] = "cancelled"]
  /\ Succeed(c, target[c])

Refused(c) ==
  /\ Event[c] = "cancellation" => trip[target[c]] = "completed"
  /\ ToReview(c)

\* Mutant: the worker trusts the time for which the job was enqueued.
MutElapsed(c) == TRUE

Elapsed(c) == deadline[c] # None /\ now >= deadline[c]

\* A plain edge: only the action's state changes.
Edge(c) ==
  /\ \/ act[c] = "queued" /\ ActTo(c, "claimed")
     \/ act[c] = "claimed" /\ ActTo(c, "validating")
     \/ /\ act[c] = "validating" /\ Valid(c)
        /\ ActTo(c, IF Destructive(c) THEN "awaiting_owner_alert"
                                      ELSE "db_committing")
     \/ act[c] = "revocation_pending" /\ Elapsed(c) /\ ActTo(c, "provider_mutating")
     \/ act[c] = "provider_mutating" /\ ActTo(c, "db_committing")
  /\ UNCHANGED <<cand, effect, target, trip>>

\* Nothing to advance: waiting for the alert or the brake, or over.
Rest(c) ==
  /\ \/ act[c] \in Terminal \cup {"awaiting_owner_alert"}
     \/ act[c] = "revocation_pending" /\ ~Elapsed(c)
  /\ UNCHANGED <<act, cand, effect, target, trip>>

Advance(c) ==
  /\ ~ActLocked(c)
  /\ \/ Edge(c)
     \/ act[c] = "validating" /\ ~Valid(c) /\ ToReview(c)
     \/ /\ act[c] = "db_committing"
        /\ CreateTrip(c) \/ ApplyUpdate(c) \/ CancelTrip(c) \/ Refused(c)
     \/ Rest(c)
  /\ UNCHANGED <<intact, deadline>>

-----------------------------------------------------------------------------
(* processActionJob.                                                       *)

\* Mutant: a job that was claimed is in somebody's hands for good.
MutDue ==
  {c \in Emails : /\ job[c].state = "pending"
                  /\ ~job[c].leased /\ job[c].due <= now}

\* claim_onlyevs_due_email: which action jobs are due.
Due ==
  {c \in Emails : /\ job[c].state \in {"pending", "claimed"}
                  /\ ~job[c].leased /\ job[c].due <= now}

\* A pass of processEmailJobs starts when every job of the last has settled.
Claim(w) ==
  /\ \A c \in Emails : pc[<<w, c>>] = "idle"
  /\ Due # {}
  /\ job' = [c \in Emails |->
               IF c \in Due THEN [job[c] EXCEPT !.state = "claimed",
                                                !.leased = TRUE]
                            ELSE job[c]]
  /\ pc' = [j \in Jobs |-> IF j[1] = w /\ j[2] \in Due THEN "execute" ELSE pc[j]]
  /\ UNCHANGED <<now, candVars, actVars, delivery, trip, enabled, parse, mem,
                 mailVars, faults, changes>>

At(w, c, l) == pc[<<w, c>>] = l

Goto(w, c, l) == pc' = [pc EXCEPT ![<<w, c>>] = l] /\ UNCHANGED mem

\* The loop goes on while a call changes the action.
Onward(m) == IF m.moved THEN "execute" ELSE "finish"

Execute(w, c) ==
  /\ At(w, c, "execute")
  /\ Advance(c)
  /\ LET m == [state |-> act'[c], deadline |-> deadline[c],
               moved |-> act'[c] # mem[<<w, c>>].state]
     IN /\ mem' = [mem EXCEPT ![<<w, c>>] = m]
        /\ pc' = [pc EXCEPT ![<<w, c>>] =
             IF m.state = "awaiting_owner_alert" /\ delivery[c] = "none"
             THEN "alert" ELSE Onward(m)]
  /\ UNCHANGED <<now, delivery, enabled, job, parse, mailVars, faults, changes>>

GoOn(w, c) == Goto(w, c, Onward(mem[<<w, c>>]))

\* sendOwnerAlertForAction: is there a delivery, is there somebody to alert?
Alert(w, c) ==
  /\ At(w, c, "alert")
  /\ \/ delivery[c] = "none" /\ Goto(w, c, "link") /\ UNCHANGED faults
     \/ delivery[c] # "none" /\ GoOn(w, c) /\ UNCHANGED faults
     \/ Fault("config") /\ GoOn(w, c)
  /\ UNCHANGED <<now, candVars, actVars, delivery, trip, enabled, job, parse,
                 mailVars, changes>>

\* Mutant: whether the update found the action is not looked at.
MutLink(w, c) ==
  /\ At(w, c, "link")
  /\ delivery' = [delivery EXCEPT ![c] = IF @ = "none" THEN "sending" ELSE @]
  /\ Goto(w, c, "send")
  /\ UNCHANGED <<now, candVars, actVars, trip, enabled, job, parse, mailVars,
                 faults, changes>>

\* The delivery is linked where delivery_id is null: one caller wins.
LinkDelivery(w, c) ==
  /\ At(w, c, "link")
  /\ \/ /\ delivery[c] = "none"
        /\ delivery' = [delivery EXCEPT ![c] = "sending"]
        /\ Goto(w, c, "send")
     \/ /\ delivery[c] # "none"
        /\ GoOn(w, c)
        /\ UNCHANGED delivery
  /\ UNCHANGED <<now, candVars, actVars, trip, enabled, job, parse, mailVars,
                 faults, changes>>

\* SendGrid takes the message and will report on it.
Taken(c) ==
  /\ sent' = [sent EXCEPT ![c] = @ + 1]
  /\ \E r \in Reports : report' = [report EXCEPT ![c] = r]
  /\ UNCHANGED heard

\* The call succeeds, is refused, or ends without an answer.
Send(w, c) ==
  /\ At(w, c, "send")
  /\ \/ Taken(c) /\ UNCHANGED <<delivery, faults>>
     \/ /\ Fault("refused")
        /\ delivery' = [delivery EXCEPT ![c] = "failed_retryable"]
        /\ UNCHANGED mailVars
     \/ /\ Fault("silence")
        /\ Taken(c) \/ UNCHANGED mailVars
        /\ UNCHANGED delivery
  /\ GoOn(w, c)
  /\ UNCHANGED <<now, candVars, actVars, trip, enabled, job, parse, changes>>

\* What becomes of the outbox job: the update names the job and nothing else.
Finish(w, c) ==
  /\ At(w, c, "finish")
  /\ LET m == mem[<<w, c>>]
     IN IF m.state = "revocation_pending" /\ m.deadline # None
        THEN JobTo(c, "pending", m.deadline)
        ELSE JobTo(c, "completed", job[c].due)
  /\ pc' = [pc EXCEPT ![<<w, c>>] = "idle"]
  /\ mem' = [mem EXCEPT ![<<w, c>>] = NoMem]
  /\ UNCHANGED <<now, candVars, actVars, delivery, trip, enabled, parse,
                 mailVars, faults, changes>>

\* The worker dies or loses the database in the middle of a job, which stays
\* claimed.  A message on its way may have been taken.
JobLost(w, c) ==
  /\ Fault("crash")
  /\ pc[<<w, c>>] # "idle"
  /\ pc' = [pc EXCEPT ![<<w, c>>] = "idle"]
  /\ mem' = [mem EXCEPT ![<<w, c>>] = NoMem]
  /\ \/ At(w, c, "send") /\ Taken(c)
     \/ UNCHANGED mailVars
  /\ UNCHANGED <<now, candVars, actVars, delivery, trip, enabled, job, parse,
                 changes>>

\* claim_expires_at passes.
LeaseLapses(c) ==
  /\ job[c].leased
  /\ job' = [job EXCEPT ![c].leased = FALSE]
  /\ UNCHANGED <<now, candVars, actVars, delivery, trip, enabled, parse,
                 workerVars, mailVars, faults, changes>>

-----------------------------------------------------------------------------
(* processParseJob: one transaction, in the steps other transactions can     *)
(* come between.                                                             *)

Parsing(n, r) == parse' = [parse EXCEPT ![n] = r]

\* The newest live candidate older than this email is chosen.
ParseChoose(n) ==
  /\ cand[n] = "absent"
  /\ parse[n].at = "idle"
  /\ Parsing(n, [NoParse EXCEPT
       !.at = "chosen",
       !.prior = Newest({c \in Emails : /\ c < n
                           /\ cand[c] \in {"needs_review", "applying"}})])
  /\ UNCHANGED <<now, candVars, actVars, delivery, trip, enabled, job,
                 workerVars, mailVars, faults, changes>>

\* Only actions up to 'claimed' may still be superseded.
Supersedable(c) == act[c] \in {"queued", "claimed"}

Replaceable(c) ==
  \/ cand[c] = "needs_review"
  \/ cand[c] = "applying" /\ Supersedable(c)

\* supersede_onlyevs_email_candidate_and_action: the candidate is locked,
\* looked at and superseded.
ParseHold(n) ==
  /\ parse[n].at = "chosen"
  /\ LET p == parse[n].prior
     IN \/ /\ p # None
           /\ ~CandLocked(p)
           /\ Replaceable(p)
           /\ Parsing(n, [parse[n] EXCEPT !.at = "holding"])
        \/ /\ p # None => ~CandLocked(p) /\ ~Replaceable(p)
           /\ Parsing(n, [parse[n] EXCEPT !.at = "done", !.prior = None])
  /\ UNCHANGED <<now, candVars, actVars, delivery, trip, enabled, job,
                 workerVars, mailVars, faults, changes>>

\* Then its action, if it may still be.
ParseKill(n) ==
  /\ parse[n].at = "holding"
  /\ Parsing(n, [parse[n] EXCEPT !.at = "done",
                                 !.kills = Supersedable(parse[n].prior)])
  /\ UNCHANGED <<now, candVars, actVars, delivery, trip, enabled, job,
                 workerVars, mailVars, faults, changes>>

\* The message is stored and the transaction commits.
ParseCommit(n) ==
  /\ parse[n].at = "done"
  /\ LET p == parse[n].prior
         kills == parse[n].kills
     IN /\ cand' = [c \in Emails |-> CASE c = n -> "needs_review"
                                     [] c = p -> "superseded"
                                     [] OTHER -> cand[c]]
        /\ act' = IF kills THEN [act EXCEPT ![p] = "superseded"] ELSE act
        /\ IF kills /\ job[p].state \in {"pending", "claimed"}
           THEN JobTo(p, "completed", job[p].due) ELSE UNCHANGED job
  /\ Parsing(n, NoParse)
  /\ UNCHANGED <<now, intact, effect, target, deadline, delivery, trip, enabled,
                 workerVars, mailVars, faults, changes>>

\* Anything fails: the transaction is rolled back, and parsed again later.
ParseFails(n) ==
  /\ Fault("parse")
  /\ parse[n].at # "idle"
  /\ Parsing(n, NoParse)
  /\ UNCHANGED <<now, candVars, actVars, delivery, trip, enabled, job,
                 workerVars, mailVars, changes>>

-----------------------------------------------------------------------------
(* The manager, SendGrid's webhook and the rest of the program.              *)

\* The trip of the newest other email of the reservation that has one.
TargetOf(c) ==
  LET applied == {d \in Emails \ {c} : effect[d] # None}
  IN IF Newest(applied) = None THEN None ELSE effect[Newest(applied)]

\* confirm_onlyevs_email_candidate.  It raises when the candidate already has
\* an action, whose idempotency key is unique.
Confirm(c) ==
  /\ cand[c] = "needs_review" /\ ~CandLocked(c)
  /\ act[c] = "none"
  /\ Event[c] # "booking" => TargetOf(c) # None
  /\ cand' = [cand EXCEPT ![c] = "applying"]
  /\ intact' = [intact EXCEPT ![c] = TRUE]
  /\ ActTo(c, "queued")
  /\ target' = [target EXCEPT
       ![c] = IF Event[c] = "booking" THEN None ELSE TargetOf(c)]
  /\ JobTo(c, "pending", now)
  /\ UNCHANGED <<now, effect, deadline, delivery, trip, enabled, parse,
                 workerVars, mailVars, faults, changes>>

\* dismiss_onlyevs_email_candidate.
Dismiss(c) ==
  /\ Change
  /\ cand[c] = "needs_review" /\ ~CandLocked(c)
  /\ cand' = [cand EXCEPT ![c] = "dismissed"]
  /\ UNCHANGED <<now, intact, effect, actVars, delivery, trip, enabled, job,
                 parse, workerVars, mailVars, faults>>

\* A purge of the message strips the candidate's facts and raises its revision.
Purge(c) ==
  /\ Change
  /\ cand[c] # "absent" /\ ~CandLocked(c)
  /\ intact[c]
  /\ intact' = [intact EXCEPT ![c] = FALSE]
  /\ UNCHANGED <<now, cand, effect, actVars, delivery, trip, enabled, job,
                 parse, workerVars, mailVars, faults>>

\* update_onlyevs_email_integration: paused, disconnected or back.
SetEnabled ==
  /\ Change
  /\ enabled' = ~enabled
  /\ UNCHANGED <<now, candVars, actVars, delivery, trip, job, parse,
                 workerVars, mailVars, faults>>

\* The trip ends, or the owner cancels it, without any email.
TripEnds(t) ==
  /\ Change
  /\ trip[t] = "live"
  /\ \E s \in {"completed", "cancelled"} : trip' = [trip EXCEPT ![t] = s]
  /\ UNCHANGED <<now, candVars, actVars, delivery, enabled, job, parse,
                 workerVars, mailVars, faults>>

\* Mutant: the abort is offered until the provider step is over.
MutAbortable(c) == act[c] \in {"revocation_pending", "provider_mutating"}

Abortable(c) ==
  act[c] = "revocation_pending" /\ deadline[c] # None /\ now < deadline[c]

\* Mutant: the candidate is left to the worker.
MutStop(c, s) ==
  /\ ActTo(c, s)
  /\ deadline' = [deadline EXCEPT ![c] = None]
  /\ JobTo(c, "completed", job[c].due)
  /\ UNCHANGED cand

\* A destructive action ends before its brake does.
Stop(c, s) ==
  /\ ActTo(c, s)
  /\ deadline' = [deadline EXCEPT ![c] = None]
  /\ JobTo(c, "completed", job[c].due)
  /\ CandTo(c, "needs_review")

\* abort_onlyevs_email_revocation.
Abort(c) ==
  /\ Abortable(c)
  /\ Stop(c, "aborted")
  /\ UNCHANGED <<now, intact, effect, target, delivery, trip, enabled, parse,
                 workerVars, mailVars, faults, changes>>

\* The delivery's state after an event.
Reported(old, e) ==
  CASE e = "processed" -> IF old = "sending" THEN "accepted" ELSE old
    [] e = "delivered" -> "delivered"
    [] e = "bounce" -> "bounced"
    [] e \in {"dropped", "blocked"} -> "dropped"
    [] e = "deferred" -> "delivery_paused"

\* validate_onlyevs_email_state_transition, for a delivery.
Legal(old, new) ==
  \/ new = old
  \/ old = "sending" /\ new = "accepted"
  \/ old = "accepted" /\ new \in {"delivered", "bounced", "dropped",
                                  "delivery_paused"}

\* The accepted alert starts the brake.
StartBrake(c) ==
  /\ ActTo(c, "revocation_pending")
  /\ deadline' = [deadline EXCEPT ![c] = now + Brake]
  /\ JobTo(c, "pending", now + Brake)
  /\ UNCHANGED cand

Rejections == {"bounce", "dropped", "blocked"}

Accepts(e, new) == e = "processed" /\ new = "accepted"

\* reconcile_onlyevs_sendgrid_event: a repeated event changes nothing, and an
\* illegal transition raises, which the webhook answers like a success.
Webhook(c, e) ==
  /\ e \in report[c] \ heard[c]
  /\ heard' = [heard EXCEPT ![c] = @ \cup {e}]
  /\ LET new == Reported(delivery[c], e)
     IN IF Legal(delivery[c], new)
        THEN /\ delivery' = [delivery EXCEPT ![c] = new]
             /\ CASE Accepts(e, new) /\ act[c] = "awaiting_owner_alert" ->
                       StartBrake(c)
                  [] /\ e \in Rejections
                     /\ act[c] \in {"awaiting_owner_alert",
                                    "revocation_pending"} ->
                       Stop(c, "needs_review")
                  [] OTHER -> UNCHANGED <<act, deadline, job, cand>>
        ELSE UNCHANGED <<delivery, act, deadline, job, cand>>
  /\ UNCHANGED <<now, intact, effect, target, trip, enabled, parse, workerVars,
                 sent, report, faults, changes>>

Tick ==
  /\ now < MaxTime
  /\ now' = now + 1
  /\ UNCHANGED <<candVars, actVars, delivery, trip, enabled, job, parse,
                 workerVars, mailVars, faults, changes>>

-----------------------------------------------------------------------------
JobStep(w, c) ==
  \/ Execute(w, c) \/ Alert(w, c) \/ LinkDelivery(w, c) \/ Send(w, c)
  \/ Finish(w, c)

ParseStep(n) ==
  ParseChoose(n) \/ ParseHold(n) \/ ParseKill(n) \/ ParseCommit(n)

OwnerStep(c) == Confirm(c) \/ Dismiss(c) \/ Purge(c) \/ Abort(c)

Next ==
  \/ \E w \in Workers : Claim(w)
  \/ \E w \in Workers, c \in Emails : JobStep(w, c) \/ JobLost(w, c)
  \/ \E c \in Emails : ParseStep(c) \/ ParseFails(c) \/ OwnerStep(c)
                       \/ LeaseLapses(c) \/ TripEnds(c)
  \/ \E c \in Emails, e \in EventTypes : Webhook(c, e)
  \/ SetEnabled \/ Tick

Spec == Init /\ [][Next]_vars

\* The worker loops for ever, a claim always lapses, an open transaction ends
\* and time passes.
Fairness ==
  /\ \A w \in Workers : WF_vars(Claim(w))
  /\ \A w \in Workers, c \in Emails : WF_vars(JobStep(w, c))
  /\ \A c \in Emails :
       /\ WF_vars(LeaseLapses(c))
       /\ WF_vars(ParseHold(c) \/ ParseKill(c) \/ ParseCommit(c))
  /\ WF_vars(Tick)

FairSpec == Spec /\ Fairness

-----------------------------------------------------------------------------
(* Properties.                                                             *)

\* Every variable has its type.
TypeOK ==
  /\ now \in Nat
  /\ cand \in [Emails -> CandState]
  /\ intact \in [Emails -> BOOLEAN]
  /\ effect \in [Emails -> Emails \cup {None}]
  /\ act \in [Emails -> ActState]
  /\ target \in [Emails -> Emails \cup {None}]
  /\ deadline \in [Emails -> Nat \cup {None}]
  /\ delivery \in [Emails -> DeliveryState]
  /\ trip \in [Emails -> {"none", "live", "completed", "cancelled"}]
  /\ enabled \in BOOLEAN
  /\ job \in [Emails -> Job]
  /\ parse \in [Emails -> Parse]
  /\ pc \in [Jobs -> PC]
  /\ mem \in [Jobs -> Mem]
  /\ sent \in [Emails -> Nat]
  /\ report \in [Emails -> SUBSET EventTypes]
  /\ heard \in [Emails -> SUBSET EventTypes]
  /\ faults \in Nat
  /\ changes \in Nat

\* Whatever workers overlap on one action, crash, or lose their claim, the
\* owner is not alerted twice of it.
AlertedOnce == \A c \in Emails : sent[c] <= 1

\* A candidate shown as being applied has an action that is not over: whoever
\* ends an action (the worker, a manager, a parse, SendGrid) gives its
\* candidate back.
ApplyingIsInFlight ==
  \A c \in Emails : cand[c] = "applying" => act[c] \in InFlight

\* A cancellation that is being carried out, or is done, was announced in an
\* alert that SendGrid accepted, and its brake has run out since.
DestroysOnlyAfterBrake ==
  \A c \in Emails :
    /\ Destructive(c)
    /\ act[c] \in {"provider_mutating", "db_committing", "succeeded"}
    => /\ "processed" \in heard[c]
       /\ deadline[c] \in Nat
       /\ now >= deadline[c]

\* What a manager confirms is taken up and, unless it waits for the owner, comes
\* to an end, however workers crash.
InSaga(c) ==
  \/ act[c] \in {"queued", "claimed", "validating"}
  \/ act[c] = "db_committing" /\ ~Destructive(c)

ConfirmedComesToRest == \A c \in Emails : InSaga(c) ~> ~InSaga(c)

-----------------------------------------------------------------------------
(* What the owner is promised: see OwnerBrake.                             *)

Asked == {c \in Emails : Destructive(c)}

Stage == [c \in Asked |->
  CASE act[c] \in {"none", "queued", "claimed", "validating",
                   "awaiting_owner_alert"} -> "open"
    [] act[c] = "revocation_pending" -> "counting"
    [] act[c] \in {"provider_mutating", "db_committing"} -> "carrying"
    [] act[c] = "succeeded" -> "done"
    [] OTHER -> "stopped"]

End == [c \in Asked |-> deadline[c]]

Promise == INSTANCE OwnerBrake WITH Asks <- Asked, stage <- Stage, end <- End

\* The actions implement the brake the owner is promised.
ImplementsOwnerBrake == Promise!Spec
=============================================================================

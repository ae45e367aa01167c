----------------------------- MODULE TripPortal -----------------------------
(***************************************************************************)
(* A guest's private link, from the owner's side: the trip's token, its    *)
(* encrypted copy kept for reminders, and the reminders themselves         *)
(* (supabase/migrations/20260815190000_evhost_guest_portal.sql and the     *)
(* routes under app/api/owner/trips).                                      *)
(*                                                                         *)
(* The token is in two rows, as a hash in onlyevs_trips and as ciphertext  *)
(* in onlyevs_trip_link_secrets, each with an end of its own.  The link is *)
(* replaced in two steps (the route reads the trip, the RPC writes), a     *)
(* reminder goes out in four, and the calendar, or a mail about the same   *)
(* reservation, moves the trip meanwhile.  Tokens are numbered in the      *)
(* order in which they are made.  The worker's statement is one step here: *)
(* TripLedger takes it apart.  Left out: when the trip starts, which no    *)
(* rule of the link looks at; the status "conflict", which no code writes; *)
(* and the limit of reminders that a workspace's trips share.              *)
(***************************************************************************)
EXTENDS Integers, Sequences, FiniteSets

CONSTANTS Owners,        \* requests that may run side by side
          Ends,          \* when the trip may end; it starts at 1
          Day,           \* a link outlives its trip by a day
          Grace,         \* BOOKEND_END_TRACKING_GRACE_MS, before it is completed
          Cooldown,      \* after a reminder that is pending or sent
          RetryDelay,    \* after one that failed
          MaxDaily,      \* reminders of one trip in a day
          MaxClock, MaxLinks, MaxReminders, MaxReschedules   \* bounds

VARIABLES
    clock,
    trip,       \* onlyevs_trips: its candidate, status, ends_at, token, token_expires_at
    secret,     \* onlyevs_trip_link_secrets: the token it holds, destroy_after
    reminders,  \* onlyevs_reminder_deliveries, in the order of their requests
    request,    \* what each request is about to do, and what it has read
    reschedules,
    outgrown    \* a mail has moved the end since the link's was last set

vars == <<clock, trip, secret, reminders, request, reschedules, outgrown>>

PickUp  == 1
NoTrip    == [origin |-> "none", status |-> "none", ends |-> 0, link |-> 0, expires |-> 0]
NoSecret  == [link |-> 0, destroy |-> 0]
Quiet     == [at |-> "idle", ends |-> 0, delivery |-> 0, floor |-> 0, link |-> 0]
Open      == {"confirmed", "armed", "active"}
Statuses  == Open \cup {"none", "completed", "cancelled"}
Origins   == {"calendar", "mail"}

Init ==
    /\ clock = 0
    /\ trip = NoTrip /\ secret = NoSecret
    /\ reminders = <<>>
    /\ request = [o \in Owners |-> Quiet]
    /\ reschedules = 0 /\ outgrown = FALSE

Tick == clock < MaxClock /\ clock' = clock + 1
        /\ UNCHANGED <<trip, secret, reminders, request, reschedules, outgrown>>

Becomes(o, r) == request' = [request EXCEPT ![o] = r]

(***************************************************************************)
(* A trip, of a calendar event or of a mail; one the owner types in is a   *)
(* mail's that no mail moves.  Whoever asks for it checks what is given    *)
(* and makes the token, the RPC writes the trip and the copy of its token  *)
(* in one transaction, and the vehicle's exclusion constraint lets one of  *)
(* two requests through.                                                   *)
(***************************************************************************)
AskTrip(o) ==
    /\ request[o].at = "idle" /\ trip = NoTrip
    /\ PickUp >= clock - Day
    /\ \E e \in Ends : Becomes(o, [Quiet EXCEPT !.at = "create", !.ends = e])
    /\ UNCHANGED <<clock, trip, secret, reminders, reschedules, outgrown>>

CreateTrip(o) ==
    /\ request[o].at = "create"
    /\ LET e == request[o].ends
       IN  IF trip = NoTrip
             THEN /\ \E origin \in Origins :
                       trip' = [origin |-> origin, status |-> "confirmed", ends |-> e,
                                link |-> 1, expires |-> e + Day]
                  /\ secret' = [link |-> 1, destroy |-> e + Day]
             ELSE UNCHANGED <<trip, secret>>
    /\ Becomes(o, Quiet)
    /\ UNCHANGED <<clock, reminders, reschedules, outgrown>>

\* the worker's statement; only a trip of the calendar has an invitation
Desired(invited) == IF trip.ends + Grace <= clock THEN "completed"
                    ELSE IF PickUp <= clock THEN "active"
                    ELSE IF invited THEN "armed" ELSE "confirmed"
Sweep ==
    /\ trip.status \in Open
    /\ \E invited \in {FALSE, trip.origin = "calendar"} :
         /\ trip.status # Desired(invited)
         /\ trip' = [trip EXCEPT !.status = Desired(invited)]
    /\ UNCHANGED <<clock, secret, reminders, request, reschedules, outgrown>>

\* resolve_onlyevs_calendar_candidate_change, apply: whatever the trip's status
ByClock(ends) == IF ends <= clock THEN "completed"
                 ELSE IF PickUp <= clock THEN "active" ELSE "confirmed"
Moved == reschedules < MaxReschedules /\ reschedules' = reschedules + 1
Reschedule ==
    /\ trip.origin = "calendar" /\ Moved
    /\ \E e \in Ends \ {trip.ends} :
         trip' = [trip EXCEPT !.ends = e, !.status = ByClock(e),
                              !.expires = IF @ > e + Day THEN @ ELSE e + Day]
    /\ UNCHANGED <<clock, secret, reminders, request, outgrown>>

\* execute_onlyevs_email_action, apply_update: the link's end stays as it is
MailMoves ==
    /\ trip.origin = "mail" /\ trip.status \in Open /\ Moved
    /\ \E e \in Ends \ {trip.ends} : trip' = [trip EXCEPT !.ends = e]
    /\ outgrown' = TRUE
    /\ UNCHANGED <<clock, secret, reminders, request>>

\* cancel_onlyevs_trip, and a mail's cancel_trip
Cancel ==
    /\ trip.status \in Open
    /\ trip' = [trip EXCEPT !.status = "cancelled"]
    /\ UNCHANGED <<clock, secret, reminders, request, reschedules, outgrown>>

\* cleanup_onlyevs_expired_trip_link_secrets, on every pass of the worker
Cleanup ==
    /\ secret # NoSecret /\ secret.destroy <= clock
    /\ secret' = NoSecret
    /\ UNCHANGED <<clock, trip, reminders, request, reschedules, outgrown>>

(***************************************************************************)
(* A new link: the route reads the trip and makes the token, the RPC       *)
(* refuses an end that the trip has outgrown.                              *)
(***************************************************************************)
Rotatable == trip.status \in {"confirmed", "armed"} /\ trip.ends > clock

AskLink(o) ==
    /\ request[o].at = "idle" /\ Rotatable
    /\ Becomes(o, [Quiet EXCEPT !.at = "rotate", !.ends = trip.ends])
    /\ UNCHANGED <<clock, trip, secret, reminders, reschedules, outgrown>>

\* Mutant: any end in the future will do.
MutReaches(expires) == expires > clock
Reaches(expires) == expires >= trip.ends + Day

Copied(expires) == [link |-> trip.link + 1, destroy |-> expires]

Rotate(o) ==
    /\ request[o].at = "rotate" /\ trip.link < MaxLinks
    /\ LET expires == request[o].ends + Day
       IN  IF Rotatable /\ Reaches(expires)
             THEN /\ trip' = [trip EXCEPT !.link = @ + 1, !.expires = expires]
                  /\ secret' = Copied(expires)
                  /\ outgrown' = FALSE
             ELSE UNCHANGED <<trip, secret, outgrown>>
    /\ Becomes(o, Quiet)
    /\ UNCHANGED <<clock, reminders, reschedules>>

(***************************************************************************)
(* A reminder: begin_onlyevs_trip_reminder under the trip's lock, the      *)
(* material, SendGrid, finish_onlyevs_trip_reminder.                       *)
(***************************************************************************)
Since(age, statuses) ==
    {i \in DOMAIN reminders : /\ reminders[i].status \in statuses
                              /\ reminders[i].asked > clock - age}
Cools == Since(Cooldown, {"pending", "sent"}) = {}

Readable == secret # NoSecret /\ secret.destroy > clock

Begin(o) ==
    /\ request[o].at = "idle" /\ Len(reminders) < MaxReminders
    /\ trip.status \in Open /\ trip.ends > clock /\ trip.expires > clock
    /\ Cools
    /\ Since(RetryDelay, {"failed"}) = {}
    /\ Cardinality(Since(Day, {"pending", "sent", "failed"})) < MaxDaily
    /\ Readable
    /\ reminders' = Append(reminders, [status |-> "pending", asked |-> clock])
    /\ Becomes(o, [Quiet EXCEPT !.at = "begun", !.delivery = Len(reminders) + 1,
                                !.floor = trip.link])
    /\ UNCHANGED <<clock, trip, secret, reschedules, outgrown>>

\* get_onlyevs_trip_reminder_material; the token may fail to decrypt
ReadMaterial(o) ==
    /\ request[o].at = "begun"
    /\ \/ Readable /\ Becomes(o, [request[o] EXCEPT !.at = "sending", !.link = secret.link])
       \/ Becomes(o, [request[o] EXCEPT !.at = "unsent"])
    /\ UNCHANGED <<clock, trip, secret, reminders, reschedules, outgrown>>

\* sendGridTripReminder: a refusal and a lost answer are the same to the route
Send(o) ==
    /\ request[o].at = "sending"
    /\ \E outcome \in {"sent", "unsent"} : Becomes(o, [request[o] EXCEPT !.at = outcome])
    /\ UNCHANGED <<clock, trip, secret, reminders, reschedules, outgrown>>

\* the receipt may fail to be written, and nothing writes it later
Finish(o) ==
    /\ request[o].at \in {"sent", "unsent"}
    /\ LET status == IF request[o].at = "sent" THEN "sent" ELSE "failed"
       IN  \/ reminders' = [reminders EXCEPT ![request[o].delivery].status = status]
           \/ UNCHANGED reminders
    /\ Becomes(o, Quiet)
    /\ UNCHANGED <<clock, trip, secret, reschedules, outgrown>>

\* the process of a request ends
Crash(o) ==
    /\ request[o].at # "idle" /\ Becomes(o, Quiet)
    /\ UNCHANGED <<clock, trip, secret, reminders, reschedules, outgrown>>

Next == \/ Tick \/ Sweep \/ Reschedule \/ MailMoves \/ Cancel \/ Cleanup
        \/ \E o \in Owners : \/ AskTrip(o) \/ CreateTrip(o) \/ AskLink(o) \/ Rotate(o) \/ Begin(o)
                             \/ ReadMaterial(o) \/ Send(o) \/ Finish(o) \/ Crash(o)

Spec == Init /\ [][Next]_vars

-----------------------------------------------------------------------------
TypeOK ==
    /\ clock \in 0 .. MaxClock
    /\ trip = NoTrip \/ trip \in [origin : Origins, status : Statuses \ {"none"}, ends : Ends,
                                  link : 1 .. MaxLinks, expires : {e + Day : e \in Ends}]
    /\ secret = NoSecret \/ secret \in [link : 1 .. MaxLinks, destroy : {e + Day : e \in Ends}]
    /\ reminders \in Seq([status : {"pending", "sent", "failed"}, asked : 0 .. MaxClock])
    /\ Len(reminders) <= MaxReminders
    /\ request \in [Owners -> [at : {"idle", "create", "rotate", "begun", "sending", "sent", "unsent"},
                               ends : Ends \cup {0}, delivery : 0 .. MaxReminders,
                               floor : 0 .. MaxLinks, link : 0 .. MaxLinks]]
    /\ reschedules \in 0 .. MaxReschedules /\ outgrown \in BOOLEAN

\* The guest's link is good for a day after the trip's end, wherever the
\* calendar or a mail moved the trip between the read and the write of a new
\* link.  Only a mail leaves a trip that has outgrown its link
\* (execute_onlyevs_email_action, apply_update), until the link is replaced.
LinkOutlivesTrip ==
    trip = NoTrip \/ trip.expires >= trip.ends + Day
                  \/ (trip.origin = "mail" /\ outgrown)

\* The mail about to go out carries a link no older than the one that was
\* current when the owner asked for it.
MailedLinkIsCurrent == \A o \in Owners : request[o].at = "sending" => request[o].link >= request[o].floor

\* The guest can open the trip to its end, as it was when the link was made or
\* the calendar last moved it, with what was last sent.
LinkHolds == LinkOutlivesTrip /\ MailedLinkIsCurrent
=============================================================================

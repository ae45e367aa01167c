---------------------------- MODULE CalendarSync ----------------------------
(***************************************************************************)
(* One event of the owner's Google calendar, the candidate row it becomes, *)
(* and the trip the owner makes of it (services/onlyevs-worker/index.ts,   *)
(* processCalendar; ingest_onlyevs_calendar_candidates and the owner's     *)
(* RPCs; app/auth/owner/google/callback/route.ts;                          *)
(* components/owner/CalendarReviewQueue.tsx).                              *)
(*                                                                         *)
(* The event moves and is cancelled while a job holds a copy of it; what   *)
(* the owner decides on is a copy of the candidate loaded earlier.         *)
(***************************************************************************)
EXTENDS Integers

CONSTANTS
    Syncers,     \* jobs that may run at the same time, of one or more workers
    Times,       \* the schedules an event may have
    MaxMoves,    \* bound: changes of the event, by its organiser
    MaxConsents, \* bound: the owner's consents
    MaxUpsets    \* bound: requests that fail, jobs that die

VARIABLES
    event,     \* what Google's calendar says
    integ,     \* onlyevs_integrations of provider google_calendar
    cand,      \* onlyevs_calendar_candidates
    booking,   \* onlyevs_trips made of the candidate
    syncLock,  \* the job that holds the integration's advisory lock
    sync,      \* where each job is and the event it has fetched
    import,    \* the event fetched by the owner's consent callback
    screen,    \* the candidate as the review queue shows it
    moves, consents, upsets

vars == <<event, integ, cand, booking, syncLock, sync, import, screen, moves,
          consents, upsets>>
google == <<event, moves>>
rest == <<import, screen, consents>>

Nothing == "nothing"
NoEvent == [alive |-> FALSE, time |-> Nothing]
NoJob == [at |-> "idle", seen |-> NoEvent]
Off == [status |-> "disconnected", cred |-> FALSE, due |-> FALSE, claimed |-> FALSE]
NoCand == [status |-> "absent", change |-> Nothing, time |-> Nothing]
NoBooking == [status |-> "absent", time |-> Nothing]

Init ==
    /\ event \in [alive : {TRUE}, time : Times]
    /\ integ = Off /\ cand = NoCand /\ booking = NoBooking
    /\ syncLock = Nothing /\ sync = [w \in Syncers |-> NoJob]
    /\ import = NoEvent /\ screen = NoCand
    /\ moves = 0 /\ consents = 0 /\ upsets = 0

Upset == upsets < MaxUpsets /\ upsets' = upsets + 1
Syncable == integ.status \in {"connected", "degraded"}

(***************************************************************************)
(* Google's calendar.                                                      *)
(***************************************************************************)
MoveEvent ==
    /\ moves < MaxMoves /\ moves' = moves + 1
    /\ \/ \E t \in Times \ {event.time} : event' = [alive |-> TRUE, time |-> t]
       \/ event.alive /\ event' = [event EXCEPT !.alive = FALSE]
    /\ UNCHANGED <<integ, cand, booking, syncLock, sync, rest, upsets>>

(***************************************************************************)
(* ingest_onlyevs_calendar_candidates: an upsert of what was fetched.      *)
(***************************************************************************)
\* Mutant: the schedule of a confirmed candidate is taken over silently.
MutStatusOf(e) ==
    IF ~e.alive THEN IF cand.status = "confirmed" THEN "needs_review" ELSE "cancelled"
    ELSE IF cand.status = "absent" THEN "pending" ELSE cand.status

\* Mutant: a confirmed candidate only changes when it is cancelled.
MutIngested(e) == IF cand.status = "confirmed" /\ e.alive THEN cand
    ELSE [status |-> IF e.alive THEN "pending" ELSE "cancelled",
          change |-> Nothing, time |-> e.time]

StatusOf(e) ==
    CASE ~e.alive /\ cand.status = "confirmed" -> "needs_review"
      [] ~e.alive /\ cand.status # "confirmed" -> "cancelled"
      [] e.alive /\ cand.status = "absent"     -> "pending"
      [] e.alive /\ cand.status = "confirmed" /\ cand.time # e.time -> "needs_review"
      [] OTHER -> cand.status

ChangeOf(e) ==
    IF cand.status \notin {"confirmed", "needs_review"} THEN cand.change
    ELSE IF ~e.alive THEN "cancel"
    ELSE IF cand.time # e.time THEN "schedule" ELSE cand.change

Ingested(e) == [status |-> StatusOf(e), change |-> ChangeOf(e), time |-> e.time]

Synced == [integ EXCEPT !.status = "connected", !.due = FALSE, !.claimed = FALSE]

(***************************************************************************)
(* processCalendar.                                                        *)
(***************************************************************************)
SyncAt(w, at) == sync[w].at = at
SyncTo(w, at) == sync' = [sync EXCEPT ![w].at = at]
Done(w) == /\ sync' = [sync EXCEPT ![w] = NoJob]
           /\ syncLock' = IF syncLock = w THEN Nothing ELSE syncLock

\* fifteen minutes pass
Due == /\ Syncable /\ ~integ.due /\ integ' = [integ EXCEPT !.due = TRUE]
       /\ UNCHANGED <<google, cand, booking, syncLock, sync, rest, upsets>>

ClaimSync(w) ==
    /\ SyncAt(w, "idle") /\ Syncable /\ integ.due /\ ~integ.claimed
    /\ integ' = [integ EXCEPT !.claimed = TRUE]
    /\ SyncTo(w, "claimed")
    /\ UNCHANGED <<google, cand, booking, syncLock, rest, upsets>>

\* a job has two minutes, and its requests time out before that: the claim
\* lapses when the job has died, or its process is stalled
LapseSync ==
    /\ integ.claimed
    /\ IF \E w \in Syncers : ~SyncAt(w, "idle") THEN Upset ELSE UNCHANGED upsets
    /\ integ' = [integ EXCEPT !.claimed = FALSE]
    /\ UNCHANGED <<google, cand, booking, syncLock, sync, rest>>

BusySync(w) ==
    /\ SyncAt(w, "claimed") /\ syncLock # Nothing
    /\ integ' = [integ EXCEPT !.claimed = FALSE]
    /\ Done(w)
    /\ UNCHANGED <<google, cand, booking, rest, upsets>>

\* calendarContext finds nothing: the integration is gone or has no credential
Unavailable(w) ==
    /\ SyncAt(w, "claimed") /\ syncLock = Nothing /\ ~(Syncable /\ integ.cred)
    /\ integ' = [integ EXCEPT !.status = "reauth_required", !.due = FALSE,
                              !.claimed = FALSE]
    /\ Done(w)
    /\ UNCHANGED <<google, cand, booking, rest, upsets>>

\* refreshGoogleToken, persistRotatedGoogleToken, fetchGoogleEvents
Fetch(w) ==
    /\ SyncAt(w, "claimed") /\ syncLock = Nothing /\ Syncable /\ integ.cred
    /\ syncLock' = w
    /\ sync' = [sync EXCEPT ![w] = [at |-> "fetched", seen |-> event]]
    /\ UNCHANGED <<google, integ, cand, booking, rest, upsets>>

\* a deleted event may come as its id alone: it is no candidate then, and
\* only the statement after this one knows of it
IngestEvents(w) ==
    /\ SyncAt(w, "fetched") /\ Syncable
    /\ integ' = Synced
    /\ \/ cand' = Ingested(sync[w].seen)
       \/ ~sync[w].seen.alive /\ UNCHANGED cand
    /\ SyncTo(w, "ingested")
    /\ UNCHANGED <<google, booking, syncLock, rest, upsets>>

FlagCancelled(w) ==
    /\ SyncAt(w, "ingested")
    /\ cand' = IF sync[w].seen.alive \/ cand.status = "absent" THEN cand
               ELSE IF cand.status \in {"confirmed", "needs_review"}
                 THEN [cand EXCEPT !.status = "needs_review", !.change = "cancel"]
                 ELSE [cand EXCEPT !.status = "cancelled"]
    /\ Done(w)
    /\ UNCHANGED <<google, integ, booking, rest, upsets>>

\* the catch, whatever has become of the integration meanwhile: a request
\* failed, or the ingest found the integration disconnected
FailSync(w) ==
    /\ ~SyncAt(w, "idle")
    /\ \E status \in {"reauth_required", "degraded"} :
         /\ IF SyncAt(w, "fetched") /\ ~Syncable
              THEN status = "degraded" /\ UNCHANGED upsets ELSE Upset
         /\ integ' = [integ EXCEPT !.status = status, !.due = FALSE, !.claimed = FALSE]
    /\ Done(w)
    /\ UNCHANGED <<google, cand, booking, rest>>

CrashSync(w) == /\ Upset /\ ~SyncAt(w, "idle") /\ Done(w)
                /\ UNCHANGED <<google, integ, cand, booking, rest>>

(***************************************************************************)
(* The owner: consent, disconnect, and the review queue.                   *)
(***************************************************************************)
\* the callback fetches the events, stores the credential, then ingests
Consent ==
    /\ consents < MaxConsents /\ consents' = consents + 1
    /\ integ' = [status |-> "connected", cred |-> TRUE, due |-> FALSE, claimed |-> FALSE]
    /\ import' = event
    /\ UNCHANGED <<google, cand, booking, syncLock, sync, screen, upsets>>

Import ==
    /\ import # NoEvent
    /\ IF Syncable THEN integ' = Synced /\ cand' = Ingested(import)
                   ELSE UNCHANGED <<integ, cand>>
    /\ import' = NoEvent
    /\ UNCHANGED <<google, booking, syncLock, sync, screen, consents, upsets>>

DisconnectCalendar ==
    /\ integ.status # "disconnected"
    /\ integ' = Off
    /\ cand' = IF cand.status \in {"pending", "needs_review"}
                 THEN [cand EXCEPT !.status = "dismissed"] ELSE cand
    /\ UNCHANGED <<google, booking, syncLock, sync, rest, upsets>>

\* fetchCalendarCandidates: what waits for a decision, as of now
Load == /\ screen' = IF cand.status \in {"pending", "needs_review"} THEN cand ELSE NoCand
        /\ screen' # screen
        /\ UNCHANGED <<google, integ, cand, booking, syncLock, sync, import,
                       consents, upsets>>

\* the RPC looks at the row, not at what the owner saw, and the page reloads
Decide(new, made) ==
    /\ cand' = new /\ booking' = made /\ screen' = NoCand
    /\ UNCHANGED <<google, integ, syncLock, sync, import, consents, upsets>>

ConfirmCandidate ==
    /\ screen.status = "pending" /\ cand.status \in {"pending", "needs_review"}
    /\ booking.status = "absent"
    /\ Decide([cand EXCEPT !.status = "confirmed", !.change = Nothing],
              [status |-> "live", time |-> cand.time])

DismissCandidate ==
    /\ screen # NoCand /\ cand.status \in {"pending", "needs_review"}
    /\ Decide([cand EXCEPT !.status = "dismissed"], booking)

ApplyChange ==
    /\ screen.status = "needs_review" /\ screen.change # "cancel"
    /\ cand.status = "needs_review" /\ cand.change # "cancel"
    /\ booking.status # "absent"
    /\ Decide([cand EXCEPT !.status = "confirmed", !.change = Nothing],
              [status |-> "live", time |-> cand.time])

CancelByReview ==
    /\ screen.status = "needs_review" /\ screen.change = "cancel"
    /\ cand.status = "needs_review" /\ booking.status # "absent"
    /\ Decide([cand EXCEPT !.status = "cancelled", !.change = Nothing],
              [booking EXCEPT !.status = "cancelled"])

CancelBooking ==
    /\ booking.status = "live"
    /\ booking' = [booking EXCEPT !.status = "cancelled"]
    /\ UNCHANGED <<google, integ, cand, syncLock, sync, rest, upsets>>

SyncStep(w) == \/ BusySync(w) \/ Unavailable(w) \/ Fetch(w) \/ IngestEvents(w)
               \/ FlagCancelled(w)
SyncEnds(w) == SyncStep(w) \/ FailSync(w)
Owner == \/ Consent \/ Import \/ DisconnectCalendar \/ Load \/ ConfirmCandidate
         \/ DismissCandidate \/ ApplyChange \/ CancelByReview \/ CancelBooking

Next == \/ MoveEvent \/ Due \/ LapseSync \/ Owner
        \/ \E w \in Syncers : ClaimSync(w) \/ SyncEnds(w) \/ CrashSync(w)

Fairness == /\ WF_vars(Due) /\ WF_vars(LapseSync)
            /\ WF_vars(\E w \in Syncers : ClaimSync(w))
            /\ \A w \in Syncers : WF_vars(SyncEnds(w))

Spec == Init /\ [][Next]_vars
FairSpec == Spec /\ Fairness

(***************************************************************************)
(* Properties.                                                             *)
(***************************************************************************)
Statuses == {"absent", "pending", "confirmed", "dismissed", "cancelled", "needs_review"}

TypeOK ==
    /\ event \in [alive : BOOLEAN, time : Times]
    /\ integ \in [status : {"connected", "degraded", "reauth_required", "disconnected"},
                  cred : BOOLEAN, due : BOOLEAN, claimed : BOOLEAN]
    /\ {cand, screen} \subseteq [status : Statuses, change : {Nothing, "schedule", "cancel"},
                                 time : Times \cup {Nothing}]
    /\ booking \in [status : {"absent", "live", "cancelled"}, time : Times \cup {Nothing}]
    /\ syncLock \in Syncers \cup {Nothing}
    /\ \A w \in Syncers : sync[w].at \in {"idle", "claimed", "fetched", "ingested"}
    /\ moves <= MaxMoves /\ consents <= MaxConsents /\ upsets <= MaxUpsets

\* A candidate that reads 'confirmed' has the times of its trip: whatever
\* order stale fetches, imports and decisions on an old screen come in, a
\* change of schedule either waits for the owner or has been applied
\* (ingest_onlyevs_calendar_candidates, resolve_onlyevs_calendar_candidate_change).
ConfirmedAgrees ==
    cand.status = "confirmed" /\ booking.status = "live" => cand.time = booking.time

\* An event that moved reaches the owner: unless the trip ends, the candidate
\* is dismissed or the calendar is disconnected, the new times are applied or
\* wait for a decision, through failed requests and dead jobs (processCalendar).
MoveReachesOwner ==
    booking.status = "live" /\ event.alive /\ event.time # booking.time
      ~> \/ booking.status # "live" \/ event.time = booking.time \/ ~event.alive
         \/ cand.status # "confirmed" \/ ~Syncable

\* A cancellation that waits for the owner is not closed by another sync while
\* the trip is live (processCalendar: "Flag a previously confirmed trip for
\* owner review ...; never silently cancel or retain an invisible change").
NeverSilentlyCancelled ==
    [][cand.status = "needs_review" /\ cand'.status = "cancelled"
         => booking'.status # "live"]_vars
=============================================================================

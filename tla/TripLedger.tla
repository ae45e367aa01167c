----------------------------- MODULE TripLedger -----------------------------
(***************************************************************************)
(* What is recorded of one trip: the vehicle's live card as telemetry      *)
(* arrives, the trip's start and end bookends taken from it, the trip's    *)
(* status, and the evidence packet composed when it is completed           *)
(* (services/onlyevs-worker/index.ts: ingestTelemetry, ingestConnectivity, *)
(* sweepTripBookends, captureBookendEdge,                                  *)
(* advanceTripStatusesAndComposePackets, composeTripEvidencePacket).       *)
(*                                                                         *)
(* Every worker runs the same pass, statement by statement; the access     *)
(* job captures bookends of its own; a Kafka record is delivered again     *)
(* when its consumer dies before committing.  The trip is a calendar's,    *)
(* with a grant, or a mail's, without (an owner's is a mail's that no mail *)
(* moves); while the workers run, its schedule is moved and its status     *)
(* written by resolve_onlyevs_calendar_candidate_change,                   *)
(* execute_onlyevs_email_action and cancel_onlyevs_trip.  A reading that   *)
(* only grows, as the odometer does, is the hour it was observed at: a     *)
(* record, the card and a bookend are each represented by that hour.       *)
(***************************************************************************)
EXTENDS Integers, Sequences, FiniteSets

CONSTANTS
    Workers,       \* replicas of onlyevs-worker
    Slots,         \* when the trip may be: [from, to], starts_at and ends_at
    Grace,         \* BOOKEND_END_TRACKING_GRACE_MS
    CardAge,       \* CURRENT_STATS_MAX_EVENT_AGE_MS
    MaxTime,       \* bound: the last hour looked at
    MaxRecords,    \* bound: telemetry records of the vehicle
    MaxCrashes,    \* bound: workers that die
    MaxReschedules \* bound: changes of the schedule, applied or cancelled

ASSUME LedgerAssumption ==
    /\ Slots \subseteq [from : Nat, to : Nat]
    /\ Grace \in Nat /\ CardAge \in Nat
    /\ MaxTime \in Nat /\ MaxRecords \in Nat /\ MaxCrashes \in Nat

VARIABLES
    now,       \* the hour
    records,   \* the vehicle's Kafka partition: what each record observed
    offset,    \* records consumed and committed
    card,      \* onlyevs_vehicle_stats_current
    origin,    \* of a calendar's candidate, or of a mail's
    schedule,  \* onlyevs_trips.starts_at, ends_at
    status,    \* onlyevs_trips.status
    books,     \* private.onlyevs_trip_bookends, by edge
    packets,   \* onlyevs_trip_evidence_packets, by version
    pass,      \* where each worker's pass is, and what it has read
    crashes,
    revised,   \* the status each change of the schedule left the trip in
    reopened   \* how often the trip has left "completed"

vars == <<now, records, offset, card, origin, schedule, status, books, packets,
          pass, crashes, revised, reopened>>

Never == -1                     \* null
Time == 0 .. MaxTime
Edges == {"start", "end"}
Live == {"confirmed", "armed", "active"}
NoBook == -2                    \* no row
Reading == Time \cup {Never}
NoBooks == [e \in Edges |-> NoBook]
Statuses == Live \cup {"cancelled", "completed"}

\* a worker's pass: the reading in hand, the status it is about to write, what
\* the packet it composes froze and the version that came next then
Rest == [at |-> "idle", book |-> Never, aim |-> "confirmed", frozen |-> NoBooks, version |-> 0]

Init ==
    /\ now = 0 /\ records = <<>> /\ offset = 0
    /\ card = Never
    /\ origin \in {"calendar", "mail"} /\ schedule \in Slots
    /\ status = "confirmed"
    /\ books = NoBooks /\ packets = <<>>
    /\ pass = [w \in Workers |-> Rest]
    /\ crashes = 0 /\ revised = <<>> /\ reopened = 0

feed == <<records, offset, card>>
trip == <<origin, schedule, status, revised, reopened>>

(***************************************************************************)
(* The world: time, the trip's calendar, mail and owner, the vehicle.      *)
(***************************************************************************)
Tick == /\ now < MaxTime /\ now' = now + 1
        /\ UNCHANGED <<feed, trip, books, packets, pass, crashes>>

\* the trip's status is written, whatever it was
Becomes(s) ==
    /\ status' = s
    /\ reopened' = IF status = "completed" /\ s # "completed" THEN reopened + 1 ELSE reopened

\* cancel_onlyevs_trip, and a mail's cancel_trip
Cancel == /\ status \in Live /\ Becomes("cancelled")
          /\ UNCHANGED <<now, feed, origin, schedule, revised, books, packets, pass,
                         crashes>>

Revises(s) == Len(revised) < MaxReschedules /\ revised' = Append(revised, s)

\* resolve_onlyevs_calendar_candidate_change, apply: the trip's status follows the
\* clock, without the grace, whatever it was; no event comes back from a
\* cancellation the owner reviewed
Dropped == \E i \in DOMAIN revised : revised[i] = "cancelled"
ByClock(slot) == IF slot.to <= now THEN "completed"
                 ELSE IF slot.from <= now THEN "active" ELSE "confirmed"
Apply ==
    /\ origin = "calendar" /\ ~Dropped
    /\ schedule' \in Slots
    /\ Becomes(ByClock(schedule')) /\ Revises(ByClock(schedule'))
    /\ UNCHANGED <<now, feed, origin, books, packets, pass, crashes>>

\* the same, cancel
Drop ==
    /\ origin = "calendar" /\ ~Dropped
    /\ Becomes("cancelled") /\ Revises("cancelled")
    /\ UNCHANGED <<now, feed, origin, schedule, books, packets, pass, crashes>>

\* execute_onlyevs_email_action, apply_update: the status stays
MailMoves ==
    /\ origin = "mail" /\ status \in Live
    /\ schedule' \in Slots /\ Revises(status)
    /\ UNCHANGED <<now, feed, origin, status, reopened, books, packets, pass, crashes>>

\* The vehicle sends what it saw at some hour: at once, or after an outage.
Observe ==
    /\ Len(records) < MaxRecords
    /\ \E t \in 0 .. now : records' = Append(records, t)
    /\ UNCHANGED <<now, offset, card, trip, books, packets, pass, crashes>>

(***************************************************************************)
(* eachMessage: a record that is recent and not older than the card goes   *)
(* on the card; the offset is committed after that.                        *)
(***************************************************************************)
\* Mutant: a recent record goes on the card whatever the card holds.
MutOnCard(observed) == observed >= now - CardAge

OnCard(observed) == observed >= now - CardAge /\ observed >= card

Ingest ==
    /\ offset < Len(records) /\ offset' = offset + 1
    /\ card' = IF OnCard(records[offset'])
                 THEN records[offset'] ELSE card
    /\ UNCHANGED <<now, records, trip, books, packets, pass, crashes>>

\* the consumer dies before the commit: the records are delivered again
Redeliver ==
    /\ crashes < MaxCrashes /\ crashes' = crashes + 1
    /\ offset > 0 /\ offset' = offset - 1
    /\ UNCHANGED <<now, records, card, trip, books, packets, pass>>

(***************************************************************************)
(* captureBookendEdge: the card is read, the row is written later.         *)
(***************************************************************************)
\* a start is inserted unless there is one, an end is written over
Keep(e, book) == books' = IF e = "start" /\ books[e] # NoBook THEN books
                          ELSE [books EXCEPT ![e] = book]

\* sweepTripBookends, the candidates of either edge
Due(e) == CASE e = "start" -> status \in Live /\ books[e] = NoBook /\ now >= schedule.from
            [] e = "end"   -> /\ status \notin {"cancelled", "completed"}
                              /\ now >= schedule.to /\ now <= schedule.to + Grace

Go(w, next) == pass' = [pass EXCEPT ![w] = next]
To(at) == [Rest EXCEPT !.at = at]
With(at, book) == [To(at) EXCEPT !.book = book]
At(w, at) == pass[w].at = at
still == <<now, feed, trip, packets, crashes>>

SweepStart(w) ==
    /\ At(w, "idle") \/ At(w, "jobs")
    /\ Go(w, IF Due("start") THEN With("start", card) ELSE To("swept"))
    /\ UNCHANGED <<still, books>>

WriteStart(w) == /\ At(w, "start") /\ Keep("start", pass[w].book)
                 /\ Go(w, To("swept")) /\ UNCHANGED still

SweepEnd(w) ==
    /\ At(w, "swept")
    /\ Go(w, IF Due("end") THEN With("end", card) ELSE To("captured"))
    /\ UNCHANGED <<still, books>>

WriteEnd(w) == /\ At(w, "end") /\ Keep("end", pass[w].book)
               /\ Go(w, To("captured")) /\ UNCHANGED still

\* issueAccess and revokeAccess, which the pass starts after its sweeps,
\* capture an edge once Tesla has answered; only a calendar's trip has a grant,
\* and a revocation may be of a schedule that has changed since
JobAt(e) == IF e = "start" THEN "issued" ELSE "revoked"
CaptureOfJob(w, e) ==
    /\ At(w, "jobs") /\ origin = "calendar"
    /\ e = "end" => now >= schedule.to \/ status = "cancelled" \/ revised # <<>>
    /\ Go(w, With(JobAt(e), card)) /\ UNCHANGED <<still, books>>

WriteOfJob(w, e) == /\ At(w, JobAt(e)) /\ Keep(e, pass[w].book)
                    /\ Go(w, To("idle")) /\ UNCHANGED still

(***************************************************************************)
(* advanceTripStatusesAndComposePackets: one update moves the trip.  It    *)
(* takes the status the trip should have from its snapshot and, once it    *)
(* holds the row, looks only at whether the status is another: whatever    *)
(* was written in between is written over.  Only the worker whose update   *)
(* completed the trip composes a packet.  Whether the grant's invitation   *)
(* is ready then is the grant's affair (AccessGrant), and open here.       *)
(***************************************************************************)
Desired(invited) == IF now >= schedule.to + Grace THEN "completed"
                    ELSE IF now >= schedule.from THEN "active"
                    ELSE IF invited THEN "armed" ELSE "confirmed"

\* Mutant: a trip nobody armed is not moved.
MutLate(desired) == status \in {"armed", "active"} /\ status # desired
Behind(desired) == status \in Live /\ status # desired

Look(w) ==
    /\ At(w, "captured")
    /\ \E invited \in {FALSE, origin = "calendar"} :
         LET desired == Desired(invited)
         IN  Go(w, IF Behind(desired) THEN [To("moving") EXCEPT !.aim = desired]
                                        ELSE To("jobs"))
    /\ UNCHANGED <<still, books>>

\* Mutant: the update does not look at the row it holds.
MutMoves(aim) == TRUE
Moves(aim) == status # aim

Move(w) ==
    /\ At(w, "moving")
    /\ LET aim == pass[w].aim
       IN  IF Moves(aim)
             THEN Becomes(aim) /\ Go(w, To(IF aim = "completed" THEN "compose" ELSE "jobs"))
             ELSE UNCHANGED <<status, reopened>> /\ Go(w, To("jobs"))
    /\ UNCHANGED <<now, feed, origin, schedule, revised, books, packets, crashes>>

(***************************************************************************)
(* composeTripEvidencePacket: the bookends are read, then the next version *)
(* is, then the packet is inserted unless that version exists by then.     *)
(* Where another packet came in meanwhile, the version may have been read  *)
(* before it or after.                                                     *)
(***************************************************************************)
Freeze(w) ==
    /\ At(w, "compose")
    /\ Go(w, [To("frozen") EXCEPT !.frozen = books, !.version = Len(packets) + 1])
    /\ UNCHANGED <<still, books>>

Insert(w) ==
    /\ At(w, "frozen")
    /\ \/ packets' = Append(packets, pass[w].frozen)
       \/ Len(packets) >= pass[w].version /\ UNCHANGED packets
    /\ Go(w, To("jobs"))
    /\ UNCHANGED <<now, feed, trip, books, crashes>>

Crash(w) ==
    /\ crashes < MaxCrashes /\ crashes' = crashes + 1
    /\ ~At(w, "idle") /\ ~At(w, "jobs") /\ Go(w, Rest)
    /\ UNCHANGED <<now, feed, trip, books, packets>>

Pass(w) == \/ SweepStart(w) \/ WriteStart(w) \/ SweepEnd(w) \/ WriteEnd(w)
           \/ Look(w) \/ Move(w) \/ Freeze(w) \/ Insert(w)
           \/ \E e \in Edges : WriteOfJob(w, e)

Next ==
    \/ Tick \/ Cancel \/ Apply \/ Drop \/ MailMoves \/ Observe \/ Ingest \/ Redeliver
    \/ \E w \in Workers :
         Pass(w) \/ Crash(w) \/ \E e \in Edges : CaptureOfJob(w, e)

\* time passes, and every worker's loop goes on
Fairness == WF_vars(Tick) /\ \A w \in Workers : WF_vars(Pass(w))

Spec == Init /\ [][Next]_vars
FairSpec == Spec /\ Fairness

(***************************************************************************)
(* Properties.                                                             *)
(***************************************************************************)
TypeOK ==
    /\ now \in Time /\ offset \in 0 .. MaxRecords /\ crashes \in 0 .. MaxCrashes
    /\ records \in Seq(Time) /\ Len(records) <= MaxRecords
    /\ card \in Reading
    /\ origin \in {"calendar", "mail"} /\ schedule \in Slots
    /\ status \in Statuses
    /\ books \in [Edges -> Reading \cup {NoBook}]
    /\ packets \in Seq([Edges -> Reading \cup {NoBook}])
    /\ pass \in [Workers ->
         [at : {"idle", "start", "swept", "end", "captured", "moving", "compose",
                "frozen", "jobs", "issued", "revoked"},
          book : Reading, aim : Live \cup {"completed"},
          frozen : [Edges -> Reading \cup {NoBook}], version : Nat]]
    /\ revised \in Seq(Statuses) /\ Len(revised) <= MaxReschedules
    /\ reopened \in Nat

\* One packet for each time the trip is completed: however many workers sweep at
\* the same time, look at the trip before its calendar or its owner writes it and
\* die, no completion is packaged twice, a trip that was never taken back has one
\* packet at most and none before it is completed, and the pickup a packet froze
\* is the one on record (advanceTripStatusesAndComposePackets,
\* composeTripEvidencePacket).
Composing == {w \in Workers : pass[w].at \in {"compose", "frozen"}}
OncePerCompletion ==
    /\ Len(packets) + Cardinality(Composing)
         <= reopened + IF status = "completed" THEN 1 ELSE 0
    /\ \A i \in DOMAIN packets : packets[i]["start"] \in {NoBook, books["start"]}

\* The pickup is never rewritten and the live card never goes back: the start
\* bookend, once there, stays, and the card's moment and odometer only grow,
\* under late records, redelivery, other workers and the access job
\* (captureBookendEdge's insert_only, ingestTelemetry's monotone upsert).
NothingGoesBack ==
    [][/\ books["start"] # NoBook => books'["start"] = books["start"]
       /\ card' >= card]_<<books, card>>

\* Every confirmed trip is completed in time and gets its packet, wherever its
\* calendar or a mail moves it, unless it is cancelled, the calendar's change was
\* applied after the new end (which completes a trip and composes nothing), or a
\* worker died, perhaps between completing and composing (runOnce).
EveryTripPackaged ==
    status = "confirmed" ~> \/ packets # <<>> \/ status = "cancelled" \/ crashes > 0
                            \/ \E i \in DOMAIN revised : revised[i] = "completed"
=============================================================================

---------------------------- MODULE LocationTrail ----------------------------
(***************************************************************************)
(* Where a vehicle has been: the records of its telemetry stream that      *)
(* carry a location, the trip each is attributed to, the rows they leave   *)
(* in the history and in the location table, and the sweep that deletes    *)
(* both by age (services/onlyevs-worker/index.ts: startTelemetryConsumer,  *)
(* vehicleForVin, ingestTelemetry, sweepRetention;                         *)
(* lib/owner/telemetry-ingest.ts).                                         *)
(*                                                                         *)
(* Trips of one vehicle do not overlap, but the windows of their grants    *)
(* do: each begins two hours early and ends an hour late.  A record may    *)
(* come late, or a little early, be consumed again after a restart, and    *)
(* find its trip agreed to, moved, ended, cancelled or revived meanwhile.  *)
(* When the vehicle is configured to send its location is                  *)
(* TeslaIntegration's part: here it always may.                            *)
(***************************************************************************)
EXTENDS Integers, Sequences, FiniteSets

CONSTANTS
    Spans,        \* the trips in order: [from, to], starts_at and ends_at
    Slots,        \* when the calendar may move one to
    Lead, After,  \* issue_at before the start, revoke_at after the end
    LinkLife,     \* the private link is good this long after the end
    Late, Skew,   \* HISTORY_LATE_EVENT_BACKFILL_MS, MAX_CLOCK_SKEW_MS
    KeepFor,      \* HISTORY_RETENTION_MS, LOCATION_RETENTION_MS, by table
    MaxHour,      \* bound: the last hour looked at
    MaxHeard,     \* bound: records of the stream
    MaxReschedules, \* bound: changes of the calendar applied to a trip
    MaxMishaps    \* bound: failures, deaths and changes of who has the VIN

VARIABLES
    hour,
    spans,     \* per trip: when it was to be, each time it was set
    stays,     \* per trip: not cancelled, consented, its grant has ended
    endedAt,   \* per trip: the hour its access ended, while it is ended
    alone,     \* the vehicle is the one active vehicle with its VIN
    heard,     \* the Kafka partition: when each record was observed
    taken,     \* records consumed
    hand,      \* the record being consumed, and the trip found for it
    kept,      \* rows of both tables
    lastSweep, \* lastRetentionSweepAt
    whole,     \* per table: the last sweep that left nothing overdue
    mishaps

vars == <<hour, spans, stays, endedAt, alone, heard, taken, hand, kept, lastSweep, whole, mishaps>>

Never == -1
Trips == DOMAIN Spans
NoTrip == 0
Tables == {"history", "location"}
Stays == [live : BOOLEAN, agreed : BOOLEAN, over : BOOLEAN]
Idle == [id |-> 0, at |-> Never, trip |-> NoTrip]

Init ==
    /\ hour = 0
    /\ spans = [t \in Trips |-> <<Spans[t]>>]
    /\ stays = [t \in Trips |-> [live |-> TRUE, agreed |-> FALSE, over |-> FALSE]]
    /\ endedAt = [t \in Trips |-> Never]
    /\ alone = TRUE
    /\ heard = <<>> /\ taken = 0 /\ hand = Idle /\ kept = {}
    /\ lastSweep = Never /\ whole = [b \in Tables |-> Never]
    /\ mishaps = 0

stream == <<heard, taken, hand>>
sweep == <<lastSweep, whole>>

Mishap == mishaps < MaxMishaps /\ mishaps' = mishaps + 1

(***************************************************************************)
(* The world.  A record is handled within the hour it is taken in.         *)
(***************************************************************************)
Tick == /\ hour < MaxHour /\ hand = Idle /\ hour' = hour + 1
        /\ UNCHANGED <<spans, stays, endedAt, alone, stream, kept, sweep, mishaps>>

Span(t) == spans[t][Len(spans[t])]

\* what the trip has become, and since when its access is closed, if it is
Becomes(t, stay) ==
    /\ stays' = [stays EXCEPT ![t] = stay]
    /\ endedAt' = [endedAt EXCEPT ![t] = IF stay.live /\ ~stay.over THEN Never
                                         ELSE IF @ # Never THEN @ ELSE hour]

\* complete_onlyevs_guest_onboarding: both consent and completion
Consent(t) ==
    /\ stays[t].live /\ ~stays[t].agreed
    /\ \E i \in DOMAIN spans[t] : hour < spans[t][i].to + LinkLife
    /\ Becomes(t, [stays[t] EXCEPT !.agreed = TRUE])
    /\ UNCHANGED <<hour, spans, alone, stream, kept, sweep, mishaps>>

\* the grant is revoked, expires or fails for good
EndGrant(t) ==
    /\ ~stays[t].over
    /\ Becomes(t, [stays[t] EXCEPT !.over = TRUE])
    /\ UNCHANGED <<hour, spans, alone, stream, kept, sweep, mishaps>>

\* its status is written over: by the worker's catch when what follows the
\* revocation fails, or by a worker whose claim has lapsed
ResumeGrant(t) ==
    /\ stays[t].over /\ Mishap
    /\ Becomes(t, [stays[t] EXCEPT !.over = FALSE])
    /\ UNCHANGED <<hour, spans, alone, stream, kept, sweep>>

\* cancel_onlyevs_trip, or a change reviewed as a cancellation: a grant without an
\* invitation expires
Cancel(t) ==
    /\ stays[t].live
    /\ \E over \in {stays[t].over, TRUE} :
         Becomes(t, [stays[t] EXCEPT !.live = FALSE, !.over = over])
    /\ UNCHANGED <<hour, spans, alone, stream, kept, sweep, mishaps>>

\* no active trip of the vehicle overlaps: one whose end is past may be completed
Free(t, slot) ==
    \A u \in Trips \ {t} :
      LET s == Span(u)
      IN  \/ ~stays[u].live \/ s.to <= hour
          \/ slot.to <= s.from \/ s.to <= slot.from

\* resolve_onlyevs_calendar_candidate_change, apply: whatever the trip's status, it
\* is live again, in a new window, with its grant as it is.  (A trip cancelled in
\* review is not moved again; which of the two cancelled it is not told apart.)
Reschedule(t) ==
    /\ Len(spans[t]) <= MaxReschedules
    /\ \E slot \in Slots : /\ slot.to <= hour \/ Free(t, slot)
                          /\ spans' = [spans EXCEPT ![t] = Append(@, slot)]
    /\ Becomes(t, [stays[t] EXCEPT !.live = TRUE])
    /\ UNCHANGED <<hour, alone, stream, kept, sweep, mishaps>>

\* a record reaches the partition, late or with the car's clock ahead
Hear ==
    /\ Len(heard) < MaxHeard
    /\ \E observed \in 0 .. hour + Skew + 1 : heard' = Append(heard, observed)
    /\ UNCHANGED <<hour, spans, stays, endedAt, alone, taken, hand, kept, sweep, mishaps>>

\* another vehicle with the VIN becomes active, or this one is archived
VinShared == /\ Mishap /\ alone' = ~alone
             /\ UNCHANGED <<hour, spans, stays, endedAt, stream, kept, sweep>>

(***************************************************************************)
(* The consumer: parseTelemetryPayload, then ingestTelemetry.              *)
(***************************************************************************)
InTime(observed) == observed <= hour + Skew /\ observed >= hour - Late

\* on conflict (workspace_id, source_message_id) do nothing
Inserted(row) == IF \E r \in kept : r.table = row.table /\ r.id = row.id
                   THEN kept ELSE kept \cup {row}
Row(b, h) == [table |-> b, id |-> h.id, at |-> h.at, trip |-> h.trip]

Finished == hand' = Idle /\ taken' = taken + 1

Take ==
    /\ hand = Idle /\ taken < Len(heard)
    /\ LET h == [id |-> taken + 1, at |-> heard[taken + 1], trip |-> NoTrip]
       IN  IF InTime(h.at) /\ alone
             THEN hand' = h /\ kept' = Inserted(Row("history", h)) /\ UNCHANGED taken
             ELSE Finished /\ UNCHANGED kept
    /\ UNCHANGED <<hour, spans, stays, endedAt, alone, heard, sweep, mishaps>>

\* starts_at less two hours and ends_at more one, as they are now
Covers(s, observed) == s.from - Lead <= observed /\ observed <= s.to + After

\* Mutant: the lookup leaves the grant's status to its window.
MutAttributable(t, observed) ==
    /\ Covers(Span(t), observed)
    /\ stays[t].live /\ stays[t].agreed
Attributable(t, observed) ==
    /\ Covers(Span(t), observed)
    /\ stays[t].live /\ stays[t].agreed /\ ~stays[t].over

\* one trip, or none: two whose windows overlap are not told apart
Attribute ==
    /\ hand # Idle /\ hand.trip = NoTrip
    /\ LET found == {t \in Trips : Attributable(t, hand.at)}
       IN  \/ \E t \in Trips : /\ found = {t} /\ hand' = [hand EXCEPT !.trip = t]
                               /\ UNCHANGED taken
           \/ (\A t \in Trips : found # {t}) /\ Finished
    /\ UNCHANGED <<hour, spans, stays, endedAt, alone, heard, kept, sweep, mishaps>>

Store == /\ hand.trip # NoTrip
         /\ kept' = Inserted(Row("location", hand)) /\ Finished
         /\ UNCHANGED <<hour, spans, stays, endedAt, alone, heard, sweep, mishaps>>

\* eachMessage catches what ingestTelemetry raises, and moves on
Fails == /\ hand # Idle /\ Mishap /\ Finished
         /\ UNCHANGED <<hour, spans, stays, endedAt, alone, heard, kept, sweep>>

\* the worker dies: its offset goes back to what was committed
Dies == /\ Mishap /\ hand' = Idle /\ lastSweep' = Never
        /\ \E committed \in 0 .. taken : taken' = committed
        /\ UNCHANGED <<hour, spans, stays, endedAt, alone, heard, kept, whole>>

(***************************************************************************)
(* sweepRetention, once an hour: each table in batches, any of which fails.*)
(***************************************************************************)
Overdue(b) == {r \in kept : r.table = b /\ r.at + KeepFor[b] <= hour}

Sweep ==
    /\ lastSweep # hour /\ lastSweep' = hour
    /\ LET due == UNION {Overdue(b) : b \in Tables}
       IN  \E gone \in SUBSET due :
             /\ IF gone = due THEN UNCHANGED mishaps ELSE Mishap
             /\ kept' = kept \ gone
             /\ whole' = [b \in Tables |-> IF Overdue(b) \subseteq gone THEN hour ELSE whole[b]]
    /\ UNCHANGED <<hour, spans, stays, endedAt, alone, stream>>

Next == \/ Tick \/ Hear \/ VinShared \/ Take \/ Attribute \/ Store \/ Fails \/ Dies \/ Sweep
        \/ \E t \in Trips : Consent(t) \/ EndGrant(t) \/ ResumeGrant(t) \/ Cancel(t) \/ Reschedule(t)

Spec == Init /\ [][Next]_vars

(***************************************************************************)
(* Properties.                                                             *)
(***************************************************************************)
TypeOK ==
    /\ hour \in 0 .. MaxHour /\ alone \in BOOLEAN
    /\ spans \in [Trips -> Seq([from : Int, to : Int])] /\ stays \in [Trips -> Stays]
    /\ endedAt \in [Trips -> {Never} \cup 0 .. MaxHour]
    /\ heard \in Seq(0 .. MaxHour + Skew + 1) /\ Len(heard) <= MaxHeard
    /\ taken \in 0 .. Len(heard) /\ mishaps \in 0 .. MaxMishaps
    /\ hand.id \in 0 .. MaxHeard /\ hand.trip \in Trips \cup {NoTrip}
    /\ kept \subseteq [table : Tables, id : 1 .. MaxHeard, at : 0 .. MaxHour + Skew,
                       trip : Trips \cup {NoTrip}]
    /\ lastSweep \in {Never} \cup 0 .. MaxHour
    /\ whole \in [Tables -> {Never} \cup 0 .. MaxHour]

Places == {r \in kept : r.table = "location"}

\* Access that has ended stays ended: while a trip is cancelled or its grant has
\* ended, no location observed after that is kept for it (the parser's allowance
\* for clocks apart), however late the record comes; and none is ever kept without
\* its guest's consent, or observed outside every window the trip has been given
\* ("a straggling location event must still never be attributed", ingestTelemetry).
EndedIsEnded ==
    \A r \in Places : /\ stays[r.trip].agreed
                      /\ \E i \in DOMAIN spans[r.trip] : Covers(spans[r.trip][i], r.at)
                      /\ endedAt[r.trip] = Never \/ r.at <= endedAt[r.trip] + Skew

\* What was swept stays swept: once a sweep has left nothing overdue, no row that
\* was overdue then is found again, though records come late and are consumed
\* again (sweepRetention against the parser's bound).
SweptStaysSwept ==
    \A r \in kept : whole[r.table] = Never \/ r.at + KeepFor[r.table] > whole[r.table]

\* A record is kept once in a table, for one trip, whatever changed between two
\* deliveries of it (source_message_id).
KeptOnce == \A r, s \in kept : r.table = s.table /\ r.id = s.id => r = s

TrailKept == EndedIsEnded /\ SweptStaysSwept /\ KeptOnce
=============================================================================

----------------------------- MODULE VehicleProofs ----------------------------
(***************************************************************************)
(* Theorems about what is kept of a vehicle: no location outlives its      *)
(* trip's access or its age; the page shows its own workspace, forgets all *)
(* it showed at a failure, and says one reason for silence; its charging   *)
(* is cut into the same sessions twice and billed once; and the trip's     *)
(* ledger is packaged at most once each time the trip is completed and     *)
(* never goes back, for any number of workers, records, crashes and        *)
(* changes of the trip's times.  From these and the theorems of the        *)
(* modules it extends: whatever part of the workspace runs keeps to its    *)
(* types.                                                                  *)
(***************************************************************************)
EXTENDS Workspace, GuestProofs, OwnerProofs, InboxProofs, SequenceTheorems,
        FiniteSetTheorems, TLAPS

-----------------------------------------------------------------------------
(* The locations kept.                                                     *)

Hand == [id : 0 .. MaxHeard, at : Int, trip : Trail!Trips \cup {Trail!NoTrip}]
Kept == [table : Trail!Tables, id : 1 .. MaxHeard, at : 0 .. MaxHour + Skew,
         trip : Trail!Trips \cup {Trail!NoTrip}]
Span == [from : Int, to : Int]

\* A location observed then may be kept for the trip: its guest has consented, a
\* window its grant was given covers the moment, and its access, if it is closed, was
\* not closed before.
Fits(t, seen, when, st, ended) ==
  /\ t \in Trail!Trips /\ st[t].agreed
  /\ \E i \in DOMAIN when[t] : Trail!Covers(when[t][i], seen)
  /\ ended[t] = Trail!Never \/ seen <= ended[t] + Skew

\* Access is closed exactly while the trip is cancelled or its grant has ended.
WorldOK ==
  /\ hour \in 0 .. MaxHour /\ alone \in BOOLEAN /\ mishaps \in 0 .. MaxMishaps
  /\ spans \in [Trail!Trips -> Seq(Span)] /\ \A t \in Trail!Trips : Len(spans[t]) > 0
  /\ stays \in [Trail!Trips -> Trail!Stays]
  /\ endedAt \in [Trail!Trips -> {Trail!Never} \cup 0 .. MaxHour]
  /\ \A t \in Trail!Trips : endedAt[t] # Trail!Never => ~stays[t].live \/ stays[t].over

StreamOK ==
  /\ heard \in Seq(0 .. MaxHour + Skew + 1) /\ Len(heard) <= MaxHeard
  /\ taken \in 0 .. Len(heard)
  /\ hand \in Hand
  /\ hand # Trail!Idle => /\ hand.id > 0 /\ hand.at \in 0 .. hour + Skew
                          /\ hand.at >= hour - Late /\ taken < Len(heard)
  /\ hand.trip # Trail!NoTrip => Fits(hand.trip, hand.at, spans, stays, endedAt)

RowsOK ==
  /\ kept \in SUBSET Kept
  /\ \A r \in kept : r.at <= hour + Skew
  /\ \A r \in kept : r.table = "location" => Fits(r.trip, r.at, spans, stays, endedAt)
  /\ Trail!KeptOnce

SweepOK ==
  /\ lastSweep \in {Trail!Never} \cup 0 .. MaxHour
  /\ whole \in [Trail!Tables -> {Trail!Never} \cup 0 .. MaxHour]
  /\ \A b \in Trail!Tables : whole[b] <= hour
  /\ Trail!SweptStaysSwept

TrailOK == WorldOK /\ StreamOK /\ RowsOK /\ SweepOK

LEMMA TrailStep ==
  ASSUME [PartNext]_allVars, Runs("trail")
  PROVE  Trail!Next \/ UNCHANGED trailVars
  BY DEF PartNext, allVars, Runs

LEMMA TrailSame ==
  ASSUME TrailOK, UNCHANGED trailVars
  PROVE  TrailOK'
  BY DEF TrailOK, WorldOK, StreamOK, RowsOK, SweepOK, trailVars, Fits, Trail!KeptOnce,
     Trail!SweptStaysSwept

LEMMA IdleOK == Trail!Idle \in Hand /\ Trail!Idle.trip = Trail!NoTrip
  BY TrailAssumption DEF Trail!Idle, Hand, Trail!Never, Trail!NoTrip

LEMMA TrailInit == PartInit => TrailOK
  <1> SUFFICES ASSUME Trail!Init PROVE TrailOK
    BY DEF PartInit
  <1> USE TrailAssumption DEF Trail!Init, Trail!Never
  <1>1. WorldOK
    <2>1. \A t \in Trail!Trips : Spans[t] \in Span
      <3>1. Spans \in Seq(Span) /\ Trail!Trips = 1 .. Len(Spans)
        BY DEF Trail!Trips, Span
      <3> QED
        BY <3>1, ElementOfSeq
    <2>2. spans \in [Trail!Trips -> Seq(Span)] /\ \A t \in Trail!Trips : Len(spans[t]) > 0
      BY <2>1
    <2>3. stays \in [Trail!Trips -> Trail!Stays]
      BY DEF Trail!Stays
    <2> QED
      BY <2>2, <2>3 DEF WorldOK
  <1>2. StreamOK
    BY IdleOK DEF StreamOK
  <1>3. RowsOK
    BY DEF RowsOK, Trail!KeptOnce
  <1>4. SweepOK
    BY DEF SweepOK, Trail!Tables, Trail!SweptStaysSwept
  <1> QED
    BY <1>1, <1>2, <1>3, <1>4 DEF TrailOK

\* What the world does to a trip leaves what fits: consent and windows stay, and an
\* access that closes now closes after what was seen so far.
LEMMA FitsStay ==
  ASSUME WorldOK, NEW t \in Trail!Trips, NEW new \in Trail!Stays,
         stays[t].agreed => new.agreed, Trail!Becomes(t, new),
         \A w \in Trail!Trips : \A i \in DOMAIN spans[w] :
           i \in DOMAIN spans'[w] /\ spans'[w][i] = spans[w][i],
         NEW u, NEW seen \in Int, seen <= hour + Skew, Fits(u, seen, spans, stays, endedAt)
  PROVE  Fits(u, seen, spans', stays', endedAt')
  <1>1. /\ u \in Trail!Trips /\ stays[u].agreed
        /\ endedAt[u] = Trail!Never \/ seen <= endedAt[u] + Skew
    BY DEF Fits
  <1>2. stays'[u].agreed
    BY <1>1 DEF Trail!Becomes, WorldOK
  <1>3. PICK i \in DOMAIN spans[u] : Trail!Covers(spans[u][i], seen)
    BY DEF Fits
  <1>4. \E j \in DOMAIN spans'[u] : Trail!Covers(spans'[u][j], seen)
    BY <1>1, <1>3
  <1>5. endedAt'[u] \in {Trail!Never, endedAt[u], hour}
    BY <1>1 DEF Trail!Becomes, WorldOK
  <1>6. endedAt'[u] = Trail!Never \/ seen <= endedAt'[u] + Skew
    <2>1. CASE endedAt'[u] = Trail!Never \/ endedAt'[u] = hour
      BY <2>1
    <2>2. CASE endedAt'[u] = endedAt[u]
      BY <1>1, <2>2
    <2> QED
      BY <1>5, <2>1, <2>2
  <1> QED
    BY <1>1, <1>2, <1>4, <1>6 DEF Fits

\* What a trip may become, and when it is then to be.
LEMMA WorldMoves ==
  ASSUME WorldOK, NEW t \in Trail!Trips,
         \/ Trail!Consent(t) \/ Trail!EndGrant(t) \/ Trail!ResumeGrant(t)
         \/ Trail!Cancel(t) \/ Trail!Reschedule(t)
  PROVE  /\ UNCHANGED <<hour, alone, heard, taken, hand, kept, lastSweep, whole>>
         /\ mishaps' = mishaps \/ Trail!Mishap
         /\ \E new \in Trail!Stays : (stays[t].agreed => new.agreed) /\ Trail!Becomes(t, new)
         /\ \/ spans' = spans
            \/ \E slot \in Slots : spans' = [spans EXCEPT ![t] = Append(spans[t], slot)]
  <1>1. stays[t] \in Trail!Stays
    BY DEF WorldOK
  <1>2. \A over \in BOOLEAN :
          /\ [stays[t] EXCEPT !.live = FALSE, !.over = over] \in Trail!Stays
          /\ [stays[t] EXCEPT !.live = FALSE, !.over = over].agreed = stays[t].agreed
    BY <1>1 DEF Trail!Stays
  <1>3. /\ [stays[t] EXCEPT !.agreed = TRUE] \in Trail!Stays
        /\ [stays[t] EXCEPT !.agreed = TRUE].agreed
    BY <1>1 DEF Trail!Stays
  <1>4. \A b \in BOOLEAN :
          /\ [stays[t] EXCEPT !.over = b] \in Trail!Stays
          /\ [stays[t] EXCEPT !.over = b].agreed = stays[t].agreed
    BY <1>1 DEF Trail!Stays
  <1>5. /\ [stays[t] EXCEPT !.live = TRUE] \in Trail!Stays
        /\ [stays[t] EXCEPT !.live = TRUE].agreed = stays[t].agreed
    BY <1>1 DEF Trail!Stays
  <1> USE DEF Trail!stream, Trail!sweep
  <1>6. CASE Trail!Consent(t)
    BY <1>3, <1>6 DEF Trail!Consent
  <1>7. CASE Trail!EndGrant(t)
    BY <1>4, <1>7 DEF Trail!EndGrant
  <1>8. CASE Trail!ResumeGrant(t)
    BY <1>4, <1>8 DEF Trail!ResumeGrant
  <1>9. CASE Trail!Cancel(t)
    <2>1. \A over \in {stays[t].over, TRUE} : over \in BOOLEAN
      BY <1>1 DEF Trail!Stays
    <2> QED
      BY <1>2, <1>9, <2>1 DEF Trail!Cancel
  <1>10. CASE Trail!Reschedule(t)
    BY <1>5, <1>10 DEF Trail!Reschedule
  <1> QED
    BY <1>6, <1>7, <1>8, <1>9, <1>10

LEMMA WorldKeeps ==
  ASSUME TrailOK, NEW t \in Trail!Trips,
         \/ Trail!Consent(t) \/ Trail!EndGrant(t) \/ Trail!ResumeGrant(t)
         \/ Trail!Cancel(t) \/ Trail!Reschedule(t)
  PROVE  TrailOK'
  <1>a. /\ WorldOK /\ hour \in Int /\ hour \in 0 .. MaxHour /\ Skew \in Nat
        /\ \A u \in Trail!Trips : spans[u] \in Seq(Span) /\ Len(spans[u]) > 0
    BY TrailAssumption DEF TrailOK, WorldOK
  <1>1. /\ UNCHANGED <<hour, alone, heard, taken, hand, kept, lastSweep, whole>>
        /\ mishaps' = mishaps \/ Trail!Mishap
    BY <1>a, WorldMoves
  <1>2. PICK new \in Trail!Stays : (stays[t].agreed => new.agreed) /\ Trail!Becomes(t, new)
    BY <1>a, WorldMoves
  <1>3. /\ spans' \in [Trail!Trips -> Seq(Span)]
        /\ \A u \in Trail!Trips : Len(spans'[u]) > 0
        /\ \A u \in Trail!Trips : \A i \in DOMAIN spans[u] :
             i \in DOMAIN spans'[u] /\ spans'[u][i] = spans[u][i]
    <2>1. CASE spans' = spans
      BY <1>a, <2>1 DEF WorldOK
    <2>2. ASSUME NEW slot \in Slots, spans' = [spans EXCEPT ![t] = Append(spans[t], slot)]
          PROVE  <1>3!:
      <3>1. slot \in Span
        BY LedgerAssumption DEF Span
      <3>2. /\ Append(spans[t], slot) \in Seq(Span) /\ Len(Append(spans[t], slot)) > 0
            /\ \A i \in DOMAIN spans[t] : /\ i \in DOMAIN Append(spans[t], slot)
                                          /\ Append(spans[t], slot)[i] = spans[t][i]
        BY <1>a, <3>1
      <3> DEFINE longer == Append(spans[t], slot)
      <3>3. /\ longer \in Seq(Span) /\ Len(longer) > 0
            /\ \A i \in DOMAIN spans[t] : i \in DOMAIN longer /\ longer[i] = spans[t][i]
            /\ spans' = [spans EXCEPT ![t] = longer]
        BY <2>2, <3>2
      <3> HIDE DEF longer
      <3> QED
        BY <1>a, <3>3 DEF WorldOK
    <2> QED
      BY <1>a, <2>1, <2>2, WorldMoves
  <1>4. WorldOK'
    <2>1. mishaps' \in 0 .. MaxMishaps
      BY <1>1, <1>a, TrailAssumption DEF Trail!Mishap, WorldOK
    <2>2. stays' \in [Trail!Trips -> Trail!Stays]
      BY <1>2, <1>a DEF Trail!Becomes, WorldOK
    <2>3. endedAt' \in [Trail!Trips -> {Trail!Never} \cup 0 .. MaxHour]
      BY <1>2, <1>a DEF Trail!Becomes, WorldOK
    <2>4. ASSUME NEW u \in Trail!Trips, endedAt'[u] # Trail!Never
          PROVE  ~stays'[u].live \/ stays'[u].over
      <3>1. CASE u = t
        BY <1>2, <1>a, <2>4, <3>1 DEF Trail!Becomes, WorldOK
      <3>2. CASE u # t
        BY <1>2, <1>a, <2>4, <3>2 DEF Trail!Becomes, WorldOK
      <3> QED
        BY <3>1, <3>2
    <2> QED
      BY <1>1, <1>3, <1>a, <2>1, <2>2, <2>3, <2>4 DEF WorldOK
  <1>5. ASSUME NEW u, NEW seen \in Int, seen <= hour + Skew, Fits(u, seen, spans, stays, endedAt)
        PROVE  Fits(u, seen, spans', stays', endedAt')
    BY <1>a, <1>2, <1>3, <1>5, FitsStay
  <1>6. StreamOK'
    <2>1. hand.trip # Trail!NoTrip => hand.at \in Int /\ hand.at <= hour + Skew
      BY <1>a, IdleOK DEF TrailOK, StreamOK, Hand
    <2> QED
      BY <1>1, <1>5, <2>1 DEF TrailOK, StreamOK
  <1>7. RowsOK'
    <2>1. \A r \in kept : r.at \in Int
      BY DEF TrailOK, RowsOK, Kept
    <2> QED
      BY <1>1, <1>5, <2>1 DEF TrailOK, RowsOK, Trail!KeptOnce
  <1>8. SweepOK'
    BY <1>1 DEF TrailOK, SweepOK, Trail!SweptStaysSwept
  <1> QED
    BY <1>4, <1>6, <1>7, <1>8 DEF TrailOK

\* The sweep's hour is behind every record that may still be kept.
LEMMA InsertedOK ==
  ASSUME TrailOK, NEW r \in Kept, r.at <= hour + Skew, r.at >= hour - Late,
         r.table = "location" => Fits(r.trip, r.at, spans, stays, endedAt),
         kept' = Trail!Inserted(r),
         UNCHANGED <<hour, spans, stays, endedAt, lastSweep, whole>>
  PROVE  RowsOK' /\ SweepOK'
  <1>1. kept' = kept \/ (kept' = kept \cup {r} /\ \A s \in kept : s.table # r.table \/ s.id # r.id)
    BY DEF Trail!Inserted
  <1>2. RowsOK'
    BY <1>1 DEF TrailOK, RowsOK, Trail!KeptOnce
  <1>3. r.at + KeepFor[r.table] > whole[r.table]
    <2>1. /\ r.table \in Trail!Tables /\ r.at \in Int /\ hour \in Int /\ Late \in Int
          /\ KeepFor[r.table] \in Int /\ KeepFor[r.table] > Late
      BY TrailAssumption DEF Kept, Trail!Tables, TrailOK, WorldOK
    <2>2. whole[r.table] \in Int /\ whole[r.table] <= hour
      BY <2>1 DEF TrailOK, SweepOK, Trail!Never
    <2> QED
      BY <2>1, <2>2
  <1>4. SweepOK'
    BY <1>1, <1>3 DEF TrailOK, SweepOK, Trail!SweptStaysSwept
  <1> QED
    BY <1>2, <1>4

LEMMA TrailNext ==
  ASSUME TrailOK, Trail!Next
  PROVE  TrailOK'
  <1> USE TrailAssumption
  <1>a. /\ hour \in Int /\ hour \in 0 .. MaxHour /\ Late \in Int /\ MaxHour \in Int
        /\ hand \in Hand /\ Len(heard) \in Nat /\ taken \in 0 .. Len(heard)
    BY DEF TrailOK, WorldOK, StreamOK
  <1>1. CASE Trail!Tick
    <2>1. /\ hour' = hour + 1 /\ hour' \in 0 .. MaxHour /\ hand = Trail!Idle
          /\ UNCHANGED <<spans, stays, endedAt, alone, heard, taken, hand, kept, lastSweep, whole, mishaps>>
      BY <1>1, <1>a DEF Trail!Tick, Trail!stream, Trail!sweep
    <2>2. WorldOK' /\ StreamOK'
      BY <2>1 DEF TrailOK, WorldOK, StreamOK
    <2>3. RowsOK'
      <3>1. \A r \in kept : r.at \in Int /\ r.at <= hour' + Skew
        BY <1>a, <2>1 DEF TrailOK, RowsOK, Kept
      <3> QED
        BY <2>1, <3>1 DEF TrailOK, RowsOK, Trail!KeptOnce
    <2>4. SweepOK'
      <3>1. \A b \in Trail!Tables : whole[b] \in Int /\ whole[b] <= hour'
        BY <1>a, <2>1 DEF TrailOK, SweepOK, Trail!Never
      <3> QED
        BY <2>1, <3>1 DEF TrailOK, SweepOK, Trail!SweptStaysSwept
    <2> QED
      BY <2>2, <2>3, <2>4 DEF TrailOK
  <1>2. ASSUME UNCHANGED <<hour, spans, stays, endedAt, kept, whole, lastSweep>>,
               alone' \in BOOLEAN, mishaps' \in 0 .. MaxMishaps
        PROVE  WorldOK' /\ RowsOK' /\ SweepOK'
    BY <1>2 DEF TrailOK, WorldOK, RowsOK, SweepOK, Trail!KeptOnce, Trail!SweptStaysSwept
  <1>3. CASE Trail!Hear
    <2>1. PICK observed \in 0 .. MaxHour + Skew + 1 : heard' = Append(heard, observed)
      BY <1>3, <1>a DEF Trail!Hear
    <2>2. /\ UNCHANGED <<hour, spans, stays, endedAt, alone, taken, hand, kept, lastSweep, whole, mishaps>>
          /\ Len(heard) < MaxHeard
      BY <1>3 DEF Trail!Hear, Trail!sweep
    <2>3. /\ heard' \in Seq(0 .. MaxHour + Skew + 1) /\ Len(heard') = Len(heard) + 1
      BY <2>1 DEF TrailOK, StreamOK
    <2>4. StreamOK'
      BY <1>a, <2>2, <2>3 DEF TrailOK, StreamOK
    <2> QED
      BY <1>2, <2>2, <2>4 DEF TrailOK, WorldOK
  <1>4. CASE Trail!VinShared
    BY <1>2, <1>4, <1>a DEF Trail!VinShared, Trail!Mishap, Trail!stream, Trail!sweep, TrailOK,
       WorldOK, StreamOK
  <1>5. CASE Trail!Take
    <2> DEFINE h == [id |-> taken + 1, at |-> heard[taken + 1], trip |-> Trail!NoTrip]
    <2>1. /\ taken < Len(heard) /\ taken + 1 \in 1 .. MaxHeard
          /\ heard[taken + 1] \in 0 .. MaxHour + Skew + 1
          /\ UNCHANGED <<hour, spans, stays, endedAt, alone, heard, lastSweep, whole, mishaps>>
      BY <1>5, <1>a DEF Trail!Take, Trail!sweep, TrailOK, StreamOK
    <2>2. h.id = taken + 1 /\ h.at = heard[taken + 1] /\ h.trip = Trail!NoTrip
      OBVIOUS
    <2>3. h \in Hand
      BY <2>1, <2>2 DEF Hand
    <2>4. CASE /\ Trail!InTime(h.at) /\ hand' = h /\ kept' = Trail!Inserted(Trail!Row("history", h))
               /\ taken' = taken
      <3> DEFINE r == Trail!Row("history", h)
      <3>1. h.at <= hour + Skew /\ h.at >= hour - Late /\ h.at \in 0 .. MaxHour + Skew
        BY <1>a, <2>1, <2>2, <2>4 DEF Trail!InTime
      <3>2. r \in Kept /\ r.table = "history" /\ r.at = h.at
        BY <2>1, <2>2, <3>1 DEF Trail!Row, Kept, Trail!Tables
      <3> HIDE DEF r, h
      <3>3. RowsOK' /\ SweepOK'
        BY <2>1, <2>4, <3>1, <3>2, InsertedOK DEF r
      <3>4. StreamOK'
        BY SMTT(30), <1>a, <2>1, <2>2, <2>3, <2>4, <3>1 DEF TrailOK, StreamOK
      <3> QED
        BY <2>1, <3>3, <3>4 DEF TrailOK, WorldOK
    <2>5. CASE Trail!Finished /\ kept' = kept
      <3>1. StreamOK'
        BY <1>a, <2>1, <2>5, IdleOK DEF TrailOK, StreamOK, Trail!Finished
      <3> QED
        BY <1>2, <2>1, <2>5, <3>1 DEF TrailOK, WorldOK
    <2> QED
      BY <1>5, <2>4, <2>5 DEF Trail!Take
  <1>6. CASE Trail!Attribute
    <2>1. UNCHANGED <<hour, spans, stays, endedAt, alone, heard, kept, lastSweep, whole, mishaps>>
      BY <1>6 DEF Trail!Attribute, Trail!sweep
    <2>2. hand # Trail!Idle /\ hand.trip = Trail!NoTrip
      BY <1>6 DEF Trail!Attribute
    <2>3. ASSUME NEW t \in Trail!Trips, Trail!Attributable(t, hand.at), taken' = taken,
                 hand' = [hand EXCEPT !.trip = t]
          PROVE  TrailOK'
      <3>1. /\ hand' \in Hand /\ hand'.trip = t /\ hand'.at = hand.at /\ hand'.id = hand.id
        BY <1>a, <2>3 DEF Hand
      <3>2. Fits(t, hand.at, spans, stays, endedAt)
        <4>1. Len(spans[t]) \in DOMAIN spans[t]
          BY DEF TrailOK, WorldOK
        <4>2. Trail!Covers(spans[t][Len(spans[t])], hand.at)
          BY <2>3 DEF Trail!Attributable, Trail!Span
        <4>3. stays[t].agreed /\ endedAt[t] = Trail!Never
          BY <2>3 DEF Trail!Attributable, TrailOK, WorldOK
        <4> QED
          BY <4>1, <4>2, <4>3 DEF Fits
      <3>3. StreamOK'
        BY <1>a, <2>1, <2>2, <2>3, <3>1, <3>2 DEF TrailOK, StreamOK
      <3> QED
        BY <1>2, <2>1, <3>3 DEF TrailOK, WorldOK
    <2>4. CASE Trail!Finished
      <3>1. StreamOK'
        BY <1>a, <2>1, <2>2, <2>4, IdleOK DEF TrailOK, StreamOK, Trail!Finished
      <3> QED
        BY <1>2, <2>1, <3>1 DEF TrailOK, WorldOK
    <2> QED
      BY <1>6, <2>3, <2>4 DEF Trail!Attribute
  <1>7. CASE Trail!Store
    <2> DEFINE r == Trail!Row("location", hand)
    <2>1. /\ UNCHANGED <<hour, spans, stays, endedAt, alone, heard, lastSweep, whole, mishaps>>
          /\ kept' = Trail!Inserted(r) /\ Trail!Finished /\ hand.trip # Trail!NoTrip
      BY <1>7 DEF Trail!Store, Trail!sweep
    <2>2. hand # Trail!Idle
      BY <2>1, IdleOK
    <2>3. /\ hand.at \in 0 .. hour + Skew /\ hand.at >= hour - Late /\ hand.id \in 1 .. MaxHeard
          /\ taken < Len(heard) /\ Fits(hand.trip, hand.at, spans, stays, endedAt)
      BY <1>a, <2>1, <2>2 DEF TrailOK, StreamOK, Hand
    <2>4. /\ r \in Kept /\ r.table = "location" /\ r.at = hand.at /\ r.trip = hand.trip
      BY <1>a, <2>3 DEF Trail!Row, Kept, Hand, Trail!Tables
    <2> HIDE DEF r
    <2>5. RowsOK' /\ SweepOK'
      BY <1>a, <2>1, <2>3, <2>4, InsertedOK
    <2>6. StreamOK'
      BY <1>a, <2>1, <2>3, IdleOK DEF TrailOK, StreamOK, Trail!Finished
    <2> QED
      BY <2>1, <2>5, <2>6 DEF TrailOK, WorldOK
  <1>8. ASSUME Trail!Mishap
        PROVE  mishaps' \in 0 .. MaxMishaps
    BY <1>8 DEF Trail!Mishap, TrailOK, WorldOK
  <1>9. CASE Trail!Fails
    <2>1. /\ UNCHANGED <<hour, spans, stays, endedAt, alone, heard, kept, lastSweep, whole>>
          /\ Trail!Finished /\ Trail!Mishap /\ taken < Len(heard)
      BY <1>9 DEF Trail!Fails, Trail!sweep, TrailOK, StreamOK
    <2>2. StreamOK'
      BY <1>a, <2>1, IdleOK DEF TrailOK, StreamOK, Trail!Finished
    <2> QED
      BY <1>2, <1>8, <2>1, <2>2 DEF TrailOK, WorldOK
  <1>10. CASE Trail!Dies
    <2>1. /\ UNCHANGED <<hour, spans, stays, endedAt, alone, heard, kept, whole>>
          /\ hand' = Trail!Idle /\ Trail!Mishap /\ lastSweep' = Trail!Never
          /\ taken' \in 0 .. taken
      BY <1>10 DEF Trail!Dies
    <2>2. StreamOK'
      BY <1>a, <2>1, IdleOK DEF TrailOK, StreamOK
    <2>3. WorldOK' /\ RowsOK'
      BY <1>8, <2>1 DEF TrailOK, WorldOK, RowsOK, Trail!KeptOnce
    <2>4. SweepOK'
      BY <2>1 DEF TrailOK, SweepOK, Trail!SweptStaysSwept
    <2> QED
      BY <2>2, <2>3, <2>4 DEF TrailOK
  <1>11. CASE Trail!Sweep
    <2>1. PICK gone :
            /\ kept' = kept \ gone
            /\ whole' = [b \in Trail!Tables |->
                           IF Trail!Overdue(b) \subseteq gone THEN hour ELSE whole[b]]
            /\ mishaps' = mishaps \/ Trail!Mishap
            /\ lastSweep' = hour
      BY <1>11 DEF Trail!Sweep
    <2>2. UNCHANGED <<hour, spans, stays, endedAt, alone, heard, taken, hand>>
      BY <1>11 DEF Trail!Sweep, Trail!stream
    <2>3. WorldOK' /\ StreamOK'
      BY <1>8, <2>1, <2>2 DEF TrailOK, WorldOK, StreamOK
    <2>4. RowsOK'
      BY <2>1, <2>2 DEF TrailOK, RowsOK, Trail!KeptOnce
    <2>5. /\ whole' \in [Trail!Tables -> {Trail!Never} \cup 0 .. MaxHour]
          /\ \A b \in Trail!Tables : whole'[b] <= hour'
      BY <1>a, <2>1, <2>2 DEF TrailOK, SweepOK
    <2>6. ASSUME NEW r \in kept'
          PROVE  whole'[r.table] = Trail!Never \/ r.at + KeepFor[r.table] > whole'[r.table]
      <3>1. /\ r \in kept /\ r \notin gone /\ r.table \in Trail!Tables /\ r.at \in Int
            /\ KeepFor[r.table] \in Int
        BY <2>1 DEF TrailOK, RowsOK, Kept, Trail!Tables
      <3>2. CASE Trail!Overdue(r.table) \subseteq gone
        BY <1>a, <2>1, <3>1, <3>2 DEF Trail!Overdue
      <3>3. CASE ~(Trail!Overdue(r.table) \subseteq gone)
        BY <2>1, <3>1, <3>3 DEF TrailOK, SweepOK, Trail!SweptStaysSwept
      <3> QED
        BY <3>2, <3>3
    <2>7. SweepOK'
      BY <1>a, <2>1, <2>5, <2>6 DEF SweepOK, Trail!SweptStaysSwept
    <2> QED
      BY <2>3, <2>4, <2>7 DEF TrailOK
  <1>12. ASSUME NEW t \in Trail!Trips,
                \/ Trail!Consent(t) \/ Trail!EndGrant(t) \/ Trail!ResumeGrant(t)
                \/ Trail!Cancel(t) \/ Trail!Reschedule(t)
         PROVE  TrailOK'
    BY <1>12, WorldKeeps
  <1> QED
    BY <1>1, <1>3, <1>4, <1>5, <1>6, <1>7, <1>9, <1>10, <1>11, <1>12 DEF Trail!Next

LEMMA TrailKeeps == TrailOK => Trail!TrailKept
  <1> SUFFICES ASSUME TrailOK PROVE Trail!TrailKept
    OBVIOUS
  <1>1. Trail!EndedIsEnded
    BY DEF TrailOK, RowsOK, Trail!EndedIsEnded, Trail!Places, Fits
  <1> QED
    BY <1>1 DEF TrailOK, RowsOK, SweepOK, Trail!TrailKept

-----------------------------------------------------------------------------
(* The page.                                                               *)

Shown == Page!Said({"loading", "empty", "failed", "data"})
Asked == Page!Said({"none", "snapshot", "stats", "data", "refused"})
Fresh(n) == {m \in Page!Said({"data"}) : m.asked = n}
Numbers == Page!Trips \cup {Page!NoTrip}
Cards == [trip : Numbers, start : Numbers \cup {Page!Unread},
          place : Numbers \cup {Page!Unread}, said : Numbers \cup {Page!Unread}]
Told == {Page!Unread, Page!NoTrip} \cup Agreed

\* A card is of the trip its view names; what it was told is of a consented trip.
CardOf(p, v) ==
  /\ p \in Cards
  /\ p # Page!NoPanel => /\ v.kind = "data" /\ v.trip = p.trip
                         /\ p.start \in {Page!Unread, Page!NoTrip, p.trip}
                         /\ p.place \in Told /\ p.said \in Told

PageTypes ==
  /\ managed \subseteq Sites /\ underway \in Numbers
  /\ site \in Sites /\ mounted \in BOOLEAN /\ fails \in 0 .. MaxFails
ViewOK == view \in Shown /\ (view.kind = "data" => view.asked = fails /\ view.site = site)
MemoOK == memo \in Seq(Fresh(fails)) /\ Len(memo) <= MaxCached
FetchOK == fetch \in Asked /\ (fetch.kind # "none" => fetch.asked = fails /\ fetch.site = site)

\* A page that is not mounted shows and awaits nothing.
AwayOK == mounted \/ (view.kind = "loading" /\ fetch.kind = "none")

PageOK == PageTypes /\ ViewOK /\ MemoOK /\ FetchOK /\ AwayOK /\ CardOf(panel, view)

LEMMA PageStep ==
  ASSUME [PartNext]_allVars, Runs("page")
  PROVE  Page!Next \/ UNCHANGED shownVars
  BY DEF PartNext, allVars, Runs

LEMMA PageSame ==
  ASSUME PageOK, UNCHANGED shownVars
  PROVE  PageOK'
  BY DEF PageOK, PageTypes, ViewOK, MemoOK, FetchOK, AwayOK, CardOf, shownVars

LEMMA BareOK ==
  /\ Page!Loading \in Shown /\ Page!Loading.kind = "loading"
  /\ Page!Empty \in Shown /\ Page!Empty.kind = "empty"
  /\ Page!Failed \in Shown /\ Page!Failed.kind = "failed"
  /\ Page!NoFetch \in Asked /\ Page!NoFetch.kind = "none"
  <1>1. ASSUME NEW K, NEW k \in K
        PROVE  Page!Bare(k) \in Page!Said(K) /\ Page!Bare(k).kind = k
    BY <1>1, PageAssumption DEF Page!Bare, Page!Said, Page!NoTrip
  <1> QED
    BY <1>1 DEF Shown, Asked, Page!Loading, Page!Empty, Page!Failed, Page!NoFetch

LEMMA NoPanelOK == \A v : CardOf(Page!NoPanel, v)
  BY DEF CardOf, Cards, Page!NoPanel, Numbers

LEMMA PageInit == PartInit => PageOK
  <1> SUFFICES ASSUME Page!Init PROVE PageOK
    BY DEF PartInit
  <1>1. PageTypes
    <2>1. 1 \in Page!Trips /\ 0 \in 0 .. MaxFails
      BY PageAssumption DEF Page!Trips
    <2> QED
      BY <2>1 DEF Page!Init, PageTypes, Numbers
  <1>2. ViewOK /\ FetchOK /\ AwayOK /\ CardOf(panel, view)
    BY BareOK, NoPanelOK DEF Page!Init, ViewOK, FetchOK, AwayOK
  <1>3. MemoOK
    BY PageAssumption DEF Page!Init, MemoOK
  <1> QED
    BY <1>1, <1>2, <1>3 DEF PageOK

\* Whatever the page is shown, its card is of the trip shown.
LEMMA PanelOK ==
  ASSUME PageOK, NEW v \in Shown, Page!Panel(v)
  PROVE  CardOf(panel', v)
  <1>1. CardOf(panel, view) /\ v.trip \in Numbers
    BY DEF PageOK, Shown, Page!Said, Numbers
  <1>2. CASE panel' = Page!NoPanel
    BY <1>2, NoPanelOK
  <1>3. CASE panel = Page!NoPanel /\ v.kind = "data" /\ panel' = Page!NewPanel(v.trip)
    <2>1. /\ panel' \in Cards /\ panel'.trip = v.trip /\ panel'.start = Page!Unread
          /\ panel'.place = Page!Unread /\ panel'.said = Page!Unread
      BY <1>1, <1>3 DEF Page!NewPanel, Page!NoPanel, Cards, Numbers
    <2> QED
      BY <1>3, <2>1 DEF CardOf, Told
  <1>4. CASE /\ panel # Page!NoPanel /\ v.kind = "data"
             /\ panel' = [panel EXCEPT !.trip = v.trip, !.start = Page!Unread]
    <2>1. /\ panel' \in Cards /\ panel'.trip = v.trip /\ panel'.start = Page!Unread
          /\ panel'.place = panel.place /\ panel'.said = panel.said
      BY <1>1, <1>4 DEF CardOf, Cards
    <2> QED
      BY <1>1, <1>4, <2>1 DEF CardOf
  <1>5. CASE /\ panel # Page!NoPanel /\ v.kind = "data" /\ panel.trip = v.trip
             /\ panel' = panel
    BY <1>1, <1>5 DEF CardOf
  <1> QED
    BY <1>2, <1>3, <1>4, <1>5 DEF Page!Panel

\* The cache keeps to its bound, and to what was asked since the last failure.
LEMMA CachedOK ==
  ASSUME MemoOK, NEW e \in Fresh(fails)
  PROVE  Page!Cached(e) \in Seq(Fresh(fails)) /\ Len(Page!Cached(e)) <= MaxCached
  <1> DEFINE S == Fresh(fails)
             o == Page!Others(e.site)
             all == Append(o, e)
  <1>1. memo \in Seq(S) /\ Len(memo) \in Nat /\ Len(memo) <= MaxCached /\ MaxCached \in Nat
    BY PageAssumption DEF MemoOK
  <1>2. e \in S
    OBVIOUS
  <1>3. o \in Seq(S) /\ Len(o) \in Nat /\ Len(o) <= MaxCached
    <2> DEFINE own == {i \in DOMAIN memo : memo[i].site = e.site}
               k == CHOOSE i \in own : TRUE
    <2>1. CASE own = {}
      BY <1>1, <2>1 DEF Page!Others
    <2>2. CASE own # {}
      <3>1. k \in 1 .. Len(memo)
        BY <1>1, <2>2
      <3>2. o = SubSeq(memo, 1, k - 1) \o SubSeq(memo, k + 1, Len(memo))
        BY <2>2 DEF Page!Others, Page!RemoveAt
      <3> HIDE DEF S, k, o
      <3> DEFINE a == SubSeq(memo, 1, k - 1)
                 b == SubSeq(memo, k + 1, Len(memo))
      <3>3. a \in Seq(S) /\ Len(a) = k - 1
        BY <1>1, <3>1, SubSeqProperties
      <3>4. b \in Seq(S) /\ Len(b) = Len(memo) - k
        BY <1>1, <3>1, SubSeqProperties
      <3> HIDE DEF a, b
      <3>5. o \in Seq(S) /\ Len(o) = Len(a) + Len(b)
        BY <3>2, <3>3, <3>4, ConcatProperties DEF a, b
      <3> QED
        BY <1>1, <3>1, <3>3, <3>4, <3>5
    <2> QED
      BY <2>1, <2>2
  <1> HIDE DEF S, o
  <1>4. all \in Seq(S) /\ Len(all) = Len(o) + 1
    BY <1>2, <1>3
  <1>5. Tail(all) \in Seq(S) /\ Len(Tail(all)) = Len(o)
    BY <1>3, <1>4, HeadTailProperties
  <1>6. Page!Cached(e) = IF Len(all) > MaxCached THEN Tail(all) ELSE all
    BY DEF Page!Cached, o
  <1> QED
    BY <1>1, <1>3, <1>4, <1>5, <1>6 DEF S

LEMMA PageNext ==
  ASSUME PageOK, Page!Next
  PROVE  PageOK'
  <1>a. /\ PageTypes /\ ViewOK /\ MemoOK /\ FetchOK /\ AwayOK /\ CardOf(panel, view)
        /\ fails \in Int /\ MaxFails \in Int
    BY PageAssumption DEF PageOK, PageTypes
  <1>b. \A s \in Sites : Page!Asking(s) \in Asked /\ Page!Asking(s).asked = fails /\ Page!Asking(s).site = s
    BY <1>a DEF Page!Asking, Asked, Page!Said, PageTypes
  <1>1. ASSUME NEW s \in Sites, Page!Revoke(s)
        PROVE  PageOK'
    BY <1>1 DEF Page!Revoke, PageOK, PageTypes, ViewOK, MemoOK, FetchOK, AwayOK, CardOf
  <1>2. CASE Page!TripEnds
    <2>1. underway' \in Numbers /\ UNCHANGED <<managed, site, mounted, view, memo, fetch, panel, fails>>
      BY <1>2 DEF Page!TripEnds, Numbers
    <2> QED
      BY <2>1 DEF PageOK, PageTypes, ViewOK, MemoOK, FetchOK, AwayOK, CardOf
  <1>3. ASSUME NEW v \in Shown, Page!Show(v), v.kind = "data" => v.asked = fails' /\ v.site = site'
        PROVE  ViewOK' /\ CardOf(panel, view)'
    BY <1>3, PanelOK DEF Page!Show, ViewOK, CardOf
  <1>4. CASE Page!Mount
    <2>1. /\ UNCHANGED <<managed, underway, site, memo, fails>> /\ mounted'
          /\ mounted' \in BOOLEAN /\ fetch' = Page!Asking(site)
      BY <1>4 DEF Page!Mount, Page!server
    <2>2. PageTypes' /\ MemoOK' /\ FetchOK'
      BY <1>a, <1>b, <2>1 DEF PageTypes, MemoOK, FetchOK
    <2>3. PICK v \in Shown : Page!Show(v) /\ (v.kind = "data" => v.asked = fails /\ v.site = site)
      <3>1. CASE Page!Show(Page!Loading)
        BY <3>1, BareOK
      <3>2. ASSUME NEW e \in Page!CachedOf(site), Page!Show(e)
            PROVE  e \in Shown /\ e.asked = fails /\ e.site = site
        <4>1. \A k \in DOMAIN memo : memo[k] \in Fresh(fails)
          BY <1>a DEF MemoOK
        <4>2. e \in Fresh(fails) /\ e.site = site
          BY <3>2, <4>1 DEF Page!CachedOf, Page!ToSet
        <4> QED
          BY <4>2 DEF Fresh, Shown, Page!Said
      <3> QED
        BY <1>4, <3>1, <3>2 DEF Page!Mount
    <2> QED
      BY <1>3, <2>1, <2>2, <2>3 DEF PageOK, AwayOK
  <1>5. CASE Page!Unmount
    <2>1. /\ UNCHANGED <<managed, underway, site, memo, fails>> /\ mounted' \in BOOLEAN
          /\ Page!Show(Page!Loading) /\ fetch' = Page!NoFetch
      BY <1>5 DEF Page!Unmount, Page!server
    <2>2. PageTypes' /\ MemoOK' /\ FetchOK'
      BY <1>a, <2>1, BareOK DEF PageTypes, MemoOK, FetchOK
    <2>3. AwayOK'
      BY <2>1, BareOK DEF AwayOK, Page!Show
    <2> QED
      BY <1>3, <2>1, <2>2, <2>3, BareOK DEF PageOK
  <1>6. ASSUME NEW s \in Sites, Page!Switch(s)
        PROVE  PageOK'
    <2>1. UNCHANGED <<managed, underway, mounted, memo, fails>> /\ site' = s
      BY <1>6 DEF Page!Switch, Page!server
    <2>2. PageTypes' /\ MemoOK'
      BY <1>a, <2>1 DEF PageTypes, MemoOK
    <2>3. CASE mounted
      <3>1. Page!Show(Page!Loading) /\ fetch' = Page!Asking(s)
        BY <1>6, <2>3 DEF Page!Switch
      <3> QED
        BY <1>3, <1>b, <2>1, <2>2, <2>3, <3>1, BareOK DEF PageOK, FetchOK, AwayOK
    <2>4. CASE ~mounted
      <3>1. UNCHANGED <<view, panel, fetch>> /\ view.kind # "data" /\ fetch.kind = "none"
        BY <1>6, <1>a, <2>4 DEF Page!Switch, AwayOK
      <3> QED
        BY <1>a, <2>1, <2>2, <2>4, <3>1 DEF PageOK, ViewOK, FetchOK, AwayOK, CardOf
    <2> QED
      BY <2>3, <2>4
  <1>7. CASE Page!Refresh
    <2>1. /\ UNCHANGED <<managed, underway, site, mounted, memo, panel, fails>>
          /\ mounted /\ view' = (IF view = Page!Failed THEN Page!Empty ELSE view)
          /\ fetch' = Page!Asking(site)
      BY <1>7 DEF Page!Refresh, Page!server
    <2>2. PageTypes' /\ MemoOK' /\ FetchOK'
      BY <1>a, <1>b, <2>1 DEF PageTypes, MemoOK, FetchOK
    <2>3. ViewOK' /\ AwayOK' /\ CardOf(panel, view)'
      BY <1>a, <2>1, BareOK DEF ViewOK, AwayOK, CardOf
    <2> QED
      BY <2>2, <2>3 DEF PageOK
  <1>8. ASSUME UNCHANGED <<managed, underway, site, mounted, view, memo, panel, fails>>,
               fetch' \in Asked, fetch.kind # "none", fetch'.asked = fetch.asked,
               fetch'.site = fetch.site
        PROVE  PageOK'
    BY <1>8 DEF PageOK, PageTypes, ViewOK, MemoOK, FetchOK, AwayOK, CardOf
  <1>9. CASE Page!ReadSnapshot
    <2>1. /\ fetch'.asked = fetch.asked /\ fetch'.site = fetch.site /\ fetch' \in Asked
      BY <1>9, <1>a DEF Page!ReadSnapshot, FetchOK, Asked, Page!Said, PageTypes, Numbers
    <2> QED
      BY <1>8, <1>9, <2>1 DEF Page!ReadSnapshot, Page!server
  <1>10. CASE Page!ReadStats
    <2>1. /\ fetch'.asked = fetch.asked /\ fetch'.site = fetch.site /\ fetch' \in Asked
      BY <1>10, <1>a DEF Page!ReadStats, FetchOK, Asked, Page!Said
    <2> QED
      BY <1>8, <1>10, <2>1 DEF Page!ReadStats, Page!server
  <1>11. CASE Page!Land
    <2>1. /\ UNCHANGED <<managed, underway, site, mounted, fails>> /\ fetch.kind = "data"
          /\ Page!Show(fetch) /\ memo' = Page!Cached(fetch) /\ fetch' = Page!NoFetch
      BY <1>11 DEF Page!Land, Page!server
    <2>2. fetch \in Shown /\ fetch \in Fresh(fails) /\ fetch.asked = fails /\ fetch.site = site
      BY <1>a, <2>1 DEF FetchOK, Asked, Shown, Fresh, Page!Said
    <2>3. PageTypes' /\ MemoOK' /\ FetchOK'
      BY <1>a, <2>1, <2>2, CachedOK, BareOK DEF PageTypes, MemoOK, FetchOK
    <2>4. AwayOK'
      BY <1>a, <2>1, BareOK DEF AwayOK
    <2> QED
      BY <1>3, <2>1, <2>2, <2>3, <2>4 DEF PageOK
  <1>12. CASE Page!LandFails
    <2>1. /\ UNCHANGED <<managed, underway, site, mounted>> /\ fetch.kind = "refused"
          /\ fails < MaxFails /\ fails' = fails + 1
          /\ Page!Show(Page!Failed) /\ memo' = <<>> /\ fetch' = Page!NoFetch
      BY <1>12 DEF Page!LandFails, Page!server, Page!Left
    <2>2. PageTypes' /\ MemoOK' /\ FetchOK'
      BY <1>a, <2>1, BareOK, PageAssumption DEF PageTypes, MemoOK, FetchOK
    <2>3. AwayOK'
      BY <1>a, <2>1, BareOK DEF AwayOK
    <2> QED
      BY <1>3, <2>1, <2>2, <2>3, BareOK DEF PageOK
  <1>13. ASSUME UNCHANGED <<managed, underway, site, mounted, view, memo, fetch, fails>>,
                CardOf(panel', view)
         PROVE  PageOK'
    BY <1>13 DEF PageOK, PageTypes, ViewOK, MemoOK, FetchOK, AwayOK, CardOf
  <1>14. CASE Page!StartRead
    <2>1. /\ panel # Page!NoPanel /\ panel' \in Cards /\ panel'.trip = panel.trip
          /\ panel'.start \in {Page!NoTrip, panel.trip} /\ panel'.place = panel.place
          /\ panel'.said = panel.said
      BY <1>14, <1>a DEF Page!StartRead, Page!OnPanel, CardOf, Cards, Numbers
    <2>2. CardOf(panel', view)
      BY <1>a, <2>1 DEF CardOf
    <2> QED
      BY <1>13, <1>14, <2>2 DEF Page!StartRead, Page!server
  <1>15. CASE Page!PlaceAsked
    <2>1. PICK told \in Page!Evidence(site) : panel' = [panel EXCEPT !.said = told]
      BY <1>15 DEF Page!PlaceAsked
    <2>2. told \in Told /\ told \in Numbers
      BY <1>a, <2>1 DEF Page!Evidence, Told, PageTypes, Numbers
    <2>3. /\ panel # Page!NoPanel /\ panel' \in Cards /\ panel'.trip = panel.trip
          /\ panel'.start = panel.start /\ panel'.place = panel.place /\ panel'.said = told
      BY <1>15, <1>a, <2>1, <2>2 DEF Page!PlaceAsked, Page!OnPanel, CardOf, Cards
    <2>4. CardOf(panel', view)
      BY <1>a, <2>2, <2>3 DEF CardOf
    <2> QED
      BY <1>13, <1>15, <2>4 DEF Page!PlaceAsked, Page!server
  <1>16. CASE Page!PlaceRead
    <2>1. /\ panel # Page!NoPanel /\ panel' \in Cards /\ panel'.trip = panel.trip
          /\ panel'.start = panel.start /\ panel'.place = panel.said
          /\ panel'.said = Page!Unread
      BY <1>16, <1>a DEF Page!PlaceRead, Page!OnPanel, CardOf, Cards
    <2>2. CardOf(panel', view)
      BY <1>a, <2>1 DEF CardOf, Told
    <2> QED
      BY <1>13, <1>16, <2>2 DEF Page!PlaceRead, Page!server
  <1> QED
    BY <1>1, <1>2, <1>4, <1>5, <1>6, <1>7, <1>9, <1>10, <1>11, <1>12, <1>14, <1>15, <1>16
    DEF Page!Next

LEMMA PageKeeps == PageOK => Page!PageHolds
  <1> SUFFICES ASSUME PageOK PROVE Page!PageHolds
    OBVIOUS
  <1>1. \A e \in Page!ToSet(memo) : e.asked = fails
    BY DEF PageOK, MemoOK, Fresh, Page!ToSet
  <1>2. Page!ClosesOnFailure
    BY <1>1 DEF PageOK, ViewOK, Page!ClosesOnFailure
  <1>3. Page!ShowsItsOwn
    BY DEF PageOK, ViewOK, CardOf, Told, Page!ShowsItsOwn, Page!OnPanel
  <1> QED
    BY <1>2, <1>3 DEF Page!PageHolds

-----------------------------------------------------------------------------
(* The notices.                                                            *)

NoticeOK == enrollment \in Notice!Rows \cup {Notice!Unread} /\ streaming \in BOOLEAN

LEMMA NoticeStep ==
  ASSUME [PartNext]_allVars, Runs("notice")
  PROVE  Notice!Next \/ UNCHANGED noticeVars
  BY DEF PartNext, allVars, Runs

LEMMA NoticeNext == ASSUME NoticeOK, Notice!Next \/ UNCHANGED noticeVars PROVE NoticeOK'
  BY DEF NoticeOK, noticeVars, Notice!Next, Notice!ReadRow, Notice!Leave, Notice!Signal

LEMMA NoticeInit == PartInit => NoticeOK
  BY DEF PartInit, NoticeOK, Notice!Init

\* The notices Tesla's reasons for a skip become.
LEMMA SkipsOK ==
  /\ DOMAIN Notice!Skips = {"missing_key", "max_configs", "unsupported_hardware",
                            "unsupported_firmware", "vehicle_skipped"}
  /\ \A c \in DOMAIN Notice!Skips :
       Notice!Skips[c] \in {"needs-pairing", "limit-reached", "unsupported-hardware",
                            "unsupported-firmware", "other-error"}
  BY DEF Notice!Skips

LEMMA NoticeKeeps == NoticeOK => Notice!PanelsAgree
  <1> SUFFICES ASSUME enrollment \in Notice!Rows, enrollment # Notice!Unread, streaming \in BOOLEAN
               PROVE  Notice!PanelsAgree
    BY DEF NoticeOK, Notice!PanelsAgree
  <1> DEFINE cause == Notice!Cause(enrollment)
  <1>1. CASE enrollment = Notice!NoRow
    BY <1>1 DEF Notice!PanelsAgree, Notice!LiveCard, Notice!Strip, Notice!Cause
  <1>2. CASE enrollment # Notice!NoRow
    <2>1. /\ cause # "no-enrollment"
          /\ cause = "deployment-config-blocked" => enrollment.code = "proxy_not_configured"
          /\ cause = "other-error" => enrollment.code # "proxy_not_configured"
          /\ cause \notin {"hidden", "not configured", "failed"}
      BY <1>2, SkipsOK DEF Notice!Cause
    <2> HIDE DEF cause
    <2> QED
      BY <1>2, <2>1 DEF cause, Notice!PanelsAgree, Notice!LiveCard, Notice!Strip
  <1> QED
    BY <1>1, <1>2

-----------------------------------------------------------------------------
LEMMA LocationInvariant ==
  PartSpec => [](/\ Runs("trail") => TrailOK
                 /\ Runs("page") => PageOK
                 /\ Runs("notice") => NoticeOK)
  <1> DEFINE Inv == /\ Runs("trail") => TrailOK
                    /\ Runs("page") => PageOK
                    /\ Runs("notice") => NoticeOK
  <1>1. PartInit => Inv
    BY TrailInit, PageInit, NoticeInit
  <1>2. Inv /\ [PartNext]_allVars => Inv'
    <2> SUFFICES ASSUME Inv, [PartNext]_allVars
                 PROVE  Inv'
      OBVIOUS
    <2>1. which' = which
      BY WhichStays
    <2>2. CASE Runs("trail")
      BY <2>1, <2>2, TrailStep, TrailSame, TrailNext DEF Runs
    <2>3. CASE Runs("page")
      BY <2>1, <2>3, PageStep, PageSame, PageNext DEF Runs
    <2>4. CASE Runs("notice")
      BY <2>1, <2>4, NoticeStep, NoticeNext DEF Runs
    <2> QED
      BY <2>1, <2>2, <2>3, <2>4 DEF Runs
  <1> QED
    BY <1>1, <1>2, PTL DEF PartSpec

\* None of the locations kept of a vehicle outlives its trip's access, or its age once
\* a sweep has been through; the vehicle's page shows the workspace the app is on and
\* nothing it read before a failure, and gives one reason for silence.
THEOREM LocationAlwaysKept == PartSpec => []LocationKept
  <1>1. ASSUME /\ Runs("trail") => TrailOK
               /\ Runs("page") => PageOK
               /\ Runs("notice") => NoticeOK
        PROVE  LocationKept
    BY <1>1, TrailKeeps, PageKeeps, NoticeKeeps DEF LocationKept
  <1> QED
    BY <1>1, LocationInvariant, PTL

-----------------------------------------------------------------------------
(* The charging.  ChargeProofs proves of a ledger alone what follows, where *)
(* the provers see it alone; here it is the workspace's ledger, whose        *)
(* operators are the same ones under another name.                           *)

Sessions == INSTANCE ChargeProofs WITH
              Trips <- BilledTrips, MaxEntries <- MaxCorrections

LEMMA SameMaxMin ==
  /\ \A T : Sessions!Max(T) = Charges!Max(T) /\ Sessions!Min(T) = Charges!Min(T)
  /\ \A T : Sessions!Cardinality(T) = Charges!Cardinality(T)
  BY DEF Sessions!Max, Charges!Max, Sessions!Min, Charges!Min,
     Sessions!Cardinality, Charges!Cardinality

LEMMA SameRowBefore ==
  ASSUME NEW h, NEW t
  PROVE  /\ Sessions!Charging(h, t) <=> Charges!Charging(h, t)
         /\ Sessions!AfterCharging(h, t) <=> Charges!AfterCharging(h, t)
         /\ Sessions!Lag(h, t) = Charges!Lag(h, t)
  BY DEF Sessions!AfterCharging, Charges!AfterCharging,
     Sessions!Charging, Charges!Charging, Sessions!Before, Charges!Before,
     Sessions!Lag, Charges!Lag, Sessions!Max, Charges!Max

LEMMA SameSession ==
  \A from, to, before, after, gap :
    Sessions!Session(from, to, before, after, gap) = Charges!Session(from, to, before, after, gap)
  BY DEF Sessions!Session, Charges!Session, Sessions!TripOf, Charges!TripOf,
     Sessions!FirstAt, Charges!FirstAt, Sessions!Within, Charges!Within,
     Sessions!Min, Charges!Min, Sessions!NoTrip, Charges!NoTrip,
     Sessions!Added, Charges!Added, Sessions!Null, Charges!Null

LEMMA SameSegment == \A h : Sessions!Segment(h) = Charges!Segment(h)
  <1>1. \A h : Sessions!Folded(h) = Charges!Folded(h)
    BY DEF Sessions!Folded, Charges!Folded, Sessions!Point, Charges!Point,
       Sessions!Opened, Charges!Opened, Sessions!Continued, Charges!Continued,
       Sessions!Ended, Charges!Ended, Sessions!Charging, Charges!Charging,
       Sessions!Known, Charges!Known, Sessions!NoOpen, Charges!NoOpen,
       Sessions!Null, Charges!Null, Sessions!Session, Charges!Session,
       Sessions!TripOf, Charges!TripOf, Sessions!FirstAt, Charges!FirstAt,
       Sessions!Within, Charges!Within, Sessions!Min, Charges!Min,
       Sessions!NoTrip, Charges!NoTrip, Sessions!Added, Charges!Added,
       Sessions!Before, Charges!Before, Sessions!Lag, Charges!Lag,
       Sessions!Max, Charges!Max
  <1>2. \A acc : Sessions!Closed(acc) = Charges!Closed(acc)
    BY DEF Sessions!Closed, Charges!Closed, Sessions!Ended, Charges!Ended,
       Sessions!NoOpen, Charges!NoOpen, Sessions!Null, Charges!Null,
       Sessions!Session, Charges!Session, Sessions!TripOf, Charges!TripOf,
       Sessions!FirstAt, Charges!FirstAt, Sessions!Within, Charges!Within,
       Sessions!Min, Charges!Min, Sessions!NoTrip, Charges!NoTrip,
       Sessions!Added, Charges!Added
  <1> QED
    BY <1>1, <1>2, SameMaxMin DEF Sessions!Segment, Charges!Segment

LEMMA SameStarts == \A h : Sessions!Starts(h) = Charges!Starts(h)
  BY SameRowBefore DEF Sessions!Starts, Charges!Starts

LEMMA SameIslandNumber ==
  ASSUME NEW h, NEW t
  PROVE  Sessions!Island(h, t) = Charges!Island(h, t)
  <1>1. {s \in Sessions!Starts(h) : s <= t} = {s \in Charges!Starts(h) : s <= t}
    BY SameStarts
  <1> QED
    BY <1>1, SameMaxMin, SMT DEF Sessions!Island, Charges!Island

LEMMA SameIslandSession ==
  ASSUME NEW h, NEW k
  PROVE  Sessions!IslandSession(h, k) = Charges!IslandSession(h, k)
  <1> DEFINE rows == {t \in DOMAIN h : Charges!Charging(h, t) /\ Charges!Island(h, t) = k}
             closers == {t \in DOMAIN h : ~Charges!Charging(h, t) /\ Charges!Island(h, t) = k}
             read == {t \in rows : h[t].pct # Charges!Null}
             gap == \E t \in rows : Charges!AfterCharging(h, t) /\ t - Charges!Lag(h, t) >= Gap
             pct == IF read = {} THEN Charges!Null ELSE h[Charges!Max(read)].pct
             lo == Charges!Min(rows)
             hi == Charges!Min(closers)
             end == Charges!Known(h[hi].pct, pct)
  <1>1. /\ rows = {t \in DOMAIN h : Sessions!Charging(h, t) /\ Sessions!Island(h, t) = k}
        /\ closers = {t \in DOMAIN h : ~Sessions!Charging(h, t) /\ Sessions!Island(h, t) = k}
    BY SameIslandNumber, SameRowBefore
  <1>2. /\ Sessions!Null = Charges!Null
        /\ \A new, old : Sessions!Known(new, old) = Charges!Known(new, old)
    BY DEF Sessions!Known, Charges!Known, Sessions!Null, Charges!Null
  <1>3. /\ Sessions!Min(rows) = lo /\ Sessions!Max(rows) = Charges!Max(rows)
        /\ Sessions!Min(closers) = hi /\ Sessions!Max(read) = Charges!Max(read)
    BY SameMaxMin
  <1>4. Sessions!IslandSession(h, k) =
          IF closers = {} THEN Sessions!Session(lo, Charges!Max(rows), h[lo].pct, pct, TRUE)
          ELSE Sessions!Session(lo, hi, h[lo].pct, end, gap)
    BY <1>1, <1>2, <1>3, SameRowBefore DEF Sessions!IslandSession
  <1>5. Charges!IslandSession(h, k) =
          IF closers = {} THEN Charges!Session(lo, Charges!Max(rows), h[lo].pct, pct, TRUE)
          ELSE Charges!Session(lo, hi, h[lo].pct, end, gap)
    BY DEF Charges!IslandSession
  <1>6. \A a, b, c, d : /\ Sessions!Session(a, b, c, d, TRUE) = Charges!Session(a, b, c, d, TRUE)
                        /\ Sessions!Session(a, b, c, d, gap) = Charges!Session(a, b, c, d, gap)
    BY SameSession
  <1> HIDE DEF rows, closers, read, gap, pct, lo, hi, end
  <1>7. CASE closers = {}
    BY <1>4, <1>5, <1>6, <1>7
  <1>8. CASE closers # {}
    BY <1>4, <1>5, <1>6, <1>8
  <1> QED
    BY <1>7, <1>8

LEMMA SameIslands == \A h : Sessions!Islands(h) = Charges!Islands(h)
  BY SameStarts, SameIslandSession, SameMaxMin DEF Sessions!Islands, Charges!Islands

LEMMA SameAccounts ==
  /\ \A ids : Sessions!Billed(ids) = Charges!Billed(ids)
  /\ \A all : Sessions!Accounted(all) = Charges!Accounted(all)
  <1>1. \A s, all : Sessions!Matched(s, all) = Charges!Matched(s, all)
    BY DEF Sessions!Matched, Charges!Matched, Sessions!Overlap, Charges!Overlap,
       Sessions!Min, Charges!Min, Sessions!Max, Charges!Max
  <1>2. \A ids : Sessions!Billed(ids) = Charges!Billed(ids)
    BY DEF Sessions!Billed, Charges!Billed, Sessions!SumSet, Charges!SumSet,
       Sessions!FoldSet, Charges!FoldSet, Sessions!MapThenFoldSet, Charges!MapThenFoldSet
  <1>3. \A all : /\ Sessions!Unmatched(all) = Charges!Unmatched(all)
                 /\ Sessions!Overruled(all) = Charges!Overruled(all)
    BY <1>1 DEF Sessions!Unmatched, Charges!Unmatched,
       Sessions!Overruled, Charges!Overruled
  <1>4. \A all : Sessions!MapThenSumSet(LAMBDA s : Sessions!Charged(s, all), all)
                   = Charges!MapThenSumSet(LAMBDA s : Charges!Charged(s, all), all)
    BY DEF Sessions!MapThenSumSet, Charges!MapThenSumSet,
       Sessions!MapThenFoldSet, Charges!MapThenFoldSet, Sessions!Charged, Charges!Charged,
       Sessions!Cost, Charges!Cost, Sessions!Matched, Charges!Matched,
       Sessions!Overlap, Charges!Overlap, Sessions!Min, Charges!Min,
       Sessions!Max, Charges!Max, Sessions!Billed, Charges!Billed,
       Sessions!SumSet, Charges!SumSet, Sessions!FoldSet, Charges!FoldSet,
       Sessions!Priced, Charges!Priced, Sessions!Null, Charges!Null
  <1> QED
    BY <1>2, <1>3, <1>4 DEF Sessions!Accounted, Charges!Accounted

LEMMA SameCharges ==
  /\ Charges!Init => Sessions!Init
  /\ Charges!Next => Sessions!Next
  /\ Sessions!Lockstep /\ Sessions!BilledOnce => Charges!ChargesAgree
  /\ Sessions!StillSettled => Charges!StillSettled
  <1>1. Charges!Init => Sessions!Init
    BY DEF Sessions!Init, Charges!Init
  <1>2. Charges!Next => Sessions!Next
    <2>1. Charges!Observe => Sessions!Observe
      BY SameMaxMin DEF Sessions!Observe, Charges!Observe, Sessions!Null, Charges!Null
    <2> QED
      BY <2>1, SameIslands, SameMaxMin DEF Sessions!Next, Charges!Next,
         Sessions!Sync, Charges!Sync, Sessions!Enter, Charges!Enter
  <1>3. Sessions!Lockstep => Charges!Lockstep
    BY SameSegment, SameIslands DEF Sessions!Lockstep, Charges!Lockstep
  <1>4. Sessions!BilledOnce => Charges!BilledOnce
    BY SameAccounts, SameIslands DEF Sessions!BilledOnce, Charges!BilledOnce
  <1>5. Sessions!StillSettled => Charges!StillSettled
    BY SameSegment, SameIslands DEF Sessions!StillSettled, Charges!StillSettled,
       Sessions!InOrder, Charges!InOrder, Sessions!Settled, Charges!Settled,
       Sessions!Charging, Charges!Charging
  <1> QED
    BY <1>1, <1>2, <1>3, <1>4, <1>5 DEF Charges!ChargesAgree

LEMMA ChargesStep ==
  ASSUME [PartNext]_allVars, Runs("charges")
  PROVE  Charges!Next \/ UNCHANGED chargesVars
  BY DEF PartNext, allVars, Runs

LEMMA ChargesInvariant == PartSpec => [](Runs("charges") => Sessions!ChargesOK)
<1>1. Sessions!Numbers
  BY ChargesAssumption DEF Sessions!Numbers
<1>2. PartInit => (Runs("charges") => Sessions!ChargesOK)
  BY SameCharges, Sessions!ChargesInit DEF PartInit
<1>3. (Runs("charges") => Sessions!ChargesOK) /\ [PartNext]_allVars
        => (Runs("charges") => Sessions!ChargesOK)'
  <2> SUFFICES ASSUME Runs("charges") => Sessions!ChargesOK, [PartNext]_allVars,
                      Runs("charges")'
               PROVE  Sessions!ChargesOK'
    OBVIOUS
  <2>1. Runs("charges")
    BY WhichStays DEF Runs
  <2>2. CASE UNCHANGED chargesVars
    BY <2>1, <2>2 DEF chargesVars, Sessions!ChargesOK, Sessions!History
  <2>3. CASE Charges!Next
    BY <1>1, <2>1, <2>3, SameCharges, Sessions!ChargesNext
  <2> QED
    BY <2>1, <2>2, <2>3, ChargesStep
<1> QED
  BY <1>2, <1>3, PTL DEF PartSpec

\* On every history, read from any moment on, the two segmentations find the same
\* sessions, and what Tesla billed is counted once, for any moments, readings, gap,
\* trips, invoices and windows and a history of any length (lib/owner/charge-sessions.ts,
\* get_onlyevs_charge_sessions, reconcileChargingInvoices).
THEOREM ChargesAlwaysAgree == PartSpec => []ChargesAgree
<1>1. (Runs("charges") => Sessions!ChargesOK) => ChargesAgree
  <2> SUFFICES ASSUME Sessions!ChargesOK PROVE Charges!ChargesAgree
    BY DEF ChargesAgree
  <2>1. Sessions!Lockstep
    BY Sessions!LockstepHolds
  <2>2. Sessions!BilledOnce
    BY ChargesAssumption, Sessions!BilledHolds DEF Sessions!Numbers
  <2> QED
    BY <2>1, <2>2, SameCharges
<1> QED
  BY <1>1, ChargesInvariant, PTL

\* A session that has ended is not rewritten by telemetry that comes in order, and
\* every session's start stays one, so that an owner's entry still finds it, for any
\* moments, readings, gap and trips and a history of any length (segmentChargeSessions,
\* applyManualChargeCostOverrides).
THEOREM SettledAlways == PartSpec => SettledSessionsStay
<1> DEFINE Stays == Runs("charges") => Charges!StillSettled
<1>1. (Runs("charges") => Sessions!ChargesOK) /\ (Runs("charges") => Sessions!ChargesOK)'
        /\ [PartNext]_allVars => [Stays]_history
  <2> SUFFICES ASSUME Runs("charges") => Sessions!ChargesOK,
                      (Runs("charges") => Sessions!ChargesOK)',
                      [PartNext]_allVars, Runs("charges"), history' # history
               PROVE  Charges!StillSettled
    OBVIOUS
  <2>1. Runs("charges")'
    BY WhichStays DEF Runs
  <2>2. Sessions!Next
    BY ChargesStep, SameCharges DEF chargesVars
  <2>3. Sessions!StillSettled
    BY <2>1, <2>2, Sessions!SettledHolds
  <2> QED
    BY <2>3, SameCharges
<1> QED
  BY <1>1, ChargesInvariant, PTL DEF PartSpec, SettledSessionsStay

-----------------------------------------------------------------------------
(* The trip's ledger.                                                      *)

USE DEF Reading, Time, Never, NoBook, Live, Edges

Books == [Edges -> Reading \cup {NoBook}]

\* Where a worker may stand, and with what.
Stops == {"idle", "start", "swept", "end", "captured", "moving", "compose", "frozen", "jobs",
          "issued", "revoked"}
Place == [at : Stops, book : Reading, aim : Live \cup {"completed"}, frozen : Books,
          version : Nat]

LEMMA ToType ==
    ASSUME NEW stop \in Stops
    PROVE  To(stop) \in Place /\ To(stop).at = stop
<1>1. NoBooks \in Books
  BY DEF NoBooks, Books
<1> QED
  BY <1>1 DEF To, Rest, Place, Stops

LEMMA WithType ==
    ASSUME NEW stop \in Stops, NEW book \in Reading
    PROVE  With(stop, book) \in Place /\ With(stop, book).at = stop
BY ToType DEF With, Place

LEMMA GoType ==
    ASSUME NEW w \in Workers, NEW next \in Place, pass \in [Workers -> Place], Go(w, next)
    PROVE  pass' \in [Workers -> Place]
BY DEF Go

LEMMA KeepType ==
    ASSUME NEW e \in Edges, NEW book \in Reading, books \in Books, Keep(e, book)
    PROVE  books' \in Books
BY DEF Keep, Books

\* What the worker read is a reading, wherever it stands.
LEMMA BookRead ==
    ASSUME NEW w \in Workers, pass \in [Workers -> Place] PROVE pass[w].book \in Reading
BY DEF Place

\* What moves a trip writes a status, and counts whether it was completed.
LEMMA BecomesType ==
    ASSUME NEW s \in Statuses, reopened \in Nat, Becomes(s)
    PROVE  status' \in Statuses /\ reopened' \in Nat
BY DEF Becomes

LEMMA RevisesType ==
    ASSUME NEW s \in Statuses, revised \in Seq(Statuses), MaxReschedules \in Nat, Revises(s)
    PROVE  revised' \in Seq(Statuses) /\ Len(revised') <= MaxReschedules
<1>1. Len(revised') = Len(revised) + 1 /\ revised' \in Seq(Statuses)
  BY AppendProperties DEF Revises
<1>2. Len(revised) \in Nat
  BY LenProperties
<1> QED
  BY <1>1, <1>2 DEF Revises

TripTypes ==
    /\ origin \in {"calendar", "mail"} /\ schedule \in Slots
    /\ status \in Statuses
    /\ revised \in Seq(Statuses) /\ Len(revised) <= MaxReschedules
    /\ reopened \in Nat
FeedTypes ==
    /\ now \in Time /\ offset \in 0 .. MaxRecords /\ crashes \in 0 .. MaxCrashes
    /\ records \in Seq(Time) /\ Len(records) <= MaxRecords
    /\ card \in Reading
BookTypes == books \in Books /\ packets \in Seq(Books)

LedgerOK == FeedTypes /\ TripTypes /\ BookTypes /\ pass \in [Workers -> Place]

LEMMA LedgerParts == LedgerOK => TypeOK
BY DEF LedgerOK, TypeOK, FeedTypes, TripTypes, BookTypes, Place, Books, Stops

LEMMA LedgerInit == Init => LedgerOK
<1> USE LedgerAssumption, PortalAssumption
<1> SUFFICES ASSUME Init PROVE LedgerOK
  OBVIOUS
<1>1. FeedTypes
  BY DEF Init, FeedTypes
<1>2. TripTypes
  BY DEF Init, TripTypes, Statuses
<1>3. NoBooks \in Books
  BY DEF NoBooks, Books
<1>4. BookTypes
  BY <1>3 DEF Init, BookTypes
<1>5. pass \in [Workers -> Place]
  <2>1. Rest \in Place
    BY <1>3 DEF Rest, Place, Stops
  <2> QED
    BY <2>1 DEF Init
<1> QED
  BY <1>1, <1>2, <1>4, <1>5 DEF LedgerOK

LEMMA LedgerNext == LedgerOK /\ [Next]_vars => LedgerOK'
<1> USE LedgerAssumption, PortalAssumption
<1> SUFFICES ASSUME LedgerOK, [Next]_vars PROVE LedgerOK'
  OBVIOUS
<1>a. FeedTypes /\ TripTypes /\ BookTypes /\ pass \in [Workers -> Place]
  BY DEF LedgerOK
<1>f. FeedTypes' /\ TripTypes' /\ BookTypes' /\ pass' \in [Workers -> Place] => LedgerOK'
  BY DEF LedgerOK
<1>b. UNCHANGED <<now, feed, crashes>> => FeedTypes'
  BY <1>a DEF feed, FeedTypes
<1>c. UNCHANGED trip => TripTypes'
  BY <1>a DEF trip, TripTypes
<1>d. UNCHANGED <<books, packets>> => BookTypes'
  BY <1>a DEF BookTypes
<1>e. card \in Reading
  BY <1>a DEF FeedTypes
<1>0. CASE UNCHANGED vars
  BY <1>0, <1>a, <1>b, <1>c, <1>d DEF vars, feed, trip, LedgerOK
<1>1. CASE Tick
  <2>1. FeedTypes'
    BY <1>1, <1>a DEF Tick, feed, FeedTypes
  <2> QED
    BY <1>1, <1>f, <1>a, <1>c, <1>d, <2>1 DEF Tick
<1>2. CASE Cancel
  <2>1. TripTypes'
    <3>1. status' \in Statuses /\ reopened' \in Nat
      BY <1>2, <1>a, BecomesType DEF Cancel, TripTypes, Statuses
    <3> QED
      BY <1>2, <1>a, <3>1 DEF Cancel, TripTypes
  <2> QED
    BY <1>2, <1>f, <1>a, <1>b, <1>d, <2>1 DEF Cancel
<1>3. CASE Apply
  <2>1. ByClock(schedule') \in Statuses
    BY DEF ByClock, Statuses
  <2>2. TripTypes'
    <3>1. status' \in Statuses /\ reopened' \in Nat
      BY <1>3, <1>a, <2>1, BecomesType DEF Apply, TripTypes
    <3>2. revised' \in Seq(Statuses) /\ Len(revised') <= MaxReschedules
      BY <1>3, <1>a, <2>1, RevisesType DEF Apply, TripTypes
    <3> QED
      BY <1>3, <1>a, <3>1, <3>2 DEF Apply, TripTypes
  <2> QED
    BY <1>3, <1>f, <1>a, <1>b, <1>d, <2>2 DEF Apply
<1>4. CASE Drop
  <2>1. "cancelled" \in Statuses
    BY DEF Statuses
  <2>2. TripTypes'
    <3>1. status' \in Statuses /\ reopened' \in Nat
      BY <1>4, <1>a, <2>1, BecomesType DEF Drop, TripTypes
    <3>2. revised' \in Seq(Statuses) /\ Len(revised') <= MaxReschedules
      BY <1>4, <1>a, <2>1, RevisesType DEF Drop, TripTypes
    <3> QED
      BY <1>4, <1>a, <3>1, <3>2 DEF Drop, TripTypes
  <2> QED
    BY <1>4, <1>f, <1>a, <1>b, <1>d, <2>2 DEF Drop
<1>5. CASE MailMoves
  <2>1. TripTypes'
    <3>1. revised' \in Seq(Statuses) /\ Len(revised') <= MaxReschedules
      BY <1>5, <1>a, RevisesType DEF MailMoves, TripTypes
    <3> QED
      BY <1>5, <1>a, <3>1 DEF MailMoves, TripTypes
  <2> QED
    BY <1>5, <1>f, <1>a, <1>b, <1>d, <2>1 DEF MailMoves
<1>6. CASE Observe
  <2>1. FeedTypes'
    BY <1>6, <1>a DEF Observe, FeedTypes
  <2> QED
    BY <1>6, <1>f, <1>a, <1>c, <1>d, <2>1 DEF Observe
<1>7. CASE Ingest
  <2>1. offset' \in 1 .. Len(records) /\ records[offset'] \in Time
    BY <1>7, <1>a DEF Ingest, FeedTypes
  <2>2. FeedTypes'
    BY <1>7, <1>a, <2>1 DEF Ingest, FeedTypes
  <2> QED
    BY <1>7, <1>f, <1>a, <1>c, <1>d, <2>2 DEF Ingest
<1>8. CASE Redeliver
  <2>1. FeedTypes'
    BY <1>8, <1>a DEF Redeliver, FeedTypes
  <2> QED
    BY <1>8, <1>f, <1>a, <1>c, <1>d, <2>1 DEF Redeliver
<1>9. ASSUME NEW w \in Workers, NEW next \in Place, Go(w, next), UNCHANGED <<still, books>>
      PROVE  LedgerOK'
  <2>1. pass' \in [Workers -> Place]
    BY <1>9, <1>a, GoType
  <2>2. UNCHANGED <<now, feed, crashes>> /\ UNCHANGED trip /\ UNCHANGED <<books, packets>>
    BY <1>9 DEF still
  <2> QED
    BY <1>b, <1>c, <1>d, <1>f, <2>1, <2>2
<1>10. ASSUME NEW w \in Workers, NEW stop \in Stops, NEW e \in Edges,
              Keep(e, pass[w].book), Go(w, To(stop)), UNCHANGED still
       PROVE  LedgerOK'
  <2>1. pass' \in [Workers -> Place]
    BY <1>10, <1>a, ToType, GoType
  <2>2. books' \in Books
    BY <1>10, <1>a, BookRead, KeepType DEF BookTypes
  <2>3. UNCHANGED <<now, feed, crashes>> /\ UNCHANGED trip /\ UNCHANGED packets
    BY <1>10 DEF still
  <2> QED
    BY <1>a, <1>b, <1>c, <1>f, <2>1, <2>2, <2>3 DEF BookTypes
<1>11. ASSUME NEW w \in Workers, SweepStart(w) \/ SweepEnd(w) PROVE LedgerOK'
  <2>1. PICK next \in {With("start", card), To("swept"), With("end", card), To("captured")} :
          Go(w, next)
    BY <1>11 DEF SweepStart, SweepEnd
  <2>2. next \in Place
    BY <1>e, <2>1, WithType, ToType DEF Stops
  <2> QED
    BY <1>9, <1>11, <2>1, <2>2 DEF SweepStart, SweepEnd
<1>12. ASSUME NEW w \in Workers, WriteStart(w) PROVE LedgerOK'
  <2>1. "swept" \in Stops
    BY DEF Stops
  <2> QED
    BY <1>10, <1>12, <2>1 DEF WriteStart
<1>13. ASSUME NEW w \in Workers, WriteEnd(w) PROVE LedgerOK'
  <2>1. "captured" \in Stops
    BY DEF Stops
  <2> QED
    BY <1>10, <1>13, <2>1 DEF WriteEnd
<1>14. ASSUME NEW w \in Workers, NEW e \in Edges, CaptureOfJob(w, e) PROVE LedgerOK'
  <2>1. JobAt(e) \in Stops
    BY DEF JobAt, Stops
  <2>2. With(JobAt(e), card) \in Place
    BY <1>e, <2>1, WithType
  <2> QED
    BY <1>9, <1>14, <2>2 DEF CaptureOfJob
<1>15. ASSUME NEW w \in Workers, NEW e \in Edges, WriteOfJob(w, e) PROVE LedgerOK'
  <2>1. "idle" \in Stops
    BY DEF Stops
  <2> QED
    BY <1>10, <1>15, <2>1 DEF WriteOfJob
<1>16. ASSUME NEW w \in Workers, Look(w) PROVE LedgerOK'
  <2>1. PICK invited : Go(w, IF Behind(Desired(invited))
                               THEN [To("moving") EXCEPT !.aim = Desired(invited)]
                               ELSE To("jobs"))
    BY <1>16 DEF Look
  <2>2. [To("moving") EXCEPT !.aim = Desired(invited)] \in Place
    <3>1. Desired(invited) \in Live \cup {"completed"}
      BY DEF Desired
    <3>2. To("moving") \in Place
      BY ToType DEF Stops
    <3> QED
      BY <3>1, <3>2 DEF Place
  <2>3. To("jobs") \in Place
    BY ToType DEF Stops
  <2> QED
    BY <1>9, <1>16, <2>1, <2>2, <2>3 DEF Look
<1>17. ASSUME NEW w \in Workers, Move(w) PROVE LedgerOK'
  <2>1. PICK stop \in {"compose", "jobs"} : Go(w, To(stop))
    BY <1>17 DEF Move
  <2>2. pass' \in [Workers -> Place]
    BY <1>a, <2>1, ToType, GoType DEF Stops
  <2>3. status' \in Statuses /\ reopened' \in Nat
    <3>1. pass[w].aim \in Statuses
      BY <1>a DEF Place, Statuses
    <3>2. Becomes(pass[w].aim) \/ UNCHANGED <<status, reopened>>
      BY <1>17 DEF Move
    <3> QED
      BY <1>a, <3>1, <3>2, BecomesType DEF TripTypes
  <2>4. TripTypes'
    BY <1>17, <1>a, <2>3 DEF Move, TripTypes
  <2> QED
    BY <1>17, <1>a, <1>b, <1>d, <1>f, <2>2, <2>4 DEF Move
<1>18. ASSUME NEW w \in Workers, Freeze(w) PROVE LedgerOK'
  <2>1. [To("frozen") EXCEPT !.frozen = books, !.version = Len(packets) + 1] \in Place
    <3>1. To("frozen") \in Place
      BY ToType DEF Stops
    <3>2. books \in Books /\ Len(packets) + 1 \in Nat
      BY <1>a, LenProperties DEF BookTypes
    <3> QED
      BY <3>1, <3>2 DEF Place
  <2> QED
    BY <1>9, <1>18, <2>1 DEF Freeze
<1>19. ASSUME NEW w \in Workers, Insert(w) PROVE LedgerOK'
  <2>1. pass' \in [Workers -> Place]
    BY <1>19, <1>a, ToType, GoType DEF Insert, Stops
  <2>2. pass[w].frozen \in Books
    BY <1>a DEF Place
  <2>3. packets' \in Seq(Books) /\ UNCHANGED books
    BY <1>19, <1>a, <2>2, AppendProperties DEF Insert, BookTypes
  <2> QED
    BY <1>19, <1>a, <1>b, <1>c, <1>f, <2>1, <2>3 DEF Insert, BookTypes
<1>20. ASSUME NEW w \in Workers, Crash(w) PROVE LedgerOK'
  <2>1. Rest \in Place
    BY ToType DEF To, Rest, Stops, Place, NoBooks, Books
  <2>2. pass' \in [Workers -> Place]
    BY <1>20, <1>a, <2>1, GoType DEF Crash
  <2>3. FeedTypes'
    BY <1>20, <1>a DEF Crash, feed, FeedTypes
  <2> QED
    BY <1>20, <1>c, <1>d, <1>f, <2>2, <2>3 DEF Crash
<1> QED
  BY <1>0, <1>1, <1>2, <1>3, <1>4, <1>5, <1>6, <1>7, <1>8, <1>11, <1>12, <1>13, <1>14, <1>15,
     <1>16, <1>17, <1>18, <1>19, <1>20 DEF Next, Pass

\* Every variable keeps to its type through each statement of the worker, the
\* consumer, the calendar, the mail and the owner.
THEOREM LedgerTypes == Spec => []TypeOK
  BY LedgerInit, LedgerNext, LedgerParts, PTL DEF Spec


(***************************************************************************)
(* One packet for each completion.  A trip enters "completed" once more    *)
(* than it has left it while it is there, whoever writes it; a packet is   *)
(* being composed, or is there, only for an entry a worker made.  What a   *)
(* worker has frozen is, as in the packets, the pickup on record.          *)
(***************************************************************************)
Completions == reopened + IF status = "completed" THEN 1 ELSE 0
Pickup == {NoBook, books["start"]}
Packaged ==
    /\ IsFiniteSet(Composing)
    /\ Len(packets) + Cardinality(Composing) <= Completions
    /\ \A i \in DOMAIN packets : packets[i]["start"] \in Pickup
    /\ \A w \in Workers : At(w, "frozen") => pass[w].frozen["start"] \in Pickup

\* Whoever writes the trip's status takes no completion back, and completing a trip
\* that was not adds one.
LEMMA CompletionsGrow ==
    ASSUME NEW s \in Statuses, reopened \in Nat, Becomes(s)
    PROVE  /\ Completions \in Nat /\ Completions' \in Nat /\ Completions' >= Completions
           /\ s = "completed" /\ status # s => Completions' = Completions + 1
BY DEF Becomes, Completions

\* A worker that goes anywhere but to compose composes no more.
LEMMA ComposersShrink ==
    ASSUME NEW w \in Workers, NEW next \in Place, next.at \notin {"compose", "frozen"},
           pass \in [Workers -> Place], Go(w, next), IsFiniteSet(Composing)
    PROVE  /\ Composing' = Composing \ {w} /\ IsFiniteSet(Composing')
           /\ Cardinality(Composing') \in Nat /\ Cardinality(Composing) \in Nat
           /\ Cardinality(Composing') <= Cardinality(Composing)
           /\ w \in Composing => Cardinality(Composing') = Cardinality(Composing) - 1
<1>1. Composing' = Composing \ {w}
  BY DEF Go, Composing
<1>2. IsFiniteSet(Composing') /\ Cardinality(Composing) \in Nat
      /\ Cardinality(Composing') \in Nat
  BY <1>1, FS_CardinalityType, FS_RemoveElement
<1>3. w \in Composing => Cardinality(Composing') = Cardinality(Composing) - 1
  BY <1>1, FS_RemoveElement
<1>4. w \notin Composing => Composing' = Composing
  BY <1>1
<1> QED
  BY <1>1, <1>2, <1>3, <1>4

\* One that goes on composing leaves the composers as they are, and one that begins to
\* is one more.
LEMMA ComposersGrow ==
    ASSUME NEW w \in Workers, NEW next \in Place, next.at \in {"compose", "frozen"},
           pass \in [Workers -> Place], Go(w, next), IsFiniteSet(Composing)
    PROVE  /\ IsFiniteSet(Composing')
           /\ w \in Composing => Composing' = Composing
           /\ w \notin Composing => Cardinality(Composing') = Cardinality(Composing) + 1
<1>1. Composing' = Composing \cup {w}
  BY DEF Go, Composing
<1> QED
  BY <1>1, FS_AddElement

\* The start bookend, once there, is what a packet or a worker froze.
LEMMA FrozenStart ==
    ASSUME NEW e \in Edges, NEW book \in Reading, books \in Books, Keep(e, book),
           NEW frozen, frozen \in Pickup
    PROVE  frozen \in Pickup'
BY DEF Keep, Books, Pickup

\* What composes nothing, takes no completion back and freezes nothing keeps Packaged.
LEMMA StillPackaged ==
    ASSUME LedgerOK, Packaged, NEW w \in Workers, NEW next \in Place,
           next.at \notin {"compose", "frozen"}, Go(w, next), packets' = packets,
           Completions' \in Nat, Completions' >= Completions,
           \A frozen \in Pickup : frozen \in Pickup'
    PROVE  Packaged'
<1>1. pass \in [Workers -> Place] /\ Len(packets) \in Nat /\ Completions \in Nat
  BY LenProperties DEF LedgerOK, BookTypes, TripTypes, Completions
<1>2. /\ IsFiniteSet(Composing') /\ Cardinality(Composing') \in Nat
      /\ Cardinality(Composing) \in Nat /\ Cardinality(Composing') <= Cardinality(Composing)
  BY <1>1, ComposersShrink DEF Packaged
<1>3. Len(packets') + Cardinality(Composing') <= Completions'
  BY <1>1, <1>2 DEF Packaged
<1>4. ASSUME NEW v \in Workers, At(v, "frozen")'
      PROVE  pass'[v].frozen["start"] \in Pickup'
  <2>1. v # w /\ pass'[v] = pass[v]
    BY <1>1, <1>4 DEF Go, At
  <2> QED
    BY <1>4, <2>1 DEF Packaged, At
<1>5. \A i \in DOMAIN packets' : packets'[i]["start"] \in Pickup'
  BY DEF Packaged
<1> QED
  BY <1>2, <1>3, <1>4, <1>5 DEF Packaged

LEMMA PackagedInit == Init => Packaged
<1> SUFFICES ASSUME Init PROVE Packaged
  OBVIOUS
<1>1. Composing = {}
  BY DEF Init, Composing, Rest
<1>2. IsFiniteSet(Composing) /\ Cardinality(Composing) = 0
  BY <1>1, FS_EmptySet
<1>3. Len(packets) = 0 /\ Completions = 0 /\ DOMAIN packets = {}
  BY DEF Init, Completions
<1>4. \A w \in Workers : ~At(w, "frozen")
  BY DEF Init, At, Rest
<1> QED
  BY <1>2, <1>3, <1>4 DEF Packaged

LEMMA PackagedNext == LedgerOK /\ Packaged /\ [Next]_vars => Packaged'
<1> SUFFICES ASSUME LedgerOK, Packaged, [Next]_vars PROVE Packaged'
  OBVIOUS
<1>a. /\ pass \in [Workers -> Place] /\ books \in Books /\ packets \in Seq(Books)
      /\ Len(packets) \in Nat /\ Completions \in Nat /\ reopened \in Nat
      /\ IsFiniteSet(Composing) /\ Cardinality(Composing) \in Nat
  BY LenProperties, FS_CardinalityType DEF LedgerOK, BookTypes, TripTypes, Completions, Packaged
<1>0. ASSUME UNCHANGED <<pass, packets, books>>, Completions' \in Nat,
             Completions' >= Completions
      PROVE  Packaged'
  <2>1. Composing' = Composing /\ Pickup' = Pickup
    BY <1>0 DEF Composing, Pickup
  <2>2. Len(packets') + Cardinality(Composing') <= Completions'
    BY <1>0, <1>a, <2>1 DEF Packaged
  <2> QED
    BY <1>0, <2>1, <2>2 DEF Packaged, At
<1>b. UNCHANGED <<status, reopened>> => Completions' \in Nat /\ Completions' >= Completions
  BY <1>a DEF Completions
<1>1. CASE Tick \/ MailMoves \/ Observe \/ Ingest \/ Redeliver \/ UNCHANGED vars
  BY <1>0, <1>1, <1>b DEF Tick, MailMoves, Observe, Ingest, Redeliver, trip, vars
<1>2. CASE Cancel \/ Apply \/ Drop
  <2>1. PICK s \in Statuses : Becomes(s)
    <3>1. "cancelled" \in Statuses /\ ByClock(schedule') \in Statuses
      BY DEF Statuses, ByClock
    <3> QED
      BY <1>2, <3>1 DEF Cancel, Apply, Drop
  <2>2. Completions' \in Nat /\ Completions' >= Completions
    BY <1>a, <2>1, CompletionsGrow
  <2> QED
    BY <1>0, <1>2, <2>2 DEF Cancel, Apply, Drop
<1>3. ASSUME NEW w \in Workers, NEW next \in Place, next.at \notin {"compose", "frozen"},
             Go(w, next), UNCHANGED <<packets, books, status, reopened>>
      PROVE  Packaged'
  BY <1>3, <1>b, StillPackaged DEF Pickup
<1>4. ASSUME NEW w \in Workers, NEW e \in Edges, NEW stop \in Stops \ {"compose", "frozen"},
             Keep(e, pass[w].book), Go(w, To(stop)), UNCHANGED still
      PROVE  Packaged'
  <2>1. To(stop) \in Place /\ To(stop).at = stop
    BY ToType
  <2>2. UNCHANGED <<packets, status, reopened>>
    BY <1>4 DEF still, trip
  <2>3. \A frozen \in Pickup : frozen \in Pickup'
    BY <1>4, <1>a, BookRead, FrozenStart
  <2> QED
    BY <1>4, <1>b, <2>1, <2>2, <2>3, StillPackaged
<1>5. ASSUME NEW w \in Workers, SweepStart(w) \/ SweepEnd(w) PROVE Packaged'
  <2>1. PICK next \in {With("start", card), To("swept"), With("end", card), To("captured")} :
          Go(w, next)
    BY <1>5 DEF SweepStart, SweepEnd
  <2>2. card \in Reading
    BY DEF LedgerOK, FeedTypes
  <2>3. next \in Place /\ next.at \notin {"compose", "frozen"}
    BY <2>1, <2>2, WithType, ToType DEF Stops
  <2>4. UNCHANGED <<packets, books, status, reopened>>
    BY <1>5 DEF SweepStart, SweepEnd, still, trip
  <2> QED
    BY <1>3, <2>1, <2>3, <2>4
<1>6. ASSUME NEW w \in Workers, WriteStart(w) \/ WriteEnd(w) PROVE Packaged'
  <2>1. {"swept", "captured"} \subseteq Stops \ {"compose", "frozen"}
    BY DEF Stops
  <2> QED
    BY <1>4, <1>6, <2>1 DEF WriteStart, WriteEnd
<1>7. ASSUME NEW w \in Workers, NEW e \in Edges, WriteOfJob(w, e) PROVE Packaged'
  <2>1. "idle" \in Stops \ {"compose", "frozen"}
    BY DEF Stops
  <2> QED
    BY <1>4, <1>7, <2>1 DEF WriteOfJob
<1>8. ASSUME NEW w \in Workers, NEW e \in Edges, CaptureOfJob(w, e) PROVE Packaged'
  <2>1. JobAt(e) \in Stops /\ JobAt(e) \notin {"compose", "frozen"}
    BY DEF JobAt, Stops
  <2>2. card \in Reading
    BY DEF LedgerOK, FeedTypes
  <2>3. With(JobAt(e), card) \in Place /\ With(JobAt(e), card).at = JobAt(e)
    BY <2>1, <2>2, WithType
  <2>4. UNCHANGED <<packets, books, status, reopened>> /\ Go(w, With(JobAt(e), card))
    BY <1>8 DEF CaptureOfJob, still, trip
  <2> QED
    BY <1>3, <2>1, <2>3, <2>4
<1>9. ASSUME NEW w \in Workers, Look(w) PROVE Packaged'
  <2>1. PICK invited : Go(w, IF Behind(Desired(invited))
                               THEN [To("moving") EXCEPT !.aim = Desired(invited)]
                               ELSE To("jobs"))
    BY <1>9 DEF Look
  <2> DEFINE moving == [To("moving") EXCEPT !.aim = Desired(invited)]
  <2>2. moving \in Place /\ moving.at = "moving"
    <3>1. Desired(invited) \in Live \cup {"completed"}
      BY DEF Desired
    <3>2. To("moving") \in Place /\ To("moving").at = "moving"
      BY ToType DEF Stops
    <3> QED
      BY <3>1, <3>2 DEF Place
  <2>3. To("jobs") \in Place /\ To("jobs").at = "jobs"
    BY ToType DEF Stops
  <2> HIDE DEF moving
  <2>4. PICK next \in {moving, To("jobs")} : Go(w, next)
    BY <2>1 DEF moving
  <2>5. UNCHANGED <<packets, books, status, reopened>>
    BY <1>9 DEF Look, still, trip
  <2> QED
    BY <1>3, <2>2, <2>3, <2>4, <2>5
<1>10. ASSUME NEW w \in Workers, Move(w) PROVE Packaged'
  <2> DEFINE aim == pass[w].aim
  <2>1. aim \in Statuses /\ w \notin Composing
    BY <1>10, <1>a DEF Place, Statuses, Move, At, Composing
  <2>2. To("jobs") \in Place /\ To("jobs").at = "jobs"
        /\ To("compose") \in Place /\ To("compose").at = "compose"
    BY ToType DEF Stops
  <2>3. UNCHANGED <<packets, books>>
    BY <1>10 DEF Move
  <2>4. CASE ~Moves(aim)
    <3>1. UNCHANGED <<status, reopened>> /\ Go(w, To("jobs"))
      BY <1>10, <2>4 DEF Move
    <3> QED
      BY <1>3, <2>2, <2>3, <3>1
  <2>5. CASE Moves(aim) /\ aim # "completed"
    <3>1. Becomes(aim) /\ Go(w, To("jobs"))
      BY <1>10, <2>5 DEF Move
    <3>2. Completions' \in Nat /\ Completions' >= Completions
      BY <1>a, <2>1, <3>1, CompletionsGrow
    <3>3. \A frozen \in Pickup : frozen \in Pickup'
      BY <2>3 DEF Pickup
    <3> QED
      BY <2>2, <2>3, <3>1, <3>2, <3>3, StillPackaged
  <2>6. CASE Moves(aim) /\ aim = "completed"
    <3>1. Becomes(aim) /\ Go(w, To("compose")) /\ status # aim
      BY <1>10, <2>6 DEF Move, Moves
    <3>2. Completions' = Completions + 1
      BY <1>a, <2>1, <2>6, <3>1, CompletionsGrow
    <3>3. /\ IsFiniteSet(Composing')
          /\ Cardinality(Composing') = Cardinality(Composing) + 1
      BY <1>a, <2>1, <2>2, <3>1, ComposersGrow
    <3>4. Len(packets') + Cardinality(Composing') <= Completions'
      BY <1>a, <2>3, <3>2, <3>3 DEF Packaged
    <3>5. ASSUME NEW v \in Workers, At(v, "frozen")'
          PROVE  pass'[v].frozen["start"] \in Pickup'
      <4>1. v # w /\ pass'[v] = pass[v]
        BY <1>a, <2>2, <3>1, <3>5 DEF Go, At
      <4> QED
        BY <2>3, <3>5, <4>1 DEF Packaged, At, Pickup
    <3>6. \A i \in DOMAIN packets' : packets'[i]["start"] \in Pickup'
      BY <2>3 DEF Packaged, Pickup
    <3> QED
      BY <3>3, <3>4, <3>5, <3>6 DEF Packaged
  <2> QED
    BY <2>4, <2>5, <2>6
<1>11. ASSUME NEW w \in Workers, Freeze(w) PROVE Packaged'
  <2> DEFINE next == [To("frozen") EXCEPT !.frozen = books, !.version = Len(packets) + 1]
  <2>1. next \in Place /\ next.at = "frozen" /\ next.frozen = books
    <3>1. To("frozen") \in Place /\ To("frozen").at = "frozen"
      BY ToType DEF Stops
    <3> DEFINE held == [To("frozen") EXCEPT !.frozen = books]
    <3>2. held \in Place /\ held.at = "frozen" /\ held.frozen = books
      BY <1>a, <3>1 DEF Place
    <3>3. next = [held EXCEPT !.version = Len(packets) + 1] /\ Len(packets) + 1 \in Nat
      BY <1>a
    <3> HIDE DEF next, held
    <3> QED
      BY <3>2, <3>3 DEF Place
  <2>2. Go(w, next) /\ UNCHANGED <<packets, books, status, reopened>> /\ w \in Composing
    BY <1>11 DEF Freeze, still, trip, At, Composing
  <2> HIDE DEF next
  <2>3. IsFiniteSet(Composing') /\ Composing' = Composing
    BY <1>a, <2>1, <2>2, ComposersGrow
  <2>4. Len(packets') + Cardinality(Composing') <= Completions'
    BY <2>2, <2>3 DEF Packaged, Completions
  <2>5. ASSUME NEW v \in Workers, At(v, "frozen")'
        PROVE  pass'[v].frozen["start"] \in Pickup'
    <3>1. CASE v = w
      BY <1>a, <2>1, <2>2, <3>1 DEF Go, Pickup
    <3>2. CASE v # w
      <4>1. pass'[v] = pass[v]
        BY <1>a, <2>2, <3>2 DEF Go
      <4> QED
        BY <2>2, <2>5, <4>1 DEF Packaged, At, Pickup
    <3> QED
      BY <3>1, <3>2
  <2>6. \A i \in DOMAIN packets' : packets'[i]["start"] \in Pickup'
    BY <2>2 DEF Packaged, Pickup
  <2> QED
    BY <2>3, <2>4, <2>5, <2>6 DEF Packaged
<1>12. ASSUME NEW w \in Workers, Insert(w) PROVE Packaged'
  <2>1. To("jobs") \in Place /\ To("jobs").at = "jobs"
    BY ToType DEF Stops
  <2>2. Go(w, To("jobs")) /\ UNCHANGED <<books, status, reopened>> /\ w \in Composing
    BY <1>12 DEF Insert, trip, At, Composing
  <2>3. CASE packets' = packets
    BY <1>3, <2>1, <2>2, <2>3
  <2>4. CASE packets' = Append(packets, pass[w].frozen)
    <3>1. /\ IsFiniteSet(Composing') /\ Cardinality(Composing') = Cardinality(Composing) - 1
      BY <1>a, <2>1, <2>2, ComposersShrink
    <3>2. pass[w].frozen \in Books /\ pass[w].frozen["start"] \in Pickup
      BY <1>12, <1>a DEF Insert, Place, Packaged
    <3>3. /\ Len(packets') = Len(packets) + 1
          /\ \A i \in DOMAIN packets' : packets'[i] = IF i \in DOMAIN packets THEN packets[i]
                                                      ELSE pass[w].frozen
      BY <1>a, <2>4, <3>2, AppendProperties
    <3>4. Len(packets') + Cardinality(Composing') <= Completions'
      BY <1>a, <2>2, <3>1, <3>3 DEF Packaged, Completions
    <3>5. \A i \in DOMAIN packets' : packets'[i]["start"] \in Pickup'
      BY <2>2, <3>2, <3>3 DEF Packaged, Pickup
    <3>6. ASSUME NEW v \in Workers, At(v, "frozen")'
          PROVE  pass'[v].frozen["start"] \in Pickup'
      <4>1. v # w /\ pass'[v] = pass[v]
        BY <1>a, <2>1, <2>2, <3>6 DEF Go, At
      <4> QED
        BY <2>2, <3>6, <4>1 DEF Packaged, At, Pickup
    <3> QED
      BY <3>1, <3>4, <3>5, <3>6 DEF Packaged
  <2> QED
    BY <1>12, <2>3, <2>4 DEF Insert
<1>13. ASSUME NEW w \in Workers, Crash(w) PROVE Packaged'
  <2>1. Rest \in Place /\ Rest.at = "idle"
    BY DEF Rest, Stops, Place, NoBooks, Books
  <2> QED
    BY <1>3, <1>13, <2>1 DEF Crash, trip
<1> QED
  BY <1>1, <1>2, <1>5, <1>6, <1>7, <1>8, <1>9, <1>10, <1>11, <1>12, <1>13 DEF Next, Pass

\* A completion of the trip is packaged once at most, and with the pickup that is on
\* record, whatever the calendar, a mail, the owner and the other workers write in
\* between (advanceTripStatusesAndComposePackets, composeTripEvidencePacket).
THEOREM OncePerCompletionHolds == Spec => []OncePerCompletion
<1>1. Packaged => OncePerCompletion
  BY DEF Packaged, OncePerCompletion, Completions, Pickup
<1> QED
  BY <1>1, PackagedInit, PackagedNext, LedgerInit, LedgerNext, PTL DEF Spec

\* No step rewrites the start bookend or takes the live card back
\* (captureBookendEdge's insert_only, ingestTelemetry's monotone upsert).
THEOREM NeverBack == Spec => NothingGoesBack
<1> DEFINE Onward == /\ books["start"] # NoBook => books'["start"] = books["start"]
                     /\ card' >= card
<1>1. LedgerOK /\ [Next]_vars => [Onward]_<<books, card>>
  <2> SUFFICES ASSUME LedgerOK, [Next]_vars PROVE Onward
    OBVIOUS
  <2> card \in Int /\ books \in Books
    BY LedgerAssumption DEF LedgerOK, FeedTypes, BookTypes
  <2>1. ASSUME UNCHANGED <<books, card>> PROVE Onward
    BY <2>1
  <2>2. CASE UNCHANGED vars \/ Tick \/ Cancel \/ Apply \/ Drop \/ MailMoves \/ Observe
             \/ Redeliver
    BY <2>1, <2>2 DEF vars, Tick, Cancel, Apply, Drop, MailMoves, Observe, Redeliver, feed
  <2>3. CASE Ingest
    <3>1. card' = card \/ OnCard(card')
      BY <2>3 DEF Ingest
    <3>2. card' \in Int /\ UNCHANGED books
      BY <2>3, LedgerAssumption DEF Ingest, LedgerOK, FeedTypes
    <3> QED
      BY <3>1, <3>2 DEF OnCard
  <2>4. ASSUME NEW e \in Edges, NEW book, Keep(e, book), UNCHANGED card PROVE Onward
    BY <2>4 DEF Keep, Books
  <2>5. ASSUME NEW w \in Workers, Pass(w) PROVE Onward
    BY <2>1, <2>4, <2>5 DEF Pass, SweepStart, WriteStart, SweepEnd, WriteEnd, Look, Move,
       Freeze, Insert, WriteOfJob, still, feed
  <2>6. ASSUME NEW w \in Workers, Crash(w) \/ \E e \in Edges : CaptureOfJob(w, e)
        PROVE  Onward
    BY <2>1, <2>6 DEF Crash, CaptureOfJob, still, feed
  <2> QED
    BY <2>2, <2>3, <2>5, <2>6 DEF Next
<1> QED
  BY <1>1, LedgerInit, LedgerNext, PTL DEF Spec, NothingGoesBack

-----------------------------------------------------------------------------
(* The types of these parts.                                               *)

LEMMA LedgerStep ==
  ASSUME [PartNext]_allVars, Runs("ledger")
  PROVE  [Next]_vars
  BY DEF PartNext, allVars, vars, Runs

LEMMA LedgerTyped == PartSpec => [](Runs("ledger") => LedgerOK)
  <1>1. PartInit => (Runs("ledger") => LedgerOK)
    BY LedgerInit DEF PartInit
  <1>2. (Runs("ledger") => LedgerOK) /\ [PartNext]_allVars => (Runs("ledger") => LedgerOK)'
    BY LedgerStep, LedgerNext, WhichStays DEF Runs
  <1> QED
    BY <1>1, <1>2, PTL DEF PartSpec

\* The charging has the types its own module states, under the other name.
LEMMA SameChargeTypes == Sessions!TypeOK <=> Charges!TypeOK
  BY SameMaxMin DEF Sessions!TypeOK, Charges!TypeOK, Sessions!Null, Charges!Null

LEMMA ChargesTyped == PartSpec => [](Runs("charges") => Sessions!TypeOK)
  <1> DEFINE Sound == Runs("charges") => Sessions!ChargesOK
             Inv == Runs("charges") => Sessions!TypeOK
  <1>1. Sessions!Numbers /\ MaxPoints \in Nat
    BY ChargesAssumption, BoundsAssumption DEF Sessions!Numbers
  <1>2. PartInit => Inv
    BY <1>1, SameCharges, Sessions!TypesInit DEF PartInit
  <1>3. Inv /\ Sound /\ [PartNext]_allVars => Inv'
    <2> SUFFICES ASSUME Inv, Sound, [PartNext]_allVars, Runs("charges")'
                 PROVE  Sessions!TypeOK'
      OBVIOUS
    <2>1. Runs("charges")
      BY WhichStays DEF Runs
    <2>2. CASE UNCHANGED chargesVars
      BY <2>1, <2>2 DEF chargesVars, Sessions!TypeOK
    <2>3. CASE Charges!Next
      BY <1>1, <2>1, <2>3, SameCharges, Sessions!TypesNext
    <2> QED
      BY <2>1, <2>2, <2>3, ChargesStep
  <1> QED
    BY <1>2, <1>3, ChargesInvariant, PTL DEF PartSpec

LEMMA TrailTypes == TrailOK => Trail!TypeOK
  BY TrailAssumption DEF TrailOK, WorldOK, StreamOK, RowsOK, SweepOK, Hand, Kept, Span, Trail!TypeOK

LEMMA PageTyped == PageOK => Page!TypeOK
  <1> SUFFICES ASSUME PageOK PROVE Page!TypeOK
    OBVIOUS
  <1>1. Fresh(fails) \subseteq Page!Said({"data"})
    BY DEF Fresh
  <1>2. memo \in Seq(Page!Said({"data"})) /\ Len(memo) <= MaxCached
    BY <1>1 DEF PageOK, MemoOK
  <1>3. panel \in Cards
    BY DEF PageOK, CardOf
  <1>4. Cards = [trip : Page!Trips \cup {Page!NoTrip},
                 start : Page!Trips \cup {Page!NoTrip, Page!Unread},
                 place : Page!Trips \cup {Page!NoTrip, Page!Unread},
                 said : Page!Trips \cup {Page!NoTrip, Page!Unread}]
    BY DEF Cards, Numbers
  <1> QED
    BY <1>2, <1>3, <1>4 DEF PageOK, PageTypes, ViewOK, FetchOK, Shown, Asked, Numbers,
       Page!TypeOK

\* The tables and states of the trip's ledger, of the locations kept, of the vehicle's
\* page and notices and of its charging stay what their modules say they are, for any
\* workers, times, points, sites and faults (trip-bookends.ts, retention-sweep.ts,
\* useOwnerData, useTelemetryEnrollment, charge-session-repository.ts).
THEOREM VehiclePartsTyped ==
  PartSpec => [](which \in {"ledger", "trail", "page", "notice", "charges"} => PartsTypeOK)
  <1>1. ASSUME which \in {"ledger", "trail", "page", "notice", "charges"},
               Runs("ledger") => LedgerOK, Runs("charges") => Sessions!TypeOK,
               Runs("trail") => TrailOK, Runs("page") => PageOK, Runs("notice") => NoticeOK
        PROVE  PartsTypeOK
    <2>1. CASE which = "ledger"
      BY <1>1, <2>1, LedgerParts DEF PartsTypeOK, Runs
    <2>2. CASE which = "trail"
      BY <1>1, <2>2, TrailTypes DEF PartsTypeOK, Runs
    <2>3. CASE which = "page"
      BY <1>1, <2>3, PageTyped DEF PartsTypeOK, Runs
    <2>4. CASE which = "notice"
      BY <1>1, <2>4 DEF PartsTypeOK, Runs, NoticeOK, Notice!TypeOK
    <2>5. CASE which = "charges"
      BY <1>1, <2>5, SameChargeTypes DEF PartsTypeOK, Runs
    <2> QED
      BY <1>1, <2>1, <2>2, <2>3, <2>4, <2>5
  <1> QED
    BY <1>1, LedgerTyped, ChargesTyped, LocationInvariant, PTL

-----------------------------------------------------------------------------
(* All the parts.                                                          *)

\* Whichever part of the workspace runs, its tables and states stay what its module
\* says they are, for any value of the constants: the parts of the guest, of the owner
\* and of the vehicle, and the Inbox (the tables of supabase/migrations and the states
\* of the pages that read them).
THEOREM PartsTyped == PartSpec => []PartsTypeOK
  <1>1. PartInit => which \in Parts
    BY DEF PartInit
  <1>2. which \in Parts /\ [PartNext]_allVars => (which \in Parts)'
    BY WhichStays
  <1>3. ASSUME which \in Parts,
               which \in {"guest", "progress", "portal", "linking"} => PartsTypeOK,
               which \in {"settings", "domain", "calendar", "fleet", "mail", "connect"}
                 => PartsTypeOK,
               which \in {"ledger", "trail", "page", "notice", "charges"} => PartsTypeOK,
               which \in {"inbox", "card"} => PartsTypeOK
        PROVE  PartsTypeOK
    BY <1>3, PartsAssumption
  <1> QED
    BY <1>1, <1>2, <1>3, GuestPartsTyped, OwnerPartsTyped, VehiclePartsTyped,
       InboxPartsTyped, PTL DEF PartSpec
=============================================================================

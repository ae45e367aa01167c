---------------------------- MODULE ChargeLedger ----------------------------
(***************************************************************************)
(* The charging of one vehicle: its history points as telemetry brings     *)
(* them, late ones too, cut into sessions twice -- by the fold of          *)
(* lib/owner/charge-sessions.ts, for the evidence packet, and by the       *)
(* window functions of get_onlyevs_charge_sessions, for the pages -- the   *)
(* invoices of syncChargingInvoices, and what an owner enters by hand      *)
(* (lib/owner/charge-session-repository.ts).                               *)
(*                                                                         *)
(* A battery reading is a small number and the battery holds 100 kWh, so   *)
(* that kWh are the difference of two readings.                            *)
(***************************************************************************)
EXTENDS Integers, FiniteSets, FiniteSetsExt

CONSTANTS
    Moments,       \* the moments a point is observed at
    Gap,           \* CHARGE_SESSION_GAP_MS
    Readings,      \* battery readings
    Trips,         \* the vehicle's trip windows, [from, to], in starts_at order
    Rate,          \* home_charge_rate_usd_per_kwh
    Invoices,      \* Tesla's invoices, each a number: its id and its amount
    Windows,       \* the windows [from, to] an invoice may state
    MaxPoints,     \* bound: points of the history
    MaxEntries     \* bound: sessions corrected by hand

VARIABLES
    history,   \* onlyevs_vehicle_stats_history, by observed_at
    invoices,  \* onlyevs_charging_invoices, by provider_invoice_id
    entered    \* onlyevs_manual_charge_cost_entries: session_started_at

vars == <<history, invoices, entered>>

Null == -1                      \* null, and the NaN of an unknown kWh
NoTrip == 0

Init == history = <<>> /\ invoices = <<>> /\ entered = {}

(***************************************************************************)
(* Both: the trip a session belongs to, and its kWh.                       *)
(***************************************************************************)
Within(t, w) == w.from <= t /\ t <= w.to

\* attributeTripId: the first window the start is in, else the end
FirstAt(t) == LET hits == {k \in DOMAIN Trips : Within(t, Trips[k])}
              IN  IF hits = {} THEN NoTrip ELSE Min(hits)
TripOf(from, to) == IF FirstAt(from) # NoTrip THEN FirstAt(from) ELSE FirstAt(to)

\* kWhFromBatteryDelta
Added(before, after) == IF Null \in {before, after} THEN Null
                        ELSE IF after > before THEN after - before ELSE 0

Session(from, to, before, after, gap) ==
    [from |-> from, to |-> to, trip |-> TripOf(from, to),
     kwh |-> Added(before, after), gap |-> gap]

Charging(h, t) == h[t].state = "on"
Known(pct, old) == IF pct = Null THEN old ELSE pct

\* the points before a point, and the last of them
Before(h, t) == {u \in DOMAIN h : u < t}
Lag(h, t) == Max(Before(h, t))

(***************************************************************************)
(* segmentChargeSessions, a fold over the points in their order: what is    *)
(* open and what is done after each.                                       *)
(***************************************************************************)
NoOpen == [from |-> Null, last |-> Null, before |-> Null, after |-> Null, gap |-> FALSE]

Opened(h, from, t) == [from |-> from, last |-> t, before |-> h[from].pct,
                       after |-> h[t].pct, gap |-> FALSE]
Continued(h, t, o) == [o EXCEPT !.gap = @ \/ t - o.last >= Gap, !.last = t,
                                !.after = Known(h[t].pct, @)]
Ended(o, to, after, gap) == Session(o.from, to, o.before, after, gap)

\* Mutant: charging that starts again soon after a session goes on with it.
MutPoint(h, t, acc) ==
    LET o == acc.open  again == {s \in acc.done : t - s.to < Gap}
    IN  IF Charging(h, t) /\ o = NoOpen /\ again # {}
          THEN [open |-> Opened(h, Min({s.from : s \in again}), t), done |-> acc.done \ again]
        ELSE IF Charging(h, t)
          THEN [acc EXCEPT !.open = IF o = NoOpen THEN Opened(h, t, t) ELSE Continued(h, t, o)]
        ELSE IF o = NoOpen THEN acc
        ELSE [open |-> NoOpen, done |-> acc.done \cup {Ended(o, t, Known(h[t].pct, o.after), o.gap)}]

Point(h, t, acc) ==
    LET o == acc.open
    IN  IF Charging(h, t)
          THEN [acc EXCEPT !.open = IF o = NoOpen THEN Opened(h, t, t) ELSE Continued(h, t, o)]
        ELSE IF o = NoOpen THEN acc
        ELSE [open |-> NoOpen, done |-> acc.done \cup {Ended(o, t, Known(h[t].pct, o.after), o.gap)}]

Folded(h) ==
    LET acc[t \in DOMAIN h] ==
          Point(h, t, IF Before(h, t) = {} THEN [open |-> NoOpen, done |-> {}]
                      ELSE acc[Lag(h, t)])
    IN  acc

\* what is still open when the points end has no end that is sure
Closed(acc) == IF acc.open = NoOpen THEN acc.done
               ELSE acc.done \cup {Ended(acc.open, acc.open.last, acc.open.after, TRUE)}
Segment(h) == IF DOMAIN h = {} THEN {} ELSE Closed(Folded(h)[Max(DOMAIN h)])

(***************************************************************************)
(* get_onlyevs_charge_sessions: islands of charging rows.                  *)
(***************************************************************************)
AfterCharging(h, t) == Before(h, t) # {} /\ Charging(h, Lag(h, t))
Starts(h) == {t \in DOMAIN h : Charging(h, t) /\ ~AfterCharging(h, t)}
Island(h, t) == Cardinality({s \in Starts(h) : s <= t})

IslandSession(h, k) ==
    LET rows    == {t \in DOMAIN h : Charging(h, t) /\ Island(h, t) = k}
        read    == {t \in rows : h[t].pct # Null}
        closers == {t \in DOMAIN h : ~Charging(h, t) /\ Island(h, t) = k}
        lastPct == IF read = {} THEN Null ELSE h[Max(read)].pct
        gap     == \E t \in rows : AfterCharging(h, t) /\ t - Lag(h, t) >= Gap
    IN  IF closers = {} THEN Session(Min(rows), Max(rows), h[Min(rows)].pct, lastPct, TRUE)
        ELSE Session(Min(rows), Min(closers), h[Min(rows)].pct,
                     Known(h[Min(closers)].pct, lastPct), gap)

\* Mutant: the end of a session is its last charging row's reading.
MutIslands(h) ==
    {[IslandSession(h, k) EXCEPT !.kwh = Added(h[IslandSession(h, k).from].pct,
        h[Max({t \in DOMAIN h : Charging(h, t) /\ Island(h, t) = k})].pct)] :
        k \in 1 .. Cardinality(Starts(h))}
Islands(h) == {IslandSession(h, k) : k \in 1 .. Cardinality(Starts(h))}

(***************************************************************************)
(* What a session costs.                                                   *)
(***************************************************************************)
\* reconcileHomeRateCost
Priced(s) == IF s.gap \/ s.kwh = Null THEN [by |-> "none", usd |-> 0]
             ELSE [by |-> "rate", usd |-> s.kwh * Rate]

\* overlapDurationMs and bestOverlappingSessionIndex: the longest overlap,
\* the earlier session of two that tie
Overlap(s, w) == IF s.from <= w.to /\ w.from <= s.to
                   THEN Min({s.to, w.to}) - Max({s.from, w.from}) ELSE -1

Matched(s, all) ==
    {i \in DOMAIN invoices :
        LET here == Overlap(s, invoices[i])
        IN  /\ here >= 0
            /\ \A r \in all \ {s} : IF r.from < s.from THEN Overlap(r, invoices[i]) < here
                                    ELSE Overlap(r, invoices[i]) <= here}
Unmatched(all) == {i \in DOMAIN invoices : \A s \in all : i \notin Matched(s, all)}
Billed(ids) == SumSet(ids)

\* fetchWorkspaceChargeSessions: an entry over an invoice over the rate
Cost(s, all) ==
    IF s.from \in entered THEN [by |-> "manual", usd |-> 0]
    ELSE IF Matched(s, all) # {} THEN [by |-> "invoice", usd |-> Billed(Matched(s, all))]
    ELSE Priced(s)

(***************************************************************************)
(* ingestTelemetry: a point at any moment, in any order; DetailedChargeState*)
(* may not be in the record.                                               *)
(***************************************************************************)
Observe ==
    /\ Cardinality(DOMAIN history) < MaxPoints
    /\ \E t \in Moments \ DOMAIN history :
       \E state \in {"on", "off", "silent"}, pct \in Readings \cup {Null} :
         history' = [u \in DOMAIN history \cup {t} |->
                       IF u = t THEN [state |-> state, pct |-> pct] ELSE history[u]]
    /\ UNCHANGED <<invoices, entered>>

\* syncChargingInvoices: the upsert of one row, which may state it anew
Sync ==
    /\ \E i \in Invoices, w \in Windows :
         invoices' = [j \in DOMAIN invoices \cup {i} |-> IF j = i THEN w ELSE invoices[j]]
    /\ UNCHANGED <<history, entered>>

\* saveManualChargeCostOverride, on a session the page shows
Enter ==
    /\ Cardinality(entered) < MaxEntries
    /\ \E s \in Islands(history) : entered' = entered \cup {s.from}
    /\ UNCHANGED <<history, invoices>>

Next == Observe \/ Sync \/ Enter

Spec == Init /\ [][Next]_vars

(***************************************************************************)
(* Properties.                                                             *)
(***************************************************************************)
TypeOK ==
    /\ DOMAIN history \subseteq Moments /\ Cardinality(DOMAIN history) <= MaxPoints
    /\ \A t \in DOMAIN history : history[t] \in [state : {"on", "off", "silent"},
                                                 pct : Readings \cup {Null}]
    /\ DOMAIN invoices \subseteq Invoices
    /\ \A i \in DOMAIN invoices : invoices[i] \in Windows
    /\ entered \subseteq Moments

\* The two segmentations agree ("must be kept in lockstep",
\* lib/owner/charge-sessions.ts and get_onlyevs_charge_sessions): on every
\* history, read from any moment on, they find the same sessions, with the same
\* ends, trips, kWh and gaps, in whatever order the points arrived.
Lockstep ==
    \A since \in Moments :
      LET h == [t \in {u \in DOMAIN history : u >= since} |-> history[t]]
      IN  Segment(h) = Islands(h)

Charged(s, all) == IF Cost(s, all).by = "invoice" THEN Cost(s, all).usd ELSE 0
Overruled(all) == UNION {Matched(s, all) : s \in {r \in all : r.from \in entered}}
Accounted(all) == MapThenSumSet(LAMBDA s : Charged(s, all), all)
                    + Billed(Unmatched(all)) + Billed(Overruled(all))

\* What Tesla billed is counted once: over the sessions' costs, the invoices no
\* session takes and those an owner's entry replaces, each invoice's amount is
\* there once, however the windows overlap and however often an invoice was
\* synced (reconcileChargingInvoices, applyManualChargeCostOverrides).
BilledOnce == Accounted(Islands(history)) = Billed(DOMAIN invoices)

\* The two copies of the segmentation and the reconciliation on top of them agree.
ChargesAgree == Lockstep /\ BilledOnce

Settled(h) == {s \in Segment(h) : ~Charging(h, s.to)}

\* A session that has ended is not rewritten by telemetry that comes in order:
\* its ends, its kWh, its gap and its trip stay, and what an owner entered for
\* a session, even one that goes on, still finds it (segmentChargeSessions,
\* applyManualChargeCostOverrides).
InOrder == \A t \in DOMAIN history' \ DOMAIN history : \A u \in DOMAIN history : t > u
StillSettled ==
    InOrder => /\ Settled(history) \subseteq Settled(history')
               /\ \A s \in Segment(history) : s.from \in entered
                    => \E r \in Segment(history') : r.from = s.from
SettledSessionsStay == [][StillSettled]_history
=============================================================================

----------------------------- MODULE VehiclePage -----------------------------
(***************************************************************************)
(* The vehicle page of the owner's app: the operational snapshot every     *)
(* page shares, read again every half minute and cached per workspace      *)
(* (lib/owner/use-owner-data.ts), and the active trip's card with the two  *)
(* reads of its own, the pickup bookend and the location evidence          *)
(* (components/owner/telemetry-active-trip-card.tsx,                       *)
(* lib/owner/location-evidence-server.ts).                                 *)
(*                                                                         *)
(* A workspace has one vehicle, whose trips follow each other; a render    *)
(* and the effects it runs are one step.  Each effect that runs again, and *)
(* each unmount, cancels the request before it: its answer is ignored, so  *)
(* the request is forgotten here.  What was read is marked with the number *)
(* of failures the page had shown when it was asked for.                   *)
(***************************************************************************)
EXTENDS Integers, Sequences, SequencesExt

CONSTANTS
    Sites,        \* workspace scopes the owner may open
    Agreed,       \* the trips whose guest consented
    LastTrip,     \* trips 1 .. LastTrip follow each other, then none
    MaxCached,    \* MAX_CACHED_SCOPES
    MaxRevoked,   \* bound: workspaces the owner is no longer manager of
    MaxFails      \* bound: failures shown

VARIABLES
    managed,   \* where has_minimum_role(manager) holds
    underway,  \* the trip that is active by the database's clock
    site,      \* the workspace the app is on
    mounted,   \* OwnerDataProvider
    view,      \* snapshot, dataHydrated, operationalError
    memo,      \* lastHydratedByScope, in its order
    fetch,     \* the refresh whose answer is awaited
    panel,     \* TelemetryActiveTripCard
    fails

vars == <<managed, underway, site, mounted, view, memo, fetch, panel, fails>>

NoTrip == 0
Unread == -1                    \* undefined, null: still loading
Trips == 1 .. LastTrip

\* INITIAL_SNAPSHOT behind the skeleton, with no error, or with one
Bare(kind) == [kind |-> kind, site |-> 0, trip |-> NoTrip, asked |-> 0]
Loading == Bare("loading")
Empty == Bare("empty")
Failed == Bare("failed")

NoFetch == Bare("none")
Asking(s) == [kind |-> "snapshot", site |-> s, trip |-> NoTrip, asked |-> fails]

NoPanel == [trip |-> NoTrip, start |-> Unread, place |-> Unread, said |-> Unread]
NewPanel(t) == [NoPanel EXCEPT !.trip = t]

Init ==
    /\ managed = Sites /\ underway = 1 /\ site \in Sites /\ mounted = FALSE
    /\ view = Loading /\ memo = <<>> /\ fetch = NoFetch /\ panel = NoPanel
    /\ fails = 0

server == <<managed, underway>>

(***************************************************************************)
(* The server: the owner's role, the clock.                                *)
(***************************************************************************)
Revoke(s) == /\ s \in managed /\ Cardinality(Sites \ managed) < MaxRevoked
             /\ managed' = managed \ {s}
             /\ UNCHANGED <<underway, site, mounted, view, memo, fetch, panel, fails>>

TripEnds == /\ underway # NoTrip
            /\ underway' \in {t \in Trips : t = underway + 1} \cup
                             (IF underway = LastTrip THEN {NoTrip} ELSE {})
            /\ UNCHANGED <<managed, site, mounted, view, memo, fetch, panel, fails>>

(***************************************************************************)
(* The page: activeTrip has a card while the snapshot says so.  The card's *)
(* bookend is keyed by the trip, its evidence by workspace and vehicle.    *)
(***************************************************************************)
Panel(v) ==
    panel' = IF v.kind # "data" \/ v.trip = NoTrip THEN NoPanel
             ELSE IF panel = NoPanel THEN NewPanel(v.trip)
             ELSE IF panel.trip # v.trip THEN [panel EXCEPT !.trip = v.trip, !.start = Unread]
             ELSE panel

Show(v) == view' = v /\ Panel(v)

(***************************************************************************)
(* useOwnerData.                                                           *)
(***************************************************************************)
CachedOf(s) == {e \in ToSet(memo) : e.site = s}

\* setCachedScope: last used last, the oldest goes
Others(s) == LET own == {i \in DOMAIN memo : memo[i].site = s}
             IN  IF own = {} THEN memo ELSE RemoveAt(memo, CHOOSE i \in own : TRUE)
Cached(e) == LET all == Append(Others(e.site), e)
             IN  IF Len(all) > MaxCached THEN Tail(all) ELSE all

\* a mount reads the cache when the tenant is known by then
Mount ==
    /\ ~mounted /\ mounted' = TRUE
    /\ \/ \E e \in CachedOf(site) : Show(e)
       \/ Show(Loading)
    /\ fetch' = Asking(site)
    /\ UNCHANGED <<server, site, memo, fails>>

Unmount == /\ mounted /\ mounted' = FALSE
           /\ Show(Loading) /\ fetch' = NoFetch
           /\ UNCHANGED <<server, site, memo, fails>>

Switch(s) == /\ s # site /\ site' = s
             /\ IF mounted THEN Show(Loading) /\ fetch' = Asking(s)
                           ELSE UNCHANGED <<view, panel, fetch>>
             /\ UNCHANGED <<server, mounted, memo, fails>>

\* every half minute, when the page is seen again, when trips changed
Refresh == /\ mounted
           /\ view' = IF view = Failed THEN Empty ELSE view
           /\ fetch' = Asking(site)
           /\ UNCHANGED <<server, site, mounted, memo, panel, fails>>

\* get_onlyevs_workspace_trip_snapshot, whose active trip is the clock's
ReadSnapshot ==
    /\ fetch.kind = "snapshot"
    /\ \/ /\ fetch.site \in managed
          /\ fetch' = [fetch EXCEPT !.kind = "stats", !.trip = underway]
       \/ fetch' = [fetch EXCEPT !.kind = "refused"]
    /\ UNCHANGED <<server, site, mounted, view, memo, panel, fails>>

\* fetchWorkspaceVehicleStats: a policy that hides its rows is no error
ReadStats ==
    /\ fetch.kind = "stats"
    /\ \E k \in {"data", "refused"} : fetch' = [fetch EXCEPT !.kind = k]
    /\ UNCHANGED <<server, site, mounted, view, memo, panel, fails>>

Land == /\ fetch.kind = "data"
        /\ Show(fetch) /\ memo' = Cached(fetch) /\ fetch' = NoFetch
        /\ UNCHANGED <<server, site, mounted, fails>>

\* a failure forgets every workspace, whichever it is of
Left == <<>>

LandFails == /\ fetch.kind = "refused" /\ fails < MaxFails
             /\ Show(Failed) /\ memo' = Left /\ fetch' = NoFetch
             /\ fails' = fails + 1
             /\ UNCHANGED <<server, site, mounted>>

(***************************************************************************)
(* The card's own reads.                                                   *)
(***************************************************************************)
OnPanel == panel # NoPanel

\* useActiveTripStart: a start of 0 is an edge that was not captured
StartRead == /\ OnPanel /\ panel.start = Unread
             /\ \E start \in {panel.trip, NoTrip} : panel' = [panel EXCEPT !.start = start]
             /\ UNCHANGED <<server, site, mounted, view, memo, fetch, fails>>

\* get_onlyevs_vehicle_location_evidence: the one latest point of the trip that
\* is active, if its guest consented; all else is read as nothing
Evidence(s) == IF s \in managed /\ underway \in Agreed THEN {underway, NoTrip} ELSE {NoTrip}

PlaceAsked == /\ OnPanel /\ panel.place = Unread /\ panel.said = Unread
              /\ \E told \in Evidence(site) : panel' = [panel EXCEPT !.said = told]
              /\ UNCHANGED <<server, site, mounted, view, memo, fetch, fails>>

\* parseLocationEvidenceApiState, deriveLocationRowView
PlaceRead == /\ OnPanel /\ panel.said # Unread
             /\ panel' = [panel EXCEPT !.place = panel.said, !.said = Unread]
             /\ UNCHANGED <<server, site, mounted, view, memo, fetch, fails>>

Next == \/ \E s \in Sites : Revoke(s) \/ Switch(s)
        \/ TripEnds \/ Mount \/ Unmount \/ Refresh \/ ReadSnapshot \/ ReadStats
        \/ Land \/ LandFails \/ StartRead \/ PlaceAsked \/ PlaceRead

Spec == Init /\ [][Next]_vars

(***************************************************************************)
(* Properties.                                                             *)
(***************************************************************************)
Said(kinds) == [kind : kinds, site : Sites \cup {0}, trip : Trips \cup {NoTrip},
                asked : 0 .. MaxFails]
TypeOK ==
    /\ managed \subseteq Sites /\ underway \in Trips \cup {NoTrip}
    /\ site \in Sites /\ mounted \in BOOLEAN /\ fails \in 0 .. MaxFails
    /\ view \in Said({"loading", "empty", "failed", "data"})
    /\ fetch \in Said({"none", "snapshot", "stats", "data", "refused"})
    /\ memo \in Seq(Said({"data"})) /\ Len(memo) <= MaxCached
    /\ panel \in [trip : Trips \cup {NoTrip}, start : Trips \cup {NoTrip, Unread},
                  place : Trips \cup {NoTrip, Unread}, said : Trips \cup {NoTrip, Unread}]

\* A failure closes everything: once the page has shown one, nothing that was asked
\* for before it is on the page or in the cache, of any workspace, whatever is
\* opened next ("drop both the rendered content and the entire cache", onError of
\* useOwnerData).
ClosesOnFailure ==
    /\ view.kind = "data" => view.asked = fails
    /\ \A e \in ToSet(memo) : e.asked = fails

\* The page shows one workspace, the one the app is on, and its card is of the trip
\* it names: the pickup it counts the miles from is that trip's, and a location is
\* only ever one of a consented trip (useActiveTripStart,
\* get_onlyevs_vehicle_location_evidence).
ShowsItsOwn ==
    /\ view.kind = "data" => view.site = site
    /\ OnPanel => /\ view.kind = "data" /\ view.trip = panel.trip
                  /\ panel.start \in {Unread, NoTrip, panel.trip}
                  /\ panel.place \in {Unread, NoTrip} \cup Agreed

PageHolds == ClosesOnFailure /\ ShowsItsOwn
=============================================================================

---------------------------- MODULE MCWorkspace ----------------------------
(***************************************************************************)
(* A workspace for TLC: the values of the constants that a configuration   *)
(* cannot write, what bounds the parts together, and what is alike.        *)
(***************************************************************************)
EXTENDS Workspace, TLC

Window(from, to) == [from |-> from, to |-> to]
Row(state, revision) == [state |-> state, late |-> FALSE, revision |-> revision]

\* A trip: now or in an hour, for an hour.
TwoSlots == {Window(0, 1), Window(1, 2)}

\* Charging: four moments, two trips back to back, and an invoice for either.
FourMoments == 0 .. 3
TwoTrips    == <<Window(0, 1), Window(1, 3)>>
TwoWindows  == {Window(0, 1), Window(1, 3)}

\* Guest linking: three trips, two of one address.
ThreeMails == <<1, 1, 2>>

\* The Inbox: three events and a mail, listed at three moments.
ThreeBegins == {<<2, 1, 1, 2>>, <<2, 2, 2, 1>>, <<1, 1, 2, 0>>}

\* Two cards; clocks in a zone west of UTC go forward at 8.
TwoProposed == <<[start |-> 3, end |-> 9], [start |-> 7, end |-> 9]>>
TwoStarts   == {<<Row("none", 0), Row("none", 0)>>,
                <<Row("succeeded", 4), Row("revocation_pending", 2)>>}
WestBefore  == 0 - 3
WestAfter   == 0 - 2

\* Locations: two trips back to back, whose grants overlap by half.
TwoSpans == <<Window(0, 1), Window(1, 2)>>
TwoAges  == [history |-> 3, location |-> 2]

\* Bounds across the counters of a part: each takes few of its upsets together.  The
\* ledger's trip begins now until it is moved; the vehicle reports while a calendar's
\* trip has not been.
Busy == Cardinality({w \in Workers : ~At(w, "idle") /\ ~At(w, "jobs")})
FewUpsets ==
    /\ Len(records) + crashes + Len(revised) + Busy <= 3
    /\ Len(records) = 2 => Busy = 0
    /\ Len(revised) + crashes < 2
    /\ Runs("ledger") /\ revised = <<>> => schedule.from = 0
    /\ revised # <<>> \/ origin = "mail" => records = <<>>
    /\ edits + branding.ver + lost <= 5
    /\ Len(tickets) + Cardinality(Workplaces \ admin) <= 2
    /\ opens + typings + clicks <= 3
    /\ Cardinality(DOMAIN history) + Cardinality(DOMAIN invoices) + Cardinality(entered) <= 4
    /\ Len(reminders) + reschedules + booked.link <= 4
    /\ booked.origin = "mail" => reminders = <<>>
    /\ mishaps + Len(spans[1]) <= 2 /\ Len(spans[2]) = 1
    /\ mishaps + Len(spans[1]) + Cardinality({t \in Trail!Trips : endedAt[t] # Never}) <= 3
    /\ (\E b \in Trail!Tables : whole[b] # Never) =>
         Len(spans[1]) = 1 /\ \A t \in Trail!Trips : endedAt[t] = Never
    /\ stays[2].agreed => stays[1].agreed

\* The configurations that use it give one set to Workers, Syncers, Mailers and Tabs:
\* no part tells its workers, or its tabs, apart.
Alike == Permutations(Workers)

\* A state is its part's state: the other parts never move.
PartView ==
    <<which,
      CASE Runs("ledger")   -> vars
        [] Runs("calendar") -> calendarVars
        [] Runs("domain")   -> domainVars
        [] Runs("mail")     -> mailVars
        [] Runs("guest")    -> guestVars
        [] Runs("settings") -> settingsVars
        [] Runs("charges")  -> chargesVars
        [] Runs("portal")   -> portalVars
        [] Runs("progress") -> progressVars
        [] Runs("fleet")    -> fleetVars
        [] Runs("linking")  -> linkingVars
        [] Runs("connect")  -> connectVars
        [] Runs("inbox")    -> inboxVars
        [] Runs("card")     -> cardVars
        [] Runs("trail")    -> trailVars
        [] Runs("page")     -> shownVars
        [] Runs("notice")   -> noticeVars>>
=============================================================================

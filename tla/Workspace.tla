----------------------------- MODULE Workspace -----------------------------
(***************************************************************************)
(* The parts of a workspace that share no row with each other: a trip's    *)
(* ledger, its calendar, the custom domain, the mail archive, the guest's  *)
(* walkthrough, the settings, the charging, the private link, the guest's  *)
(* progress, the fleet, the durable guests, the sign-ins at Tesla and      *)
(* Google, the Inbox's list and its cards, the locations kept of a vehicle *)
(* and the page that shows it.  A behaviour is a behaviour of one of them, *)
(* chosen in its first state; the others stay as they begin.               *)
(***************************************************************************)
EXTENDS TripLedger

CONSTANT Parts   \* the parts whose behaviours are checked
ASSUME PartsAssumption ==
    Parts \subseteq {"ledger", "calendar", "domain", "mail", "guest", "settings", "charges",
                     "portal", "progress", "fleet", "linking", "connect", "inbox", "card",
                     "trail", "page", "notice"}

\* Each part's own, by the names of its module (or of its part, where two have one).
CONSTANTS
    Syncers, Times, MaxMoves, MaxConsents, MaxUpsets,                   \* calendar
    MaxDomainEdits, MaxDomainFaults,                                    \* domain
    Mailers, Deliveries, Nobody, MaxTries, MaxPurges, MaxMailFaults,    \* mail
    MaxEntries, MaxOpenings,                                            \* guest
    Tabs, MaxEdits, MaxSaves, MaxLostReplies,                           \* settings
    Moments, Gap, Readings, Rate, BilledTrips, Invoices, Windows,
    MaxPoints, MaxCorrections,                                          \* charges
    TripEndings, Day, PortalGrace, Cooldown, RetryDelay, MaxDaily,
    MaxClock, MaxLinks, MaxReminders,                                   \* portal
    Last, MaxGuestLinks, MaxFlight,                                     \* progress
    MaxVisits,                                                          \* fleet
    MailOf, Signers, MaxGuests, MaxMerges,                              \* linking
    Workplaces, Accounts, MaxTickets, MaxDemotions,                     \* connect
    Mails, Events, PageSize, FetchLimit, Begins, Now0,
    MaxListed, MaxChanges, MaxDecisions,                                \* inbox
    Items, Proposed, CardStarts, ZoneBefore, ZoneAfter, ZoneChange, Walls,
    MaxOpens, MaxTyped, MaxClicks,                                      \* card
    Spans, Lead, TrailAfter, LinkLife, Late, Skew, KeepFor,
    MaxHour, MaxHeard, MaxMishaps,                          \* trail
    Sites, Agreed, LastTrip, MaxCached, MaxRevoked, MaxFails            \* page

\* what happens at most so often
ASSUME BoundsAssumption ==
    {MaxMoves, MaxConsents, MaxUpsets, MaxDomainEdits, MaxDomainFaults, MaxPurges,
     MaxMailFaults, MaxPoints, MaxMerges, MaxTickets} \subseteq Nat
\* a job is tried at least once before it is dead
ASSUME MailAssumption == MaxTries \in Nat \ {0}
ASSUME SettingsAssumption == MaxEdits \in Nat /\ MaxLostReplies \in Nat
\* a moment is a time since the epoch
ASSUME ChargesAssumption ==
    Moments \subseteq Nat /\ Invoices \subseteq Int /\ Windows \subseteq [from : Int, to : Int]
ASSUME PortalAssumption ==
    /\ TripEndings \subseteq Int /\ {Day, PortalGrace} \subseteq Int
    /\ MaxClock \in Nat /\ MaxLinks \in Nat \ {0} /\ MaxReminders \in Nat
    /\ MaxReschedules \in Nat
\* a record is refused as too late before it is old enough to be swept
ASSUME TrailAssumption ==
    /\ Spans \in Seq([from : Int, to : Int]) /\ Lead \in Int /\ TrailAfter \in Int
    /\ Late \in Nat /\ Skew \in Nat /\ KeepFor \in [{"history", "location"} -> Nat]
    /\ KeepFor["history"] > Late /\ KeepFor["location"] > Late
    /\ MaxHour \in Nat /\ MaxHeard \in Nat /\ MaxMishaps \in Nat
ASSUME PageAssumption ==
    LastTrip \in Nat \ {0} /\ MaxFails \in Nat /\ MaxCached \in Nat
\* an address has its number, and its guest the same one when the migration runs
ASSUME LinkingAssumption == MaxGuests \in Nat /\ MailOf \in Seq(1 .. MaxGuests)
ASSUME GuestAssumption == MaxEntries \in Nat \ {0} /\ MaxOpenings \in Nat
\* a page is shorter than what is read for it; what the database holds was listed by now
ASSUME InboxAssumption ==
    /\ IsFiniteSet(Mails) /\ IsFiniteSet(Events) /\ Mails \cap Events = {}
    /\ Mails \cup Events \subseteq Nat \ {0}
    /\ PageSize \in Nat /\ FetchLimit \in Nat /\ PageSize < FetchLimit
    /\ MaxListed \in Nat /\ Now0 \in 0 .. MaxListed
    /\ Begins \subseteq [Mails \cup Events -> 0 .. Now0]
ASSUME CardAssumption ==
    /\ Proposed \in [Items -> [{"start", "end"} -> Int]]
    /\ CardStarts \subseteq
         [Items -> [state : {"none", "queued", "revocation_pending", "provider_mutating",
                             "succeeded", "needs_review", "aborted"},
                    late : BOOLEAN, revision : Nat]]
    /\ {ZoneBefore, ZoneAfter, ZoneChange} \cup Walls \subseteq Int
\* the workspace a page shows first
ASSUME ConnectAssumption == 1 \in Workplaces
ASSUME ProgressAssumption == Last \in Nat /\ MaxGuestLinks \in Nat \ {0}

VARIABLES which,
          event, integ, cand, booking, syncLock, sync, import, screen, moves,
          consents, upsets,
          domain, attached, proven, domainJob, domainEdits, domainFaults,
          inbound, delivery, envelope, files, index, body, parseJob, purges,
          mailer, mailFaults,
          page, entries, at, refs, openings,
          vehicle, branding, cache, tenant, tried, saves, edits, lost,
          history, invoices, entered,
          clock, booked, secret, reminders, request, reschedules, outgrown,
          link, open, stored, tab, flight, guest,
          aspect, profile, row, snap, form, word, visits,
          listed, signed, guestOf, owner, guests, made, backfilled, sweeper, merger, merges,
          durable, admin, active, tickets, asked, cookie, handle, sealed, connected,
          session, fetched, signin,
          time, work, instant, touched, changes, decisions, items, cursor, hasMore,
          snapshot, loading, deciding, reads, list,
          candidate, act, shown, expanded, facts, linked, readStatus, fetches, corrected,
          draft, call, opened, opens, typings, clicks,
          hour, spans, stays, endedAt, alone, heard, taken, hand, kept, lastSweep, whole, mishaps,
          managed, underway, site, mounted, view, memo, fetch, panel, fails,
          enrollment, streaming

Calendar == INSTANCE CalendarSync
Domains  == INSTANCE CustomDomain
Mail     == INSTANCE MailArchive
Guest    == INSTANCE GuestJourney
Fleet    == INSTANCE FleetImport
Settings == INSTANCE WorkspaceEdits
Charges  == INSTANCE ChargeLedger WITH
              Trips <- BilledTrips, MaxEntries <- MaxCorrections
Portal   == INSTANCE TripPortal WITH
              Owners <- Tabs, trip <- booked, Ends <- TripEndings, Grace <- PortalGrace
Progress == INSTANCE GuestProgress WITH Pages <- Tabs
Linking  == INSTANCE GuestLinking WITH Sweepers <- Workers, Managers <- Tabs
Connect  == INSTANCE TeslaConnect WITH Places <- Workplaces
Inbox    == INSTANCE OwnerInbox WITH MaxTime <- MaxListed
Card     == INSTANCE InboxCard WITH
              Trip <- Proposed, Starts <- CardStarts, Before <- ZoneBefore, After <- ZoneAfter,
              Change <- ZoneChange, MaxEdits <- MaxTyped
Trail    == INSTANCE LocationTrail WITH After <- TrailAfter
Page     == INSTANCE VehiclePage
Notice   == INSTANCE TelemetryNotice

Runs(p) == which = p

calendarVars == <<event, integ, cand, booking, syncLock, sync, import, screen, moves,
                  consents, upsets>>
domainVars   == <<domain, attached, proven, domainJob, domainEdits, domainFaults>>
mailVars     == <<inbound, delivery, envelope, files, index, body, parseJob, purges,
                  mailer, mailFaults>>
guestVars    == <<page, entries, at, refs, openings>>
settingsVars == <<vehicle, branding, cache, tenant, tried, saves, edits, lost>>
chargesVars  == <<history, invoices, entered>>
portalVars   == <<clock, booked, secret, reminders, request, reschedules, outgrown>>
progressVars == <<link, open, stored, tab, flight, guest>>
fleetVars    == <<aspect, profile, row, snap, form, word, visits>>
linkingVars  == <<listed, signed, guestOf, owner, guests, made, backfilled, sweeper,
                  merger, merges>>
connectVars  == <<durable, admin, active, tickets, asked, cookie, handle, sealed, connected,
                  session, fetched, signin>>
inboxVars    == <<time, work, instant, touched, changes, decisions, items, cursor, hasMore,
                  snapshot, loading, deciding, reads, list>>
cardVars     == <<candidate, act, shown, expanded, facts, linked, readStatus, fetches,
                  corrected, draft, call, opened, opens, typings, clicks>>
trailVars    == <<hour, spans, stays, endedAt, alone, heard, taken, hand, kept, lastSweep, whole,
                  mishaps>>
shownVars    == <<managed, underway, site, mounted, view, memo, fetch, panel, fails>>
noticeVars   == <<enrollment, streaming>>
allVars == <<which, vars, calendarVars, domainVars, mailVars, guestVars, settingsVars,
             chargesVars, portalVars, progressVars, fleetVars, linkingVars, connectVars,
             inboxVars, cardVars, trailVars, shownVars, noticeVars>>

PartInit == /\ which \in Parts
            /\ Init /\ Calendar!Init /\ Domains!Init /\ Mail!Init /\ Guest!Init
            /\ Settings!Init /\ Charges!Init /\ Portal!Init /\ Progress!Init
            /\ Fleet!Init /\ Linking!Init /\ Connect!Init /\ Inbox!Init /\ Card!Init
            /\ Trail!Init /\ Page!Init /\ Notice!Init
            /\ Runs("ledger") \/ (origin = "mail" /\ schedule = CHOOSE s \in Slots : TRUE)
            /\ Runs("calendar") \/ event.time = CHOOSE t \in Times : TRUE
            /\ Runs("fleet") \/ aspect = "paint"
            /\ Runs("connect") \/ durable
            /\ Runs("inbox") \/ time = CHOOSE b \in Begins : TRUE
            /\ Runs("page") \/ site = CHOOSE s \in Sites : TRUE
            /\ Runs("notice") \/ ~streaming
            /\ Runs("card") \/ act = CHOOSE s \in CardStarts : TRUE

PartNext ==
    /\ UNCHANGED which
    /\ \/ /\ Runs("ledger") /\ Next
          /\ UNCHANGED <<calendarVars, domainVars, mailVars, guestVars, settingsVars,
                         chargesVars, portalVars, progressVars, fleetVars, linkingVars,
                         connectVars, inboxVars, cardVars, trailVars, shownVars, noticeVars>>
       \/ /\ Runs("calendar") /\ Calendar!Next
          /\ UNCHANGED <<vars, domainVars, mailVars, guestVars, settingsVars, chargesVars,
                         portalVars, progressVars, fleetVars, linkingVars, connectVars,
                         inboxVars, cardVars, trailVars, shownVars, noticeVars>>
       \/ /\ Runs("domain") /\ Domains!Next
          /\ UNCHANGED <<vars, calendarVars, mailVars, guestVars, settingsVars,
                         chargesVars, portalVars, progressVars, fleetVars, linkingVars,
                         connectVars, inboxVars, cardVars, trailVars, shownVars, noticeVars>>
       \/ /\ Runs("mail") /\ Mail!Next
          /\ UNCHANGED <<vars, calendarVars, domainVars, guestVars, settingsVars,
                         chargesVars, portalVars, progressVars, fleetVars, linkingVars,
                         connectVars, inboxVars, cardVars, trailVars, shownVars, noticeVars>>
       \/ /\ Runs("guest") /\ Guest!Next
          /\ UNCHANGED <<vars, calendarVars, domainVars, mailVars, settingsVars,
                         chargesVars, portalVars, progressVars, fleetVars, linkingVars,
                         connectVars, inboxVars, cardVars, trailVars, shownVars, noticeVars>>
       \/ /\ Runs("settings") /\ Settings!Next
          /\ UNCHANGED <<vars, calendarVars, domainVars, mailVars, guestVars, chargesVars,
                         portalVars, progressVars, fleetVars, linkingVars, connectVars,
                         inboxVars, cardVars, trailVars, shownVars, noticeVars>>
       \/ /\ Runs("charges") /\ Charges!Next
          /\ UNCHANGED <<vars, calendarVars, domainVars, mailVars, guestVars, settingsVars,
                         portalVars, progressVars, fleetVars, linkingVars, connectVars,
                         inboxVars, cardVars, trailVars, shownVars, noticeVars>>
       \/ /\ Runs("portal") /\ Portal!Next
          /\ UNCHANGED <<vars, calendarVars, domainVars, mailVars, guestVars, settingsVars,
                         chargesVars, progressVars, fleetVars, linkingVars, connectVars,
                         inboxVars, cardVars, trailVars, shownVars, noticeVars>>
       \/ /\ Runs("progress") /\ Progress!Next
          /\ UNCHANGED <<vars, calendarVars, domainVars, mailVars, guestVars, settingsVars,
                         chargesVars, portalVars, fleetVars, linkingVars, connectVars,
                         inboxVars, cardVars, trailVars, shownVars, noticeVars>>
       \/ /\ Runs("fleet") /\ Fleet!Next
          /\ UNCHANGED <<vars, calendarVars, domainVars, mailVars, guestVars, settingsVars,
                         chargesVars, portalVars, progressVars, linkingVars, connectVars,
                         inboxVars, cardVars, trailVars, shownVars, noticeVars>>
       \/ /\ Runs("linking") /\ Linking!Next
          /\ UNCHANGED <<vars, calendarVars, domainVars, mailVars, guestVars, settingsVars,
                         chargesVars, portalVars, progressVars, fleetVars, connectVars,
                         inboxVars, cardVars, trailVars, shownVars, noticeVars>>
       \/ /\ Runs("connect") /\ Connect!Next
          /\ UNCHANGED <<vars, calendarVars, domainVars, mailVars, guestVars, settingsVars,
                         chargesVars, portalVars, progressVars, fleetVars, linkingVars,
                         inboxVars, cardVars, trailVars, shownVars, noticeVars>>
       \/ /\ Runs("inbox") /\ Inbox!Next
          /\ UNCHANGED <<vars, calendarVars, domainVars, mailVars, guestVars, settingsVars,
                         chargesVars, portalVars, progressVars, fleetVars, linkingVars,
                         connectVars, cardVars, trailVars, shownVars, noticeVars>>
       \/ /\ Runs("card") /\ Card!Next
          /\ UNCHANGED <<vars, calendarVars, domainVars, mailVars, guestVars, settingsVars,
                         chargesVars, portalVars, progressVars, fleetVars, linkingVars,
                         connectVars, inboxVars, trailVars, shownVars, noticeVars>>
       \/ /\ Runs("trail") /\ Trail!Next
          /\ UNCHANGED <<vars, calendarVars, domainVars, mailVars, guestVars, settingsVars,
                         chargesVars, portalVars, progressVars, fleetVars, linkingVars,
                         connectVars, inboxVars, cardVars, shownVars, noticeVars>>
       \/ /\ Runs("page") /\ Page!Next
          /\ UNCHANGED <<vars, calendarVars, domainVars, mailVars, guestVars, settingsVars,
                         chargesVars, portalVars, progressVars, fleetVars, linkingVars,
                         connectVars, inboxVars, cardVars, trailVars, noticeVars>>
       \/ /\ Runs("notice") /\ Notice!Next
          /\ UNCHANGED <<vars, calendarVars, domainVars, mailVars, guestVars, settingsVars,
                         chargesVars, portalVars, progressVars, fleetVars, linkingVars,
                         connectVars, inboxVars, cardVars, trailVars, shownVars>>

\* the fairness each of them states, of its own behaviours
PartFairness ==
    /\ WF_vars(Runs("ledger") /\ Tick)
    /\ \A w \in Workers : WF_vars(Runs("ledger") /\ Pass(w))
    /\ WF_calendarVars(Runs("calendar") /\ Calendar!Due)
    /\ WF_calendarVars(Runs("calendar") /\ Calendar!LapseSync)
    /\ WF_calendarVars(Runs("calendar") /\ \E w \in Syncers : Calendar!ClaimSync(w))
    /\ \A w \in Syncers : WF_calendarVars(Runs("calendar") /\ Calendar!SyncEnds(w))
    /\ WF_domainVars(Runs("domain") /\ Domains!DomainDue)
    /\ WF_domainVars(Runs("domain") /\ Domains!ClaimDomain)
    /\ WF_domainVars(Runs("domain") /\ Domains!LapseDomain)
    /\ WF_domainVars(Runs("domain") /\ Domains!Runs)
    /\ \A m \in Mailers :
         /\ WF_mailVars(Runs("mail") /\ Mail!Goes(m))
         /\ SF_mailVars(Runs("mail") /\ Mail!ClaimParse(m))
         /\ SF_mailVars(Runs("mail") /\ Mail!ClaimPurge(m))
    /\ WF_mailVars(Runs("mail") /\ Mail!LapseParse)
    /\ WF_mailVars(Runs("mail") /\ Mail!LapsePurge)

PartSpec == PartInit /\ [][PartNext]_allVars
FairPartSpec == PartSpec /\ PartFairness

\* The part that runs keeps to its types (the tables and states of its module).
PartsTypeOK ==
    CASE Runs("ledger")   -> TypeOK
      [] Runs("calendar") -> Calendar!TypeOK
      [] Runs("domain")   -> Domains!TypeOK
      [] Runs("mail")     -> Mail!TypeOK
      [] Runs("guest")    -> Guest!TypeOK
      [] Runs("settings") -> Settings!TypeOK
      [] Runs("charges")  -> Charges!TypeOK
      [] Runs("portal")   -> Portal!TypeOK
      [] Runs("progress") -> Progress!TypeOK
      [] Runs("fleet")    -> Fleet!TypeOK
      [] Runs("linking")  -> Linking!TypeOK
      [] Runs("connect")  -> Connect!TypeOK
      [] Runs("inbox")    -> Inbox!TypeOK
      [] Runs("card")     -> Card!TypeOK
      [] Runs("trail")    -> Trail!TypeOK
      [] Runs("page")     -> Page!TypeOK
      [] Runs("notice")   -> Notice!TypeOK

\* The properties of the parts, as their modules state them.

\* Ledger: one packet per completion (OncePerCompletion); nothing goes back; a trip is
\* packaged.
TripPackaged == Runs("ledger") => EveryTripPackaged

\* Calendar: a confirmed candidate has its trip's times; a move reaches the owner.
ConfirmedAgrees  == Runs("calendar") => Calendar!ConfirmedAgrees
MoveReachesOwner == Calendar!MoveReachesOwner

\* Custom domain: nothing stays attached unrecorded; a routed name is activated.
DetachedBeforeForgotten == Runs("domain") => Domains!DetachedBeforeForgotten
RoutedIsActivated       == Domains!RoutedIsActivated

\* Mail: what is purged is not read again; it goes, and what is captured is read.
PurgedIsNotReadAgain == Runs("mail") => Mail!PurgedIsNotReadAgain
MailSettles          == Mail!MailSettles

\* Guest: Back stays in the walkthrough.
BackStaysInApp == Guest!BackStaysInApp

\* Settings: what was saved stays.
SavedSettingsStay == [][Runs("settings") => Settings!StillSaved]_settingsVars

\* Charging: the segmentations and the invoices agree; settled sessions stay.
ChargesAgree        == Runs("charges") => Charges!ChargesAgree
SettledSessionsStay == [][Runs("charges") => Charges!StillSettled]_history

\* Private link: it outlives its trip; a reminder carries the link of its time.
LinkHolds == Runs("portal") => Portal!LinkHolds

\* Guest's progress: what is finished stays finished.
FinishedStaysFinished == [][Runs("progress") => Progress!StillFinished]_progressVars

\* Fleet: what the owner typed stands.
WordStands == Runs("fleet") => Fleet!WordStands

\* Guest linking: trips with one address have one guest.
OneGuestPerAddress == Runs("linking") => Linking!OneGuestPerAddress

\* Sign-ins: whoever is connected to a workspace signed in for it.
ConnectedAsAsked == Runs("connect") => Connect!ConnectedAsAsked

\* The Inbox: paging loses no row that stood still.
NothingSkipped == Runs("inbox") => Inbox!NothingSkipped

\* An Inbox card: its countdown is fresh, and its confirm sends the dates as typed.
CardKeepsFaith == Runs("card") => Card!CardKeepsFaith

\* Locations: none outlives its trip's access or its age; the vehicle's page shows its
\* own workspace, forgets all it showed at a failure, and says one reason for silence.
LocationKept == /\ Runs("trail") => Trail!TrailKept
                /\ Runs("page") => Page!PageHolds
                /\ Runs("notice") => Notice!PanelsAgree
=============================================================================

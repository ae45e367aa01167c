----------------------------- MODULE TeslaConnect -----------------------------
(***************************************************************************)
(* A browser's sign-ins at Tesla and Google: the login routes and their    *)
(* state cookies, the callbacks, complete_onlyevs_integration, the import  *)
(* session behind the owner's handle, and the pages that fetch the profile *)
(* (lib/owner/use-owner-tesla-connect.ts, lib/use-tesla-connect.ts).       *)
(*                                                                         *)
(* Three flows, each with its cookies: "fleet" and "calendar" connect an   *)
(* owner's workspace, "guest" a guest's trip.  Without operations (durable *)
(* is FALSE) the fleet flow stores nothing: its cookie holds the access    *)
(* token.  Several tabs share the cookies, the local storage and, for an   *)
(* owner, the workspace that is active.  The nonce is one with the state.  *)
(***************************************************************************)
EXTENDS Integers, Sequences, FiniteSets

CONSTANTS Tabs,
          Places,      \* workspaces for an owner, trips for a guest
          Accounts,    \* accounts at Tesla or Google: positive numbers
          MaxTickets,  \* bound: logins started
          MaxDemotions \* bound: workspaces where the user stops being an admin

Flows == {"fleet", "calendar", "guest"}

VARIABLES
    durable,    \* ONLYEVS_OPERATIONS_ENABLED
    admin,      \* the workspaces where the user is an admin
    active,     \* the workspace an owner's page shows when it loads next
    tickets,    \* the logins started: flow and place, by the number of the state
    asked,      \* who signed in where, by flow and place
    cookie,     \* each flow's state cookie: 0 is none
    handle,     \* rtr_owner_tesla: a session's number, or the account it lets read
    sealed,     \* rtr_tesla: the guest's account
    connected,  \* the integrations' accounts, by flow and place
    session,    \* onlyevs_owner_import_sessions of the user, by workspace
    fetched,    \* the profile in the local storage, by flow and place
    signin      \* each tab: where its login is, of which state, by whom

vars == <<durable, admin, active, tickets, asked, cookie, handle, sealed, connected,
          session, fetched, signin>>
browser == <<cookie, handle, sealed, fetched>>
server  == <<admin, connected, session>>

NoOne    == 0
NoHandle == [id |-> 0, account |-> NoOne]
AtPage   == [at |-> "page", flow |-> "fleet", ticket |-> 0, account |-> NoOne, place |-> 0]

Init ==
    /\ durable \in BOOLEAN /\ admin = Places /\ active = 1
    /\ tickets = <<>> /\ asked = {}
    /\ cookie = [f \in Flows |-> 0] /\ handle = NoHandle /\ sealed = NoOne
    /\ connected = [f \in {"fleet", "calendar"} |-> [p \in Places |-> NoOne]]
    /\ session = [p \in Places |-> NoHandle]
    /\ fetched = [f \in {"fleet", "guest"} |-> [p \in Places |-> NoOne]]
    /\ signin = [t \in Tabs |-> AtPage]

May(f, p) == f = "guest" \/ p \in admin
Goes(t, r) == signin' = [signin EXCEPT ![t] = r]
\* what the page keeps in the local storage
Keeps(f, p, a) == fetched' = [fetched EXCEPT ![f][p] = a]

(***************************************************************************)
(* The login routes, and Tesla's or Google's page.                         *)
(***************************************************************************)
Starts(t, f, p) ==
    /\ signin[t].at = "page" /\ May(f, p) /\ Len(tickets) < MaxTickets
    /\ tickets' = Append(tickets, [flow |-> f, place |-> p])
    /\ cookie' = [cookie EXCEPT ![f] = Len(tickets')]
    /\ Goes(t, [AtPage EXCEPT !.at = "away", !.flow = f, !.ticket = Len(tickets')])
    /\ UNCHANGED <<durable, active, asked, handle, sealed, fetched, server>>

\* for the workspace that was active when the tab loaded, or the trip it opened
FleetLogin(t, p)    == Starts(t, "fleet", p)
CalendarLogin(t, p) == Starts(t, "calendar", p)
GuestLogin(t, p)    == Starts(t, "guest", p)

SignIn(t, a) ==
    /\ signin[t].at = "away"
    /\ asked' = asked \cup {<<tickets[signin[t].ticket], a>>}
    /\ Goes(t, [signin[t] EXCEPT !.at = "back", !.account = a])
    /\ UNCHANGED <<durable, active, tickets, browser, server>>

Deny(t) ==
    /\ signin[t].at = "away" /\ Goes(t, [signin[t] EXCEPT !.at = "back"])
    /\ UNCHANGED <<durable, active, tickets, asked, browser, server>>

(***************************************************************************)
(* The callback.  What it needs of the cookie it takes when it starts; its *)
(* answer drops the cookie that is there when it comes, but for a guest    *)
(* who failed.                                                             *)
(***************************************************************************)
Failed(t) ==
    LET f == signin[t].flow
    IN  /\ cookie' = IF f = "guest" THEN cookie ELSE [cookie EXCEPT ![f] = 0]
        /\ Goes(t, AtPage)

\* Mutant: the callback compares neither the state nor the nonce.
MutMatches(kept, ticket) == kept # 0
Matches(kept, ticket) == kept # 0 /\ kept = ticket

Callback(t) ==
    LET kept == cookie[signin[t].flow]
    IN  /\ signin[t].at = "back"
        /\ IF Matches(kept, signin[t].ticket) /\ signin[t].account # NoOne
                 /\ May(signin[t].flow, tickets[kept].place)
             THEN /\ Goes(t, [signin[t] EXCEPT !.at = "code",
                                                 !.place = tickets[kept].place])
                  /\ UNCHANGED cookie
             ELSE Failed(t)
        /\ UNCHANGED <<durable, active, tickets, asked, handle, sealed, fetched, server>>

Fail(t) ==
    /\ signin[t].at \in {"code", "token", "stored"} /\ Failed(t)
    /\ UNCHANGED <<durable, active, tickets, asked, handle, sealed, fetched, server>>

Exchanged(t) ==
    /\ signin[t].at = "code" /\ Goes(t, [signin[t] EXCEPT !.at = "token"])
    /\ UNCHANGED <<durable, active, tickets, asked, browser, server>>

\* the code, the identity and the vehicles or the events
TeslaExchange(t)  == signin[t].flow # "calendar" /\ Exchanged(t)
GoogleExchange(t) == signin[t].flow = "calendar" /\ Exchanged(t)

Stores(t) == signin[t].flow = "calendar" \/ (signin[t].flow = "fleet" /\ durable)

CompleteIntegration(t) ==
    /\ signin[t].at = "token" /\ Stores(t) /\ May(signin[t].flow, signin[t].place)
    /\ connected' =
         [connected EXCEPT ![signin[t].flow][signin[t].place] = signin[t].account]
    /\ Goes(t, [signin[t] EXCEPT !.at = "stored"])
    /\ UNCHANGED <<durable, active, tickets, asked, browser, admin, session>>

\* the session takes the place of the user's other one
CreateSession(t) ==
    LET p == signin[t].place
    IN  /\ signin[t].at = "stored" /\ signin[t].flow = "fleet" /\ May("fleet", p)
        /\ session' = [session EXCEPT ![p] = [id |-> signin[t].ticket,
                                             account |-> signin[t].account]]
        /\ Goes(t, [signin[t] EXCEPT !.at = "ready"])
        /\ UNCHANGED <<durable, active, tickets, asked, browser, admin, connected>>

Answers(t, f, at) ==
    /\ signin[t].flow = f /\ signin[t].at = at
    /\ cookie' = [cookie EXCEPT ![f] = 0]
    /\ UNCHANGED <<durable, active, tickets, asked, fetched, server>>
Landed(f, p) == [AtPage EXCEPT !.at = "landed", !.flow = f, !.place = p]

\* an owner lands on the active workspace, a guest on the trip of the cookie
FleetAnswer(t) ==
    /\ Answers(t, "fleet", IF durable THEN "ready" ELSE "token")
    /\ handle' = [id |-> IF durable THEN signin[t].ticket ELSE 0,
                  account |-> signin[t].account]
    /\ Goes(t, Landed("fleet", active)) /\ UNCHANGED sealed

CalendarAnswer(t) ==
    /\ Answers(t, "calendar", "stored")
    /\ Goes(t, AtPage) /\ UNCHANGED <<handle, sealed>>

GuestAnswer(t) ==
    /\ Answers(t, "guest", "token") /\ sealed' = signin[t].account
    /\ Goes(t, Landed("guest", signin[t].place)) /\ UNCHANGED handle

(***************************************************************************)
(* The page and /me.  A page that shows a profile fetches no other.        *)
(***************************************************************************)
Read ==
    IF ~durable THEN handle.account
    ELSE IF \E p \in admin : session[p] = handle THEN handle.account ELSE NoOne

\* /me may find the session expired or Tesla silent, and its answer may be lost
OwnerLands(t, found, heard) ==
    LET p == signin[t].place
    IN  /\ signin[t].at = "landed" /\ signin[t].flow = "fleet" /\ Goes(t, AtPage)
        /\ IF heard /\ fetched["fleet"][p] = NoOne
             THEN /\ Keeps("fleet", p, IF found THEN Read ELSE NoOne)
                  /\ handle' = IF durable THEN handle ELSE NoHandle
             ELSE UNCHANGED <<fetched, handle>>
        /\ UNCHANGED <<durable, active, tickets, asked, cookie, sealed, server>>

GuestLands(t, found, heard) ==
    LET p == signin[t].place
    IN  /\ signin[t].at = "landed" /\ signin[t].flow = "guest" /\ Goes(t, AtPage)
        /\ IF heard /\ fetched["guest"][p] = NoOne
             THEN Keeps("guest", p, IF found THEN sealed ELSE NoOne)
             ELSE UNCHANGED fetched
        /\ UNCHANGED <<durable, active, tickets, asked, cookie, handle, sealed, server>>

\* "Use a different account": the logout is not waited for
OwnerLeaves(t, p, reached, heard) ==
    /\ signin[t].at = "page" /\ fetched["fleet"][p] # NoOne /\ (heard => reached)
    /\ Keeps("fleet", p, NoOne)
    /\ handle' = IF heard THEN NoHandle ELSE handle
    /\ session' = [q \in Places |-> IF reached /\ session[q] = handle THEN NoHandle
                                    ELSE session[q]]
    /\ UNCHANGED <<durable, active, tickets, asked, cookie, sealed, admin, connected,
                   signin>>

GuestLeaves(t, p, heard) ==
    /\ signin[t].at = "page" /\ fetched["guest"][p] # NoOne
    /\ Keeps("guest", p, NoOne)
    /\ sealed' = IF heard THEN NoOne ELSE sealed
    /\ UNCHANGED <<durable, active, tickets, asked, cookie, handle, server, signin>>

Switch(p) ==
    /\ active # p /\ active' = p
    /\ UNCHANGED <<durable, tickets, asked, browser, server, signin>>

\* ten minutes of a state cookie, fifteen of a session
Expire ==
    /\ \/ /\ \E f \in Flows : cookie[f] # 0 /\ cookie' = [cookie EXCEPT ![f] = 0]
          /\ UNCHANGED session
       \/ /\ \E p \in Places : /\ session[p] # NoHandle
                              /\ session' = [session EXCEPT ![p] = NoHandle]
          /\ UNCHANGED cookie
    /\ UNCHANGED <<durable, active, tickets, asked, handle, sealed, fetched, admin,
                   connected, signin>>

Demote(p) ==
    /\ p \in admin /\ Cardinality(Places \ admin) < MaxDemotions
    /\ admin' = admin \ {p}
    /\ UNCHANGED <<durable, active, tickets, asked, browser, connected, session, signin>>

Next ==
    \/ Expire
    \/ \E p \in Places : Switch(p) \/ Demote(p)
    \/ \E t \in Tabs :
         \/ \E p \in Places : FleetLogin(t, p) \/ CalendarLogin(t, p) \/ GuestLogin(t, p)
         \/ Deny(t) \/ \E a \in Accounts : SignIn(t, a)
         \/ Callback(t) \/ Fail(t) \/ TeslaExchange(t) \/ GoogleExchange(t)
         \/ CompleteIntegration(t) \/ CreateSession(t)
         \/ FleetAnswer(t) \/ CalendarAnswer(t) \/ GuestAnswer(t)
         \/ \E found, heard \in BOOLEAN :
              OwnerLands(t, found, heard) \/ GuestLands(t, found, heard)
         \/ \E p \in Places, heard \in BOOLEAN :
              \/ \E reached \in BOOLEAN : OwnerLeaves(t, p, reached, heard)
              \/ GuestLeaves(t, p, heard)

Spec == Init /\ [][Next]_vars

Who == Accounts \cup {NoOne}
Numbers == 0 .. MaxTickets
TypeOK ==
    /\ durable \in BOOLEAN /\ admin \subseteq Places /\ active \in Places
    /\ Len(tickets) <= MaxTickets
    /\ cookie \in [Flows -> Numbers]
    /\ handle \in [id : Numbers, account : Who] /\ sealed \in Who
    /\ connected \in [{"fleet", "calendar"} -> [Places -> Who]]
    /\ session \in [Places -> [id : Numbers, account : Who]]
    /\ fetched \in [{"fleet", "guest"} -> [Places -> Who]]
    /\ signin \in [Tabs -> [at : {"page", "away", "back", "code", "token", "stored", "ready",
                               "landed"},
                         flow : Flows, ticket : Numbers, account : Who,
                         place : Places \cup {0}]]

Asked(f, p, a) == <<[flow |-> f, place |-> p], a>> \in asked

\* Whoever is connected to a workspace signed in for that workspace: however
\* many tabs sign in at a time and for whichever workspaces, an integration and
\* an import session are of an account that signed in in a login of that place.
ConnectedAsAsked ==
    /\ \A f \in {"fleet", "calendar"}, p \in Places :
         connected[f][p] # NoOne => Asked(f, p, connected[f][p])
    /\ \A p \in Places : session[p] # NoHandle => Asked("fleet", p, session[p].account)

=============================================================================

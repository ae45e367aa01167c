---------------------------- MODULE GuestProgress ----------------------------
(***************************************************************************)
(* How a guest's progress reaches the trip: the tabs that show the guide   *)
(* of a private link, the state each browser keeps for it (lib/store.ts),  *)
(* the requests that publish it (lib/progress-bridge.ts), and the guest's  *)
(* row (supabase/migrations/20260814234328_onlyevs_link_only_guest_        *)
(* onboarding.sql).                                                        *)
(*                                                                         *)
(* A tab publishes 350 ms after a change and drops the request before it,  *)
(* which the server may have got already: requests of several tabs arrive  *)
(* in any order, late, or never.  Progress is how far the walkthrough is:  *)
(* 0 is its start, Last its end.  Links are numbered as they are made.     *)
(***************************************************************************)
EXTENDS Integers, FiniteSets

CONSTANTS Pages,      \* tabs, each in a browser of its own
          Last,       \* the walkthrough's last step
          MaxGuestLinks, MaxFlight   \* bounds: links, requests under way

VARIABLES
    link,     \* onlyevs_trips.public_token_hash: the link that opens the trip
    open,     \* not cancelled, not expired
    stored,   \* each browser's local storage, under the scope of that link
    tab,      \* the tabs
    flight,   \* requests under way
    guest     \* onlyevs_guest_bindings

vars == <<link, open, stored, tab, flight, guest>>

Links   == 1 .. MaxGuestLinks
Steps   == 0 .. Last
Nothing == 0 - 1     \* no row, no request, no state
Closed  == [link |-> 0, step |-> Nothing, timer |-> Nothing]

Init ==
    /\ link = 1 /\ open = TRUE
    /\ stored = [b \in Pages |-> Nothing]
    /\ tab = [p \in Pages |-> Closed]
    /\ flight = {}
    /\ guest = [progress |-> Nothing, bound |-> FALSE, completed |-> FALSE, consented |-> FALSE]

\* a new link (rotate_onlyevs_trip_public_token), whose scope nothing is kept
\* under yet: what is kept under the old one is not read again
NewLink == /\ open /\ link < MaxGuestLinks /\ link' = link + 1
           /\ stored' = [b \in Pages |-> Nothing]
           /\ UNCHANGED <<open, tab, flight, guest>>
\* the trip is cancelled, or the link expires
Shut == open /\ open' = FALSE /\ UNCHANGED <<link, stored, tab, flight, guest>>

Opens(l) == open /\ l = link

(***************************************************************************)
(* The browser.                                                            *)
(***************************************************************************)
Shows(p, t) == tab' = [tab EXCEPT ![p] = t]
Keeps(b, l, step) == stored' = IF l = link THEN [stored EXCEPT ![b] = step] ELSE stored

\* restoreOnboardingProgress: what the row says only where the browser has
\* no journey of its own, which one that was started over has not either
Restored(local) == IF local # Nothing THEN local
                   ELSE IF guest.progress # Nothing THEN guest.progress
                   ELSE 0

\* loadGuestTripPortal and useOnboarding; the page publishes what it shows
OpenPage(p) ==
    /\ tab[p] = Closed /\ open
    /\ LET s == Restored(stored[p])
       IN  /\ Shows(p, [link |-> link, step |-> s, timer |-> s])
           /\ IF stored[p] = Nothing /\ guest.progress # Nothing
                THEN Keeps(p, link, s) ELSE UNCHANGED stored
    /\ UNCHANGED <<link, open, flight, guest>>

\* update: forwards or back, saved whole over what another tab saved
Move(p) ==
    /\ tab[p] # Closed
    /\ \E s \in Steps :
         /\ s = tab[p].step + 1 \/ s = tab[p].step - 1
         /\ Shows(p, [tab[p] EXCEPT !.step = s, !.timer = s])
         /\ Keeps(p, tab[p].link, s)
    /\ UNCHANGED <<link, open, flight, guest>>

\* reset
StartAgain(p) ==
    /\ tab[p] # Closed /\ tab[p].step > 0
    /\ Shows(p, [tab[p] EXCEPT !.step = 0, !.timer = 0])
    /\ Keeps(p, tab[p].link, Nothing)
    /\ UNCHANGED <<link, open, flight, guest>>

\* the 350 ms are over
Publish(p) ==
    /\ tab[p].timer # Nothing /\ Cardinality(flight) < MaxFlight
    /\ LET r == [link |-> tab[p].link, step |-> tab[p].timer]
       IN  flight' = flight \cup {r}
    /\ Shows(p, [tab[p] EXCEPT !.timer = Nothing])
    /\ UNCHANGED <<link, open, stored, guest>>

ClosePage(p) == tab[p] # Closed /\ Shows(p, Closed)
                /\ UNCHANGED <<link, open, stored, flight, guest>>

(***************************************************************************)
(* The server: requests in any order; one that is aborted, fails or meets  *)
(* the rate limit is not sent again.                                       *)
(***************************************************************************)
\* Mutant: completed as the last request says.
MutCompleted(step) == step = Last
Completed(step) == guest.completed \/ step = Last

Update(r) ==
    /\ flight' = flight \ {r}
    /\ \/ UNCHANGED guest
       \/ /\ Opens(r.link)
          /\ guest' = [guest EXCEPT !.progress = r.step, !.bound = TRUE,
                                    !.completed = Completed(r.step)]
    /\ UNCHANGED <<link, open, stored, tab>>

\* TripAccessCompletion, which shows itself where the address has ?trip=, and
\* complete_onlyevs_guest_onboarding
Consent(p) ==
    /\ tab[p].step = Last /\ Opens(tab[p].link)
    /\ guest' = [guest EXCEPT !.bound = TRUE, !.consented = TRUE, !.completed = TRUE]
    /\ UNCHANGED <<link, open, stored, tab, flight>>

Next == \/ NewLink \/ Shut
        \/ \E p \in Pages : \/ OpenPage(p)
                            \/ Move(p) \/ StartAgain(p) \/ Publish(p) \/ ClosePage(p) \/ Consent(p)
        \/ \E r \in flight : Update(r)

Spec == Init /\ [][Next]_vars

-----------------------------------------------------------------------------
TypeOK ==
    /\ link \in Links /\ open \in BOOLEAN
    /\ stored \in [Pages -> Steps \cup {Nothing}]
    /\ \A p \in Pages : tab[p] = Closed \/ tab[p] \in [link : Links,
                                                        step : Steps, timer : Steps \cup {Nothing}]
    /\ flight \subseteq [link : Links, step : Steps]
    /\ guest \in [progress : Steps \cup {Nothing}, bound : BOOLEAN, completed : BOOLEAN,
                  consented : BOOLEAN]

\* What the invitation depends on, a finished walkthrough and the consent, is
\* never taken back by a request that comes late or from another tab.
StillFinished ==
    /\ guest.completed => guest'.completed
    /\ guest.consented => guest'.consented /\ guest'.completed
FinishedStaysFinished == [][StillFinished]_vars
=============================================================================

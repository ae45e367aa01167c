---------------------------- MODULE GuestJourney ----------------------------
(***************************************************************************)
(* A guest's walk through onboarding in one browser tab: the adaptive flow *)
(* (lib/flow.ts, lib/tenant-flow.ts), the stored state (lib/store.ts), the *)
(* buttons (components/OnboardingApp.tsx and the steps), and the browser's *)
(* history, kept beside the state by useStepHistory (lib/history-nav.ts).  *)
(*                                                                         *)
(* The state, the history and the hook's refs are three copies of where    *)
(* the guest is.  A guest reloads, resumes in a new tab, starts over and   *)
(* jumps with the browser's buttons.  A traversal of the history is over   *)
(* before the guest acts again.  One module of each kind stands for all.   *)
(***************************************************************************)
EXTENDS Integers, Sequences

CONSTANTS MaxEntries,   \* bound: entries of the tab's history
          MaxOpenings   \* bound: reloads and resumptions

VARIABLES
    page,     \* OnboardingState: stepId, pathMode, newToTesla, started
    entries,  \* the app's entries in the tab's history: step and depth
    at,       \* the entry the tab is at
    refs,     \* useStepHistory's synced, depth and fromPop
    openings

vars == <<page, entries, at, refs, openings>>

Nothing == "nothing"
Fresh == [synced |-> Nothing, depth |-> 0, pop |-> FALSE]
InitialState == [step |-> "welcome", path |-> "none", new |-> FALSE,
                 started |-> FALSE]
Modules == {"basics", "house-rules"}

\* buildTenantFlow
Flow(p) ==
    IF p.path = "none" THEN <<"welcome", "connect">>
    ELSE <<"welcome", "connect", "plan">>
         \o (IF p.new THEN <<"tesla-account">> ELSE <<>>)
         \o (IF p.path = "full" THEN <<"basics">> ELSE <<>>)
         \o <<"house-rules", "checklist", "done">>

\* indexOfStep: a step the flow does not have counts as its first
Index(p, step) ==
    LET here == {i \in DOMAIN Flow(p) : Flow(p)[i] = step}
    IN  IF here = {} THEN 1 ELSE CHOOSE i \in here : TRUE
Shown(p) == Flow(p)[Index(p, p.step)]

Init ==
    /\ page = InitialState
    /\ entries = <<[step |-> "welcome", depth |-> 0]>> /\ at = 1
    /\ refs = [Fresh EXCEPT !.synced = "welcome"]
    /\ openings = 0

(***************************************************************************)
(* The effect that follows the step with the history: it runs when the     *)
(* step, the path or newToTesla changed.  r: the refs it starts from.      *)
(***************************************************************************)
Tag(step, depth) == [step |-> step, depth |-> depth]
Rewrite(p, depth) == entries' = [entries EXCEPT ![at] = Tag(p.step, depth)] /\ UNCHANGED at

Push(p, r) ==
    /\ at < MaxEntries
    /\ entries' = Append(SubSeq(entries, 1, at), Tag(p.step, r.depth + 1))
    /\ at' = at + 1
    /\ refs' = [r EXCEPT !.synced = p.step, !.depth = @ + 1]

Sync(p, r) ==
    \/ /\ r.pop
       /\ refs' = [r EXCEPT !.synced = p.step, !.pop = FALSE] /\ UNCHANGED <<entries, at>>
    \/ /\ ~r.pop /\ r.synced = Nothing
       /\ refs' = [r EXCEPT !.synced = p.step, !.depth = 0] /\ Rewrite(p, 0)
    \/ /\ ~r.pop /\ r.synced = p.step
       /\ refs' = r /\ UNCHANGED <<entries, at>>
    \/ /\ ~r.pop /\ r.synced \notin {Nothing, p.step}
       /\ IF Index(p, p.step) > Index(p, r.synced)
            THEN Push(p, r)
            ELSE refs' = [r EXCEPT !.synced = p.step] /\ Rewrite(p, r.depth)

Changed(p) == <<p.step, p.path, p.new>> # <<page.step, page.path, page.new>>

Becomes(p, r) ==
    /\ page' = p
    /\ IF Changed(p) THEN Sync(p, r) ELSE refs' = r /\ UNCHANGED <<entries, at>>
    /\ UNCHANGED openings

(***************************************************************************)
(* The buttons of the steps.                                               *)
(***************************************************************************)
\* nav.next, and WelcomeStep's first click
Go ==
    LET i == Index(page, page.step)
        flow == Flow(page)
    IN  /\ i < Len(flow)
        /\ Shown(page) # "connect" \/ page.path # "none"
        /\ Becomes([page EXCEPT !.step = flow[i + 1], !.started = TRUE], refs)

\* ConnectStep: continueAsNew, and useDifferentAccount once connected
ContinueAsNew ==
    /\ Shown(page) = "connect"
    /\ Becomes([page EXCEPT !.path = "full", !.new = TRUE, !.step = "plan",
                            !.started = TRUE], refs)
DifferentAccount ==
    /\ Shown(page) = "connect" /\ page.path # "none"
    /\ Becomes([page EXCEPT !.path = "none"], refs)

ChoosePath ==
    /\ Shown(page) = "plan"
    /\ \E path \in {"full", "essentials"} : Becomes([page EXCEPT !.path = path], refs)

\* nav.reset: the refs first, then the state
StartOver ==
    /\ page.started
    /\ Becomes(InitialState, [refs EXCEPT !.synced = Nothing, !.depth = 0])

\* Mutant: the depth stays what it was before the browser moved.
MutPopped(entry) == [refs EXCEPT !.pop = TRUE]
Popped(entry) == [refs EXCEPT !.pop = TRUE, !.depth = entry.depth]

\* popstate: the step of the entry the browser came to, and the effect after it
ComesTo(k) ==
    LET p == [page EXCEPT !.step = entries[k].step]
        r == Popped(entries[k])
    IN  /\ page' = p /\ at' = k /\ UNCHANGED <<entries, openings>>
        /\ refs' = IF Changed(p) THEN [r EXCEPT !.synced = p.step, !.pop = FALSE] ELSE r

BrowserMoves == \E k \in DOMAIN entries \ {at} : ComesTo(k)

\* goBack: an entry of the app, or a plain step back
Back ==
    /\ Shown(page) \in Modules \cup {"tesla-account"}
    /\ IF refs.depth > 0
         THEN at > 1 /\ ComesTo(at - 1)
         ELSE Becomes([page EXCEPT !.step = Flow(page)[Index(page, page.step) - 1]], refs)

(***************************************************************************)
(* The page is opened again: the state is stored, the refs are new.        *)
(***************************************************************************)
Opens(p) == openings < MaxOpenings /\ openings' = openings + 1 /\ page' = p
            /\ refs' = [Fresh EXCEPT !.synced = p.step]

Reload == Opens(page) /\ Rewrite(page, 0)

\* back from Tesla: connected, with a path
SignedIn ==
    /\ Shown(page) \in {"connect", "tesla-account"}
    /\ \E path \in {"full", "essentials"} :
         LET p == [page EXCEPT !.path = IF @ = "none" THEN path ELSE @, !.started = TRUE]
         IN  /\ Opens(p) /\ at < MaxEntries
             /\ entries' = Append(SubSeq(entries, 1, at), Tag(p.step, 0))
             /\ at' = at + 1

NewTab == Opens(page) /\ entries' = <<Tag(page.step, 0)>> /\ at' = 1

Next == Go \/ ContinueAsNew \/ DifferentAccount \/ ChoosePath \/ StartOver
        \/ BrowserMoves \/ Back \/ Reload \/ SignedIn \/ NewTab

Spec == Init /\ [][Next]_vars

(***************************************************************************)
(* Properties.                                                             *)
(***************************************************************************)
Steps == {"welcome", "connect", "plan", "tesla-account", "checklist", "done"} \cup Modules

TypeOK ==
    /\ page \in [step : Steps, path : {"none", "full", "essentials"}, new : BOOLEAN,
                 started : BOOLEAN]
    /\ \A k \in DOMAIN entries : entries[k] \in [step : Steps, depth : 0 .. MaxEntries]
    /\ at \in DOMAIN entries /\ Len(entries) <= MaxEntries
    /\ refs \in [synced : Steps \cup {Nothing}, depth : 0 .. MaxEntries, pop : BOOLEAN]
    /\ openings <= MaxOpenings

\* The in-app Back button never leaves the app: as often as its counter says
\* there is an entry of the app behind, there is one, after any reload, new
\* start, sign-in and jump in the browser's history (useStepHistory).
BackStaysInApp == refs.depth < at
=============================================================================

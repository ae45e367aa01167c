------------------------------- MODULE InboxCard -------------------------------
(* One Turo card of the owner's Inbox: what it reads when it opens, the        *)
(* destructive action it counts down and can abort, and the dates the owner    *)
(* corrects before confirming (components/owner/OwnerInbox.tsx,                *)
(* UrgentActionPanel.tsx, InboxCandidateCard.tsx, lib/owner/                   *)
(* email-actions-repository.ts, api/owner/email-actions).                      *)
(*                                                                             *)
(* An action moves on while the card is shut, or while a read of it is under   *)
(* way.  A candidate's dates never change, and every action here is of a type  *)
(* that destroys (the others have no panel).  Instants are hours; the vehicle's *)
(* zone is Before hours ahead of UTC until the clocks change, then After.      *)
EXTENDS Integers, FiniteSets

CONSTANTS Items,             \* candidates the list shows
          Trip,              \* the dates each proposes: [Items -> [Ends -> instant]]
          Starts,            \* how their actions may stand when the page is loaded
          Before, After, Change,
          Walls,             \* wall-clock times the owner may type
          MaxOpens, MaxEdits, MaxClicks   \* bounds of the instance

VARIABLES candidate, act,              \* candidates and their actions, in the database
          shown,                  \* the state each card was listed with
          expanded,               \* the open card
          facts, linked, readStatus, fetches,    \* what the cards have read
          corrected, draft,       \* the card whose editor is open, and its two fields
          call,                   \* the decision under way
          opened,                 \* the action as the card last opened
          opens, typings, clicks

Ends == {"start", "end"}
Shut == 0

database == <<candidate, act>>
known == <<facts, linked, readStatus, fetches>>
editor == <<corrected, draft>>
counts == <<opens, typings, clicks>>
vars == <<database, shown, expanded, known, editor, call, opened, counts>>

-----------------------------------------------------------------------------
(* isoToLocalWallTimeInput and localWallTimeToIso: the second takes the zone's *)
(* offset at the wall time read as UTC.                                        *)
Offset(t) == IF t < Change THEN Before ELSE After
Wall(t) == t + Offset(t)
ToInstant(w) == w - Offset(w)

(* What a confirm sends: the fields whose instant is no longer the mail's. *)
Corrections(i) ==
    LET asked == [e \in Ends |-> ToInstant(draft[e])]
    IN  [e \in {f \in Ends : asked[f] # Trip[i][f]} |-> asked[e]]

NoAction == [state |-> "none", late |-> FALSE, revision |-> 0]
Unfetched == [at |-> "none", row |-> NoAction]
NoCall == [what |-> "none", at |-> "idle", item |-> Shut, wide |-> TRUE,
           typed |-> {}, sends |-> {}]
Both(s) == [facts |-> s, action |-> s]
Statuses == {"idle", "loading", "loaded", "error"}

(* A function as the set of its pairs: any set of fields has one type. *)
Pairs(f) == {<<e, f[e]>> : e \in DOMAIN f}

Init ==
    /\ act \in Starts
    /\ candidate = [i \in Items |-> CASE act[i] = NoAction -> "needs_review"
                                  [] act[i].state = "succeeded" -> "applied"
                                  [] OTHER -> "applying"]
    /\ shown = candidate
    /\ expanded = Shut
    /\ facts = [i \in Items |-> FALSE]
    /\ linked = [i \in Items |-> NoAction]
    /\ readStatus = [i \in Items |-> Both("idle")]
    /\ fetches = [i \in Items |-> Unfetched]
    /\ corrected = Shut /\ draft = [e \in Ends |-> 0]
    /\ call = NoCall
    /\ opened = [i \in Items |-> 0]
    /\ opens = 0 /\ typings = 0 /\ clicks = 0

-----------------------------------------------------------------------------
(* The action, as the worker, the webhook and the clock move it.               *)
Moves(i, state) ==
    act' = [act EXCEPT ![i] =
              [state |-> state, late |-> FALSE, revision |-> @.revision + 1]]

Worker(i) ==
    /\ \/ act[i].state = "queued" /\ Moves(i, "revocation_pending") /\ UNCHANGED candidate
       \/ act[i].state = "revocation_pending" /\ act[i].late
          /\ Moves(i, "provider_mutating") /\ UNCHANGED candidate
       \/ act[i].state = "provider_mutating" /\ Moves(i, "succeeded")
          /\ candidate' = [candidate EXCEPT ![i] = "applied"]
       \/ act[i].state = "revocation_pending" /\ Moves(i, "needs_review")
          /\ candidate' = [candidate EXCEPT ![i] = "needs_review"]
    /\ UNCHANGED <<shown, expanded, known, editor, call, opened, counts>>

Deadline(i) ==
    /\ act[i].state = "revocation_pending"
    /\ ~act[i].late
    /\ act' = [act EXCEPT ![i].late = TRUE]
    /\ UNCHANGED <<candidate, shown, expanded, known, editor, call, opened, counts>>

-----------------------------------------------------------------------------
(* Mutant: a card is read only the first time it opens. *)
MutReads(i) == readStatus[i].facts = "idle"

(* open: a card that opens reads again, unless a read of it is under way. *)
Reads(i) == readStatus[i].facts # "loading"

Open(i) ==
    /\ opens < MaxOpens
    /\ expanded' = IF expanded = i THEN Shut ELSE i
    /\ opens' = opens + 1
    /\ IF expanded' = i /\ Reads(i)
       THEN /\ readStatus' = [readStatus EXCEPT ![i] = Both("loading")]
            /\ fetches' = [fetches EXCEPT ![i] = [Unfetched EXCEPT !.at = "asked"]]
       ELSE UNCHANGED <<readStatus, fetches>>
    /\ opened' = IF expanded' = i /\ fetches[i] = Unfetched
                 THEN [opened EXCEPT ![i] = act[i].revision] ELSE opened
    /\ UNCHANGED <<database, shown, facts, linked, editor, call, typings, clicks>>

ReadRow(i) ==
    /\ fetches[i].at = "asked"
    /\ fetches' = [fetches EXCEPT ![i] = [at |-> "read", row |-> act[i]]]
    /\ UNCHANGED <<database, shown, expanded, facts, linked, readStatus, editor, call, opened,
                   counts>>

(* loadEnrichment: the facts and the action come back, or fail, each by itself. *)
Enriched(i, f, a) ==
    /\ fetches[i].at = "read"
    /\ facts' = [facts EXCEPT ![i] = @ \/ f = "loaded"]
    /\ linked' = IF a = "loaded" THEN [linked EXCEPT ![i] = fetches[i].row] ELSE linked
    /\ readStatus' = [readStatus EXCEPT ![i] = [facts |-> f, action |-> a]]
    /\ fetches' = [fetches EXCEPT ![i] = Unfetched]
    /\ UNCHANGED <<database, shown, expanded, editor, call, opened, counts>>

-----------------------------------------------------------------------------
(* deriveUrgentActionView: the phase a row is shown in, by the page's clock. *)
Phase(row, late) ==
    CASE row.state = "none" -> "hidden"
      [] row.state \in {"aborted", "succeeded", "needs_review"} -> "resolved"
      [] row.state = "provider_mutating" -> "in_progress"
      [] row.state = "revocation_pending" /\ late -> "grace_expired"
      [] row.state = "revocation_pending" -> "counting_down"
      [] row.state = "queued" -> "notifying"

Confirmable(i) == shown[i] = "needs_review"

(* The editor is on the open card, once its facts are there. *)
Editable(i) == expanded = i /\ readStatus[i].facts = "loaded" /\ facts[i] /\ Confirmable(i)

BeginCorrection(i) ==
    /\ Editable(i)
    /\ corrected # i
    /\ corrected' = i
    /\ draft' = [e \in Ends |-> Wall(Trip[i][e])]
    /\ UNCHANGED <<database, shown, expanded, known, call, opened, counts>>

Type(e, w) ==
    /\ typings < MaxEdits
    /\ \E i \in Items : corrected = i /\ Editable(i)
    /\ draft[e] # w
    /\ draft' = [draft EXCEPT ![e] = w]
    /\ typings' = typings + 1
    /\ UNCHANGED <<database, shown, expanded, known, corrected, call, opened, opens, clicks>>

Clicks == clicks < MaxClicks /\ call = NoCall /\ clicks' = clicks + 1

(* The live brake takes the phone's footer; a wide card keeps both rows. *)
Footer(i) == Phase(linked[i], FALSE) \in {"hidden", "resolved"}

(* Confirm.  The phone's sheet passes correcting={false}: it sends no dates. *)
Confirm(i, wide) ==
    /\ Clicks
    /\ expanded = i
    /\ Confirmable(i)
    /\ wide \/ Footer(i)
    /\ LET edited == corrected = i /\ facts[i]
       IN  call' = [what |-> "confirm", at |-> "asked", item |-> i, wide |-> wide,
                    typed |-> IF edited THEN Pairs(draft) ELSE {},
                    sends |-> IF wide /\ edited THEN Pairs(Corrections(i)) ELSE {}]
    /\ UNCHANGED <<database, shown, expanded, known, editor, opened, opens, typings>>

(* Abort: the page's clock may be up to a minute behind the deadline. *)
Abort(i) ==
    /\ Clicks
    /\ expanded = i
    /\ Phase(linked[i], FALSE) = "counting_down"
    /\ call' = [NoCall EXCEPT !.what = "abort", !.at = "asked", !.item = i]
    /\ UNCHANGED <<database, shown, expanded, known, editor, opened, opens, typings>>

-----------------------------------------------------------------------------
(* confirm_onlyevs_email_candidate: a candidate has one action, ever. *)
Confirmed ==
    /\ call.what = "confirm" /\ call.at = "asked"
    /\ LET i == call.item
       IN  /\ candidate[i] = "needs_review" /\ act[i] = NoAction
           /\ candidate' = [candidate EXCEPT ![i] = "applying"]
           /\ Moves(i, "queued")
    /\ call' = [call EXCEPT !.at = "answered"]
    /\ UNCHANGED <<shown, expanded, known, editor, opened, counts>>

(* The page hears of it: the card shuts, its editor with it, and the list loads. *)
Told ==
    /\ call.at = "answered"
    /\ call' = [call EXCEPT !.at = "listing"]
    /\ expanded' = Shut
    /\ corrected' = Shut
    /\ UNCHANGED <<database, shown, known, draft, opened, counts>>

Listed ==
    /\ call.at = "listing"
    /\ shown' = candidate
    /\ call' = NoCall
    /\ UNCHANGED <<database, expanded, known, editor, opened, counts>>

(* abort_onlyevs_email_revocation, and the action read again for the open card. *)
Aborted ==
    /\ call.what = "abort" /\ call.at = "asked"
    /\ LET i == call.item
       IN  /\ act[i].state = "revocation_pending" /\ ~act[i].late
           /\ act[i].revision = linked[i].revision
           /\ Moves(i, "aborted")
           /\ candidate' = [candidate EXCEPT ![i] = "needs_review"]
    /\ call' = [call EXCEPT !.at = "refreshing"]
    /\ UNCHANGED <<shown, expanded, known, editor, opened, counts>>

Refreshed ==
    /\ call.at = "refreshing"
    /\ linked' = [linked EXCEPT ![call.item] = act[call.item]]
    /\ call' = NoCall
    /\ UNCHANGED <<database, shown, expanded, facts, readStatus, fetches, editor, opened,
                   counts>>

(* Refused, failed, or its answer lost: an error, and nothing is read again. *)
CallFails ==
    /\ call # NoCall
    /\ call' = NoCall
    /\ UNCHANGED <<database, shown, expanded, known, editor, opened, counts>>

Next ==
    \/ \E i \in Items : Worker(i) \/ Deadline(i) \/ Open(i) \/ ReadRow(i)
    \/ \E i \in Items, f, a \in {"loaded", "error"} : Enriched(i, f, a)
    \/ \E i \in Items : BeginCorrection(i) \/ Abort(i)
    \/ \E e \in Ends, w \in Walls : Type(e, w)
    \/ \E i \in Items, wide \in BOOLEAN : Confirm(i, wide)
    \/ Confirmed \/ Told \/ Listed \/ Aborted \/ Refreshed \/ CallFails

Spec == Init /\ [][Next]_vars

-----------------------------------------------------------------------------
TypeOK ==
    /\ candidate \in [Items -> {"needs_review", "applying", "applied"}]
    /\ shown \in [Items -> {"needs_review", "applying", "applied"}]
    /\ expanded \in Items \cup {Shut} /\ corrected \in Items \cup {Shut}
    /\ readStatus \in [Items -> [facts : Statuses, action : Statuses]]
    /\ call.item \in Items \cup {Shut}
    /\ \A i \in Items : {act[i].revision, linked[i].revision} \subseteq Nat

(* A settled card shows the action as it was when the card opened, or later:   *)
(* what was read before the confirm is not what the countdown is drawn from.   *)
(* (A card shut and opened again under a read keeps to the first opening.)     *)
CardIsFresh ==
    \A i \in Items : readStatus[i].action = "loaded" => linked[i].revision >= opened[i]

(* No clock change lies between an instant and a wall time, read as UTC. *)
Clear(t, w) == t < Change <=> w < Change

(* A confirm pressed on a wide card with its editor open sends exactly the     *)
(* fields the owner changed, as instants that read as he typed them - off the  *)
(* hours around a clock change, where the offset taken is the other side's.    *)
DatesAsTyped ==
    call.what = "confirm" /\ call.wide =>
        \A f \in call.typed :
            LET booked == Trip[call.item][f[1]]
                sends == {s[2] : s \in {p \in call.sends : p[1] = f[1]}}
            IN  Clear(booked, Wall(booked)) /\ Clear(ToInstant(f[2]), f[2]) =>
                    IF f[2] = Wall(booked) THEN sends = {}
                    ELSE \E t \in sends : Wall(t) = f[2]

CardKeepsFaith == CardIsFresh /\ DatesAsTyped
=============================================================================

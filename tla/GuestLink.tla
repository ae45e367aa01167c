----------------------------- MODULE GuestLink -----------------------------
(***************************************************************************)
(* What the guest portal promises about the Tesla link of a trip: a link   *)
(* is published only while the trip is live, replaced only after it was    *)
(* withdrawn, and handed out only while it is published for a live trip.   *)
(***************************************************************************)
CONSTANTS Grants, Invites, None

VARIABLES
  live,    \* the trip is not cancelled
  shown,   \* the link the portal has to show, if any
  handed   \* the links the guest has been handed

Init ==
  /\ live = [g \in Grants |-> TRUE]
  /\ shown = [g \in Grants |-> None]
  /\ handed = [g \in Grants |-> {}]

Publish(g, i) ==
  /\ live[g]
  /\ shown[g] = None
  /\ shown' = [shown EXCEPT ![g] = i]
  /\ UNCHANGED <<live, handed>>

Withdraw(g) ==
  /\ shown[g] # None
  /\ shown' = [shown EXCEPT ![g] = None]
  /\ UNCHANGED <<live, handed>>

\* A cancelled trip keeps its link until it is withdrawn: nobody is handed it.
Cancel(g) ==
  /\ live' = [live EXCEPT ![g] = FALSE]
  /\ UNCHANGED <<shown, handed>>

Reinstate(g) ==
  /\ live' = [live EXCEPT ![g] = TRUE]
  /\ UNCHANGED <<shown, handed>>

Hand(g) ==
  /\ live[g]
  /\ shown[g] # None
  /\ handed' = [handed EXCEPT ![g] = @ \cup {shown[g]}]
  /\ UNCHANGED <<live, shown>>

Next == \E g \in Grants :
  \/ \E i \in Invites : Publish(g, i)
  \/ Withdraw(g) \/ Cancel(g) \/ Reinstate(g) \/ Hand(g)

Spec == Init /\ [][Next]_<<live, shown, handed>>
=============================================================================

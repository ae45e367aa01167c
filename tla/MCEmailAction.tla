--------------------------- MODULE MCEmailAction ---------------------------
(***************************************************************************)
(* Instances of EmailAction for TLC.                                       *)
(***************************************************************************)
EXTENDS EmailAction, TLC

\* A booking, then a cancellation of the same reservation.
BookThenCancel == [c \in Emails |-> IF c = 1 THEN "booking" ELSE "cancellation"]

\* A booking, then a change of it.
BookThenChange == [c \in Emails |-> IF c = 1 THEN "booking" ELSE "change"]

\* What SendGrid reports of one message, in whatever order it arrives.
SomeReports == {{"processed", "delivered"}, {"processed", "bounce"},
                {"processed", "deferred", "bounce"},
                {"processed", "blocked"}, {"dropped"}}

Symmetry == Permutations(Workers)
=============================================================================

----------------------------- MODULE OwnerBrake -----------------------------
(***************************************************************************)
(* What the owner is promised about a destructive change that an email     *)
(* asks for: it is announced first, can be stopped for a fixed time after  *)
(* the announcement has been accepted, and is carried out only after that; *)
(* once stopped or done it stays so.                                       *)
(***************************************************************************)
EXTENDS Naturals

CONSTANTS
  Asks,   \* the changes asked for
  Brake,  \* the time the owner has
  None

VARIABLES
  now,
  stage,  \* how far each change is
  end     \* when the owner's time for it is over

vars == <<now, stage, end>>

Stages == {"open", "counting", "carrying", "done", "stopped"}

Init ==
  /\ now = 0
  /\ stage = [c \in Asks |-> "open"]
  /\ end = [c \in Asks |-> None]

To(c, s) == stage' = [stage EXCEPT ![c] = s]

Announce(c) ==
  /\ stage[c] = "open"
  /\ To(c, "counting")
  /\ end' = [end EXCEPT ![c] = now + Brake]
  /\ UNCHANGED now

Stop(c) ==
  /\ stage[c] \in {"open", "counting"}
  /\ To(c, "stopped")
  /\ end' = [end EXCEPT ![c] = None]
  /\ UNCHANGED now

CarryOut(c) ==
  /\ stage[c] = "counting"
  /\ now >= end[c]
  /\ To(c, "carrying")
  /\ UNCHANGED <<now, end>>

Settle(c) ==
  /\ stage[c] = "carrying"
  /\ \E s \in {"done", "stopped"} : To(c, s)
  /\ UNCHANGED <<now, end>>

Tick == now' = now + 1 /\ UNCHANGED <<stage, end>>

Next ==
  \/ \E c \in Asks : Announce(c) \/ Stop(c) \/ CarryOut(c) \/ Settle(c)
  \/ Tick

Spec == Init /\ [][Next]_vars
=============================================================================

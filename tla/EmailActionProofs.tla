-------------------------- MODULE EmailActionProofs --------------------------
(***************************************************************************)
(* Type correctness of EmailAction, one lemma per action; then its safety  *)
(* properties, each from an inductive strengthening of its own, and the    *)
(* refinement of OwnerBrake.                                               *)
(***************************************************************************)
EXTENDS EmailAction, TLAPS

-----------------------------------------------------------------------------
(* Helpers.                                                                *)

LEMMA FaultType ==
  ASSUME TypeOK, NEW kind, Fault(kind)
  PROVE  faults' \in Nat
  BY DEF TypeOK, Fault

LEMMA ChangeType ==
  ASSUME TypeOK, Change
  PROVE  changes' \in Nat
  BY DEF TypeOK, Change

LEMMA NewestType ==
  ASSUME NEW S \in SUBSET Emails
  PROVE  Newest(S) \in Emails \cup {None}
  BY DEF Newest, IsNewest

LEMMA ActToType ==
  ASSUME TypeOK, NEW c \in Emails, NEW s \in ActState, ActTo(c, s)
  PROVE  act' \in [Emails -> ActState]
  BY DEF TypeOK, ActTo

LEMMA CandToType ==
  ASSUME TypeOK, NEW c \in Emails, NEW s \in CandState, CandTo(c, s)
  PROVE  cand' \in [Emails -> CandState]
  BY DEF TypeOK, CandTo

LEMMA JobToType ==
  ASSUME TypeOK, NEW c \in Emails, NEW due \in Nat,
         NEW s \in {"none", "pending", "claimed", "completed"}, JobTo(c, s, due)
  PROVE  job' \in [Emails -> Job]
  BY DEF TypeOK, JobTo, Job

LEMMA JobDue ==
  ASSUME TypeOK, NEW c \in Emails
  PROVE  job[c].due \in Nat
  BY DEF TypeOK, Job

LEMMA MemOf ==
  ASSUME TypeOK, NEW j \in Jobs
  PROVE  mem[j] \in Mem /\ pc[j] \in PC
  BY DEF TypeOK

LEMMA ParseOf ==
  ASSUME TypeOK, NEW n \in Emails
  PROVE  /\ parse[n] \in Parse /\ parse[n].prior \in Emails \cup {None}
         /\ parse[n].kills \in BOOLEAN
  BY DEF TypeOK, Parse

LEMMA ParsingType ==
  ASSUME TypeOK, NEW n \in Emails, NEW r \in Parse, Parsing(n, r)
  PROVE  parse' \in [Emails -> Parse]
  BY DEF TypeOK, Parsing

LEMMA GotoType ==
  ASSUME TypeOK, NEW w \in Workers, NEW c \in Emails, NEW l \in PC, Goto(w, c, l)
  PROVE  pc' \in [Jobs -> PC] /\ mem' \in [Jobs -> Mem]
  BY DEF TypeOK, Goto, Jobs

LEMMA OnwardType ==
  ASSUME NEW m
  PROVE  Onward(m) \in PC
  BY DEF Onward, PC

LEMMA GoOnType ==
  ASSUME TypeOK, NEW w \in Workers, NEW c \in Emails, GoOn(w, c)
  PROVE  pc' \in [Jobs -> PC] /\ mem' \in [Jobs -> Mem]
  BY GotoType, OnwardType DEF GoOn

-----------------------------------------------------------------------------
(* One call of execute_onlyevs_email_action.                               *)

AdvanceVars ==
  /\ act' \in [Emails -> ActState]
  /\ cand' \in [Emails -> CandState]
  /\ effect' \in [Emails -> Emails \cup {None}]
  /\ target' \in [Emails -> Emails \cup {None}]
  /\ trip' \in [Emails -> {"none", "live", "completed", "cancelled"}]

LEMMA ToReviewType ==
  ASSUME TypeOK, NEW c \in Emails, ToReview(c)
  PROVE  AdvanceVars
  <1>1. act' \in [Emails -> ActState]
    BY ActToType DEF ToReview, ActState, Terminal
  <1>2. cand' \in [Emails -> CandState]
    BY CandToType DEF ToReview, CandState
  <1> QED BY <1>1, <1>2 DEF ToReview, AdvanceVars, TypeOK

LEMMA SucceedType ==
  ASSUME TypeOK, NEW c \in Emails, NEW t \in Emails \cup {None}, Succeed(c, t)
  PROVE  /\ act' \in [Emails -> ActState] /\ cand' \in [Emails -> CandState]
         /\ effect' \in [Emails -> Emails \cup {None}]
         /\ target' \in [Emails -> Emails \cup {None}]
  <1>1. act' \in [Emails -> ActState]
    BY ActToType DEF Succeed, ActState, Terminal
  <1>2. cand' \in [Emails -> CandState]
    BY CandToType DEF Succeed, CandState
  <1> QED BY <1>1, <1>2 DEF Succeed, TypeOK

LEMMA EdgeType ==
  ASSUME TypeOK, NEW c \in Emails, Edge(c)
  PROVE  AdvanceVars
  <1>1. \E s \in ActState : ActTo(c, s)
    BY DEF Edge, ActState, InFlight
  <1>2. act' \in [Emails -> ActState]
    BY <1>1, ActToType
  <1> QED BY <1>2 DEF Edge, AdvanceVars, TypeOK

LEMMA AdvanceType ==
  ASSUME TypeOK, NEW c \in Emails, Advance(c)
  PROVE  /\ AdvanceVars
         /\ intact' = intact /\ deadline' = deadline
  <1>0. intact' = intact /\ deadline' = deadline
    BY DEF Advance
  <1>1. CASE Edge(c)
    BY <1>0, <1>1, EdgeType
  <1>2. CASE ToReview(c) \/ Refused(c)
    BY <1>0, <1>2, ToReviewType DEF Refused
  <1>3. CASE CreateTrip(c)
    BY <1>0, <1>3, SucceedType DEF CreateTrip, AdvanceVars, TypeOK
  <1>4. CASE ApplyUpdate(c)
    <2>1. target[c] \in Emails \cup {None}
      BY DEF TypeOK
    <2> QED BY <1>0, <1>4, <2>1, SucceedType DEF ApplyUpdate, AdvanceVars, TypeOK
  <1>5. CASE CancelTrip(c)
    <2>1. target[c] \in Emails \cup {None}
      BY DEF TypeOK
    <2>2. trip' \in [Emails -> {"none", "live", "completed", "cancelled"}]
      BY <1>5 DEF CancelTrip, TypeOK
    <2> QED BY <1>0, <1>5, <2>1, <2>2, SucceedType DEF CancelTrip, AdvanceVars
  <1>6. CASE Rest(c)
    BY <1>0, <1>6 DEF Rest, AdvanceVars, TypeOK
  <1> QED BY <1>1, <1>2, <1>3, <1>4, <1>5, <1>6 DEF Advance

-----------------------------------------------------------------------------
(* The worker.                                                             *)

LEMMA ClaimType ==
  ASSUME TypeOK, NEW w \in Workers, Claim(w)
  PROVE  TypeOK'
  <1>1. job' \in [Emails -> Job]
    <2> DEFINE r(c) == [job[c] EXCEPT !.state = "claimed", !.leased = TRUE]
    <2>1. job' = [c \in Emails |-> IF c \in Due THEN r(c) ELSE job[c]]
      BY DEF Claim
    <2>2. \A c \in Emails : job[c] \in Job
      BY DEF TypeOK
    <2>3. \A c \in Emails : r(c) \in Job
      BY <2>2 DEF Job
    <2> HIDE DEF r
    <2> QED BY <2>1, <2>2, <2>3
  <1>2. pc' \in [Jobs -> PC]
    BY DEF Claim, TypeOK, PC
  <1> QED BY <1>1, <1>2 DEF Claim, TypeOK, candVars, actVars, mailVars

LEMMA ExecuteType ==
  ASSUME TypeOK, NEW w \in Workers, NEW c \in Emails, Execute(w, c)
  PROVE  TypeOK'
  <1> DEFINE m == [state |-> act'[c], deadline |-> deadline[c],
                   moved |-> act'[c] # mem[<<w, c>>].state]
             l == IF m.state = "awaiting_owner_alert" /\ delivery[c] = "none"
                  THEN "alert" ELSE Onward(m)
  <1>1. AdvanceVars /\ intact' = intact /\ deadline' = deadline
    BY AdvanceType DEF Execute
  <1>2. m \in Mem
    BY <1>1 DEF AdvanceVars, Mem, TypeOK
  <1>3. l \in PC
    BY OnwardType DEF PC
  <1>4. /\ mem' = [mem EXCEPT ![<<w, c>>] = m]
        /\ pc' = [pc EXCEPT ![<<w, c>>] = l]
    BY DEF Execute
  <1>5. mem' \in [Jobs -> Mem] /\ pc' \in [Jobs -> PC]
    <2> HIDE DEF m, l
    <2> QED BY <1>2, <1>3, <1>4 DEF TypeOK, Jobs
  <1> HIDE DEF m, l
  <1> QED BY <1>1, <1>5 DEF Execute, AdvanceVars, TypeOK, mailVars

LEMMA AlertType ==
  ASSUME TypeOK, NEW w \in Workers, NEW c \in Emails, Alert(w, c)
  PROVE  TypeOK'
  <1>1. pc' \in [Jobs -> PC] /\ mem' \in [Jobs -> Mem]
    BY GotoType, GoOnType DEF Alert, PC
  <1>2. faults' \in Nat
    BY FaultType DEF Alert, TypeOK
  <1> QED BY <1>1, <1>2 DEF Alert, TypeOK, candVars, actVars, mailVars

LEMMA LinkDeliveryType ==
  ASSUME TypeOK, NEW w \in Workers, NEW c \in Emails, LinkDelivery(w, c)
  PROVE  TypeOK'
  <1>1. pc' \in [Jobs -> PC] /\ mem' \in [Jobs -> Mem]
    BY GotoType, GoOnType DEF LinkDelivery, PC
  <1>2. delivery' \in [Emails -> DeliveryState]
    BY DEF LinkDelivery, TypeOK, DeliveryState
  <1> QED BY <1>1, <1>2 DEF LinkDelivery, TypeOK, candVars, actVars, mailVars

LEMMA TakenType ==
  ASSUME TypeOK, NEW c \in Emails, Taken(c) \/ UNCHANGED mailVars
  PROVE  /\ sent' \in [Emails -> Nat] /\ report' \in [Emails -> SUBSET EventTypes]
         /\ heard' \in [Emails -> SUBSET EventTypes]
  <1>1. CASE Taken(c)
    <2>1. PICK r \in Reports : report' = [report EXCEPT ![c] = r]
      BY <1>1 DEF Taken
    <2>2. r \in SUBSET EventTypes
      BY BoundAssumption
    <2>3. sent' \in [Emails -> Nat]
      BY <1>1 DEF Taken, TypeOK
    <2> QED BY <1>1, <2>1, <2>2, <2>3 DEF Taken, TypeOK
  <1>2. CASE UNCHANGED mailVars
    BY <1>2 DEF mailVars, TypeOK
  <1> QED BY <1>1, <1>2

LEMMA SendType ==
  ASSUME TypeOK, NEW w \in Workers, NEW c \in Emails, Send(w, c)
  PROVE  TypeOK'
  <1>1. pc' \in [Jobs -> PC] /\ mem' \in [Jobs -> Mem]
    BY GoOnType DEF Send
  <1>2. faults' \in Nat
    BY FaultType DEF Send, TypeOK
  <1>3. Taken(c) \/ UNCHANGED mailVars
    BY DEF Send
  <1>4. delivery' \in [Emails -> DeliveryState]
    BY DEF Send, TypeOK, DeliveryState
  <1> QED BY <1>1, <1>2, <1>3, <1>4, TakenType DEF Send, TypeOK, candVars, actVars

\* A job that ends, one way or the other, leaves nothing behind.
LEMMA ResetType ==
  ASSUME TypeOK, NEW w \in Workers, NEW c \in Emails,
         pc' = [pc EXCEPT ![<<w, c>>] = "idle"],
         mem' = [mem EXCEPT ![<<w, c>>] = NoMem]
  PROVE  pc' \in [Jobs -> PC] /\ mem' \in [Jobs -> Mem]
  <1>1. NoMem \in Mem
    BY DEF NoMem, Mem, ActState
  <1> QED BY <1>1 DEF TypeOK, PC

LEMMA FinishType ==
  ASSUME TypeOK, NEW w \in Workers, NEW c \in Emails, Finish(w, c)
  PROVE  TypeOK'
  <1> DEFINE m == mem[<<w, c>>]
  <1>1. m.deadline \in Nat \cup {None}
    BY MemOf DEF Jobs, Mem
  <1>2. job' \in [Emails -> Job]
    BY <1>1, JobToType, JobDue DEF Finish
  <1> QED BY <1>2, ResetType DEF Finish, TypeOK, candVars, actVars, mailVars

LEMMA JobLostType ==
  ASSUME TypeOK, NEW w \in Workers, NEW c \in Emails, JobLost(w, c)
  PROVE  TypeOK'
  <1>1. faults' \in Nat
    BY FaultType DEF JobLost
  <1>2. Taken(c) \/ UNCHANGED mailVars
    BY DEF JobLost
  <1> QED BY <1>1, <1>2, ResetType, TakenType
          DEF JobLost, TypeOK, candVars, actVars

LEMMA LeaseLapsesType ==
  ASSUME TypeOK, NEW c \in Emails, LeaseLapses(c)
  PROVE  TypeOK'
  <1> DEFINE r == [job[c] EXCEPT !.leased = FALSE]
  <1>1. job' \in [Emails -> Job]
    <2>1. job[c] \in Job
      BY DEF TypeOK
    <2>2. r \in Job
      BY <2>1 DEF Job
    <2>3. job' = [job EXCEPT ![c] = r]
      BY DEF LeaseLapses
    <2> HIDE DEF r
    <2> QED BY <2>2, <2>3 DEF TypeOK
  <1> HIDE DEF r
  <1> QED BY <1>1 DEF LeaseLapses, TypeOK, candVars, actVars, mailVars, workerVars

-----------------------------------------------------------------------------
(* The parse transaction.                                                  *)

LEMMA ParseChooseType ==
  ASSUME TypeOK, NEW n \in Emails, ParseChoose(n)
  PROVE  TypeOK'
  <1> DEFINE S == {c \in Emails : c < n /\ cand[c] \in {"needs_review", "applying"}}
             r == [NoParse EXCEPT !.at = "chosen", !.prior = Newest(S)]
  <1>1. Newest(S) \in Emails \cup {None}
    BY NewestType
  <1>2. r \in Parse
    <2> HIDE DEF S
    <2> QED BY <1>1 DEF NoParse, Parse
  <1>3. Parsing(n, r)
    BY DEF ParseChoose
  <1>4. parse' \in [Emails -> Parse]
    <2> HIDE DEF r
    <2> QED BY <1>2, <1>3, ParsingType
  <1> HIDE DEF r
  <1> QED BY <1>4
          DEF ParseChoose, TypeOK, candVars, actVars, mailVars, workerVars

LEMMA ParseHoldType ==
  ASSUME TypeOK, NEW n \in Emails, ParseHold(n)
  PROVE  TypeOK'
  <1>1. /\ [parse[n] EXCEPT !.at = "holding"] \in Parse
        /\ [parse[n] EXCEPT !.at = "done", !.prior = None] \in Parse
    BY ParseOf DEF Parse
  <1>2. parse' \in [Emails -> Parse]
    BY <1>1, ParsingType DEF ParseHold
  <1> QED BY <1>2 DEF ParseHold, TypeOK, candVars, actVars, mailVars, workerVars

LEMMA ParseKillType ==
  ASSUME TypeOK, NEW n \in Emails, ParseKill(n)
  PROVE  TypeOK'
  <1> DEFINE k == Supersedable(parse[n].prior)
             r == [parse[n] EXCEPT !.at = "done", !.kills = k]
  <1>1. r \in Parse
    <2>1. k \in BOOLEAN
      BY DEF Supersedable
    <2> HIDE DEF k
    <2> QED BY <2>1, ParseOf DEF Parse
  <1> HIDE DEF r
  <1>2. parse' \in [Emails -> Parse]
    <2>1. Parsing(n, r)
      BY DEF ParseKill, r
    <2> QED BY <1>1, <2>1, ParsingType
  <1> QED BY <1>2 DEF ParseKill, TypeOK, candVars, actVars, mailVars, workerVars

LEMMA NoParseType == NoParse \in Parse
  BY DEF NoParse, Parse

LEMMA ParseCommitType ==
  ASSUME TypeOK, NEW n \in Emails, ParseCommit(n)
  PROVE  TypeOK'
  <1> DEFINE p == parse[n].prior
  <1>1. cand' \in [Emails -> CandState]
    BY DEF ParseCommit, TypeOK, CandState
  <1>2. act' \in [Emails -> ActState]
    BY DEF ParseCommit, TypeOK, ActState, Terminal
  <1>3. job' \in [Emails -> Job]
    <2>1. CASE job' = job
      BY <2>1 DEF TypeOK
    <2>2. CASE p \notin Emails
      BY <2>2 DEF ParseCommit, JobTo, TypeOK
    <2>3. CASE p \in Emails /\ job' # job
      <3>1. JobTo(p, "completed", job[p].due)
        BY <2>3 DEF ParseCommit
      <3> HIDE DEF p
      <3> QED BY <2>3, <3>1, JobToType, JobDue
    <2> QED BY <2>1, <2>2, <2>3
  <1>4. parse' \in [Emails -> Parse]
    BY NoParseType, ParsingType DEF ParseCommit
  <1> QED BY <1>1, <1>2, <1>3, <1>4
          DEF ParseCommit, TypeOK, mailVars, workerVars

LEMMA ParseFailsType ==
  ASSUME TypeOK, NEW n \in Emails, ParseFails(n)
  PROVE  TypeOK'
  <1>1. parse' \in [Emails -> Parse]
    BY NoParseType, ParsingType DEF ParseFails
  <1>2. faults' \in Nat
    BY FaultType DEF ParseFails
  <1> QED BY <1>1, <1>2
          DEF ParseFails, TypeOK, candVars, actVars, mailVars, workerVars

-----------------------------------------------------------------------------
(* The manager, the webhook and the rest.                                  *)

LEMMA TargetOfType ==
  ASSUME TypeOK, NEW c \in Emails
  PROVE  TargetOf(c) \in Emails \cup {None}
  <1> DEFINE applied == {d \in Emails \ {c} : effect[d] # None}
  <1>1. Newest(applied) \in Emails \cup {None}
    BY NewestType
  <1> HIDE DEF applied
  <1>2. Newest(applied) # None => effect[Newest(applied)] \in Emails \cup {None}
    BY <1>1 DEF TypeOK
  <1> QED BY <1>2 DEF TargetOf, applied

LEMMA ConfirmType ==
  ASSUME TypeOK, NEW c \in Emails, Confirm(c)
  PROVE  TypeOK'
  <1>1. act' \in [Emails -> ActState]
    BY ActToType DEF Confirm, ActState, InFlight
  <1>2. job' \in [Emails -> Job]
    <2>1. now \in Nat
      BY DEF TypeOK
    <2> QED BY <2>1, JobToType DEF Confirm
  <1>3. target' \in [Emails -> Emails \cup {None}]
    BY TargetOfType DEF Confirm, TypeOK
  <1>4. cand' \in [Emails -> CandState] /\ intact' \in [Emails -> BOOLEAN]
    BY DEF Confirm, TypeOK, CandState
  <1> QED BY <1>1, <1>2, <1>3, <1>4 DEF Confirm, TypeOK, mailVars, workerVars

LEMMA OwnerType ==
  ASSUME TypeOK, NEW c \in Emails,
         Dismiss(c) \/ Purge(c) \/ TripEnds(c) \/ SetEnabled
  PROVE  TypeOK'
  <1>1. changes' \in Nat
    BY ChangeType DEF Dismiss, Purge, TripEnds, SetEnabled
  <1>2. CASE Dismiss(c)
    BY <1>1, <1>2 DEF Dismiss, TypeOK, CandState, actVars, mailVars, workerVars
  <1>3. CASE Purge(c)
    BY <1>1, <1>3 DEF Purge, TypeOK, actVars, mailVars, workerVars
  <1>4. CASE TripEnds(c)
    BY <1>1, <1>4 DEF TripEnds, TypeOK, candVars, actVars, mailVars, workerVars
  <1>5. CASE SetEnabled
    BY <1>1, <1>5 DEF SetEnabled, TypeOK, candVars, actVars, mailVars, workerVars
  <1> QED BY <1>2, <1>3, <1>4, <1>5

LEMMA StopType ==
  ASSUME TypeOK, NEW c \in Emails, NEW s \in Terminal, Stop(c, s)
  PROVE  /\ act' \in [Emails -> ActState] /\ cand' \in [Emails -> CandState]
         /\ deadline' \in [Emails -> Nat \cup {None}] /\ job' \in [Emails -> Job]
  <1>1. act' \in [Emails -> ActState]
    BY ActToType DEF Stop, ActState
  <1>2. cand' \in [Emails -> CandState]
    BY CandToType DEF Stop, CandState
  <1>3. job' \in [Emails -> Job]
    BY JobToType, JobDue DEF Stop
  <1> QED BY <1>1, <1>2, <1>3 DEF Stop, TypeOK

LEMMA AbortType ==
  ASSUME TypeOK, NEW c \in Emails, Abort(c)
  PROVE  TypeOK'
  BY StopType DEF Abort, Terminal, TypeOK, mailVars, workerVars

LEMMA StartBrakeType ==
  ASSUME TypeOK, NEW c \in Emails, StartBrake(c)
  PROVE  /\ act' \in [Emails -> ActState] /\ cand' \in [Emails -> CandState]
         /\ deadline' \in [Emails -> Nat \cup {None}] /\ job' \in [Emails -> Job]
  <1>0. now + Brake \in Nat
    BY BoundAssumption DEF TypeOK
  <1>1. act' \in [Emails -> ActState]
    BY ActToType DEF StartBrake, ActState, InFlight
  <1>2. job' \in [Emails -> Job]
    BY <1>0, JobToType DEF StartBrake
  <1> QED BY <1>0, <1>1, <1>2 DEF StartBrake, TypeOK

LEMMA WebhookType ==
  ASSUME TypeOK, NEW c \in Emails, NEW e \in EventTypes, Webhook(c, e)
  PROVE  TypeOK'
  <1> DEFINE new == Reported(delivery[c], e)
  <1>1. /\ act' \in [Emails -> ActState] /\ cand' \in [Emails -> CandState]
        /\ deadline' \in [Emails -> Nat \cup {None}] /\ job' \in [Emails -> Job]
    <2>1. \/ StartBrake(c) \/ Stop(c, "needs_review")
          \/ UNCHANGED <<act, deadline, job, cand>>
      BY DEF Webhook
    <2>2. CASE UNCHANGED <<act, deadline, job, cand>>
      BY <2>2 DEF TypeOK
    <2> QED BY <2>1, <2>2, StartBrakeType, StopType DEF Terminal
  <1>2. delivery' \in [Emails -> DeliveryState]
    <2>1. new \in DeliveryState
      BY DEF Reported, DeliveryState, EventTypes, TypeOK
    <2>2. delivery' = [delivery EXCEPT ![c] = new] \/ delivery' = delivery
      BY DEF Webhook
    <2> HIDE DEF new
    <2> QED BY <2>1, <2>2 DEF TypeOK
  <1>3. heard' \in [Emails -> SUBSET EventTypes]
    BY DEF Webhook, TypeOK
  <1> QED BY <1>1, <1>2, <1>3 DEF Webhook, TypeOK, workerVars

-----------------------------------------------------------------------------
LEMMA InitType == Init => TypeOK
  <1> SUFFICES ASSUME Init PROVE TypeOK
    OBVIOUS
  <1>1. parse \in [Emails -> Parse]
    BY NoParseType DEF Init
  <1>2. mem \in [Jobs -> Mem] /\ pc \in [Jobs -> PC]
    BY DEF Init, NoMem, Mem, ActState, PC
  <1>3. job \in [Emails -> Job]
    BY DEF Init, NoJob, Job
  <1>4. act \in [Emails -> ActState] /\ cand \in [Emails -> CandState]
    BY DEF Init, ActState, Terminal, CandState
  <1>5. /\ effect \in [Emails -> Emails \cup {None}]
        /\ target \in [Emails -> Emails \cup {None}]
    BY DEF Init
  <1> QED BY <1>1, <1>2, <1>3, <1>4, <1>5 DEF Init, TypeOK, DeliveryState

LEMMA NextType ==
  ASSUME TypeOK, [Next]_vars
  PROVE  TypeOK'
  <1>1. ASSUME NEW w \in Workers, NEW c \in Emails, JobStep(w, c)
        PROVE  TypeOK'
    BY <1>1, ExecuteType, AlertType, LinkDeliveryType, SendType, FinishType
       DEF JobStep
  <1>2. ASSUME NEW c \in Emails, ParseStep(c)
        PROVE  TypeOK'
    BY <1>2, ParseChooseType, ParseHoldType, ParseKillType, ParseCommitType
       DEF ParseStep
  <1>3. ASSUME NEW c \in Emails, OwnerStep(c)
        PROVE  TypeOK'
    BY <1>3, ConfirmType, OwnerType, AbortType DEF OwnerStep
  <1>4. CASE SetEnabled
    <2>1. changes' \in Nat
      BY <1>4, ChangeType DEF SetEnabled
    <2> QED BY <1>4, <2>1
            DEF SetEnabled, TypeOK, candVars, actVars, mailVars, workerVars
  <1>5. CASE Tick
    BY <1>5 DEF Tick, TypeOK, candVars, actVars, mailVars, workerVars
  <1>6. CASE UNCHANGED vars
    BY <1>6 DEF vars, TypeOK, candVars, actVars, mailVars, workerVars
  <1> QED BY <1>1, <1>2, <1>3, <1>4, <1>5, <1>6, ClaimType, JobLostType,
             ParseFailsType, LeaseLapsesType, OwnerType, WebhookType DEF Next

\* Every reachable state is well typed, for any emails, workers and reports.
THEOREM TypeCorrect == Spec => []TypeOK
  BY InitType, NextType, PTL DEF Spec

-----------------------------------------------------------------------------
(* The inductive invariants.                                               *)

Open == {"none", "queued", "claimed", "validating", "awaiting_owner_alert"}
Carrying == {"provider_mutating", "db_committing", "succeeded"}

\* The brake of a destructive action: none yet while it is open, an announced
\* one once it counts, a past one when it is carried out.
BrakeOf(c) ==
  /\ act[c] \in Open => deadline[c] = None
  /\ act[c] \in Carrying \cup {"revocation_pending"} =>
       deadline[c] \in Nat /\ "processed" \in heard[c]
  /\ act[c] \in Carrying => now >= deadline[c]

BrakeOK == \A c \in Emails : Destructive(c) => BrakeOf(c)

\* An open parse that is about to end an action holds it where it was seen.
KillsOf(n) ==
  /\ parse[n].at = "holding" => parse[n].prior \in Emails
  /\ parse[n].kills => /\ parse[n].at = "done"
                       /\ parse[n].prior \in Emails
                       /\ Supersedable(parse[n].prior)

Holds(n, c) == parse[n].at \in {"holding", "done"} /\ parse[n].prior = c

KillsOK ==
  /\ \A n \in Emails : KillsOf(n)
  /\ \A m, n, c \in Emails : Holds(m, c) /\ Holds(n, c) => m = n

\* A job about to send is alone, and nothing has been sent before.
SentOf(c) ==
  /\ sent[c] \in {0, 1}
  /\ delivery[c] = "none" => sent[c] = 0
  /\ \A w \in Workers : At(w, c, "send") =>
       /\ delivery[c] # "none" /\ sent[c] = 0
       /\ \A v \in Workers : At(v, c, "send") => v = w

SentOK == \A c \in Emails : SentOf(c)

-----------------------------------------------------------------------------
(* How the steps change an action.                                         *)

\* The edges of execute_onlyevs_email_action.
Hop(c, s) ==
  \/ s = act[c]
  \/ act[c] = "queued" /\ s = "claimed"
  \/ act[c] = "claimed" /\ s = "validating"
  \/ act[c] = "validating" /\ s = "needs_review"
  \/ act[c] = "validating" /\ Destructive(c) /\ s = "awaiting_owner_alert"
  \/ act[c] = "validating" /\ ~Destructive(c) /\ s = "db_committing"
  \/ act[c] = "revocation_pending" /\ Elapsed(c) /\ s = "provider_mutating"
  \/ act[c] = "provider_mutating" /\ s = "db_committing"
  \/ act[c] = "db_committing" /\ s \in {"succeeded", "needs_review"}

LEMMA AdvanceHops ==
  ASSUME TypeOK, NEW c \in Emails, Advance(c)
  PROVE  \E s \in ActState : Hop(c, s) /\ ActTo(c, s)
  <1>0. act \in [Emails -> ActState]
    BY DEF TypeOK
  <1>1. CASE Edge(c)
    BY <1>1 DEF Edge, Hop, ActState, InFlight
  <1>2. CASE Rest(c)
    <2>1. ActTo(c, act[c])
      BY <1>0, <1>2 DEF Rest, ActTo
    <2> QED BY <1>0, <2>1 DEF Hop
  <1>3. CASE act[c] = "validating" /\ ToReview(c)
    BY <1>3 DEF ToReview, Hop, ActState, Terminal
  <1>4. CASE act[c] = "db_committing" /\ Refused(c)
    BY <1>4 DEF Refused, ToReview, Hop, ActState, Terminal
  <1>5. CASE act[c] = "db_committing" /\ (CreateTrip(c) \/ ApplyUpdate(c) \/ CancelTrip(c))
    <2>1. ActTo(c, "succeeded")
      BY <1>5 DEF CreateTrip, ApplyUpdate, CancelTrip, Succeed
    <2> QED BY <1>5, <2>1 DEF Hop, ActState, Terminal
  <1> QED BY <1>1, <1>2, <1>3, <1>4, <1>5 DEF Advance

LEMMA ExecuteHops ==
  ASSUME TypeOK, NEW w \in Workers, NEW c \in Emails, Execute(w, c)
  PROVE  /\ \E s \in ActState : Hop(c, s) /\ ActTo(c, s)
         /\ ~ActLocked(c)
         /\ UNCHANGED <<now, deadline, delivery, parse, mailVars>>
  BY AdvanceHops DEF Execute, Advance

\* Everything else leaves the actions, the clock and the events alone.
Quiet == UNCHANGED <<now, act, cand, deadline, heard>>

LEMMA QuietSteps ==
  ASSUME NEW w, NEW c,
         \/ Claim(w) \/ Alert(w, c) \/ LinkDelivery(w, c) \/ Send(w, c)
         \/ Finish(w, c) \/ JobLost(w, c) \/ LeaseLapses(c)
         \/ ParseChoose(c) \/ ParseHold(c) \/ ParseKill(c) \/ ParseFails(c)
         \/ Purge(c) \/ TripEnds(c) \/ SetEnabled
  PROVE  Quiet
  BY DEF Quiet, Claim, Alert, LinkDelivery, Send, Finish, JobLost, LeaseLapses,
         ParseChoose, ParseHold, ParseKill, ParseFails, Purge, TripEnds,
         SetEnabled, Taken, candVars, actVars, mailVars

LEMMA NextSteps ==
  ASSUME [Next]_vars
  PROVE  \/ \E w \in Workers, c \in Emails : Execute(w, c)
         \/ \E c \in Emails : ParseCommit(c) \/ Confirm(c) \/ Dismiss(c) \/ Abort(c)
         \/ \E c \in Emails, e \in EventTypes : Webhook(c, e)
         \/ Tick
         \/ Quiet
  <1>1. ASSUME UNCHANGED vars PROVE Quiet
    BY <1>1 DEF vars, Quiet, candVars, actVars, mailVars
  <1>2. ASSUME NEW w \in Workers, NEW c \in Emails, JobStep(w, c) \/ JobLost(w, c)
        PROVE  Execute(w, c) \/ Quiet
    BY <1>2, QuietSteps DEF JobStep
  <1>3. ASSUME NEW c \in Emails,
               \/ ParseStep(c) \/ ParseFails(c) \/ OwnerStep(c)
               \/ LeaseLapses(c) \/ TripEnds(c)
        PROVE  ParseCommit(c) \/ Confirm(c) \/ Dismiss(c) \/ Abort(c) \/ Quiet
    BY <1>3, QuietSteps DEF ParseStep, OwnerStep
  <1>4. ASSUME NEW w \in Workers, Claim(w) PROVE Quiet
    BY <1>4, QuietSteps
  <1>5. ASSUME SetEnabled PROVE Quiet
    BY <1>5, QuietSteps
  <1> QED BY <1>1, <1>2, <1>3, <1>4, <1>5 DEF Next

\* What a report does to an action: it starts the brake, stops it, or nothing.
LEMMA WebhookSteps ==
  ASSUME NEW c \in Emails, NEW e \in EventTypes, Webhook(c, e)
  PROVE  /\ \/ /\ e = "processed" /\ act[c] = "awaiting_owner_alert"
               /\ StartBrake(c)
            \/ /\ act[c] \in {"awaiting_owner_alert", "revocation_pending"}
               /\ Stop(c, "needs_review")
            \/ UNCHANGED <<act, deadline, job, cand>>
         /\ heard' = [heard EXCEPT ![c] = @ \cup {e}]
         /\ UNCHANGED <<now, parse, pc, sent>>
  BY DEF Webhook, Accepts, workerVars

-----------------------------------------------------------------------------
(* The brake.                                                              *)

LEMMA BrakeInit == Init => BrakeOK
  BY EmailAssumption
     DEF Init, BrakeOK, BrakeOf, Destructive, Open, Carrying

LEMMA BrakeNext ==
  ASSUME TypeOK, BrakeOK, [Next]_vars
  PROVE  BrakeOK'
  <1> SUFFICES ASSUME NEW d \in Emails, Destructive(d)
               PROVE  BrakeOf(d)'
    BY DEF BrakeOK, Destructive
  <1> USE DEF Open, Carrying
  <1>0. BrakeOf(d) /\ act \in [Emails -> ActState]
    BY DEF BrakeOK, TypeOK
  <1>00. now \in Nat /\ Brake \in Nat /\ None \notin Nat
    BY BoundAssumption, NullAssumption DEF TypeOK
  <1>000. /\ deadline \in [Emails -> Nat \cup {None}]
          /\ heard \in [Emails -> SUBSET EventTypes]
    BY DEF TypeOK
  <1>1. ASSUME NEW w \in Workers, NEW c \in Emails, Execute(w, c)
        PROVE  BrakeOf(d)'
    <2>1. PICK s \in ActState : Hop(c, s) /\ ActTo(c, s)
      BY <1>1, ExecuteHops
    <2>2. UNCHANGED <<now, deadline, heard>>
      BY <1>1, ExecuteHops DEF mailVars
    <2>3. CASE c # d
      BY <1>0, <2>1, <2>2, <2>3 DEF ActTo, BrakeOf
    <2>4. CASE c = d
      <3>1. act'[d] = s
        BY <1>0, <2>1, <2>4 DEF ActTo
      <3>0. Hop(d, s)
        BY <2>1, <2>4
      <3>2. s \in Open => act[d] \in Open
        BY <3>0 DEF Hop
      <3>3. s = "revocation_pending" => act[d] = "revocation_pending"
        BY <3>0 DEF Hop
      <3>4. s \in Carrying =>
              \/ act[d] \in Carrying
              \/ act[d] = "revocation_pending" /\ Elapsed(d)
        BY <3>0 DEF Hop, Destructive, Elapsed
      <3>5. s \in Carrying => now >= deadline[d]
        BY <1>0, <3>4 DEF BrakeOf, Elapsed
      <3> QED BY <1>0, <2>2, <3>1, <3>2, <3>3, <3>4, <3>5 DEF BrakeOf
    <2> QED BY <2>3, <2>4
  <1>2. ASSUME NEW n \in Emails, ParseCommit(n)
        PROVE  BrakeOf(d)'
    <2>1. act'[d] = act[d] \/ act'[d] = "superseded"
      BY <1>0, <1>2 DEF ParseCommit
    <2> QED BY <1>0, <1>2, <2>1 DEF ParseCommit, BrakeOf, mailVars
  <1>3. ASSUME NEW c \in Emails, Confirm(c)
        PROVE  BrakeOf(d)'
    <2>1. \/ act'[d] = act[d]
          \/ act[d] = "none" /\ act'[d] = "queued"
      BY <1>0, <1>3 DEF Confirm, ActTo
    <2> QED BY <1>0, <1>3, <2>1 DEF Confirm, BrakeOf, mailVars
  <1>4. ASSUME NEW c \in Emails, NEW s \in {"aborted", "needs_review"}, Stop(c, s),
               UNCHANGED now, heard'[d] = heard[d] \/ heard[d] \subseteq heard'[d]
        PROVE  BrakeOf(d)'
    <2>1. /\ act'[d] = IF c = d THEN s ELSE act[d]
          /\ c # d => deadline'[d] = deadline[d]
      BY <1>0, <1>000, <1>4 DEF Stop, ActTo
    <2> QED BY <1>0, <1>4, <2>1 DEF BrakeOf
  <1>5. ASSUME NEW c \in Emails, Dismiss(c) \/ Abort(c)
        PROVE  BrakeOf(d)'
    <2>1. CASE Dismiss(c)
      BY <1>0, <2>1 DEF Dismiss, BrakeOf, actVars, mailVars
    <2>2. CASE Abort(c)
      BY <1>4, <2>2 DEF Abort, mailVars
    <2> QED BY <1>5, <2>1, <2>2
  <1>6. ASSUME NEW c \in Emails, NEW e \in EventTypes, Webhook(c, e)
        PROVE  BrakeOf(d)'
    <2>1. /\ UNCHANGED now /\ heard[d] \subseteq heard'[d]
          /\ c = d => e \in heard'[d]
      BY <1>000, <1>6, WebhookSteps
    <2>2. CASE StartBrake(c) /\ e = "processed"
      <3>1. CASE c = d
        <4>1. act'[d] = "revocation_pending" /\ deadline'[d] = now + Brake
          BY <1>0, <1>000, <2>2, <3>1 DEF StartBrake, ActTo
        <4> QED BY <1>00, <2>1, <2>2, <3>1, <4>1 DEF BrakeOf
      <3>2. CASE c # d
        <4>1. act'[d] = act[d] /\ deadline'[d] = deadline[d]
          BY <1>0, <1>000, <2>2, <3>2 DEF StartBrake, ActTo
        <4> QED BY <1>0, <2>1, <4>1 DEF BrakeOf
      <3> QED BY <3>1, <3>2
    <2>3. CASE Stop(c, "needs_review")
      BY <1>4, <2>1, <2>3
    <2>4. CASE UNCHANGED <<act, deadline, job, cand>>
      BY <1>0, <2>1, <2>4 DEF BrakeOf
    <2> QED BY <1>6, <2>2, <2>3, <2>4, WebhookSteps
  <1>7. CASE Tick
    <2>1. now' = now + 1 /\ UNCHANGED <<act, deadline, heard>>
      BY <1>7 DEF Tick, actVars, mailVars
    <2>2. act[d] \in Carrying => deadline[d] \in Nat /\ now >= deadline[d]
      BY <1>0 DEF BrakeOf
    <2>3. act[d] \in Carrying => now + 1 >= deadline[d]
      BY <1>00, <2>2
    <2> QED BY <1>0, <2>1, <2>3 DEF BrakeOf
  <1>8. CASE Quiet
    BY <1>0, <1>8 DEF Quiet, BrakeOf
  <1> QED BY <1>1, <1>2, <1>3, <1>5, <1>6, <1>7, <1>8, NextSteps

LEMMA BrakeInvariant == Spec => [](TypeOK /\ BrakeOK)
  BY InitType, NextType, BrakeInit, BrakeNext, PTL DEF Spec

\* Whatever the reports, crashes and overlapping jobs: a cancellation is only
\* carried out after its accepted alert and the whole brake.
THEOREM BrakeHolds == Spec => []DestroysOnlyAfterBrake
  <1>1. TypeOK /\ BrakeOK => DestroysOnlyAfterBrake
    <2> SUFFICES ASSUME TypeOK, BrakeOK, NEW c \in Emails, Destructive(c),
                        act[c] \in Carrying
                 PROVE  /\ "processed" \in heard[c]
                        /\ deadline[c] \in Nat
                        /\ now >= deadline[c]
      BY DEF DestroysOnlyAfterBrake, Carrying
    <2>1. BrakeOf(c)
      BY DEF BrakeOK
    <2> QED BY <2>1 DEF BrakeOf
  <1> QED BY <1>1, BrakeInvariant, PTL

-----------------------------------------------------------------------------
(* Candidates and actions end together.                                    *)

Apart(c) == cand[c] = "applying" => act[c] \in InFlight

LEMMA ApplyingNext ==
  ASSUME TypeOK, ApplyingIsInFlight, [Next]_vars
  PROVE  ApplyingIsInFlight'
  <1> SUFFICES ASSUME NEW d \in Emails PROVE Apart(d)'
    BY DEF ApplyingIsInFlight, Apart
  <1>0. Apart(d)
    BY DEF ApplyingIsInFlight, Apart
  <1>00. act \in [Emails -> ActState] /\ cand \in [Emails -> CandState]
    BY DEF TypeOK
  <1> USE DEF InFlight
  \* An action and its candidate leave together; the others stay.
  <1>1. ASSUME NEW c \in Emails, NEW s, NEW t \in CandState \ {"applying"},
               ActTo(c, s), CandTo(c, t)
        PROVE  Apart(d)'
    <2>1. /\ cand'[d] = "applying" => cand[d] = "applying" /\ c # d
          /\ c # d => act'[d] = act[d]
      BY <1>00, <1>1 DEF CandTo, ActTo
    <2> QED BY <1>0, <2>1 DEF Apart
  <1>2. ASSUME NEW c \in Emails, Advance(c)
        PROVE  Apart(d)'
    <2>1. CASE Edge(c)
      <3>1. cand' = cand /\ \E s \in InFlight : ActTo(c, s)
        BY <2>1 DEF Edge
      <3> QED BY <1>0, <1>00, <3>1 DEF ActTo, Apart
    <2>2. CASE Rest(c)
      BY <1>0, <2>2 DEF Rest, Apart
    <2>3. CASE ToReview(c) \/ Refused(c)
      BY <1>1, <2>3 DEF ToReview, Refused, CandState
    <2>4. CASE CreateTrip(c) \/ ApplyUpdate(c) \/ CancelTrip(c)
      <3>1. ActTo(c, "succeeded") /\ CandTo(c, "applied")
        BY <2>4 DEF CreateTrip, ApplyUpdate, CancelTrip, Succeed
      <3> QED BY <1>1, <3>1 DEF CandState
    <2> QED BY <1>2, <2>1, <2>2, <2>3, <2>4 DEF Advance
  <1>3. ASSUME NEW n \in Emails, ParseCommit(n)
        PROVE  Apart(d)'
    <2>1. /\ cand'[d] = "applying" => cand[d] = "applying" /\ d # parse[n].prior
          /\ d # parse[n].prior => act'[d] = act[d]
      BY <1>00, <1>3 DEF ParseCommit
    <2> QED BY <1>0, <2>1 DEF Apart
  <1>4. ASSUME NEW c \in Emails, Confirm(c)
        PROVE  Apart(d)'
    <2>1. IF c = d THEN act'[d] = "queued"
                   ELSE act'[d] = act[d] /\ cand'[d] = cand[d]
      BY <1>00, <1>4 DEF Confirm, ActTo
    <2> QED BY <1>0, <2>1 DEF Apart
  <1>5. ASSUME NEW c \in Emails, Dismiss(c)
        PROVE  Apart(d)'
    <2>1. act' = act /\ (cand'[d] = "applying" => cand[d] = "applying")
      BY <1>00, <1>5 DEF Dismiss, actVars
    <2> QED BY <1>0, <2>1 DEF Apart
  <1>6. ASSUME NEW c \in Emails, NEW s, Stop(c, s)
        PROVE  Apart(d)'
    BY <1>1, <1>6 DEF Stop, CandState
  <1>7. ASSUME NEW c \in Emails, NEW e \in EventTypes, Webhook(c, e)
        PROVE  Apart(d)'
    <2>1. CASE StartBrake(c)
      BY <1>0, <1>00, <2>1 DEF StartBrake, ActTo, Apart
    <2>2. CASE UNCHANGED <<act, deadline, job, cand>>
      BY <1>0, <2>2 DEF Apart
    <2> QED BY <1>6, <1>7, <2>1, <2>2, WebhookSteps
  <1>8. CASE Quiet \/ Tick
    BY <1>0, <1>8 DEF Quiet, Tick, candVars, actVars, Apart
  <1> QED BY <1>2, <1>3, <1>4, <1>5, <1>6, <1>7, <1>8, NextSteps
          DEF Execute, Abort

\* A candidate is being applied only while its action is under way, whoever
\* ends the action.
THEOREM ApplyingTogether == Spec => []ApplyingIsInFlight
  <1>1. Init => ApplyingIsInFlight
    BY DEF Init, ApplyingIsInFlight
  <1> QED BY <1>1, InitType, NextType, ApplyingNext, PTL DEF Spec

-----------------------------------------------------------------------------
(* An open parse.                                                          *)

LEMMA KillsInit == Init => KillsOK
  BY DEF Init, KillsOK, KillsOf, Holds, NoParse

\* The steps that are not of a parse leave an action it will end alone.
LEMMA LockedStays ==
  ASSUME TypeOK, KillsOK, [Next]_vars, UNCHANGED parse,
         NEW n \in Emails, parse[n].kills
  PROVE  Supersedable(parse[n].prior)'
  <1> DEFINE p == parse[n].prior
  <1>0. p \in Emails /\ Supersedable(p) /\ ActLocked(p)
    BY DEF KillsOK, KillsOf, ActLocked
  <1>00. act \in [Emails -> ActState]
    BY DEF TypeOK
  <1> HIDE DEF p
  <1> SUFFICES act'[p] = act[p]
    BY <1>0 DEF Supersedable, p
  <1>1. ASSUME NEW w \in Workers, NEW c \in Emails, Execute(w, c)
        PROVE  act'[p] = act[p]
    BY <1>0, <1>00, <1>1, ExecuteHops DEF ActTo
  <1>2. ASSUME NEW m \in Emails, ParseCommit(m)
        PROVE  FALSE
    <2>1. parse[m].at = "done" /\ parse'[m] = NoParse
      BY <1>2 DEF ParseCommit, Parsing, TypeOK
    <2> QED BY <2>1 DEF NoParse
  <1>3. ASSUME NEW c \in Emails, Confirm(c) \/ Dismiss(c) \/ Abort(c)
        PROVE  act'[p] = act[p]
    BY <1>0, <1>00, <1>3
       DEF Confirm, Dismiss, Abort, Abortable, Stop, ActTo, Supersedable, actVars
  <1>4. ASSUME NEW c \in Emails, NEW e \in EventTypes, Webhook(c, e)
        PROVE  act'[p] = act[p]
    BY <1>0, <1>00, <1>4, WebhookSteps DEF StartBrake, Stop, ActTo, Supersedable
  <1>5. CASE Quiet \/ Tick
    BY <1>5 DEF Quiet, Tick, actVars
  <1> QED BY <1>1, <1>2, <1>3, <1>4, <1>5, NextSteps

\* What a step does to the open parses.
LEMMA ParseSteps ==
  ASSUME [Next]_vars
  PROVE  \/ \E n \in Emails : ParseStep(n) \/ ParseFails(n)
         \/ UNCHANGED parse
  <1>1. ASSUME NEW w, NEW c, JobStep(w, c) \/ JobLost(w, c) \/ Claim(w)
        PROVE  UNCHANGED parse
    BY <1>1 DEF JobStep, JobLost, Claim, Execute, Alert, LinkDelivery, Send, Finish
  <1>2. ASSUME NEW c, OwnerStep(c) \/ LeaseLapses(c) \/ TripEnds(c)
        PROVE  UNCHANGED parse
    BY <1>2 DEF OwnerStep, Confirm, Dismiss, Purge, Abort, LeaseLapses, TripEnds
  <1>3. ASSUME NEW c, NEW e, Webhook(c, e)
        PROVE  UNCHANGED parse
    BY <1>3 DEF Webhook
  <1>4. ASSUME SetEnabled \/ Tick \/ UNCHANGED vars
        PROVE  UNCHANGED parse
    BY <1>4 DEF SetEnabled, Tick, vars
  <1> QED BY <1>1, <1>2, <1>3, <1>4 DEF Next

LEMMA KillsNext ==
  ASSUME TypeOK, KillsOK, [Next]_vars
  PROVE  KillsOK'
  <1> USE DEF Holds
  <1>0. parse \in [Emails -> Parse]
    BY DEF TypeOK
  <1>1. CASE UNCHANGED parse
    <2>1. \A n \in Emails : KillsOf(n)'
      BY <1>1, LockedStays DEF KillsOK, KillsOf
    <2> QED BY <1>1, <2>1 DEF KillsOK
  \* One parse moves: it alone has to be looked at.
  <1>2. ASSUME NEW n \in Emails, NEW r, Parsing(n, r), UNCHANGED act,
               r.at = "holding" => r.prior \in Emails,
               r.kills => /\ r.at = "done" /\ r.prior \in Emails
                          /\ Supersedable(r.prior),
               r.at \in {"holding", "done"} /\ r.prior \in Emails
                 => ~CandLocked(r.prior) \/ Holds(n, r.prior)
        PROVE  KillsOK'
    <2>1. /\ parse'[n] = r
          /\ \A m \in Emails \ {n} : parse'[m] = parse[m]
      BY <1>0, <1>2 DEF Parsing
    <2>2. \A m \in Emails : KillsOf(m)'
      <3> SUFFICES ASSUME NEW m \in Emails PROVE KillsOf(m)'
        OBVIOUS
      <3>1. CASE m = n
        BY <1>2, <2>1, <3>1 DEF KillsOf, Supersedable
      <3>2. CASE m # n
        BY <1>2, <2>1, <3>2 DEF KillsOK, KillsOf, Supersedable
      <3> QED BY <3>1, <3>2
    <2>3. ASSUME NEW c \in Emails, NEW m \in Emails \ {n},
                 Holds(n, c)', Holds(m, c)'
          PROVE  FALSE
      <3>1. Holds(m, c) /\ r.prior = c /\ r.at \in {"holding", "done"}
        BY <2>1, <2>3
      <3>2. Holds(n, c)
        BY <1>2, <3>1 DEF CandLocked
      <3> QED BY <3>1, <3>2 DEF KillsOK
    <2>4. ASSUME NEW c \in Emails, NEW l \in Emails \ {n}, NEW m \in Emails \ {n},
                 Holds(l, c)', Holds(m, c)'
          PROVE  l = m
      BY <2>1, <2>4 DEF KillsOK
    <2>5. \A l, m, c \in Emails : Holds(l, c)' /\ Holds(m, c)' => l = m
      BY <2>3, <2>4
    <2> QED BY <2>2, <2>5 DEF KillsOK
  <1>3. ASSUME NEW n \in Emails, ParseChoose(n)
        PROVE  KillsOK'
    <2>1. PICK p : Parsing(n, [NoParse EXCEPT !.at = "chosen", !.prior = p])
      BY <1>3 DEF ParseChoose
    <2> DEFINE r == [NoParse EXCEPT !.at = "chosen", !.prior = p]
    <2>2. r.at = "chosen" /\ r.kills = FALSE
      BY DEF NoParse
    <2>3. UNCHANGED act
      BY <1>3 DEF ParseChoose, actVars
    <2> HIDE DEF r
    <2> QED BY <1>2, <2>1, <2>2, <2>3 DEF r
  <1>4. ASSUME NEW n \in Emails, ParseHold(n)
        PROVE  KillsOK'
    <2> DEFINE p == parse[n].prior
               r == [parse[n] EXCEPT !.at = "holding"]
               q == [parse[n] EXCEPT !.at = "done", !.prior = None]
    <2>1. /\ parse[n] \in Parse /\ parse[n].at = "chosen" /\ ~parse[n].kills
          /\ p \in Emails \cup {None}
      BY <1>0, <1>4, ParseOf DEF ParseHold, KillsOK, KillsOf
    <2>2. /\ r.at = "holding" /\ r.prior = p /\ r.kills = parse[n].kills
          /\ q.at = "done" /\ q.prior = None /\ q.kills = parse[n].kills
      BY <2>1 DEF Parse
    <2>3. UNCHANGED act
      BY <1>4 DEF ParseHold, actVars
    <2>4. \/ p # None /\ ~CandLocked(p) /\ Parsing(n, r)
          \/ Parsing(n, q)
      BY <1>4 DEF ParseHold
    <2>5. None \notin Emails
      BY NullAssumption, EmailAssumption
    <2> HIDE DEF p, q, r
    <2>6. CASE p # None /\ ~CandLocked(p) /\ Parsing(n, r)
      BY <1>2, <2>1, <2>2, <2>3, <2>6
    <2>7. CASE Parsing(n, q)
      BY <1>2, <2>1, <2>2, <2>3, <2>5, <2>7
    <2> QED BY <2>4, <2>6, <2>7
  <1>5. ASSUME NEW n \in Emails, ParseKill(n)
        PROVE  KillsOK'
    <2> DEFINE p == parse[n].prior
               k == Supersedable(p)
               r == [parse[n] EXCEPT !.at = "done", !.kills = k]
    <2>1. parse[n] \in Parse /\ parse[n].at = "holding" /\ p \in Emails
      BY <1>0, <1>5 DEF ParseKill, KillsOK, KillsOf
    <2>2. r.at = "done" /\ r.prior = p /\ r.kills = k
      <3> HIDE DEF k
      <3> QED BY <2>1 DEF Parse
    <2>3. UNCHANGED act /\ Parsing(n, r)
      BY <1>5 DEF ParseKill, actVars
    <2> HIDE DEF r
    <2> QED BY <1>2, <2>1, <2>2, <2>3
  <1>6. ASSUME NEW n \in Emails, ParseFails(n)
        PROVE  KillsOK'
    <2>1. UNCHANGED act /\ Parsing(n, NoParse)
      BY <1>6 DEF ParseFails, actVars
    <2> QED BY <1>2, <2>1 DEF NoParse
  <1>7. ASSUME NEW n \in Emails, ParseCommit(n)
        PROVE  KillsOK'
    <2> DEFINE p == parse[n].prior
    <2>1. /\ parse'[n].at = "idle" /\ parse'[n].kills = FALSE
          /\ \A m \in Emails \ {n} : parse'[m] = parse[m]
      BY <1>0, <1>7 DEF ParseCommit, Parsing, NoParse
    <2>2. ASSUME NEW m \in Emails, parse[m].kills, m # n
          PROVE  Supersedable(parse[m].prior)'
      <3>1. Holds(m, parse[m].prior) /\ parse[m].prior \in Emails
        BY <2>2 DEF KillsOK, KillsOf
      <3>2. parse[m].prior # p
        BY <1>7, <2>2, <3>1 DEF KillsOK, ParseCommit
      <3>3. act'[parse[m].prior] = act[parse[m].prior]
        BY <1>7, <3>1, <3>2 DEF ParseCommit, TypeOK
      <3>4. parse'[m].prior = parse[m].prior
        BY <2>1, <2>2
      <3> QED BY <2>2, <3>3, <3>4 DEF KillsOK, KillsOf, Supersedable
    <2>3. \A m \in Emails : KillsOf(m)'
      BY <2>1, <2>2 DEF KillsOK, KillsOf
    <2>4. \A l, m, c \in Emails : Holds(l, c)' /\ Holds(m, c)' => l = m
      BY <2>1 DEF KillsOK
    <2> QED BY <2>3, <2>4 DEF KillsOK
  <1> QED BY <1>1, <1>3, <1>4, <1>5, <1>6, <1>7, ParseSteps DEF ParseStep

-----------------------------------------------------------------------------
(* The refinement of OwnerBrake.                                           *)

\* The stage an action's state stands for.
StageOf(s) ==
  CASE s \in Open -> "open"
    [] s = "revocation_pending" -> "counting"
    [] s \in {"provider_mutating", "db_committing"} -> "carrying"
    [] s = "succeeded" -> "done"
    [] OTHER -> "stopped"

LEMMA StageIs == Stage = [c \in Asked |-> StageOf(act[c])]
  BY DEF Stage, StageOf, Open

LEMMA StageIsNext == Stage' = [c \in Asked |-> StageOf(act'[c])]
  BY DEF Stage, StageOf, Open, Asked, Destructive

\* One action changes, and what it stands for with it.
LEMMA StageMoves ==
  ASSUME TypeOK, NEW c \in Emails, NEW s, ActTo(c, s)
  PROVE  /\ c \in Asked => Stage' = [Stage EXCEPT ![c] = StageOf(s)]
         /\ c \notin Asked \/ StageOf(s) = StageOf(act[c]) => Stage' = Stage
  <1>1. \A d \in Emails : act'[d] = IF d = c THEN s ELSE act[d]
    BY DEF TypeOK, ActTo
  <1>2. Asked \subseteq Emails
    BY DEF Asked
  <1> QED BY <1>1, <1>2, StageIs, StageIsNext

LEMMA EndMoves ==
  ASSUME TypeOK, NEW c \in Emails, NEW x, deadline' = [deadline EXCEPT ![c] = x]
  PROVE  /\ c \in Asked => End' = [End EXCEPT ![c] = x]
         /\ c \notin Asked => End' = End
  <1>1. \A d \in Emails : deadline'[d] = IF d = c THEN x ELSE deadline[d]
    BY DEF TypeOK
  <1> QED BY <1>1 DEF End, Asked, Destructive

LEMMA EndStays ==
  ASSUME UNCHANGED deadline
  PROVE  End' = End
  BY DEF End, Asked, Destructive

Implemented == [Promise!Next]_<<now, Stage, End>>

LEMMA PromiseInit == Init => Promise!Init
  <1> SUFFICES ASSUME Init PROVE Promise!Init
    OBVIOUS
  <1>1. \A c \in Asked : c \in Emails /\ c \notin Applied
    BY EmailAssumption DEF Asked, Destructive
  <1>2. \A c \in Asked : act[c] = "none" /\ deadline[c] = None
    BY <1>1 DEF Init
  <1>3. Stage = [c \in Asked |-> "open"]
    BY <1>2, StageIs DEF StageOf, Open
  <1> QED BY <1>2, <1>3 DEF Init, End, Promise!Init

\* A stopped action, whoever stops it.
LEMMA StopPromise ==
  ASSUME TypeOK, NEW c \in Emails, NEW s \in {"aborted", "needs_review", "superseded"},
         act[c] \in Open \cup {"revocation_pending"}, ActTo(c, s), UNCHANGED now,
         \/ deadline' = [deadline EXCEPT ![c] = None]
         \/ UNCHANGED deadline /\ (c \in Asked => deadline[c] = None)
  PROVE  Implemented
  <1>1. CASE c \notin Asked
    <2>1. Stage' = Stage
      BY <1>1, StageMoves
    <2>2. End' = End
      BY <1>1, EndMoves, EndStays
    <2> QED BY <2>1, <2>2 DEF Implemented
  <1>2. CASE c \in Asked
    <2>1. Stage' = [Stage EXCEPT ![c] = "stopped"]
      BY <1>2, StageMoves DEF StageOf, Open
    <2>2. End' = [End EXCEPT ![c] = None]
      <3>1. CASE deadline' = [deadline EXCEPT ![c] = None]
        BY <1>2, <3>1, EndMoves
      <3>2. CASE UNCHANGED deadline /\ deadline[c] = None
        <4>1. End' = End /\ End[c] = None /\ End \in [Asked -> {End[d] : d \in Asked}]
          BY <1>2, <3>2, EndStays DEF End
        <4> QED BY <4>1
      <3> QED BY <1>2, <3>1, <3>2
    <2>3. Stage[c] \in {"open", "counting"}
      BY <1>2, StageIs DEF StageOf, Open
    <2>4. Promise!Stop(c)
      BY <2>1, <2>2, <2>3 DEF Promise!Stop, Promise!To
    <2> QED BY <1>2, <2>4 DEF Implemented, Promise!Next
  <1> QED BY <1>1, <1>2

LEMMA HopPromise ==
  ASSUME TypeOK, BrakeOK, NEW c \in Emails, NEW s \in ActState, Hop(c, s),
         ActTo(c, s), UNCHANGED <<now, deadline>>
  PROVE  Implemented
  <1>0. End' = End
    BY EndStays
  <1>1. CASE c \notin Asked \/ StageOf(s) = StageOf(act[c])
    BY <1>0, <1>1, StageMoves DEF Implemented
  <1>2. CASE c \in Asked /\ StageOf(s) # StageOf(act[c])
    <2>0. Destructive(c) /\ BrakeOf(c)
      BY <1>2 DEF Asked, BrakeOK
    <2>1. \/ act[c] = "validating" /\ s = "needs_review"
          \/ act[c] = "revocation_pending" /\ Elapsed(c) /\ s = "provider_mutating"
          \/ act[c] = "db_committing" /\ s \in {"succeeded", "needs_review"}
      BY <1>2, <2>0 DEF Hop, StageOf, Open
    <2>2. /\ Stage' = [Stage EXCEPT ![c] = StageOf(s)]
          /\ Stage[c] = StageOf(act[c]) /\ End[c] = deadline[c]
      BY <1>2, StageMoves, StageIs DEF End
    <2>3. CASE act[c] = "validating" /\ s = "needs_review"
      BY <2>0, <2>3, StopPromise DEF BrakeOf, Open
    <2>4. CASE act[c] = "revocation_pending" /\ Elapsed(c) /\ s = "provider_mutating"
      <3>1. Stage[c] = "counting" /\ StageOf(s) = "carrying" /\ now >= End[c]
        BY <2>2, <2>4 DEF StageOf, Open, Elapsed
      <3>2. Promise!CarryOut(c)
        BY <1>0, <2>2, <3>1 DEF Promise!CarryOut, Promise!To
      <3> QED BY <1>2, <3>2 DEF Implemented, Promise!Next
    <2>5. CASE act[c] = "db_committing" /\ s \in {"succeeded", "needs_review"}
      <3>1. Stage[c] = "carrying" /\ StageOf(s) \in {"done", "stopped"}
        BY <2>2, <2>5 DEF StageOf, Open
      <3>2. Promise!Settle(c)
        BY <1>0, <2>2, <3>1 DEF Promise!Settle, Promise!To
      <3> QED BY <1>2, <3>2 DEF Implemented, Promise!Next
    <2> QED BY <2>1, <2>3, <2>4, <2>5
  <1> QED BY <1>1, <1>2

LEMMA PromiseNext ==
  ASSUME TypeOK, BrakeOK, KillsOK, [Next]_vars
  PROVE  Implemented
  <1>0. ASSUME UNCHANGED <<now, act, deadline>> PROVE Implemented
    BY <1>0, StageIs, StageIsNext, EndStays DEF Implemented
  <1>00. act \in [Emails -> ActState]
    BY DEF TypeOK
  <1>1. ASSUME NEW w \in Workers, NEW c \in Emails, Execute(w, c)
        PROVE  Implemented
    BY <1>1, ExecuteHops, HopPromise
  <1>2. ASSUME NEW n \in Emails, ParseCommit(n)
        PROVE  Implemented
    <2> DEFINE p == parse[n].prior
    <2>1. UNCHANGED <<now, deadline>>
      BY <1>2 DEF ParseCommit
    <2>2. CASE ~parse[n].kills
      BY <1>0, <1>2, <2>1, <2>2 DEF ParseCommit
    <2>3. CASE parse[n].kills
      <3>1. p \in Emails /\ act[p] \in {"queued", "claimed"}
        BY <2>3 DEF KillsOK, KillsOf, Supersedable
      <3>2. ActTo(p, "superseded")
        BY <1>2, <2>3 DEF ParseCommit, ActTo
      <3>3. p \in Asked => deadline[p] = None
        BY <3>1 DEF Asked, BrakeOK, BrakeOf, Open
      <3> HIDE DEF p
      <3> QED BY <2>1, <3>1, <3>2, <3>3, StopPromise DEF Open
    <2> QED BY <2>2, <2>3
  <1>3. ASSUME NEW c \in Emails, Confirm(c)
        PROVE  Implemented
    <2>1. ActTo(c, "queued") /\ act[c] = "none" /\ UNCHANGED <<now, deadline>>
      BY <1>3 DEF Confirm
    <2>2. Stage' = Stage
      BY <2>1, StageMoves DEF StageOf, Open
    <2> QED BY <2>1, <2>2, EndStays DEF Implemented
  <1>4. ASSUME NEW c \in Emails, Dismiss(c)
        PROVE  Implemented
    BY <1>0, <1>4 DEF Dismiss, actVars
  <1>5. ASSUME NEW c \in Emails, Abort(c)
        PROVE  Implemented
    BY <1>5, StopPromise DEF Abort, Abortable, Stop
  <1>6. ASSUME NEW c \in Emails, NEW e \in EventTypes, Webhook(c, e)
        PROVE  Implemented
    <2>0. UNCHANGED now
      BY <1>6, WebhookSteps
    <2>1. CASE act[c] = "awaiting_owner_alert" /\ StartBrake(c)
      <3>0. /\ ActTo(c, "revocation_pending")
            /\ deadline' = [deadline EXCEPT ![c] = now + Brake]
        BY <2>1 DEF StartBrake
      <3>1. CASE c \in Asked
        <4>0. End' = [End EXCEPT ![c] = now + Brake]
          BY <3>0, <3>1, EndMoves
        <4>1. /\ Stage' = [Stage EXCEPT ![c] = "counting"]
              /\ End' = [End EXCEPT ![c] = now + Brake]
              /\ Stage[c] = "open"
          <5>1. StageOf("revocation_pending") = "counting"
            BY DEF StageOf, Open
          <5>2. Stage[c] = "open"
            BY <2>1, <3>1, StageIs DEF StageOf, Open
          <5> QED BY <3>0, <3>1, <4>0, <5>1, <5>2, StageMoves
        <4>2. Promise!Announce(c)
          BY <2>0, <4>1 DEF Promise!Announce, Promise!To
        <4> QED BY <3>1, <4>2 DEF Implemented, Promise!Next
      <3>2. CASE c \notin Asked
        BY <2>0, <3>0, <3>2, StageMoves, EndMoves DEF Implemented
      <3> QED BY <3>1, <3>2
    <2>2. CASE /\ act[c] \in {"awaiting_owner_alert", "revocation_pending"}
               /\ Stop(c, "needs_review")
      BY <2>0, <2>2, StopPromise DEF Stop, Open
    <2>3. CASE UNCHANGED <<act, deadline, job, cand>>
      BY <1>0, <2>0, <2>3
    <2> QED BY <1>6, <2>1, <2>2, <2>3, WebhookSteps
  <1>7. CASE Tick
    <2>1. now' = now + 1 /\ UNCHANGED <<act, deadline>>
      BY <1>7 DEF Tick, actVars
    <2>2. Stage' = Stage /\ End' = End
      BY <2>1, StageIs, StageIsNext, EndStays
    <2>3. Promise!Tick
      BY <2>1, <2>2 DEF Promise!Tick
    <2> QED BY <2>3 DEF Implemented, Promise!Next
  <1>8. CASE Quiet
    BY <1>0, <1>8 DEF Quiet
  <1> QED BY <1>1, <1>2, <1>3, <1>4, <1>5, <1>6, <1>7, <1>8, NextSteps

\* The saga keeps what the owner is promised: an announcement, the time to stop
\* it, and nothing destructive before.
THEOREM BrakeImplemented == Spec => ImplementsOwnerBrake
  <1>1. TypeOK /\ BrakeOK /\ KillsOK /\ [Next]_vars
          => [Promise!Next]_(Promise!vars)
    BY PromiseNext DEF Implemented, Promise!vars
  <1>2. Spec => []KillsOK
    BY InitType, NextType, KillsInit, KillsNext, PTL DEF Spec
  <1> QED BY <1>1, <1>2, BrakeInvariant, PromiseInit, PTL
          DEF Spec, ImplementsOwnerBrake, Promise!Spec

-----------------------------------------------------------------------------
(* The alert.                                                              *)

LEMMA SentInit == Init => SentOK
  BY DEF Init, SentOK, SentOf, At, Jobs

Linked(c) == delivery[c] # "none"

\* A step that links nothing, sends nothing and lets nobody begin to send.
LEMMA SentFrame ==
  ASSUME SentOK, UNCHANGED sent,
         \A c \in Emails : Linked(c) => Linked(c)',
         \A w \in Workers, c \in Emails : At(w, c, "send")' => At(w, c, "send")
  PROVE  SentOK'
  <1> SUFFICES ASSUME NEW c \in Emails PROVE SentOf(c)'
    BY DEF SentOK
  <1>1. SentOf(c)
    BY DEF SentOK
  <1> QED BY <1>1 DEF SentOf, Linked

\* Whoever leaves, only its own place changes.
LEMMA Moves ==
  ASSUME TypeOK, NEW w \in Workers, NEW c \in Emails, NEW l,
         pc' = [pc EXCEPT ![<<w, c>>] = l]
  PROVE  /\ At(w, c, l)'
         /\ \A v \in Workers, d \in Emails :
              v # w \/ d # c => (At(v, d, "send")' <=> At(v, d, "send"))
  <1>1. pc'[<<w, c>>] = l
    BY DEF TypeOK, Jobs
  <1>2. ASSUME NEW v \in Workers, NEW d \in Emails, v # w \/ d # c
        PROVE  pc'[<<v, d>>] = pc[<<v, d>>]
    <2>1. <<v, d>> # <<w, c>> /\ <<v, d>> \in Jobs
      BY <1>2 DEF Jobs
    <2> QED BY <2>1 DEF TypeOK
  <1>3. At(w, c, l)'
    BY <1>1 DEF At
  <1>4. ASSUME NEW v \in Workers, NEW d \in Emails, v # w \/ d # c
        PROVE  At(v, d, "send")' <=> At(v, d, "send")
    BY <1>2, <1>4 DEF At
  <1> QED BY <1>3, <1>4

LEMMA GoOnMoves ==
  ASSUME TypeOK, NEW w \in Workers, NEW c \in Emails, GoOn(w, c)
  PROVE  \E l \in PC \ {"send"} : pc' = [pc EXCEPT ![<<w, c>>] = l]
  <1> DEFINE l == Onward(mem[<<w, c>>])
  <1>1. l \in PC \ {"send"}
    BY DEF Onward, PC
  <1>2. pc' = [pc EXCEPT ![<<w, c>>] = l]
    BY DEF GoOn, Goto
  <1> HIDE DEF l
  <1> QED BY <1>1, <1>2

\* A job that goes anywhere but to send, with the rest of the frame.
LEMMA LeaveFrame ==
  ASSUME TypeOK, SentOK, NEW w \in Workers, NEW c \in Emails, NEW l \in PC \ {"send"},
         pc' = [pc EXCEPT ![<<w, c>>] = l], UNCHANGED <<sent, delivery>>
  PROVE  SentOK'
  <1>1. \A v \in Workers, d \in Emails : At(v, d, "send")' => At(v, d, "send")
    <2> SUFFICES ASSUME NEW v \in Workers, NEW d \in Emails, At(v, d, "send")'
                 PROVE  At(v, d, "send")
      OBVIOUS
    <2>1. CASE v = w /\ d = c
      <3>1. At(w, c, l)'
        BY Moves
      <3> QED BY <2>1, <3>1 DEF At
    <2>2. CASE v # w \/ d # c
      BY <2>2, Moves
    <2> QED BY <2>1, <2>2
  <1> QED BY <1>1, SentFrame DEF Linked

\* The call to SendGrid, whatever comes of it and of the caller.
LEMMA TakenOnce ==
  ASSUME TypeOK, SentOK, NEW w \in Workers, NEW c \in Emails, NEW l \in PC \ {"send"},
         At(w, c, "send"), pc' = [pc EXCEPT ![<<w, c>>] = l],
         Taken(c) \/ UNCHANGED mailVars,
         \A d \in Emails : Linked(d) => Linked(d)'
  PROVE  SentOK'
  <1>0. sent \in [Emails -> Nat]
    BY DEF TypeOK
  <1>1. ASSUME NEW v \in Workers, NEW d \in Emails, At(v, d, "send")'
        PROVE  At(v, d, "send") /\ d # c
    <2>1. v # w \/ d # c
      <3>1. At(w, c, l)'
        BY Moves
      <3> QED BY <1>1, <3>1 DEF At
    <2>2. At(v, d, "send")
      BY <1>1, <2>1, Moves
    <2> QED BY <2>1, <2>2 DEF SentOK, SentOf
  <1>2. CASE UNCHANGED mailVars
    BY <1>1, <1>2, SentFrame DEF mailVars
  <1>3. CASE Taken(c)
    <2> SUFFICES ASSUME NEW d \in Emails PROVE SentOf(d)'
      BY DEF SentOK
    <2>1. SentOf(d) /\ SentOf(c)
      BY DEF SentOK
    <2>2. CASE d = c
      <3>1. sent'[d] = 1
        BY <1>0, <1>3, <2>1, <2>2 DEF Taken, SentOf
      <3>2. Linked(d)'
        BY <2>1, <2>2 DEF SentOf, Linked
      <3>3. \A v \in Workers : ~At(v, d, "send")'
        BY <1>1, <2>2
      <3> QED BY <3>1, <3>2, <3>3 DEF SentOf, Linked
    <2>3. CASE d # c
      <3>1. sent'[d] = sent[d]
        BY <1>0, <1>3, <2>3 DEF Taken
      <3> QED BY <1>1, <2>1, <3>1 DEF SentOf, Linked
    <2> QED BY <2>2, <2>3
  <1> QED BY <1>2, <1>3

LEMMA LinkOnce ==
  ASSUME TypeOK, SentOK, NEW w \in Workers, NEW c \in Emails, LinkDelivery(w, c)
  PROVE  SentOK'
  <1>0. UNCHANGED sent
    BY DEF LinkDelivery, mailVars
  <1>1. CASE /\ delivery[c] = "none"
             /\ delivery' = [delivery EXCEPT ![c] = "sending"]
             /\ Goto(w, c, "send")
    <2>0. pc' = [pc EXCEPT ![<<w, c>>] = "send"]
      BY <1>1 DEF Goto
    <2>1. \A d \in Emails : delivery'[d] = IF d = c THEN "sending" ELSE delivery[d]
      BY <1>1 DEF TypeOK
    <2>2. \A v \in Workers : ~At(v, c, "send") /\ sent[c] = 0
      BY <1>1 DEF SentOK, SentOf
    <2>3. \A v \in Workers, d \in Emails :
            v # w \/ d # c => (At(v, d, "send")' <=> At(v, d, "send"))
      BY <2>0, Moves
    <2> SUFFICES ASSUME NEW d \in Emails PROVE SentOf(d)'
      BY DEF SentOK
    <2>4. SentOf(d)
      BY DEF SentOK
    <2>5. CASE d = c
      BY <1>0, <2>1, <2>2, <2>3, <2>4, <2>5 DEF SentOf
    <2>6. CASE d # c
      BY <1>0, <2>1, <2>3, <2>4, <2>6 DEF SentOf
    <2> QED BY <2>5, <2>6
  <1>2. CASE GoOn(w, c) /\ UNCHANGED delivery
    BY <1>0, <1>2, GoOnMoves, LeaveFrame
  <1> QED BY <1>1, <1>2 DEF LinkDelivery

LEMMA SentNext ==
  ASSUME TypeOK, SentOK, [Next]_vars
  PROVE  SentOK'
  <1> USE DEF PC
  <1>1. ASSUME NEW w \in Workers, Claim(w)
        PROVE  SentOK'
    <2>1. \A v \in Workers, d \in Emails : At(v, d, "send")' => At(v, d, "send")
      BY <1>1 DEF Claim, At, Jobs
    <2> QED BY <1>1, <2>1, SentFrame DEF Claim, Linked, mailVars
  <1>2. ASSUME NEW w \in Workers, NEW c \in Emails, Execute(w, c)
        PROVE  SentOK'
    <2>0. UNCHANGED <<sent, delivery>>
      BY <1>2 DEF Execute, mailVars
    <2>1. PICK l : pc' = [pc EXCEPT ![<<w, c>>] = l] /\ l \in PC \ {"send"}
      <3> DEFINE m == [state |-> act'[c], deadline |-> deadline[c],
                       moved |-> act'[c] # mem[<<w, c>>].state]
                 l == IF m.state = "awaiting_owner_alert" /\ delivery[c] = "none"
                      THEN "alert" ELSE Onward(m)
      <3>1. pc' = [pc EXCEPT ![<<w, c>>] = l]
        BY <1>2 DEF Execute
      <3>2. l \in PC \ {"send"}
        BY DEF Onward
      <3> HIDE DEF l
      <3> QED BY <3>1, <3>2
    <2> QED BY <2>0, <2>1, LeaveFrame
  <1>3. ASSUME NEW w \in Workers, NEW c \in Emails, Alert(w, c)
        PROVE  SentOK'
    <2>1. \E l \in PC \ {"send"} : pc' = [pc EXCEPT ![<<w, c>>] = l]
      BY <1>3, GoOnMoves DEF Alert, Goto
    <2>2. UNCHANGED <<sent, delivery>>
      BY <1>3 DEF Alert, mailVars
    <2> QED BY <2>1, <2>2, LeaveFrame
  <1>4. ASSUME NEW w \in Workers, NEW c \in Emails, Send(w, c)
        PROVE  SentOK'
    <2>1. At(w, c, "send") /\ (Taken(c) \/ UNCHANGED mailVars)
      BY <1>4 DEF Send
    <2>2. \E l \in PC \ {"send"} : pc' = [pc EXCEPT ![<<w, c>>] = l]
      BY <1>4, GoOnMoves DEF Send
    <2>3. \A d \in Emails : Linked(d) => Linked(d)'
      BY <1>4 DEF Send, TypeOK, Linked
    <2> QED BY <2>1, <2>2, <2>3, TakenOnce
  <1>5. ASSUME NEW w \in Workers, NEW c \in Emails, Finish(w, c)
        PROVE  SentOK'
    BY <1>5, LeaveFrame DEF Finish, mailVars
  <1>6. ASSUME NEW w \in Workers, NEW c \in Emails, JobLost(w, c)
        PROVE  SentOK'
    <2>1. CASE At(w, c, "send")
      BY <1>6, <2>1, TakenOnce DEF JobLost, Linked
    <2>2. CASE ~At(w, c, "send")
      BY <1>6, <2>2, LeaveFrame DEF JobLost, mailVars
    <2> QED BY <2>1, <2>2
  <1>7. ASSUME NEW c \in Emails, NEW e \in EventTypes, Webhook(c, e)
        PROVE  SentOK'
    <2>1. \A d \in Emails : Linked(d) => Linked(d)'
      <3>1. delivery[c] # "none" => Reported(delivery[c], e) # "none"
        BY DEF Reported, EventTypes
      <3> QED BY <1>7, <3>1 DEF Webhook, Linked, TypeOK
    <2>2. UNCHANGED <<pc, sent>>
      BY <1>7, WebhookSteps
    <2> QED BY <2>1, <2>2, SentFrame DEF At
  <1>8. ASSUME UNCHANGED <<sent, delivery, pc>>
        PROVE  SentOK'
    BY <1>8, SentFrame DEF Linked, At
  <1>9. ASSUME NEW c \in Emails,
               \/ ParseStep(c) \/ ParseFails(c) \/ OwnerStep(c)
               \/ LeaseLapses(c) \/ TripEnds(c)
        PROVE  UNCHANGED <<sent, delivery, pc>>
    BY <1>9 DEF ParseStep, ParseChoose, ParseHold, ParseKill, ParseCommit,
                ParseFails, OwnerStep, Confirm, Dismiss, Purge, Abort,
                LeaseLapses, TripEnds, mailVars, workerVars
  <1>10. ASSUME SetEnabled \/ Tick \/ UNCHANGED vars
         PROVE  UNCHANGED <<sent, delivery, pc>>
    BY <1>10 DEF SetEnabled, Tick, vars, mailVars, workerVars
  <1> QED BY <1>1, <1>2, <1>3, <1>4, <1>5, <1>6, <1>7, <1>8, <1>9, <1>10, LinkOnce
          DEF Next, JobStep

\* Whatever jobs overlap on an action and however they end, SendGrid takes one
\* alert of it.
THEOREM OneAlert == Spec => []AlertedOnce
  <1>1. SentOK => AlertedOnce
    BY DEF SentOK, SentOf, AlertedOnce
  <1> QED BY <1>1, InitType, NextType, SentInit, SentNext, PTL DEF Spec

=============================================================================

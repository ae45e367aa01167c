----------------------------- MODULE GuestProofs -----------------------------
(***************************************************************************)
(* Theorems about the parts of a workspace that a guest meets, each from   *)
(* an inductive strengthening of its own: the progress of a walkthrough    *)
(* stays finished, the private link outlives its trip, trips with one      *)
(* address are one guest's, and Back stays in the walkthrough.             *)
(***************************************************************************)
EXTENDS Workspace, SequenceTheorems, WellFoundedInduction, TLAPS

LEMMA WhichStays ==
  ASSUME [PartNext]_allVars
  PROVE  which' = which
  BY DEF PartNext, allVars

\* A set of numbers has a least one, and a greatest one where it has a bound.
LEMMA Least ==
  ASSUME NEW T \in SUBSET Nat, T # {}
  PROVE  \E x \in T : \A y \in T : x <= y
  <1> DEFINE R == {p \in Nat \X Nat : p[1] < p[2]}
  <1>1. IsWellFoundedOn(R, Nat)
    BY NatLessThanWellFounded DEF OpToRel
  <1> HIDE DEF R
  <1>2. PICK x \in T : \A y \in T : <<y, x>> \notin R
    BY <1>1, WFMin
  <1>3. \A y \in T : ~(y < x)
    BY <1>2 DEF R
  <1> QED
    BY <1>3

LEMMA Greatest ==
  ASSUME NEW n \in Nat, NEW T \in SUBSET (0 .. n), T # {}
  PROVE  \E x \in T : \A y \in T : y <= x
  <1> DEFINE U == {n - t : t \in T}
  <1>1. U \in SUBSET Nat /\ U # {}
    <2>1. \A t \in T : n - t \in Nat
      OBVIOUS
    <2> QED
      BY <2>1
  <1>2. PICK u \in U : \A v \in U : u <= v
    BY <1>1, Least
  <1>3. PICK x \in T : u = n - x
    BY <1>2
  <1>4. ASSUME NEW y \in T
        PROVE  y <= x
    <2>1. n - y \in U
      OBVIOUS
    <2> QED
      BY <1>2, <1>3, <2>1
  <1> QED
    BY <1>4

-----------------------------------------------------------------------------
(* The guest's progress.                                                   *)

TabType == {Progress!Closed} \cup [link : Progress!Links, step : Progress!Steps,
                                   timer : Progress!Steps \cup {Progress!Nothing}]

\* Who consented has finished, on the row as it stands.
ProgressOK ==
  /\ Progress!TypeOK /\ tab \in [Tabs -> TabType]
  /\ guest.consented => guest.completed

LEMMA ProgressStep ==
  ASSUME [PartNext]_allVars, Runs("progress")
  PROVE  Progress!Next \/ UNCHANGED progressVars
  BY DEF PartNext, allVars, Runs

LEMMA ProgressInit == PartInit => ProgressOK
  BY ProgressAssumption DEF PartInit, Progress!Init, ProgressOK, Progress!TypeOK,
     Progress!Nothing, Progress!Links, Progress!Steps, Progress!Closed, TabType

LEMMA ProgressNext ==
  ASSUME ProgressOK, Progress!Next
  PROVE  ProgressOK'
  <1> USE ProgressAssumption DEF ProgressOK, Progress!TypeOK, TabType, Progress!Nothing,
          Progress!Links, Progress!Steps, Progress!Closed
  <1>1. CASE Progress!NewLink
    BY <1>1 DEF Progress!NewLink
  <1>2. CASE Progress!Shut
    BY <1>2 DEF Progress!Shut
  <1>3. ASSUME NEW p \in Tabs, Progress!OpenPage(p)
        PROVE  ProgressOK'
    <2>1. Progress!Restored(stored[p]) \in Progress!Steps
      BY DEF Progress!Restored
    <2> QED
      BY <1>3, <2>1 DEF Progress!OpenPage, Progress!Shows, Progress!Keeps
  <1>4. ASSUME NEW p \in Tabs, Progress!Move(p) \/ Progress!StartAgain(p)
        PROVE  ProgressOK'
    <2>1. tab[p] \in [link : Progress!Links, step : Progress!Steps,
                      timer : Progress!Steps \cup {Progress!Nothing}]
      BY <1>4 DEF Progress!Move, Progress!StartAgain
    <2>2. CASE Progress!Move(p)
      <3>1. PICK s \in Progress!Steps :
              /\ tab' = [tab EXCEPT ![p] = [tab[p] EXCEPT !.step = s, !.timer = s]]
              /\ Progress!Keeps(p, tab[p].link, s)
        BY <2>2 DEF Progress!Move, Progress!Shows
      <3>2. tab' \in [Tabs -> TabType]
        BY <2>1, <3>1
      <3>3. stored' \in [Tabs -> Progress!Steps \cup {Progress!Nothing}]
        BY <3>1 DEF Progress!Keeps
      <3> QED
        BY <2>2, <3>2, <3>3 DEF Progress!Move
    <2>3. CASE Progress!StartAgain(p)
      <3>1. tab' \in [Tabs -> TabType]
        <4>1. 0 \in Progress!Steps
          OBVIOUS
        <4>2. [tab[p] EXCEPT !.step = 0, !.timer = 0] \in TabType
          BY <2>1, <4>1
        <4> QED
          BY <2>3, <4>2 DEF Progress!StartAgain, Progress!Shows
      <3>2. stored' \in [Tabs -> Progress!Steps \cup {Progress!Nothing}]
        BY <2>3 DEF Progress!StartAgain, Progress!Keeps
      <3> QED
        BY <2>3, <3>1, <3>2 DEF Progress!StartAgain
    <2> QED
      BY <1>4, <2>2, <2>3
  <1>5. ASSUME NEW p \in Tabs, Progress!Publish(p) \/ Progress!ClosePage(p)
        PROVE  ProgressOK'
    BY <1>5 DEF Progress!Publish, Progress!ClosePage, Progress!Shows
  <1>6. ASSUME NEW p \in Tabs, Progress!Consent(p)
        PROVE  ProgressOK'
    BY <1>6 DEF Progress!Consent
  <1>7. ASSUME NEW r \in flight, Progress!Update(r)
        PROVE  ProgressOK'
    BY <1>7 DEF Progress!Update, Progress!Completed
  <1> QED
    BY <1>1, <1>2, <1>3, <1>4, <1>5, <1>6, <1>7 DEF Progress!Next

\* Whatever order posts of several tabs arrive in, a guest who consented has finished
\* the walkthrough on the row as it stands (update_onlyevs_guest_onboarding_progress).
THEOREM ProgressHolds == PartSpec => [](Runs("progress") => ProgressOK)
  <1> DEFINE Inv == Runs("progress") => ProgressOK
  <1>1. PartInit => Inv
    BY ProgressInit
  <1>2. Inv /\ [PartNext]_allVars => Inv'
    <2> SUFFICES ASSUME Inv, [PartNext]_allVars, Runs("progress")'
                 PROVE  ProgressOK'
      OBVIOUS
    <2>1. Runs("progress")
      BY WhichStays DEF Runs
    <2>2. CASE UNCHANGED progressVars
      BY <2>1, <2>2 DEF progressVars, ProgressOK, Progress!TypeOK
    <2> QED
      BY <2>1, <2>2, ProgressStep, ProgressNext
  <1> QED
    BY <1>1, <1>2, PTL DEF PartSpec

\* No post that comes late or from another tab takes back a finished walkthrough or
\* the consent.
THEOREM FinishedStays == PartSpec => FinishedStaysFinished
  <1>1. ASSUME Runs("progress") => ProgressOK, [PartNext]_allVars
        PROVE  [Runs("progress") => Progress!StillFinished]_progressVars
    <2> SUFFICES ASSUME Runs("progress"), Progress!Next
                 PROVE  Progress!StillFinished
      BY <1>1, ProgressStep
    <2> USE <1>1 DEF ProgressOK, Progress!TypeOK
    <2>1. CASE \E r \in flight : Progress!Update(r)
      BY <2>1 DEF Progress!Update, Progress!Completed, Progress!StillFinished
    <2>2. CASE \E p \in Tabs : Progress!Consent(p)
      BY <2>2 DEF Progress!Consent, Progress!StillFinished
    <2>3. CASE UNCHANGED guest
      BY <2>3 DEF Progress!StillFinished
    <2> QED
      BY <2>1, <2>2, <2>3 DEF Progress!Next, Progress!NewLink, Progress!Shut,
         Progress!OpenPage, Progress!Move, Progress!StartAgain, Progress!Publish,
         Progress!ClosePage
  <1> QED
    BY <1>1, ProgressHolds, PTL DEF PartSpec, FinishedStaysFinished

-----------------------------------------------------------------------------
(* The private link.                                                       *)

Request == [at : {"idle", "create", "rotate", "begun", "sending", "sent", "unsent"},
            ends : TripEndings \cup {0}, delivery : 0 .. MaxReminders,
            floor : 0 .. MaxLinks, link : 0 .. MaxLinks]
Reminder == [status : {"pending", "sent", "failed"}, asked : 0 .. MaxClock]
TripType == [origin : Portal!Origins, status : Portal!Statuses \ {"none"}, ends : TripEndings, link : 1 .. MaxLinks,
             expires : {e + Day : e \in TripEndings}]
SecretType == [link : 1 .. MaxLinks, destroy : {e + Day : e \in TripEndings}]

TripTyped ==
  /\ booked = Portal!NoTrip \/ booked \in TripType
  /\ secret = Portal!NoSecret \/ secret \in SecretType
  /\ clock \in 0 .. MaxClock

RemindersTyped ==
  /\ reminders \in Seq(Reminder) /\ Len(reminders) <= MaxReminders
  /\ request \in [Tabs -> Request]
  /\ reschedules \in 0 .. MaxReschedules /\ outgrown \in BOOLEAN

\* What is kept of the token is the current one's.
TripOK ==
  /\ TripTyped
  /\ secret # Portal!NoSecret => secret.link = booked.link
  /\ Portal!LinkOutlivesTrip

\* A reminder that was begun asked for the current link or an older one; what
\* it sends is none older.
RequestOK(r) ==
  /\ r \in Request /\ r.floor <= booked.link
  /\ r.at \in {"create", "rotate"} => r.ends \in TripEndings
  /\ r.at = "sending" => r.link >= r.floor

PortalOK == TripOK /\ RemindersTyped /\ \A o \in Tabs : RequestOK(request[o])

LEMMA PortalTypes == PortalOK => Portal!TypeOK
  BY DEF PortalOK, TripOK, TripTyped, RemindersTyped, Portal!TypeOK, TripType, SecretType, Request,
     Reminder

LEMMA PortalConclusion == PortalOK => Portal!LinkHolds
  BY DEF PortalOK, TripOK, RequestOK, Portal!LinkHolds, Portal!MailedLinkIsCurrent

LEMMA PortalStep ==
  ASSUME [PartNext]_allVars, Runs("portal")
  PROVE  Portal!Next \/ UNCHANGED portalVars
  BY DEF PartNext, allVars, Runs

LEMMA PortalSame ==
  ASSUME PortalOK, UNCHANGED portalVars
  PROVE  PortalOK'
  BY DEF portalVars, PortalOK, TripOK, TripTyped, RemindersTyped, RequestOK,
     Portal!LinkOutlivesTrip

LEMMA QuietOK ==
  /\ Portal!Quiet \in Request /\ Portal!Quiet.floor = 0 /\ Portal!Quiet.at = "idle"
  BY PortalAssumption DEF Portal!Quiet, Request

LEMMA BookedLink == TripTyped => booked.link \in 0 .. MaxLinks
  BY PortalAssumption DEF TripTyped, TripType, Portal!NoTrip

LEMMA QuietRequestOK == TripTyped => RequestOK(Portal!Quiet)
  BY QuietOK, BookedLink DEF RequestOK

LEMMA PortalInit == PartInit => PortalOK
  <1> SUFFICES ASSUME PartInit
               PROVE  PortalOK
    OBVIOUS
  <1> USE PortalAssumption DEF PartInit, Portal!Init
  <1>1. TripOK
    BY DEF TripOK, TripTyped, Portal!LinkOutlivesTrip
  <1>2. RemindersTyped
    <2>1. outgrown \in BOOLEAN
      OBVIOUS
    <2>2. /\ reminders \in Seq(Reminder) /\ Len(reminders) <= MaxReminders
          /\ request \in [Tabs -> Request] /\ reschedules \in 0 .. MaxReschedules
      BY QuietOK
    <2> QED
      BY <2>1, <2>2 DEF RemindersTyped
  <1> QED
    BY <1>1, <1>2, QuietRequestOK DEF PortalOK, TripOK

\* A request becomes one it may be, of a trip that stays as it is.
LEMMA BecomesOK ==
  ASSUME PortalOK, NEW o \in Tabs, NEW r, RequestOK(r), Portal!Becomes(o, r),
         UNCHANGED <<clock, booked, secret, reminders, reschedules, outgrown>>
  PROVE  PortalOK'
  <1>1. TripOK'
    BY DEF PortalOK, TripOK, TripTyped, Portal!LinkOutlivesTrip
  <1> QED
    BY <1>1 DEF PortalOK, RemindersTyped, Portal!Becomes, RequestOK

\* The trip changes, and its link is no older; the requests stay, but for one
\* that is over.
LEMMA TripChanges ==
  ASSUME PortalOK, TripOK', booked'.link >= booked.link, RemindersTyped',
         \A o \in Tabs : request'[o] \in {request[o], Portal!Quiet}
  PROVE  PortalOK'
  <1>1. booked.link \in Int /\ booked'.link \in Int
    BY BookedLink DEF PortalOK, TripOK, TripTyped, TripType, Portal!NoTrip
  <1>2. ASSUME NEW o \in Tabs
        PROVE  RequestOK(request[o])'
    <2>1. CASE request'[o] = request[o]
      BY <1>1, <2>1 DEF PortalOK, RequestOK, Request
    <2>2. CASE request'[o] = Portal!Quiet
      BY <1>1, <2>2, QuietOK, BookedLink DEF PortalOK, RequestOK, TripOK, TripTyped, TripType,
         Portal!NoTrip
    <2> QED
      BY <2>1, <2>2
  <1> QED
    BY <1>2 DEF PortalOK, RequestOK

\* What the sweep, the calendar, a mail and the owner write to a trip.
LEMMA TripWritten ==
  ASSUME PortalOK, booked # Portal!NoTrip, UNCHANGED <<clock, secret, reminders, request>>,
         reschedules' \in 0 .. MaxReschedules, outgrown' \in BOOLEAN,
         booked' \in TripType, booked'.link = booked.link,
         Portal!LinkOutlivesTrip'
  PROVE  PortalOK'
  <1>1. TripOK'
    BY DEF PortalOK, TripOK, TripTyped
  <1>2. RemindersTyped'
    BY DEF PortalOK, RemindersTyped
  <1>3. booked.link \in Int
    BY BookedLink DEF PortalOK, TripOK
  <1> QED
    BY <1>1, <1>2, <1>3, TripChanges

LEMMA PortalNext ==
  ASSUME PortalOK, Portal!Next
  PROVE  PortalOK'
  <1> USE PortalAssumption
  <1>a. /\ booked = Portal!NoTrip \/ booked \in TripType
        /\ secret = Portal!NoSecret \/ secret \in SecretType
        /\ reminders \in Seq(Reminder) /\ Len(reminders) <= MaxReminders
        /\ request \in [Tabs -> Request]
        /\ clock \in 0 .. MaxClock /\ reschedules \in 0 .. MaxReschedules
        /\ outgrown \in BOOLEAN
        /\ \A o \in Tabs : RequestOK(request[o])
    BY DEF PortalOK, TripOK, TripTyped, RemindersTyped
  <1>b. Portal!LinkOutlivesTrip
    BY DEF PortalOK, TripOK
  <1>c. booked.link \in 0 .. MaxLinks
    BY BookedLink DEF PortalOK, TripOK
  <1>1. CASE Portal!Tick
    <2>1. TripOK'
      BY <1>1 DEF Portal!Tick, PortalOK, TripOK, TripTyped, Portal!LinkOutlivesTrip
    <2> QED
      BY <1>1, <2>1 DEF Portal!Tick, PortalOK, RemindersTyped, RequestOK
  <1>2. CASE Portal!Sweep
    <2>1. booked \in TripType
      BY <1>2, <1>a DEF Portal!Sweep, Portal!NoTrip, Portal!Open
    <2>a. PICK s \in Portal!Statuses \ {"none"} : booked' = [booked EXCEPT !.status = s]
      <3>1. PICK invited : booked' = [booked EXCEPT !.status = Portal!Desired(invited)]
        BY <1>2 DEF Portal!Sweep
      <3>2. Portal!Desired(invited) \in Portal!Statuses \ {"none"}
        BY DEF Portal!Desired, Portal!Statuses, Portal!Open
      <3> QED
        BY <3>1, <3>2
    <2>2. booked' \in TripType
      BY <2>1, <2>a DEF TripType
    <2>3. /\ booked'.link = booked.link /\ booked'.ends = booked.ends
          /\ booked'.expires = booked.expires /\ booked'.origin = booked.origin
      BY <2>1, <2>a DEF TripType
    <2>4. booked # Portal!NoTrip
      BY <1>2 DEF Portal!Sweep, Portal!NoTrip, Portal!Open
    <2>5. Portal!LinkOutlivesTrip'
      BY <1>2, <1>b, <2>3, <2>4 DEF Portal!Sweep, Portal!LinkOutlivesTrip
    <2> QED
      BY <1>2, <1>a, <2>2, <2>3, <2>4, <2>5, TripWritten DEF Portal!Sweep
  <1>3. CASE Portal!Reschedule
    <2>1. booked \in TripType /\ booked # Portal!NoTrip
      BY <1>3, <1>a DEF Portal!Reschedule, Portal!NoTrip
    <2>2. PICK e \in TripEndings :
            booked' = [booked EXCEPT !.ends = e, !.status = Portal!ByClock(e),
                         !.expires = IF @ > e + Day THEN @ ELSE e + Day]
      BY <1>3 DEF Portal!Reschedule
    <2>3. booked' \in TripType
      BY <2>1, <2>2 DEF Portal!ByClock, TripType, Portal!Statuses, Portal!Open
    <2>4. booked'.link = booked.link /\ booked'.expires >= booked'.ends + Day
      BY <2>1, <2>2 DEF TripType
    <2>5. reschedules' \in 0 .. MaxReschedules
      BY <1>3, <1>a DEF Portal!Reschedule, Portal!Moved
    <2>6. Portal!LinkOutlivesTrip'
      BY <2>4 DEF Portal!LinkOutlivesTrip
    <2> QED
      BY <1>3, <1>a, <2>1, <2>3, <2>4, <2>5, <2>6, TripWritten DEF Portal!Reschedule
  <1>15. CASE Portal!MailMoves
    <2>1. booked \in TripType /\ booked # Portal!NoTrip /\ booked.origin = "mail"
      BY <1>15, <1>a DEF Portal!MailMoves, Portal!NoTrip
    <2>2. PICK e \in TripEndings : booked' = [booked EXCEPT !.ends = e]
      BY <1>15 DEF Portal!MailMoves
    <2>3. booked' \in TripType /\ booked'.link = booked.link /\ booked'.origin = "mail"
      BY <2>1, <2>2 DEF TripType
    <2>4. reschedules' \in 0 .. MaxReschedules
      BY <1>15, <1>a DEF Portal!MailMoves, Portal!Moved
    <2>5. Portal!LinkOutlivesTrip'
      BY <1>15, <2>3 DEF Portal!MailMoves, Portal!LinkOutlivesTrip
    <2> QED
      BY <1>15, <2>1, <2>3, <2>4, <2>5, TripWritten DEF Portal!MailMoves
  <1>4. CASE Portal!Cancel
    <2>1. booked \in TripType
      BY <1>4, <1>a DEF Portal!Cancel, Portal!NoTrip, Portal!Open
    <2>2. booked' \in TripType
      BY <1>4, <2>1 DEF Portal!Cancel, TripType, Portal!Statuses
    <2>3. /\ booked'.link = booked.link /\ booked'.ends = booked.ends
          /\ booked'.expires = booked.expires /\ booked'.origin = booked.origin
      BY <1>4, <2>1 DEF Portal!Cancel, TripType
    <2>4. booked # Portal!NoTrip
      BY <1>4 DEF Portal!Cancel, Portal!NoTrip, Portal!Open
    <2>5. Portal!LinkOutlivesTrip'
      BY <1>4, <1>b, <2>3, <2>4 DEF Portal!Cancel, Portal!LinkOutlivesTrip
    <2> QED
      BY <1>4, <1>a, <2>2, <2>3, <2>4, <2>5, TripWritten DEF Portal!Cancel
  <1>5. CASE Portal!Cleanup
    <2>1. TripOK'
      BY <1>5 DEF Portal!Cleanup, PortalOK, TripOK, TripTyped, Portal!LinkOutlivesTrip
    <2> QED
      BY <1>5, <2>1 DEF Portal!Cleanup, PortalOK, RemindersTyped, RequestOK
  <1>6. ASSUME NEW o \in Tabs, Portal!AskTrip(o)
        PROVE  PortalOK'
    <2>1. PICK e \in TripEndings : Portal!Becomes(o, [Portal!Quiet EXCEPT !.at = "create", !.ends = e])
      BY <1>6 DEF Portal!AskTrip
    <2> DEFINE r == [Portal!Quiet EXCEPT !.at = "create", !.ends = e]
    <2>2. r \in Request /\ r.floor = 0 /\ r.at = "create" /\ r.ends = e
      BY QuietOK DEF Request
    <2>3. RequestOK(r)
      BY <1>c, <2>2 DEF RequestOK
    <2> QED
      BY <1>6, <2>1, <2>3, BecomesOK DEF Portal!AskTrip
  <1>7. ASSUME NEW o \in Tabs, Portal!CreateTrip(o)
        PROVE  PortalOK'
    <2>1. request[o].ends \in TripEndings
      BY <1>7, <1>a DEF Portal!CreateTrip, RequestOK
    <2>2. TripOK' /\ booked'.link >= booked.link
      <3>1. CASE booked = Portal!NoTrip
        <4>a. /\ \E source \in Portal!Origins :
                   booked' = [origin |-> source, status |-> "confirmed",
                              ends |-> request[o].ends, link |-> 1,
                              expires |-> request[o].ends + Day]
              /\ secret' = [link |-> 1, destroy |-> request[o].ends + Day]
          BY <1>7, <3>1 DEF Portal!CreateTrip
        <4>1. booked' \in TripType /\ secret' \in SecretType
          <5>2. request[o].ends + Day \in {e + Day : e \in TripEndings}
            BY <2>1
          <5> QED
            BY <2>1, <4>a, <5>2 DEF TripType, SecretType, Portal!Statuses, Portal!Open
        <4>2. /\ secret'.link = booked'.link /\ booked'.expires >= booked'.ends + Day
              /\ booked'.link >= booked.link
          <5>1. /\ secret'.link = 1 /\ booked'.link = 1 /\ booked.link = 0
                /\ booked'.expires = booked'.ends + Day /\ booked'.ends = request[o].ends
            BY <3>1, <4>a DEF Portal!NoTrip
          <5>2. request[o].ends \in Int /\ Day \in Int
            BY <2>1
          <5>3. request[o].ends + Day >= request[o].ends + Day
            BY <5>2
          <5> QED
            BY <5>1, <5>3
        <4> QED
          BY <1>7, <1>a, <4>1, <4>2 DEF Portal!CreateTrip, TripOK, TripTyped,
             Portal!LinkOutlivesTrip
      <3>2. CASE booked # Portal!NoTrip
        BY <1>7, <1>a, <3>2, BookedLink DEF Portal!CreateTrip, PortalOK, TripOK, TripTyped,
           Portal!LinkOutlivesTrip
      <3> QED
        BY <3>1, <3>2
    <2>3. RemindersTyped' /\ \A p \in Tabs : request'[p] \in {request[p], Portal!Quiet}
      BY <1>7, <1>a, QuietOK DEF Portal!CreateTrip, Portal!Becomes, RemindersTyped
    <2> QED
      BY <2>2, <2>3, TripChanges
  <1>8. ASSUME NEW o \in Tabs, Portal!AskLink(o)
        PROVE  PortalOK'
    <2>1. booked.ends \in TripEndings
      BY <1>8, <1>a DEF Portal!AskLink, Portal!Rotatable, Portal!NoTrip, TripType
    <2> DEFINE r == [Portal!Quiet EXCEPT !.at = "rotate", !.ends = booked.ends]
    <2>2. r \in Request /\ r.floor = 0 /\ r.at = "rotate" /\ r.ends = booked.ends
      BY <2>1, QuietOK DEF Request
    <2>3. RequestOK(r)
      BY <1>c, <2>1, <2>2 DEF RequestOK
    <2> QED
      BY <1>8, <2>3, BecomesOK DEF Portal!AskLink
  <1>9. ASSUME NEW o \in Tabs, Portal!Rotate(o)
        PROVE  PortalOK'
    <2>1. request[o].ends \in TripEndings
      BY <1>9, <1>a DEF Portal!Rotate, RequestOK
    <2> DEFINE expires == request[o].ends + Day
    <2>2. TripOK' /\ booked'.link >= booked.link
      <3>1. CASE Portal!Rotatable /\ Portal!Reaches(expires)
        <4>1. booked \in TripType
          BY <3>1, <1>a DEF Portal!Rotatable, Portal!NoTrip
        <4>2. booked' = [booked EXCEPT !.link = booked.link + 1, !.expires = expires]
          BY <1>9, <3>1 DEF Portal!Rotate
        <4>a. booked.link + 1 \in 1 .. MaxLinks /\ expires \in {e + Day : e \in TripEndings}
          BY <1>9, <2>1, <4>1 DEF Portal!Rotate, TripType
        <4>3. booked' \in TripType /\ booked'.link = booked.link + 1
              /\ booked'.expires = expires /\ booked'.ends = booked.ends
          BY <4>1, <4>2, <4>a DEF TripType
        <4>4. secret' \in SecretType /\ secret'.link = booked'.link
          BY <1>9, <2>1, <3>1, <4>1, <4>3 DEF Portal!Rotate, Portal!Copied, SecretType, TripType
        <4>5. booked'.expires >= booked'.ends + Day
          BY <3>1, <4>3 DEF Portal!Reaches
        <4>6. booked.link \in Int
          BY <4>1 DEF TripType
        <4> QED
          BY <1>9, <1>a, <4>3, <4>4, <4>5, <4>6 DEF Portal!Rotate, TripOK, TripTyped,
             Portal!LinkOutlivesTrip
      <3>2. CASE ~(Portal!Rotatable /\ Portal!Reaches(expires))
        BY <1>9, <3>2, BookedLink DEF Portal!Rotate, PortalOK, TripOK, TripTyped,
           Portal!LinkOutlivesTrip
      <3> QED
        BY <3>1, <3>2
    <2>3. RemindersTyped' /\ \A p \in Tabs : request'[p] \in {request[p], Portal!Quiet}
      BY <1>9, <1>a, QuietOK DEF Portal!Rotate, Portal!Becomes, RemindersTyped
    <2> QED
      BY <2>2, <2>3, TripChanges
  <1>10. ASSUME NEW o \in Tabs, Portal!Begin(o)
         PROVE  PortalOK'
    <2> DEFINE r == [Portal!Quiet EXCEPT !.at = "begun", !.delivery = Len(reminders) + 1,
                                         !.floor = booked.link]
    <2>1. Len(reminders) + 1 \in 0 .. MaxReminders
      BY <1>10, <1>a, LenProperties DEF Portal!Begin
    <2>a. r \in Request /\ r.floor = booked.link /\ r.at = "begun"
      BY <1>c, <2>1, QuietOK DEF Request
    <2>2. RequestOK(r)
      BY <1>c, <2>a DEF RequestOK
    <2>3. /\ reminders' \in Seq(Reminder) /\ Len(reminders') <= MaxReminders
      BY <1>a, <1>10 DEF Portal!Begin, Reminder
    <2>4. request' = [request EXCEPT ![o] = r]
      BY <1>10 DEF Portal!Begin, Portal!Becomes
    <2>5. TripOK'
      BY <1>10 DEF Portal!Begin, PortalOK, TripOK, TripTyped, Portal!LinkOutlivesTrip
    <2>6. RemindersTyped'
      BY <1>10, <1>a, <2>2, <2>3, <2>4 DEF Portal!Begin, RemindersTyped, RequestOK
    <2>7. \A p \in Tabs : RequestOK(request'[p])
      BY <1>a, <2>2, <2>4
    <2> QED
      BY <1>10, <2>5, <2>6, <2>7 DEF Portal!Begin, PortalOK, RequestOK
  <1>11. ASSUME NEW o \in Tabs, Portal!ReadMaterial(o)
         PROVE  PortalOK'
    <2>a. RequestOK(request[o])
      BY <1>a
    <2>1. CASE Portal!Readable /\ Portal!Becomes(o, [request[o] EXCEPT !.at = "sending",
                                                                      !.link = secret.link])
      <3>1. secret \in SecretType /\ secret.link = booked.link
        BY <1>a, <2>1 DEF Portal!Readable, PortalOK, TripOK
      <3> DEFINE r == [request[o] EXCEPT !.at = "sending", !.link = secret.link]
      <3>a. /\ r \in Request /\ r.floor = request[o].floor /\ r.at = "sending"
            /\ r.link = booked.link
        BY <1>c, <2>a, <3>1 DEF RequestOK, Request
      <3>2. RequestOK(r)
        BY <1>c, <2>a, <3>a DEF RequestOK
      <3> QED
        BY <1>11, <2>1, <3>2, BecomesOK DEF Portal!ReadMaterial
    <2>2. CASE Portal!Becomes(o, [request[o] EXCEPT !.at = "unsent"])
      <3>1. RequestOK([request[o] EXCEPT !.at = "unsent"])
        BY <2>a DEF RequestOK, Request
      <3> QED
        BY <1>11, <2>2, <3>1, BecomesOK DEF Portal!ReadMaterial
    <2> QED
      BY <1>11, <2>1, <2>2 DEF Portal!ReadMaterial
  <1>12. ASSUME NEW o \in Tabs, Portal!Send(o)
         PROVE  PortalOK'
    <2>a. RequestOK(request[o])
      BY <1>a
    <2>1. PICK outcome \in {"sent", "unsent"} :
            Portal!Becomes(o, [request[o] EXCEPT !.at = outcome])
      BY <1>12 DEF Portal!Send
    <2>2. RequestOK([request[o] EXCEPT !.at = outcome])
      BY <2>a DEF RequestOK, Request
    <2> QED
      BY <1>12, <2>1, <2>2, BecomesOK DEF Portal!Send
  <1>13. ASSUME NEW o \in Tabs, Portal!Finish(o)
         PROVE  PortalOK'
    <2> DEFINE d == request[o].delivery
    <2>1. reminders' \in Seq(Reminder) /\ Len(reminders') <= MaxReminders
      <3>1. CASE d \in 1 .. Len(reminders)
        <4>1. PICK s \in {"sent", "failed"} :
                reminders' \in {reminders, [reminders EXCEPT ![d] = [reminders[d] EXCEPT !.status = s]]}
          BY <1>13 DEF Portal!Finish
        <4>2. reminders[d] \in Reminder
          BY <1>a, <3>1, ElementOfSeq
        <4>3. [reminders[d] EXCEPT !.status = s] \in Reminder
          BY <4>2 DEF Reminder
        <4> QED
          BY SMTT(30), <1>a, <3>1, <4>1, <4>3, ExceptSeq
      <3>2. CASE d \notin 1 .. Len(reminders)
        <4>1. d \notin DOMAIN reminders
          BY <1>a, <3>2, LenProperties
        <4>2. reminders' = reminders
          BY <1>a, <1>13, <4>1 DEF Portal!Finish
        <4> QED
          BY <1>a, <4>2
      <3> QED
        BY <3>1, <3>2
    <2>2. TripOK' /\ booked'.link = booked.link
      BY <1>13 DEF Portal!Finish, PortalOK, TripOK, TripTyped, Portal!LinkOutlivesTrip
    <2>3. RemindersTyped' /\ \A p \in Tabs : request'[p] \in {request[p], Portal!Quiet}
      BY <1>13, <1>a, <2>1, QuietOK DEF Portal!Finish, Portal!Becomes, RemindersTyped
    <2>4. booked.link \in Int
      BY BookedLink DEF PortalOK, TripOK
    <2> QED
      BY <2>2, <2>3, <2>4, TripChanges
  <1>14. ASSUME NEW o \in Tabs, Portal!Crash(o)
         PROVE  PortalOK'
    BY <1>14, QuietRequestOK, BecomesOK DEF Portal!Crash, PortalOK, TripOK
  <1> QED
    BY <1>1, <1>2, <1>3, <1>4, <1>5, <1>6, <1>7, <1>8, <1>9, <1>10, <1>11, <1>12, <1>13,
       <1>14, <1>15 DEF Portal!Next

LEMMA PortalInvariant == PartSpec => [](Runs("portal") => PortalOK)
  <1> DEFINE Inv == Runs("portal") => PortalOK
  <1>1. PartInit => Inv
    BY PortalInit
  <1>2. Inv /\ [PartNext]_allVars => Inv'
    <2> SUFFICES ASSUME Inv, [PartNext]_allVars, Runs("portal")'
                 PROVE  PortalOK'
      OBVIOUS
    <2>1. Runs("portal")
      BY WhichStays DEF Runs
    <2>2. CASE UNCHANGED portalVars
      BY <2>1, <2>2, PortalSame
    <2> QED
      BY <2>1, <2>2, PortalStep, PortalNext
  <1> QED
    BY <1>1, <1>2, PTL DEF PartSpec

\* The private link outlives its trip, and a mail about to go out carries no older link
\* than the one current when it was asked for.
THEOREM LinkAlwaysHolds == PartSpec => []LinkHolds
  <1>1. (Runs("portal") => PortalOK) => LinkHolds
    BY PortalConclusion DEF LinkHolds
  <1> QED
    BY <1>1, PortalInvariant, PTL

-----------------------------------------------------------------------------
(* Guest linking.                                                          *)

PassType  == [todo : SUBSET Linking!Trips, seen : SUBSET Linking!Trips,
              trip : Linking!Trips \cup {0}, found : 0 .. MaxGuests]
MergeType == [at : {"page", "audited", "repointed"}, source : 0 .. MaxGuests,
              target : 0 .. MaxGuests, moved : SUBSET Linking!Trips]

GuestsTyped ==
  /\ listed \subseteq Linking!Trips
  /\ made \in 0 .. MaxGuests /\ guests \subseteq 1 .. made
  /\ guestOf \in [Linking!Trips -> guests \cup {0}]
  /\ owner \in [Linking!Keys -> guests \cup {0}]
  /\ sweeper \in [Workers -> PassType]
  /\ merger \in [Tabs -> MergeType]

\* A linked trip's guest owns its address.
AddressOwned == \A t \in Linking!Trips : guestOf[t] # 0 => guestOf[t] = owner[MailOf[t]]

\* What a pass has found for the trip in hand: as long as that guest is there,
\* nobody else owns the address; and nobody does where none was found.
FoundOK(w) ==
  LET t == sweeper[w].trip
      f == sweeper[w].found
  IN  t # 0 => /\ f <= made
               /\ f = 0 => owner[MailOf[t]] = 0
               /\ f \in guests => owner[MailOf[t]] \in {0, f}
\* No two passes hold one key.
KeysApart == \A v, w \in Workers : v # w => Linking!Held(v) \cap Linking!Held(w) = {}

\* The trips a merge holds are its source's until it ends.
MergeOK(m) ==
  /\ merger[m].at # "page" => merger[m].source # 0 /\ merger[m].source # merger[m].target
  /\ \A t \in merger[m].moved : guestOf[t] = merger[m].source
  /\ merger[m].moved # {} => merger[m].at # "page"
TripsApart == \A m, n \in Tabs : m # n => merger[m].moved \cap merger[n].moved = {}

\* Neither begins before the migration.
NotYet ==
  ~backfilled => /\ \A w \in Workers : sweeper[w] = Linking!Resting
                 /\ \A m \in Tabs : merger[m] = Linking!NoMerge

LinkingOK ==
  /\ GuestsTyped /\ AddressOwned /\ KeysApart /\ TripsApart /\ NotYet
  /\ \A w \in Workers : FoundOK(w)
  /\ \A m \in Tabs : MergeOK(m)

LEMMA LinkingStep ==
  ASSUME [PartNext]_allVars, Runs("linking")
  PROVE  Linking!Next \/ UNCHANGED linkingVars
  BY DEF PartNext, allVars, Runs

LEMMA LinkingSame ==
  ASSUME LinkingOK, UNCHANGED linkingVars
  PROVE  LinkingOK'
  BY DEF LinkingOK, linkingVars, GuestsTyped, AddressOwned, KeysApart, TripsApart, NotYet,
     FoundOK, MergeOK, Linking!Held, Linking!KeysOf

LEMMA TripFacts ==
  /\ \A t \in Linking!Trips : /\ t \in Nat \ {0} /\ t <= Len(MailOf)
                              /\ MailOf[t] \in 1 .. MaxGuests
                              /\ MailOf[t] \in Linking!Keys
  /\ Len(MailOf) \in Nat
  /\ 0 \notin Linking!Trips
  BY LinkingAssumption, LenProperties DEF Linking!Trips, Linking!Keys

LEMMA RestingType == Linking!Resting \in PassType /\ Linking!Resting.trip = 0
                     /\ Linking!NoMerge \in MergeType /\ Linking!NoMerge.at = "page"
                     /\ Linking!NoMerge.moved = {}
  BY LinkingAssumption DEF Linking!Resting, Linking!NoMerge, PassType, MergeType

LEMMA LinkingInit == PartInit => LinkingOK
  <1> SUFFICES ASSUME PartInit
               PROVE  LinkingOK
    OBVIOUS
  <1> USE LinkingAssumption, TripFacts, RestingType DEF PartInit, Linking!Init
  <1>1. GuestsTyped /\ AddressOwned
    BY DEF GuestsTyped, AddressOwned
  <1>2. KeysApart
    BY DEF KeysApart, Linking!Held
  <1>3. TripsApart /\ NotYet /\ (\A w \in Workers : FoundOK(w)) /\ (\A m \in Tabs : MergeOK(m))
    BY DEF TripsApart, NotYet, FoundOK, MergeOK
  <1> QED
    BY <1>1, <1>2, <1>3 DEF LinkingOK

LEMMA BackfillOK ==
  ASSUME LinkingOK, Linking!Backfill
  PROVE  LinkingOK'
  <1> USE LinkingAssumption, TripFacts, RestingType DEF Linking!Backfill, LinkingOK
  <1> DEFINE mails == {MailOf[t] : t \in listed}
  <1>1. mails \subseteq 1 .. MaxGuests /\ mails \subseteq Linking!Keys
    BY DEF GuestsTyped
  <1>2. made' \in 0 .. MaxGuests /\ mails \subseteq 1 .. made'
    <2>a. made' = IF mails = {} THEN 0 ELSE CHOOSE x \in mails : \A k \in mails : k <= x
      OBVIOUS
    <2> HIDE DEF mails, Linking!Backfill
    <2>b. mails \in SUBSET (0 .. MaxGuests)
      BY <1>1
    <2>1. CASE mails = {}
      BY <2>a, <2>1
    <2>2. CASE mails # {}
      <3>1. PICK n \in mails : \A k \in mails : k <= n
        BY <2>b, <2>2, Greatest
      <3>2. made' = CHOOSE x \in mails : \A k \in mails : k <= x
        BY <2>a, <2>2
      <3>3. made' \in mails /\ \A k \in mails : k <= made'
        BY <3>1, <3>2
      <3> QED
        BY <1>1, <3>3
    <2> QED
      BY <2>1, <2>2
  <1>3. /\ guests' = mails /\ owner' = [k \in Linking!Keys |-> IF k \in mails THEN k ELSE 0]
        /\ guestOf' = [t \in Linking!Trips |-> IF t \in listed THEN MailOf[t] ELSE 0]
        /\ UNCHANGED <<listed, sweeper, merger>>
    OBVIOUS
  <1>4. \A t \in listed : MailOf[t] \in mails
    OBVIOUS
  <1> HIDE DEF mails, Linking!Backfill
  <1>5. GuestsTyped'
    BY <1>1, <1>2, <1>3, <1>4 DEF GuestsTyped
  <1>6. AddressOwned'
    BY <1>3, <1>4 DEF AddressOwned
  <1>7. /\ \A w \in Workers : sweeper'[w].trip = 0
        /\ \A m \in Tabs : merger'[m].moved = {} /\ merger'[m].at = "page"
    BY <1>3 DEF NotYet, Linking!Backfill
  <1>8. KeysApart'
    BY <1>7 DEF KeysApart, Linking!Held
  <1>9. TripsApart' /\ (\A w \in Workers : FoundOK(w)') /\ (\A m \in Tabs : MergeOK(m)')
    BY <1>7 DEF TripsApart, FoundOK, MergeOK
  <1>10. NotYet'
    BY DEF NotYet, Linking!Backfill
  <1> QED
    BY <1>5, <1>6, <1>8, <1>9, <1>10

\* A pass changes: the guests and the merges stay.
LEMMA PassChanges ==
  ASSUME LinkingOK, NEW w \in Workers, NEW s \in PassType,
         sweeper' = [sweeper EXCEPT ![w] = s],
         UNCHANGED <<guestOf, owner, guests, made, backfilled, merger>>,
         listed' \subseteq Linking!Trips, backfilled,
         \A v \in Workers \ {w} : Linking!Held(v) \cap Linking!Held(w)' = {},
         FoundOK(w)'
  PROVE  LinkingOK'
  <1>1. GuestsTyped' /\ AddressOwned' /\ TripsApart' /\ NotYet'
    BY DEF LinkingOK, GuestsTyped, AddressOwned, TripsApart, NotYet
  <1>2. \A v \in Workers \ {w} : sweeper'[v] = sweeper[v]
    BY DEF LinkingOK, GuestsTyped
  <1>3. KeysApart'
    <2>1. \A v \in Workers \ {w} : Linking!Held(v)' = Linking!Held(v)
      BY <1>2 DEF Linking!Held, Linking!KeysOf
    <2> QED
      BY <2>1 DEF LinkingOK, KeysApart
  <1>4. \A v \in Workers : FoundOK(v)'
    BY <1>2 DEF LinkingOK, FoundOK
  <1>5. \A m \in Tabs : MergeOK(m)'
    BY DEF LinkingOK, MergeOK
  <1> QED
    BY <1>1, <1>3, <1>4, <1>5 DEF LinkingOK

LEMMA PassesOK ==
  ASSUME LinkingOK, NEW w \in Workers,
         Linking!ReadCandidates(w) \/ Linking!Abandon(w) \/ \E t \in Linking!Trips : Linking!Find(w, t)
  PROVE  LinkingOK'
  <1> USE TripFacts, RestingType
  <1>a. /\ sweeper[w] \in PassType /\ listed \subseteq Linking!Trips
        /\ sweeper[w] # Linking!Resting => backfilled
    BY DEF LinkingOK, GuestsTyped, NotYet
  <1>1. CASE Linking!ReadCandidates(w)
    <2>1. PICK todo, seen \in SUBSET Linking!Trips :
            sweeper' = [sweeper EXCEPT ![w].todo = todo, ![w].seen = seen]
      BY <1>1, <1>a DEF Linking!ReadCandidates
    <2> DEFINE s == [sweeper[w] EXCEPT !.todo = todo, !.seen = seen]
    <2>2. s \in PassType /\ s.trip = sweeper[w].trip
      BY <1>a DEF PassType
    <2>3. sweeper' = [sweeper EXCEPT ![w] = s] /\ sweeper'[w] = s
      BY <2>1 DEF LinkingOK, GuestsTyped
    <2>4. sweeper'[w].trip = 0
      BY <1>1, <2>2, <2>3 DEF Linking!ReadCandidates
    <2>5. FoundOK(w)' /\ Linking!Held(w)' = {}
      BY <2>4 DEF FoundOK, Linking!Held
    <2> HIDE DEF s
    <2> QED
      BY <1>1, <1>a, <2>2, <2>3, <2>5, PassChanges DEF Linking!ReadCandidates
  <1>2. CASE Linking!Abandon(w)
    <2>1. sweeper' = [sweeper EXCEPT ![w] = Linking!Resting] /\ sweeper'[w].trip = 0
      BY <1>2 DEF Linking!Abandon, LinkingOK, GuestsTyped
    <2>2. FoundOK(w)' /\ Linking!Held(w)' = {}
      BY <2>1 DEF FoundOK, Linking!Held
    <2> QED
      BY <1>2, <1>a, <2>1, <2>2, PassChanges DEF Linking!Abandon
  <1>3. ASSUME NEW t \in Linking!Trips, Linking!Find(w, t)
        PROVE  LinkingOK'
    <2> DEFINE f == IF owner[MailOf[t]] = 0 /\ t \in sweeper[w].seen
                      THEN owner[Linking!Account] ELSE owner[MailOf[t]]
               s == [sweeper[w] EXCEPT !.todo = sweeper[w].todo \ {t}, !.trip = t, !.found = f]
    <2>1. f \in guests \cup {0} /\ f \in 0 .. MaxGuests /\ f <= made
      <3>1. owner[Linking!Account] \in guests \cup {0} /\ owner[MailOf[t]] \in guests \cup {0}
        BY DEF LinkingOK, GuestsTyped, Linking!Keys
      <3>2. made \in 0 .. MaxGuests /\ guests \subseteq 1 .. made
        BY DEF LinkingOK, GuestsTyped
      <3>3. f \in {owner[Linking!Account], owner[MailOf[t]]}
        OBVIOUS
      <3> HIDE DEF f
      <3>4. f \in guests \cup {0}
        BY <3>1, <3>3
      <3> QED
        BY <3>2, <3>4, LinkingAssumption
    <2>2. sweeper' = [sweeper EXCEPT ![w] = s]
      BY ZenonT(60), <1>3 DEF Linking!Find
    <2>a. (f = 0 => owner[MailOf[t]] = 0) /\ owner[MailOf[t]] \in {0, f}
      OBVIOUS
    <2> HIDE DEF f
    <2>3. /\ s \in PassType /\ s.trip = t /\ s.found = f /\ s.seen = sweeper[w].seen
      BY <1>a, <2>1 DEF PassType
    <2>4. sweeper'[w] = s
      BY <2>2 DEF LinkingOK, GuestsTyped
    <2> HIDE DEF s
    <2>5. UNCHANGED <<listed, guestOf, owner, guests, made, backfilled, merger>>
      BY <1>3 DEF Linking!Find
    <2>6. FoundOK(w)'
      BY <2>1, <2>a, <2>3, <2>4, <2>5 DEF FoundOK
    <2>7. Linking!Held(w)' = Linking!KeysOf(w, t)
      BY <2>3, <2>4 DEF Linking!Held, Linking!KeysOf
    <2>8. \A v \in Workers \ {w} : Linking!Held(v) \cap Linking!Held(w)' = {}
      BY <1>3, <2>7 DEF Linking!Find
    <2>9. sweeper[w] # Linking!Resting
      <3>1. t \in sweeper[w].todo
        BY <1>3 DEF Linking!Find
      <3>2. Linking!Resting.todo = {}
        BY DEF Linking!Resting
      <3> QED
        BY <3>1, <3>2
    <2> QED
      BY <1>a, <2>2, <2>3, <2>5, <2>6, <2>8, <2>9, PassChanges
  <1> QED
    BY <1>1, <1>2, <1>3

\* The pass's transaction, where the guest it has found is still there.
LEMMA CommitOK ==
  ASSUME LinkingOK, NEW w \in Workers, Linking!Link(w),
         sweeper[w].found \in guests \cup {0}
  PROVE  LinkingOK'
  <1> USE TripFacts, LinkingAssumption
  <1> DEFINE t == sweeper[w].trip
             f == sweeper[w].found
             g == IF f = 0 THEN made + 1 ELSE f
             s == [sweeper[w] EXCEPT !.trip = 0, !.found = 0,
                                     !.seen = sweeper[w].seen \cap sweeper[w].todo]
  <1>1. /\ t \in Linking!Trips /\ f \in 0 .. MaxGuests /\ sweeper[w] \in PassType
        /\ made \in 0 .. MaxGuests /\ guests \subseteq 1 .. made
        /\ f = 0 => owner[MailOf[t]] = 0
        /\ f \in guests => owner[MailOf[t]] \in {0, f}
        /\ f = 0 => made < MaxGuests
        /\ \A m \in Tabs : t \notin merger[m].moved
    BY DEF Linking!Link, LinkingOK, GuestsTyped, FoundOK, PassType
  <1>2. /\ guests' = guests \cup {g} /\ made' = IF g > made THEN g ELSE made
        /\ owner' = [k \in Linking!Keys |-> IF k \in Linking!KeysOf(w, t) /\ owner[k] = 0
                                              THEN g ELSE owner[k]]
        /\ guestOf' = [guestOf EXCEPT ![t] = g]
        /\ sweeper' = [sweeper EXCEPT ![w] = s]
        /\ UNCHANGED <<listed, backfilled, merger>>
    BY DEF Linking!Link
  <1>3. /\ s \in PassType /\ s.trip = 0
    <2>1. /\ sweeper[w].seen \cap sweeper[w].todo \in SUBSET Linking!Trips
          /\ 0 \in 0 .. MaxGuests
      BY <1>1 DEF PassType
    <2> QED
      BY <1>1, <2>1 DEF PassType
  <1>4. /\ g \in 1 .. MaxGuests /\ guests' \subseteq 1 .. made' /\ made' \in 0 .. MaxGuests
        /\ \A h \in guests' : h \in guests \/ h = g
        /\ made <= made' /\ (g \in guests \/ g = made + 1)
    BY SMTT(30), <1>1, <1>2
  <1>5. owner[MailOf[t]] \in {0, g} /\ MailOf[t] \in Linking!KeysOf(w, t)
    BY <1>1 DEF Linking!KeysOf
  <1> HIDE DEF s, g
  <1>6. GuestsTyped'
    BY <1>1, <1>2, <1>3, <1>4 DEF LinkingOK, GuestsTyped
  <1>7. owner'[MailOf[t]] = g
    BY <1>1, <1>2, <1>5
  <1>8. \A k \in Linking!Keys : owner[k] # 0 => owner'[k] = owner[k]
    BY <1>2
  <1>9. AddressOwned'
    <2> SUFFICES ASSUME NEW u \in Linking!Trips, guestOf'[u] # 0
                 PROVE  guestOf'[u] = owner'[MailOf[u]]
      BY DEF AddressOwned
    <2>1. CASE u = t
      BY <1>1, <1>2, <1>7, <2>1 DEF LinkingOK, GuestsTyped
    <2>2. CASE u # t
      BY <1>1, <1>2, <1>8, <2>2 DEF LinkingOK, GuestsTyped, AddressOwned
    <2> QED
      BY <2>1, <2>2
  <1>10. sweeper'[w] = s /\ \A v \in Workers \ {w} : sweeper'[v] = sweeper[v]
    BY <1>2 DEF LinkingOK, GuestsTyped
  <1>11. /\ Linking!Held(w) = Linking!KeysOf(w, t) /\ Linking!Held(w)' = {}
         /\ \A v \in Workers \ {w} : Linking!Held(v)' = Linking!Held(v)
    BY <1>1, <1>3, <1>10 DEF Linking!Held, Linking!KeysOf
  <1>12. KeysApart'
    BY <1>11 DEF LinkingOK, KeysApart
  <1>13. \A v \in Workers : FoundOK(v)'
    <2>1. FoundOK(w)'
      BY <1>3, <1>10 DEF FoundOK
    <2>2. ASSUME NEW v \in Workers \ {w}, sweeper[v].trip # 0
          PROVE  FoundOK(v)'
      <3>1. /\ sweeper[v].trip \in Linking!Trips /\ MailOf[sweeper[v].trip] \in Linking!Held(v)
            /\ sweeper[v].found \in 0 .. MaxGuests
        BY <2>2 DEF LinkingOK, GuestsTyped, PassType, Linking!Held, Linking!KeysOf
      <3>2. owner'[MailOf[sweeper[v].trip]] = owner[MailOf[sweeper[v].trip]]
        BY <1>2, <1>11, <3>1 DEF LinkingOK, KeysApart
      <3>3. /\ sweeper[v].found <= made'
            /\ sweeper[v].found \in guests' => sweeper[v].found \in guests
        BY SMTT(30), <1>1, <1>4, <2>2, <3>1 DEF LinkingOK, FoundOK
      <3>4. sweeper'[v] = sweeper[v]
        BY <1>10, <2>2
      <3>5. /\ sweeper[v].found = 0 => owner[MailOf[sweeper[v].trip]] = 0
            /\ sweeper[v].found \in guests =>
                 owner[MailOf[sweeper[v].trip]] \in {0, sweeper[v].found}
        BY <2>2 DEF LinkingOK, FoundOK
      <3> QED
        BY <3>2, <3>3, <3>4, <3>5 DEF FoundOK
    <2>3. ASSUME NEW v \in Workers \ {w}, sweeper[v].trip = 0
          PROVE  FoundOK(v)'
      BY <1>10, <2>3 DEF FoundOK
    <2> QED
      BY <2>1, <2>2, <2>3
  <1>14. TripsApart' /\ \A m \in Tabs : MergeOK(m)'
    BY <1>1, <1>2 DEF LinkingOK, GuestsTyped, TripsApart, MergeOK, MergeType
  <1>15. NotYet'
    BY <1>1, <1>2 DEF LinkingOK, NotYet, Linking!Resting
  <1> QED
    BY <1>6, <1>9, <1>12, <1>13, <1>14, <1>15 DEF LinkingOK

\* A merge changes: the guests and the passes stay.
LEMMA MergeChanges ==
  ASSUME LinkingOK, NEW m \in Tabs, NEW r \in MergeType,
         merger' = [merger EXCEPT ![m] = r],
         UNCHANGED <<listed, guestOf, owner, guests, made, backfilled, sweeper>>,
         backfilled,
         r.at # "page" => r.source # 0 /\ r.source # r.target,
         \A t \in r.moved : guestOf[t] = r.source,
         r.moved # {} => r.at # "page",
         \A n \in Tabs \ {m} : merger[n].moved \cap r.moved = {}
  PROVE  LinkingOK'
  <1>1. merger'[m] = r /\ \A n \in Tabs \ {m} : merger'[n] = merger[n]
    BY DEF LinkingOK, GuestsTyped
  <1>2. GuestsTyped' /\ AddressOwned' /\ NotYet'
    BY DEF LinkingOK, GuestsTyped, AddressOwned, NotYet
  <1>3. KeysApart' /\ \A w \in Workers : FoundOK(w)'
    BY DEF LinkingOK, KeysApart, FoundOK, Linking!Held, Linking!KeysOf
  <1>4. TripsApart' /\ \A n \in Tabs : MergeOK(n)'
    BY <1>1 DEF LinkingOK, TripsApart, MergeOK
  <1> QED
    BY <1>2, <1>3, <1>4 DEF LinkingOK

LEMMA MergesOK ==
  ASSUME LinkingOK, NEW m \in Tabs,
         \/ \E a, b \in guests : Linking!Merge(m, a, b)
         \/ Linking!Repoint(m)
         \/ Linking!GiveUp(m)
         \/ Linking!Finish(m) /\ Linking!RolledBack(m)
  PROVE  LinkingOK'
  <1> USE RestingType
  <1>a. /\ merger[m] \in MergeType /\ MergeOK(m)
        /\ merger[m].at # "page" => backfilled
        /\ made \in 0 .. MaxGuests /\ guests \subseteq 1 .. made
    BY DEF LinkingOK, GuestsTyped, NotYet
  <1>1. ASSUME NEW a \in guests, NEW b \in guests, Linking!Merge(m, a, b)
        PROVE  LinkingOK'
    <2> DEFINE r == [merger[m] EXCEPT !.at = "audited", !.source = a, !.target = b]
    <2>1. a \in 0 .. MaxGuests /\ b \in 0 .. MaxGuests /\ a # 0 /\ a # b
      <3>1. a \in 1 .. made /\ b \in 1 .. made /\ a # b
        BY <1>1, <1>a DEF Linking!Merge
      <3>2. made \in Nat /\ made <= MaxGuests /\ MaxGuests \in Nat
        BY <1>a, LinkingAssumption
      <3> QED
        BY <3>1, <3>2
    <2>2. /\ r \in MergeType /\ r.at = "audited" /\ r.source = a /\ r.target = b
          /\ r.moved = merger[m].moved
      BY <1>a, <2>1 DEF MergeType
    <2>3. r.moved = {}
      BY <1>1, <1>a, <2>2 DEF Linking!Merge, MergeOK
    <2>4. merger' = [merger EXCEPT ![m] = r] /\ backfilled
          /\ UNCHANGED <<listed, guestOf, owner, guests, made, backfilled, sweeper>>
      BY <1>1 DEF Linking!Merge
    <2> HIDE DEF r
    <2> QED
      BY <2>1, <2>2, <2>3, <2>4, MergeChanges
  <1>2. ASSUME Linking!RolledBack(m), backfilled,
               UNCHANGED <<listed, made, backfilled, sweeper>>
        PROVE  LinkingOK'
    BY <1>2, MergeChanges DEF Linking!RolledBack
  <1>3. CASE Linking!Repoint(m)
    <2> DEFINE trips == Linking!Of(merger[m].source)
               r == [merger[m] EXCEPT !.at = "repointed", !.moved = trips]
    <2>1. CASE merger' = [merger EXCEPT ![m] = r] /\ UNCHANGED <<guestOf, owner, guests>>
      <3>1. trips \subseteq Linking!Trips /\ \A t \in trips : guestOf[t] = merger[m].source
        BY DEF Linking!Of
      <3> HIDE DEF trips
      <3>2. /\ r \in MergeType /\ r.at = "repointed" /\ r.source = merger[m].source
            /\ r.target = merger[m].target /\ r.moved = trips
        BY <1>a, <3>1 DEF MergeType
      <3>3. /\ merger[m].source # 0 /\ merger[m].source # merger[m].target /\ backfilled
        BY <1>3, <1>a DEF Linking!Repoint, MergeOK
      <3>4. \A n \in Tabs \ {m} : merger[n].moved \cap trips = {}
        BY <1>3 DEF Linking!Repoint, trips
      <3>5. UNCHANGED <<listed, made, backfilled, sweeper>>
        BY <1>3 DEF Linking!Repoint
      <3> HIDE DEF r
      <3> QED
        BY <2>1, <3>1, <3>2, <3>3, <3>4, <3>5, MergeChanges
    <2>2. CASE Linking!RolledBack(m)
      BY <1>2, <1>3, <1>a, <2>2 DEF Linking!Repoint
    <2> QED
      BY <1>3, <2>1, <2>2 DEF Linking!Repoint
  <1>4. CASE Linking!GiveUp(m)
    BY <1>2, <1>4, <1>a DEF Linking!GiveUp
  <1>5. CASE Linking!Finish(m) /\ Linking!RolledBack(m)
    BY <1>2, <1>5, <1>a DEF Linking!Finish
  <1> QED
    BY <1>1, <1>3, <1>4, <1>5

\* A merge's commit: the source's trips and keys are the target's.
LEMMA FinishOK ==
  ASSUME LinkingOK, NEW m \in Tabs, Linking!Finish(m), ~Linking!RolledBack(m)
  PROVE  LinkingOK'
  <1> USE RestingType, TripFacts
  <1> DEFINE source == merger[m].source
             target == merger[m].target
             moved  == merger[m].moved
             keys   == {k \in Linking!Keys : owner[k] = source}
  <1>1. /\ merger[m] \in MergeType /\ MergeOK(m) /\ merger[m].at = "repointed"
        /\ backfilled
        /\ source # 0 /\ source # target
    BY DEF Linking!Finish, LinkingOK, GuestsTyped, NotYet, MergeOK
  <1>2. /\ Linking!Of(source) \subseteq moved /\ (keys = {} \/ target \in guests)
        /\ guests' = guests \ {source}
        /\ owner' = [k \in Linking!Keys |-> IF k \in keys THEN target ELSE owner[k]]
        /\ guestOf' = [t \in Linking!Trips |-> IF t \in moved THEN target ELSE guestOf[t]]
        /\ merger' = [merger EXCEPT ![m] = Linking!NoMerge]
        /\ UNCHANGED <<listed, made, backfilled, sweeper>>
    BY DEF Linking!Finish
  <1>3. \A k \in Linking!Keys : k \in keys <=> owner[k] = source
    OBVIOUS
  <1>4. /\ \A t \in moved : t \in Linking!Trips /\ guestOf[t] = source /\ MailOf[t] \in keys
        /\ \A t \in Linking!Trips : guestOf[t] = source => t \in moved
    BY <1>1, <1>2 DEF MergeOK, MergeType, LinkingOK, AddressOwned, Linking!Of
  <1> HIDE DEF keys, source, target, moved
  <1>5. \A k \in Linking!Keys : owner'[k] = (IF owner[k] = source THEN target ELSE owner[k])
    BY <1>2, <1>3
  <1>6. \A t \in Linking!Trips :
          guestOf'[t] = (IF guestOf[t] = source THEN target ELSE guestOf[t])
    BY <1>2, <1>4
  <1>7. GuestsTyped'
    <2>1. \A k \in Linking!Keys : owner'[k] \in guests' \cup {0}
      BY <1>1, <1>2, <1>3, <1>5 DEF LinkingOK, GuestsTyped
    <2>2. \A t \in Linking!Trips : guestOf'[t] \in guests' \cup {0}
      <3>1. \A t \in Linking!Trips : guestOf[t] = source => target \in guests
        BY <1>2, <1>4
      <3> QED
        BY <1>1, <1>2, <1>6, <3>1 DEF LinkingOK, GuestsTyped
    <2> QED
      BY <1>2, <2>1, <2>2 DEF LinkingOK, GuestsTyped
  <1>8. AddressOwned'
    BY <1>1, <1>5, <1>6 DEF LinkingOK, AddressOwned
  <1>9. KeysApart' /\ NotYet'
    BY <1>1, <1>2 DEF LinkingOK, KeysApart, NotYet, Linking!Held, Linking!KeysOf
  <1>10. \A w \in Workers : FoundOK(w)'
    <2> SUFFICES ASSUME NEW w \in Workers, sweeper[w].trip # 0
                 PROVE  FoundOK(w)'
      BY <1>2 DEF FoundOK
    <2>1. FoundOK(w) /\ sweeper[w].trip \in Linking!Trips
      BY DEF LinkingOK, GuestsTyped, PassType
    <2>2. owner'[MailOf[sweeper[w].trip]] =
            IF owner[MailOf[sweeper[w].trip]] = source THEN target
            ELSE owner[MailOf[sweeper[w].trip]]
      BY <1>5, <2>1
    <2> QED
      BY <1>1, <1>2, <2>1, <2>2 DEF FoundOK
  <1>11. merger'[m] = Linking!NoMerge /\ \A n \in Tabs \ {m} : merger'[n] = merger[n]
    BY <1>2 DEF LinkingOK, GuestsTyped
  <1>12. TripsApart'
    BY <1>11 DEF LinkingOK, TripsApart
  <1>13. \A n \in Tabs : MergeOK(n)'
    <2>1. MergeOK(m)'
      BY <1>11 DEF MergeOK
    <2>2. ASSUME NEW n \in Tabs \ {m}
          PROVE  MergeOK(n)'
      <3>1. \A t \in merger[n].moved : t \in Linking!Trips /\ t \notin moved
        BY DEF LinkingOK, GuestsTyped, MergeType, TripsApart, moved
      <3>2. \A t \in merger[n].moved : guestOf'[t] = guestOf[t]
        BY <1>2, <3>1
      <3> QED
        BY <1>11, <3>2 DEF LinkingOK, MergeOK
    <2> QED
      BY <2>1, <2>2
  <1> QED
    BY <1>7, <1>8, <1>9, <1>10, <1>12, <1>13 DEF LinkingOK

LEMMA LinkingNext ==
  ASSUME LinkingOK, Linking!Next
  PROVE  LinkingOK'
  <1>1. CASE \E t \in Linking!Trips : Linking!CreateTrip(t) \/ Linking!Consent(t)
    <2>1. listed' \subseteq Linking!Trips
          /\ UNCHANGED <<guestOf, owner, guests, made, backfilled, sweeper, merger>>
      BY <1>1, TripFacts DEF Linking!CreateTrip, Linking!Consent, LinkingOK, GuestsTyped, Linking!Trips
    <2> QED
      BY <2>1 DEF LinkingOK, GuestsTyped, AddressOwned, KeysApart, TripsApart, NotYet,
         FoundOK, MergeOK, Linking!Held, Linking!KeysOf
  <1>2. ASSUME NEW w \in Workers, Linking!Link(w)
        PROVE  LinkingOK'
    <2>1. CASE sweeper[w].found \in guests \cup {0}
      BY <1>2, <2>1, CommitOK
    <2>2. CASE sweeper[w].found \notin guests \cup {0}
      <3>1. /\ sweeper' = [sweeper EXCEPT ![w] = Linking!Resting] /\ sweeper[w].trip # 0
            /\ UNCHANGED <<listed, guestOf, owner, guests, made, backfilled, merger>>
        BY <1>2, <2>2 DEF Linking!Link
      <3>2. sweeper'[w].trip = 0 /\ backfilled
        BY <3>1, RestingType DEF LinkingOK, GuestsTyped, NotYet
      <3>3. FoundOK(w)' /\ Linking!Held(w)' = {}
        BY <3>2 DEF FoundOK, Linking!Held
      <3>4. listed \subseteq Linking!Trips
        BY DEF LinkingOK, GuestsTyped
      <3> QED
        BY <3>1, <3>2, <3>3, <3>4, RestingType, PassChanges
    <2> QED
      BY <2>1, <2>2
  <1>3. ASSUME NEW m \in Tabs, Linking!Finish(m)
        PROVE  LinkingOK'
    BY <1>3, FinishOK, MergesOK
  <1> QED
    BY <1>1, <1>2, <1>3, BackfillOK, PassesOK, MergesOK DEF Linking!Next

\* The roster: two rows with one address would be one guest.
LEMMA LinkingConclusion == LinkingOK => Linking!OneGuestPerAddress
  <1> SUFFICES ASSUME LinkingOK
               PROVE  Linking!Offered = {}
    BY DEF LinkingOK, AddressOwned, Linking!OneGuestPerAddress
  <1>1. ASSUME NEW g \in Linking!Rows
        PROVE  owner[Linking!Address(g)] = g
    <2> DEFINE T == Linking!Of(g)
    <2>1. T \subseteq Linking!Trips /\ T # {} /\ \A t \in T : guestOf[t] = g
      BY <1>1 DEF Linking!Rows, Linking!Of
    <2>2. g # 0
      BY <1>1 DEF Linking!Rows, LinkingOK, GuestsTyped
    <2>3. T \in SUBSET (0 .. Len(MailOf)) /\ Len(MailOf) \in Nat
      BY <2>1, TripFacts
    <2> HIDE DEF T
    <2>4. \E t \in T : \A u \in T : u <= t
      BY <2>1, <2>3, Greatest
    <2>5. PICK t \in T : t = CHOOSE x \in T : \A u \in T : u <= x
      BY <2>4
    <2>6. guestOf[t] = owner[MailOf[t]]
      BY <2>1, <2>2 DEF LinkingOK, AddressOwned
    <2> QED
      BY <2>1, <2>5, <2>6 DEF Linking!Address, T
  <1> QED
    BY <1>1 DEF Linking!Offered

LEMMA LinkingInvariant == PartSpec => [](Runs("linking") => LinkingOK)
  <1> DEFINE Inv == Runs("linking") => LinkingOK
  <1>1. PartInit => Inv
    BY LinkingInit
  <1>2. Inv /\ [PartNext]_allVars => Inv'
    <2> SUFFICES ASSUME Inv, [PartNext]_allVars, Runs("linking")'
                 PROVE  LinkingOK'
      OBVIOUS
    <2>1. Runs("linking")
      BY WhichStays DEF Runs
    <2> QED
      BY <2>1, LinkingStep, LinkingSame, LinkingNext
  <1> QED
    BY <1>1, <1>2, PTL DEF PartSpec

\* Trips with one address are one guest's, whoever else links or merges at the time.
THEOREM OneGuestAlways == PartSpec => []OneGuestPerAddress
  <1>1. (Runs("linking") => LinkingOK) => OneGuestPerAddress
    BY LinkingConclusion DEF OneGuestPerAddress
  <1> QED
    BY <1>1, LinkingInvariant, PTL

\* Who consented is on the list, and there are as many merges as the bound allows.
RosterTyped ==
  signed \subseteq listed /\ backfilled \in BOOLEAN /\ merges \in 0 .. MaxMerges

LEMMA RosterInvariant == PartSpec => [](Runs("linking") => RosterTyped)
  <1> DEFINE Inv == Runs("linking") => RosterTyped
  <1>1. PartInit => Inv
    <2>1. 0 \in 0 .. MaxMerges
      BY BoundsAssumption
    <2> QED
      BY <2>1 DEF PartInit, Linking!Init, RosterTyped
  <1>2. Inv /\ [PartNext]_allVars => Inv'
    <2> SUFFICES ASSUME Inv, [PartNext]_allVars, Runs("linking")'
                 PROVE  RosterTyped'
      OBVIOUS
    <2>1. RosterTyped /\ (Linking!Next \/ UNCHANGED linkingVars)
      BY WhichStays, LinkingStep DEF Runs
    <2>2. CASE UNCHANGED <<listed, signed, backfilled, merges>>
      BY <2>1, <2>2 DEF RosterTyped
    <2>3. CASE \E t \in Linking!Trips : Linking!CreateTrip(t)
      <3>1. listed \subseteq listed' /\ UNCHANGED <<signed, backfilled, merges>>
        BY <2>3, LinkingAssumption DEF Linking!CreateTrip, Linking!Trips
      <3> QED
        BY <2>1, <3>1 DEF RosterTyped
    <2>4. CASE \E t \in Linking!Trips : Linking!Consent(t)
      BY <2>1, <2>4 DEF RosterTyped, Linking!Consent
    <2>5. CASE Linking!Backfill
      BY <2>1, <2>5 DEF RosterTyped, Linking!Backfill
    <2>6. CASE \E m \in Tabs, s, t \in guests : Linking!Merge(m, s, t)
      BY <2>1, <2>6, BoundsAssumption DEF RosterTyped, Linking!Merge
    <2> QED
      BY <2>1, <2>2, <2>3, <2>4, <2>5, <2>6 DEF Linking!Next, Linking!ReadCandidates,
         Linking!Link, Linking!Abandon, Linking!Find, Linking!Repoint, Linking!Finish,
         Linking!GiveUp, linkingVars
  <1> QED
    BY <1>1, <1>2, PTL DEF PartSpec

-----------------------------------------------------------------------------
(* The guest's walkthrough and the browser's history.                      *)

State == [step : Guest!Steps, path : {"none", "full", "essentials"}, new : BOOLEAN,
          started : BOOLEAN]
Entry == [step : Guest!Steps, depth : Nat]
Refs  == [synced : Guest!Steps \cup {Guest!Nothing}, depth : Nat, pop : BOOLEAN]

\* Every entry says at most how many of the app's are behind it, and so does the
\* hook's counter of the entry the tab is at.
TraceOK ==
  /\ entries \in Seq(Entry) /\ Len(entries) <= MaxEntries
  /\ at \in 1 .. Len(entries)
  /\ \A k \in 1 .. Len(entries) : entries[k].depth < k
  /\ refs \in Refs /\ refs.depth < at

JourneyOK == page \in State /\ openings \in 0 .. MaxOpenings /\ TraceOK

LEMMA JourneyStep ==
  ASSUME [PartNext]_allVars
  PROVE  Guest!Next \/ UNCHANGED guestVars
  BY DEF PartNext, allVars

LEMMA JourneySame ==
  ASSUME JourneyOK, UNCHANGED guestVars
  PROVE  JourneyOK'
  BY DEF JourneyOK, TraceOK, guestVars

LEMMA StepsAre ==
  Guest!Steps = {"welcome", "connect", "plan", "tesla-account", "checklist", "done", "basics",
                 "house-rules"}
  BY DEF Guest!Steps, Guest!Modules

LEMMA TagOK ==
  ASSUME NEW step \in Guest!Steps, NEW depth \in Nat
  PROVE  Guest!Tag(step, depth) \in Entry /\ Guest!Tag(step, depth).depth = depth
  BY DEF Guest!Tag, Entry

LEMMA FreshOK == Guest!Fresh \in Refs /\ Guest!Fresh.depth = 0
  BY DEF Guest!Fresh, Refs

LEMMA InitialOK == Guest!InitialState \in State
  BY StepsAre DEF Guest!InitialState, State

LEMMA JourneyInit == PartInit => JourneyOK
  <1> SUFFICES ASSUME Guest!Init PROVE JourneyOK
    BY DEF PartInit
  <1> DEFINE e == Guest!Tag("welcome", 0)
  <1>1. e \in Entry /\ e.depth = 0
    BY TagOK, StepsAre
  <1>2. entries = <<e>> /\ at = 1
    BY DEF Guest!Init, Guest!Tag
  <1> HIDE DEF e
  <1>3. entries \in Seq(Entry) /\ Len(entries) = 1 /\ entries[1] = e
    BY <1>1, <1>2
  <1>4. refs \in Refs /\ refs.depth = 0
    BY FreshOK, StepsAre DEF Guest!Init, Refs
  <1> QED
    BY <1>1, <1>2, <1>3, <1>4, InitialOK, GuestAssumption DEF Guest!Init, JourneyOK, TraceOK

LEMMA LongerOK ==
  ASSUME NEW S, NEW s \in Seq(S), NEW t \in Seq(S), Len(s) > 0
  PROVE  s \o t \in Seq(S) /\ Len(s \o t) > 0 /\ (s \o t)[1] = s[1]
  <1>1. Len(s) \in Nat /\ Len(t) \in Nat
    OBVIOUS
  <1>2. 1 \in 1 .. Len(s) + Len(t)
    BY <1>1
  <1> QED
    BY <1>1, <1>2, ConcatProperties

\* The flow of a state: it begins with the welcome.
LEMMA FlowOK ==
  ASSUME NEW p \in State
  PROVE  Guest!Flow(p) \in Seq(Guest!Steps) /\ Len(Guest!Flow(p)) > 0
         /\ Guest!Flow(p)[1] = "welcome"
  <1> DEFINE a == <<"welcome", "connect", "plan">>
             b == IF p.new THEN <<"tesla-account">> ELSE <<>>
             c == IF p.path = "full" THEN <<"basics">> ELSE <<>>
             d == <<"house-rules", "checklist", "done">>
  <1>1. CASE p.path = "none"
    BY <1>1, StepsAre DEF Guest!Flow
  <1>2. CASE p.path # "none"
    <2>1. /\ a \in Seq(Guest!Steps) /\ Len(a) = 3 /\ a[1] = "welcome"
          /\ b \in Seq(Guest!Steps) /\ c \in Seq(Guest!Steps) /\ d \in Seq(Guest!Steps)
      <3>1. {"welcome", "connect", "plan", "tesla-account", "basics", "house-rules", "checklist",
             "done"} \subseteq Guest!Steps
        BY StepsAre
      <3>2. a \in Seq(Guest!Steps) /\ Len(a) = 3 /\ a[1] = "welcome"
        BY <3>1
      <3>3. /\ <<"tesla-account">> \in Seq(Guest!Steps) /\ <<"basics">> \in Seq(Guest!Steps)
            /\ <<>> \in Seq(Guest!Steps)
        BY <3>1
      <3>4. d \in Seq(Guest!Steps)
        BY <3>1
      <3> QED
        BY <3>2, <3>3, <3>4
    <2>2. Guest!Flow(p) = a \o b \o c \o d
      BY <1>2 DEF Guest!Flow
    <2> HIDE DEF a, b, c, d
    <2>3. a \o b \in Seq(Guest!Steps) /\ Len(a \o b) > 0 /\ (a \o b)[1] = a[1]
      <3>1. Len(a) > 0
        BY <2>1
      <3> QED
        BY <2>1, <3>1, LongerOK
    <2>4. /\ a \o b \o c \in Seq(Guest!Steps) /\ Len(a \o b \o c) > 0
          /\ (a \o b \o c)[1] = a[1]
      BY <2>1, <2>3, LongerOK
    <2>5. /\ a \o b \o c \o d \in Seq(Guest!Steps) /\ Len(a \o b \o c \o d) > 0
          /\ (a \o b \o c \o d)[1] = a[1]
      BY <2>1, <2>4, LongerOK
    <2> QED
      BY <2>1, <2>2, <2>5
  <1> QED
    BY <1>1, <1>2

LEMMA IndexOK ==
  ASSUME NEW p \in State, NEW step
  PROVE  /\ Guest!Index(p, step) \in 1 .. Len(Guest!Flow(p))
         /\ \A i \in 1 .. Len(Guest!Flow(p)) : Guest!Flow(p)[i] \in Guest!Steps
         /\ Guest!Shown(p) # "welcome" => Guest!Index(p, p.step) # 1
  <1> DEFINE here == {i \in DOMAIN Guest!Flow(p) : Guest!Flow(p)[i] = step}
  <1>1. DOMAIN Guest!Flow(p) = 1 .. Len(Guest!Flow(p)) /\ Len(Guest!Flow(p)) \in Nat \ {0}
    BY FlowOK
  <1>2. Guest!Index(p, step) = IF here = {} THEN 1 ELSE CHOOSE i \in here : TRUE
    BY DEF Guest!Index
  <1>3. here # {} => (CHOOSE i \in here : TRUE) \in here
    OBVIOUS
  <1>4. Guest!Index(p, step) \in 1 .. Len(Guest!Flow(p))
    BY <1>1, <1>2, <1>3
  <1>5. \A i \in 1 .. Len(Guest!Flow(p)) : Guest!Flow(p)[i] \in Guest!Steps
    BY FlowOK
  <1>6. Guest!Shown(p) # "welcome" => Guest!Index(p, p.step) # 1
    BY FlowOK DEF Guest!Shown
  <1> QED
    BY <1>4, <1>5, <1>6

\* The app overwrites the tag of the entry it is at.
LEMMA RewriteOK ==
  ASSUME JourneyOK, NEW p \in State, NEW depth \in Nat, depth < at, Guest!Rewrite(p, depth),
         refs' \in Refs, refs'.depth < at
  PROVE  TraceOK'
  <1>1. Guest!Tag(p.step, depth) \in Entry /\ Guest!Tag(p.step, depth).depth = depth
    BY TagOK DEF State
  <1>2. entries' = [entries EXCEPT ![at] = Guest!Tag(p.step, depth)] /\ at' = at
    BY DEF Guest!Rewrite
  <1>3. /\ entries' \in Seq(Entry) /\ Len(entries') = Len(entries)
        /\ \A k \in 1 .. Len(entries) :
             entries'[k] = IF k = at THEN Guest!Tag(p.step, depth) ELSE entries[k]
    BY <1>1, <1>2 DEF JourneyOK, TraceOK
  <1> QED
    BY <1>1, <1>2, <1>3 DEF JourneyOK, TraceOK

\* A new entry takes the place of those ahead.
LEMMA AppendOK ==
  ASSUME JourneyOK, at < MaxEntries, NEW e \in Entry, e.depth < at + 1,
         entries' = Append(SubSeq(entries, 1, at), e), at' = at + 1,
         refs' \in Refs, refs'.depth < at + 1
  PROVE  TraceOK'
  <1> DEFINE s == SubSeq(entries, 1, at)
  <1>1. /\ s \in Seq(Entry) /\ Len(s) = at /\ \A k \in 1 .. at : s[k] = entries[k]
    BY DEF JourneyOK, TraceOK
  <1>2. entries' = Append(s, e)
    OBVIOUS
  <1> HIDE DEF s
  <1>3. /\ entries' \in Seq(Entry) /\ Len(entries') = at + 1 /\ entries'[at + 1] = e
        /\ \A k \in 1 .. at : entries'[k] = entries[k]
    BY <1>1, <1>2 DEF JourneyOK, TraceOK
  <1>4. at \in Nat /\ MaxEntries \in Nat
    BY GuestAssumption DEF JourneyOK, TraceOK
  <1>5. \A k \in 1 .. at + 1 : entries'[k].depth < k
    BY <1>3, <1>4 DEF JourneyOK, TraceOK
  <1> QED
    BY <1>3, <1>4, <1>5 DEF TraceOK

LEMMA BecomesOK2 ==
  ASSUME JourneyOK, NEW p \in State, NEW r \in Refs, r.depth < at, Guest!Becomes(p, r)
  PROVE  JourneyOK'
  <1>1. page' = p /\ openings' = openings
    BY DEF Guest!Becomes
  <1>2. p.step \in Guest!Steps /\ r.depth \in Nat /\ at \in Nat
    BY DEF State, Refs, JourneyOK, TraceOK
  <1>3. ASSUME refs' \in Refs, refs'.depth < at, UNCHANGED <<entries, at>>
        PROVE  TraceOK'
    BY <1>3 DEF JourneyOK, TraceOK
  <1>4. ASSUME Guest!Sync(p, r)
        PROVE  TraceOK'
    <2>1. CASE refs' = [r EXCEPT !.synced = p.step, !.pop = FALSE] /\ UNCHANGED <<entries, at>>
      BY <1>2, <1>3, <2>1 DEF Refs
    <2>2. CASE refs' = [r EXCEPT !.synced = p.step, !.depth = 0] /\ Guest!Rewrite(p, 0)
      <3>1. refs' \in Refs /\ refs'.depth = 0
        BY <1>2, <2>2 DEF Refs
      <3> QED
        BY <1>2, <2>2, <3>1, RewriteOK
    <2>3. CASE refs' = r /\ UNCHANGED <<entries, at>>
      BY <1>3, <2>3
    <2>4. CASE Guest!Push(p, r)
      <3>1. refs' = [r EXCEPT !.synced = p.step, !.depth = r.depth + 1]
        BY <2>4 DEF Guest!Push
      <3>2. refs' \in Refs /\ refs'.depth = r.depth + 1
        <4>1. r.depth + 1 \in Nat /\ p.step \in Guest!Steps \cup {Guest!Nothing}
          BY <1>2
        <4> QED
          BY <3>1, <4>1 DEF Refs
      <3>3. Guest!Tag(p.step, r.depth + 1) \in Entry
            /\ Guest!Tag(p.step, r.depth + 1).depth = r.depth + 1
        BY <1>2, TagOK
      <3> QED
        BY <1>2, <2>4, <3>2, <3>3, AppendOK DEF Guest!Push
    <2>5. CASE refs' = [r EXCEPT !.synced = p.step] /\ Guest!Rewrite(p, r.depth)
      <3>1. refs' \in Refs /\ refs'.depth = r.depth
        BY <1>2, <2>5 DEF Refs
      <3> QED
        BY <1>2, <2>5, <3>1, RewriteOK
    <2> QED
      BY <1>4, <2>1, <2>2, <2>3, <2>4, <2>5 DEF Guest!Sync
  <1>5. TraceOK'
    BY <1>3, <1>4 DEF Guest!Becomes
  <1> QED
    BY <1>1, <1>5 DEF JourneyOK

\* The browser comes to an entry, and the counter is what it says.
LEMMA ComesToOK ==
  ASSUME JourneyOK, NEW k \in 1 .. Len(entries), Guest!ComesTo(k)
  PROVE  JourneyOK'
  <1> DEFINE p == [page EXCEPT !.step = entries[k].step]
             r == Guest!Popped(entries[k])
  <1>1. entries[k] \in Entry /\ entries[k].depth < k
    BY DEF JourneyOK, TraceOK
  <1>2. p \in State /\ p.step = entries[k].step
    BY <1>1 DEF State, Entry, JourneyOK
  <1>3. r \in Refs /\ r.depth = entries[k].depth
    BY <1>1 DEF Guest!Popped, Refs, Entry, JourneyOK, TraceOK
  <1>4. /\ page' = p /\ at' = k /\ UNCHANGED <<entries, openings>>
        /\ refs' = r \/ refs' = [r EXCEPT !.synced = p.step, !.pop = FALSE]
    BY DEF Guest!ComesTo
  <1> HIDE DEF p, r
  <1>5. refs' \in Refs /\ refs'.depth = r.depth
    BY <1>2, <1>3, <1>4 DEF Refs, State
  <1> QED
    BY <1>1, <1>2, <1>3, <1>4, <1>5 DEF JourneyOK, TraceOK

LEMMA OpensOK ==
  ASSUME JourneyOK, NEW p \in State, Guest!Opens(p)
  PROVE  /\ page' \in State /\ openings' \in 0 .. MaxOpenings
         /\ refs' \in Refs /\ refs'.depth = 0
  <1>1. refs' \in Refs /\ refs'.depth = 0
    BY FreshOK DEF Guest!Opens, Refs, State
  <1>2. openings' \in 0 .. MaxOpenings
    BY GuestAssumption DEF Guest!Opens, JourneyOK
  <1> QED
    BY <1>1, <1>2 DEF Guest!Opens

LEMMA JourneyNext ==
  ASSUME JourneyOK, Guest!Next
  PROVE  JourneyOK'
  <1>a. page \in State /\ refs \in Refs /\ refs.depth < at /\ at \in 1 .. Len(entries)
        /\ at \in Nat /\ at > 0 /\ Len(entries) \in Nat
    BY DEF JourneyOK, TraceOK
  <1>1. CASE Guest!Go
    <2> DEFINE i == Guest!Index(page, page.step)
               p == [page EXCEPT !.step = Guest!Flow(page)[i + 1], !.started = TRUE]
    <2>1. i < Len(Guest!Flow(page)) /\ Guest!Becomes(p, refs)
      BY <1>1 DEF Guest!Go
    <2>2. i \in 1 .. Len(Guest!Flow(page)) /\ Len(Guest!Flow(page)) \in Nat
      BY <1>a, IndexOK, FlowOK
    <2>3. Guest!Flow(page)[i + 1] \in Guest!Steps
      BY <1>a, <2>1, <2>2, IndexOK
    <2>4. p \in State
      BY <1>a, <2>3 DEF State
    <2> QED
      BY <1>a, <2>1, <2>4, BecomesOK2
  <1>2. CASE Guest!ContinueAsNew
    <2> DEFINE p == [page EXCEPT !.path = "full", !.new = TRUE, !.step = "plan",
                                 !.started = TRUE]
    <2>1. p \in State
      BY <1>a, StepsAre DEF State
    <2> QED
      BY <1>2, <1>a, <2>1, BecomesOK2 DEF Guest!ContinueAsNew
  <1>3. CASE Guest!DifferentAccount \/ Guest!ChoosePath
    <2>1. PICK path \in {"none", "full", "essentials"} :
            Guest!Becomes([page EXCEPT !.path = path], refs)
      BY <1>3 DEF Guest!DifferentAccount, Guest!ChoosePath
    <2>2. [page EXCEPT !.path = path] \in State
      BY <1>a DEF State
    <2> QED
      BY <1>a, <2>1, <2>2, BecomesOK2
  <1>4. CASE Guest!StartOver
    <2> DEFINE r == [refs EXCEPT !.synced = Guest!Nothing, !.depth = 0]
    <2>1. r \in Refs /\ r.depth = 0
      BY <1>a DEF Refs
    <2>2. Guest!Becomes(Guest!InitialState, r)
      BY <1>4 DEF Guest!StartOver
    <2> HIDE DEF r
    <2> QED
      BY <1>a, <2>1, <2>2, InitialOK, BecomesOK2
  <1>5. CASE Guest!BrowserMoves
    BY <1>5, ComesToOK DEF Guest!BrowserMoves, JourneyOK, TraceOK
  <1>6. CASE Guest!Back
    <2>1. CASE at > 1 /\ Guest!ComesTo(at - 1)
      BY <1>a, <2>1, ComesToOK
    <2>2. CASE Guest!Becomes([page EXCEPT
                 !.step = Guest!Flow(page)[Guest!Index(page, page.step) - 1]], refs)
      <3> DEFINE i == Guest!Index(page, page.step)
      <3>1. Guest!Shown(page) # "welcome"
        BY <1>6 DEF Guest!Back, Guest!Modules
      <3>2. i \in 1 .. Len(Guest!Flow(page)) /\ i # 1 /\ Len(Guest!Flow(page)) \in Nat
        BY <1>a, <3>1, IndexOK, FlowOK
      <3>3. Guest!Flow(page)[i - 1] \in Guest!Steps
        BY <1>a, <3>2, IndexOK
      <3>4. [page EXCEPT !.step = Guest!Flow(page)[i - 1]] \in State
        BY <1>a, <3>3 DEF State
      <3> QED
        BY <1>a, <2>2, <3>4, BecomesOK2
    <2> QED
      BY <1>6, <2>1, <2>2 DEF Guest!Back
  <1>7. CASE Guest!Reload
    BY <1>7, <1>a, OpensOK, RewriteOK DEF Guest!Reload, JourneyOK
  <1>8. CASE Guest!SignedIn
    <2>1. PICK path \in {"full", "essentials"} :
            LET p == [page EXCEPT !.path = IF page.path = "none" THEN path ELSE page.path,
                                  !.started = TRUE]
            IN  /\ Guest!Opens(p) /\ at < MaxEntries
                /\ entries' = Append(SubSeq(entries, 1, at), Guest!Tag(p.step, 0))
                /\ at' = at + 1
      BY <1>8 DEF Guest!SignedIn
    <2> DEFINE p == [page EXCEPT !.path = IF page.path = "none" THEN path ELSE page.path,
                                 !.started = TRUE]
    <2>2. p \in State /\ p.step \in Guest!Steps
      BY <1>a DEF State
    <2>3. /\ Guest!Opens(p) /\ at < MaxEntries
          /\ entries' = Append(SubSeq(entries, 1, at), Guest!Tag(p.step, 0))
          /\ at' = at + 1
      BY <2>1
    <2> HIDE DEF p
    <2>4. Guest!Tag(p.step, 0) \in Entry /\ Guest!Tag(p.step, 0).depth = 0
      BY <2>2, TagOK
    <2>5. page' \in State /\ openings' \in 0 .. MaxOpenings /\ refs' \in Refs /\ refs'.depth = 0
      BY <2>2, <2>3, OpensOK
    <2>6. TraceOK'
      BY <1>a, <2>3, <2>4, <2>5, AppendOK
    <2> QED
      BY <2>5, <2>6 DEF JourneyOK
  <1>9. CASE Guest!NewTab
    <2> DEFINE e == Guest!Tag(page.step, 0)
    <2>1. e \in Entry /\ e.depth = 0
      BY <1>a, TagOK DEF State
    <2>2. entries' = <<e>> /\ at' = 1
      BY <1>9 DEF Guest!NewTab
    <2> HIDE DEF e
    <2>3. entries' \in Seq(Entry) /\ Len(entries') = 1 /\ entries'[1] = e
      BY <2>1, <2>2
    <2>4. page' \in State /\ openings' \in 0 .. MaxOpenings /\ refs' \in Refs /\ refs'.depth = 0
      BY <1>9, <1>a, OpensOK DEF Guest!NewTab
    <2>5. TraceOK'
      BY <2>1, <2>2, <2>3, <2>4, GuestAssumption DEF TraceOK
    <2> QED
      BY <2>4, <2>5 DEF JourneyOK
  <1> QED
    BY <1>1, <1>2, <1>3, <1>4, <1>5, <1>6, <1>7, <1>8, <1>9 DEF Guest!Next

LEMMA JourneyInvariant == PartSpec => []JourneyOK
  <1>1. PartInit => JourneyOK
    BY JourneyInit
  <1>2. JourneyOK /\ [PartNext]_allVars => JourneyOK'
    BY JourneyStep, JourneySame, JourneyNext
  <1> QED
    BY <1>1, <1>2, PTL DEF PartSpec

\* The in-app Back button never leaves the app.
THEOREM BackAlwaysStays == PartSpec => []BackStaysInApp
  <1>1. JourneyOK => BackStaysInApp
    BY DEF BackStaysInApp, Guest!BackStaysInApp, JourneyOK, TraceOK
  <1> QED
    BY <1>1, JourneyInvariant, PTL

-----------------------------------------------------------------------------
(* The types of these parts: each strengthening above carries them.        *)

LEMMA JourneyTypes == JourneyOK => Guest!TypeOK
  <1> SUFFICES ASSUME JourneyOK PROVE Guest!TypeOK
    OBVIOUS
  <1>1. /\ DOMAIN entries = 1 .. Len(entries) /\ Len(entries) \in 0 .. MaxEntries
        /\ \A k \in DOMAIN entries : entries[k] \in Entry /\ entries[k].depth < k
    BY GuestAssumption DEF JourneyOK, TraceOK
  <1>2. \A k \in DOMAIN entries : entries[k] \in [step : Guest!Steps, depth : 0 .. MaxEntries]
    BY <1>1, GuestAssumption DEF Entry
  <1>3. at \in DOMAIN entries /\ refs \in Refs /\ refs.depth \in 0 .. MaxEntries
    BY <1>1, GuestAssumption DEF JourneyOK, TraceOK, Refs
  <1> QED
    BY <1>1, <1>2, <1>3, GuestAssumption DEF JourneyOK, Guest!TypeOK, State, Refs

LEMMA LinkingTypes == LinkingOK /\ RosterTyped => Linking!TypeOK
  <1> SUFFICES ASSUME LinkingOK, RosterTyped PROVE Linking!TypeOK
    OBVIOUS
  <1>1. guests \subseteq 1 .. MaxGuests
    BY LinkingAssumption DEF LinkingOK, GuestsTyped
  <1> QED
    BY <1>1 DEF LinkingOK, GuestsTyped, RosterTyped, Linking!TypeOK, PassType, MergeType

\* Whichever of the parts a guest meets runs, its tables and states keep to their types:
\* the walkthrough, its progress, the link with its reminders and the guests.
THEOREM GuestPartsTyped ==
  PartSpec => [](which \in {"guest", "progress", "portal", "linking"} => PartsTypeOK)
  <1>1. JourneyOK /\ (Runs("progress") => ProgressOK) /\ (Runs("portal") => PortalOK)
        /\ (Runs("linking") => LinkingOK) /\ (Runs("linking") => RosterTyped)
          => (which \in {"guest", "progress", "portal", "linking"} => PartsTypeOK)
    <2> SUFFICES ASSUME JourneyOK, Runs("progress") => ProgressOK, Runs("portal") => PortalOK,
                        Runs("linking") => LinkingOK, Runs("linking") => RosterTyped,
                        which \in {"guest", "progress", "portal", "linking"}
                 PROVE  PartsTypeOK
      OBVIOUS
    <2>1. CASE which = "guest"
      BY <2>1, JourneyTypes DEF PartsTypeOK, Runs
    <2>2. CASE which = "progress"
      BY <2>2 DEF ProgressOK, PartsTypeOK, Runs
    <2>3. CASE which = "portal"
      BY <2>3, PortalTypes DEF PartsTypeOK, Runs
    <2>4. CASE which = "linking"
      BY <2>4, LinkingTypes DEF PartsTypeOK, Runs
    <2> QED
      BY <2>1, <2>2, <2>3, <2>4
  <1> QED
    BY <1>1, JourneyInvariant, ProgressHolds, PortalInvariant, LinkingInvariant,
       RosterInvariant, PTL
=============================================================================

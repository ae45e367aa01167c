------------------------ MODULE TeslaIntegrationProofs ------------------------
(***************************************************************************)
(* The Tesla integration keeps its types, never loses a rotated token but  *)
(* with the process that held it, and forgets no telemetry stream: proofs  *)
(* for any vehicles, any number of jobs, crashes and lapsed claims.        *)
(***************************************************************************)
EXTENDS TeslaIntegration, TLAPS

USE DEF RowStatus, FailureKinds, None

Row == [status : RowStatus, applied : BOOLEAN, attempts : 0 .. MaxAttempts,
        due : BOOLEAN, claimed : BOOLEAN]
JobRec == [at : {"idle", "claimed", "rotated", "ready", "configuring",
                 "answered", "removed", "dropped", "failed"},
           on : Vehicles \cup {Charging}, removal : BOOLEAN, applied : BOOLEAN,
           attempts : 0 .. MaxAttempts,
           result : FailureKinds \cup {"ok", "active", "pending_sync", "unsupported"}]

\* What the places of a job say of the rest of it: only a vehicle's job removes
\* or configures, and what it is to write was an answer, or a failure, of Tesla.
Job == {r \in JobRec :
          /\ r.removal => r.on \in Vehicles
          /\ r.at = "removed" => r.removal
          /\ r.at \in {"configuring", "answered"} => r.on \in Vehicles
          /\ r.at = "answered" => r.result \in {"active", "pending_sync", "unsupported"}
          /\ r.at = "failed" => r.result \in FailureKinds}
Typed == TypeOK /\ job \in [Jobs -> Job]

LEMMA TypedRow == ASSUME Typed PROVE row \in [Vehicles -> Row] /\ job \in [Jobs -> Job]
BY DEF Typed, TypeOK, Row

LEMMA ReleaseType ==
    ASSUME NEW v \in Vehicles, row \in [Vehicles -> Row],
           NEW st \in RowStatus, NEW due \in BOOLEAN
    PROVE  Release(v, st, due) \in Row /\ Release(v, st, due).status = st
BY DEF Release, Row

\* A write by vehicle enrolls nobody and strikes nobody off.
LEMMA WriteType ==
    ASSUME NEW v \in Vehicles, row \in [Vehicles -> Row],
           NEW new \in Row, new.status # None, Write(v, new)
    PROVE  row' \in [Vehicles -> Row] /\ Enrolled' = Enrolled
<1>1. CASE row[v].status = None
  BY <1>1 DEF Write, Enrolled
<1>2. CASE row[v].status # None
  <2>1. row' = [row EXCEPT ![v] = new]
    BY <1>2 DEF Write
  <2> QED
    BY <1>2, <2>1 DEF Enrolled
<1> QED
  BY <1>1, <1>2

LEMMA CaughtType ==
    ASSUME IntegrationAssumption, NEW j \in Jobs, Typed, job[j].on \in Vehicles,
           job[j].result \in FailureKinds
    PROVE  Caught(j) \in Row /\ Caught(j).status # None
<1> DEFINE v == job[j].on
           To_(st, due, counts) ==
             [Release(v, st, due) EXCEPT !.attempts = IF counts THEN Once(@) ELSE @]
<1>1. row \in [Vehicles -> Row] /\ job[j] \in JobRec
  BY TypedRow DEF Job
<1>2. ASSUME NEW st \in RowStatus \ {None}, NEW due \in BOOLEAN, NEW counts \in BOOLEAN
      PROVE  To_(st, due, counts) \in Row /\ To_(st, due, counts).status # None
  <2>1. Release(v, st, due) \in Row /\ Release(v, st, due).status = st
    BY <1>1, ReleaseType
  <2>2. \A a \in 0 .. MaxAttempts : Once(a) \in 0 .. MaxAttempts
    BY DEF Once, IntegrationAssumption
  <2> QED
    BY <2>1, <2>2 DEF Row
<1> HIDE DEF To_
<1>3. job[j].removal \in BOOLEAN
  BY <1>1 DEF JobRec
<1>4. \E st \in RowStatus \ {None}, due \in BOOLEAN, counts \in BOOLEAN :
        Caught(j) = To_(st, due, counts)
  BY ZenonT(60), <1>3 DEF Caught, To_
<1> QED
  BY <1>2, <1>4

(***************************************************************************)
(* How a step moves a job, and which rows it leaves.                       *)
(***************************************************************************)
Moved(j, a) ==
    /\ job' \in [Jobs -> Job] /\ \A k \in Jobs \ {j} : job'[k] = job[k]
    /\ job'[j].at = a /\ (a \notin {"idle", "claimed"} => job'[j].on = job[j].on)

LEMMA MovesBy ==
    ASSUME NEW j \in Jobs, job \in [Jobs -> Job], NEW r \in Job,
           r.on = job[j].on \/ r.at \in {"idle", "claimed"},
           job' = [job EXCEPT ![j] = r]
    PROVE  Moved(j, r.at)
BY DEF Moved

LEMMA ForgetMoves ==
    ASSUME IntegrationAssumption, NEW j \in Jobs, job \in [Jobs -> Job], Forget(j)
    PROVE  Moved(j, "idle")
<1>1. Idle \in Job /\ Idle.at = "idle"
  BY DEF Idle, Job, JobRec, IntegrationAssumption
<1> QED
  BY <1>1, MovesBy DEF Forget

LEMMA ToMoves ==
    ASSUME NEW j \in Jobs, job \in [Jobs -> Job],
           NEW s \in {"rotated", "ready", "dropped", "removed", "configuring"}, To(j, s),
           s = "removed" => job[j].removal, s = "configuring" => job[j].on \in Vehicles
    PROVE  Moved(j, s)
<1>1. job' = [job EXCEPT ![j] = [job[j] EXCEPT !.at = s]]
  BY DEF To
<1>2. [job[j] EXCEPT !.at = s] \in Job /\ [job[j] EXCEPT !.at = s].on = job[j].on
      /\ [job[j] EXCEPT !.at = s].at = s
  BY DEF Job, JobRec
<1> QED
  BY <1>1, <1>2, MovesBy

\* The ways Tesla's word is put into a job's record.
Hit(j, why) == job' = [job EXCEPT ![j].at = "failed", ![j].result = why]
Told(j, answer) == job' = [job EXCEPT ![j].at = "answered", ![j].result = answer]

Set(j) == job' = [job EXCEPT ![j].at = "answered", ![j].applied = TRUE,
                             ![j].result = "pending_sync"]

\* Two fields of a job's record set one after the other.
LEMMA BothSet ==
    ASSUME NEW j \in Jobs, job \in [Jobs -> Job], NEW a, NEW r,
           job' = [job EXCEPT ![j].at = a, ![j].result = r]
    PROVE  job' = [job EXCEPT ![j] = [job[j] EXCEPT !.at = a, !.result = r]]
<1> DEFINE mid == [job EXCEPT ![j].at = a]
<1>1. mid = [job EXCEPT ![j] = [job[j] EXCEPT !.at = a]]
  OBVIOUS
<1>2. job' = [mid EXCEPT ![j].result = r]
  OBVIOUS
<1>3. mid[j] = [job[j] EXCEPT !.at = a]
  BY <1>1
<1>4. job' = [mid EXCEPT ![j] = [mid[j] EXCEPT !.result = r]]
  BY <1>2
<1> QED
  BY <1>1, <1>3, <1>4 DEF Job, JobRec

\* A job's record with the answer, or the failure, of Tesla in it.
Failed(r, why) == [r EXCEPT !.at = "failed", !.result = why]
Answered(r, answer) == [r EXCEPT !.at = "answered", !.result = answer]
Configured(r) == [r EXCEPT !.at = "answered", !.applied = TRUE, !.result = "pending_sync"]

LEMMA FailedRec ==
    ASSUME NEW r \in Job, NEW why \in FailureKinds
    PROVE  Failed(r, why) \in Job /\ Failed(r, why).on = r.on /\ Failed(r, why).at = "failed"
<1>1. Failed(r, why) \in JobRec
  BY DEF Job, JobRec, Failed
<1>2. r \in JobRec
  BY DEF Job
<1>3. /\ Failed(r, why).at = "failed" /\ Failed(r, why).on = r.on
      /\ Failed(r, why).removal = r.removal /\ Failed(r, why).result = why
  BY <1>2 DEF JobRec, Failed
<1> QED
  BY <1>1, <1>3 DEF Job

LEMMA AnsweredRec ==
    ASSUME NEW r \in Job, r.on \in Vehicles,
           NEW answer \in {"active", "pending_sync", "unsupported"}
    PROVE  /\ Answered(r, answer) \in Job /\ Answered(r, answer).on = r.on
           /\ Answered(r, answer).at = "answered"
<1>1. Answered(r, answer) \in JobRec
  BY DEF Job, JobRec, Answered
<1>2. r \in JobRec
  BY DEF Job
<1>3. /\ Answered(r, answer).at = "answered" /\ Answered(r, answer).on = r.on
      /\ Answered(r, answer).removal = r.removal /\ Answered(r, answer).result = answer
  BY <1>2 DEF JobRec, Answered
<1> QED
  BY <1>1, <1>3 DEF Job

LEMMA ConfiguredRec ==
    ASSUME NEW r \in Job, r.on \in Vehicles
    PROVE  Configured(r) \in Job /\ Configured(r).on = r.on /\ Configured(r).at = "answered"
<1>1. Configured(r) \in JobRec
  BY DEF Job, JobRec, Configured
<1>2. r \in JobRec
  BY DEF Job
<1>3. /\ Configured(r).at = "answered" /\ Configured(r).on = r.on
      /\ Configured(r).removal = r.removal /\ Configured(r).result = "pending_sync"
  BY <1>2 DEF JobRec, Configured
<1> QED
  BY <1>1, <1>3 DEF Job

LEMMA FailsMoves ==
    ASSUME IntegrationAssumption, NEW j \in Jobs, job \in [Jobs -> Job],
           (\E kinds : Fails(j, kinds)) \/ Hit(j, "reauth")
    PROVE  Moved(j, "failed")
<1>1. PICK why \in FailureKinds : Hit(j, why)
  BY DEF Fails, Hit, IntegrationAssumption
<1>2. job' = [job EXCEPT ![j] = Failed(job[j], why)]
  BY <1>1, BothSet DEF Hit, Failed
<1>3. Failed(job[j], why) \in Job /\ Failed(job[j], why).on = job[j].on
      /\ Failed(job[j], why).at = "failed"
  BY FailedRec
<1> QED
  BY <1>2, <1>3, MovesBy

LEMMA AnswerMoves ==
    ASSUME NEW j \in Jobs, job \in [Jobs -> Job], job[j].on \in Vehicles,
           NEW answer \in {"active", "pending_sync", "unsupported"}, Told(j, answer)
    PROVE  Moved(j, "answered")
<1>1. job' = [job EXCEPT ![j] = Answered(job[j], answer)]
  BY BothSet DEF Told, Answered
<1>2. /\ Answered(job[j], answer) \in Job /\ Answered(job[j], answer).on = job[j].on
      /\ Answered(job[j], answer).at = "answered"
  BY AnsweredRec
<1> QED
  BY <1>1, <1>2, MovesBy

LEMMA ConfiguredMoves ==
    ASSUME NEW j \in Jobs, job \in [Jobs -> Job], job[j].on \in Vehicles, Set(j)
    PROVE  Moved(j, "answered")
<1> DEFINE one == [job EXCEPT ![j].at = "answered"]
           two == [one EXCEPT ![j].applied = TRUE]
<1>1. one[j] = [job[j] EXCEPT !.at = "answered"] /\ DOMAIN one = Jobs
      /\ \A k \in Jobs \ {j} : one[k] = job[k]
  OBVIOUS
<1>2. two[j] = [one[j] EXCEPT !.applied = TRUE] /\ DOMAIN two = Jobs
      /\ \A k \in Jobs \ {j} : two[k] = one[k]
  BY <1>1
<1>3. job' = [two EXCEPT ![j].result = "pending_sync"]
  BY DEF Set
<1> HIDE DEF one, two
<1>4. job'[j] = [two[j] EXCEPT !.result = "pending_sync"] /\ DOMAIN job' = Jobs
      /\ \A k \in Jobs \ {j} : job'[k] = two[k]
  BY <1>2, <1>3
<1>5. job'[j] = Configured(job[j])
  BY <1>1, <1>2, <1>4 DEF Configured
<1>6. Configured(job[j]) \in Job /\ Configured(job[j]).on = job[j].on
      /\ Configured(job[j]).at = "answered"
  BY ConfiguredRec
<1>7. job' = [k \in Jobs |-> job'[k]]
  BY <1>3 DEF one, two
<1> QED
  BY <1>1, <1>2, <1>4, <1>5, <1>6, <1>7 DEF Moved

\* The record of a job that has just claimed.
Claimed(on, removal, applied, attempts) ==
    [Idle EXCEPT !.at = "claimed", !.on = on, !.removal = removal,
                 !.applied = applied, !.attempts = attempts]

LEMMA IdleRec ==
    ASSUME IntegrationAssumption PROVE Idle \in JobRec /\ ~Idle.removal /\ Idle.at = "idle"
BY DEF Idle, JobRec, IntegrationAssumption

LEMMA ClaimedRec ==
    ASSUME IntegrationAssumption, NEW on \in Vehicles \cup {Charging},
           NEW removal \in BOOLEAN, removal => on \in Vehicles,
           NEW applied \in BOOLEAN, NEW attempts \in 0 .. MaxAttempts
    PROVE  /\ Claimed(on, removal, applied, attempts) \in Job
           /\ Claimed(on, removal, applied, attempts).at = "claimed"
<1> DEFINE new == Claimed(on, removal, applied, attempts)
<1>1. new \in JobRec
  BY IdleRec DEF JobRec, Claimed
<1>2. new.at = "claimed" /\ new.on = on /\ new.removal = removal
  BY IdleRec DEF JobRec, Claimed
<1> QED
  BY <1>1, <1>2 DEF Job

LEMMA ChargingRec ==
    ASSUME IntegrationAssumption
    PROVE  [Idle EXCEPT !.at = "claimed"] \in Job
           /\ [Idle EXCEPT !.at = "claimed"].at = "claimed"
<1>1. [Idle EXCEPT !.at = "claimed"] \in JobRec
  BY IdleRec DEF JobRec
<1>2. /\ [Idle EXCEPT !.at = "claimed"].at = "claimed"
      /\ [Idle EXCEPT !.at = "claimed"].removal = Idle.removal
  BY IdleRec DEF JobRec
<1> QED
  BY <1>1, <1>2, IdleRec DEF Job

\* Where every statement of a job leaves it.
LEMMA JobMoves ==
    ASSUME IntegrationAssumption, Typed, NEW j \in Jobs
    PROVE
    /\ Busy(j) \/ NoContext(j) \/ Report(j) \/ Finish(j) \/ Catch(j) \/ Crash(j)
         => Moved(j, "idle")
    /\ ClaimCharging(j) \/ (\E v \in Vehicles : Claim(j, v)) => Moved(j, "claimed")
    /\ Refresh(j) => Moved(j, "rotated") \/ (cred # "live" /\ Moved(j, "failed"))
    /\ RefreshFails(j) => Moved(j, "failed")
    /\ Persist(j) => Moved(j, "ready")
    /\ Remove(j) => Moved(j, "removed") \/ Moved(j, "failed")
    /\ Reconfigure(j) => Moved(j, "configuring")
    /\ Configure(j) \/ Poll(j) => Moved(j, "answered") \/ Moved(j, "failed")
    /\ Drop(j) => Moved(j, "dropped")
    /\ SyncCharging(j) => Moved(j, "idle") \/ Moved(j, "failed")
<1> job \in [Jobs -> Job] /\ row \in [Vehicles -> Row]
  BY TypedRow
<1> job[j] \in Job /\ job[j] \in JobRec
  BY DEF Job
<1>1. Busy(j) \/ NoContext(j) \/ Report(j) \/ Finish(j) \/ Catch(j) \/ Crash(j)
        => Moved(j, "idle")
  BY ForgetMoves DEF Busy, NoContext, Report, Finish, Catch, Crash
<1>2. ClaimCharging(j) => Moved(j, "claimed")
  BY ZenonT(60), ChargingRec, MovesBy DEF ClaimCharging
<1>3. ASSUME NEW v \in Vehicles, Claim(j, v) PROVE Moved(j, "claimed")
  <2> DEFINE removal == row[v].status = "removal_requested"
             applied == ~removal /\ row[v].applied
             attempts == IF removal THEN row[v].attempts ELSE 0
  <2>1. job' = [job EXCEPT ![j] = Claimed(v, removal, applied, attempts)]
    BY <1>3 DEF Claim, Claimed
  <2>2. row[v].attempts \in 0 .. MaxAttempts /\ 0 \in 0 .. MaxAttempts
    BY DEF Row, IntegrationAssumption
  <2>3. removal \in BOOLEAN /\ applied \in BOOLEAN /\ attempts \in 0 .. MaxAttempts
    BY <2>2
  <2> HIDE DEF removal, applied, attempts
  <2>4. /\ Claimed(v, removal, applied, attempts) \in Job
        /\ Claimed(v, removal, applied, attempts).at = "claimed"
    BY <2>3, ClaimedRec
  <2> QED
    BY <2>1, <2>4, MovesBy
<1>4. Refresh(j) => Moved(j, "rotated") \/ (cred # "live" /\ Moved(j, "failed"))
  <2>1. Refresh(j) /\ cred = "live" => Moved(j, "rotated")
    BY ToMoves DEF Refresh
  <2>2. Refresh(j) /\ cred # "live" => Moved(j, "failed")
    BY FailsMoves DEF Refresh, Hit
  <2> QED
    BY <2>1, <2>2
<1>5. RefreshFails(j) => Moved(j, "failed")
  BY FailsMoves DEF RefreshFails
<1>6. Persist(j) => Moved(j, "ready")
  BY ToMoves DEF Persist
<1>7. Remove(j) => Moved(j, "removed") \/ Moved(j, "failed")
  BY ToMoves, FailsMoves DEF Remove
<1>8. Reconfigure(j) => Moved(j, "configuring")
  BY ToMoves DEF Reconfigure, JobRec
<1>9. Configure(j) => Moved(j, "answered") \/ Moved(j, "failed")
  BY ConfiguredMoves, FailsMoves DEF Configure, Job, At, Set
<1>10. Poll(j) => Moved(j, "answered") \/ Moved(j, "failed")
  BY AnswerMoves, FailsMoves DEF Poll, JobRec, Told
<1>11. Drop(j) => Moved(j, "dropped")
  BY ToMoves DEF Drop
<1>12. SyncCharging(j) => Moved(j, "idle") \/ Moved(j, "failed")
  BY ForgetMoves, FailsMoves DEF SyncCharging
<1> QED
  BY <1>1, <1>2, <1>3, <1>4, <1>5, <1>6, <1>7, <1>8, <1>9, <1>10, <1>11, <1>12

\* The enrollments every statement of a job leaves.
LEMMA JobRows ==
    ASSUME IntegrationAssumption, Typed, NEW j \in Jobs
    PROVE
    /\ Busy(j) \/ NoContext(j) \/ Report(j) \/ Reconfigure(j) \/ Catch(j)
         \/ (\E v \in Vehicles : Claim(j, v))
         => row' \in [Vehicles -> Row] /\ Enrolled' = Enrolled
    /\ Drop(j) => row' \in [Vehicles -> Row] /\ Enrolled' = Enrolled \ {job[j].on}
    /\ ClaimCharging(j) \/ Takes(j) \/ Persist(j) \/ Remove(j) \/ Configure(j)
         \/ Poll(j) \/ Finish(j) \/ SyncCharging(j) \/ Crash(j)
         => row' = row /\ Enrolled' = Enrolled
<1> row \in [Vehicles -> Row] /\ job[j] \in Job /\ job[j] \in JobRec
  BY TypedRow DEF Job
<1>1. ASSUME NEW v \in Vehicles, NEW new \in Row, new.status # None, Write(v, new)
      PROVE  row' \in [Vehicles -> Row] /\ Enrolled' = Enrolled
  BY <1>1, WriteType
<1>2. ASSUME row' = row PROVE row' \in [Vehicles -> Row] /\ Enrolled' = Enrolled
  BY <1>2 DEF Enrolled
<1>3. job[j].on = Charging \/ job[j].on \in Vehicles
  BY DEF JobRec
<1>4. Busy(j) => row' \in [Vehicles -> Row] /\ Enrolled' = Enrolled
  <2> SUFFICES ASSUME Busy(j), job[j].on # Charging
               PROVE  row' \in [Vehicles -> Row] /\ Enrolled' = Enrolled
    BY <1>2 DEF Busy
  <2> DEFINE v == job[j].on
             new == Release(v, row[v].status, TRUE)
  <2>1. v \in Vehicles /\ row[v].status \in RowStatus
    BY <1>3 DEF Row
  <2>2. Write(v, new)
    BY DEF Busy
  <2>3. new \in Row /\ new.status = row[v].status
    BY ZenonT(60), <2>1, ReleaseType
  <2>4. CASE row[v].status = None
    BY <1>2, <2>2, <2>4 DEF Write
  <2> QED
    BY <1>1, <2>1, <2>2, <2>3, <2>4
<1>5. NoContext(j) => row' \in [Vehicles -> Row] /\ Enrolled' = Enrolled
  <2> SUFFICES ASSUME NoContext(j), job[j].on # Charging
               PROVE  row' \in [Vehicles -> Row] /\ Enrolled' = Enrolled
    BY <1>2 DEF NoContext
  <2>1. job[j].on \in Vehicles /\ Write(job[j].on, Release(job[j].on, "error", FALSE))
    BY <1>3 DEF NoContext
  <2>2. /\ Release(job[j].on, "error", FALSE) \in Row
        /\ Release(job[j].on, "error", FALSE).status # None
    BY <2>1, ReleaseType
  <2> QED
    BY <1>1, <2>1, <2>2
<1>6. Report(j) => row' \in [Vehicles -> Row] /\ Enrolled' = Enrolled
  <2> SUFFICES ASSUME Report(j) PROVE row' \in [Vehicles -> Row] /\ Enrolled' = Enrolled
    OBVIOUS
  <2> DEFINE rel == Release(job[j].on, job[j].result, TRUE)
             new == [rel EXCEPT !.applied = job[j].applied]
  <2>1. job[j].on \in Vehicles /\ job[j].result \in {"active", "pending_sync", "unsupported"}
        /\ job[j].applied \in BOOLEAN
    BY DEF Report, At, Job, JobRec
  <2>2. rel \in Row /\ rel.status # None
    BY ZenonT(60), <2>1, ReleaseType
  <2>3. Write(job[j].on, new)
    BY DEF Report
  <2> HIDE DEF rel
  <2>4. new \in Row /\ new.status # None
    BY <2>1, <2>2 DEF Row
  <2> QED
    BY <1>1, <2>1, <2>3, <2>4
<1>7. Reconfigure(j) => row' \in [Vehicles -> Row] /\ Enrolled' = Enrolled
  <2> SUFFICES ASSUME Reconfigure(j) PROVE row' \in [Vehicles -> Row] /\ Enrolled' = Enrolled
    OBVIOUS
  <2>1. job[j].on \in Vehicles
        /\ Write(job[j].on, [row[job[j].on] EXCEPT !.status = "configuring"])
    BY <1>3 DEF Reconfigure
  <2>2. /\ [row[job[j].on] EXCEPT !.status = "configuring"] \in Row
        /\ [row[job[j].on] EXCEPT !.status = "configuring"].status # None
    BY <2>1 DEF Row
  <2> QED
    BY <1>1, <2>1, <2>2
<1>8. Catch(j) => row' \in [Vehicles -> Row] /\ Enrolled' = Enrolled
  <2> SUFFICES ASSUME Catch(j), job[j].on # Charging
               PROVE  row' \in [Vehicles -> Row] /\ Enrolled' = Enrolled
    BY <1>2 DEF Catch
  <2>1. job[j].on \in Vehicles /\ job[j].result \in FailureKinds
        /\ Write(job[j].on, Caught(j))
    BY <1>3 DEF Catch, At, Job
  <2>2. Caught(j) \in Row /\ Caught(j).status # None
    BY <2>1, CaughtType
  <2> QED
    BY <1>1, <2>1, <2>2
<1>9. ASSUME NEW v \in Vehicles, Claim(j, v)
      PROVE  row' \in [Vehicles -> Row] /\ Enrolled' = Enrolled
  <2>1. row' = [row EXCEPT ![v] = [row[v] EXCEPT !.claimed = TRUE]]
    BY <1>9 DEF Claim
  <2>2. /\ [row[v] EXCEPT !.claimed = TRUE] \in Row
        /\ [row[v] EXCEPT !.claimed = TRUE].status = row[v].status
    BY DEF Row
  <2> QED
    BY <2>1, <2>2 DEF Enrolled
<1>10. Drop(j) => row' \in [Vehicles -> Row] /\ Enrolled' = Enrolled \ {job[j].on}
  <2>1. NoRow \in Row /\ NoRow.status = None
    BY DEF NoRow, Row, IntegrationAssumption
  <2> QED
    BY <2>1 DEF Drop, Enrolled
<1>11. ClaimCharging(j) \/ Takes(j) \/ Persist(j) \/ Remove(j) \/ Configure(j)
         \/ Poll(j) \/ Finish(j) \/ SyncCharging(j) \/ Crash(j)
         => row' = row
  BY DEF ClaimCharging, Takes, Refresh, RefreshFails, Persist, Remove, Configure,
     Poll, Finish, SyncCharging, Crash
<1> QED
  BY <1>2, <1>4, <1>5, <1>6, <1>7, <1>8, <1>9, <1>10, <1>11

\* The enrollments the owner and the sweeps leave.
LEMMA OwnerRows ==
    ASSUME IntegrationAssumption, Typed
    PROVE
    /\ Disconnect \/ SweepRetired \/ (\E v \in Vehicles : Lapse(v))
         => row' \in [Vehicles -> Row] /\ Enrolled' = Enrolled
    /\ Seed => row' \in [Vehicles -> Row] /\ Enrolled \subseteq Enrolled'
    /\ ForceDisconnect => row' \in [Vehicles -> Row] /\ Enrolled' = {}
<1> row \in [Vehicles -> Row]
  BY TypedRow
<1>0. NoRow \in Row /\ NoRow.status = None
  BY DEF NoRow, Row, IntegrationAssumption
<1>1. NoRow \in Row /\ NoRow.status = None /\ Seeded \in Row /\ Seeded.status = "requested"
  BY <1>0 DEF Seeded, Row
<1>2. \A v \in Vehicles :
        LET asked == [row[v] EXCEPT !.status = "removal_requested", !.due = TRUE,
                                    !.claimed = FALSE]
        IN asked \in Row /\ asked.status # None
  BY DEF Row
<1>3. Disconnect \/ SweepRetired => row' \in [Vehicles -> Row] /\ Enrolled' = Enrolled
  <2>1. ASSUME Disconnect
        PROVE  row' \in [Vehicles -> Row] /\ Enrolled' = Enrolled
    <3> DEFINE asked(v) == [row[v] EXCEPT !.status = "removal_requested",
                                          !.due = TRUE, !.claimed = FALSE]
               next(v) == IF row[v].status = None THEN row[v] ELSE asked(v)
    <3>1. row' = [v \in Vehicles |-> next(v)]
      BY <2>1 DEF Disconnect
    <3>2. \A v \in Vehicles : next(v) \in Row
                             /\ (next(v).status = None <=> row[v].status = None)
      BY <1>2
    <3> HIDE DEF next
    <3> QED
      BY <3>1, <3>2 DEF Enrolled
  <2>2. ASSUME SweepRetired
        PROVE  row' \in [Vehicles -> Row] /\ Enrolled' = Enrolled
    <3> DEFINE asked(v) == [row[v] EXCEPT !.status = "removal_requested",
                                          !.due = TRUE, !.claimed = FALSE]
               swept(v) == fleet[v] # "active"
                             /\ row[v].status \notin {None, "removal_requested"}
               next(v) == IF swept(v) THEN asked(v) ELSE row[v]
    <3>1. row' = [v \in Vehicles |-> next(v)]
      BY <2>2 DEF SweepRetired
    <3>2. \A v \in Vehicles : next(v) \in Row
                             /\ (next(v).status = None <=> row[v].status = None)
      BY <1>2
    <3> HIDE DEF next
    <3> QED
      BY <3>1, <3>2 DEF Enrolled
  <2> QED
    BY <2>1, <2>2
<1>4. ASSUME NEW v \in Vehicles, Lapse(v)
      PROVE  row' \in [Vehicles -> Row] /\ Enrolled' = Enrolled
  <2>1. row' = [row EXCEPT ![v] = [row[v] EXCEPT !.claimed = FALSE]]
    BY <1>4 DEF Lapse
  <2>2. /\ [row[v] EXCEPT !.claimed = FALSE] \in Row
        /\ [row[v] EXCEPT !.claimed = FALSE].status = row[v].status
    BY DEF Row
  <2> QED
    BY <2>1, <2>2 DEF Enrolled
<1>5. Seed => row' \in [Vehicles -> Row] /\ Enrolled \subseteq Enrolled'
  BY <1>1 DEF Seed, Enrolled
<1>6. ForceDisconnect => row' \in [Vehicles -> Row] /\ Enrolled' = {}
  BY <1>1 DEF ForceDisconnect, Enrolled
<1> QED
  BY <1>3, <1>4, <1>5, <1>6

Acts(j) == Takes(j) \/ Runs(j) \/ Crash(j)

\* Every variable keeps to its type, and every job's record to its place, through
\* the owner's calls, the sweeps and every statement of a job.
LEMMA TypedAlways == Spec => []Typed
<1> USE IntegrationAssumption
<1>1. Init => Typed
  <2> SUFFICES ASSUME Init PROVE Typed
    OBVIOUS
  <2>1. NoRow \in Row
    BY DEF NoRow, Row
  <2>2. Idle \in Job
    BY IdleRec DEF Job
  <2>3. row \in [Vehicles -> Row] /\ job \in [Jobs -> Job] /\ job \in [Jobs -> JobRec]
    BY <2>1, <2>2 DEF Init, Job
  <2>4. 0 \in 0 .. MaxEdits /\ 0 \in 0 .. MaxFaults
    OBVIOUS
  <2>5. fleet \in [Vehicles -> {"active", "retired"}]
    BY DEF Init
  <2>6. edits \in 0 .. MaxEdits /\ faults \in 0 .. MaxFaults
    BY <2>4 DEF Init
  <2> QED
    BY <2>3, <2>5, <2>6 DEF Init, Typed, TypeOK, Row, JobRec
<1>2. Typed /\ [Next]_vars => Typed'
  <2> SUFFICES ASSUME Typed, [Next]_vars PROVE Typed'
    OBVIOUS
  <2> TypeOK
    BY DEF Typed
  <2>0. ASSUME row' \in [Vehicles -> Row], job' \in [Jobs -> Job],
               status' \in {"connected", "reauth_required", "disconnecting", "disconnected"},
               cred' \in {None, "live", "spent"}, fleet' \in [Vehicles -> {"active", "retired"}],
               streaming' \subseteq Vehicles, unconfirmed' \subseteq Vehicles,
               lock' \in Jobs \cup {None}, edits' \in 0 .. MaxEdits,
               faults' \in 0 .. MaxFaults, lost' \in BOOLEAN
        PROVE  Typed'
    <3>1. job' \in [Jobs -> JobRec]
      BY <2>0 DEF Job
    <3> QED
      BY <2>0, <3>1 DEF Typed, TypeOK, Row, JobRec
  <2> row \in [Vehicles -> Row] /\ job \in [Jobs -> Job]
    BY TypedRow
  <2>1. CASE UNCHANGED vars
    BY <2>1 DEF vars, Typed, TypeOK
  <2>a. /\ edits < MaxEdits => edits + 1 \in 0 .. MaxEdits
        /\ faults < MaxFaults => faults + 1 \in 0 .. MaxFaults
        /\ edits \in 0 .. MaxEdits /\ faults \in 0 .. MaxFaults
    BY DEF TypeOK
  <2>2. CASE Connect
    <3>1. edits' \in 0 .. MaxEdits /\ faults' \in 0 .. MaxFaults
      BY <2>2, <2>a DEF Connect
    <3> QED
      BY <2>0, <2>2, <3>1 DEF Connect, TypeOK
  <2>3. CASE Disconnect
    BY <2>0, <2>3, OwnerRows DEF Disconnect, TypeOK, owner
  <2>4. CASE ForceDisconnect
    BY <2>0, <2>4, OwnerRows DEF ForceDisconnect, TypeOK, owner, Enrolled
  <2>5. CASE Seed
    BY <2>0, <2>5, OwnerRows DEF Seed, TypeOK, owner
  <2>6. CASE SweepRetired
    BY <2>0, <2>6, OwnerRows DEF SweepRetired, TypeOK, owner
  <2>7. ASSUME NEW v \in Vehicles, EditVehicle(v) PROVE Typed'
    BY <2>0, <2>7 DEF EditVehicle, TypeOK
  <2>8. ASSUME NEW v \in Vehicles, Lapse(v) PROVE Typed'
    <3>1. edits' \in 0 .. MaxEdits /\ faults' \in 0 .. MaxFaults
      BY <2>8, <2>a DEF Lapse, Fault, owner
    <3> QED
      BY <2>0, <2>8, <3>1, OwnerRows DEF Lapse, TypeOK, owner
  <2>9. ASSUME NEW j \in Jobs, Acts(j) \/ ClaimCharging(j) \/ \E v \in Vehicles : Claim(j, v)
        PROVE  Typed'
    <3>1. job' \in [Jobs -> Job]
      BY <2>9, JobMoves DEF Acts, Takes, Runs, Moved
    <3>2. row' \in [Vehicles -> Row]
      BY <2>9, JobRows DEF Acts, Takes, Runs
    <3>3. /\ fleet' = fleet /\ edits' = edits
          /\ faults' = faults \/ (faults < MaxFaults /\ faults' = faults + 1)
      BY <2>9 DEF Acts, Takes, Runs, ClaimCharging, Claim, Refresh, RefreshFails, Busy,
         NoContext, Persist, Remove, Reconfigure, Configure, Poll, Report, Drop, Finish,
         Catch, SyncCharging, Crash, owner, Fault
    <3>9. lost' \in BOOLEAN
      BY <2>9 DEF Acts, Takes, Runs, ClaimCharging, Claim, Refresh, RefreshFails, Busy,
         NoContext, Persist, Remove, Reconfigure, Configure, Poll, Report, Drop, Finish,
         Catch, SyncCharging, Crash, TypeOK
    <3>10. edits' \in 0 .. MaxEdits /\ faults' \in 0 .. MaxFaults
           /\ fleet' \in [Vehicles -> {"active", "retired"}]
      BY <3>3, <2>a DEF TypeOK
    <3>4. lock' \in Jobs \cup {None}
      BY <2>9 DEF Acts, Takes, Runs, ClaimCharging, Claim, Refresh, RefreshFails, Busy,
         NoContext, Persist, Remove, Reconfigure, Configure, Poll, Report, Drop, Finish,
         Catch, SyncCharging, Crash, Unlock, TypeOK
    <3>5. /\ status' \in {"connected", "reauth_required", "disconnecting", "disconnected"}
          /\ cred' \in {None, "live", "spent"}
      BY <2>9 DEF Acts, Takes, Runs, ClaimCharging, Claim, Refresh, RefreshFails, Busy,
         NoContext, Persist, Remove, Reconfigure, Configure, Poll, Report, Drop, Finish,
         Catch, SyncCharging, Crash, TypeOK
    <3>6. job[j].removal \/ At(j, "configuring") => job[j].on \in Vehicles
      BY DEF Job, At
    <3>7. At(j, "removed") => job[j].removal
      BY DEF Job, At
    <3>8. streaming' \subseteq Vehicles /\ unconfirmed' \subseteq Vehicles
      BY <2>9, <3>6, <3>7 DEF Acts, Takes, Runs, ClaimCharging, Claim, Refresh, RefreshFails,
         Busy, NoContext, Persist, Remove, Reconfigure, Configure, Poll, Report, Drop,
         GivesUp, Finish, Catch, SyncCharging, Crash, TypeOK
    <3> QED
      BY <2>0, <3>1, <3>2, <3>4, <3>5, <3>8, <3>9, <3>10
  <2> QED
    BY <2>1, <2>2, <2>3, <2>4, <2>5, <2>6, <2>7, <2>8, <2>9 DEF Next, Acts
<1> QED
  BY <1>1, <1>2, PTL DEF Spec

\* Every variable keeps to its type (processTelemetry, syncChargingInvoices, and
\* the owner's RPCs).
THEOREM IntegrationTypes == Spec => []TypeOK
<1>1. Typed => TypeOK
  BY DEF Typed
<1> QED
  BY <1>1, TypedAlways, PTL

(***************************************************************************)
(* The advisory lock: whoever is past it holds it, so nobody else is.      *)
(***************************************************************************)
Session == {"rotated", "ready", "configuring", "answered", "removed", "dropped", "failed"}
Held == \A j \in Jobs : job[j].at \in Session => lock = j

Anything(j) == Acts(j) \/ ClaimCharging(j) \/ \E v \in Vehicles : Claim(j, v)

\* What a job does to the lock, whatever it does.
LEMMA Locking ==
    ASSUME IntegrationAssumption, Typed, Held, NEW j \in Jobs, Anything(j)
    PROVE  /\ \A k \in Jobs \ {j} : job'[k] = job[k] /\ (lock = k => lock' = k)
           /\ job'[j].at \in Session => lock' = j
<1>1. \A k \in Jobs \ {j} : job'[k] = job[k]
  BY JobMoves DEF Anything, Acts, Takes, Runs, Moved
<1>2. \A k \in Jobs \ {j} : lock = k => lock' = k
  BY DEF Anything, Acts, Takes, Runs, ClaimCharging, Claim, Refresh, RefreshFails, Busy,
     NoContext, Persist, Remove, Reconfigure, Configure, Poll, Report, Drop, Finish,
     Catch, SyncCharging, Crash, Unlock, IntegrationAssumption
<1>3. CASE Takes(j)
  BY <1>1, <1>2, <1>3 DEF Takes, Refresh, RefreshFails
<1>4. CASE Persist(j) \/ Remove(j) \/ Reconfigure(j) \/ Configure(j) \/ Poll(j) \/ Drop(j)
  <2>1. lock' = lock
    BY <1>4 DEF Persist, Remove, Reconfigure, Configure, Poll, Drop
  <2>2. job[j].at \in Session
    BY <1>4 DEF Persist, Remove, Reconfigure, Configure, Poll, Drop, GivesUp, At, Session
  <2> QED
    BY <1>1, <1>2, <2>1, <2>2 DEF Held
<1>5. CASE SyncCharging(j)
  <2>1. job[j].at \in Session
    BY <1>5 DEF SyncCharging, At, Session
  <2>2. Moved(j, "idle") \/ lock' = lock
    BY <1>5, ForgetMoves, TypedRow DEF SyncCharging
  <2> QED
    BY <1>1, <1>2, <2>1, <2>2 DEF Held, Moved, Session
<1>6. CASE Busy(j) \/ NoContext(j) \/ Report(j) \/ Finish(j) \/ Catch(j) \/ Crash(j)
             \/ ClaimCharging(j) \/ \E v \in Vehicles : Claim(j, v)
  <2>1. job'[j].at \in {"idle", "claimed"}
    BY <1>6, JobMoves DEF Moved
  <2> QED
    BY <1>1, <1>2, <2>1 DEF Session
<1> QED
  BY <1>1, <1>2, <1>3, <1>4, <1>5, <1>6 DEF Anything, Acts, Runs

\* A job that has begun its session at Tesla holds the integration's lock.
LEMMA AloneAtTesla == Spec => []Held
<1> USE IntegrationAssumption
<1>1. Init => Held
  BY DEF Init, Held, Idle, Session
<1>2. Typed /\ Held /\ [Next]_vars => Held'
  <2> SUFFICES ASSUME Typed, Held, [Next]_vars PROVE Held'
    OBVIOUS
  <2>1. ASSUME UNCHANGED <<job, lock>> PROVE Held'
    BY <2>1 DEF Held
  <2>2. ASSUME NEW j \in Jobs, Anything(j) PROVE Held'
    BY <2>2, Locking DEF Held
  <2> QED
    BY <2>1, <2>2 DEF Next, vars, Anything, Acts, Connect, Disconnect, ForceDisconnect,
       Seed, SweepRetired, EditVehicle, Lapse
<1> QED
  BY <1>1, <1>2, TypedAlways, PTL DEF Spec

(***************************************************************************)
(* The token.  TokenKept is not inductive: it says nothing of a stored     *)
(* token while the lock is held.  A spent one has a job that still has its *)
(* successor in hand, or lost it.                                          *)
(***************************************************************************)
InHand == cred = "spent" => lost \/ \E j \in Jobs : job[j].at = "rotated"

\* While no job holds the integration's lock, the stored refresh token is one
\* Tesla still takes, unless the process that rotated it died before storing the
\* new one (refreshTeslaToken, persistRotatedTeslaToken).
THEOREM TokenNeverLost == Spec => []TokenKept
<1> USE IntegrationAssumption
<1>1. Init => InHand
  BY DEF Init, InHand
<1>2. Typed /\ Held /\ InHand /\ [Next]_vars => InHand'
  <2> SUFFICES ASSUME Typed, Held, InHand, [Next]_vars PROVE InHand'
    OBVIOUS
  <2>1. ASSUME cred' = cred \/ cred' # "spent", lost' = lost \/ lost',
               \A k \in Jobs : job[k].at = "rotated" => lost' \/ job'[k].at = "rotated"
        PROVE  InHand'
    BY <2>1 DEF InHand
  <2>2. CASE UNCHANGED vars \/ Disconnect \/ ForceDisconnect \/ Seed \/ SweepRetired
             \/ \E v \in Vehicles : EditVehicle(v) \/ Lapse(v)
    <3>1. job' = job /\ lost' = lost /\ (cred' = cred \/ cred' = None)
      BY <2>2 DEF vars, Disconnect, ForceDisconnect, Seed, SweepRetired, EditVehicle, Lapse
    <3> QED
      BY <2>1, <3>1
  <2>3. CASE Connect
    BY <2>3 DEF Connect, InHand
  <2>4. ASSUME NEW j \in Jobs, Anything(j) PROVE InHand'
    <3>1. \A k \in Jobs \ {j} : job'[k] = job[k]
      BY <2>4, Locking
    <3>2. CASE Refresh(j)
      <4>1. CASE Moved(j, "rotated")
        BY <4>1 DEF InHand, Moved
      <4>2. CASE cred # "live" /\ Moved(j, "failed")
        <5>1. cred' = cred /\ lost' = lost /\ job[j].at # "rotated"
          BY <3>2, <4>2 DEF Refresh, At
        <5> QED
          BY <2>1, <3>1, <5>1
      <4> QED
        BY <3>2, <4>1, <4>2, JobMoves
    <3>3. CASE Persist(j)
      BY <3>3 DEF Persist, InHand
    <3>4. CASE Crash(j)
      <4>1. cred' = cred /\ (lost => lost') /\ (job[j].at = "rotated" => lost')
        BY <3>4 DEF Crash, At
      <4> QED
        BY <3>1, <4>1 DEF InHand
    <3>5. CASE ~Refresh(j) /\ ~Persist(j) /\ ~Crash(j)
      <4>1. lost' = lost /\ (cred' = cred \/ cred' = None) /\ job[j].at # "rotated"
        BY <2>4, <3>5 DEF Anything, Acts, Takes, Runs, ClaimCharging, Claim, RefreshFails,
           Busy, NoContext, Remove, Reconfigure, Configure, Poll, Report, Drop, GivesUp,
           Finish, Catch, SyncCharging, At
      <4> QED
        BY <2>1, <3>1, <4>1
    <3> QED
      BY <3>2, <3>3, <3>4, <3>5
  <2> QED
    BY <2>2, <2>3, <2>4 DEF Next, Anything, Acts
<1>3. Typed /\ Held /\ InHand => TokenKept
  BY DEF Typed, TypeOK, Held, InHand, TokenKept, Session
<1> QED
  BY <1>1, <1>2, <1>3, TypedAlways, AloneAtTesla, PTL DEF Spec

(***************************************************************************)
(* The streams.  A configuration is sent only while the row is there, or   *)
(* its removal is already on record, and a removed stream is off before    *)
(* its row goes.                                                           *)
(***************************************************************************)
Watched ==
    /\ NoForgottenStream
    /\ \A j \in Jobs :
         /\ job[j].at \in {"rotated", "ready", "configuring"} /\ job[j].on \in Vehicles
              => job[j].on \in Enrolled \cup unconfirmed
         /\ job[j].at = "removed" => job[j].on \notin streaming

\* Tesla holds no telemetry configuration for a vehicle without an enrollment,
\* unless its removal is on record as unconfirmed (processTelemetry's removal, its
\* retry cap, the forced disconnect).
THEOREM StreamsOnRecord == Spec => []NoForgottenStream
<1> USE IntegrationAssumption
<1>1. Init => Watched
  BY DEF Init, Watched, NoForgottenStream, Idle
<1>2. Typed /\ Held /\ Watched /\ [Next]_vars => Watched'
  <2> SUFFICES ASSUME Typed, Held, Watched, [Next]_vars PROVE Watched'
    OBVIOUS
  <2>1. ASSUME job' = job, streaming' = streaming,
               Enrolled \cup unconfirmed \subseteq Enrolled' \cup unconfirmed'
        PROVE  Watched'
    BY <2>1 DEF Watched, NoForgottenStream
  <2>2. CASE UNCHANGED vars \/ Connect \/ \E v \in Vehicles : EditVehicle(v)
    <3>1. UNCHANGED <<row, job, streaming, unconfirmed>>
      BY <2>2 DEF vars, Connect, EditVehicle
    <3> QED
      BY <2>1, <3>1 DEF Enrolled
  <2>3. CASE Disconnect \/ SweepRetired \/ Seed \/ \E v \in Vehicles : Lapse(v)
    <3>1. UNCHANGED <<job, streaming, unconfirmed>>
      BY <2>3 DEF Disconnect, SweepRetired, Seed, Lapse
    <3> QED
      BY <2>1, <2>3, <3>1, OwnerRows
  <2>4. CASE ForceDisconnect
    <3>1. UNCHANGED <<job, streaming>> /\ unconfirmed' = unconfirmed \cup Enrolled
      BY <2>4 DEF ForceDisconnect
    <3> QED
      BY <2>1, <3>1
  <2>5. ASSUME NEW j \in Jobs, Anything(j) PROVE Watched'
    <3>1. \A k \in Jobs \ {j} : job'[k] = job[k]
      BY <2>5, Locking
    <3>2. ASSUME NEW k \in Jobs \ {j}, job[j].at \in Session PROVE job[k].at \notin Session
      BY <3>2 DEF Held
    <3>3. ASSUME UNCHANGED <<streaming, unconfirmed>>, Enrolled' = Enrolled,
                 job'[j].at \in {"rotated", "ready", "configuring"} /\ job'[j].on \in Vehicles
                   => job'[j].on \in Enrolled \cup unconfirmed,
                 job'[j].at # "removed"
          PROVE  Watched'
      BY <3>1, <3>3 DEF Watched, NoForgottenStream
    <3>4. CASE Refresh(j)
      <4>1. UNCHANGED <<streaming, unconfirmed>> /\ Enrolled' = Enrolled
        BY <3>4, JobRows DEF Takes, Refresh
      <4>2. job'[j].on = job[j].on /\ job'[j].at \in {"rotated", "failed"}
        BY <3>4, JobMoves DEF Moved
      <4>3. job[j].on \in Vehicles => job[j].on \in Enrolled
        BY <3>4 DEF Refresh, HasContext, Enrolled
      <4> QED
        BY <3>3, <4>1, <4>2, <4>3
    <3>5. CASE Persist(j) \/ Reconfigure(j)
      <4>1. UNCHANGED <<streaming, unconfirmed>> /\ Enrolled' = Enrolled
        BY <3>5, JobRows DEF Persist, Reconfigure
      <4>2. job'[j].on = job[j].on /\ job'[j].at \in {"ready", "configuring"}
        BY <3>5, JobMoves DEF Moved
      <4>3. job[j].at \in {"rotated", "ready"}
        BY <3>5 DEF Persist, Reconfigure, At
      <4> QED
        BY <3>3, <4>1, <4>2, <4>3 DEF Watched
    <3>6. CASE Remove(j)
      <4>1. unconfirmed' = unconfirmed /\ Enrolled' = Enrolled /\ job[j].at \in Session
        BY <3>6, JobRows DEF Remove, At, Session
      <4>2. streaming' \subseteq streaming
        BY <3>6 DEF Remove
      <4>3. job'[j].at \in {"removed", "failed"} /\ job'[j].on = job[j].on
        BY <3>6, JobMoves DEF Moved
      <4>4. job'[j].at = "removed" => job[j].on \notin streaming'
        <5>1. ASSUME NEW kinds, Fails(j, kinds) PROVE job'[j].at # "removed"
          BY <5>1, FailsMoves, TypedRow DEF Moved
        <5> QED
          BY <3>6, <5>1 DEF Remove
      <4> QED
        BY <3>1, <3>2, <4>1, <4>2, <4>3, <4>4 DEF Watched, NoForgottenStream, Session
    <3>7. CASE Configure(j)
      <4>1. unconfirmed' = unconfirmed /\ Enrolled' = Enrolled /\ job[j].at \in Session
        BY <3>7, JobRows DEF Configure, At, Session
      <4>2. streaming' \subseteq streaming \cup {job[j].on}
        BY <3>7 DEF Configure
      <4>3. job[j].on \in Enrolled \cup unconfirmed
        BY <3>7, TypedRow DEF Configure, At, Watched, Job
      <4>4. job'[j].at \in {"answered", "failed"}
        BY <3>7, JobMoves DEF Moved
      <4> QED
        BY <3>1, <3>2, <4>1, <4>2, <4>3, <4>4 DEF Watched, NoForgottenStream, Session
    <3>8. CASE Drop(j)
      <4>1. Enrolled' = Enrolled \ {job[j].on} /\ streaming' = streaming /\ job[j].at \in Session
        BY <3>8, JobRows DEF Drop, GivesUp, At, Session
      <4>2. job'[j].at = "dropped"
        BY <3>8, JobMoves DEF Moved
      <4>3. CASE At(j, "removed")
        BY <3>1, <3>2, <3>8, <4>1, <4>2, <4>3 DEF Drop, At, Watched, NoForgottenStream, Session
      <4>4. CASE ~At(j, "removed")
        BY <3>1, <3>2, <3>8, <4>1, <4>2, <4>4 DEF Drop, Watched, NoForgottenStream, Session
      <4> QED
        BY <4>3, <4>4
    <3>9. CASE ~Refresh(j) /\ ~Persist(j) /\ ~Reconfigure(j) /\ ~Remove(j) /\ ~Configure(j)
               /\ ~Drop(j)
      <4>1. Enrolled' = Enrolled
        BY <2>5, <3>9, JobRows DEF Anything, Acts, Takes, Runs
      <4>2. UNCHANGED <<streaming, unconfirmed>>
        BY <2>5, <3>9 DEF Anything, Acts, Takes, Runs, ClaimCharging, Claim, RefreshFails,
           Busy, NoContext, Poll, Report, Finish, Catch, SyncCharging, Crash
      <4>3. job'[j].at \in {"idle", "claimed", "answered", "failed"}
        BY <2>5, <3>9, JobMoves DEF Anything, Acts, Takes, Runs, Moved
      <4> QED
        BY <3>3, <4>1, <4>2, <4>3
    <3> QED
      BY <3>4, <3>5, <3>6, <3>7, <3>8, <3>9
  <2> QED
    BY <2>2, <2>3, <2>4, <2>5 DEF Next, Anything, Acts
<1>3. Watched => NoForgottenStream
  BY DEF Watched
<1> QED
  BY <1>1, <1>2, <1>3, TypedAlways, AloneAtTesla, PTL DEF Spec
=============================================================================

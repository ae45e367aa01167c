------------------------- MODULE AccessGrantProofs -------------------------
(***************************************************************************)
(* Theorems about AccessGrant, for every number of workers, trips and      *)
(* invitations, every window and every bound.  First its types, the        *)
(* session, and what the steps do to a grant's row; then its invitations:  *)
(* that a grant is only 'revoked' when its invitation is gone, that the    *)
(* link the guest is promised is what the code implements, that a live     *)
(* invitation is never left to nobody, that guests are handed their own,   *)
(* that a request with no known outcome is not made again, and that        *)
(* revocation ends access.                                                 *)
(***************************************************************************)
EXTENDS AccessGrant, TLAPS

-----------------------------------------------------------------------------
(* Type correctness.  The helpers keep their variables' types; then every  *)
(* action does.                                                            *)

LEMMA NoMemType == NoMem \in Mem
  BY DEF NoMem, Mem

LEMMA NewRowType == NewRow \in Row
  BY WindowAssumption DEF NewRow, Row, Window, Status

LEMMA WriteType ==
  ASSUME TypeOK, NEW g \in Grants, NEW r \in Row, NEW keep \in SUBSET Jobs,
         Write(g, r, keep)
  PROVE  row' \in [Grants -> Row] /\ fresh' \in SUBSET Jobs
  BY DEF TypeOK, Write

LEMMA SetGrantType ==
  ASSUME TypeOK, NEW g \in Grants, NEW r \in Row, SetGrant(g, r)
  PROVE  row' \in [Grants -> Row] /\ fresh' \in SUBSET Jobs
  <1> DEFINE s == [r EXCEPT !.claimedBy = None, !.leased = FALSE]
  <1>1. s \in Row
    BY DEF Row
  <1> QED BY <1>1, WriteType DEF SetGrant

LEMMA GotoType ==
  ASSUME TypeOK, NEW w \in Workers, NEW g \in Grants, NEW l \in PC,
         Goto(w, g, l)
  PROVE  pc' \in [Jobs -> PC]
  BY DEF TypeOK, Goto, Jobs

LEMMA LeaveType ==
  ASSUME TypeOK, NEW w \in Workers, NEW g \in Grants, Leave(w, g)
  PROVE  /\ pc' \in [Jobs -> PC]
         /\ mem' \in [Jobs -> Mem]
         /\ lock' \in Jobs \cup {None}
  <1>1. pc' \in [Jobs -> PC]
    BY GotoType DEF Leave, PC
  <1>2. mem' \in [Jobs -> Mem]
    BY NoMemType DEF Leave, TypeOK, Jobs
  <1>3. lock' \in Jobs \cup {None}
    BY DEF Leave, TypeOK
  <1> QED BY <1>1, <1>2, <1>3

LEMMA RowOfGrant ==
  ASSUME TypeOK, NEW g \in Grants
  PROVE  row[g] \in Row
  BY DEF TypeOK

LEMMA MemOfJob ==
  ASSUME TypeOK, NEW w \in Workers, NEW g \in Grants
  PROVE  mem[<<w, g>>] \in Mem
  BY DEF TypeOK, Jobs

LEMMA ParkedType ==
  ASSUME NEW r \in Row
  PROVE  Parked(r) \in Row
  BY DEF Parked, Row, Status

\* A job that leaves sets a status and a next action.
LEMMA RowWithStatus ==
  ASSUME NEW r \in Row, NEW s \in Status, NEW n \in Nat \cup {None}
  PROVE  [r EXCEPT !.status = s, !.next = n] \in Row
  BY DEF Row

\* A row that is due at once.
LEMMA RowDueNow ==
  ASSUME TypeOK, NEW g \in Grants
  PROVE  /\ now \in Nat \cup {None}
         /\ [row[g] EXCEPT !.next = now] \in Row
  <1>1. row[g] \in Row
    BY RowOfGrant
  <1>2. now \in Nat \cup {None}
    BY DEF TypeOK
  <1> QED BY <1>1, <1>2 DEF Row

LEMMA CatchType ==
  ASSUME TypeOK, NEW w \in Workers, NEW g \in Grants, NEW s \in Status,
         Catch(w, g, s)
  PROVE  /\ row' \in [Grants -> Row] /\ fresh' \in SUBSET Jobs
         /\ pc' \in [Jobs -> PC] /\ mem' \in [Jobs -> Mem]
         /\ lock' \in Jobs \cup {None}
  <1> DEFINE n == IF s = "failed_retryable" THEN now ELSE None
             r == [row[g] EXCEPT !.status = s, !.next = n]
  <1>a. n \in Nat \cup {None}
    BY RowDueNow
  <1>1. r \in Row
    <2> HIDE DEF n
    <2> QED BY <1>a, RowOfGrant, RowWithStatus
  <1>2. row' \in [Grants -> Row] /\ fresh' \in SUBSET Jobs
    BY <1>1, SetGrantType DEF Catch
  <1> QED BY <1>2, LeaveType DEF Catch

LEMMA ParkType ==
  ASSUME TypeOK, NEW w \in Workers, NEW g \in Grants, Park(w, g)
  PROVE  /\ row' \in [Grants -> Row] /\ fresh' \in SUBSET Jobs
         /\ pc' \in [Jobs -> PC] /\ mem' \in [Jobs -> Mem]
         /\ lock' \in Jobs \cup {None}
  BY SetGrantType, ParkedType, RowOfGrant, LeaveType DEF Park

LEMMA ParkAndAuditType ==
  ASSUME TypeOK, NEW w \in Workers, NEW g \in Grants, NEW r \in Row,
         ParkAndAudit(w, g, r)
  PROVE  /\ row' \in [Grants -> Row] /\ fresh' \in SUBSET Jobs
         /\ pc' \in [Jobs -> PC] /\ mem' \in [Jobs -> Mem]
         /\ lock' \in Jobs \cup {None}
  <1>1. pc' \in [Jobs -> PC]
    BY GotoType DEF ParkAndAudit, PC
  <1> QED BY <1>1, SetGrantType, ParkedType DEF ParkAndAudit, TypeOK

\* What is left to show of an action that leaves the owner's variables alone.
LEMMA WorkerFrame ==
  ASSUME TypeOK, UNCHANGED <<now, ownerVars, creator, known>>,
         row' \in [Grants -> Row], fresh' \in SUBSET Jobs,
         secret' \in [Grants -> Invites \cup {None}],
         pc' \in [Jobs -> PC], mem' \in [Jobs -> Mem],
         lock' \in Jobs \cup {None},
         open' \in SUBSET Invites, drivers' \in SUBSET Grants,
         inflight' \in SUBSET Grants, faults' \in Nat
  PROVE  TypeOK'
  BY DEF TypeOK, ownerVars

LEMMA ClaimType ==
  ASSUME TypeOK, NEW w \in Workers, Claim(w)
  PROVE  TypeOK'
  <1>1. row' \in [Grants -> Row]
    <2>1. \A g \in Grants :
            [row[g] EXCEPT !.claimedBy = w, !.leased = TRUE] \in Row
      BY RowOfGrant DEF Row
    <2> QED BY <2>1 DEF Claim, TypeOK
  <1>2. pc' \in [Jobs -> PC]
    BY DEF Claim, TypeOK, PC
  <1> QED BY <1>1, <1>2 DEF Claim, TypeOK, ownerVars, teslaVars

LEMMA BeginType ==
  ASSUME TypeOK, NEW w \in Workers, NEW g \in Grants, Begin(w, g)
  PROVE  TypeOK'
  <1>1. CASE ~(connected /\ bound[g])
    <2> DEFINE r == [row[g] EXCEPT !.status = "reauth_required", !.next = None]
    <2>1. r \in Row
      BY ZenonT(60), RowOfGrant DEF Row, Status
    <2>2. SetGrant(g, r) /\ Leave(w, g)
      BY <1>1 DEF Begin
    <2> QED BY <2>1, <2>2, SetGrantType, LeaveType
            DEF Begin, TypeOK, ownerVars, teslaVars
  <1>2. CASE SetGrant(g, [row[g] EXCEPT !.next = now]) /\ Leave(w, g)
    <2>1. [row[g] EXCEPT !.next = now] \in Row
      BY RowDueNow
    <2> QED BY <1>2, <2>1, SetGrantType, LeaveType
            DEF Begin, TypeOK, ownerVars, teslaVars
  <1>3. CASE /\ lock' = <<w, g>>
             /\ Goto(w, g, "context")
             /\ UNCHANGED <<row, fresh, mem>>
    <2>1. pc' \in [Jobs -> PC]
      BY <1>3, GotoType DEF PC
    <2> QED BY <1>3, <2>1 DEF Begin, TypeOK, Jobs, ownerVars, teslaVars
  <1> QED BY <1>1, <1>2, <1>3 DEF Begin

LEMMA ReadContextType ==
  ASSUME TypeOK, NEW w \in Workers, NEW g \in Grants, ReadContext(w, g)
  PROVE  TypeOK'
  <1>1. CASE ~connected
    <2>1. [row[g] EXCEPT !.next = now] \in Row
      BY RowDueNow
    <2> QED BY <1>1, <2>1, SetGrantType, LeaveType
            DEF ReadContext, TypeOK, ownerVars, teslaVars
  <1>2. CASE connected
    <2> DEFINE m == [issuing |-> row[g].status = "issuing",
                     revoke |-> row[g].revoke, pid |-> row[g].pid,
                     saved |-> row[g].saved, before |-> row[g].before,
                     inv |-> None]
    <2>1. m \in Mem
      BY RowOfGrant DEF Row, Mem
    <2>2. /\ mem' = [mem EXCEPT ![<<w, g>>] = m]
          /\ fresh' = fresh \cup {<<w, g>>}
          /\ Goto(w, g, "refresh")
          /\ UNCHANGED <<row, lock>>
      BY <1>2 DEF ReadContext
    <2>3. pc' \in [Jobs -> PC]
      BY <2>2, GotoType DEF PC
    <2>4. mem' \in [Jobs -> Mem] /\ fresh' \in SUBSET Jobs
      BY <2>1, <2>2 DEF TypeOK, Jobs
    <2> QED BY <2>2, <2>3, <2>4 DEF ReadContext, TypeOK, ownerVars, teslaVars
  <1> QED BY <1>1, <1>2

LEMMA RefreshType ==
  ASSUME TypeOK, NEW w \in Workers, NEW g \in Grants, Refresh(w, g)
  PROVE  TypeOK'
  <1>1. CASE /\ Goto(w, g, IF now >= mem[<<w, g>>].revoke THEN "startRevoke"
                                                       ELSE "before")
             /\ UNCHANGED <<row, fresh, lock, mem, faults>>
    <2>1. pc' \in [Jobs -> PC]
      BY <1>1, GotoType DEF PC
    <2> QED BY <1>1, <2>1 DEF Refresh, TypeOK, ownerVars, teslaVars
  <1>2. ASSUME NEW s \in {"failed_retryable", "reauth_required"},
               Catch(w, g, s), faults' = faults + 1
        PROVE  TypeOK'
    <2>1. s \in Status
      BY DEF Status
    <2>2. UNCHANGED <<now, ownerVars, secret, teslaVars>>
      BY DEF Refresh
    <2>3. faults' \in Nat
      BY <1>2 DEF TypeOK
    <2> QED BY <1>2, <2>1, <2>2, <2>3, CatchType, WorkerFrame
            DEF TypeOK, teslaVars
  <1> QED BY <1>1, <1>2 DEF Refresh, Fault

\* A fault keeps the counter a number.
LEMMA FaultType ==
  ASSUME TypeOK, NEW kind, Fault(kind)
  PROVE  faults' \in Nat
  BY DEF TypeOK, Fault

LEMMA TeslaErrorsType == TeslaErrors \subseteq Status
  BY DEF TeslaErrors, Status

LEMMA BeforeType ==
  ASSUME TypeOK, NEW w \in Workers, NEW g \in Grants, Before(w, g)
  PROVE  TypeOK'
  <1>0. UNCHANGED <<now, ownerVars, secret, teslaVars>>
    BY DEF Before
  <1>1. CASE /\ Goto(w, g, "after") /\ UNCHANGED <<row, fresh, lock, mem, faults>>
    BY <1>0, <1>1, GotoType, WorkerFrame DEF PC, TypeOK, teslaVars
  <1>2. CASE Park(w, g) /\ UNCHANGED faults
    BY <1>0, <1>2, ParkType, WorkerFrame DEF TypeOK, teslaVars
  <1>3. CASE /\ mem' = [mem EXCEPT ![<<w, g>>] = [@ EXCEPT !.before = open]]
             /\ Goto(w, g, "reserve")
             /\ UNCHANGED <<row, fresh, lock, faults>>
    <2> DEFINE m == [mem[<<w, g>>] EXCEPT !.before = open]
    <2>0. open \in SUBSET Invites
      BY DEF TypeOK
    <2>1. m \in Mem
      BY <2>0, MemOfJob DEF Mem
    <2>2. mem' \in [Jobs -> Mem]
      BY <1>3, <2>1 DEF TypeOK, Jobs
    <2>3. pc' \in [Jobs -> PC]
      BY <1>3, GotoType DEF PC
    <2> QED BY <1>0, <1>3, <2>2, <2>3, WorkerFrame DEF TypeOK, teslaVars
  <1>4. ASSUME NEW s \in TeslaErrors, Catch(w, g, s), Fault("tesla")
        PROVE  TypeOK'
    BY <1>0, <1>4, FaultType, TeslaErrorsType, CatchType, WorkerFrame
       DEF TypeOK, teslaVars
  <1> QED BY <1>1, <1>2, <1>3, <1>4 DEF Before

LEMMA ReserveType ==
  ASSUME TypeOK, NEW w \in Workers, NEW g \in Grants, Reserve(w, g)
  PROVE  TypeOK'
  <1>0. UNCHANGED <<now, ownerVars, secret, teslaVars, faults>>
    BY DEF Reserve
  <1>1. CASE Fenced(w, g)
    <2> DEFINE r == [row[g] EXCEPT !.status = "issuing", !.saved = TRUE,
                                   !.before = mem[<<w, g>>].before, !.next = now]
    <2>1. mem[<<w, g>>].before \in SUBSET Invites
      BY DEF TypeOK, Jobs, Mem
    <2>a. row[g] \in Row
      BY RowOfGrant
    <2>b. now \in Nat
      BY DEF TypeOK
    <2>2. r \in Row
      BY <2>1, <2>a, <2>b DEF Row, Status
    <2>3. /\ Write(g, r, {<<w, g>>})
          /\ Goto(w, g, "post")
          /\ UNCHANGED <<lock, mem>>
      BY <1>1 DEF Reserve
    <2>4. {<<w, g>>} \in SUBSET Jobs
      BY DEF Jobs
    <2>5. row' \in [Grants -> Row] /\ fresh' \in SUBSET Jobs
      BY <2>2, <2>3, <2>4, WriteType
    <2>6. pc' \in [Jobs -> PC]
      BY <2>3, GotoType DEF PC
    <2> QED BY <1>0, <2>3, <2>5, <2>6, WorkerFrame DEF TypeOK, teslaVars
  <1>2. CASE ~Fenced(w, g)
    BY <1>0, <1>2, LeaveType, WorkerFrame DEF Reserve, TypeOK, teslaVars
  <1> QED BY <1>1, <1>2

LEMMA PostOkType ==
  ASSUME TypeOK, NEW w \in Workers, NEW g \in Grants, PostOk(w, g)
  PROVE  TypeOK'
  <1>1. PICK i \in Unused : Create(i, g)
    BY DEF PostOk
  <1>2. /\ open' \in SUBSET Invites
        /\ creator' \in [Invites -> Grants \cup {Owner, None}]
    BY <1>1 DEF Unused, Create, TypeOK
  <1>3. pc' \in [Jobs -> PC]
    BY GotoType DEF PostOk, PC
  <1> QED BY <1>2, <1>3 DEF PostOk, TypeOK, ownerVars

LEMMA PostFailsType ==
  ASSUME TypeOK, NEW w \in Workers, NEW g \in Grants, PostFails(w, g)
  PROVE  TypeOK'
  <1>1. faults' \in Nat /\ inflight' \in SUBSET Grants
    <2>1. CASE Fault("post") /\ inflight' \in {inflight, inflight \cup {g}}
      BY <2>1, FaultType DEF TypeOK
    <2>2. CASE UNCHANGED <<inflight, faults>>
      BY <2>2 DEF TypeOK
    <2> QED BY <2>1, <2>2 DEF PostFails
  <1>2. /\ ParkAndAudit(w, g, row[g])
        /\ UNCHANGED <<now, ownerVars, secret, open, creator, known, drivers>>
    BY DEF PostFails
  <1> QED BY <1>1, <1>2, RowOfGrant, ParkAndAuditType, WorkerFrame DEF TypeOK

LEMMA ListAfterType ==
  ASSUME TypeOK, NEW w \in Workers, NEW g \in Grants, ListAfter(w, g)
  PROVE  TypeOK'
  <1>0. UNCHANGED <<now, ownerVars, secret, teslaVars>>
    BY DEF ListAfter
  <1>1. ASSUME NEW i \in Invites,
               mem' = [mem EXCEPT ![<<w, g>>] = [@ EXCEPT !.inv = i]],
               Goto(w, g, "commit"), UNCHANGED <<row, fresh, lock, faults>>
        PROVE  TypeOK'
    <2> DEFINE m == [mem[<<w, g>>] EXCEPT !.inv = i]
    <2>1. m \in Mem
      BY MemOfJob DEF Mem
    <2>2. mem' \in [Jobs -> Mem]
      BY <1>1, <2>1 DEF TypeOK, Jobs
    <2> QED BY <1>0, <1>1, <2>2, GotoType, WorkerFrame
            DEF PC, TypeOK, teslaVars
  <1>2. ASSUME NEW i \in Invites, Fault("url"),
               ParkAndAudit(w, g, [row[g] EXCEPT !.pid = i])
        PROVE  TypeOK'
    <2>1. [row[g] EXCEPT !.pid = i] \in Row
      BY RowOfGrant DEF Row
    <2> QED BY <1>0, <1>2, <2>1, FaultType, ParkAndAuditType, WorkerFrame
            DEF TypeOK, teslaVars
  <1>3. CASE ParkAndAudit(w, g, row[g]) /\ UNCHANGED faults
    BY <1>0, <1>3, RowOfGrant, ParkAndAuditType, WorkerFrame
       DEF TypeOK, teslaVars
  <1>4. CASE /\ Fault("list")
             /\ SetGrant(g, [row[g] EXCEPT !.status = "issuing", !.next = now])
             /\ Leave(w, g)
    <2> DEFINE r == [row[g] EXCEPT !.status = "issuing", !.next = now]
    <2>1. r \in Row
      BY RowOfGrant, RowDueNow, RowWithStatus DEF Status
    <2>2. row' \in [Grants -> Row] /\ fresh' \in SUBSET Jobs
      BY <1>4, <2>1, SetGrantType
    <2> QED BY <1>0, <1>4, <2>2, FaultType, LeaveType, WorkerFrame
            DEF TypeOK, teslaVars
  <1> QED BY <1>1, <1>2, <1>3, <1>4 DEF ListAfter

\* What a job found at Tesla is an invitation from there until it leaves.
FoundOK == \A j \in Jobs :
  pc[j] \in {"commit", "supersede"} => mem[j].inv \in Invites

LEMMA CommitType ==
  ASSUME TypeOK, FoundOK, NEW w \in Workers, NEW g \in Grants, Commit(w, g)
  PROVE  TypeOK'
  <1> DEFINE i == mem[<<w, g>>].inv
  <1>0. /\ UNCHANGED <<now, ownerVars, teslaVars, faults>>
        /\ i \in Invites
    BY DEF Commit, FoundOK, At, Jobs
  <1>1. CASE /\ Write(g, ReadyRow(g, i), {})
             /\ secret' = [secret EXCEPT ![g] = i]
             /\ Goto(w, g, "finish")
             /\ UNCHANGED <<lock, mem>>
    <2>1. row[g].revoke \in Nat /\ now + InviteLife \in Nat
      BY RowOfGrant, BoundAssumption DEF Row, TypeOK
    <2>2. ReadyRow(g, i) \in Row
      BY ZenonT(60), <1>0, <2>1, RowOfGrant DEF ReadyRow, Row, Status
    <2>3. row' \in [Grants -> Row] /\ fresh' \in SUBSET Jobs
      BY <1>1, <2>2, WriteType
    <2>4. secret' \in [Grants -> Invites \cup {None}]
      BY <1>0, <1>1 DEF TypeOK
    <2>5. pc' \in [Jobs -> PC]
      BY <1>1, GotoType DEF PC
    <2> QED BY <1>0, <1>1, <2>3, <2>4, <2>5, WorkerFrame DEF TypeOK, teslaVars
  <1>2. CASE Catch(w, g, "failed_retryable") /\ UNCHANGED secret
    <2>1. "failed_retryable" \in Status
      BY DEF Status
    <2> QED BY <1>0, <1>2, <2>1, CatchType, WorkerFrame DEF TypeOK, teslaVars
  <1>3. CASE /\ Goto(w, g, "supersede")
             /\ UNCHANGED <<row, secret, lock, mem, fresh>>
    BY <1>0, <1>3, GotoType, WorkerFrame DEF PC, TypeOK, teslaVars
  <1> QED BY <1>1, <1>2, <1>3 DEF Commit

LEMMA SupersedeType ==
  ASSUME TypeOK, FoundOK, NEW w \in Workers, NEW g \in Grants, Supersede(w, g)
  PROVE  TypeOK'
  <1> DEFINE i == mem[<<w, g>>].inv
             r == [row[g] EXCEPT !.pid = i]
  <1>0. /\ UNCHANGED <<now, ownerVars, secret, creator, known, drivers, inflight>>
        /\ open' \in {open, open \ {i}}
        /\ i \in Invites
    BY DEF Supersede, FoundOK, At, Jobs
  <1>1. faults' \in Nat
    BY FaultType DEF Supersede, TypeOK
  <1>2. CASE Leave(w, g) /\ UNCHANGED <<row, fresh>>
    BY <1>0, <1>1, <1>2, LeaveType, WorkerFrame DEF TypeOK
  <1>3. CASE /\ SetGrant(g, Parked(r))
             /\ Goto(w, g, "audit")
             /\ UNCHANGED <<lock, mem>>
    <2>1. r \in Row
      BY <1>0, RowOfGrant DEF Row
    <2>2. row' \in [Grants -> Row] /\ fresh' \in SUBSET Jobs
      BY <1>3, <2>1, ParkedType, SetGrantType
    <2>3. pc' \in [Jobs -> PC]
      BY <1>3, GotoType DEF PC
    <2> QED BY <1>0, <1>1, <1>3, <2>2, <2>3, WorkerFrame DEF TypeOK
  <1> QED BY <1>2, <1>3 DEF Supersede

LEMMA AuditType ==
  ASSUME TypeOK, NEW w \in Workers, NEW g \in Grants, Audit(w, g)
  PROVE  TypeOK'
  <1>0. UNCHANGED <<now, ownerVars, secret, teslaVars, faults>>
    BY DEF Audit
  <1>1. CASE Leave(w, g) /\ UNCHANGED <<row, fresh>>
    BY <1>0, <1>1, LeaveType, WorkerFrame DEF TypeOK, teslaVars
  <1>2. CASE Catch(w, g, "failed_retryable")
    <2>1. "failed_retryable" \in Status
      BY DEF Status
    <2> QED BY <1>0, <1>2, <2>1, CatchType, WorkerFrame DEF TypeOK, teslaVars
  <1> QED BY <1>1, <1>2 DEF Audit

LEMMA FinishType ==
  ASSUME TypeOK, NEW w \in Workers, NEW g \in Grants, Finish(w, g)
  PROVE  TypeOK'
  <1>0. UNCHANGED <<now, ownerVars, secret, teslaVars>>
    BY DEF Finish
  <1>1. CASE Leave(w, g) /\ UNCHANGED <<row, fresh, faults>>
    BY <1>0, <1>1, LeaveType, WorkerFrame DEF TypeOK, teslaVars
  <1>2. CASE Fault("db") /\ Catch(w, g, "failed_retryable")
    <2>1. "failed_retryable" \in Status
      BY DEF Status
    <2> QED BY <1>0, <1>2, <2>1, FaultType, CatchType, WorkerFrame
            DEF TypeOK, teslaVars
  <1> QED BY <1>1, <1>2 DEF Finish

LEMMA StartRevokeType ==
  ASSUME TypeOK, NEW w \in Workers, NEW g \in Grants, StartRevoke(w, g)
  PROVE  TypeOK'
  <1>0. UNCHANGED <<now, ownerVars, secret, teslaVars, faults>>
    BY DEF StartRevoke
  <1>1. CASE Park(w, g)
    BY <1>0, <1>1, ParkType, WorkerFrame DEF TypeOK, teslaVars
  <1>2. CASE /\ Write(g, [row[g] EXCEPT !.status = "revoking"], {})
             /\ Goto(w, g, "revoke")
             /\ UNCHANGED <<lock, mem>>
    <2>1. [row[g] EXCEPT !.status = "revoking"] \in Row
      BY RowOfGrant DEF Row, Status
    <2>2. row' \in [Grants -> Row] /\ fresh' \in SUBSET Jobs
      BY <1>2, <2>1, WriteType
    <2>3. pc' \in [Jobs -> PC]
      BY <1>2, GotoType DEF PC
    <2> QED BY <1>0, <1>2, <2>2, <2>3, WorkerFrame DEF TypeOK, teslaVars
  <1> QED BY <1>1, <1>2 DEF StartRevoke

LEMMA RevokeCallType ==
  ASSUME TypeOK, NEW w \in Workers, NEW g \in Grants, RevokeCall(w, g)
  PROVE  TypeOK'
  <1>0. /\ UNCHANGED <<now, ownerVars, secret, creator, known, drivers, inflight>>
        /\ open' \in SUBSET Invites
    BY DEF RevokeCall, TypeOK
  <1>1. CASE /\ Goto(w, g, "forget") \/ Goto(w, g, "drivers")
             /\ UNCHANGED <<row, fresh, lock, mem, faults>>
    <2>1. pc' \in [Jobs -> PC]
      BY <1>1, GotoType DEF PC
    <2> QED BY <1>0, <1>1, <2>1, WorkerFrame DEF TypeOK
  <1>2. ASSUME NEW s \in TeslaErrors, Catch(w, g, s), Fault("tesla")
        PROVE  TypeOK'
    BY <1>0, <1>2, FaultType, TeslaErrorsType, CatchType, WorkerFrame DEF TypeOK
  <1> QED BY <1>1, <1>2 DEF RevokeCall

LEMMA DropSecretType ==
  ASSUME TypeOK, NEW w \in Workers, NEW g \in Grants, DropSecret(w, g)
  PROVE  TypeOK'
  <1>1. pc' \in [Jobs -> PC]
    BY GotoType DEF DropSecret, PC
  <1>2. secret' \in [Grants -> Invites \cup {None}]
    BY DEF DropSecret, TypeOK
  <1> QED BY <1>1, <1>2, WorkerFrame DEF DropSecret, TypeOK, teslaVars

LEMMA RecordRevokedType ==
  ASSUME TypeOK, NEW w \in Workers, NEW g \in Grants, RecordRevoked(w, g)
  PROVE  TypeOK'
  <1>1. [row[g] EXCEPT !.status = "revoked", !.next = None] \in Row
    BY RowOfGrant DEF Row, Status
  <1>2. row' \in [Grants -> Row] /\ fresh' \in SUBSET Jobs
    BY <1>1, SetGrantType DEF RecordRevoked
  <1>3. pc' \in [Jobs -> PC]
    BY GotoType DEF RecordRevoked, PC
  <1> QED BY <1>2, <1>3, WorkerFrame DEF RecordRevoked, TypeOK, teslaVars

LEMMA ListDriversType ==
  ASSUME TypeOK, NEW w \in Workers, NEW g \in Grants, ListDrivers(w, g)
  PROVE  TypeOK'
  <1>0. UNCHANGED <<now, ownerVars, secret, teslaVars>>
    BY DEF ListDrivers
  <1>1. CASE /\ Goto(w, g, "remove")
             /\ UNCHANGED <<row, fresh, lock, mem, faults>>
    <2>1. pc' \in [Jobs -> PC]
      BY <1>1, GotoType DEF PC
    <2> QED BY <1>0, <1>1, <2>1, WorkerFrame DEF TypeOK, teslaVars
  <1>2. CASE ParkAndAudit(w, g, row[g]) /\ UNCHANGED faults
    BY <1>0, <1>2, RowOfGrant, ParkAndAuditType, WorkerFrame
       DEF TypeOK, teslaVars
  <1>3. ASSUME NEW s \in TeslaErrors, Catch(w, g, s), Fault("tesla")
        PROVE  TypeOK'
    BY <1>0, <1>3, FaultType, TeslaErrorsType, CatchType, WorkerFrame
       DEF TypeOK, teslaVars
  <1> QED BY <1>1, <1>2, <1>3 DEF ListDrivers

LEMMA RemoveDriverType ==
  ASSUME TypeOK, NEW w \in Workers, NEW g \in Grants, RemoveDriver(w, g)
  PROVE  TypeOK'
  <1>0. /\ UNCHANGED <<now, ownerVars, secret, open, creator, known, inflight>>
        /\ drivers' \in SUBSET Grants
    BY DEF RemoveDriver, TypeOK
  <1>1. CASE /\ Goto(w, g, "forget")
             /\ UNCHANGED <<row, fresh, lock, mem, faults>>
    <2>1. pc' \in [Jobs -> PC]
      BY <1>1, GotoType DEF PC
    <2> QED BY <1>0, <1>1, <2>1, WorkerFrame DEF TypeOK
  <1>2. ASSUME NEW s \in TeslaErrors, Catch(w, g, s), Fault("tesla")
        PROVE  TypeOK'
    BY <1>0, <1>2, FaultType, TeslaErrorsType, CatchType, WorkerFrame DEF TypeOK
  <1> QED BY <1>1, <1>2 DEF RemoveDriver

LEMMA CrashType ==
  ASSUME TypeOK, NEW w \in Workers, Crash(w)
  PROVE  TypeOK'
  <1>1. pc' \in [Jobs -> PC] /\ mem' \in [Jobs -> Mem]
    BY NoMemType DEF Crash, TypeOK, PC
  <1>2. lock' \in Jobs \cup {None} /\ fresh' \in SUBSET Jobs
    BY DEF Crash, TypeOK
  <1>3. inflight' \in SUBSET Grants /\ faults' \in Nat
    BY FaultType DEF Crash, TypeOK
  <1> QED BY <1>1, <1>2, <1>3, WorkerFrame DEF Crash, TypeOK

LEMMA LeaseLapsesType ==
  ASSUME TypeOK, NEW g \in Grants, LeaseLapses(g)
  PROVE  TypeOK'
  <1>1. [row[g] EXCEPT !.leased = FALSE] \in Row
    BY RowOfGrant DEF Row
  <1>2. row' \in [Grants -> Row]
    BY <1>1 DEF LeaseLapses, TypeOK
  <1> QED BY <1>2, WorkerFrame DEF LeaseLapses, TypeOK, jobVars, teslaVars

\* Owner decisions keep their counter a number.
LEMMA ChangeType ==
  ASSUME TypeOK, Change
  PROVE  changes' \in Nat
  BY DEF TypeOK, Change

LEMMA ResolveApplyType ==
  ASSUME TypeOK, NEW g \in Grants, NEW win \in Windows, ResolveApply(g, win)
  PROVE  TypeOK'
  <1> DEFINE old == row[g]
             st == IF old.status = "issuing" /\ old.pid = None
                   THEN "scheduled" ELSE old.status
             due == IF old.status \in Terminal THEN None
                    ELSE IF old.status \in {"scheduled", "issuing",
                              "failed_retryable", "reauth_required"}
                    THEN Later(now, win.issue) ELSE Later(now, win.revoke)
             moved == [old EXCEPT
               !.status = st, !.issue = win.issue, !.revoke = win.revoke,
               !.next = due, !.claimedBy = None, !.leased = FALSE]
  <1>0. st \in Status
    BY RowOfGrant DEF Row, Status
  <1>1. win.issue \in Nat /\ win.revoke \in Nat /\ due \in Nat \cup {None}
    BY WindowAssumption DEF Window, Later, TypeOK
  <1>2. Write(g, moved, {})
    BY DEF ResolveApply
  <1>3. moved \in Row
    <2> HIDE DEF due, st
    <2> QED BY <1>0, <1>1, RowOfGrant DEF Row
  <1>4. row' \in [Grants -> Row] /\ fresh' \in SUBSET Jobs
    BY <1>2, <1>3, WriteType
  <1> QED BY <1>4, ChangeType DEF ResolveApply, TypeOK, jobVars, teslaVars

LEMMA ResolveCancelType ==
  ASSUME TypeOK, NEW g \in Grants, ResolveCancel(g)
  PROVE  TypeOK'
  <1> DEFINE old == row[g]
             st == IF old.pid = None THEN "expired" ELSE old.status
             end == IF old.status \in Terminal THEN old.revoke
                    ELSE Later(now, old.issue + 1)
             due == IF old.status \in Terminal \/ old.pid = None
                    THEN None ELSE now
             r == [old EXCEPT !.status = st, !.revoke = end, !.next = due,
                              !.claimedBy = None, !.leased = FALSE]
  <1>1. st \in Status /\ end \in Nat /\ due \in Nat \cup {None}
    BY RowOfGrant DEF Later, TypeOK, Row, Status
  <1>2. r \in Row
    <2> HIDE DEF st, end, due
    <2> QED BY <1>1, RowOfGrant DEF Row
  <1>3. row' \in [Grants -> Row] /\ fresh' \in SUBSET Jobs
    BY <1>2, WriteType DEF ResolveCancel
  <1> QED BY <1>3, ChangeType DEF ResolveCancel, TypeOK, jobVars, teslaVars

LEMMA OwnerCancelType ==
  ASSUME TypeOK, NEW g \in Grants, OwnerCancel(g)
  PROVE  TypeOK'
  <1> DEFINE end == Earlier(row[g].revoke, now)
             st == IF row[g].pid = None THEN "expired" ELSE row[g].status
             due == IF row[g].pid = None THEN None ELSE now
  <1>0. row[g] \in Row
    BY RowOfGrant
  <1>a. now \in Nat /\ row[g].revoke \in Nat /\ row[g].status \in Status
    BY <1>0 DEF TypeOK, Row
  <1>1. end \in Nat /\ st \in Status /\ due \in Nat \cup {None}
    BY <1>a DEF Earlier, Status
  <1>2. CancelledRow(g) \in Row
    <2>1. CancelledRow(g) = [row[g] EXCEPT !.status = st, !.revoke = end,
                               !.next = due, !.claimedBy = None, !.leased = FALSE]
      BY DEF CancelledRow
    <2> HIDE DEF end, st, due
    <2> QED BY <1>0, <1>1, <2>1 DEF Row
  <1>3. row' \in [Grants -> Row] /\ fresh' \in SUBSET Jobs
    <2>1. CASE UNCHANGED <<row, fresh>>
      BY <2>1 DEF TypeOK
    <2>2. CASE Write(g, CancelledRow(g), {})
      BY <1>2, <2>2, WriteType
    <2> QED BY <2>1, <2>2 DEF OwnerCancel
  <1> QED BY <1>3, ChangeType DEF OwnerCancel, TypeOK, jobVars, teslaVars

LEMMA IntegrationType ==
  ASSUME TypeOK, IntegrationLost \/ Reconnect
  PROVE  TypeOK'
  BY ChangeType DEF IntegrationLost, Reconnect, TypeOK, jobVars, teslaVars

LEMMA GuestType ==
  ASSUME TypeOK, NEW g \in Grants, GuestStep(g)
  PROVE  TypeOK'
  <1>1. CASE Onboard(g)
    BY <1>1 DEF Onboard, TypeOK, jobVars, teslaVars
  <1>2. CASE GuestReads(g)
    <2>1. secret[g] \in Invites
      BY <1>2 DEF GuestReads, Readable, TypeOK
    <2>2. known' \in [Grants -> SUBSET Invites]
      BY <1>2, <2>1 DEF GuestReads, TypeOK
    <2> QED BY <1>2, <2>2 DEF GuestReads, TypeOK, ownerVars, jobVars
  <1>3. CASE GuestRedeems(g)
    BY <1>3 DEF GuestRedeems, TypeOK, ownerVars, jobVars
  <1> QED BY <1>1, <1>2, <1>3 DEF GuestStep

LEMMA ProviderType ==
  ASSUME TypeOK, \/ OwnerInvites \/ Tick \/ (\E g \in Grants : Land(g))
         \/ (\E i \in Invites : InviteLeaves(i))
  PROVE  TypeOK'
  <1>1. ASSUME NEW i \in Unused, NEW c \in Grants \cup {Owner}, Create(i, c)
        PROVE  /\ open' \in SUBSET Invites
               /\ creator' \in [Invites -> Grants \cup {Owner, None}]
    BY <1>1 DEF Unused, Create, TypeOK
  <1>2. CASE OwnerInvites
    BY <1>1, <1>2, FaultType DEF OwnerInvites, TypeOK, ownerVars, jobVars
  <1>3. CASE Tick
    BY <1>3 DEF Tick, TypeOK, ownerVars, jobVars, teslaVars
  <1>4. ASSUME NEW g \in Grants, Land(g)
        PROVE  TypeOK'
    BY <1>1, <1>4 DEF Land, TypeOK, ownerVars, jobVars
  <1>5. ASSUME NEW i \in Invites, InviteLeaves(i)
        PROVE  TypeOK'
    BY <1>5, FaultType DEF InviteLeaves, TypeOK, ownerVars, jobVars
  <1> QED BY <1>2, <1>3, <1>4, <1>5

-----------------------------------------------------------------------------
(* The lock.  A step of a job changes that job alone, and either leaves the *)
(* session, enters it with a free lock, or goes on inside it.               *)

\* The step enters the session.
Enters(w, g) ==
  /\ lock = None /\ lock' = <<w, g>>
  /\ \E l \in InSession : Goto(w, g, l)
  /\ mem' = mem

\* The step goes on inside the session, and may write down what it found.
GoesOn(w, g) ==
  /\ pc[<<w, g>>] \in InSession
  /\ \E l \in InSession : Goto(w, g, l)
  /\ lock' = lock
  /\ \E m \in Mem : mem' = [mem EXCEPT ![<<w, g>>] = m]

LEMMA GoesOnSame ==
  ASSUME TypeOK, NEW w \in Workers, NEW g \in Grants, NEW l \in InSession,
         pc[<<w, g>>] \in InSession, Goto(w, g, l), UNCHANGED <<lock, mem>>
  PROVE  GoesOn(w, g)
  <1>1. mem' = [mem EXCEPT ![<<w, g>>] = mem[<<w, g>>]]
    BY DEF TypeOK, Jobs
  <1> QED BY <1>1, MemOfJob DEF GoesOn

LEMMA JobShape ==
  ASSUME TypeOK, NEW w \in Workers, NEW g \in Grants, JobStep(w, g)
  PROVE  Leave(w, g) \/ Enters(w, g) \/ GoesOn(w, g)
  <1> USE DEF InSession, PC, At
  <1>1. CASE Begin(w, g)
    BY <1>1 DEF Begin, Enters
  <1>2. CASE ReadContext(w, g)
    <2> DEFINE m == [issuing |-> row[g].status = "issuing",
                     revoke |-> row[g].revoke, pid |-> row[g].pid,
                     saved |-> row[g].saved, before |-> row[g].before,
                     inv |-> None]
    <2>1. m \in Mem
      BY RowOfGrant DEF Row, Mem
    <2>2. Leave(w, g) \/ (/\ mem' = [mem EXCEPT ![<<w, g>>] = m]
                          /\ Goto(w, g, "refresh") /\ lock' = lock)
      BY <1>2 DEF ReadContext
    <2>3. pc[<<w, g>>] = "context"
      BY <1>2 DEF ReadContext
    <2> HIDE DEF m
    <2> QED BY <2>1, <2>2, <2>3 DEF GoesOn
  <1>3. CASE Refresh(w, g)
    BY <1>3, GoesOnSame DEF Refresh, Catch
  <1>4. CASE Before(w, g)
    <2> DEFINE m == [mem[<<w, g>>] EXCEPT !.before = open]
    <2>0. open \in SUBSET Invites
      BY DEF TypeOK
    <2>1. m \in Mem
      BY <2>0, MemOfJob DEF Mem
    <2>2. \/ Leave(w, g)
          \/ Goto(w, g, "after") /\ UNCHANGED <<lock, mem>>
          \/ /\ mem' = [mem EXCEPT ![<<w, g>>] = m]
             /\ Goto(w, g, "reserve") /\ lock' = lock
      BY <1>4 DEF Before, Park, Catch, TypeOK, Jobs
    <2>3. pc[<<w, g>>] = "before"
      BY <1>4 DEF Before
    <2> HIDE DEF m
    <2> QED BY <2>1, <2>2, <2>3, GoesOnSame DEF GoesOn
  <1>5. CASE Reserve(w, g)
    BY <1>5, GoesOnSame DEF Reserve
  <1>6. CASE PostOk(w, g)
    BY <1>6, GoesOnSame DEF PostOk
  <1>7. CASE PostFails(w, g)
    BY <1>7, GoesOnSame DEF PostFails, ParkAndAudit
  <1>8. CASE ListAfter(w, g)
    <2>1. ASSUME NEW i \in Invites, lock' = lock, Goto(w, g, "commit"),
                 mem' = [mem EXCEPT ![<<w, g>>] = [@ EXCEPT !.inv = i]]
          PROVE  GoesOn(w, g)
      <3> DEFINE m == [mem[<<w, g>>] EXCEPT !.inv = i]
      <3>1. m \in Mem
        BY MemOfJob DEF Mem
      <3>2. mem' = [mem EXCEPT ![<<w, g>>] = m]
        BY <2>1 DEF TypeOK, Jobs
      <3>3. pc[<<w, g>>] = "after"
        BY <1>8 DEF ListAfter
      <3> HIDE DEF m
      <3> QED BY <2>1, <3>1, <3>2, <3>3 DEF GoesOn
    <2>2. CASE \E r : ParkAndAudit(w, g, r)
      BY <1>8, <2>2, GoesOnSame DEF ListAfter, ParkAndAudit
    <2> QED BY <1>8, <2>1, <2>2 DEF ListAfter
  <1>9. CASE Commit(w, g)
    BY <1>9, GoesOnSame DEF Commit, Catch
  <1>10. CASE Supersede(w, g)
    BY <1>10, GoesOnSame DEF Supersede
  <1>11. CASE Audit(w, g)
    BY <1>11 DEF Audit, Catch
  <1>12. CASE StartRevoke(w, g)
    BY <1>12, GoesOnSame DEF StartRevoke, Park
  <1>13. CASE RevokeCall(w, g)
    BY <1>13, GoesOnSame DEF RevokeCall, Catch
  <1>14. CASE DropSecret(w, g) \/ RecordRevoked(w, g)
    BY <1>14, GoesOnSame DEF DropSecret, RecordRevoked
  <1>15. CASE ListDrivers(w, g)
    BY <1>15, GoesOnSame DEF ListDrivers, ParkAndAudit, Catch
  <1>16. CASE RemoveDriver(w, g)
    BY <1>16, GoesOnSame DEF RemoveDriver, Catch
  <1>17. CASE Finish(w, g)
    BY <1>17 DEF Finish, Catch
  <1> QED BY <1>1, <1>2, <1>3, <1>4, <1>5, <1>6, <1>7, <1>8, <1>9, <1>10,
             <1>11, <1>12, <1>13, <1>14, <1>15, <1>16, <1>17
          DEF JobStep, IssueStep, RevokeStep

\* Steps of anybody else but a worker's own leave the jobs alone.
LEMMA OtherSteps ==
  ASSUME NEW g \in Grants, OwnerStep(g) \/ GuestStep(g) \/ LeaseLapses(g) \/ Land(g)
  PROVE  UNCHANGED jobVars
  BY DEF OwnerStep, ResolveApply, ResolveCancel, OwnerCancel, GuestStep,
         Onboard, GuestReads, GuestRedeems, LeaseLapses, Land, jobVars

LEMMA EnvironmentSteps ==
  ASSUME \/ OwnerInvites \/ IntegrationLost \/ Reconnect \/ Tick
         \/ \E i \in Invites : InviteLeaves(i)
  PROVE  UNCHANGED jobVars
  BY DEF OwnerInvites, IntegrationLost, Reconnect, Tick, InviteLeaves, jobVars

LEMMA SessionJobStep ==
  ASSUME TypeOK, SessionExclusive, NEW w \in Workers, NEW g \in Grants,
         JobStep(w, g)
  PROVE  SessionExclusive'
  <1> USE DEF SessionExclusive, TypeOK, Goto, InSession
  <1>0. <<w, g>> \in Jobs /\ None \notin Jobs
    BY NullAssumption DEF Jobs
  <1>1. CASE Leave(w, g)
    <2> SUFFICES ASSUME NEW j \in Jobs
                 PROVE  pc'[j] \in PC \ {"idle", "queued"} <=> lock' = j
      BY DEF SessionExclusive
    <2>1. CASE j = <<w, g>>
      BY <1>0, <1>1, <2>1 DEF Leave
    <2>2. CASE j # <<w, g>>
      BY <1>0, <1>1, <2>2 DEF Leave
    <2> QED BY <2>1, <2>2
  <1>2. CASE Enters(w, g)
    BY <1>0, <1>2 DEF Enters
  <1>3. CASE GoesOn(w, g)
    BY <1>0, <1>3 DEF GoesOn
  <1> QED BY <1>1, <1>2, <1>3, JobShape

LEMMA SessionStep ==
  ASSUME TypeOK, SessionExclusive, [Next]_vars
  PROVE  SessionExclusive'
  <1>1. ASSUME NEW w \in Workers, Claim(w)
        PROVE  SessionExclusive'
    <2> SUFFICES ASSUME NEW j \in Jobs
                 PROVE  pc'[j] \in InSession <=> pc[j] \in InSession
      BY <1>1 DEF SessionExclusive, Claim
    <2>1. CASE j[1] = w
      <3>1. j = <<w, j[2]>> /\ j[2] \in Grants
        BY <2>1 DEF Jobs
      <3>2. pc[j] = "idle"
        BY <1>1, <3>1 DEF Claim, At
      <3>3. pc'[j] \in {"idle", "queued"}
        BY <1>1, <3>2 DEF Claim, TypeOK
      <3> QED BY <3>2, <3>3 DEF InSession
    <2>2. CASE j[1] # w
      BY <1>1, <2>2 DEF Claim, TypeOK
    <2> QED BY <2>1, <2>2
  <1>2. ASSUME NEW w \in Workers, Crash(w)
        PROVE  SessionExclusive'
    <2> SUFFICES ASSUME NEW j \in Jobs
                 PROVE  pc'[j] \in InSession <=> lock' = j
      BY DEF SessionExclusive
    <2>1. CASE j[1] = w
      BY <1>2, <2>1, NullAssumption
         DEF Crash, SessionExclusive, TypeOK, InSession, Jobs
    <2>2. CASE j[1] # w
      BY <1>2, <2>2, NullAssumption DEF Crash, SessionExclusive, TypeOK, Jobs
    <2> QED BY <2>1, <2>2
  <1>3. ASSUME NEW w \in Workers, NEW g \in Grants, JobStep(w, g)
        PROVE  SessionExclusive'
    BY <1>3, SessionJobStep
  <1>4. CASE UNCHANGED jobVars
    BY <1>4 DEF jobVars, SessionExclusive
  <1>5. CASE UNCHANGED vars
    BY <1>4, <1>5 DEF vars, jobVars
  <1> QED BY <1>1, <1>2, <1>3, <1>4, <1>5, OtherSteps, EnvironmentSteps DEF Next

\* What the session finds is only found inside it.
LEMMA FoundStep ==
  ASSUME TypeOK, FoundOK, [Next]_vars
  PROVE  FoundOK'
  <1>1. ASSUME NEW w \in Workers, Claim(w)
        PROVE  FoundOK'
    BY <1>1 DEF FoundOK, Claim, TypeOK
  <1>2. ASSUME NEW w \in Workers, Crash(w)
        PROVE  FoundOK'
    BY <1>2 DEF FoundOK, Crash, TypeOK
  <1>3. ASSUME NEW w \in Workers, NEW g \in Grants, JobStep(w, g)
        PROVE  FoundOK'
    <2>0. <<w, g>> \in Jobs
      BY DEF Jobs
    <2>1. \A j \in Jobs : j # <<w, g>> => pc'[j] = pc[j] /\ mem'[j] = mem[j]
      <3> USE DEF Goto, TypeOK
      <3>1. CASE Leave(w, g)
        BY <3>1 DEF Leave
      <3>2. CASE Enters(w, g)
        BY <3>2 DEF Enters
      <3>3. CASE GoesOn(w, g)
        BY <3>3 DEF GoesOn
      <3> QED BY <1>3, <3>1, <3>2, <3>3, JobShape
    <2>2. pc'[<<w, g>>] \in {"commit", "supersede"} =>
            mem'[<<w, g>>].inv \in Invites
      <3> USE <2>0 DEF Goto, Leave, TypeOK
      <3>1. CASE ListAfter(w, g)
        <4>1. ASSUME NEW i \in Invites,
                     mem' = [mem EXCEPT ![<<w, g>>] = [@ EXCEPT !.inv = i]]
              PROVE  mem'[<<w, g>>].inv = i
          <5>1. mem'[<<w, g>>] = [mem[<<w, g>>] EXCEPT !.inv = i]
            BY <4>1
          <5>2. mem[<<w, g>>] \in Mem
            BY MemOfJob
          <5> QED BY <5>1, <5>2 DEF Mem
        <4>2. \/ \E i \in Invites :
                  mem' = [mem EXCEPT ![<<w, g>>] = [@ EXCEPT !.inv = i]]
              \/ pc'[<<w, g>>] \in {"finish", "idle"}
          BY <3>1 DEF ListAfter, ParkAndAudit
        <4> QED BY <4>1, <4>2
      <3>2. CASE Commit(w, g)
        BY <3>2 DEF Commit, Catch, At, FoundOK
      <3>3. CASE Begin(w, g) \/ ReadContext(w, g) \/ Refresh(w, g)
        BY <3>3 DEF Begin, ReadContext, Refresh, Catch
      <3>4. CASE Before(w, g) \/ Reserve(w, g) \/ PostOk(w, g) \/ PostFails(w, g)
        BY <3>4 DEF Before, Reserve, PostOk, PostFails, Park, ParkAndAudit, Catch
      <3>5. CASE Supersede(w, g) \/ Audit(w, g) \/ Finish(w, g)
        BY <3>5 DEF Supersede, Audit, Finish, Catch
      <3>6. CASE RevokeStep(w, g)
        BY <3>6 DEF RevokeStep, StartRevoke, RevokeCall, DropSecret, RecordRevoked,
                    ListDrivers, RemoveDriver, Park, ParkAndAudit, Catch
      <3> QED BY <1>3, <3>1, <3>2, <3>3, <3>4, <3>5, <3>6
              DEF JobStep, IssueStep
    <2> QED BY <2>0, <2>1, <2>2 DEF FoundOK
  <1>4. CASE UNCHANGED jobVars
    BY <1>4 DEF jobVars, FoundOK
  <1>5. CASE UNCHANGED vars
    BY <1>4, <1>5 DEF vars, jobVars
  <1> QED BY <1>1, <1>2, <1>3, <1>4, <1>5, OtherSteps, EnvironmentSteps DEF Next

-----------------------------------------------------------------------------
(* The first two theorems.                                                 *)

LEMMA TypeStep ==
  ASSUME TypeOK, FoundOK, [Next]_vars
  PROVE  TypeOK'
  <1>1. ASSUME NEW w \in Workers, NEW g \in Grants, JobStep(w, g)
        PROVE  TypeOK'
    BY <1>1, BeginType, ReadContextType, RefreshType, BeforeType, ReserveType,
       PostOkType, PostFailsType, ListAfterType, CommitType, SupersedeType,
       AuditType, FinishType, StartRevokeType, RevokeCallType,
       DropSecretType, RecordRevokedType, ListDriversType, RemoveDriverType
       DEF JobStep, IssueStep, RevokeStep
  <1>2. ASSUME NEW w \in Workers, Claim(w) \/ Crash(w)
        PROVE  TypeOK'
    BY <1>2, ClaimType, CrashType
  <1>3. ASSUME NEW g \in Grants,
               OwnerStep(g) \/ GuestStep(g) \/ LeaseLapses(g)
        PROVE  TypeOK'
    BY <1>3, ResolveApplyType, ResolveCancelType, OwnerCancelType, GuestType,
       LeaseLapsesType DEF OwnerStep
  <1>4. CASE UNCHANGED vars
    BY <1>4 DEF vars, ownerVars, teslaVars, jobVars, TypeOK
  <1> QED BY <1>1, <1>2, <1>3, <1>4, ProviderType, IntegrationType DEF Next

LEMMA InitJobs == Init => TypeOK /\ FoundOK /\ SessionExclusive
  <1> SUFFICES ASSUME Init PROVE TypeOK /\ FoundOK /\ SessionExclusive
    OBVIOUS
  <1>1. TypeOK
    BY NewRowType, NoMemType DEF Init, TypeOK, PC
  <1>2. FoundOK /\ SessionExclusive
    BY NullAssumption DEF Init, FoundOK, SessionExclusive, InSession
  <1> QED BY <1>1, <1>2

\* Every reachable state of every instance is well typed.
THEOREM TypeCorrect == Spec => []TypeOK
  <1>1. TypeOK /\ FoundOK /\ [Next]_vars => (TypeOK /\ FoundOK)'
    BY TypeStep, FoundStep
  <1> QED BY <1>1, InitJobs, PTL DEF Spec

\* However many workers run, however their claims lapse and whichever of them
\* crash, at most one job talks to Tesla, and it holds the integration's lock.
THEOREM SessionsExclude == Spec => []SessionExclusive
  <1>1. SessionExclusive /\ TypeOK /\ [Next]_vars => SessionExclusive'
    BY SessionStep
  <1> QED BY <1>1, InitJobs, TypeCorrect, PTL DEF Spec

-----------------------------------------------------------------------------
(* Rows.  Nearly all steps keep the provider's id and the before-set and   *)
(* never write 'invite_ready', 'issuing' or 'revoked', and keep the secret; *)
(* the six that do not are looked at one by one.                           *)

Quiet == Status \ {"invite_ready", "issuing", "revoked"}

Keeps(g) ==
  /\ row'[g].pid = row[g].pid
  /\ row'[g].saved = row[g].saved
  /\ row'[g].before = row[g].before
  /\ row'[g].status = row[g].status \/ row'[g].status \in Quiet

KeepsAll == \A g \in Grants : Keeps(g)

LEMMA SameKeeps ==
  ASSUME UNCHANGED row
  PROVE  KeepsAll
  BY DEF KeepsAll, Keeps

LEMMA WriteKeeps ==
  ASSUME TypeOK, NEW g \in Grants, NEW r \in Row, NEW keep,
         r.pid = row[g].pid, r.saved = row[g].saved,
         r.before = row[g].before,
         r.status = row[g].status \/ r.status \in Quiet,
         Write(g, r, keep)
  PROVE  KeepsAll
  BY DEF TypeOK, Write, KeepsAll, Keeps

LEMMA SetGrantFields ==
  ASSUME TypeOK, NEW g \in Grants, NEW r \in Row, SetGrant(g, r)
  PROVE  /\ row'[g].pid = r.pid
         /\ row'[g].saved = r.saved
         /\ row'[g].before = r.before
         /\ row'[g].next = r.next
         /\ row'[g].status = r.status
         /\ \A h \in Grants : h # g => row'[h] = row[h]
  <1> DEFINE s == [r EXCEPT !.claimedBy = None, !.leased = FALSE]
  <1>1. /\ s.pid = r.pid /\ s.saved = r.saved /\ s.before = r.before
        /\ s.next = r.next /\ s.status = r.status
    BY DEF Row
  <1>2. row' = [row EXCEPT ![g] = s]
    BY DEF SetGrant, Write
  <1> HIDE DEF s
  <1> QED BY <1>1, <1>2 DEF TypeOK

LEMMA SetGrantKeeps ==
  ASSUME TypeOK, NEW g \in Grants, NEW r \in Row,
         r.pid = row[g].pid, r.saved = row[g].saved,
         r.before = row[g].before,
         r.status = row[g].status \/ r.status \in Quiet,
         SetGrant(g, r)
  PROVE  KeepsAll
  BY SetGrantFields DEF KeepsAll, Keeps

LEMMA CatchKeeps ==
  ASSUME TypeOK, NEW w \in Workers, NEW g \in Grants, NEW s \in Quiet,
         Catch(w, g, s)
  PROVE  KeepsAll
  <1> DEFINE n == IF s = "failed_retryable" THEN now ELSE None
             r == [row[g] EXCEPT !.status = s, !.next = n]
  <1>1. n \in Nat \cup {None} /\ s \in Status
    BY DEF TypeOK, Quiet
  <1>2. SetGrant(g, r)
    BY DEF Catch
  <1>3. /\ r \in Row /\ r.pid = row[g].pid /\ r.saved = row[g].saved
        /\ r.before = row[g].before
        /\ r.status = s
    <2> HIDE DEF n
    <2> QED BY <1>1, RowOfGrant DEF Row
  <1> HIDE DEF r
  <1> QED BY <1>2, <1>3, SetGrantKeeps

LEMMA ParkedFields ==
  ASSUME NEW r \in Row
  PROVE  /\ Parked(r).pid = r.pid /\ Parked(r).saved = r.saved
         /\ Parked(r).before = r.before
         /\ Parked(r).status = "manual_review"
  BY DEF Parked, Row

LEMMA ParkKeeps ==
  ASSUME TypeOK, NEW w \in Workers, NEW g \in Grants,
         Park(w, g) \/ ParkAndAudit(w, g, row[g])
  PROVE  KeepsAll
  <1>1. SetGrant(g, Parked(row[g]))
    BY DEF Park, ParkAndAudit
  <1>2. "manual_review" \in Quiet
    BY DEF Quiet, Status
  <1> QED BY <1>1, <1>2, RowOfGrant, ParkedType, ParkedFields, SetGrantKeeps

\* The statuses a failed request to Tesla leaves behind.
LEMMA QuietErrors ==
  /\ TeslaErrors \subseteq Quiet
  /\ {"failed_retryable", "reauth_required"} \subseteq Quiet
  BY DEF TeslaErrors, Quiet, Status

LEMMA BeginKeeps ==
  ASSUME TypeOK, NEW w \in Workers, NEW g \in Grants,
         Begin(w, g) \/ ReadContext(w, g)
  PROVE  KeepsAll
  <1> DEFINE r == [row[g] EXCEPT !.status = "reauth_required", !.next = None]
             q == [row[g] EXCEPT !.next = now]
  <1>1. /\ r \in Row /\ r.pid = row[g].pid /\ r.saved = row[g].saved
        /\ r.before = row[g].before
        /\ r.status \in Quiet
    BY RowOfGrant DEF Row, Status, Quiet
  <1>2. now \in Nat
    BY DEF TypeOK
  <1>3. /\ q \in Row /\ q.pid = row[g].pid /\ q.saved = row[g].saved
        /\ q.before = row[g].before
        /\ q.status = row[g].status
    BY <1>2, RowOfGrant DEF Row
  <1>4. SetGrant(g, r) \/ SetGrant(g, q) \/ UNCHANGED row
    BY DEF Begin, ReadContext
  <1> HIDE DEF r, q
  <1> QED BY <1>1, <1>3, <1>4, SetGrantKeeps, SameKeeps

LEMMA IssueKeeps ==
  ASSUME TypeOK, NEW w \in Workers, NEW g \in Grants,
         \/ Refresh(w, g) \/ Before(w, g) \/ PostOk(w, g) \/ PostFails(w, g)
         \/ Audit(w, g) \/ Finish(w, g)
  PROVE  KeepsAll
  <1>1. \/ UNCHANGED row
        \/ \E s \in Quiet : Catch(w, g, s)
        \/ Park(w, g) \/ ParkAndAudit(w, g, row[g])
    BY QuietErrors DEF Refresh, Before, PostOk, PostFails, Audit, Finish
  <1> QED BY <1>1, SameKeeps, CatchKeeps, ParkKeeps

LEMMA RevokeKeeps ==
  ASSUME TypeOK, NEW w \in Workers, NEW g \in Grants,
         \/ StartRevoke(w, g) \/ RevokeCall(w, g) \/ ListDrivers(w, g)
         \/ RemoveDriver(w, g)
  PROVE  KeepsAll
  <1> DEFINE r == [row[g] EXCEPT !.status = "revoking"]
  <1>1. \/ UNCHANGED row
        \/ \E s \in Quiet : Catch(w, g, s)
        \/ Park(w, g) \/ ParkAndAudit(w, g, row[g])
        \/ Write(g, r, {})
    BY QuietErrors DEF StartRevoke, RevokeCall, ListDrivers, RemoveDriver
  <1>2. /\ r \in Row /\ r.pid = row[g].pid /\ r.saved = row[g].saved
        /\ r.before = row[g].before
        /\ r.status \in Quiet
    BY RowOfGrant DEF Row, Status, Quiet
  <1> HIDE DEF r
  <1> QED BY <1>1, <1>2, SameKeeps, CatchKeeps, ParkKeeps, WriteKeeps

LEMMA ClaimKeeps ==
  ASSUME TypeOK, NEW w \in Workers, Claim(w)
  PROVE  KeepsAll
  <1> SUFFICES ASSUME NEW g \in Grants
               PROVE  Keeps(g)
    BY DEF KeepsAll
  <1> DEFINE r == [row[g] EXCEPT !.claimedBy = w, !.leased = TRUE]
  <1>1. /\ r.pid = row[g].pid /\ r.saved = row[g].saved /\ r.before = row[g].before
        /\ r.status = row[g].status
    BY RowOfGrant DEF Row
  <1>2. row'[g] = r \/ row'[g] = row[g]
    BY DEF Claim
  <1> HIDE DEF r
  <1> QED BY <1>1, <1>2 DEF Keeps

LEMMA LeaseKeeps ==
  ASSUME TypeOK, NEW g \in Grants, LeaseLapses(g)
  PROVE  KeepsAll
  <1> DEFINE r == [row[g] EXCEPT !.leased = FALSE]
  <1>1. /\ r.pid = row[g].pid /\ r.saved = row[g].saved /\ r.before = row[g].before
        /\ r.status = row[g].status
    BY RowOfGrant DEF Row
  <1>2. row' = [row EXCEPT ![g] = r]
    BY DEF LeaseLapses, TypeOK
  <1> HIDE DEF r
  <1> QED BY <1>1, <1>2 DEF KeepsAll, Keeps, TypeOK

LEMMA OwnerKeeps ==
  ASSUME TypeOK, NEW g \in Grants, OwnerStep(g)
  PROVE  KeepsAll
  <1> DEFINE old == row[g]
  <1>0. old \in Row /\ {"scheduled", "expired"} \subseteq Quiet
    BY RowOfGrant DEF Quiet, Status
  <1>1. ASSUME NEW st, NEW i, NEW v, NEW n,
               st = old.status \/ st \in Quiet,
               Write(g, [old EXCEPT !.status = st, !.issue = i, !.revoke = v,
                           !.next = n, !.claimedBy = None, !.leased = FALSE],
                     {})
        PROVE  KeepsAll
    <2> DEFINE r == [old EXCEPT !.status = st, !.issue = i, !.revoke = v,
                       !.next = n, !.claimedBy = None, !.leased = FALSE]
    <2>1. /\ r.pid = old.pid /\ r.saved = old.saved /\ r.before = old.before
          /\ r.status = st
      BY <1>0 DEF Row
    <2>2. row' = [row EXCEPT ![g] = r]
      BY <1>1 DEF Write
    <2> HIDE DEF r
    <2> QED BY <1>1, <2>1, <2>2 DEF KeepsAll, Keeps, TypeOK
  <1>2. ASSUME NEW st, NEW v, NEW n,
               st = old.status \/ st \in Quiet,
               Write(g, [old EXCEPT !.status = st, !.revoke = v, !.next = n,
                           !.claimedBy = None, !.leased = FALSE], {})
        PROVE  KeepsAll
    <2> DEFINE r == [old EXCEPT !.status = st, !.revoke = v, !.next = n,
                       !.claimedBy = None, !.leased = FALSE]
    <2>1. /\ r.pid = old.pid /\ r.saved = old.saved /\ r.before = old.before
          /\ r.status = st
      BY <1>0 DEF Row
    <2>2. row' = [row EXCEPT ![g] = r]
      BY <1>2 DEF Write
    <2> HIDE DEF r
    <2> QED BY <1>2, <2>1, <2>2 DEF KeepsAll, Keeps, TypeOK
  <1>3. ASSUME NEW win \in Windows, ResolveApply(g, win)
        PROVE  KeepsAll
    <2> DEFINE st == IF old.status = "issuing" /\ old.pid = None
                     THEN "scheduled" ELSE old.status
               n == IF old.status \in Terminal THEN None
                    ELSE IF old.status \in {"scheduled", "issuing",
                              "failed_retryable", "reauth_required"}
                    THEN Later(now, win.issue) ELSE Later(now, win.revoke)
    <2>1. Write(g, [old EXCEPT !.status = st, !.issue = win.issue,
                      !.revoke = win.revoke, !.next = n, !.claimedBy = None,
                      !.leased = FALSE], {})
      BY <1>3 DEF ResolveApply
    <2>2. st = old.status \/ st \in Quiet
      BY <1>0
    <2> HIDE DEF st, n
    <2> QED BY <1>1, <2>1, <2>2
  <1>4. CASE ResolveCancel(g)
    <2> DEFINE st == IF old.pid = None THEN "expired" ELSE old.status
               v == IF old.status \in Terminal THEN old.revoke
                    ELSE Later(now, old.issue + 1)
               n == IF old.status \in Terminal \/ old.pid = None
                    THEN None ELSE now
    <2>1. Write(g, [old EXCEPT !.status = st, !.revoke = v, !.next = n,
                      !.claimedBy = None, !.leased = FALSE], {})
      BY <1>4 DEF ResolveCancel
    <2>2. st = old.status \/ st \in Quiet
      BY <1>0
    <2> HIDE DEF st, v, n
    <2> QED BY <1>2, <2>1, <2>2
  <1>5. CASE OwnerCancel(g)
    <2>1. CASE UNCHANGED row
      BY <2>1, SameKeeps
    <2>2. CASE Write(g, CancelledRow(g), {})
      BY <1>0, <1>2, <2>2 DEF CancelledRow
    <2> QED BY <1>5, <2>1, <2>2 DEF OwnerCancel
  <1> QED BY <1>3, <1>4, <1>5 DEF OwnerStep

\* The six steps that may do more than that.
Special(w, g) ==
  \/ Reserve(w, g) \/ ListAfter(w, g) \/ Commit(w, g) \/ Supersede(w, g)
  \/ DropSecret(w, g) \/ RecordRevoked(w, g)

LEMMA OthersKeep ==
  ASSUME TypeOK, [Next]_vars,
         \A w \in Workers, g \in Grants : ~Special(w, g)
  PROVE  KeepsAll /\ UNCHANGED secret
  <1>1. ASSUME NEW w \in Workers, NEW g \in Grants, JobStep(w, g)
        PROVE  KeepsAll /\ UNCHANGED secret
    <2>1. \/ Begin(w, g) \/ ReadContext(w, g)
          \/ Refresh(w, g) \/ Before(w, g) \/ PostOk(w, g) \/ PostFails(w, g)
          \/ Audit(w, g) \/ Finish(w, g)
          \/ StartRevoke(w, g) \/ RevokeCall(w, g) \/ ListDrivers(w, g)
          \/ RemoveDriver(w, g)
      BY <1>1 DEF JobStep, IssueStep, RevokeStep, Special
    <2>2. UNCHANGED secret
      BY <2>1 DEF Begin, ReadContext, Refresh, Before, PostOk, PostFails,
                  Audit, Finish, StartRevoke, RevokeCall, ListDrivers,
                  RemoveDriver
    <2> QED BY <2>1, <2>2, BeginKeeps, IssueKeeps, RevokeKeeps
  <1>2. ASSUME NEW w \in Workers, Claim(w) \/ Crash(w)
        PROVE  KeepsAll /\ UNCHANGED secret
    BY <1>2, ClaimKeeps, SameKeeps DEF Claim, Crash
  <1>3. ASSUME NEW g \in Grants,
               OwnerStep(g) \/ GuestStep(g) \/ LeaseLapses(g) \/ Land(g)
        PROVE  KeepsAll /\ UNCHANGED secret
    <2>1. UNCHANGED secret
      BY <1>3 DEF OwnerStep, ResolveApply, ResolveCancel, OwnerCancel,
                  GuestStep, Onboard, GuestReads, GuestRedeems, LeaseLapses,
                  Land
    <2>2. CASE GuestStep(g) \/ Land(g)
      BY <2>2, SameKeeps DEF GuestStep, Onboard, GuestReads, GuestRedeems, Land
    <2> QED BY <1>3, <2>1, <2>2, OwnerKeeps, LeaseKeeps
  <1>4. CASE \/ OwnerInvites \/ IntegrationLost \/ Reconnect \/ Tick
             \/ (\E i \in Invites : InviteLeaves(i)) \/ UNCHANGED vars
    BY <1>4, SameKeeps DEF OwnerInvites, IntegrationLost, Reconnect, Tick,
                           InviteLeaves, vars
  <1> QED BY <1>1, <1>2, <1>3, <1>4 DEF Next

-----------------------------------------------------------------------------
(* The six special steps.                                                  *)

\* No other grant's row changes.
OthersSame(g) == \A h \in Grants : h # g => row'[h] = row[h]

LEMMA ReserveRow ==
  ASSUME TypeOK, NEW w \in Workers, NEW g \in Grants, Reserve(w, g)
  PROVE  /\ UNCHANGED secret
         /\ \/ KeepsAll /\ UNCHANGED row /\ pc'[<<w, g>>] = "idle"
            \/ /\ OthersSame(g)
               /\ row'[g].status = "issuing"
               /\ row'[g].saved = TRUE
               /\ row'[g].before = mem[<<w, g>>].before
               /\ row'[g].pid = row[g].pid
  <1> DEFINE r == [row[g] EXCEPT !.status = "issuing", !.saved = TRUE,
                     !.before = mem[<<w, g>>].before, !.next = now]
  <1>1. CASE Fenced(w, g)
    <2>1. /\ r.status = "issuing" /\ r.saved = TRUE /\ r.pid = row[g].pid
          /\ r.before = mem[<<w, g>>].before
      BY RowOfGrant DEF Row
    <2>2. row' = [row EXCEPT ![g] = r] /\ UNCHANGED secret
      BY <1>1 DEF Reserve, Write
    <2> HIDE DEF r
    <2> QED BY <2>1, <2>2 DEF OthersSame, TypeOK
  <1>2. CASE ~Fenced(w, g)
    BY <1>2, SameKeeps DEF Reserve, Leave, Goto, TypeOK, Jobs
  <1> QED BY <1>1, <1>2

LEMMA ListAfterRow ==
  ASSUME TypeOK, NEW w \in Workers, NEW g \in Grants, ListAfter(w, g)
  PROVE  /\ UNCHANGED secret
         /\ \/ KeepsAll
            \/ /\ OthersSame(g)
               /\ row'[g].status = "manual_review"
               /\ row'[g].saved = row[g].saved
               /\ row'[g].before = row[g].before
               /\ row'[g].pid \in open
               /\ Candidates(w, g) = {row'[g].pid}
            \/ /\ OthersSame(g)
               /\ row'[g].status = "issuing"
               /\ row'[g].saved = row[g].saved
               /\ row'[g].before = row[g].before
               /\ row'[g].pid = row[g].pid
  <1>0. UNCHANGED secret
    BY DEF ListAfter
  <1>1. ASSUME NEW i \in Invites, Candidates(w, g) = {i},
               ParkAndAudit(w, g, [row[g] EXCEPT !.pid = i])
        PROVE  /\ OthersSame(g)
               /\ row'[g].status = "manual_review"
               /\ row'[g].saved = row[g].saved
               /\ row'[g].before = row[g].before
               /\ row'[g].pid \in open
               /\ Candidates(w, g) = {row'[g].pid}
    <2> DEFINE r == [row[g] EXCEPT !.pid = i]
    <2>1. /\ r \in Row /\ r.pid = i /\ r.saved = row[g].saved
          /\ r.before = row[g].before
      BY RowOfGrant DEF Row
    <2>2. SetGrant(g, Parked(r))
      BY <1>1 DEF ParkAndAudit
    <2>3. i \in open
      BY <1>1 DEF Candidates
    <2> HIDE DEF r
    <2> QED BY <1>1, <2>1, <2>2, <2>3, ParkedType, ParkedFields, SetGrantFields
            DEF OthersSame
  <1>2. CASE SetGrant(g, [row[g] EXCEPT !.status = "issuing", !.next = now])
    <2> DEFINE r == [row[g] EXCEPT !.status = "issuing", !.next = now]
    <2>0. now \in Nat
      BY DEF TypeOK
    <2>1. /\ r \in Row /\ r.pid = row[g].pid /\ r.saved = row[g].saved
          /\ r.before = row[g].before
          /\ r.status = "issuing"
      BY <2>0, RowOfGrant DEF Row, Status
    <2>2. SetGrant(g, r)
      BY <1>2
    <2> HIDE DEF r
    <2> QED BY <1>0, <2>1, <2>2, SetGrantFields DEF OthersSame
  <1>3. CASE UNCHANGED row
    BY <1>0, <1>3, SameKeeps
  <1>4. CASE ParkAndAudit(w, g, row[g])
    BY <1>0, <1>4, ParkKeeps
  <1> QED BY <1>0, <1>1, <1>2, <1>3, <1>4 DEF ListAfter

LEMMA CommitRow ==
  ASSUME TypeOK, NEW w \in Workers, NEW g \in Grants, Commit(w, g)
  PROVE  \/ KeepsAll /\ UNCHANGED secret
         \/ /\ OthersSame(g)
            /\ CommitGuard(w, g)
            /\ row'[g].status = "invite_ready"
            /\ row'[g].pid = mem[<<w, g>>].inv
            /\ row'[g].before = {}
            /\ secret' = [secret EXCEPT ![g] = mem[<<w, g>>].inv]
  <1>1. ASSUME CommitGuard(w, g), Write(g, ReadyRow(g, mem[<<w, g>>].inv), {}),
               secret' = [secret EXCEPT ![g] = mem[<<w, g>>].inv]
        PROVE  /\ OthersSame(g)
               /\ row'[g].status = "invite_ready"
               /\ row'[g].pid = mem[<<w, g>>].inv
               /\ row'[g].before = {}
    <2> DEFINE r == ReadyRow(g, mem[<<w, g>>].inv)
    <2>1. /\ r.status = "invite_ready" /\ r.pid = mem[<<w, g>>].inv
          /\ r.before = {}
      BY RowOfGrant DEF ReadyRow, Row
    <2>2. row' = [row EXCEPT ![g] = r]
      BY <1>1 DEF Write
    <2> HIDE DEF r
    <2> QED BY <2>1, <2>2 DEF OthersSame, TypeOK
  <1>2. CASE Catch(w, g, "failed_retryable") /\ UNCHANGED secret
    BY <1>2, QuietErrors, CatchKeeps
  <1>3. CASE UNCHANGED <<row, secret>>
    BY <1>3, SameKeeps
  <1> QED BY <1>1, <1>2, <1>3 DEF Commit

LEMMA SupersedeRow ==
  ASSUME TypeOK, FoundOK, NEW w \in Workers, NEW g \in Grants, Supersede(w, g)
  PROVE  /\ UNCHANGED secret
         /\ \/ KeepsAll
            \/ /\ OthersSame(g)
               /\ row'[g].status = "manual_review"
               /\ row'[g].saved = row[g].saved
               /\ row'[g].before = row[g].before
               /\ row'[g].pid = mem[<<w, g>>].inv
  <1> DEFINE i == mem[<<w, g>>].inv
             r == [row[g] EXCEPT !.pid = i]
  <1>0. UNCHANGED secret /\ i \in Invites
    BY DEF Supersede, FoundOK, At, Jobs
  <1>1. CASE UNCHANGED row
    BY <1>0, <1>1, SameKeeps
  <1>2. CASE SetGrant(g, Parked(r))
    <2>1. /\ r \in Row /\ r.pid = i /\ r.saved = row[g].saved
          /\ r.before = row[g].before
      BY <1>0, RowOfGrant DEF Row
    <2> HIDE DEF r
    <2> QED BY <1>0, <1>2, <2>1, ParkedType, ParkedFields, SetGrantFields
            DEF OthersSame
  <1> QED BY <1>1, <1>2 DEF Supersede

LEMMA DropSecretRow ==
  ASSUME TypeOK, NEW w \in Workers, NEW g \in Grants, DropSecret(w, g)
  PROVE  /\ KeepsAll
         /\ UNCHANGED row
         /\ secret' = [secret EXCEPT ![g] = None]
         /\ pc[<<w, g>>] = "forget" /\ pc'[<<w, g>>] = "record"
  <1>1. <<w, g>> \in Jobs
    BY DEF Jobs
  <1> QED BY <1>1, SameKeeps DEF DropSecret, At, Goto, TypeOK

LEMMA RecordRevokedRow ==
  ASSUME TypeOK, NEW w \in Workers, NEW g \in Grants, RecordRevoked(w, g)
  PROVE  /\ OthersSame(g)
         /\ row'[g].status = "revoked"
         /\ row'[g].saved = row[g].saved
         /\ row'[g].before = row[g].before
         /\ row'[g].pid = row[g].pid
         /\ UNCHANGED secret
  <1> DEFINE r == [row[g] EXCEPT !.status = "revoked", !.next = None]
  <1>1. /\ r \in Row /\ r.pid = row[g].pid /\ r.saved = row[g].saved
        /\ r.before = row[g].before
        /\ r.status = "revoked"
    BY RowOfGrant DEF Row, Status
  <1>2. SetGrant(g, r) /\ UNCHANGED secret
    BY DEF RecordRevoked
  <1> HIDE DEF r
  <1> QED BY <1>1, <1>2, SetGrantFields DEF OthersSame

-----------------------------------------------------------------------------
(* Whose step a job's step is.                                             *)

\* A job's step is no step of another job.
LEMMA OneJobSteps ==
  ASSUME TypeOK, NEW w \in Workers, NEW g \in Grants, JobStep(w, g),
         NEW j \in Jobs, j # <<w, g>>
  PROVE  pc'[j] = pc[j] /\ mem'[j] = mem[j]
  <1>0. <<w, g>> \in Jobs
    BY DEF Jobs
  <1>1. CASE Leave(w, g)
    BY <1>0, <1>1 DEF Leave, Goto, TypeOK
  <1>2. CASE Enters(w, g)
    BY <1>0, <1>2 DEF Enters, Goto, TypeOK
  <1>3. CASE GoesOn(w, g)
    BY <1>0, <1>3 DEF GoesOn, Goto, TypeOK
  <1> QED BY <1>1, <1>2, <1>3, JobShape

\* A job stands still, is reset, or takes a step of its own.
LEMMA JobChange ==
  ASSUME TypeOK, [Next]_vars, NEW j \in Jobs
  PROVE  \/ pc'[j] = pc[j] /\ mem'[j] = mem[j]
         \/ pc'[j] \in {"idle", "queued"}
         \/ \E w \in Workers, g \in Grants : j = <<w, g>> /\ JobStep(w, g)
  <1>1. ASSUME NEW w \in Workers, NEW g \in Grants, JobStep(w, g), j # <<w, g>>
        PROVE  pc'[j] = pc[j] /\ mem'[j] = mem[j]
    BY <1>1, OneJobSteps
  <1>2. ASSUME NEW w \in Workers, Claim(w) \/ Crash(w)
        PROVE  \/ pc'[j] = pc[j] /\ mem'[j] = mem[j]
               \/ pc'[j] \in {"idle", "queued"}
    BY <1>2 DEF Claim, Crash, TypeOK
  <1>3. CASE UNCHANGED jobVars
    BY <1>3 DEF jobVars
  <1>4. CASE UNCHANGED vars
    BY <1>3, <1>4 DEF vars, jobVars
  <1> QED BY <1>1, <1>2, <1>3, <1>4, OtherSteps, EnvironmentSteps DEF Next

-----------------------------------------------------------------------------
(* While a job withdraws an invitation nobody publishes one for its grant: *)
(* the secret may go before the grant is 'revoked'.                        *)

\* From the moment a job writes 'revoking' until it is done withdrawing.
OnWithdrawal == {"revoke", "drivers", "remove", "forget", "record"}

Unready ==
  \A j \in Jobs : pc[j] \in OnWithdrawal => row[j[2]].status # "invite_ready"

LEMMA UnreadyOwnJob ==
  ASSUME TypeOK, Unready, NEW w \in Workers, NEW g \in Grants, JobStep(w, g),
         pc'[<<w, g>>] \in OnWithdrawal
  PROVE  row'[g].status # "invite_ready"
  <1> DEFINE j == <<w, g>>
  <1>0. j \in Jobs /\ j[2] = g /\ pc'[j] \in OnWithdrawal
    BY DEF Jobs
  <1> USE <1>0 DEF At, Goto, Leave, TypeOK, OnWithdrawal
  <1>1. CASE StartRevoke(w, g)
    <2> DEFINE r == [row[g] EXCEPT !.status = "revoking"]
    <2>1. r.status = "revoking"
      BY RowOfGrant DEF Row
    <2>2. row' = [row EXCEPT ![g] = r]
      BY <1>1 DEF StartRevoke, Park, Write
    <2> HIDE DEF r
    <2> QED BY <2>1, <2>2
  <1>2. CASE \/ RevokeCall(w, g) \/ DropSecret(w, g) \/ ListDrivers(w, g)
             \/ RemoveDriver(w, g)
    <2>1. UNCHANGED row /\ pc[j] \in OnWithdrawal
      BY <1>2 DEF RevokeCall, DropSecret, ListDrivers, RemoveDriver, Catch,
                  ParkAndAudit
    <2> QED BY <2>1 DEF Unready
  <1>3. CASE Begin(w, g) \/ ReadContext(w, g) \/ Refresh(w, g)
    BY <1>3 DEF Begin, ReadContext, Refresh, Catch
  <1>4. CASE Before(w, g) \/ Reserve(w, g) \/ PostOk(w, g) \/ PostFails(w, g)
    BY <1>4 DEF Before, Reserve, PostOk, PostFails, Park, ParkAndAudit, Catch
  <1>5. CASE ListAfter(w, g) \/ Commit(w, g)
    BY <1>5 DEF ListAfter, Commit, ParkAndAudit, Catch
  <1>6. CASE \/ Supersede(w, g) \/ Audit(w, g) \/ Finish(w, g)
             \/ RecordRevoked(w, g)
    BY <1>6 DEF Supersede, Audit, Finish, RecordRevoked, Catch
  <1> QED BY <1>1, <1>2, <1>3, <1>4, <1>5, <1>6
          DEF JobStep, IssueStep, RevokeStep

LEMMA ForgettingUnready ==
  ASSUME Unready, NEW w \in Workers, NEW g \in Grants, DropSecret(w, g)
  PROVE  row[g].status # "invite_ready"
  <1> DEFINE j == <<w, g>>
  <1>1. j \in Jobs /\ j[2] = g
    BY DEF Jobs
  <1>2. pc[j] \in OnWithdrawal
    BY DEF DropSecret, At, OnWithdrawal
  <1> QED BY <1>1, <1>2 DEF Unready

LEMMA UnreadyStep ==
  ASSUME TypeOK, FoundOK, SessionExclusive, Unready, [Next]_vars
  PROVE  Unready'
  <1> SUFFICES ASSUME NEW j \in Jobs, pc'[j] \in OnWithdrawal
               PROVE  row'[j[2]].status # "invite_ready"
    BY DEF Unready
  <1>0. j[2] \in Grants
    BY DEF Jobs
  <1>1. ASSUME NEW w \in Workers, NEW g \in Grants, j = <<w, g>>, JobStep(w, g)
        PROVE  row'[j[2]].status # "invite_ready"
    BY <1>1, UnreadyOwnJob
  <1>2. CASE pc'[j] = pc[j]
    <2>1. /\ row[j[2]].status # "invite_ready" /\ pc[j] \in OnWithdrawal
          /\ lock = j
      BY <1>2 DEF Unready, SessionExclusive, InSession, PC, OnWithdrawal
    <2>2. CASE KeepsAll
      BY <1>0, <2>1, <2>2 DEF KeepsAll, Keeps, Quiet
    <2>3. ASSUME NEW w \in Workers, NEW g \in Grants, Special(w, g)
          PROVE  row'[j[2]].status # "invite_ready"
      <3>1. <<w, g>> \in Jobs
        BY DEF Jobs
      <3>2. pc[<<w, g>>] \in {"reserve", "after", "commit", "supersede",
                              "forget", "record"}
        BY <2>3 DEF Special, Reserve, ListAfter, Commit, Supersede, DropSecret,
                    RecordRevoked, At
      <3>3. j = <<w, g>>
        BY <2>1, <3>1, <3>2 DEF SessionExclusive, InSession, PC
      <3>4. pc[j] \in {"forget", "record"}
        BY <2>1, <3>2, <3>3 DEF OnWithdrawal
      <3>5. DropSecret(w, g) \/ RecordRevoked(w, g)
        BY <2>3, <3>3, <3>4 DEF Special, Reserve, ListAfter, Commit, Supersede,
                                At
      <3> QED BY <2>2, <3>3, <3>5, DropSecretRow, RecordRevokedRow
    <2> QED BY <2>2, <2>3, OthersKeep
  <1> QED BY <1>1, <1>2, JobChange DEF OnWithdrawal

-----------------------------------------------------------------------------
(* What the guest can read is what will be revoked.                        *)

LEMMA PublishedStep ==
  ASSUME TypeOK, FoundOK, Unready, PublishedMatches, [Next]_vars
  PROVE  PublishedMatches'
  <1> USE DEF PublishedMatches
  <1>1. CASE KeepsAll /\ UNCHANGED secret
    BY <1>1 DEF KeepsAll, Keeps, Quiet
  <1>2. ASSUME NEW w \in Workers, NEW g \in Grants, Special(w, g)
        PROVE  PublishedMatches'
    <2>1. CASE Reserve(w, g)
      BY <1>1, <2>1, ReserveRow DEF OthersSame
    <2>2. CASE ListAfter(w, g)
      BY <1>1, <2>2, ListAfterRow DEF OthersSame
    <2>3. CASE Commit(w, g)
      <3>1. mem[<<w, g>>].inv \in Invites
        BY <2>3 DEF Commit, At, FoundOK, Jobs
      <3>2. mem[<<w, g>>].inv # None
        BY <3>1, NullAssumption
      <3> QED BY <1>1, <2>3, <3>2, CommitRow DEF OthersSame, TypeOK
    <2>4. CASE Supersede(w, g)
      BY <1>1, <2>4, SupersedeRow DEF OthersSame
    <2>5. CASE RecordRevoked(w, g)
      BY <2>5, RecordRevokedRow DEF OthersSame, TypeOK
    <2>6. CASE DropSecret(w, g)
      <3>1. row[g].status # "invite_ready"
        BY <2>6, ForgettingUnready
      <3> QED BY <2>6, <3>1, DropSecretRow DEF TypeOK
    <2> QED BY <1>2, <2>1, <2>2, <2>3, <2>4, <2>5, <2>6 DEF Special
  <1> QED BY <1>1, <1>2, OthersKeep

LEMMA NeverReadyHere == Spec => [](FoundOK /\ Unready)
  <1>1. Init => Unready
    BY DEF Init, Unready, OnWithdrawal
  <1>2. TypeOK /\ FoundOK /\ SessionExclusive /\ Unready /\ [Next]_vars
        => (FoundOK /\ Unready)'
    BY FoundStep, UnreadyStep
  <1> QED BY <1>1, <1>2, InitJobs, TypeCorrect, SessionsExclude, PTL DEF Spec

\* In every instance the URL stored for a ready invitation is that of the id
\* the row will revoke.
THEOREM PublishedIsRecorded == Spec => []PublishedMatches
  <1>1. Init => PublishedMatches
    BY DEF Init, PublishedMatches, NewRow
  <1>2. TypeOK /\ FoundOK /\ Unready /\ PublishedMatches /\ [Next]_vars
        => PublishedMatches'
    BY PublishedStep
  <1> QED BY <1>1, <1>2, NeverReadyHere, TypeCorrect, PTL DEF Spec

-----------------------------------------------------------------------------
(* A grant found issuing can be reconciled.  A failed list writes 'issuing' *)
(* over whatever the row has become, so the before-set has to survive all   *)
(* that anybody does to the row between the reservation and the list; only  *)
(* publishing clears it, and that takes the session.                        *)

SavedAt(j) ==
  /\ pc[j] \in {"post", "after"} => row[j[2]].saved
  /\ pc[j] \in {"refresh", "before"} /\ mem[j].saved => row[j[2]].saved

SavedOK == \A j \in Jobs : SavedAt(j)

\* The before-set of g is not lost in this step.
Saves(g) == row[g].saved => row'[g].saved

LEMMA OnlyCommitForgets ==
  ASSUME TypeOK, FoundOK, [Next]_vars,
         \A w \in Workers, g \in Grants : ~Commit(w, g)
  PROVE  \A g \in Grants : Saves(g)
  <1> USE DEF Saves
  <1>1. KeepsAll => \A h \in Grants : Saves(h)
    BY DEF KeepsAll, Keeps
  <1>2. ASSUME NEW w \in Workers, NEW g \in Grants, Special(w, g)
        PROVE  \A h \in Grants : Saves(h)
    <2>1. CASE Reserve(w, g)
      BY <1>1, <2>1, ReserveRow DEF OthersSame
    <2>2. CASE ListAfter(w, g)
      BY <1>1, <2>2, ListAfterRow DEF OthersSame
    <2>3. CASE Supersede(w, g)
      BY <1>1, <2>3, SupersedeRow DEF OthersSame
    <2>4. CASE RecordRevoked(w, g)
      BY <2>4, RecordRevokedRow DEF OthersSame
    <2>5. CASE DropSecret(w, g)
      BY <1>1, <2>5, DropSecretRow
    <2> QED BY <1>2, <2>1, <2>2, <2>3, <2>4, <2>5 DEF Special
  <1> QED BY <1>1, <1>2, OthersKeep

\* Where the job itself moves to, the before-set is there.
LEMMA SavedOwnJob ==
  ASSUME TypeOK, SavedOK, NEW w \in Workers, NEW g \in Grants, JobStep(w, g),
         ~Commit(w, g) => Saves(g)
  PROVE  SavedAt(<<w, g>>)'
  <1> DEFINE j == <<w, g>>
  <1>0. j \in Jobs /\ j[2] = g /\ SavedAt(j)
    BY DEF Jobs, SavedOK
  <1> USE <1>0 DEF At, Goto, Leave, TypeOK
  <1>1. CASE Reserve(w, g)
    <2>1. pc'[j] = "idle" \/ row'[g].saved
      BY <1>1, ReserveRow
    <2>2. pc'[j] \in {"idle", "post"}
      BY <1>1 DEF Reserve
    <2> QED BY <2>1, <2>2 DEF SavedAt
  <1>2. CASE PostOk(w, g)
    <2>1. pc[j] = "post" /\ pc'[j] = "after" /\ row' = row
      BY <1>2 DEF PostOk
    <2> QED BY <2>1 DEF SavedAt
  <1>3. CASE Before(w, g)
    <2>1. ~Commit(w, g)
      BY <1>3 DEF Before, Commit
    <2>2. \/ pc'[j] \in {"idle", "reserve"}
          \/ pc'[j] = "after" /\ mem[j].saved /\ pc[j] = "before"
      <3>1. CASE mem[j].issuing /\ mem[j].saved
        BY <1>3, <3>1 DEF Before
      <3>2. CASE mem[j].issuing /\ ~mem[j].saved
        BY <1>3, <3>2 DEF Before, Park
      <3>3. CASE ~mem[j].issuing
        BY <1>3, <3>3 DEF Before, Catch
      <3> QED BY <3>1, <3>2, <3>3
    <2> QED BY <2>1, <2>2 DEF SavedAt, Saves
  <1>4. CASE ReadContext(w, g)
    <2> DEFINE m == [issuing |-> row[g].status = "issuing",
                     revoke |-> row[g].revoke, pid |-> row[g].pid,
                     saved |-> row[g].saved, before |-> row[g].before,
                     inv |-> None]
    <2>1. m.saved = row[g].saved
      OBVIOUS
    <2>2. \/ pc'[j] = "idle"
          \/ pc'[j] = "refresh" /\ mem' = [mem EXCEPT ![j] = m] /\ row' = row
      BY <1>4 DEF ReadContext
    <2> HIDE DEF m
    <2> QED BY <2>1, <2>2 DEF SavedAt
  <1>5. CASE Refresh(w, g)
    <2>1. \/ pc'[j] = "idle"
          \/ pc'[j] \in {"before", "startRevoke"} /\ mem' = mem /\ row' = row
      BY <1>5 DEF Refresh, Catch
    <2>2. pc[j] = "refresh"
      BY <1>5 DEF Refresh
    <2> QED BY <2>1, <2>2 DEF SavedAt
  <1>6. CASE Begin(w, g)
    BY <1>6 DEF Begin, SavedAt
  <1>7. CASE \/ PostFails(w, g) \/ ListAfter(w, g) \/ Commit(w, g)
             \/ Supersede(w, g) \/ Audit(w, g) \/ Finish(w, g)
    <2>1. pc'[j] \notin {"before", "after", "post", "refresh"}
      <3>1. CASE PostFails(w, g)
        BY <3>1 DEF PostFails, ParkAndAudit
      <3>2. CASE ListAfter(w, g)
        BY <3>2 DEF ListAfter, ParkAndAudit
      <3>3. CASE Commit(w, g)
        BY <3>3 DEF Commit, Catch
      <3>4. CASE Supersede(w, g) \/ Audit(w, g) \/ Finish(w, g)
        BY <3>4 DEF Supersede, Audit, Finish, ParkAndAudit, Catch
      <3> QED BY <1>7, <3>1, <3>2, <3>3, <3>4
    <2> QED BY <2>1 DEF SavedAt
  <1>8. CASE RevokeStep(w, g)
    <2>1. pc'[j] \notin {"before", "after", "post", "refresh"}
      <3>1. CASE StartRevoke(w, g) \/ DropSecret(w, g) \/ RecordRevoked(w, g)
        BY <3>1 DEF StartRevoke, DropSecret, RecordRevoked, Park
      <3>2. CASE RevokeCall(w, g)
        BY <3>2 DEF RevokeCall, Catch
      <3>3. CASE ListDrivers(w, g)
        BY <3>3 DEF ListDrivers, ParkAndAudit, Catch
      <3>4. CASE RemoveDriver(w, g)
        BY <3>4 DEF RemoveDriver, Catch
      <3> QED BY <1>8, <3>1, <3>2, <3>3, <3>4 DEF RevokeStep
    <2> QED BY <2>1 DEF SavedAt
  <1> QED BY <1>1, <1>2, <1>3, <1>4, <1>5, <1>6, <1>7, <1>8
          DEF JobStep, IssueStep

LEMMA SavedStep ==
  ASSUME TypeOK, FoundOK, SessionExclusive, SavedOK, [Next]_vars
  PROVE  SavedOK'
  <1> SUFFICES ASSUME NEW j \in Jobs
               PROVE  SavedAt(j)'
    BY DEF SavedOK
  <1>0. j[2] \in Grants /\ SavedAt(j)
    BY DEF Jobs, SavedOK
  <1>1. ASSUME NEW w \in Workers, NEW g \in Grants, JobStep(w, g), j # <<w, g>>
        PROVE  pc'[j] = pc[j] /\ mem'[j] = mem[j]
    BY <1>1, OneJobSteps
  <1>2. ASSUME NEW w \in Workers, NEW g \in Grants, Commit(w, g)
        PROVE  SavedAt(j)'
    <2>1. JobStep(w, g)
      BY <1>2 DEF JobStep, IssueStep
    <2>2. CASE j = <<w, g>>
      BY <1>2, <2>1, <2>2, SavedOwnJob
    <2>3. CASE j # <<w, g>>
      <3>1. lock = <<w, g>>
        BY <1>2 DEF Commit, At, SessionExclusive, InSession, PC, Jobs
      <3>2. pc[j] \notin InSession
        BY <2>3, <3>1 DEF SessionExclusive
      <3> QED BY <1>1, <2>1, <2>3, <3>2 DEF SavedAt, InSession, PC
    <2> QED BY <2>2, <2>3
  <1>3. ASSUME \A w \in Workers, g \in Grants : ~Commit(w, g)
        PROVE  SavedAt(j)'
    <2>1. Saves(j[2])
      BY <1>0, <1>3, OnlyCommitForgets
    <2>2. CASE pc'[j] = pc[j] /\ mem'[j] = mem[j]
      BY <1>0, <2>1, <2>2 DEF SavedAt, Saves
    <2>3. CASE pc'[j] \in {"idle", "queued"}
      BY <2>3 DEF SavedAt
    <2>4. ASSUME NEW w \in Workers, NEW g \in Grants, JobStep(w, g)
          PROVE  SavedAt(j)'
      <3>1. CASE j = <<w, g>>
        BY <1>3, <2>1, <2>4, <3>1, SavedOwnJob
      <3> QED BY <1>1, <2>2, <2>4, <3>1
    <2>5. ASSUME NEW w \in Workers, Claim(w) \/ Crash(w)
          PROVE  SavedAt(j)'
      BY <2>2, <2>3, <2>5 DEF Claim, Crash, TypeOK
    <2>6. CASE UNCHANGED jobVars
      BY <2>2, <2>6 DEF jobVars
    <2>7. CASE UNCHANGED vars
      BY <2>6, <2>7 DEF vars, jobVars
    <2> QED BY <2>4, <2>5, <2>6, <2>7, OtherSteps, EnvironmentSteps DEF Next
  <1> QED BY <1>2, <1>3

LEMMA RecoverableStep ==
  ASSUME TypeOK, FoundOK, SavedOK, IssuingIsRecoverable, [Next]_vars
  PROVE  IssuingIsRecoverable'
  <1> USE DEF IssuingIsRecoverable
  <1>1. CASE KeepsAll
    BY <1>1 DEF KeepsAll, Keeps, Quiet
  <1>2. ASSUME NEW w \in Workers, NEW g \in Grants, Special(w, g)
        PROVE  IssuingIsRecoverable'
    <2>1. CASE Reserve(w, g)
      BY <1>1, <2>1, ReserveRow DEF OthersSame
    <2>2. CASE ListAfter(w, g)
      <3>1. row[g].saved
        BY <2>2 DEF ListAfter, At, SavedOK, SavedAt, Jobs
      <3> QED BY <1>1, <2>2, <3>1, ListAfterRow DEF OthersSame
    <2>3. CASE Commit(w, g)
      BY <1>1, <2>3, CommitRow DEF OthersSame
    <2>4. CASE Supersede(w, g)
      BY <1>1, <2>4, SupersedeRow DEF OthersSame
    <2>5. CASE RecordRevoked(w, g)
      BY <2>5, RecordRevokedRow DEF OthersSame
    <2>6. CASE DropSecret(w, g)
      BY <1>1, <2>6, DropSecretRow
    <2> QED BY <1>2, <2>1, <2>2, <2>3, <2>4, <2>5, <2>6 DEF Special
  <1> QED BY <1>1, <1>2, OthersKeep

\* In every instance, a worker that finds a grant issuing also finds the
\* before-set it needs to reconcile it without another POST.
THEOREM IssuingRecovers == Spec => []IssuingIsRecoverable
  <1>1. Init => SavedOK /\ IssuingIsRecoverable
    BY DEF Init, SavedOK, SavedAt, IssuingIsRecoverable, NewRow
  <1>2. TypeOK /\ FoundOK /\ SessionExclusive /\ SavedOK
        /\ IssuingIsRecoverable /\ [Next]_vars
        => (FoundOK /\ SavedOK /\ IssuingIsRecoverable)'
    BY SavedStep, RecoverableStep, FoundStep
  <1> QED BY <1>1, <1>2, InitJobs, TypeCorrect, SessionsExclude, PTL DEF Spec

-----------------------------------------------------------------------------
(***************************************************************************)
(* Theorem: a grant is only 'revoked' when Tesla has dropped the           *)
(* invitation its row records.  The worker decides what to revoke from the *)
(* context it read when it entered the session, and records the result on  *)
(* the row as it is by then; so the argument is that nobody can give the   *)
(* row another id meanwhile, and that Tesla never uses an id again.        *)
(***************************************************************************)

Used == {i \in Invites : creator[i] # None}

\* Every id in play is one that Tesla has given out.
IdsOK ==
  /\ open \subseteq Used
  /\ \A g \in Grants : row[g].pid \in Used \cup {None}
  /\ \A j \in Jobs : pc[j] \in {"commit", "supersede"} => mem[j].inv \in Used

\* A job on its way to revoke, or that may still turn that way, remembers the
\* id its row has; and once Tesla has answered, that id is not open.
RevokingAt(j) ==
  /\ pc[j] \in {"refresh", "startRevoke", "revoke", "forget", "record",
                "drivers", "remove"} => mem[j].pid = row[j[2]].pid
  /\ pc[j] \in {"forget", "record", "drivers", "remove"}
       => row[j[2]].pid \notin open

RevokingOK == \A j \in Jobs : RevokingAt(j)

-----------------------------------------------------------------------------
\* An id that was given out is never opened again.
LEMMA NeverReopened ==
  ASSUME TypeOK, IdsOK, [Next]_vars
  PROVE  /\ \A i \in Used : i \in open' => i \in open
         /\ \A i \in Used : i \in Used' /\ creator'[i] = creator[i]
         /\ open' \subseteq Used'
  <1>1. ASSUME NEW i \in Unused, NEW c \in Grants \cup {Owner}, Create(i, c)
        PROVE  /\ \A k \in Used : k \in open' => k \in open
               /\ \A k \in Used : k \in Used' /\ creator'[k] = creator[k]
               /\ open' \subseteq Used'
    <2>1. i \in Invites /\ i \notin Used /\ c # None
      BY <1>1, NullAssumption DEF Unused, Used
    <2>2. creator'[i] = c /\ \A k \in Invites : k # i => creator'[k] = creator[k]
      BY <1>1, <2>1 DEF Create, TypeOK
    <2> QED BY <1>1, <2>1, <2>2 DEF Create, Used, IdsOK
  <1>2. ASSUME open' \subseteq open, creator' = creator
        PROVE  /\ \A k \in Used : k \in open' => k \in open
               /\ \A k \in Used : k \in Used' /\ creator'[k] = creator[k]
               /\ open' \subseteq Used'
    BY <1>2 DEF Used, IdsOK
  <1>3. ASSUME NEW w \in Workers, NEW g \in Grants, JobStep(w, g)
        PROVE  \/ open' \subseteq open /\ creator' = creator
               \/ \E i \in Unused : Create(i, g)
    <2>1. CASE \/ Begin(w, g) \/ ReadContext(w, g) \/ Refresh(w, g)
               \/ Before(w, g) \/ Reserve(w, g) \/ ListAfter(w, g)
               \/ Commit(w, g) \/ Audit(w, g) \/ Finish(w, g)
               \/ StartRevoke(w, g) \/ DropSecret(w, g)
               \/ RecordRevoked(w, g) \/ ListDrivers(w, g)
      BY <2>1 DEF Begin, ReadContext, Refresh, Before, Reserve, ListAfter,
                  Commit, Audit, Finish, StartRevoke, DropSecret, RecordRevoked,
                  ListDrivers, teslaVars
    <2>2. CASE \/ PostOk(w, g) \/ PostFails(w, g) \/ Supersede(w, g)
               \/ RevokeCall(w, g) \/ RemoveDriver(w, g)
      BY <2>2 DEF PostOk, PostFails, Supersede, RevokeCall, RemoveDriver
    <2> QED BY <1>3, <2>1, <2>2 DEF JobStep, IssueStep, RevokeStep
  <1>4. ASSUME NEW w \in Workers, Claim(w) \/ Crash(w)
        PROVE  open' \subseteq open /\ creator' = creator
    BY <1>4 DEF Claim, Crash, teslaVars
  <1>5. ASSUME NEW g \in Grants,
               OwnerStep(g) \/ GuestStep(g) \/ LeaseLapses(g) \/ Land(g)
        PROVE  \/ open' \subseteq open /\ creator' = creator
               \/ \E i \in Unused : Create(i, g)
    BY <1>5 DEF OwnerStep, ResolveApply, ResolveCancel, OwnerCancel, GuestStep,
                Onboard, GuestReads, GuestRedeems, LeaseLapses, Land, teslaVars
  <1>6. CASE \/ IntegrationLost \/ Reconnect \/ Tick
             \/ (\E i \in Invites : InviteLeaves(i)) \/ UNCHANGED vars
    BY <1>2, <1>6 DEF IntegrationLost, Reconnect, Tick, InviteLeaves, vars,
                      teslaVars
  <1>7. CASE OwnerInvites
    BY <1>1, <1>7 DEF OwnerInvites
  <1> QED BY <1>1, <1>2, <1>3, <1>4, <1>5, <1>6, <1>7 DEF Next

\* Which step may give a row another id, and which id.
LEMMA PidStep ==
  ASSUME TypeOK, FoundOK, IdsOK, [Next]_vars
  PROVE  \/ \A g \in Grants : row'[g].pid = row[g].pid
         \/ \E w \in Workers, g \in Grants :
              /\ ListAfter(w, g) \/ Commit(w, g) \/ Supersede(w, g)
              /\ OthersSame(g)
              /\ row'[g].pid \in Used
  <1>1. KeepsAll => \A g \in Grants : row'[g].pid = row[g].pid
    BY DEF KeepsAll, Keeps
  <1>2. ASSUME NEW w \in Workers, NEW g \in Grants, Special(w, g)
        PROVE  \/ \A h \in Grants : row'[h].pid = row[h].pid
               \/ /\ ListAfter(w, g) \/ Commit(w, g) \/ Supersede(w, g)
                  /\ OthersSame(g)
                  /\ row'[g].pid \in Used
    <2>0. <<w, g>> \in Jobs
      BY DEF Jobs
    <2>1. CASE Reserve(w, g)
      BY <1>1, <2>1, ReserveRow DEF OthersSame
    <2>2. CASE ListAfter(w, g)
      BY <1>1, <2>2, ListAfterRow DEF OthersSame, IdsOK
    <2>3. CASE Commit(w, g)
      BY <1>1, <2>0, <2>3, CommitRow DEF IdsOK, Commit, At
    <2>4. CASE Supersede(w, g)
      BY <1>1, <2>0, <2>4, SupersedeRow DEF IdsOK, Supersede, At
    <2>5. CASE RecordRevoked(w, g)
      BY <2>5, RecordRevokedRow DEF OthersSame
    <2>6. CASE DropSecret(w, g)
      BY <1>1, <2>6, DropSecretRow
    <2> QED BY <1>2, <2>1, <2>2, <2>3, <2>4, <2>5, <2>6 DEF Special
  <1> QED BY <1>1, <1>2, OthersKeep

\* What a job found is what it has found already, or the one invitation that
\* is new in the list.
LEMMA InvStep ==
  ASSUME TypeOK, [Next]_vars, NEW j \in Jobs, pc'[j] \in {"commit", "supersede"}
  PROVE  \/ pc[j] \in {"commit", "supersede"} /\ mem'[j].inv = mem[j].inv
         \/ /\ pc[j] = "after"
            /\ \E w \in Workers, g \in Grants :
                 j = <<w, g>> /\ Candidates(w, g) = {mem'[j].inv}
  <1>1. CASE pc'[j] = pc[j] /\ mem'[j] = mem[j]
    BY <1>1
  <1>2. ASSUME NEW w \in Workers, NEW g \in Grants, j = <<w, g>>, JobStep(w, g)
        PROVE  \/ pc[j] \in {"commit", "supersede"} /\ mem'[j].inv = mem[j].inv
               \/ pc[j] = "after" /\ Candidates(w, g) = {mem'[j].inv}
    <2> USE <1>2 DEF Goto, Leave, TypeOK
    <2>1. CASE ListAfter(w, g)
      <3>1. PICK i \in Invites :
              /\ Candidates(w, g) = {i}
              /\ mem' = [mem EXCEPT ![j] = [@ EXCEPT !.inv = i]]
        BY <2>1 DEF ListAfter, ParkAndAudit
      <3>2. mem'[j] = [mem[j] EXCEPT !.inv = i] /\ pc[j] = "after"
        BY <2>1, <3>1 DEF ListAfter, At
      <3>3. mem[j] \in Mem
        BY MemOfJob
      <3> QED BY <3>1, <3>2, <3>3 DEF Mem
    <2>2. CASE Commit(w, g)
      BY <2>2 DEF Commit, Catch, At
    <2>3. CASE Begin(w, g) \/ ReadContext(w, g) \/ Refresh(w, g)
      BY <2>3 DEF Begin, ReadContext, Refresh, Catch
    <2>4. CASE Before(w, g) \/ Reserve(w, g) \/ PostOk(w, g) \/ PostFails(w, g)
      BY <2>4 DEF Before, Reserve, PostOk, PostFails, Park, ParkAndAudit, Catch
    <2>5. CASE Supersede(w, g) \/ Audit(w, g) \/ Finish(w, g)
      BY <2>5 DEF Supersede, Audit, Finish, Catch
    <2>6. CASE RevokeStep(w, g)
      BY <2>6 DEF RevokeStep, StartRevoke, RevokeCall, DropSecret, RecordRevoked,
                  ListDrivers, RemoveDriver, Park, ParkAndAudit, Catch
    <2> QED BY <2>1, <2>2, <2>3, <2>4, <2>5, <2>6 DEF JobStep, IssueStep
  <1> QED BY <1>1, <1>2, JobChange

LEMMA IdsStep ==
  ASSUME TypeOK, FoundOK, IdsOK, [Next]_vars
  PROVE  IdsOK'
  <1>1. open' \subseteq Used' /\ \A i \in Used : i \in Used'
    BY NeverReopened
  <1>2. \A g \in Grants : row'[g].pid \in Used' \cup {None}
    <2>1. \A g \in Grants : row[g].pid \in Used \cup {None}
      BY DEF IdsOK
    <2> QED BY <1>1, <2>1, PidStep DEF OthersSame
  <1>3. ASSUME NEW j \in Jobs, pc'[j] \in {"commit", "supersede"}
        PROVE  mem'[j].inv \in Used
    BY <1>3, InvStep DEF IdsOK, Candidates
  <1> QED BY <1>1, <1>2, <1>3 DEF IdsOK

\* What the job itself does on its way to 'revoked'.
LEMMA RevokingOwnJob ==
  ASSUME TypeOK, RevokingOK, NEW w \in Workers, NEW g \in Grants,
         JobStep(w, g), row'[g].pid = row[g].pid
  PROVE  RevokingAt(<<w, g>>)'
  <1> DEFINE j == <<w, g>>
  <1>0. j \in Jobs /\ j[2] = g /\ RevokingAt(j)
    BY DEF Jobs, RevokingOK
  <1> USE <1>0 DEF At, Goto, Leave, TypeOK
  <1>1. CASE ReadContext(w, g)
    <2> DEFINE m == [issuing |-> row[g].status = "issuing",
                     revoke |-> row[g].revoke, pid |-> row[g].pid,
                     saved |-> row[g].saved, before |-> row[g].before,
                     inv |-> None]
    <2>1. m.pid = row[g].pid
      OBVIOUS
    <2>2. \/ pc'[j] = "idle"
          \/ pc'[j] = "refresh" /\ mem' = [mem EXCEPT ![j] = m]
      BY <1>1 DEF ReadContext
    <2> HIDE DEF m
    <2> QED BY <2>1, <2>2 DEF RevokingAt
  <1>2. CASE Refresh(w, g)
    <2>1. pc[j] = "refresh"
      BY <1>2 DEF Refresh
    <2>2. \/ pc'[j] = "idle"
          \/ pc'[j] \in {"before", "startRevoke"} /\ mem' = mem
      BY <1>2 DEF Refresh, Catch
    <2> QED BY <2>1, <2>2 DEF RevokingAt
  <1>3. CASE StartRevoke(w, g)
    <2>1. pc[j] = "startRevoke"
      BY <1>3 DEF StartRevoke
    <2>2. pc'[j] = "idle" \/ (pc'[j] = "revoke" /\ mem' = mem)
      BY <1>3 DEF StartRevoke, Park
    <2> QED BY <2>1, <2>2 DEF RevokingAt
  <1>4. CASE RevokeCall(w, g)
    <2>1. pc[j] = "revoke" /\ mem[j].pid = row[g].pid
      BY <1>4 DEF RevokeCall, RevokingAt
    <2>2. \/ pc'[j] = "idle"
          \/ /\ pc'[j] \in {"forget", "drivers"}
             /\ mem' = mem /\ mem[j].pid \notin open'
      BY <1>4 DEF RevokeCall, Catch
    <2> QED BY <2>1, <2>2 DEF RevokingAt
  <1>5. CASE ListDrivers(w, g)
    <2>1. pc[j] = "drivers"
      BY <1>5 DEF ListDrivers
    <2>2. /\ open' = open
          /\ pc'[j] \in {"idle", "finish"} \/ (pc'[j] = "remove" /\ mem' = mem)
      BY <1>5 DEF ListDrivers, ParkAndAudit, Catch, teslaVars
    <2> QED BY <2>1, <2>2 DEF RevokingAt
  <1>6. CASE RemoveDriver(w, g)
    <2>1. pc[j] = "remove"
      BY <1>6 DEF RemoveDriver
    <2>2. /\ open' = open
          /\ pc'[j] = "idle" \/ (pc'[j] = "forget" /\ mem' = mem)
      BY <1>6 DEF RemoveDriver, Catch
    <2> QED BY <2>1, <2>2 DEF RevokingAt
  <1>7. CASE Begin(w, g) \/ RecordRevoked(w, g)
    BY <1>7 DEF Begin, RecordRevoked, RevokingAt
  <1>10. CASE DropSecret(w, g)
    BY <1>10 DEF DropSecret, RevokingAt, teslaVars
  <1>8. CASE \/ Before(w, g) \/ Reserve(w, g) \/ PostOk(w, g) \/ PostFails(w, g)
    BY <1>8 DEF Before, Reserve, PostOk, PostFails, Park, ParkAndAudit, Catch,
                RevokingAt
  <1>9. CASE \/ ListAfter(w, g) \/ Commit(w, g) \/ Supersede(w, g)
             \/ Audit(w, g) \/ Finish(w, g)
    BY ZenonT(60), <1>9 DEF ListAfter, Commit, Supersede, Audit, Finish, ParkAndAudit,
                Catch, RevokingAt
  <1> QED BY <1>1, <1>2, <1>3, <1>4, <1>5, <1>6, <1>7, <1>8, <1>9, <1>10
          DEF JobStep, IssueStep, RevokeStep

\* Tesla does not open an id again, so what is not open stays not open.
LEMMA StaysClosed ==
  ASSUME TypeOK, IdsOK, [Next]_vars, NEW i \in Used \cup {None}, i \notin open
  PROVE  i \notin open'
  <1>1. None \notin open'
    BY NeverReopened, NullAssumption DEF Used
  <1> QED BY <1>1, NeverReopened

LEMMA RevokingStep ==
  ASSUME TypeOK, FoundOK, SessionExclusive, IdsOK, RevokingOK, [Next]_vars
  PROVE  RevokingOK'
  <1> SUFFICES ASSUME NEW j \in Jobs
               PROVE  RevokingAt(j)'
    BY DEF RevokingOK
  <1>0. j[2] \in Grants /\ RevokingAt(j) /\ j = <<j[1], j[2]>> /\ j[1] \in Workers
    BY DEF Jobs, RevokingOK
  <1>1. CASE pc'[j] \in {"idle", "queued"}
    BY <1>1 DEF RevokingAt
  <1>2. CASE \A g \in Grants : row'[g].pid = row[g].pid
    <2>1. ASSUME pc'[j] = pc[j], mem'[j] = mem[j]
          PROVE  RevokingAt(j)'
      <3>1. row[j[2]].pid \in Used \cup {None}
        BY <1>0 DEF IdsOK
      <3>2. row[j[2]].pid \notin open => row[j[2]].pid \notin open'
        BY <3>1, StaysClosed
      <3> QED BY <1>0, <1>2, <2>1, <3>2 DEF RevokingAt
    <2>2. ASSUME NEW w \in Workers, NEW g \in Grants, j = <<w, g>>,
                 JobStep(w, g)
          PROVE  RevokingAt(j)'
      BY <1>2, <2>2, RevokingOwnJob
    <2> QED BY <1>1, <2>1, <2>2, JobChange
  <1>3. ASSUME NEW w \in Workers, NEW g \in Grants, OthersSame(g),
               ListAfter(w, g) \/ Commit(w, g) \/ Supersede(w, g)
        PROVE  RevokingAt(j)'
    <2>1. CASE j = <<w, g>>
      BY <1>3, <2>1
         DEF ListAfter, Commit, Supersede, ParkAndAudit, Catch, Leave, Goto,
             TypeOK, RevokingAt
    <2>2. CASE j # <<w, g>>
      <3>1. lock = <<w, g>>
        BY <1>3 DEF ListAfter, Commit, Supersede, At, SessionExclusive,
                    InSession, PC, Jobs
      <3>2. pc[j] \notin InSession
        BY <2>2, <3>1 DEF SessionExclusive
      <3>3. CASE pc'[j] = pc[j]
        BY <3>2, <3>3 DEF RevokingAt, InSession, PC
      <3>4. ASSUME NEW v \in Workers, NEW h \in Grants, j = <<v, h>>,
                   JobStep(v, h)
            PROVE  FALSE
        <4>1. JobStep(w, g) /\ pc'[<<w, g>>] # pc[<<w, g>>]
          BY ZenonT(60), <1>3 DEF JobStep, IssueStep, ListAfter, Commit, Supersede, Leave,
                      ParkAndAudit, Catch, Goto, At, TypeOK, Jobs
        <4>2. pc'[<<w, g>>] = pc[<<w, g>>]
          <5>1. <<w, g>> \in Jobs /\ <<w, g>> # j
            BY <2>2 DEF Jobs
          <5> QED BY <3>4, <5>1, OneJobSteps
        <4> QED BY <4>1, <4>2
      <3> QED BY <1>1, <3>3, <3>4, JobChange
    <2> QED BY <2>1, <2>2
  <1> QED BY <1>2, <1>3, PidStep

LEMMA RevokedStep ==
  ASSUME TypeOK, FoundOK, IdsOK, RevokingOK, RevokedIsGone, [Next]_vars
  PROVE  RevokedIsGone'
  <1> SUFFICES ASSUME NEW g \in Grants, row'[g].status = "revoked"
               PROVE  row'[g].pid \notin open'
    BY DEF RevokedIsGone
  <1>0. row[g].pid \in Used \cup {None}
    BY DEF IdsOK
  <1>1. CASE row[g].status = "revoked" /\ row'[g].pid = row[g].pid
    BY <1>0, <1>1, StaysClosed DEF RevokedIsGone
  <1>2. CASE KeepsAll
    BY <1>1, <1>2 DEF KeepsAll, Keeps, Quiet
  <1>3. ASSUME NEW w \in Workers, NEW h \in Grants, Special(w, h)
        PROVE  row'[g].pid \notin open'
    <2>1. CASE Reserve(w, h)
      BY <1>1, <1>2, <2>1, ReserveRow DEF OthersSame
    <2>2. CASE ListAfter(w, h)
      BY <1>1, <1>2, <2>2, ListAfterRow DEF OthersSame
    <2>3. CASE Commit(w, h)
      BY <1>1, <1>2, <2>3, CommitRow DEF OthersSame
    <2>4. CASE Supersede(w, h)
      BY <1>1, <1>2, <2>4, SupersedeRow DEF OthersSame
    <2>5. CASE RecordRevoked(w, h)
      <3>1. CASE g = h
        <4>1. row[g].pid \notin open
          BY <2>5, <3>1 DEF RecordRevoked, At, RevokingOK, RevokingAt, Jobs
        <4> QED BY <1>0, <2>5, <3>1, <4>1, RecordRevokedRow, StaysClosed
      <3>2. CASE g # h
        BY <1>1, <2>5, <3>2, RecordRevokedRow DEF OthersSame
      <3> QED BY <3>1, <3>2
    <2>6. CASE DropSecret(w, h)
      BY <1>2, <2>6, DropSecretRow
    <2> QED BY <1>3, <2>1, <2>2, <2>3, <2>4, <2>5, <2>6 DEF Special
  <1> QED BY <1>2, <1>3, OthersKeep

\* In every instance, whatever Tesla answers or fails to answer, a grant that
\* is 'revoked' records no invitation that is still open.
THEOREM RevokedMeansGone == Spec => []RevokedIsGone
  <1>1. Init => IdsOK /\ RevokingOK /\ RevokedIsGone
    BY DEF Init, IdsOK, RevokingOK, RevokingAt, RevokedIsGone, NewRow, Used
  <1>2. TypeOK /\ FoundOK /\ SessionExclusive /\ IdsOK /\ RevokingOK
        /\ RevokedIsGone /\ [Next]_vars
        => (FoundOK /\ IdsOK /\ RevokingOK /\ RevokedIsGone)'
    BY FoundStep, IdsStep, RevokingStep, RevokedStep
  <1> QED BY <1>1, <1>2, InitJobs, TypeCorrect, SessionsExclude, PTL DEF Spec

-----------------------------------------------------------------------------
(***************************************************************************)
(* Theorem: the grant's row, secret and trip implement GuestLink.  A guest *)
(* is only ever handed a link that was published for a live trip and was   *)
(* not withdrawn since, and a cancelled trip gets no link.                 *)
(***************************************************************************)

\* A job writes the row of its own grant, and nothing the owner or the guest
\* is to write.
LEMMA JobWritesOwnRow ==
  ASSUME TypeOK, NEW w \in Workers, NEW g \in Grants, JobStep(w, g)
  PROVE  OthersSame(g) /\ UNCHANGED <<trip, known>>
  <1> USE DEF OthersSame
  <1>1. ASSUME NEW r, SetGrant(g, r) \/ \E keep : Write(g, r, keep)
        PROVE  OthersSame(g)
    BY <1>1 DEF SetGrant, Write, TypeOK
  <1>2. ASSUME UNCHANGED row
        PROVE  OthersSame(g)
    BY <1>2
  <1>3. UNCHANGED <<trip, known>>
    <2>1. UNCHANGED ownerVars /\ UNCHANGED known
      BY DEF JobStep, IssueStep, RevokeStep, Begin, ReadContext, Refresh,
             Before, Reserve, PostOk, PostFails, ListAfter, Commit, Supersede,
             Audit, Finish, StartRevoke, RevokeCall, DropSecret, RecordRevoked,
             ListDrivers, RemoveDriver, teslaVars
    <2> QED BY <2>1 DEF ownerVars
  <1>4. \/ UNCHANGED row
        \/ \E r : SetGrant(g, r)
        \/ \E r, keep : Write(g, r, keep)
    <2> USE DEF Park, ParkAndAudit, Catch
    <2>1. CASE Begin(w, g) \/ ReadContext(w, g) \/ Refresh(w, g)
      BY <2>1 DEF Begin, ReadContext, Refresh
    <2>2. CASE Before(w, g) \/ Reserve(w, g) \/ PostOk(w, g) \/ PostFails(w, g)
      BY <2>2 DEF Before, Reserve, PostOk, PostFails
    <2>3. CASE ListAfter(w, g) \/ Commit(w, g) \/ Supersede(w, g)
      BY <2>3 DEF ListAfter, Commit, Supersede
    <2>4. CASE Audit(w, g) \/ Finish(w, g) \/ StartRevoke(w, g)
      BY <2>4 DEF Audit, Finish, StartRevoke
    <2>5. CASE \/ RevokeCall(w, g) \/ DropSecret(w, g) \/ RecordRevoked(w, g)
               \/ ListDrivers(w, g) \/ RemoveDriver(w, g)
      BY <2>5 DEF RevokeCall, DropSecret, RecordRevoked, ListDrivers,
                  RemoveDriver
    <2> QED BY <2>1, <2>2, <2>3, <2>4, <2>5 DEF JobStep, IssueStep, RevokeStep
  <1> QED BY <1>1, <1>2, <1>3, <1>4

\* The abstract step a change of one grant's shown link amounts to.
LEMMA WithdrawOrNothing ==
  ASSUME NEW g \in Grants, UNCHANGED <<trip, known>>,
         \A h \in Grants : h # g => Shown'[h] = Shown[h],
         Shown'[g] = Shown[g] \/ Shown'[g] = None
  PROVE  Link!Next \/ UNCHANGED <<Live, Shown, known>>
  <1>0. UNCHANGED <<Live, known>>
    BY DEF Live
  <1>1. CASE Shown'[g] = Shown[g]
    BY <1>0, <1>1 DEF Shown
  <1>2. CASE Shown'[g] = None /\ Shown[g] # None
    <2>1. Shown' = [Shown EXCEPT ![g] = None]
      BY <1>2 DEF Shown
    <2> QED BY <1>0, <1>2, <2>1 DEF Link!Next, Link!Withdraw
  <1> QED BY <1>1, <1>2

LEMMA ShownAt ==
  ASSUME NEW g \in Grants
  PROVE  /\ Shown[g] = IF row[g].status = "invite_ready" THEN secret[g] ELSE None
         /\ Shown'[g] = IF row'[g].status = "invite_ready" THEN secret'[g]
                                                          ELSE None
  BY DEF Shown

\* A step that keeps every grant's status and secret shows what was shown.
LEMMA SameStatus ==
  ASSUME UNCHANGED secret,
         \A g \in Grants : row'[g].status = row[g].status
  PROVE  UNCHANGED Shown
  BY DEF Shown

LEMMA ShownKept ==
  ASSUME KeepsAll, UNCHANGED secret, NEW g \in Grants
  PROVE  Shown'[g] = Shown[g] \/ Shown'[g] = None
  BY ShownAt DEF KeepsAll, Keeps, Quiet

\* A job's step publishes, withdraws or changes nothing the guest can see.
LEMMA LinkJob ==
  ASSUME TypeOK, FoundOK, Unready, NEW w \in Workers, NEW g \in Grants,
         JobStep(w, g)
  PROVE  Link!Next \/ UNCHANGED <<Live, Shown, known>>
  <1>1. OthersSame(g) /\ UNCHANGED <<trip, known>>
    BY JobWritesOwnRow
  <1>2. \/ KeepsAll /\ UNCHANGED secret
        \/ /\ \A h \in Grants : h # g => secret'[h] = secret[h]
           /\ row'[g].status # "invite_ready"
        \/ /\ CommitGuard(w, g)
           /\ At(w, g, "commit")
           /\ row'[g].status = "invite_ready"
           /\ secret' = [secret EXCEPT ![g] = mem[<<w, g>>].inv]
    <2>1. CASE Reserve(w, g)
      BY <2>1, ReserveRow
    <2>2. CASE ListAfter(w, g)
      BY <2>2, ListAfterRow
    <2>3. CASE Commit(w, g)
      BY <2>3, CommitRow DEF Commit
    <2>4. CASE Supersede(w, g)
      BY <2>4, SupersedeRow
    <2>5. CASE RecordRevoked(w, g)
      BY <2>5, RecordRevokedRow
    <2>7. CASE DropSecret(w, g)
      <3>1. row[g].status # "invite_ready"
        BY <2>7, ForgettingUnready
      <3> QED BY <2>7, <3>1, DropSecretRow DEF TypeOK
    <2>6. CASE /\ ~Reserve(w, g) /\ ~ListAfter(w, g) /\ ~Commit(w, g)
               /\ ~Supersede(w, g) /\ ~DropSecret(w, g) /\ ~RecordRevoked(w, g)
      <3>1. \/ Begin(w, g) \/ ReadContext(w, g)
            \/ Refresh(w, g) \/ Before(w, g) \/ PostOk(w, g) \/ PostFails(w, g)
            \/ Audit(w, g) \/ Finish(w, g)
            \/ StartRevoke(w, g) \/ RevokeCall(w, g) \/ ListDrivers(w, g)
            \/ RemoveDriver(w, g)
        BY <2>6 DEF JobStep, IssueStep, RevokeStep
      <3>2. UNCHANGED secret
        BY <3>1 DEF Begin, ReadContext, Refresh, Before, PostOk, PostFails,
                    Audit, Finish, StartRevoke, RevokeCall, ListDrivers,
                    RemoveDriver
      <3> QED BY <3>1, <3>2, BeginKeeps, IssueKeeps, RevokeKeeps
    <2> QED BY <2>1, <2>2, <2>3, <2>4, <2>5, <2>6, <2>7
  <1>3. CASE KeepsAll /\ UNCHANGED secret
    <2>1. \A h \in Grants : h # g => Shown'[h] = Shown[h]
      BY <1>1, <1>3, ShownAt DEF OthersSame
    <2> QED BY <1>1, <1>3, <2>1, ShownKept, WithdrawOrNothing
  <1>4. CASE /\ \A h \in Grants : h # g => secret'[h] = secret[h]
             /\ row'[g].status # "invite_ready"
    <2>1. \A h \in Grants : h # g => Shown'[h] = Shown[h]
      BY <1>1, <1>4, ShownAt DEF OthersSame
    <2>2. Shown'[g] = None
      BY <1>4, ShownAt
    <2> QED BY <1>1, <2>1, <2>2, WithdrawOrNothing
  <1>5. CASE /\ CommitGuard(w, g)
             /\ At(w, g, "commit")
             /\ row'[g].status = "invite_ready"
             /\ secret' = [secret EXCEPT ![g] = mem[<<w, g>>].inv]
    <2> DEFINE i == mem[<<w, g>>].inv
    <2>1. i \in Invites
      BY <1>5 DEF At, FoundOK, Jobs
    <2>2. Live[g] /\ Shown[g] = None
      BY <1>5, ShownAt DEF CommitGuard, Live
    <2>3. Shown'[g] = i
      BY <1>5, ShownAt DEF TypeOK
    <2>4. \A h \in Grants : h # g => Shown'[h] = Shown[h]
      BY <1>1, <1>5, ShownAt DEF OthersSame, TypeOK
    <2> HIDE DEF i
    <2>5. Shown' = [Shown EXCEPT ![g] = i]
      BY <2>3, <2>4 DEF Shown
    <2>6. UNCHANGED <<Live, known>>
      BY <1>1 DEF Live
    <2> QED BY <2>1, <2>2, <2>5, <2>6 DEF Link!Next, Link!Publish
  <1> QED BY <1>2, <1>3, <1>4, <1>5

\* The owner and the calendar cancel or reinstate the trip; a published link
\* stays until a worker withdraws it.
LEMMA LinkOwner ==
  ASSUME TypeOK, PublishedMatches, NEW g \in Grants, OwnerStep(g)
  PROVE  Link!Next \/ UNCHANGED <<Live, Shown, known>>
  <1>1. UNCHANGED <<secret, known>>
    BY DEF OwnerStep, ResolveApply, ResolveCancel, OwnerCancel, teslaVars
  <1>2. trip' = [trip EXCEPT ![g] = "live"]
        \/ trip' = [trip EXCEPT ![g] = "cancelled"]
    BY DEF OwnerStep, ResolveApply, ResolveCancel, OwnerCancel
  <1>3. row[g].status = "invite_ready" <=> row'[g].status = "invite_ready"
    <2> DEFINE old == row[g]
    <2>0. old \in Row /\ (old.status = "invite_ready" => old.pid # None)
      BY RowOfGrant DEF PublishedMatches
    <2>1. ASSUME NEW win \in Windows, ResolveApply(g, win)
          PROVE  row'[g].status = "invite_ready" <=> old.status = "invite_ready"
      <3> DEFINE st == IF old.status = "issuing" /\ old.pid = None
                       THEN "scheduled" ELSE old.status
      <3>1. PICK n : row' = [row EXCEPT ![g] =
               [old EXCEPT !.status = st, !.issue = win.issue,
                  !.revoke = win.revoke, !.next = n, !.claimedBy = None,
                  !.leased = FALSE]]
        BY <2>1 DEF ResolveApply, Write
      <3> HIDE DEF st
      <3>2. row'[g].status = st
        BY <2>0, <3>1 DEF TypeOK, Row
      <3> QED BY <3>2 DEF st
    <2>2. CASE ResolveCancel(g) \/ Write(g, CancelledRow(g), {})
      <3> DEFINE st == IF old.pid = None THEN "expired" ELSE old.status
      <3>1. PICK v, n : row' = [row EXCEPT ![g] =
               [old EXCEPT !.status = st, !.revoke = v, !.next = n,
                  !.claimedBy = None, !.leased = FALSE]]
        BY ZenonT(60), <2>2 DEF ResolveCancel, CancelledRow, Write
      <3> HIDE DEF st
      <3>2. row'[g].status = st
        BY <2>0, <3>1 DEF TypeOK, Row
      <3> QED BY <2>0, <3>2 DEF st
    <2>3. CASE UNCHANGED row
      BY <2>3
    <2> QED BY <2>1, <2>2, <2>3 DEF OwnerStep, OwnerCancel
  <1>4. OthersSame(g)
    BY DEF OwnerStep, ResolveApply, ResolveCancel, OwnerCancel, Write,
           OthersSame, TypeOK
  <1>5. UNCHANGED Shown
    BY <1>1, <1>3, <1>4 DEF Shown, OthersSame
  <1>6. Live' = [Live EXCEPT ![g] = TRUE] \/ Live' = [Live EXCEPT ![g] = FALSE]
    BY <1>2 DEF Live, TypeOK
  <1> QED BY <1>1, <1>5, <1>6 DEF Link!Next, Link!Cancel, Link!Reinstate

LEMMA LinkGuest ==
  ASSUME TypeOK, NEW g \in Grants, GuestStep(g)
  PROVE  Link!Next \/ UNCHANGED <<Live, Shown, known>>
  <1>1. UNCHANGED <<Live, Shown>>
    <2>1. UNCHANGED <<trip, row, secret>>
      BY DEF GuestStep, Onboard, GuestReads, GuestRedeems, ownerVars
    <2> QED BY <2>1 DEF Live, Shown
  <1>2. CASE GuestReads(g)
    <2>1. Live[g] /\ Shown[g] # None /\ Shown[g] = secret[g]
      BY <1>2, ShownAt DEF GuestReads, Readable, Live
    <2>2. known' = [known EXCEPT ![g] = @ \cup {Shown[g]}]
      BY <1>2, <2>1 DEF GuestReads
    <2> QED BY <1>1, <2>1, <2>2 DEF Link!Next, Link!Hand
  <1>3. CASE Onboard(g) \/ GuestRedeems(g)
    BY <1>1, <1>3 DEF Onboard, GuestRedeems, teslaVars
  <1> QED BY <1>2, <1>3 DEF GuestStep

\* Claims, crashes, lapses and what happens at Tesla show the guest nothing.
LEMMA LinkElse ==
  ASSUME TypeOK,
         \/ \E w \in Workers : Claim(w) \/ Crash(w)
         \/ \E g \in Grants : LeaseLapses(g) \/ Land(g)
         \/ \E i \in Invites : InviteLeaves(i)
         \/ OwnerInvites \/ IntegrationLost \/ Reconnect \/ Tick
         \/ UNCHANGED vars
  PROVE  UNCHANGED <<Live, Shown, known>>
  <1>1. UNCHANGED <<trip, secret, known>>
    BY DEF Claim, Crash, LeaseLapses, Land, InviteLeaves, OwnerInvites,
           IntegrationLost, Reconnect, Tick, vars, ownerVars, teslaVars
  <1>2. ASSUME NEW w \in Workers, Claim(w)
        PROVE  \A g \in Grants : row'[g].status = row[g].status
    <2> SUFFICES ASSUME NEW g \in Grants
                 PROVE  row'[g].status = row[g].status
      OBVIOUS
    <2> DEFINE r == [row[g] EXCEPT !.claimedBy = w, !.leased = TRUE]
    <2>1. r.status = row[g].status
      BY RowOfGrant DEF Row
    <2>2. row'[g] = r \/ row'[g] = row[g]
      BY <1>2 DEF Claim
    <2> HIDE DEF r
    <2> QED BY <2>1, <2>2
  <1>3. ASSUME NEW g \in Grants, LeaseLapses(g)
        PROVE  \A h \in Grants : row'[h].status = row[h].status
    <2> DEFINE r == [row[g] EXCEPT !.leased = FALSE]
    <2>1. r.status = row[g].status
      BY RowOfGrant DEF Row
    <2>2. row' = [row EXCEPT ![g] = r]
      BY <1>3 DEF LeaseLapses, TypeOK
    <2> HIDE DEF r
    <2> QED BY <2>1, <2>2 DEF TypeOK
  <1>4. \/ UNCHANGED row
        \/ \E w \in Workers : Claim(w)
        \/ \E g \in Grants : LeaseLapses(g)
    BY DEF Crash, Land, InviteLeaves, OwnerInvites, IntegrationLost, Reconnect,
           Tick, vars
  <1>5. \A g \in Grants : row'[g].status = row[g].status
    BY <1>2, <1>3, <1>4
  <1>6. UNCHANGED Shown
    BY <1>1, <1>5, SameStatus
  <1> QED BY <1>1, <1>6 DEF Live

\* In every instance the worker, the owner's RPCs and the portal's read of the
\* ready invitation together implement the abstract link: however jobs
\* overlap, crash and retry, a link is published only for a trip that is live
\* at that instant, never over another one, and handed out only while it is
\* published for a live trip.
THEOREM LinkImplemented == Spec => ImplementsGuestLink
  <1>1. Init => Link!Init
    BY DEF Init, Link!Init, Live, Shown, NewRow
  <1>2. TypeOK /\ FoundOK /\ Unready /\ PublishedMatches /\ [Next]_vars
        => [Link!Next]_<<Live, Shown, known>>
    <2> SUFFICES ASSUME TypeOK, FoundOK, Unready, PublishedMatches, [Next]_vars
                 PROVE  Link!Next \/ UNCHANGED <<Live, Shown, known>>
      OBVIOUS
    <2> QED BY LinkJob, LinkOwner, LinkGuest, LinkElse DEF Next
  <1> QED BY <1>1, <1>2, NeverReadyHere, TypeCorrect, PublishedIsRecorded, PTL
          DEF Spec, ImplementsGuestLink, Link!Spec

-----------------------------------------------------------------------------
(***************************************************************************)
(* Theorem: an invitation that is recorded and open is in somebody's care. *)
(* A row loses its next action in two ways.  A step may tell people in the *)
(* same write; or the job that withdraws records 'revoked', and then Tesla *)
(* has dropped the invitation.  In between, a crash would leave the row to *)
(* whatever next action it had: one worker never overwrites it while it is *)
(* on its way, several may.                                                *)
(***************************************************************************)

\* A worker will claim the row again, or people have been told.
Cared(r) ==
  \/ r.next # None
  \/ r.status \in {"manual_review", "reauth_required", "failed_terminal"}

Watched ==
  \A g \in Grants : row[g].pid \in open =>
    Cared(row[g]) \/ \E w \in Workers : pc[<<w, g>>] \in OnWithdrawal

\* Only a grant that never recorded an invitation expires.
ExpiredIsEmpty ==
  \A g \in Grants : row[g].status = "expired" => row[g].pid = None

\* Where a job stands that will withdraw, unless it turns to issuing.
Towards == {"queued", "context", "refresh", "startRevoke"} \cup OnWithdrawal

NextAt(j) ==
  pc[j] \in Towards =>
    \/ row[j[2]].pid = None
    \/ row[j[2]].next # None /\ row[j[2]].status \notin Terminal

NextOK == \A j \in Jobs : NextAt(j)

\* There is but one worker.
Alone == \A v, w \in Workers : v = w

-----------------------------------------------------------------------------
LEMMA NatNotNone == \A n \in Nat : n # None
  BY NullAssumption

\* The row is in somebody's care after the step, and has not just expired.
Settles(g) ==
  /\ Cared(row'[g])
  /\ row'[g].status = "expired" =>
       row[g].status = "expired" /\ row'[g].pid = row[g].pid

LEMMA CatchSettles ==
  ASSUME TypeOK, NEW w \in Workers, NEW g \in Grants,
         NEW s \in {"failed_retryable", "failed_terminal", "reauth_required"},
         Catch(w, g, s)
  PROVE  Settles(g)
  <1> DEFINE n == IF s = "failed_retryable" THEN now ELSE None
             r == [row[g] EXCEPT !.status = s, !.next = n]
  <1>1. n \in Nat \cup {None} /\ s \in Status
    BY DEF TypeOK, Status
  <1>2. SetGrant(g, r)
    BY DEF Catch
  <1>3. s = "failed_retryable" => n # None
    BY NatNotNone DEF TypeOK
  <1>4. r \in Row /\ r.status = s /\ r.next = n
    <2> HIDE DEF n
    <2> QED BY <1>1, RowOfGrant DEF Row
  <1> HIDE DEF r, n
  <1> QED BY <1>2, <1>3, <1>4, SetGrantFields DEF Settles, Cared

LEMMA ParkSettles ==
  ASSUME TypeOK, NEW g \in Grants, NEW r \in Row, SetGrant(g, Parked(r))
  PROVE  Settles(g)
  BY ParkedType, ParkedFields, SetGrantFields DEF Settles, Cared

\* A row that is due at once.
LEMMA DueSettles ==
  ASSUME TypeOK, NEW g \in Grants, NEW st \in Status \ {"expired"},
         \/ SetGrant(g, [row[g] EXCEPT !.next = now])
         \/ SetGrant(g, [row[g] EXCEPT !.status = st, !.next = now])
  PROVE  Settles(g)
  <1> DEFINE q == [row[g] EXCEPT !.next = now]
             r == [row[g] EXCEPT !.status = st, !.next = now]
  <1>0. now \in Nat /\ now # None /\ row[g] \in Row
    BY NatNotNone, RowOfGrant DEF TypeOK
  <1>1. /\ q \in Row /\ q.next = now /\ q.status = row[g].status
        /\ q.pid = row[g].pid
    BY <1>0 DEF Row
  <1>2. r \in Row /\ r.next = now /\ r.status = st
    BY <1>0 DEF Row
  <1>3. SetGrant(g, q) \/ SetGrant(g, r)
    OBVIOUS
  <1> HIDE DEF q, r
  <1> QED BY <1>0, <1>1, <1>2, <1>3, SetGrantFields
          DEF Settles, Cared

LEMMA ReserveSettles ==
  ASSUME TypeOK, NEW w \in Workers, NEW g \in Grants, Reserve(w, g),
         Fenced(w, g)
  PROVE  Settles(g)
  <1> DEFINE r == [row[g] EXCEPT !.status = "issuing", !.saved = TRUE,
                     !.before = mem[<<w, g>>].before, !.next = now]
  <1>1. r.status = "issuing" /\ r.next = now
    BY RowOfGrant DEF Row
  <1>2. row' = [row EXCEPT ![g] = r]
    BY DEF Reserve, Write
  <1>3. now # None
    BY NatNotNone DEF TypeOK
  <1> HIDE DEF r
  <1> QED BY <1>1, <1>2, <1>3 DEF Settles, Cared, TypeOK

LEMMA CommitSettles ==
  ASSUME TypeOK, NEW w \in Workers, NEW g \in Grants,
         Write(g, ReadyRow(g, mem[<<w, g>>].inv), {})
  PROVE  Settles(g)
  <1> DEFINE r == ReadyRow(g, mem[<<w, g>>].inv)
  <1>0. row[g] \in Row /\ row[g].revoke # None
    BY RowOfGrant, NatNotNone DEF Row
  <1>1. r.status = "invite_ready" /\ r.next = row[g].revoke
    BY <1>0 DEF ReadyRow, Row
  <1>2. row' = [row EXCEPT ![g] = r]
    BY DEF Write
  <1> HIDE DEF r
  <1> QED BY <1>0, <1>1, <1>2 DEF Settles, Cared, TypeOK

\* The job writes 'revoking' and leaves the next action as it is.
Withdraws(w, g) ==
  /\ pc[<<w, g>>] = "startRevoke" /\ pc'[<<w, g>>] = "revoke"
  /\ row'[g].status = "revoking"
  /\ row'[g].pid = row[g].pid /\ row'[g].next = row[g].next

LEMMA StartRevokeSettles ==
  ASSUME TypeOK, NEW w \in Workers, NEW g \in Grants, StartRevoke(w, g)
  PROVE  \/ Settles(g) /\ pc'[<<w, g>>] = "idle"
         \/ Withdraws(w, g)
  <1> DEFINE r == [row[g] EXCEPT !.status = "revoking"]
  <1>0. <<w, g>> \in Jobs /\ pc[<<w, g>>] = "startRevoke"
    BY DEF Jobs, StartRevoke, At
  <1>1. CASE Park(w, g)
    BY <1>0, <1>1, ParkSettles, RowOfGrant DEF Park, Leave, Goto, TypeOK
  <1>2. CASE Write(g, r, {}) /\ Goto(w, g, "revoke")
    <2>1. /\ r.status = "revoking" /\ r.pid = row[g].pid
          /\ r.next = row[g].next
      BY RowOfGrant DEF Row
    <2>2. row' = [row EXCEPT ![g] = r]
      BY <1>2 DEF Write
    <2> HIDE DEF r
    <2> QED BY <1>0, <1>2, <2>1, <2>2 DEF Withdraws, Goto, TypeOK
  <1> QED BY <1>1, <1>2 DEF StartRevoke

\* What a job's step can do to the care of its own row.
LEMMA JobSettles ==
  ASSUME TypeOK, FoundOK, NEW w \in Workers, NEW g \in Grants, JobStep(w, g)
  PROVE  \/ /\ row'[g] = row[g]
            /\ pc[<<w, g>>] \in OnWithdrawal => pc'[<<w, g>>] \in OnWithdrawal
            /\ pc'[<<w, g>>] \in Towards => pc[<<w, g>>] \in Towards
         \/ Settles(g) /\ pc'[<<w, g>>] \notin Towards
         \/ Withdraws(w, g)
         \/ RecordRevoked(w, g)
  <1> DEFINE j == <<w, g>>
  <1>0. j \in Jobs /\ row[g] \in Row
    BY RowOfGrant DEF Jobs
  <1>a. SetGrant(g, [row[g] EXCEPT !.next = now]) => Settles(g)
    <2>1. "issuing" \in Status \ {"expired"}
      BY DEF Status
    <2> QED BY <2>1, DueSettles
  <1> USE <1>0 DEF At, Goto, Leave, TypeOK, OnWithdrawal, Towards
  <1>1. CASE Begin(w, g)
    <2>1. ASSUME SetGrant(g, [row[g] EXCEPT !.status = "reauth_required",
                                            !.next = None])
          PROVE  Settles(g)
      <3> DEFINE r == [row[g] EXCEPT !.status = "reauth_required", !.next = None]
      <3>1. r \in Row /\ r.status = "reauth_required"
        BY DEF Row, Status
      <3>2. SetGrant(g, r)
        BY <2>1
      <3> HIDE DEF r
      <3> QED BY <3>1, <3>2, SetGrantFields DEF Settles, Cared
    <2> QED BY <1>1, <1>a, <2>1 DEF Begin
  <1>2. CASE ReadContext(w, g)
    BY <1>2, <1>a DEF ReadContext
  <1>3. CASE Refresh(w, g)
    BY <1>3, CatchSettles DEF Refresh, Catch
  <1>4. CASE Before(w, g)
    <2>1. ASSUME NEW s \in TeslaErrors, Catch(w, g, s)
          PROVE  Settles(g) /\ pc'[j] = "idle"
      BY <2>1, CatchSettles DEF TeslaErrors, Catch
    <2>2. Park(w, g) => Settles(g) /\ pc'[j] = "idle"
      BY ParkSettles DEF Park
    <2>3. \/ row' = row /\ pc[j] = "before" /\ pc'[j] \in {"after", "reserve"}
          \/ Park(w, g)
          \/ \E s \in TeslaErrors : Catch(w, g, s)
      BY <1>4 DEF Before
    <2> QED BY <2>1, <2>2, <2>3
  <1>5. CASE Reserve(w, g)
    BY <1>5, ReserveSettles DEF Reserve
  <1>6. CASE PostOk(w, g)
    BY <1>6 DEF PostOk
  <1>7. CASE PostFails(w, g)
    BY <1>7, ParkSettles DEF PostFails, ParkAndAudit
  <1>8. CASE ListAfter(w, g)
    <2>1. ASSUME NEW i \in Invites, ParkAndAudit(w, g, [row[g] EXCEPT !.pid = i])
          PROVE  Settles(g)
      <3>1. [row[g] EXCEPT !.pid = i] \in Row
        BY DEF Row
      <3> QED BY <2>1, <3>1, ParkSettles DEF ParkAndAudit
    <2>2. ParkAndAudit(w, g, row[g]) => Settles(g)
      BY ParkSettles DEF ParkAndAudit
    <2>3. SetGrant(g, [row[g] EXCEPT !.status = "issuing", !.next = now])
          => Settles(g)
      BY DueSettles DEF Status
    <2>4. /\ pc[j] = "after" /\ pc'[j] \in {"commit", "finish", "idle"}
          /\ \/ row' = row
             \/ \E i \in Invites : ParkAndAudit(w, g, [row[g] EXCEPT !.pid = i])
             \/ ParkAndAudit(w, g, row[g])
             \/ SetGrant(g, [row[g] EXCEPT !.status = "issuing", !.next = now])
      BY <1>8 DEF ListAfter, ParkAndAudit
    <2> QED BY <2>1, <2>2, <2>3, <2>4
  <1>9. CASE Commit(w, g)
    BY <1>9, CatchSettles, CommitSettles DEF Commit, Catch
  <1>10. CASE Supersede(w, g)
    <2> DEFINE i == mem[j].inv
    <2>1. SetGrant(g, Parked([row[g] EXCEPT !.pid = i])) /\ pc'[j] = "audit"
      BY <1>10 DEF Supersede, AuditAccepts
    <2>2. i \in Invites
      BY <1>10 DEF Supersede, FoundOK
    <2>3. [row[g] EXCEPT !.pid = i] \in Row
      BY <2>2 DEF Row
    <2> QED BY <2>1, <2>3, ParkSettles
  <1>11. CASE Audit(w, g)
    BY <1>11, CatchSettles DEF Audit, AuditAccepts, Catch
  <1>12. CASE Finish(w, g)
    BY <1>12, CatchSettles DEF Finish, Catch
  <1>13. CASE StartRevoke(w, g)
    BY <1>13, StartRevokeSettles
  <1>14. CASE RevokeCall(w, g)
    <2>1. ASSUME NEW s \in TeslaErrors, Catch(w, g, s)
          PROVE  Settles(g) /\ pc'[j] = "idle"
      BY <2>1, CatchSettles DEF TeslaErrors, Catch
    <2> QED BY <1>14, <2>1 DEF RevokeCall
  <1>15. CASE ListDrivers(w, g)
    <2>1. ASSUME NEW s \in TeslaErrors, Catch(w, g, s)
          PROVE  Settles(g) /\ pc'[j] = "idle"
      BY <2>1, CatchSettles DEF TeslaErrors, Catch
    <2>2. ParkAndAudit(w, g, row[g]) => Settles(g) /\ pc'[j] = "finish"
      BY ParkSettles DEF ParkAndAudit
    <2> QED BY <1>15, <2>1, <2>2 DEF ListDrivers
  <1>16. CASE RemoveDriver(w, g)
    <2>1. ASSUME NEW s \in TeslaErrors, Catch(w, g, s)
          PROVE  Settles(g) /\ pc'[j] = "idle"
      BY <2>1, CatchSettles DEF TeslaErrors, Catch
    <2> QED BY <1>16, <2>1 DEF RemoveDriver
  <1>17. CASE DropSecret(w, g)
    BY <1>17 DEF DropSecret
  <1> QED BY <1>1, <1>2, <1>3, <1>4, <1>5, <1>6, <1>7, <1>8, <1>9, <1>10,
             <1>11, <1>12, <1>13, <1>14, <1>15, <1>16, <1>17
          DEF JobStep, IssueStep, RevokeStep

LEMMA OwnerSettles ==
  ASSUME TypeOK, NEW g \in Grants, OwnerStep(g)
  PROVE  /\ OthersSame(g)
         /\ row'[g].pid = row[g].pid
         /\ row[g].pid # None =>
              /\ row'[g].status = row[g].status
              /\ row'[g] # row[g] /\ row[g].status \notin Terminal
                   => row'[g].next # None
  <1> DEFINE old == row[g]
  <1>0. old \in Row /\ now \in Nat /\ now # None
    BY RowOfGrant, NatNotNone DEF TypeOK
  <1>1. OthersSame(g)
    BY DEF OwnerStep, ResolveApply, ResolveCancel, OwnerCancel, Write,
           OthersSame, TypeOK
  <1>2. ASSUME NEW win \in Windows, ResolveApply(g, win)
        PROVE  /\ row'[g].pid = old.pid
               /\ old.pid # None => row'[g].status = old.status
               /\ old.status \notin Terminal => row'[g].next # None
    <2> DEFINE st == IF old.status = "issuing" /\ old.pid = None
                     THEN "scheduled" ELSE old.status
               n == IF old.status \in Terminal THEN None
                    ELSE IF old.status \in {"scheduled", "issuing",
                              "failed_retryable", "reauth_required"}
                    THEN Later(now, win.issue) ELSE Later(now, win.revoke)
               r == [old EXCEPT !.status = st, !.issue = win.issue,
                       !.revoke = win.revoke, !.next = n, !.claimedBy = None,
                       !.leased = FALSE]
    <2>1. row' = [row EXCEPT ![g] = r]
      BY <1>2 DEF ResolveApply, Write
    <2>2. r.pid = old.pid /\ r.status = st /\ r.next = n
      <3> HIDE DEF st, n
      <3> QED BY <1>0 DEF Row
    <2>3. old.status \notin Terminal => n # None
      <3>1. win.issue \in Nat /\ win.revoke \in Nat
        BY WindowAssumption DEF Window
      <3>2. old.status \notin Terminal => n \in Nat
        BY <1>0, <3>1 DEF Later
      <3> HIDE DEF n
      <3> QED BY <3>2, NatNotNone
    <2>4. old.pid # None => st = old.status
      OBVIOUS
    <2> HIDE DEF r, st, n
    <2> QED BY <2>1, <2>2, <2>3, <2>4 DEF TypeOK
  <1>3. ASSUME \/ ResolveCancel(g)
               \/ Write(g, CancelledRow(g), {})
        PROVE  /\ row'[g].pid = old.pid
               /\ old.pid # None => row'[g].status = old.status
               /\ old.pid # None /\ old.status \notin Terminal
                    => row'[g].next # None
    <2> DEFINE st == IF old.pid = None THEN "expired" ELSE old.status
    <2>1. PICK v, n :
            /\ row' = [row EXCEPT ![g] =
                 [old EXCEPT !.status = st, !.revoke = v, !.next = n,
                    !.claimedBy = None, !.leased = FALSE]]
            /\ old.pid # None /\ old.status \notin Terminal => n = now
      <3>1. CASE ResolveCancel(g)
        <4> DEFINE v == IF old.status \in Terminal THEN old.revoke
                        ELSE Later(now, old.issue + 1)
                   n == IF old.status \in Terminal \/ old.pid = None
                        THEN None ELSE now
        <4>1. row' = [row EXCEPT ![g] =
                 [old EXCEPT !.status = st, !.revoke = v, !.next = n,
                    !.claimedBy = None, !.leased = FALSE]]
          BY <3>1 DEF ResolveCancel, Write
        <4>2. old.pid # None /\ old.status \notin Terminal => n = now
          OBVIOUS
        <4> HIDE DEF v, n
        <4> QED BY <4>1, <4>2
      <3>2. CASE Write(g, CancelledRow(g), {})
        <4> DEFINE v == Earlier(old.revoke, now)
                   n == IF old.pid = None THEN None ELSE now
        <4>1. row' = [row EXCEPT ![g] =
                 [old EXCEPT !.status = st, !.revoke = v, !.next = n,
                    !.claimedBy = None, !.leased = FALSE]]
          BY <3>2 DEF CancelledRow, Write
        <4>2. old.pid # None => n = now
          OBVIOUS
        <4> HIDE DEF v, n
        <4> QED BY <4>1, <4>2
      <3> QED BY <1>3, <3>1, <3>2
    <2>2. old.pid # None => st = old.status
      OBVIOUS
    <2> HIDE DEF st
    <2>3. row'[g].pid = old.pid /\ row'[g].status = st /\ row'[g].next = n
      BY <1>0, <2>1 DEF TypeOK, Row
    <2> QED BY <1>0, <2>1, <2>2, <2>3
  <1>4. CASE UNCHANGED row
    BY <1>1, <1>4
  <1> QED BY <1>1, <1>2, <1>3, <1>4 DEF OwnerStep, OwnerCancel

\* Claims and lapsed claims say nothing of what the grant is waiting for.
LEMMA LeaseFields ==
  ASSUME TypeOK, (\E w \in Workers : Claim(w)) \/ \E h \in Grants : LeaseLapses(h),
         NEW g \in Grants
  PROVE  /\ row'[g].pid = row[g].pid /\ row'[g].status = row[g].status
         /\ row'[g].next = row[g].next
  <1>1. ASSUME NEW w \in Workers, Claim(w)
        PROVE  /\ row'[g].pid = row[g].pid /\ row'[g].status = row[g].status
               /\ row'[g].next = row[g].next
    <2> DEFINE r == [row[g] EXCEPT !.claimedBy = w, !.leased = TRUE]
    <2>1. /\ r.pid = row[g].pid /\ r.status = row[g].status
          /\ r.next = row[g].next
      BY RowOfGrant DEF Row
    <2>2. row'[g] = r \/ row'[g] = row[g]
      BY <1>1 DEF Claim
    <2> HIDE DEF r
    <2> QED BY <2>1, <2>2
  <1>2. ASSUME NEW h \in Grants, LeaseLapses(h)
        PROVE  /\ row'[g].pid = row[g].pid /\ row'[g].status = row[g].status
               /\ row'[g].next = row[g].next
    <2> DEFINE r == [row[h] EXCEPT !.leased = FALSE]
    <2>1. /\ r.pid = row[h].pid /\ r.status = row[h].status
          /\ r.next = row[h].next
      BY RowOfGrant DEF Row
    <2>2. row' = [row EXCEPT ![h] = r]
      BY <1>2 DEF LeaseLapses, TypeOK
    <2> HIDE DEF r
    <2> QED BY <2>1, <2>2 DEF TypeOK
  <1> QED BY <1>1, <1>2

\* Steps that neither write a row nor move a job.
LEMMA StillSteps ==
  ASSUME \/ \E g \in Grants : GuestStep(g) \/ Land(g)
         \/ \E i \in Invites : InviteLeaves(i)
         \/ OwnerInvites \/ IntegrationLost \/ Reconnect \/ Tick
         \/ UNCHANGED vars
  PROVE  UNCHANGED <<row, pc>>
  BY DEF GuestStep, Onboard, GuestReads, GuestRedeems, Land, InviteLeaves,
         OwnerInvites, IntegrationLost, Reconnect, Tick, vars, jobVars

LEMMA ExpiredStep ==
  ASSUME TypeOK, FoundOK, ExpiredIsEmpty, [Next]_vars
  PROVE  ExpiredIsEmpty'
  <1> SUFFICES ASSUME NEW g \in Grants, row'[g].status = "expired"
               PROVE  row'[g].pid = None
    BY DEF ExpiredIsEmpty
  <1> USE DEF ExpiredIsEmpty
  <1>1. ASSUME NEW w \in Workers, NEW h \in Grants, JobStep(w, h)
        PROVE  row'[g].pid = None
    <2>1. CASE g = h
      <3>1. ~RecordRevoked(w, h)
        BY <2>1, RecordRevokedRow
      <3> QED BY <1>1, <2>1, <3>1, JobSettles DEF Settles, Withdraws
    <2>2. CASE g # h
      BY <1>1, <2>2, JobWritesOwnRow DEF OthersSame
    <2> QED BY <2>1, <2>2
  <1>2. ASSUME NEW h \in Grants, OwnerStep(h)
        PROVE  row'[g].pid = None
    BY <1>2, OwnerSettles DEF OthersSame
  <1>3. CASE (\E w \in Workers : Claim(w)) \/ \E h \in Grants : LeaseLapses(h)
    BY <1>3, LeaseFields
  <1>4. ASSUME NEW w \in Workers, Crash(w)
        PROVE  row'[g].pid = None
    BY <1>4 DEF Crash
  <1> QED BY <1>1, <1>2, <1>3, <1>4, StillSteps DEF Next

\* A lone worker's job that is to withdraw has a next action until it does.
LEMMA NextStep ==
  ASSUME Alone, TypeOK, FoundOK, NextOK, [Next]_vars
  PROVE  NextOK'
  <1> SUFFICES ASSUME NEW v \in Workers, NEW g \in Grants,
                      pc'[<<v, g>>] \in Towards
               PROVE  \/ row'[g].pid = None
                      \/ row'[g].next # None /\ row'[g].status \notin Terminal
    BY DEF NextOK, NextAt, Jobs
  <1> DEFINE j == <<v, g>>
             Safe == \/ row[g].pid = None
                     \/ row[g].next # None /\ row[g].status \notin Terminal
             Safe1 == \/ row'[g].pid = None
                      \/ row'[g].next # None /\ row'[g].status \notin Terminal
  <1>0. j \in Jobs /\ (pc[j] \in Towards => Safe)
    BY DEF Jobs, NextOK, NextAt
  <1>1. ASSUME NEW w \in Workers, NEW h \in Grants, JobStep(w, h)
        PROVE  Safe1
    <2>1. CASE j = <<w, h>>
      <3>1. CASE row'[g] = row[g] /\ pc[j] \in Towards
        BY <1>0, <3>1
      <3>2. CASE Withdraws(w, h)
        BY <1>0, <2>1, <3>2 DEF Withdraws, Towards, Terminal
      <3>3. CASE RecordRevoked(w, h)
        <4>1. pc'[j] = "finish"
          BY <1>0, <2>1, <3>3 DEF RecordRevoked, Goto, TypeOK
        <4> QED BY <4>1 DEF Towards, OnWithdrawal
      <3> QED BY <1>1, <2>1, <3>1, <3>2, <3>3, JobSettles
    <2>2. CASE j # <<w, h>>
      <3>1. g # h
        BY <2>2 DEF Alone
      <3>2. pc'[j] = pc[j]
        BY <1>0, <1>1, <2>2, OneJobSteps
      <3>3. row'[g] = row[g]
        BY <1>1, <3>1, JobWritesOwnRow DEF OthersSame
      <3> QED BY <1>0, <3>2, <3>3
    <2> QED BY <2>1, <2>2
  <1>2. ASSUME NEW h \in Grants, OwnerStep(h)
        PROVE  Safe1
    <2>1. pc' = pc
      BY <1>2, OtherSteps DEF jobVars
    <2>2. CASE g = h
      BY <1>0, <1>2, <2>1, <2>2, OwnerSettles
    <2>3. CASE g # h
      BY <1>0, <1>2, <2>1, <2>3, OwnerSettles DEF OthersSame
    <2> QED BY <2>2, <2>3
  <1>3. ASSUME NEW w \in Workers, Claim(w)
        PROVE  Safe1
    <2>1. CASE g \in Due
      BY <1>3, <2>1, LeaseFields DEF Due, Terminal
    <2>2. CASE g \notin Due
      <3>1. pc'[j] = pc[j]
        BY <1>0, <1>3, <2>2 DEF Claim
      <3> QED BY <1>0, <1>3, <3>1, LeaseFields
    <2> QED BY <2>1, <2>2
  <1>4. ASSUME NEW h \in Grants, LeaseLapses(h)
        PROVE  Safe1
    <2>1. pc' = pc
      BY <1>4, OtherSteps DEF jobVars
    <2> QED BY <1>0, <1>4, <2>1, LeaseFields
  <1>5. ASSUME NEW w \in Workers, Crash(w)
        PROVE  Safe1
    <2>1. row' = row /\ (pc'[j] = pc[j] \/ pc'[j] = "idle")
      BY <1>0, <1>5 DEF Crash
    <2> QED BY <1>0, <2>1 DEF Towards, OnWithdrawal
  <1>6. CASE UNCHANGED <<row, pc>>
    BY <1>0, <1>6
  <1> QED BY <1>1, <1>2, <1>3, <1>4, <1>5, <1>6, StillSteps DEF Next

LEMMA WatchedStep ==
  ASSUME "crash" \notin FaultKinds \/ (Alone /\ NextOK),
         TypeOK, FoundOK, IdsOK, RevokingOK, RevokedIsGone, ExpiredIsEmpty,
         Watched, [Next]_vars
  PROVE  Watched'
  <1> SUFFICES ASSUME NEW g \in Grants, row'[g].pid \in open'
               PROVE  \/ Cared(row'[g])
                      \/ \E w \in Workers : pc'[<<w, g>>] \in OnWithdrawal
    BY DEF Watched
  <1> DEFINE Held == \E w \in Workers : pc[<<w, g>>] \in OnWithdrawal
             Held1 == \E w \in Workers : pc'[<<w, g>>] \in OnWithdrawal
  <1>0. row'[g].pid = row[g].pid => row[g].pid \in open
    <2>1. row[g].pid \in Used \cup {None}
      BY DEF IdsOK
    <2> QED BY <2>1, StaysClosed
  <1>a. row[g].pid \in open => Cared(row[g]) \/ Held
    BY DEF Watched
  <1>b. row[g].pid \in open => row[g].status \notin {"revoked", "expired"}
    BY NullAssumption DEF RevokedIsGone, ExpiredIsEmpty, TypeOK
  <1>1. ASSUME NEW w \in Workers, NEW h \in Grants, JobStep(w, h)
        PROVE  Cared(row'[g]) \/ Held1
    <2>1. \A v \in Workers : <<v, g>> # <<w, h>> => pc'[<<v, g>>] = pc[<<v, g>>]
      <3> SUFFICES ASSUME NEW v \in Workers, <<v, g>> # <<w, h>>
                   PROVE  pc'[<<v, g>>] = pc[<<v, g>>]
        OBVIOUS
      <3>1. <<v, g>> \in Jobs
        BY DEF Jobs
      <3> QED BY <1>1, <3>1, OneJobSteps
    <2>2. CASE g = h
      <3>1. CASE RecordRevoked(w, h)
        <4>1. row[g].pid \notin open
          BY <2>2, <3>1 DEF RecordRevoked, At, RevokingOK, RevokingAt, Jobs
        <4> QED BY <1>0, <2>2, <3>1, <4>1, RecordRevokedRow
      <3>2. CASE Withdraws(w, h)
        BY <2>2, <3>2 DEF Withdraws, OnWithdrawal
      <3>3. CASE Settles(g)
        BY <3>3 DEF Settles
      <3>4. CASE /\ row'[g] = row[g]
                 /\ pc[<<w, g>>] \in OnWithdrawal => pc'[<<w, g>>] \in OnWithdrawal
        <4>1. Held => Held1
          BY <2>1, <3>4
        <4> QED BY <1>0, <1>a, <3>4, <4>1
      <3> QED BY <1>1, <2>2, <3>1, <3>2, <3>3, <3>4, JobSettles
    <2>3. CASE g # h
      <3>1. row'[g] = row[g]
        BY <1>1, <2>3, JobWritesOwnRow DEF OthersSame
      <3>2. Held => Held1
        BY <2>1, <2>3
      <3> QED BY <1>0, <1>a, <3>1, <3>2
    <2> QED BY <2>2, <2>3
  <1>2. ASSUME NEW h \in Grants, OwnerStep(h)
        PROVE  Cared(row'[g]) \/ Held1
    <2>1. pc' = pc
      BY <1>2, OtherSteps DEF jobVars
    <2>2. CASE row'[g] = row[g]
      BY <1>0, <1>a, <2>1, <2>2
    <2>3. CASE g = h /\ row'[g] # row[g]
      <3>1. row[g].pid \in open /\ row[g].pid # None
        BY <1>0, <1>2, <2>3, OwnerSettles, NullAssumption DEF TypeOK
      <3>2. CASE row[g].status \in Terminal
        BY <1>2, <1>b, <2>3, <3>1, <3>2, OwnerSettles DEF Terminal, Cared
      <3>3. CASE row[g].status \notin Terminal
        BY <1>2, <2>3, <3>1, <3>3, OwnerSettles DEF Cared
      <3> QED BY <3>2, <3>3
    <2> QED BY <1>2, <2>2, <2>3, OwnerSettles DEF OthersSame
  <1>3. ASSUME NEW w \in Workers, Claim(w)
        PROVE  Cared(row'[g]) \/ Held1
    <2>1. Held => Held1
      <3> SUFFICES ASSUME NEW v \in Workers, pc[<<v, g>>] \in OnWithdrawal
                   PROVE  pc'[<<v, g>>] \in OnWithdrawal
        OBVIOUS
      <3>1. <<v, g>> \in Jobs /\ v # w
        BY <1>3 DEF Jobs, Claim, At, OnWithdrawal
      <3> QED BY <1>3, <3>1 DEF Claim
    <2> QED BY <1>0, <1>3, <1>a, <2>1, LeaseFields DEF Cared
  <1>4. ASSUME NEW h \in Grants, LeaseLapses(h)
        PROVE  Cared(row'[g]) \/ Held1
    <2>1. pc' = pc
      BY <1>4, OtherSteps DEF jobVars
    <2> QED BY <1>0, <1>4, <1>a, <2>1, LeaseFields DEF Cared
  <1>5. ASSUME NEW w \in Workers, Crash(w)
        PROVE  Cared(row'[g]) \/ Held1
    <2>1. Alone /\ NextOK /\ row' = row
      BY <1>5 DEF Crash, Fault
    <2>2. ASSUME NEW v \in Workers, pc[<<v, g>>] \in OnWithdrawal
          PROVE  row[g].pid = None \/ row[g].next # None
      BY <2>1, <2>2 DEF NextOK, NextAt, Towards, Jobs
    <2>3. row[g].pid \in open /\ row[g].pid # None
      BY <1>0, <2>1, NullAssumption DEF TypeOK
    <2> QED BY <1>a, <2>1, <2>2, <2>3 DEF Cared
  <1>6. CASE UNCHANGED <<row, pc>>
    BY <1>0, <1>6, <1>a
  <1> QED BY <1>1, <1>2, <1>3, <1>4, <1>5, <1>6, StillSteps DEF Next

\* Without crashes, or with a single worker whatever crashes and restarts, an
\* invitation that a row records and Tesla still has open is never left to
\* nobody.
THEOREM LiveIsWatched ==
  ASSUME "crash" \notin FaultKinds \/ Alone
  PROVE  Spec => []KnownLiveIsWatched
  <1> DEFINE Inv == /\ TypeOK /\ FoundOK /\ SessionExclusive /\ IdsOK
                    /\ RevokingOK /\ RevokedIsGone /\ ExpiredIsEmpty
                    /\ Watched /\ (Alone => NextOK)
  <1>1. Init => Inv
    <2> SUFFICES ASSUME Init
                 PROVE  Inv
      OBVIOUS
    <2>1. IdsOK /\ RevokingOK /\ RevokedIsGone
      BY DEF Init, IdsOK, RevokingOK, RevokingAt, RevokedIsGone, NewRow, Used
    <2>2. ExpiredIsEmpty /\ Watched /\ NextOK
      BY DEF Init, ExpiredIsEmpty, Watched, NextOK, NextAt, NewRow, Towards,
             OnWithdrawal
    <2> QED BY <2>1, <2>2, InitJobs
  <1>2. Inv /\ [Next]_vars => Inv'
    <2> SUFFICES ASSUME Inv, [Next]_vars
                 PROVE  Inv'
      OBVIOUS
    <2>1. (TypeOK /\ FoundOK /\ SessionExclusive)'
      BY TypeStep, FoundStep, SessionStep
    <2>2. (IdsOK /\ RevokingOK /\ RevokedIsGone)'
      BY IdsStep, RevokingStep, RevokedStep
    <2>a. "crash" \notin FaultKinds \/ (Alone /\ NextOK)
      OBVIOUS
    <2>3. ExpiredIsEmpty' /\ Watched'
      BY <2>a, ExpiredStep, WatchedStep
    <2>4. (Alone => NextOK)'
      BY NextStep DEF Alone
    <2> QED BY <2>1, <2>2, <2>3, <2>4
  <1>3. Inv => KnownLiveIsWatched
    <2>1. OnWithdrawal \subseteq InSession
      BY DEF OnWithdrawal, InSession, PC
    <2> QED BY <2>1 DEF Watched, Cared, KnownLiveIsWatched
  <1> QED BY <1>1, <1>2, <1>3, PTL DEF Spec

-----------------------------------------------------------------------------
(***************************************************************************)
(* Theorem: a guest is only handed invitations made for that guest's trip. *)
(* A job takes the one invitation that is new in Tesla's list for its own. *)
(* That is so because its own is there: from the answer to the POST until  *)
(* the job finds it, nobody else can take it off the list or record it,    *)
(* and the before-set it is compared with is the one that was saved.       *)
(***************************************************************************)

\* Every id that is recorded, stored, found or handed out for a grant was made
\* for it.
OwnIds ==
  /\ \A g \in Grants :
       /\ row[g].pid # None => creator[row[g].pid] = g
       /\ secret[g] # None => creator[secret[g]] = g
       /\ \A i \in known[g] : creator[i] = g
  /\ \A j \in Jobs :
       pc[j] \in {"commit", "supersede"} => creator[mem[j].inv] = j[2]

\* A before-set holds invitations that had been made by then.
BeforeOK ==
  /\ \A g \in Grants : row[g].before \subseteq Used
  /\ \A j \in Jobs : pc[j] = "reserve" => mem[j].before \subseteq Used

\* The job compares with the before-set that its row has.
SameBefore ==
  \A j \in Jobs : pc[j] \in {"refresh", "before", "post", "after"} =>
    mem[j].before = row[j[2]].before

\* The invitations that the grant's last POST made and nobody has yet.
MineOf(g) ==
  {i \in open : /\ creator[i] = g
                /\ i \notin row[g].before \cup known[g] \cup {row[g].pid, secret[g]}}

Made(g) == MineOf(g) # {}

\* Between the reservation and the end of the POST, and once the job has found
\* what it made.
Busy == {"post", "commit", "supersede"}

MadeRow(g) ==
  row[g].status = "issuing" => Made(g) \/ \E w \in Workers : pc[<<w, g>>] \in Busy

MadeJob(j) ==
  pc[j] = "after" \/ (pc[j] \in {"refresh", "before"} /\ mem[j].issuing)
    => Made(j[2])

MadeOK == (\A g \in Grants : MadeRow(g)) /\ \A j \in Jobs : MadeJob(j)

-----------------------------------------------------------------------------
\* What takes an invitation off Tesla's list.
LEMMA DropStep ==
  ASSUME TypeOK, [Next]_vars, "leaves" \notin FaultKinds,
         NEW i \in open, i \notin open'
  PROVE  \/ \E w \in Workers, g \in Grants :
              \/ pc[<<w, g>>] = "revoke" /\ i = mem[<<w, g>>].pid
              \/ pc[<<w, g>>] = "supersede" /\ i = mem[<<w, g>>].inv
         \/ \E g \in Grants : i \in known[g]
  <1>1. ASSUME NEW w \in Workers, NEW g \in Grants, JobStep(w, g)
        PROVE  \/ pc[<<w, g>>] = "revoke" /\ i = mem[<<w, g>>].pid
               \/ pc[<<w, g>>] = "supersede" /\ i = mem[<<w, g>>].inv
    <2>1. CASE \/ Begin(w, g) \/ ReadContext(w, g) \/ Refresh(w, g)
               \/ Before(w, g) \/ Reserve(w, g) \/ ListAfter(w, g)
               \/ Commit(w, g) \/ Audit(w, g) \/ Finish(w, g)
               \/ StartRevoke(w, g) \/ DropSecret(w, g)
               \/ RecordRevoked(w, g) \/ ListDrivers(w, g)
      BY <2>1 DEF Begin, ReadContext, Refresh, Before, Reserve, ListAfter,
                  Commit, Audit, Finish, StartRevoke, DropSecret, RecordRevoked,
                  ListDrivers, teslaVars
    <2>2. CASE PostOk(w, g) \/ PostFails(w, g) \/ RemoveDriver(w, g)
      BY <2>2 DEF PostOk, Create, PostFails, RemoveDriver
    <2>3. CASE Supersede(w, g) \/ RevokeCall(w, g)
      BY <2>3 DEF Supersede, RevokeCall, At
    <2> QED BY <1>1, <2>1, <2>2, <2>3 DEF JobStep, IssueStep, RevokeStep
  <1>2. ASSUME NEW w \in Workers, Claim(w) \/ Crash(w)
        PROVE  FALSE
    BY <1>2 DEF Claim, Crash, teslaVars
  <1>3. ASSUME NEW g \in Grants,
               OwnerStep(g) \/ GuestStep(g) \/ LeaseLapses(g) \/ Land(g)
        PROVE  i \in known[g]
    BY <1>3 DEF OwnerStep, ResolveApply, ResolveCancel, OwnerCancel, GuestStep,
                Onboard, GuestReads, GuestRedeems, LeaseLapses, Land, Create,
                teslaVars
  <1>4. CASE \/ IntegrationLost \/ Reconnect \/ Tick \/ OwnerInvites
             \/ (\E k \in Invites : InviteLeaves(k)) \/ UNCHANGED vars
    BY <1>4 DEF IntegrationLost, Reconnect, Tick, OwnerInvites, Create,
                InviteLeaves, Fault, vars, teslaVars
  <1> QED BY <1>1, <1>2, <1>3, <1>4 DEF Next

\* What a guest has been handed.
LEMMA KnownStep ==
  ASSUME TypeOK, [Next]_vars, NEW g \in Grants, NEW i \in known'[g]
  PROVE  i \in known[g] \/ (i = secret[g] /\ secret[g] # None)
  <1>1. ASSUME NEW h \in Grants, GuestStep(h)
        PROVE  i \in known[g] \/ (i = secret[g] /\ secret[g] # None)
    BY <1>1 DEF GuestStep, Onboard, GuestReads, Readable, GuestRedeems,
                teslaVars, TypeOK
  <1>2. ASSUME \/ \E w \in Workers : Claim(w) \/ Crash(w)
               \/ \E h \in Grants : OwnerStep(h) \/ LeaseLapses(h) \/ Land(h)
               \/ \E k \in Invites : InviteLeaves(k)
               \/ OwnerInvites \/ IntegrationLost \/ Reconnect \/ Tick
               \/ UNCHANGED vars
        PROVE  known' = known
    BY ZenonT(60), <1>2 DEF Claim, Crash, OwnerStep, ResolveApply, ResolveCancel,
                OwnerCancel, LeaseLapses, Land, InviteLeaves, OwnerInvites,
                IntegrationLost, Reconnect, Tick, vars, teslaVars
  <1> QED BY <1>1, <1>2, JobWritesOwnRow DEF Next

\* A job's step stores or deletes the URL of its own grant only, and what it
\* stores is what it found.
LEMMA JobSecret ==
  ASSUME TypeOK, NEW w \in Workers, NEW g \in Grants, JobStep(w, g)
  PROVE  \/ UNCHANGED secret
         \/ DropSecret(w, g) /\ secret' = [secret EXCEPT ![g] = None]
         \/ Commit(w, g) /\ secret' = [secret EXCEPT ![g] = mem[<<w, g>>].inv]
  BY DEF JobStep, IssueStep, RevokeStep, Begin, ReadContext, Refresh, Before,
         Reserve, PostOk, PostFails, ListAfter, Commit, Supersede, Audit,
         Finish, StartRevoke, RevokeCall, DropSecret, RecordRevoked, ListDrivers,
         RemoveDriver

\* A step that is no job's keeps all rows and moves no job that is at work.
LEMMA NoJobStep ==
  ASSUME TypeOK, "crash" \notin FaultKinds, [Next]_vars,
         \A w \in Workers, g \in Grants : ~JobStep(w, g)
  PROVE  /\ KeepsAll /\ UNCHANGED secret
         /\ \A j \in Jobs : pc[j] # "idle" => pc'[j] = pc[j]
         /\ \A j \in Jobs : pc'[j] \in {"idle", "queued"} \/ pc'[j] = pc[j]
         /\ mem' = mem
  <1>1. KeepsAll /\ UNCHANGED secret
    <2>1. \A w \in Workers, g \in Grants : ~Special(w, g)
      BY DEF Special, JobStep, IssueStep, RevokeStep
    <2> QED BY <2>1, OthersKeep
  <1>2. ASSUME NEW w \in Workers, Claim(w)
        PROVE  /\ \A j \in Jobs : pc[j] # "idle" => pc'[j] = pc[j]
               /\ \A j \in Jobs : pc'[j] \in {"idle", "queued"} \/ pc'[j] = pc[j]
               /\ mem' = mem
    <2>1. ASSUME NEW j \in Jobs, j[1] = w
          PROVE  pc[j] = "idle"
      <3>1. j = <<w, j[2]>> /\ j[2] \in Grants
        BY <2>1 DEF Jobs
      <3> QED BY <1>2, <3>1 DEF Claim, At
    <2> QED BY <1>2, <2>1 DEF Claim
  <1>3. ASSUME NEW w \in Workers, Crash(w)
        PROVE  FALSE
    BY <1>3 DEF Crash, Fault
  <1>4. CASE UNCHANGED jobVars
    BY <1>1, <1>4 DEF jobVars
  <1>5. CASE UNCHANGED vars
    BY <1>4, <1>5 DEF vars, jobVars
  <1> QED BY <1>1, <1>2, <1>3, <1>4, <1>5, OtherSteps, EnvironmentSteps DEF Next

\* While a job is in the session nobody else changes its row's id, before-set
\* or secret.
LEMMA Bystander ==
  ASSUME TypeOK, FoundOK, SessionExclusive, "crash" \notin FaultKinds,
         [Next]_vars, NEW v \in Workers, NEW g \in Grants,
         pc[<<v, g>>] \in InSession, ~JobStep(v, g)
  PROVE  /\ Keeps(g) /\ secret'[g] = secret[g]
         /\ pc'[<<v, g>>] = pc[<<v, g>>] /\ mem'[<<v, g>>] = mem[<<v, g>>]
  <1> DEFINE j == <<v, g>>
  <1>0. j \in Jobs /\ lock = j /\ pc[j] # "idle"
    BY DEF Jobs, SessionExclusive, InSession
  <1>1. ASSUME NEW w \in Workers, NEW h \in Grants, JobStep(w, h)
        PROVE  /\ Keeps(g) /\ secret'[g] = secret[g]
               /\ pc'[j] = pc[j] /\ mem'[j] = mem[j]
    <2>1. j # <<w, h>> /\ <<w, h>> \in Jobs
      BY <1>1 DEF Jobs
    <2>2. pc'[j] = pc[j] /\ mem'[j] = mem[j]
      BY <1>0, <1>1, <2>1, OneJobSteps
    <2>3. CASE h # g
      <3>1. row'[g] = row[g]
        BY <1>1, <2>3, JobWritesOwnRow DEF OthersSame
      <3>a. secret' = secret \/ \E x : secret' = [secret EXCEPT ![h] = x]
        BY <1>1, JobSecret
      <3>b. secret \in [Grants -> Invites \cup {None}]
        BY DEF TypeOK
      <3>2. secret'[g] = secret[g]
        BY <2>3, <3>a, <3>b
      <3> QED BY <2>2, <3>1, <3>2 DEF Keeps
    <2>4. CASE h = g
      <3>1. pc[<<w, h>>] \notin InSession
        BY <1>0, <2>1 DEF SessionExclusive
      <3>2. Begin(w, h)
        BY <1>1, <3>1 DEF JobStep, IssueStep, RevokeStep, ReadContext, Refresh,
             Before, Reserve, PostOk, PostFails, ListAfter, Commit, Supersede,
             Audit, Finish, StartRevoke, RevokeCall, DropSecret, RecordRevoked,
             ListDrivers, RemoveDriver, At, InSession, PC
      <3>3. KeepsAll /\ UNCHANGED secret
        BY <3>2, BeginKeeps DEF Begin
      <3> QED BY <2>2, <3>3 DEF KeepsAll
    <2> QED BY <2>3, <2>4
  <1>2. CASE \A w \in Workers, h \in Grants : ~JobStep(w, h)
    BY <1>0, <1>2, NoJobStep DEF KeepsAll
  <1> QED BY <1>1, <1>2

\* The job's own way to the places where its before-set matters.
LEMMA OwnWay ==
  ASSUME TypeOK, NEW w \in Workers, NEW g \in Grants, JobStep(w, g),
         pc'[<<w, g>>] \in {"refresh", "before", "reserve", "post", "after"}
  PROVE  LET j == <<w, g>> IN
         \/ /\ pc[j] = "context" /\ pc'[j] = "refresh" /\ UNCHANGED <<row, secret>>
            /\ mem'[j].before = row[g].before
            /\ mem'[j].issuing = (row[g].status = "issuing")
         \/ /\ pc[j] = "refresh" /\ pc'[j] = "before"
            /\ UNCHANGED <<row, secret, mem>>
         \/ /\ pc[j] = "before" /\ pc'[j] = "after" /\ mem[j].issuing
            /\ UNCHANGED <<row, secret, mem>>
         \/ /\ pc[j] = "before" /\ pc'[j] = "reserve"
            /\ UNCHANGED <<row, secret>> /\ mem'[j].before = open
         \/ /\ pc[j] = "reserve" /\ pc'[j] = "post" /\ UNCHANGED mem
            /\ row'[g].before = mem[j].before
         \/ /\ pc[j] = "post" /\ pc'[j] = "after" /\ PostOk(w, g)
            /\ UNCHANGED <<row, secret, mem, known>>
  <1> DEFINE j == <<w, g>>
  <1>0. j \in Jobs
    BY DEF Jobs
  <1> USE <1>0 DEF At, Goto, Leave, TypeOK
  <1>1. CASE ReadContext(w, g)
    <2> DEFINE m == [issuing |-> row[g].status = "issuing",
                     revoke |-> row[g].revoke, pid |-> row[g].pid,
                     saved |-> row[g].saved, before |-> row[g].before,
                     inv |-> None]
    <2>1. m.before = row[g].before /\ m.issuing = (row[g].status = "issuing")
      OBVIOUS
    <2>2. /\ pc[j] = "context" /\ pc'[j] = "refresh" /\ UNCHANGED <<row, secret>>
          /\ mem' = [mem EXCEPT ![j] = m]
      BY <1>1 DEF ReadContext
    <2> HIDE DEF m
    <2> QED BY <2>1, <2>2
  <1>2. CASE Refresh(w, g)
    BY <1>2 DEF Refresh, Catch
  <1>3. CASE Before(w, g)
    <2> DEFINE m == [mem[j] EXCEPT !.before = open]
    <2>1. m.before = open
      BY MemOfJob DEF Mem
    <2>2. /\ pc[j] = "before" /\ UNCHANGED <<row, secret>>
          /\ \/ pc'[j] = "after" /\ mem[j].issuing /\ UNCHANGED mem
             \/ pc'[j] = "reserve" /\ mem' = [mem EXCEPT ![j] = m]
      BY <1>3 DEF Before, Park, Catch
    <2> HIDE DEF m
    <2> QED BY <2>1, <2>2
  <1>4. CASE Reserve(w, g)
    <2>1. pc[j] = "reserve" /\ pc'[j] = "post" /\ UNCHANGED mem
      BY <1>4 DEF Reserve
    <2>2. row'[g].before = mem[j].before
      BY <1>4, <2>1, ReserveRow
    <2> QED BY <2>1, <2>2
  <1>5. CASE PostOk(w, g)
    BY <1>5 DEF PostOk
  <1>6. CASE \/ PostFails(w, g) \/ ListAfter(w, g) \/ Commit(w, g)
             \/ Supersede(w, g) \/ Audit(w, g) \/ Finish(w, g) \/ Begin(w, g)
    <2>1. pc'[j] \notin {"refresh", "before", "reserve", "post", "after"}
      <3>1. CASE PostFails(w, g) \/ Begin(w, g)
        BY <3>1 DEF PostFails, Begin, ParkAndAudit
      <3>2. CASE ListAfter(w, g)
        BY <3>2 DEF ListAfter, ParkAndAudit
      <3>3. CASE Commit(w, g)
        BY <3>3 DEF Commit, Catch
      <3>4. CASE Supersede(w, g) \/ Audit(w, g) \/ Finish(w, g)
        BY <3>4 DEF Supersede, Audit, Finish, ParkAndAudit, Catch
      <3> QED BY <1>6, <3>1, <3>2, <3>3, <3>4
    <2> QED BY <2>1
  <1>7. CASE RevokeStep(w, g)
    <2>1. pc'[j] \notin {"refresh", "before", "reserve", "post", "after"}
      <3>1. CASE StartRevoke(w, g) \/ DropSecret(w, g) \/ RecordRevoked(w, g)
        BY <3>1 DEF StartRevoke, DropSecret, RecordRevoked, Park
      <3>2. CASE RevokeCall(w, g)
        BY <3>2 DEF RevokeCall, Catch
      <3>3. CASE ListDrivers(w, g)
        BY <3>3 DEF ListDrivers, ParkAndAudit, Catch
      <3>4. CASE RemoveDriver(w, g)
        BY <3>4 DEF RemoveDriver, Catch
      <3> QED BY <1>7, <3>1, <3>2, <3>3, <3>4 DEF RevokeStep
    <2> QED BY <2>1
  <1> QED BY <1>1, <1>2, <1>3, <1>4, <1>5, <1>6, <1>7 DEF JobStep, IssueStep

\* What a job finds new in the list was made for its own grant.
LEMMA FoundIsOwn ==
  ASSUME MadeOK, SameBefore, NEW w \in Workers, NEW g \in Grants,
         pc[<<w, g>>] = "after", NEW i, Candidates(w, g) = {i}
  PROVE  creator[i] = g
  <1>1. <<w, g>> \in Jobs
    BY DEF Jobs
  <1>2. Made(g) /\ mem[<<w, g>>].before = row[g].before
    BY <1>1 DEF MadeOK, MadeJob, SameBefore
  <1>3. PICK k \in open : creator[k] = g /\ k \notin row[g].before
    BY <1>2 DEF Made, MineOf
  <1>4. k \in Candidates(w, g)
    BY <1>2, <1>3 DEF Candidates
  <1> QED BY <1>3, <1>4

LEMMA OwnStep ==
  ASSUME TypeOK, FoundOK, IdsOK, OwnIds, MadeOK, SameBefore, [Next]_vars
  PROVE  OwnIds'
  <1>0. \A i \in Used : creator'[i] = creator[i]
    BY NeverReopened
  <1>a. \A i \in Invites, g \in Grants : creator[i] = g => i \in Used
    BY NullAssumption DEF Used
  <1>b. \A i \in Invites, g \in Grants : creator[i] = g => creator'[i] = g
    BY <1>0, <1>a
  <1>1. ASSUME NEW j \in Jobs, pc'[j] \in {"commit", "supersede"}
        PROVE  creator'[mem'[j].inv] = j[2]
    <2>1. mem'[j].inv \in Used /\ creator[mem'[j].inv] = j[2]
      <3>1. CASE pc[j] \in {"commit", "supersede"} /\ mem'[j].inv = mem[j].inv
        BY <3>1 DEF IdsOK, OwnIds
      <3>2. ASSUME NEW w \in Workers, NEW g \in Grants, pc[j] = "after",
                   j = <<w, g>>, Candidates(w, g) = {mem'[j].inv}
            PROVE  mem'[j].inv \in Used /\ creator[mem'[j].inv] = j[2]
        BY <3>2, FoundIsOwn DEF Candidates, IdsOK
      <3> QED BY <1>1, <3>1, <3>2, InvStep
    <2> QED BY <1>0, <2>1
  <1>2. ASSUME NEW g \in Grants, row'[g].pid # None
        PROVE  creator'[row'[g].pid] = g
    <2>0. row[g].pid \in Invites \cup {None}
      BY RowOfGrant DEF Row
    <2>1. CASE row'[g].pid = row[g].pid
      BY <1>b, <1>2, <2>0, <2>1 DEF OwnIds
    <2>2. ASSUME NEW w \in Workers, NEW h \in Grants, OthersSame(h),
                 ListAfter(w, h) \/ Commit(w, h) \/ Supersede(w, h)
          PROVE  creator'[row'[g].pid] = g
      <3>0. <<w, h>> \in Jobs
        BY DEF Jobs
      <3>1. CASE g # h
        BY <2>1, <2>2, <3>1 DEF OthersSame
      <3>2. CASE g = h /\ row'[g].pid # row[g].pid
        <4>1. creator[row'[g].pid] = g /\ row'[g].pid \in Invites
          <5>1. CASE ListAfter(w, h)
            <6>1. row'[g].pid \in open /\ Candidates(w, g) = {row'[g].pid}
              BY <3>2, <5>1, ListAfterRow DEF KeepsAll, Keeps
            <6>2. pc[<<w, g>>] = "after"
              BY <3>2, <5>1 DEF ListAfter, At
            <6> QED BY <6>1, <6>2, FoundIsOwn DEF TypeOK
          <5>2. CASE Commit(w, h)
            <6>1. row'[g].pid = mem[<<w, h>>].inv
              BY <3>2, <5>2, CommitRow DEF KeepsAll, Keeps
            <6> QED BY <3>0, <3>2, <5>2, <6>1 DEF Commit, At, OwnIds, FoundOK
          <5>3. CASE Supersede(w, h)
            <6>1. row'[g].pid = mem[<<w, h>>].inv
              BY <3>2, <5>3, SupersedeRow DEF KeepsAll, Keeps
            <6> QED BY <3>0, <3>2, <5>3, <6>1 DEF Supersede, At, OwnIds, FoundOK
          <5> QED BY <2>2, <5>1, <5>2, <5>3
        <4> QED BY <1>b, <4>1
      <3> QED BY <2>1, <3>1, <3>2
    <2> QED BY <2>1, <2>2, PidStep
  <1>3. ASSUME NEW g \in Grants, secret'[g] # None
        PROVE  creator'[secret'[g]] = g
    <2>0. secret[g] \in Invites \cup {None}
      BY DEF TypeOK
    <2>1. CASE secret'[g] = secret[g]
      BY <1>b, <1>3, <2>0, <2>1 DEF OwnIds
    <2>2. ASSUME NEW w \in Workers, NEW h \in Grants, JobStep(w, h)
          PROVE  creator'[secret'[g]] = g
      <3>0. <<w, h>> \in Jobs /\ secret \in [Grants -> Invites \cup {None}]
        BY DEF Jobs, TypeOK
      <3>1. CASE Commit(w, h) /\ secret' = [secret EXCEPT ![h] = mem[<<w, h>>].inv]
        <4>1. /\ mem[<<w, h>>].inv \in Invites
              /\ creator[mem[<<w, h>>].inv] = h
          BY <3>0, <3>1 DEF Commit, At, OwnIds, FoundOK
        <4> QED BY <1>b, <2>1, <3>0, <3>1, <4>1
      <3>2. CASE secret' = [secret EXCEPT ![h] = None]
        BY <1>3, <2>1, <3>0, <3>2
      <3> QED BY <2>1, <2>2, <3>1, <3>2, JobSecret
    <2>3. CASE \A w \in Workers, h \in Grants : ~JobStep(w, h)
      <3>1. \A w \in Workers, h \in Grants : ~Special(w, h)
        BY <2>3 DEF Special, JobStep, IssueStep, RevokeStep
      <3> QED BY <2>1, <3>1, OthersKeep
    <2> QED BY <2>2, <2>3
  <1>4. ASSUME NEW g \in Grants, NEW i \in known'[g]
        PROVE  creator'[i] = g
    <2>1. i \in Invites /\ creator[i] = g
      BY KnownStep DEF TypeOK, OwnIds
    <2> QED BY <1>b, <2>1
  <1> QED BY <1>1, <1>2, <1>3, <1>4 DEF OwnIds

\* A before-set only ever grows by what is listed.
LEMMA BeforeSetStep ==
  ASSUME TypeOK, FoundOK, IdsOK, BeforeOK, "crash" \notin FaultKinds,
         [Next]_vars
  PROVE  BeforeOK'
  <1>0. \A i \in Used : i \in Used'
    BY NeverReopened
  <1>1. ASSUME NEW g \in Grants
        PROVE  row'[g].before \subseteq Used
    <2>1. CASE KeepsAll
      BY <2>1 DEF KeepsAll, Keeps, BeforeOK
    <2>2. ASSUME NEW w \in Workers, NEW h \in Grants, Special(w, h)
          PROVE  row'[g].before \subseteq Used
      <3>0. <<w, h>> \in Jobs
        BY DEF Jobs
      <3>1. CASE Reserve(w, h)
        <4>1. mem[<<w, h>>].before \subseteq Used
          BY <3>0, <3>1 DEF Reserve, At, BeforeOK
        <4>2. row[g].before \subseteq Used
          BY DEF BeforeOK
        <4>3. \/ KeepsAll
              \/ /\ \A k \in Grants : k # h => row'[k] = row[k]
                 /\ row'[h].before = mem[<<w, h>>].before
          BY <3>1, ReserveRow DEF OthersSame
        <4> QED BY <2>1, <4>1, <4>2, <4>3
      <3>2. CASE ListAfter(w, h)
        BY <2>1, <3>2, ListAfterRow DEF OthersSame, BeforeOK
      <3>3. CASE Commit(w, h)
        BY <2>1, <3>3, CommitRow DEF OthersSame, BeforeOK
      <3>4. CASE Supersede(w, h)
        BY <2>1, <3>4, SupersedeRow DEF OthersSame, BeforeOK
      <3>5. CASE RecordRevoked(w, h)
        BY <3>5, RecordRevokedRow DEF OthersSame, BeforeOK
      <3>6. CASE DropSecret(w, h)
        BY <2>1, <3>6, DropSecretRow
      <3> QED BY <2>2, <3>1, <3>2, <3>3, <3>4, <3>5, <3>6 DEF Special
    <2> QED BY <2>1, <2>2, OthersKeep
  <1>2. ASSUME NEW j \in Jobs, pc'[j] = "reserve"
        PROVE  mem'[j].before \subseteq Used
    <2>1. CASE pc'[j] = pc[j] /\ mem'[j] = mem[j]
      BY <1>2, <2>1 DEF BeforeOK
    <2>2. ASSUME NEW w \in Workers, NEW g \in Grants, j = <<w, g>>, JobStep(w, g)
          PROVE  mem'[j].before \subseteq Used
      BY <1>2, <2>2, OwnWay DEF IdsOK
    <2> QED BY <1>2, <2>1, <2>2, JobChange
  <1> QED BY <1>0, <1>1, <1>2 DEF BeforeOK

LEMMA SameBeforeStep ==
  ASSUME TypeOK, FoundOK, SessionExclusive, SameBefore,
         "crash" \notin FaultKinds, [Next]_vars
  PROVE  SameBefore'
  <1> SUFFICES ASSUME NEW v \in Workers, NEW g \in Grants,
                      pc'[<<v, g>>] \in {"refresh", "before", "post", "after"}
               PROVE  mem'[<<v, g>>].before = row'[g].before
    BY DEF SameBefore, Jobs
  <1> DEFINE j == <<v, g>>
  <1>0. /\ j \in Jobs
        /\ pc[j] \in {"refresh", "before", "post", "after"} =>
             mem[j].before = row[g].before
    BY DEF Jobs, SameBefore
  <1>1. CASE JobStep(v, g)
    BY <1>0, <1>1, OwnWay
  <1>2. CASE ~JobStep(v, g)
    <2>1. pc'[j] = pc[j]
      BY <1>0, <1>2, JobChange
    <2>2. pc[j] \in InSession
      BY <2>1 DEF InSession, PC
    <2> QED BY <1>0, <1>2, <2>1, <2>2, Bystander DEF Keeps
  <1> QED BY <1>1, <1>2

\* What was made for the grant stays, but for the steps that use it up.
LEMMA MadeKept ==
  ASSUME TypeOK, IdsOK, RevokingOK, OwnIds, "leaves" \notin FaultKinds,
         [Next]_vars, NEW g \in Grants, Made(g),
         row'[g].pid = row[g].pid, row'[g].before = row[g].before,
         secret'[g] \in {secret[g], None},
         \A w \in Workers : pc[<<w, g>>] # "supersede"
  PROVE  Made(g)'
  <1>1. PICK i \in open :
          /\ creator[i] = g
          /\ i \notin row[g].before \cup known[g] \cup {row[g].pid, secret[g]}
    BY DEF Made, MineOf
  <1>2. i \in Used /\ i # None /\ i \in Invites
    BY NullAssumption DEF IdsOK, Used
  <1>3. creator'[i] = g
    BY <1>1, <1>2, NeverReopened
  <1>4. i \in open'
    <2> SUFFICES ASSUME i \notin open'
                 PROVE  FALSE
      OBVIOUS
    <2>1. ASSUME NEW w \in Workers, NEW h \in Grants,
                 pc[<<w, h>>] = "revoke", i = mem[<<w, h>>].pid
          PROVE  FALSE
      <3>1. <<w, h>> \in Jobs
        BY DEF Jobs
      <3>2. i = row[h].pid
        BY <2>1, <3>1 DEF RevokingOK, RevokingAt
      <3> QED BY <1>1, <1>2, <3>2 DEF OwnIds
    <2>2. ASSUME NEW w \in Workers, NEW h \in Grants,
                 pc[<<w, h>>] = "supersede", i = mem[<<w, h>>].inv
          PROVE  FALSE
      <3>1. <<w, h>> \in Jobs
        BY DEF Jobs
      <3> QED BY <1>1, <2>2, <3>1 DEF OwnIds
    <2>3. ASSUME NEW h \in Grants, i \in known[h]
          PROVE  FALSE
      BY <1>1, <2>3 DEF OwnIds
    <2> QED BY <1>1, <2>1, <2>2, <2>3, DropStep
  <1>5. i \notin known'[g]
    BY <1>1, KnownStep
  <1>6. i \notin row'[g].before \cup known'[g] \cup {row'[g].pid, secret'[g]}
    BY <1>1, <1>2, <1>5
  <1> QED BY <1>3, <1>4, <1>6 DEF Made, MineOf

\* A POST that is answered has made an invitation that nobody has yet.
LEMMA PostMakes ==
  ASSUME TypeOK, OwnIds, BeforeOK, NEW w \in Workers, NEW g \in Grants,
         PostOk(w, g), UNCHANGED <<row, secret, known>>
  PROVE  Made(g)'
  <1>1. PICK i \in Unused : Create(i, g)
    BY DEF PostOk
  <1>2. i \in Invites /\ creator[i] = None /\ g # None
    BY <1>1, NullAssumption DEF Unused
  <1>3. i \in open' /\ creator'[i] = g
    BY <1>1, <1>2 DEF Create, TypeOK
  <1>4. /\ i \notin row[g].before /\ i \notin known[g]
        /\ i # row[g].pid /\ i # secret[g]
    <2>1. i # None
      BY <1>2, NullAssumption
    <2> QED BY <1>2, <2>1 DEF BeforeOK, Used, OwnIds
  <1> QED BY <1>3, <1>4 DEF Made, MineOf

LEMMA MadeJobStep ==
  ASSUME TypeOK, FoundOK, SessionExclusive, IdsOK, RevokingOK, OwnIds,
         BeforeOK, MadeOK, "crash" \notin FaultKinds,
         "leaves" \notin FaultKinds, [Next]_vars, NEW j \in Jobs
  PROVE  MadeJob(j)'
  <1> SUFFICES ASSUME \/ pc'[j] = "after"
                      \/ pc'[j] \in {"refresh", "before"} /\ mem'[j].issuing
               PROVE  Made(j[2])'
    BY DEF MadeJob
  <1>0. PICK v \in Workers, g \in Grants : j = <<v, g>>
    BY DEF Jobs
  <1>a. MadeJob(j) /\ MadeRow(g)
    BY DEF MadeOK
  \* Nobody else is in the session.
  <1>b. ASSUME pc[j] \in InSession, pc[j] \notin Busy
        PROVE  \A w \in Workers : pc[<<w, g>>] \notin Busy
    <2> SUFFICES ASSUME NEW w \in Workers, pc[<<w, g>>] \in Busy
                 PROVE  FALSE
      OBVIOUS
    <2>1. <<w, g>> \in Jobs /\ pc[<<w, g>>] \in InSession
      BY DEF Jobs, Busy, InSession, PC
    <2> QED BY <1>b, <2>1 DEF SessionExclusive
  <1>1. CASE JobStep(v, g)
    <2>1. CASE pc[j] = "post" /\ PostOk(v, g) /\ UNCHANGED <<row, secret, known>>
      BY <1>0, <2>1, PostMakes
    <2>2. CASE /\ UNCHANGED <<row, secret>>
               /\ pc[j] \in {"context", "refresh", "before"} /\ Made(g)
      <3>1. \A w \in Workers : pc[<<w, g>>] # "supersede"
        BY <1>b, <2>2 DEF Busy, InSession, PC
      <3> QED BY <1>0, <2>2, <3>1, MadeKept
    <2>3. CASE /\ pc[j] = "context" /\ UNCHANGED <<row, secret>>
               /\ row[g].status = "issuing"
      <3>1. Made(g)
        BY <1>a, <1>b, <2>3 DEF MadeRow, Busy, InSession, PC
      <3> QED BY <2>2, <2>3, <3>1
    <2> QED BY <1>0, <1>1, <1>a, <2>1, <2>2, <2>3, OwnWay DEF MadeJob
  <1>2. CASE ~JobStep(v, g)
    <2>1. pc'[j] = pc[j] /\ mem'[j] = mem[j]
      BY <1>0, <1>2, JobChange
    <2>2. pc[j] \in InSession /\ pc[j] \notin Busy
      BY <2>1 DEF InSession, PC, Busy
    <2>3. Made(g)
      BY <1>0, <1>a, <2>1 DEF MadeJob
    <2>4. Keeps(g) /\ secret'[g] = secret[g]
      BY <1>0, <1>2, <2>2, Bystander
    <2>5. \A w \in Workers : pc[<<w, g>>] # "supersede"
      BY <1>b, <2>2 DEF Busy
    <2> QED BY <1>0, <2>3, <2>4, <2>5, MadeKept DEF Keeps
  <1> QED BY <1>1, <1>2

LEMMA SupersedeParks ==
  ASSUME TypeOK, FoundOK, NEW w \in Workers, NEW g \in Grants, Supersede(w, g)
  PROVE  row'[g].status = "manual_review"
  <1> DEFINE i == mem[<<w, g>>].inv
             r == [row[g] EXCEPT !.pid = i]
  <1>0. i \in Invites
    BY DEF Supersede, FoundOK, At, Jobs
  <1>1. SetGrant(g, Parked(r))
    BY DEF Supersede, AuditAccepts
  <1>2. r \in Row
    BY <1>0, RowOfGrant DEF Row
  <1> HIDE DEF r
  <1> QED BY <1>1, <1>2, ParkedType, ParkedFields, SetGrantFields

\* What a job may make of its own row that is issuing afterwards.
LEMMA IssuingAfter ==
  ASSUME TypeOK, FoundOK, NEW w \in Workers, NEW g \in Grants, JobStep(w, g),
         row'[g].status = "issuing"
  PROVE  \/ pc'[<<w, g>>] \in Busy
         \/ PostOk(w, g) /\ UNCHANGED <<row, secret, known>>
         \/ /\ pc[<<w, g>>] \notin Busy
            /\ pc[<<w, g>>] = "after" \/ row[g].status = "issuing"
            /\ row'[g].pid = row[g].pid /\ row'[g].before = row[g].before
            /\ secret'[g] \in {secret[g], None}
  <1> DEFINE j == <<w, g>>
             Same == /\ row[g].status = "issuing" /\ row'[g].pid = row[g].pid
                     /\ row'[g].before = row[g].before /\ secret'[g] = secret[g]
  <1>0. j \in Jobs
    BY DEF Jobs
  <1>a. KeepsAll /\ UNCHANGED secret => Same
    BY DEF KeepsAll, Keeps, Quiet
  <1> USE <1>0 DEF At, Goto, Leave, TypeOK, Busy
  <1>1. CASE Reserve(w, g)
    <2>1. pc[j] = "reserve" /\ (pc'[j] = "post" \/ pc'[j] = "idle")
      BY <1>1 DEF Reserve
    <2> QED BY <1>1, <1>a, <2>1, ReserveRow DEF Reserve
  <1>2. CASE ListAfter(w, g)
    <2>1. pc[j] = "after"
      BY <1>2 DEF ListAfter
    <2> QED BY <1>2, <1>a, <2>1, ListAfterRow
  <1>3. CASE Commit(w, g)
    <2>1. \/ pc'[j] = "supersede"
          \/ Write(g, ReadyRow(g, mem[j].inv), {})
          \/ Catch(w, g, "failed_retryable")
      BY <1>3 DEF Commit
    <2>2. ~Catch(w, g, "failed_retryable")
      <3> SUFFICES ASSUME Catch(w, g, "failed_retryable")
                   PROVE  FALSE
        OBVIOUS
      <3> DEFINE r == [row[g] EXCEPT !.status = "failed_retryable", !.next = now]
      <3>1. SetGrant(g, r)
        BY DEF Catch
      <3>a. now \in Nat /\ row[g] \in Row
        BY RowOfGrant
      <3>2. r \in Row /\ r.status = "failed_retryable"
        BY <3>a DEF Row, Status
      <3> HIDE DEF r
      <3> QED BY <3>1, <3>2, SetGrantFields
    <2>3. ~Write(g, ReadyRow(g, mem[j].inv), {})
      <3> DEFINE r == ReadyRow(g, mem[j].inv)
      <3>1. r.status = "invite_ready"
        BY RowOfGrant DEF ReadyRow, Row
      <3>2. Write(g, r, {}) => row' = [row EXCEPT ![g] = r]
        BY DEF Write
      <3> HIDE DEF r
      <3>3. row' = [row EXCEPT ![g] = r] => row'[g] = r
        OBVIOUS
      <3> QED BY <3>1, <3>2, <3>3 DEF r
    <2> QED BY <2>1, <2>2, <2>3
  <1>4. CASE Supersede(w, g)
    BY <1>4, SupersedeParks
  <1>5. CASE RecordRevoked(w, g)
    BY <1>5, RecordRevokedRow
  <1>6. CASE PostOk(w, g)
    BY <1>6 DEF PostOk
  <1>7. CASE PostFails(w, g)
    <2>1. SetGrant(g, Parked(row[g]))
      BY <1>7 DEF PostFails, ParkAndAudit
    <2> QED BY <2>1, RowOfGrant, ParkedType, ParkedFields, SetGrantFields
  <1>8. CASE \/ Begin(w, g) \/ ReadContext(w, g) \/ Refresh(w, g)
             \/ Before(w, g) \/ Audit(w, g) \/ Finish(w, g)
             \/ StartRevoke(w, g) \/ RevokeCall(w, g) \/ ListDrivers(w, g)
             \/ RemoveDriver(w, g)
    <2>1. UNCHANGED secret /\ pc[j] \notin Busy
      BY <1>8 DEF Begin, ReadContext, Refresh, Before, Audit, Finish,
                  StartRevoke, RevokeCall, ListDrivers, RemoveDriver
    <2> QED BY <1>8, <1>a, <2>1, BeginKeeps, IssueKeeps, RevokeKeeps
  <1>9. CASE DropSecret(w, g)
    <2>1. pc[j] \notin Busy /\ row' = row /\ secret'[g] = None
      BY <1>9 DEF DropSecret
    <2> QED BY <2>1
  <1> QED BY <1>1, <1>2, <1>3, <1>4, <1>5, <1>6, <1>7, <1>8, <1>9
          DEF JobStep, IssueStep, RevokeStep

LEMMA MadeRowStep ==
  ASSUME TypeOK, FoundOK, SessionExclusive, IdsOK, RevokingOK, OwnIds,
         BeforeOK, MadeOK, "crash" \notin FaultKinds,
         "leaves" \notin FaultKinds, [Next]_vars, NEW g \in Grants
  PROVE  MadeRow(g)'
  <1> SUFFICES ASSUME row'[g].status = "issuing"
               PROVE  Made(g)' \/ \E w \in Workers : pc'[<<w, g>>] \in Busy
    BY DEF MadeRow
  <1>a. MadeRow(g)
    BY DEF MadeOK
  \* A job that is busy with the grant and takes no step stays busy.
  <1>b. ASSUME NEW v \in Workers, pc[<<v, g>>] \in Busy, ~JobStep(v, g)
        PROVE  pc'[<<v, g>>] \in Busy
    <2>1. pc[<<v, g>>] \in InSession
      BY <1>b DEF Busy, InSession, PC
    <2> QED BY <1>b, <2>1, Bystander
  <1>c. ASSUME Made(g), row'[g].pid = row[g].pid,
               row'[g].before = row[g].before,
               secret'[g] \in {secret[g], None},
               \A v \in Workers : pc[<<v, g>>] \notin Busy
        PROVE  Made(g)'
    BY <1>c, MadeKept DEF Busy
  <1>1. ASSUME NEW w \in Workers, JobStep(w, g)
        PROVE  Made(g)' \/ \E v \in Workers : pc'[<<v, g>>] \in Busy
    <2>1. CASE PostOk(w, g) /\ UNCHANGED <<row, secret, known>>
      BY <2>1, PostMakes
    <2>2. CASE /\ pc[<<w, g>>] \notin Busy
               /\ pc[<<w, g>>] = "after" \/ row[g].status = "issuing"
               /\ row'[g].pid = row[g].pid /\ row'[g].before = row[g].before
               /\ secret'[g] \in {secret[g], None}
      <3>1. CASE \E v \in Workers : pc[<<v, g>>] \in Busy /\ ~JobStep(v, g)
        BY <1>b, <3>1
      <3>2. ASSUME NEW v \in Workers, pc[<<v, g>>] \in Busy, JobStep(v, g)
            PROVE  FALSE
        <4>1. <<v, g>> \in Jobs /\ <<v, g>> # <<w, g>> /\ <<w, g>> \in Jobs
          BY <2>2, <3>2 DEF Jobs
        <4>2. pc'[<<v, g>>] = pc[<<v, g>>]
          BY <1>1, <4>1, OneJobSteps
        <4>3. pc'[<<v, g>>] # pc[<<v, g>>]
          BY <3>2, <4>1
             DEF Busy, JobStep, IssueStep, RevokeStep, Begin, ReadContext,
                 Refresh, Before, Reserve, PostOk, PostFails, ListAfter,
                 Commit, Supersede, Audit, Finish, StartRevoke, RevokeCall,
                 DropSecret, RecordRevoked, ListDrivers, RemoveDriver,
                 ParkAndAudit,
                 Catch, Leave, Goto, At, TypeOK
        <4> QED BY <4>2, <4>3
      <3>3. CASE \A v \in Workers : pc[<<v, g>>] \notin Busy
        <4>1. Made(g)
          <5>1. <<w, g>> \in Jobs /\ <<w, g>>[2] = g
            BY DEF Jobs
          <5> QED BY <1>a, <2>2, <3>3, <5>1 DEF MadeRow, MadeOK, MadeJob
        <4> QED BY <1>c, <2>2, <3>3, <4>1
      <3> QED BY <3>1, <3>2, <3>3
    <2> QED BY <1>1, <2>1, <2>2, IssuingAfter
  <1>2. CASE \A w \in Workers : ~JobStep(w, g)
    <2>1. Keeps(g) /\ secret'[g] = secret[g]
      <3>1. ASSUME NEW w \in Workers, NEW h \in Grants, JobStep(w, h), h # g
            PROVE  Keeps(g) /\ secret'[g] = secret[g]
        <4>1. row'[g] = row[g]
          BY <3>1, JobWritesOwnRow DEF OthersSame
        <4>2. secret' = secret \/ \E x : secret' = [secret EXCEPT ![h] = x]
          BY <3>1, JobSecret
        <4>3. secret \in [Grants -> Invites \cup {None}]
          BY DEF TypeOK
        <4>4. secret'[g] = secret[g]
          BY <3>1, <4>2, <4>3
        <4> QED BY <4>1, <4>4 DEF Keeps
      <3>2. CASE \A w \in Workers, h \in Grants : ~JobStep(w, h)
        BY <3>2, NoJobStep DEF KeepsAll
      <3> QED BY <1>2, <3>1, <3>2
    <2>2. row[g].status = "issuing"
      BY <2>1 DEF Keeps, Quiet
    <2>3. CASE \E v \in Workers : pc[<<v, g>>] \in Busy
      BY <1>2, <1>b, <2>3
    <2>4. CASE \A v \in Workers : pc[<<v, g>>] \notin Busy
      BY <1>a, <1>c, <2>1, <2>2, <2>4 DEF MadeRow, Keeps
    <2> QED BY <2>3, <2>4
  <1> QED BY <1>1, <1>2

\* While no worker crashes and Tesla drops no invitation of its own accord,
\* every invitation a guest is handed was made for that guest's own trip:
\* whatever requests fail or land late, and although the owner invites people
\* by hand and several workers' jobs share the one list.
THEOREM HandsOutOwn ==
  ASSUME "crash" \notin FaultKinds, "leaves" \notin FaultKinds
  PROVE  Spec => []HandedOutIsOwn
  <1> DEFINE Inv == /\ TypeOK /\ FoundOK /\ SessionExclusive /\ IdsOK
                    /\ RevokingOK /\ OwnIds /\ BeforeOK /\ SameBefore /\ MadeOK
  <1>1. Init => Inv
    <2> SUFFICES ASSUME Init
                 PROVE  Inv
      OBVIOUS
    <2>1. IdsOK /\ RevokingOK /\ OwnIds
      BY DEF Init, IdsOK, RevokingOK, RevokingAt, OwnIds, NewRow, Used
    <2>2. BeforeOK /\ SameBefore /\ MadeOK
      BY DEF Init, BeforeOK, SameBefore, MadeOK, MadeRow, MadeJob, NewRow
    <2> QED BY <2>1, <2>2, InitJobs
  <1>2. Inv /\ [Next]_vars => Inv'
    <2> SUFFICES ASSUME Inv, [Next]_vars
                 PROVE  Inv'
      OBVIOUS
    <2>1. (TypeOK /\ FoundOK /\ SessionExclusive)'
      BY TypeStep, FoundStep, SessionStep
    <2>2. (IdsOK /\ RevokingOK)'
      BY IdsStep, RevokingStep
    <2>3. OwnIds' /\ BeforeOK' /\ SameBefore'
      BY OwnStep, BeforeSetStep, SameBeforeStep
    <2>4. MadeOK'
      BY MadeRowStep, MadeJobStep DEF MadeOK
    <2> QED BY <2>1, <2>2, <2>3, <2>4
  <1>3. Inv => HandedOutIsOwn
    BY DEF OwnIds, HandedOutIsOwn
  <1> QED BY <1>1, <1>2, <1>3, PTL DEF Spec

-----------------------------------------------------------------------------
(***************************************************************************)
(* What one step of a job does: where it comes from and gets to, and what  *)
(* it makes of its row.                                                    *)
(***************************************************************************)

Hop(j, l, k) == pc[j] = l /\ pc'[j] = k

SameView(j) == mem'[j] = mem[j] /\ (j \in fresh <=> j \in fresh')

\* The row stays as it is.
Walks(w, g) ==
  LET j == <<w, g>> IN
  /\ row'[g] = row[g]
  /\ \/ SameView(j) /\ Hop(j, "queued", "context")
     \/ /\ Hop(j, "context", "refresh") /\ j \in fresh'
        /\ (mem'[j].issuing <=> row[g].status = "issuing")
        /\ mem'[j].revoke = row[g].revoke
     \/ SameView(j) /\ Hop(j, "refresh", "before") /\ now < mem[j].revoke
     \/ SameView(j) /\ Hop(j, "refresh", "startRevoke") /\ now >= mem[j].revoke
     \/ SameView(j) /\ Hop(j, "before", "after") /\ mem[j].issuing
     \/ /\ Hop(j, "before", "reserve") /\ ~mem[j].issuing
        /\ j \in fresh <=> j \in fresh'
     \/ SameView(j) /\ Hop(j, "post", "after")
     \/ Hop(j, "after", "commit") /\ (j \in fresh <=> j \in fresh')
     \/ Hop(j, "commit", "supersede") /\ ~CommitGuard(w, g)
     \/ Hop(j, "revoke", "forget") /\ mem[j].pid \in open \ open'
     \/ Hop(j, "revoke", "drivers")
     \/ Hop(j, "drivers", "remove") /\ g \in drivers
     \/ Hop(j, "remove", "forget") /\ g \notin drivers'
     \/ SameView(j) /\ Hop(j, "forget", "record")
     \/ pc[j] \in {"reserve", "supersede", "audit", "finish"} /\ pc'[j] = "idle"

\* The row is written.
Writes(w, g) ==
  LET j == <<w, g>>
      r == row[g]
      s == row'[g]
  IN
  /\ s.issue = r.issue /\ s.revoke = r.revoke
  /\ \/ /\ pc[j] \in {"queued", "context"} /\ pc'[j] = "idle"
        /\ s.status = r.status /\ s.next = now /\ s.pid = r.pid
     \/ /\ Hop(j, "reserve", "post") /\ Fenced(w, g) /\ j \in fresh'
        /\ s.status = "issuing" /\ s.next = now /\ s.pid = r.pid
        /\ s.claimedBy = r.claimedBy
     \/ /\ pc[j] \notin {"idle", "audit", "supersede", "record", "finish"}
        /\ pc'[j] \in {"idle", "finish"} /\ s.next = None /\ s.pid = r.pid
        /\ s.status \in {"manual_review", "reauth_required", "failed_terminal"}
     \/ /\ Hop(j, "after", "finish") /\ s.next = None
        /\ s.status = "manual_review"
     \/ /\ Hop(j, "after", "idle") /\ s.pid = r.pid
        /\ s.status = "issuing" /\ s.next = now
     \/ /\ Hop(j, "commit", "finish") /\ CommitGuard(w, g)
        /\ s.status = "invite_ready" /\ s.next = r.revoke
     \/ /\ Hop(j, "commit", "idle") /\ CommitGuard(w, g)
        /\ now + InviteLife <= r.issue \/ r.revoke <= r.issue
        /\ s.status = "failed_retryable" /\ s.pid = r.pid
     \/ /\ Hop(j, "supersede", "audit") /\ s.status = "manual_review"
        /\ s.pid = mem[j].inv
        /\ "tesla" \notin FaultKinds => mem[j].inv \notin open'
     \/ /\ Hop(j, "audit", "idle") /\ s.status = "failed_retryable"
        /\ s.pid = r.pid
     \/ /\ Hop(j, "startRevoke", "revoke") /\ mem[j].pid # None
        /\ s.status = "revoking" /\ s.next = r.next /\ s.pid = r.pid
     \/ /\ Hop(j, "record", "finish") /\ s.status = "revoked"
        /\ s.next = None /\ s.pid = r.pid
     \/ /\ pc'[j] = "idle" /\ s.status = "failed_retryable"
        /\ s.next = now /\ s.pid = r.pid
        /\ \/ pc[j] = "refresh" /\ "refresh" \in FaultKinds
           \/ pc[j] = "before" /\ ~mem[j].issuing
           \/ pc[j] = "finish" /\ "db" \in FaultKinds
           \/ pc[j] \in {"revoke", "drivers", "remove"}

-----------------------------------------------------------------------------
LEMMA SetGrantWindow ==
  ASSUME TypeOK, NEW g \in Grants, NEW r \in Row, SetGrant(g, r)
  PROVE  row'[g].issue = r.issue /\ row'[g].revoke = r.revoke
  <1> DEFINE s == [r EXCEPT !.claimedBy = None, !.leased = FALSE]
  <1>1. s.issue = r.issue /\ s.revoke = r.revoke
    BY DEF Row
  <1>2. row' = [row EXCEPT ![g] = s]
    BY DEF SetGrant, Write
  <1> HIDE DEF s
  <1> QED BY <1>1, <1>2 DEF TypeOK

\* A write of a status and a next action, which drops the claim.
Marks(g, s, n) ==
  /\ row'[g].issue = row[g].issue /\ row'[g].revoke = row[g].revoke
  /\ row'[g].pid = row[g].pid
  /\ row'[g].status = s /\ row'[g].next = n

LEMMA StatusMarks ==
  ASSUME TypeOK, NEW g \in Grants, NEW s \in Status, NEW n \in Nat \cup {None},
         SetGrant(g, [row[g] EXCEPT !.status = s, !.next = n])
  PROVE  Marks(g, s, n)
  <1> DEFINE r == [row[g] EXCEPT !.status = s, !.next = n]
  <1>1. /\ r \in Row /\ r.status = s /\ r.next = n /\ r.pid = row[g].pid
        /\ r.issue = row[g].issue /\ r.revoke = row[g].revoke
    BY RowOfGrant DEF Row
  <1>2. SetGrant(g, r)
    OBVIOUS
  <1> HIDE DEF r
  <1> QED BY <1>1, <1>2, SetGrantFields, SetGrantWindow DEF Marks

LEMMA DueMarks ==
  ASSUME TypeOK, NEW g \in Grants, SetGrant(g, [row[g] EXCEPT !.next = now])
  PROVE  Marks(g, row[g].status, now)
  <1> DEFINE r == [row[g] EXCEPT !.next = now]
  <1>1. /\ r \in Row /\ r.status = row[g].status /\ r.next = now
        /\ r.pid = row[g].pid
        /\ r.issue = row[g].issue /\ r.revoke = row[g].revoke
    BY RowOfGrant, RowDueNow DEF Row
  <1>2. SetGrant(g, r)
    OBVIOUS
  <1> HIDE DEF r
  <1> QED BY <1>1, <1>2, SetGrantFields, SetGrantWindow DEF Marks

LEMMA CatchMarks ==
  ASSUME TypeOK, NEW w \in Workers, NEW g \in Grants,
         NEW s \in {"failed_retryable", "failed_terminal", "reauth_required"},
         Catch(w, g, s)
  PROVE  /\ Marks(g, s, IF s = "failed_retryable" THEN now ELSE None)
         /\ pc'[<<w, g>>] = "idle"
  <1> DEFINE n == IF s = "failed_retryable" THEN now ELSE None
  <1>1. n \in Nat \cup {None} /\ s \in Status
    BY DEF TypeOK, Status
  <1>2. SetGrant(g, [row[g] EXCEPT !.status = s, !.next = n])
    BY DEF Catch
  <1>3. Marks(g, s, n)
    <2> HIDE DEF n
    <2> QED BY <1>1, <1>2, StatusMarks
  <1>4. pc'[<<w, g>>] = "idle"
    BY DEF Catch, Leave, Goto, TypeOK, Jobs
  <1> QED BY <1>3, <1>4

LEMMA TeslaMarks ==
  ASSUME TypeOK, NEW w \in Workers, NEW g \in Grants, NEW s \in TeslaErrors,
         Catch(w, g, s)
  PROVE  /\ pc'[<<w, g>>] = "idle"
         /\ \/ Marks(g, "failed_retryable", now)
            \/ Marks(g, "failed_terminal", None)
  BY CatchMarks DEF TeslaErrors

\* The row is parked, with an id that is or is not the one it had.
LEMMA ParkMarks ==
  ASSUME TypeOK, NEW g \in Grants, NEW i \in Invites \cup {None},
         SetGrant(g, Parked([row[g] EXCEPT !.pid = i]))
  PROVE  /\ row'[g].issue = row[g].issue /\ row'[g].revoke = row[g].revoke
         /\ row'[g].pid = i
         /\ row'[g].status = "manual_review" /\ row'[g].next = None
  <1> DEFINE r == [row[g] EXCEPT !.pid = i]
             q == Parked(r)
  <1>1. /\ r \in Row /\ r.pid = i
        /\ r.issue = row[g].issue /\ r.revoke = row[g].revoke
    BY RowOfGrant DEF Row
  <1>2. /\ q \in Row /\ q.pid = r.pid /\ q.status = "manual_review"
        /\ q.next = None /\ q.issue = r.issue /\ q.revoke = r.revoke
    <2> HIDE DEF r
    <2> QED BY <1>1, ParkedType DEF Parked, Row
  <1>3. SetGrant(g, q)
    OBVIOUS
  <1> HIDE DEF r, q
  <1> QED BY <1>1, <1>2, <1>3, SetGrantFields, SetGrantWindow

LEMMA ParkedMarks ==
  ASSUME TypeOK, NEW w \in Workers, NEW g \in Grants,
         Park(w, g) \/ ParkAndAudit(w, g, row[g])
  PROVE  /\ Marks(g, "manual_review", None)
         /\ Park(w, g) => pc'[<<w, g>>] = "idle"
         /\ ParkAndAudit(w, g, row[g]) => pc'[<<w, g>>] = "finish"
  <1> DEFINE q == Parked(row[g])
  <1>1. /\ q \in Row /\ q.pid = row[g].pid /\ q.status = "manual_review"
        /\ q.next = None /\ q.issue = row[g].issue /\ q.revoke = row[g].revoke
    BY RowOfGrant, ParkedType DEF Parked, Row
  <1>2. SetGrant(g, q)
    BY DEF Park, ParkAndAudit
  <1> HIDE DEF q
  <1>3. Marks(g, "manual_review", None)
    BY <1>1, <1>2, SetGrantFields, SetGrantWindow DEF Marks
  <1> QED BY <1>3 DEF Park, ParkAndAudit, Leave, Goto, TypeOK, Jobs

LEMMA BeginMoves ==
  ASSUME TypeOK, NEW w \in Workers, NEW g \in Grants,
         Begin(w, g) \/ ReadContext(w, g)
  PROVE  Walks(w, g) \/ Writes(w, g)
  <1> DEFINE j == <<w, g>>
  <1>0. j \in Jobs
    BY DEF Jobs
  <1> USE <1>0 DEF At, Goto, Leave, TypeOK, Hop
  <1>1. CASE Begin(w, g)
    <2>1. CASE SetGrant(g, [row[g] EXCEPT !.status = "reauth_required",
                                          !.next = None]) /\ Leave(w, g)
      <3>1. Marks(g, "reauth_required", None)
        BY <2>1, StatusMarks DEF Status
      <3> QED BY <1>1, <2>1, <3>1 DEF Begin, Marks, Writes
    <2>2. CASE SetGrant(g, [row[g] EXCEPT !.next = now]) /\ Leave(w, g)
      BY <1>1, <2>2, DueMarks DEF Begin, Marks, Writes
    <2>3. CASE Goto(w, g, "context") /\ UNCHANGED <<row, fresh, mem>>
      BY <1>1, <2>3 DEF Begin, Walks, SameView
    <2> QED BY <1>1, <2>1, <2>2, <2>3 DEF Begin
  <1>2. CASE ReadContext(w, g)
    <2>1. CASE SetGrant(g, [row[g] EXCEPT !.next = now]) /\ Leave(w, g)
      BY <1>2, <2>1, DueMarks DEF ReadContext, Marks, Writes
    <2> DEFINE m == [issuing |-> row[g].status = "issuing",
                     revoke |-> row[g].revoke, pid |-> row[g].pid,
                     saved |-> row[g].saved, before |-> row[g].before,
                     inv |-> None]
    <2>2. CASE /\ mem' = [mem EXCEPT ![j] = m] /\ j \in fresh'
               /\ Goto(w, g, "refresh") /\ UNCHANGED row
      <3>1. m.issuing = (row[g].status = "issuing") /\ m.revoke = row[g].revoke
        OBVIOUS
      <3>2. mem'[j] = m
        BY <2>2
      <3> HIDE DEF m
      <3> QED BY <1>2, <2>2, <3>1, <3>2 DEF ReadContext, Walks
    <2> QED BY <1>2, <2>1, <2>2 DEF ReadContext
  <1> QED BY <1>1, <1>2

LEMMA IssueMoves ==
  ASSUME TypeOK, NEW w \in Workers, NEW g \in Grants,
         \/ Refresh(w, g) \/ Before(w, g) \/ Reserve(w, g) \/ PostOk(w, g)
         \/ PostFails(w, g)
  PROVE  Walks(w, g) \/ Writes(w, g)
  <1> DEFINE j == <<w, g>>
  <1>0. j \in Jobs /\ mem[j] \in Mem
    BY MemOfJob DEF Jobs
  <1> USE <1>0 DEF At, Goto, Leave, TypeOK, Hop
  <1>1. CASE Refresh(w, g)
    <2>1. CASE Fault("refresh") /\ Catch(w, g, "failed_retryable")
      BY <1>1, <2>1, CatchMarks DEF Refresh, Fault, Marks, Writes
    <2>2. CASE Catch(w, g, "reauth_required")
      BY <1>1, <2>2, CatchMarks DEF Refresh, Marks, Writes
    <2>3. CASE /\ Goto(w, g, IF now >= mem[j].revoke THEN "startRevoke"
                                                     ELSE "before")
               /\ UNCHANGED <<row, fresh, mem>>
      <3>1. mem[j].revoke \in Nat
        BY DEF Mem
      <3> QED BY <1>1, <2>3, <3>1 DEF Refresh, Walks, SameView
    <2> QED BY <1>1, <2>1, <2>2, <2>3 DEF Refresh
  <1>2. CASE Before(w, g)
    <2>1. CASE Park(w, g)
      BY <1>2, <2>1, ParkedMarks DEF Before, Marks, Writes
    <2>2. CASE ~mem[j].issuing /\ \E s \in TeslaErrors : Catch(w, g, s)
      BY <1>2, <2>2, TeslaMarks DEF Before, Marks, Writes
    <2>3. CASE /\ mem[j].issuing
               /\ Goto(w, g, "after") /\ UNCHANGED <<row, fresh, lock, mem>>
      BY <1>2, <2>3 DEF Before, Walks, SameView
    <2>4. CASE ~mem[j].issuing /\ Goto(w, g, "reserve") /\ UNCHANGED <<row, fresh>>
      BY <1>2, <2>4 DEF Before, Walks
    <2> QED BY <1>2, <2>1, <2>2, <2>3, <2>4 DEF Before
  <1>3. CASE Reserve(w, g)
    <2> DEFINE r == [row[g] EXCEPT !.status = "issuing", !.saved = TRUE,
                       !.before = mem[j].before, !.next = now]
    <2>1. CASE Fenced(w, g)
      <3>1. /\ r.status = "issuing" /\ r.next = now /\ r.pid = row[g].pid
            /\ r.issue = row[g].issue /\ r.revoke = row[g].revoke
            /\ r.claimedBy = row[g].claimedBy
        BY RowOfGrant DEF Row
      <3>2. row' = [row EXCEPT ![g] = r] /\ j \in fresh' /\ Hop(j, "reserve", "post")
        BY <1>3, <2>1 DEF Reserve, Write
      <3> HIDE DEF r
      <3>3. row'[g] = r
        BY <3>2
      <3> QED BY <2>1, <3>1, <3>2, <3>3 DEF Writes
    <2>2. CASE ~Fenced(w, g)
      BY <1>3, <2>2 DEF Reserve, Walks
    <2> QED BY <2>1, <2>2
  <1>4. CASE PostOk(w, g)
    BY <1>4 DEF PostOk, Walks, SameView
  <1>5. CASE PostFails(w, g)
    BY <1>5, ParkedMarks DEF PostFails, Marks, Writes
  <1> QED BY <1>1, <1>2, <1>3, <1>4, <1>5

LEMMA PublishMoves ==
  ASSUME TypeOK, FoundOK, NEW w \in Workers, NEW g \in Grants,
         ListAfter(w, g) \/ Commit(w, g)
  PROVE  Walks(w, g) \/ Writes(w, g)
  <1> DEFINE j == <<w, g>>
  <1>0. j \in Jobs /\ mem[j] \in Mem
    BY MemOfJob DEF Jobs
  <1> USE <1>0 DEF At, Goto, Leave, TypeOK, Hop
  <1>1. CASE ListAfter(w, g)
    <2>1. ASSUME NEW i \in Invites, ParkAndAudit(w, g, [row[g] EXCEPT !.pid = i])
          PROVE  Writes(w, g)
      BY <1>1, <2>1, ParkMarks DEF ListAfter, ParkAndAudit, Writes
    <2>2. CASE ParkAndAudit(w, g, row[g])
      BY <1>1, <2>2, ParkedMarks DEF ListAfter, Marks, Writes
    <2>3. CASE /\ SetGrant(g, [row[g] EXCEPT !.status = "issuing", !.next = now])
               /\ Leave(w, g)
      <3>1. Marks(g, "issuing", now)
        BY <2>3, StatusMarks DEF Status
      <3> QED BY <1>1, <2>3, <3>1 DEF ListAfter, Marks, Writes
    <2>4. CASE Goto(w, g, "commit") /\ UNCHANGED <<row, fresh>>
      BY <1>1, <2>4 DEF ListAfter, Walks
    <2> QED BY <1>1, <2>1, <2>2, <2>3, <2>4 DEF ListAfter
  <1>2. CASE Commit(w, g)
    <2> DEFINE r == ReadyRow(g, mem[j].inv)
    <2>0. /\ r.status = "invite_ready" /\ r.next = row[g].revoke
          /\ r.issue = row[g].issue /\ r.revoke = row[g].revoke
          /\ r.expires = now + InviteLife
      BY RowOfGrant DEF ReadyRow, Row
    <2>1. CASE CommitGuard(w, g) /\ Write(g, r, {}) /\ Goto(w, g, "finish")
      <3> HIDE DEF r
      <3>1. row'[g] = r
        BY <2>1 DEF Write
      <3> QED BY <1>2, <2>0, <2>1, <3>1 DEF Commit, Writes
    <2>2. CASE CommitGuard(w, g) /\ ~RowChecks(r) /\ Catch(w, g, "failed_retryable")
      <3>1. now + InviteLife <= row[g].issue \/ row[g].revoke <= row[g].issue
        <4>1. row[g].issue \in Nat /\ row[g].revoke \in Nat
          BY RowOfGrant DEF Row
        <4> HIDE DEF r
        <4> QED BY <2>0, <2>2, <4>1, BoundAssumption DEF RowChecks
      <3> QED BY <1>2, <2>2, <3>1, CatchMarks DEF Commit, Marks, Writes
    <2>3. CASE ~CommitGuard(w, g) /\ Goto(w, g, "supersede") /\ UNCHANGED row
      BY <1>2, <2>3 DEF Commit, Walks
    <2> QED BY <1>2, <2>1, <2>2, <2>3 DEF Commit
  <1> QED BY <1>1, <1>2

LEMMA EndMoves ==
  ASSUME TypeOK, FoundOK, NEW w \in Workers, NEW g \in Grants,
         Supersede(w, g) \/ Audit(w, g) \/ Finish(w, g)
  PROVE  Walks(w, g) \/ Writes(w, g)
  <1> DEFINE j == <<w, g>>
  <1>0. j \in Jobs
    BY DEF Jobs
  <1> USE <1>0 DEF At, Goto, Leave, TypeOK, Hop
  <1>1. CASE Supersede(w, g)
    <2> DEFINE i == mem[j].inv
    <2>1. SetGrant(g, Parked([row[g] EXCEPT !.pid = i])) /\ Hop(j, "supersede", "audit")
      BY <1>1 DEF Supersede, AuditAccepts
    <2>2. i \in Invites
      BY <1>1 DEF Supersede, FoundOK
    <2>3. "tesla" \notin FaultKinds => i \notin open'
      BY <1>1 DEF Supersede, Fault
    <2> QED BY <2>1, <2>2, <2>3, ParkMarks DEF Writes
  <1>2. CASE Audit(w, g)
    BY <1>2, CatchMarks DEF Audit, AuditAccepts, Marks, Writes
  <1>3. CASE Finish(w, g)
    <2>1. CASE Fault("db") /\ Catch(w, g, "failed_retryable")
      BY <1>3, <2>1, CatchMarks DEF Finish, Fault, Marks, Writes
    <2>2. CASE Leave(w, g) /\ UNCHANGED row
      BY <1>3, <2>2 DEF Finish, Walks
    <2> QED BY <1>3, <2>1, <2>2 DEF Finish
  <1> QED BY <1>1, <1>2, <1>3

LEMMA RevokeMoves ==
  ASSUME TypeOK, NEW w \in Workers, NEW g \in Grants, RevokeStep(w, g)
  PROVE  Walks(w, g) \/ Writes(w, g)
  <1> DEFINE j == <<w, g>>
  <1>0. j \in Jobs
    BY DEF Jobs
  <1> USE <1>0 DEF At, Goto, Leave, TypeOK, Hop
  <1>1. CASE StartRevoke(w, g)
    <2>1. CASE Park(w, g)
      BY <1>1, <2>1, ParkedMarks DEF StartRevoke, Marks, Writes
    <2> DEFINE r == [row[g] EXCEPT !.status = "revoking"]
    <2>2. CASE mem[j].pid # None /\ Write(g, r, {}) /\ Goto(w, g, "revoke")
      <3>1. /\ r.status = "revoking" /\ r.next = row[g].next /\ r.pid = row[g].pid
            /\ r.issue = row[g].issue /\ r.revoke = row[g].revoke
        BY RowOfGrant DEF Row
      <3> HIDE DEF r
      <3>2. row'[g] = r
        BY <2>2 DEF Write
      <3> QED BY <1>1, <2>2, <3>1, <3>2 DEF StartRevoke, Writes
    <2> QED BY <1>1, <2>1, <2>2 DEF StartRevoke
  <1>2. CASE RevokeCall(w, g)
    <2>1. CASE \E s \in TeslaErrors : Catch(w, g, s)
      BY <1>2, <2>1, TeslaMarks DEF RevokeCall, Marks, Writes
    <2>2. CASE UNCHANGED row /\ (Goto(w, g, "drivers") \/ (/\ Goto(w, g, "forget")
                                    /\ mem[j].pid \in open
                                    /\ open' = open \ {mem[j].pid}))
      BY <1>2, <2>2 DEF RevokeCall, Walks
    <2> QED BY <1>2, <2>1, <2>2 DEF RevokeCall
  <1>3. CASE RecordRevoked(w, g)
    <2>1. Marks(g, "revoked", None)
      BY <1>3, StatusMarks DEF RecordRevoked, Status
    <2> QED BY <1>3, <2>1 DEF RecordRevoked, Marks, Writes
  <1>4. CASE ListDrivers(w, g)
    <2>1. CASE \E s \in TeslaErrors : Catch(w, g, s)
      BY <1>4, <2>1, TeslaMarks DEF ListDrivers, Marks, Writes
    <2>2. CASE ParkAndAudit(w, g, row[g])
      BY <1>4, <2>2, ParkedMarks DEF ListDrivers, Marks, Writes
    <2>3. CASE g \in drivers /\ Goto(w, g, "remove") /\ UNCHANGED row
      BY <1>4, <2>3 DEF ListDrivers, Walks
    <2> QED BY <1>4, <2>1, <2>2, <2>3 DEF ListDrivers
  <1>5. CASE RemoveDriver(w, g)
    <2>1. CASE \E s \in TeslaErrors : Catch(w, g, s)
      BY <1>5, <2>1, TeslaMarks DEF RemoveDriver, Marks, Writes
    <2>2. CASE drivers' = drivers \ {g} /\ Goto(w, g, "forget") /\ UNCHANGED row
      BY <1>5, <2>2 DEF RemoveDriver, Walks
    <2> QED BY <1>5, <2>1, <2>2 DEF RemoveDriver
  <1>6. CASE DropSecret(w, g)
    BY <1>6 DEF DropSecret, Walks, SameView
  <1> QED BY <1>1, <1>2, <1>3, <1>4, <1>5, <1>6 DEF RevokeStep

LEMMA JobMoves ==
  ASSUME TypeOK, FoundOK, NEW w \in Workers, NEW g \in Grants, JobStep(w, g)
  PROVE  Walks(w, g) \/ Writes(w, g)
  BY BeginMoves, IssueMoves, PublishMoves, EndMoves, RevokeMoves DEF JobStep, IssueStep

-----------------------------------------------------------------------------
\* A job outdates, or brings up to date, only what was read of its own grant.
LEMMA FreshOfOthers ==
  ASSUME TypeOK, NEW w \in Workers, NEW h \in Grants, JobStep(w, h),
         NEW j \in Jobs, j[2] # h
  PROVE  j \in fresh <=> j \in fresh'
  <1> USE DEF Catch, Park, ParkAndAudit, SetGrant, Write
  <1>1. CASE Begin(w, h) \/ ReadContext(w, h) \/ Refresh(w, h)
    BY <1>1 DEF Begin, ReadContext, Refresh
  <1>2. CASE Before(w, h) \/ PostOk(w, h) \/ PostFails(w, h)
    BY <1>2 DEF Before, PostOk, PostFails
  <1>6. CASE Reserve(w, h)
    <2>1. fresh' = fresh \/ fresh' = {k \in fresh : k[2] # h} \cup {<<w, h>>}
      BY <1>6 DEF Reserve
    <2> QED BY <2>1
  <1>3. CASE ListAfter(w, h) \/ Commit(w, h) \/ Supersede(w, h)
    BY <1>3 DEF ListAfter, Commit, Supersede
  <1>4. CASE Audit(w, h) \/ Finish(w, h) \/ StartRevoke(w, h)
    BY <1>4 DEF Audit, Finish, StartRevoke
  <1>5. CASE \/ RevokeCall(w, h) \/ DropSecret(w, h) \/ RecordRevoked(w, h)
             \/ ListDrivers(w, h) \/ RemoveDriver(w, h)
    BY <1>5 DEF RevokeCall, DropSecret, RecordRevoked, ListDrivers, RemoveDriver
  <1> QED BY <1>1, <1>2, <1>3, <1>4, <1>5, <1>6 DEF JobStep, IssueStep, RevokeStep

\* With a single worker, these are all the steps that touch a grant's row or
\* its job.
LEMMA Apart ==
  ASSUME Alone, TypeOK, [Next]_vars, NEW v \in Workers, NEW g \in Grants
  PROVE  LET j == <<v, g>> IN
         \/ JobStep(v, g) \/ Claim(v) \/ Crash(v) \/ OwnerStep(g)
         \/ LeaseLapses(g)
         \/ row'[g] = row[g] /\ pc'[j] = pc[j] /\ SameView(j)
  <1> DEFINE j == <<v, g>>
             Same == row'[g] = row[g] /\ pc'[j] = pc[j] /\ SameView(j)
  <1>0. j \in Jobs /\ j[1] = v /\ j[2] = g
    BY DEF Jobs
  <1>1. ASSUME NEW w \in Workers, NEW h \in Grants, JobStep(w, h), h # g
        PROVE  Same
    <2>1. j # <<w, h>>
      BY <1>1
    <2>2. pc'[j] = pc[j] /\ mem'[j] = mem[j]
      BY <1>0, <1>1, <2>1, OneJobSteps
    <2>3. row'[g] = row[g]
      BY <1>1, JobWritesOwnRow DEF OthersSame
    <2>4. j \in fresh <=> j \in fresh'
      BY <1>0, <1>1, FreshOfOthers
    <2> QED BY <2>2, <2>3, <2>4 DEF SameView
  <1>2. ASSUME NEW h \in Grants, OwnerStep(h), h # g
        PROVE  Same
    <2>1. pc' = pc /\ mem' = mem
      BY <1>2, OtherSteps DEF jobVars
    <2>2. row'[g] = row[g]
      BY <1>2, OwnerSettles DEF OthersSame
    <2>3. j \in fresh <=> j \in fresh'
      BY <1>0, <1>2 DEF OwnerStep, ResolveApply, ResolveCancel, OwnerCancel, Write
    <2> QED BY <2>1, <2>2, <2>3 DEF SameView
  <1>3. ASSUME NEW h \in Grants, LeaseLapses(h), h # g
        PROVE  Same
    BY <1>3 DEF LeaseLapses, jobVars, SameView, TypeOK
  <1>4. ASSUME \/ \E h \in Grants : GuestStep(h) \/ Land(h)
               \/ \E i \in Invites : InviteLeaves(i)
               \/ OwnerInvites \/ IntegrationLost \/ Reconnect \/ Tick
               \/ UNCHANGED vars
        PROVE  Same
    BY <1>4 DEF GuestStep, Onboard, GuestReads, GuestRedeems, Land,
                InviteLeaves, OwnerInvites, IntegrationLost, Reconnect, Tick,
                vars, jobVars, SameView
  <1>5. \A w \in Workers : w = v
    BY DEF Alone
  <1> QED BY <1>1, <1>2, <1>3, <1>4, <1>5 DEF Next

\* Where no calendar change moves a trip, a trip that lives was not touched.
LEMMA LiveStays ==
  ASSUME Windows = {}, TypeOK, [Next]_vars, NEW g \in Grants,
         trip'[g] = "live"
  PROVE  trip[g] = "live" /\ ~OwnerStep(g)
  <1>1. ASSUME NEW h \in Grants, OwnerStep(h)
        PROVE  trip' = [trip EXCEPT ![h] = "cancelled"]
    BY <1>1 DEF OwnerStep, ResolveCancel, OwnerCancel
  <1>2. ASSUME NEW w \in Workers, Claim(w) \/ Crash(w)
        PROVE  trip' = trip
    BY <1>2 DEF Claim, Crash, ownerVars
  <1>3. ASSUME NEW h \in Grants, GuestStep(h) \/ LeaseLapses(h) \/ Land(h)
        PROVE  trip' = trip
    BY <1>3 DEF GuestStep, Onboard, GuestReads, GuestRedeems, LeaseLapses,
                Land, ownerVars
  <1>4. ASSUME \/ \E i \in Invites : InviteLeaves(i)
               \/ OwnerInvites \/ IntegrationLost \/ Reconnect \/ Tick
               \/ UNCHANGED vars
        PROVE  trip' = trip
    BY <1>4 DEF InviteLeaves, OwnerInvites, IntegrationLost, Reconnect, Tick,
                vars, ownerVars
  <1>5. \/ trip' = trip
        \/ \E h \in Grants : trip' = [trip EXCEPT ![h] = "cancelled"]
    BY <1>1, <1>2, <1>3, <1>4, JobWritesOwnRow DEF Next
  <1>6. trip[g] = "live"
    BY <1>5 DEF TypeOK
  <1> QED BY <1>1, <1>6 DEF TypeOK

LEMMA TimePasses ==
  ASSUME TypeOK, [Next]_vars
  PROVE  now' \in Nat /\ now' >= now
  <1>1. ASSUME NEW w \in Workers, NEW g \in Grants, JobStep(w, g)
        PROVE  now' = now
    BY <1>1 DEF JobStep, IssueStep, RevokeStep, Begin, ReadContext, Refresh,
         Before, Reserve, PostOk, PostFails, ListAfter, Commit, Supersede,
         Audit, Finish, StartRevoke, RevokeCall, DropSecret, RecordRevoked,
         ListDrivers, RemoveDriver
  <1>2. ASSUME NEW w \in Workers, Claim(w) \/ Crash(w)
        PROVE  now' = now
    BY <1>2 DEF Claim, Crash
  <1>3. ASSUME NEW g \in Grants, OwnerStep(g) \/ LeaseLapses(g)
        PROVE  now' = now
    BY <1>3 DEF OwnerStep, ResolveApply, ResolveCancel, OwnerCancel, LeaseLapses
  <1>4. ASSUME NEW g \in Grants, GuestStep(g) \/ Land(g)
        PROVE  now' = now
    BY <1>4 DEF GuestStep, Onboard, GuestReads, GuestRedeems, Land
  <1>5. ASSUME \/ \E i \in Invites : InviteLeaves(i)
               \/ OwnerInvites \/ IntegrationLost \/ Reconnect \/ Tick
               \/ UNCHANGED vars
        PROVE  now' = now \/ now' = now + 1
    BY <1>5 DEF InviteLeaves, OwnerInvites, IntegrationLost, Reconnect, Tick, vars
  <1>6. now' = now \/ now' = now + 1
    BY <1>1, <1>2, <1>3, <1>4, <1>5 DEF Next
  <1> QED BY <1>6 DEF TypeOK

-----------------------------------------------------------------------------
(***************************************************************************)
(* Theorem: an ambiguous request is not made again.  It is stated for a    *)
(* trip that still lives, so nobody but the worker writes its row; and the *)
(* worker, once it has asked Tesla for an invitation, goes on from the     *)
(* saved before-set, parks the row, or waits for the time to revoke.       *)
(***************************************************************************)

\* An invitation was asked for.
Begun(g) == g \in inflight \/ \E i \in Invites : creator[i] = g

\* The row is not due before t.
NotBefore(r, t) == r.next = None \/ r.next >= t \/ now >= t

Withdrawing == {"startRevoke", "revoke", "forget", "record", "drivers",
                "remove"}

OnceRow(g) ==
  trip[g] = "live" =>
    /\ row[g].revoke > row[g].issue
    /\ NotBefore(row[g], row[g].issue)
    /\ Begun(g) /\ row[g].status # "issuing" => NotBefore(row[g], row[g].revoke)

OnceJob(v, g) ==
  LET j == <<v, g>>
      r == row[g]
  IN trip[g] = "live" =>
    /\ pc[j] # "idle" => now >= r.issue
    /\ pc[j] \notin {"supersede", "audit"}
    /\ pc[j] \in {"queued", "context", "refresh"} /\ Begun(g) =>
         r.status = "issuing" \/ now >= r.revoke
    /\ pc[j] \in Withdrawing => now >= r.revoke
    /\ pc[j] = "refresh" => mem[j].revoke = r.revoke
    /\ pc[j] \in {"refresh", "before"} => (mem[j].issuing <=> r.status = "issuing")
    /\ (pc[j] = "before" /\ ~mem[j].issuing) \/ pc[j] \in {"reserve", "post"}
         => ~Begun(g)
    /\ pc[j] \in {"queued", "context", "refresh", "before", "reserve", "post",
                  "after", "commit"} => r.claimedBy = v
    /\ pc[j] \in {"refresh", "before", "reserve", "post", "after", "commit"}
         => j \in fresh
    /\ pc[j] \in {"post", "after", "commit"} => r.status = "issuing"

OnceOK == \A g \in Grants, v \in Workers : OnceRow(g) /\ OnceJob(v, g)

\* Only the answer to a job's POST, or its loss, makes a first request.
LEMMA BegunStep ==
  ASSUME Alone, TypeOK, [Next]_vars, NEW v \in Workers, NEW g \in Grants,
         Begun(g)', ~Begun(g)
  PROVE  pc[<<v, g>>] = "post" /\ (JobStep(v, g) \/ Crash(v))
  <1>0. \A w \in Workers : w = v
    BY DEF Alone
  <1>a. ASSUME NEW i \in Unused, NEW c \in Grants \cup {Owner}, Create(i, c), c # g
        PROVE  \A k \in Invites : creator'[k] = g => creator[k] = g
    BY <1>a DEF Create, Unused, TypeOK
  <1>b. ASSUME UNCHANGED creator, inflight' \subseteq inflight
        PROVE  FALSE
    BY <1>b DEF Begun
  <1>1. ASSUME NEW h \in Grants, JobStep(v, h)
        PROVE  pc[<<v, g>>] = "post" /\ JobStep(v, g)
    <2>1. CASE PostOk(v, h)
      <3>1. h = g
        BY <1>a, <2>1 DEF PostOk, Begun
      <3> QED BY <1>1, <2>1, <3>1 DEF PostOk, At
    <2>2. CASE PostFails(v, h)
      <3>1. h = g
        BY <2>2 DEF PostFails, Begun
      <3> QED BY <1>1, <2>2, <3>1 DEF PostFails, At
    <2>3. CASE \/ Begin(v, h) \/ ReadContext(v, h) \/ Refresh(v, h)
               \/ Before(v, h) \/ Reserve(v, h) \/ ListAfter(v, h)
               \/ Commit(v, h) \/ Supersede(v, h) \/ Audit(v, h) \/ Finish(v, h)
      BY <1>b, <2>3 DEF Begin, ReadContext, Refresh, Before, Reserve, ListAfter,
           Commit, Supersede, Audit, Finish, teslaVars
    <2>4. CASE RevokeStep(v, h)
      BY <1>b, <2>4 DEF RevokeStep, StartRevoke, RevokeCall, DropSecret,
           RecordRevoked, ListDrivers, RemoveDriver, teslaVars
    <2> QED BY <1>1, <2>1, <2>2, <2>3, <2>4 DEF JobStep, IssueStep
  <1>2. CASE Crash(v)
    BY <1>2 DEF Crash, Begun, At
  <1>3. CASE Claim(v)
    BY <1>b, <1>3 DEF Claim, teslaVars
  <1>4. ASSUME NEW h \in Grants, OwnerStep(h) \/ GuestStep(h) \/ LeaseLapses(h)
        PROVE  FALSE
    BY <1>b, <1>4 DEF OwnerStep, ResolveApply, ResolveCancel, OwnerCancel,
         GuestStep, Onboard, GuestReads, GuestRedeems, LeaseLapses, teslaVars
  <1>5. ASSUME NEW h \in Grants, Land(h)
        PROVE  FALSE
    <2>1. h # g
      BY <1>5 DEF Land, Begun
    <2> QED BY <1>5, <1>a, <2>1 DEF Land, Begun
  <1>6. CASE OwnerInvites
    <2>1. Owner # g
      BY NullAssumption
    <2> QED BY <1>6, <1>a, <2>1 DEF OwnerInvites, Begun
  <1>7. CASE \/ \E i \in Invites : InviteLeaves(i)
             \/ IntegrationLost \/ Reconnect \/ Tick \/ UNCHANGED vars
    BY <1>7, <1>b DEF InviteLeaves, IntegrationLost, Reconnect, Tick, vars, teslaVars
  <1> QED BY <1>0, <1>1, <1>2, <1>3, <1>4, <1>5, <1>6, <1>7 DEF Next

LEMMA ClaimFields ==
  ASSUME TypeOK, NEW w \in Workers, Claim(w), NEW g \in Grants
  PROVE  /\ pc[<<w, g>>] = "idle"
         /\ row'[g].issue = row[g].issue /\ row'[g].revoke = row[g].revoke
         /\ row'[g].status = row[g].status /\ row'[g].next = row[g].next
         /\ row'[g].pid = row[g].pid
         /\ \/ /\ g \in Due /\ pc'[<<w, g>>] = "queued"
               /\ row'[g].claimedBy = w
            \/ pc'[<<w, g>>] = "idle"
  <1> DEFINE r == [row[g] EXCEPT !.claimedBy = w, !.leased = TRUE]
  <1>1. /\ r.issue = row[g].issue /\ r.revoke = row[g].revoke
        /\ r.status = row[g].status /\ r.next = row[g].next
        /\ r.pid = row[g].pid /\ r.claimedBy = w
    BY RowOfGrant DEF Row
  <1>2. pc[<<w, g>>] = "idle" /\ <<w, g>> \in Jobs
    BY DEF Claim, At, Jobs
  <1>3. CASE g \in Due
    <2>1. row'[g] = r /\ pc'[<<w, g>>] = "queued"
      BY <1>2, <1>3 DEF Claim
    <2> HIDE DEF r
    <2> QED BY <1>1, <1>2, <1>3, <2>1
  <1>4. CASE g \notin Due
    <2>1. row'[g] = row[g] /\ pc'[<<w, g>>] = "idle"
      BY <1>2, <1>4 DEF Claim
    <2> QED BY <1>2, <2>1
  <1> QED BY <1>3, <1>4

LEMMA LapseFields ==
  ASSUME TypeOK, NEW g \in Grants, LeaseLapses(g)
  PROVE  /\ row'[g].issue = row[g].issue /\ row'[g].revoke = row[g].revoke
         /\ row'[g].status = row[g].status /\ row'[g].next = row[g].next
         /\ row'[g].pid = row[g].pid /\ row'[g].claimedBy = row[g].claimedBy
         /\ \A j \in Jobs : pc'[j] = pc[j] /\ SameView(j)
  <1> DEFINE r == [row[g] EXCEPT !.leased = FALSE]
  <1>1. /\ r.issue = row[g].issue /\ r.revoke = row[g].revoke
        /\ r.status = row[g].status /\ r.next = row[g].next
        /\ r.pid = row[g].pid /\ r.claimedBy = row[g].claimedBy
    BY RowOfGrant DEF Row
  <1>2. row'[g] = r
    BY DEF LeaseLapses, TypeOK
  <1> HIDE DEF r
  <1> QED BY <1>1, <1>2 DEF LeaseLapses, jobVars, SameView

LEMMA CrashFields ==
  ASSUME TypeOK, NEW w \in Workers, Crash(w), NEW g \in Grants
  PROVE  row'[g] = row[g] /\ pc'[<<w, g>>] = "idle"
  BY DEF Crash, Jobs

LEMMA OnceStep ==
  ASSUME Alone, Windows = {}, InviteLife > 0,
         {"refresh", "db"} \cap FaultKinds = {},
         TypeOK, FoundOK, OnceOK, [Next]_vars
  PROVE  OnceOK'
  <1> SUFFICES ASSUME NEW g \in Grants, NEW v \in Workers, trip'[g] = "live"
               PROVE  OnceRow(g)' /\ OnceJob(v, g)'
    BY DEF OnceOK, OnceRow, OnceJob
  <1> DEFINE j == <<v, g>>
             r == row[g]
             s == row'[g]
  <1>0. /\ trip[g] = "live" /\ ~OwnerStep(g) /\ OnceRow(g) /\ OnceJob(v, g)
        /\ now' \in Nat /\ now' >= now /\ j \in Jobs
    BY LiveStays, TimePasses DEF OnceOK, Jobs
  <1>a. /\ r.issue \in Nat /\ r.revoke \in Nat /\ r.next \in Nat \cup {None}
        /\ now \in Nat /\ None \notin Nat /\ InviteLife \in Nat
    BY RowOfGrant, BoundAssumption, NullAssumption DEF Row, TypeOK
  <1>b. Begun(g)' => Begun(g) \/ (pc[j] = "post" /\ (JobStep(v, g) \/ Crash(v)))
    BY BegunStep
  <1> HIDE DEF j, r, s
  <1>1. CASE JobStep(v, g) /\ Walks(v, g)
    <2>1. s = r
      BY <1>1 DEF Walks, s, r
    <2>2. OnceRow(g)'
      BY <1>0, <1>a, <1>b, <1>1, <2>1 DEF OnceRow, OnceJob, NotBefore, Walks, j, r, s, Hop
    <2>3. OnceJob(v, g)'
      BY <1>0, <1>a, <1>b, <1>1, <2>1 DEF OnceRow, OnceJob, Walks, SameView, Withdrawing, CommitGuard, Fenced, j, r, s, Hop
    <2> QED BY <2>2, <2>3
  <1>2. CASE JobStep(v, g) /\ Writes(v, g)
    <2>2. OnceRow(g)'
      BY <1>0, <1>a, <1>b, <1>2 DEF OnceRow, OnceJob, NotBefore, Writes, Withdrawing, j, r, s, Hop
    <2>3. OnceJob(v, g)'
      BY <1>0, <1>a, <1>b, <1>2 DEF OnceRow, OnceJob, Writes, Withdrawing, Fenced, j, r, s, Hop
    <2> QED BY <2>2, <2>3
  <1>3. CASE Claim(v)
    <2>1. /\ s.issue = r.issue /\ s.revoke = r.revoke
          /\ s.status = r.status /\ s.next = r.next
          /\ \/ /\ pc'[j] = "queued" /\ s.claimedBy = v
                /\ r.next # None /\ r.next <= now
             \/ pc'[j] = "idle"
      BY <1>3, ClaimFields DEF Due, r, s, j
    <2>2. Begun(g)' => Begun(g)
      BY <1>3, <1>b, ClaimFields DEF j
    <2>3. OnceRow(g)'
      BY <1>0, <1>a, <2>1, <2>2 DEF OnceRow, NotBefore, r, s
    <2>4. OnceJob(v, g)'
      BY <1>0, <1>a, <2>1, <2>2 DEF OnceRow, OnceJob, NotBefore, Withdrawing, r, s, j
    <2> QED BY <2>3, <2>4
  <1>4. CASE Crash(v)
    <2>1. s = r /\ pc'[j] = "idle"
      BY <1>4, CrashFields DEF s, r, j
    <2>2. OnceRow(g)'
      BY <1>0, <1>a, <1>b, <2>1 DEF OnceRow, OnceJob, NotBefore, j, r, s
    <2>3. OnceJob(v, g)'
      BY <2>1 DEF OnceJob, Withdrawing, j
    <2> QED BY <2>2, <2>3
  <1>5. CASE /\ ~JobStep(v, g) /\ ~Crash(v)
             /\ s.issue = r.issue /\ s.revoke = r.revoke
             /\ s.status = r.status /\ s.next = r.next
             /\ s.claimedBy = r.claimedBy /\ pc'[j] = pc[j] /\ SameView(j)
    <2>1. Begun(g)' => Begun(g)
      BY <1>b, <1>5
    <2>2. OnceRow(g)'
      BY <1>0, <1>a, <1>5, <2>1 DEF OnceRow, NotBefore, r, s
    <2>3. OnceJob(v, g)'
      BY <1>0, <1>a, <1>5, <2>1 DEF OnceJob, SameView, Withdrawing, r, s, j
    <2> QED BY <2>2, <2>3
  <1>6. CASE LeaseLapses(g)
    <2>1. /\ s.issue = r.issue /\ s.revoke = r.revoke
          /\ s.status = r.status /\ s.next = r.next
          /\ s.claimedBy = r.claimedBy /\ pc'[j] = pc[j] /\ SameView(j)
      BY <1>0, <1>6, LapseFields DEF s, r
    <2> QED BY <1>1, <1>2, <1>4, <1>5, <2>1, JobMoves
  <1>7. CASE row'[g] = row[g] /\ pc'[j] = pc[j] /\ SameView(j)
    BY <1>1, <1>2, <1>4, <1>5, <1>7, JobMoves DEF s, r
  <1> QED BY <1>0, <1>1, <1>2, <1>3, <1>4, <1>6, <1>7, Apart, JobMoves DEF j

\* With a single worker, which may crash and restart at any point, and trips
\* whose window the calendar does not move: no invitation is asked for again
\* while one whose request was never answered for is open at Tesla - whatever
\* requests fail, land late or are refused, except the refresh of the token
\* and the last write of a job, whose failure has the row retried.
THEOREM AmbiguousNotRetried ==
  ASSUME Alone, Windows = {}, InviteLife > 0,
         {"refresh", "db"} \cap FaultKinds = {}
  PROVE  Spec => []NeverRetriesAmbiguousCreate
  <1> DEFINE Inv == TypeOK /\ FoundOK /\ OnceOK
  <1>1. Init => Inv
    <2> SUFFICES ASSUME Init
                 PROVE  OnceOK
      BY InitJobs
    <2> SUFFICES ASSUME NEW g \in Grants, NEW v \in Workers
                 PROVE  OnceRow(g) /\ OnceJob(v, g)
      BY DEF OnceOK
    <2>1. row[g] = NewRow /\ pc[<<v, g>>] = "idle"
      BY DEF Init, Jobs
    <2>2. ~Begun(g)
      BY NullAssumption DEF Init, Begun
    <2>3. /\ NewRow.revoke > NewRow.issue /\ NewRow.next = NewRow.issue
          /\ NewRow.issue \in Nat
      BY WindowAssumption DEF NewRow, Window
    <2> QED BY <2>1, <2>2, <2>3 DEF OnceRow, OnceJob, NotBefore, Withdrawing
  <1>2. Inv /\ [Next]_vars => Inv'
    BY TypeStep, FoundStep, OnceStep
  <1>3. Inv => NeverRetriesAmbiguousCreate
    BY DEF OnceOK, OnceJob, NeverRetriesAmbiguousCreate, Unrecorded, Begun, At, TypeOK
  <1> QED BY <1>1, <1>2, <1>3, PTL DEF Spec
-----------------------------------------------------------------------------
(***************************************************************************)
(* Theorem: 'revoked' means that the guest's access is over.  The worker   *)
(* withdraws the id its row records, so the argument is that the guest     *)
(* holds no other one: while the trip lives a published row is left alone  *)
(* until it is time to revoke, and once it is cancelled nothing is         *)
(* published, and a second id that reaches the row is withdrawn first or   *)
(* leaves it to people.                                                    *)
(***************************************************************************)

\* The guest may read the link, or has.
Pub(g) == row[g].status = "invite_ready" \/ known[g] # {}

PubRow(g) ==
  trip[g] = "live" =>
    /\ known[g] \subseteq {row[g].pid}
    /\ Pub(g) => NotBefore(row[g], row[g].revoke)

PubJob(v, g) ==
  LET j == <<v, g>>
      r == row[g]
  IN trip[g] = "live" =>
    /\ pc[j] = "refresh" => mem[j].revoke = r.revoke
    /\ pc[j] \in Withdrawing => now >= r.revoke
    /\ Pub(g) =>
         /\ pc[j] \notin {"before", "reserve", "post", "after", "commit",
                          "supersede", "audit"}
         /\ pc[j] \in {"queued", "context", "refresh"} => now >= r.revoke

\* The guest holds one link at most, and none that is open as a driver; it is
\* the one the row records, or that one is not open, or the row is parked.
HeldRow(v, g) ==
  /\ known[g] \subseteq Used
  /\ \A i, k \in known[g] : i = k
  /\ g \in drivers => known[g] # {} /\ known[g] \cap open = {}
  /\ known[g] # {} => row[g].pid # None
  /\ \/ known[g] \subseteq {row[g].pid}
     \/ row[g].pid \notin open
     \/ row[g].status = "manual_review" /\ pc[<<v, g>>] \in {"idle", "finish"}
  /\ row[g].status = "revoked" => g \notin drivers /\ known[g] \cap open = {}

HeldJob(v, g) ==
  LET j == <<v, g>> IN
  /\ pc[j] \in OnWithdrawal => row[g].status = "revoking" /\ row[g].pid # None
  /\ pc[j] \in {"forget", "record", "remove"} => known[g] \cap open = {}
  /\ pc[j] \in {"forget", "record"} => g \notin drivers

Held(v, g) == PubRow(g) /\ PubJob(v, g) /\ HeldRow(v, g) /\ HeldJob(v, g)

HeldOK == \A g \in Grants, v \in Workers : Held(v, g)

\* Who holds a link, and who drives, changes by the guest's own steps; but a
\* worker may remove the driver.
LEMMA GuestOnly ==
  ASSUME TypeOK, [Next]_vars, NEW g \in Grants
  PROVE  /\ known'[g] = known[g] \/ GuestReads(g)
         /\ g \in drivers' => g \in drivers \/ GuestRedeems(g)
  <1>1. ASSUME NEW w \in Workers, NEW h \in Grants, JobStep(w, h)
        PROVE  known' = known /\ drivers' \subseteq drivers
    <2>1. drivers' \subseteq drivers
      BY <1>1 DEF JobStep, IssueStep, RevokeStep, Begin, ReadContext, Refresh,
         Before, Reserve, PostOk, PostFails, ListAfter, Commit, Supersede,
         Audit, Finish, StartRevoke, RevokeCall, DropSecret, RecordRevoked,
         ListDrivers, RemoveDriver, teslaVars
    <2> QED BY <1>1, <2>1, JobWritesOwnRow
  <1>2. ASSUME NEW w \in Workers, Claim(w) \/ Crash(w)
        PROVE  known' = known /\ drivers' = drivers
    BY <1>2 DEF Claim, Crash, teslaVars
  <1>3. ASSUME NEW h \in Grants, OwnerStep(h) \/ LeaseLapses(h) \/ Land(h)
        PROVE  known' = known /\ drivers' = drivers
    BY <1>3 DEF OwnerStep, ResolveApply, ResolveCancel, OwnerCancel,
                LeaseLapses, Land, teslaVars
  <1>4. ASSUME NEW h \in Grants, GuestStep(h)
        PROVE  /\ known'[g] = known[g] \/ GuestReads(g)
               /\ g \in drivers' => g \in drivers \/ GuestRedeems(g)
    <2>1. CASE Onboard(h)
      BY <2>1 DEF Onboard, teslaVars
    <2>2. CASE GuestReads(h)
      <3>1. h = g \/ known'[g] = known[g]
        BY <2>2 DEF GuestReads, TypeOK
      <3>2. drivers' = drivers
        BY <2>2 DEF GuestReads
      <3> QED BY <2>2, <3>1, <3>2
    <2>3. CASE GuestRedeems(h)
      <3>1. known' = known /\ drivers' = drivers \cup {h}
        BY <2>3 DEF GuestRedeems
      <3> QED BY <2>3, <3>1
    <2> QED BY <1>4, <2>1, <2>2, <2>3 DEF GuestStep
  <1>5. ASSUME \/ \E i \in Invites : InviteLeaves(i)
               \/ OwnerInvites \/ IntegrationLost \/ Reconnect \/ Tick
               \/ UNCHANGED vars
        PROVE  known' = known /\ drivers' = drivers
    BY <1>5 DEF InviteLeaves, OwnerInvites, IntegrationLost, Reconnect, Tick,
                vars, teslaVars
  <1> QED BY <1>1, <1>2, <1>3, <1>4, <1>5 DEF Next

\* The guest takes the link, or uses it.
LEMMA GuestHeld ==
  ASSUME TypeOK, PublishedMatches, IdsOK, [Next]_vars,
         NEW v \in Workers, NEW g \in Grants, Held(v, g),
         GuestReads(g) \/ GuestRedeems(g)
  PROVE  Held(v, g)'
  <1> DEFINE j == <<v, g>>
  <1>0. /\ row' = row /\ pc' = pc /\ mem' = mem /\ now' = now /\ trip' = trip
        /\ \A i \in Used : i \in Used'
    BY NeverReopened DEF GuestReads, GuestRedeems, ownerVars, jobVars
  <1>1. CASE GuestReads(g)
    <2>1. /\ row[g].status = "invite_ready" /\ row[g].pid # None
          /\ secret[g] = row[g].pid /\ trip[g] = "live" /\ secret[g] \in Used
      BY <1>1 DEF GuestReads, Readable, PublishedMatches, IdsOK, TypeOK
    <2>2. /\ known'[g] = {row[g].pid} /\ known[g] = {}
          /\ open' = open /\ drivers' = drivers
      BY <1>1, <2>1 DEF GuestReads, Held, PubRow, TypeOK
    <2> QED BY <1>0, <2>1, <2>2 DEF Held, PubRow, PubJob, HeldRow, HeldJob, Pub,
                                    NotBefore, Withdrawing, OnWithdrawal
  <1>2. CASE GuestRedeems(g)
    <2>1. PICK i \in known[g] \cap open : open' = open \ {i}
      BY <1>2 DEF GuestRedeems
    <2>2. known' = known /\ drivers' = drivers \cup {g} /\ known[g] = {i}
      BY <1>2, <2>1 DEF GuestRedeems, Held, HeldRow
    <2> QED BY <1>0, <2>1, <2>2 DEF Held, PubRow, PubJob, HeldRow, HeldJob, Pub,
                                    NotBefore, Withdrawing, OnWithdrawal
  <1> QED BY <1>1, <1>2

LEMMA HeldStep ==
  ASSUME Alone, Windows = {}, {"tesla", "db"} \cap FaultKinds = {},
         TypeOK, FoundOK, IdsOK, RevokingOK, PublishedMatches, HeldOK, [Next]_vars
  PROVE  HeldOK'
  <1> SUFFICES ASSUME NEW g \in Grants, NEW v \in Workers
               PROVE  Held(v, g)'
    BY DEF HeldOK
  <1> DEFINE j == <<v, g>>
             r == row[g]
             s == row'[g]
  <1>0. /\ Held(v, g)
        /\ trip'[g] = "live" => trip[g] = "live"
        /\ now' \in Nat /\ now' >= now /\ j \in Jobs
    BY LiveStays, TimePasses DEF HeldOK, Jobs
  <1>a. /\ r.issue \in Nat /\ r.revoke \in Nat /\ r.next \in Nat \cup {None}
        /\ r.pid \in Used \cup {None}
        /\ now \in Nat /\ None \notin Nat /\ None \notin Used
    BY RowOfGrant, NullAssumption DEF Row, TypeOK, IdsOK, Used
  <1>b. CASE GuestReads(g) \/ GuestRedeems(g)
    BY <1>0, <1>b, GuestHeld
  <1>c. SUFFICES ASSUME known'[g] = known[g], g \in drivers' => g \in drivers
                 PROVE  Held(v, g)'
    BY <1>b, GuestOnly
  <1>d. /\ \A i \in Used : i \in Used' /\ (i \in open' => i \in open)
        /\ r.pid \notin open => r.pid \notin open'
    BY <1>a, NeverReopened, StaysClosed
  <1> DEFINE Kept == known[g] \cap open = {} => known[g] \cap open' = {}
  <1>e. Kept /\ known'[g] \subseteq Used'
    BY <1>0, <1>c, <1>d DEF Held, HeldRow
  <1> HIDE DEF j, r, s
  <1>1. CASE JobStep(v, g) /\ Walks(v, g)
    <2>1. s = r
      BY <1>1 DEF Walks, s, r
    <2>2. PubRow(g)'
      BY <1>0, <1>a, <1>c, <2>1 DEF Held, PubRow, Pub, NotBefore, r, s
    <2>3. PubJob(v, g)'
      BY <1>0, <1>a, <1>c, <1>1, <2>1 DEF Held, PubJob, Pub, Walks, SameView,
         Withdrawing, Hop, j, r, s
    <2>4. HeldRow(v, g)'
      BY <1>0, <1>a, <1>c, <1>d, <1>e, <1>1, <2>1 DEF Held, HeldRow, Walks,
         Hop, j, r, s
    <2>5. HeldJob(v, g)'
      BY <1>0, <1>a, <1>c, <1>d, <1>e, <1>1, <2>1 DEF Held, HeldRow, HeldJob, Walks,
         RevokingOK, RevokingAt, OnWithdrawal, Hop, j, r, s
    <2> QED BY <2>2, <2>3, <2>4, <2>5 DEF Held
  <1>2. CASE JobStep(v, g) /\ Writes(v, g)
    <2>2. PubRow(g)'
      BY <1>0, <1>a, <1>c, <1>2 DEF Held, PubRow, PubJob, Pub, NotBefore,
         Writes, Withdrawing, Hop, j, r, s
    <2>3. PubJob(v, g)'
      BY <1>0, <1>a, <1>c, <1>2 DEF Held, PubJob, Pub, Writes, Withdrawing,
         Hop, j, r, s
    <2>4. HeldRow(v, g)'
      <3>1. /\ known'[g] \subseteq Used'
            /\ \A i, k \in known'[g] : i = k
            /\ g \in drivers' => known'[g] # {} /\ known'[g] \cap open' = {}
        BY <1>0, <1>c, <1>e DEF Held, HeldRow
      <3>2. s.pid = r.pid \/ s.pid \in Used
        BY PidStep DEF OthersSame, r, s
      <3>3. known'[g] # {} => s.pid # None
        BY <1>0, <1>a, <1>c, <3>2 DEF Held, HeldRow, r
      <3>4. s.status = "revoked" =>
              g \notin drivers' /\ known'[g] \cap open' = {}
        BY <1>0, <1>c, <1>e, <1>2 DEF Held, HeldRow, HeldJob, Writes, Hop,
           j, r, s
      <3>5. \/ known'[g] \subseteq {s.pid}
            \/ s.pid \notin open'
            \/ s.status = "manual_review" /\ pc'[j] \in {"idle", "finish"}
        <4>1. CASE s.pid = r.pid
          BY <1>0, <1>c, <1>d, <1>2, <4>1 DEF Held, HeldRow, Writes, Hop,
             OnWithdrawal, j, r, s
        <4>2. CASE s.pid # r.pid
          BY <1>0, <1>a, <1>c, <1>2, <4>2 DEF Held, PubJob, Pub, Writes, Hop,
             CommitGuard, TypeOK, j, r, s
        <4> QED BY <4>1, <4>2
      <3> QED BY <3>1, <3>3, <3>4, <3>5 DEF HeldRow, s, j
    <2>5. HeldJob(v, g)'
      BY <1>0, <1>a, <1>c, <1>d, <1>e, <1>2 DEF Held, HeldRow, HeldJob, Writes,
         RevokingOK, RevokingAt, OnWithdrawal, Hop, j, r, s
    <2> QED BY <2>2, <2>3, <2>4, <2>5 DEF Held
  <1>3. CASE Claim(v)
    <2>1. /\ pc[j] = "idle" /\ s.issue = r.issue /\ s.revoke = r.revoke
          /\ s.status = r.status /\ s.next = r.next /\ s.pid = r.pid
          /\ \/ /\ pc'[j] = "queued" /\ r.next # None /\ r.next <= now
                /\ r.status # "manual_review"
             \/ pc'[j] = "idle"
      BY <1>3, ClaimFields DEF Due, r, s, j
    <2>2. PubRow(g)' /\ PubJob(v, g)'
      BY <1>0, <1>a, <1>c, <2>1 DEF Held, PubRow, PubJob, Pub, NotBefore,
         Withdrawing, j, r, s
    <2>3. HeldRow(v, g)' /\ HeldJob(v, g)'
      BY <1>0, <1>a, <1>c, <1>d, <1>e, <2>1 DEF Held, HeldRow, HeldJob,
         OnWithdrawal, j, r, s
    <2> QED BY <2>2, <2>3 DEF Held
  <1>4. CASE Crash(v)
    <2>1. s = r /\ pc'[j] = "idle"
      BY <1>4, CrashFields DEF s, r, j
    <2>2. PubRow(g)' /\ PubJob(v, g)'
      BY <1>0, <1>a, <1>c, <2>1 DEF Held, PubRow, PubJob, Pub, NotBefore,
         Withdrawing, j, r, s
    <2>3. HeldRow(v, g)' /\ HeldJob(v, g)'
      BY <1>0, <1>a, <1>c, <1>d, <1>e, <2>1 DEF Held, HeldRow, HeldJob,
         OnWithdrawal, j, r, s
    <2> QED BY <2>2, <2>3 DEF Held
  <1>5. CASE OwnerStep(g)
    <2>1. trip'[g] # "live"
      BY <1>5, LiveStays
    <2>2. PubRow(g)' /\ PubJob(v, g)'
      BY <2>1 DEF PubRow, PubJob
    <2>3. /\ pc'[j] = pc[j] /\ s.pid = r.pid
          /\ r.pid # None => s.status = r.status
      BY <1>5, OwnerSettles, OtherSteps DEF jobVars, r, s
    <2>4. HeldRow(v, g)' /\ HeldJob(v, g)'
      BY <1>0, <1>a, <1>c, <1>d, <1>e, <2>3 DEF Held, HeldRow, HeldJob,
         OnWithdrawal, j, r, s
    <2> QED BY <2>2, <2>4 DEF Held
  <1>6. CASE /\ s.issue = r.issue /\ s.revoke = r.revoke
             /\ s.status = r.status /\ s.next = r.next /\ s.pid = r.pid
             /\ pc'[j] = pc[j] /\ SameView(j)
    <2>1. PubRow(g)' /\ PubJob(v, g)'
      BY <1>0, <1>a, <1>c, <1>6 DEF Held, PubRow, PubJob, Pub, NotBefore,
         Withdrawing, SameView, j, r, s
    <2>2. HeldRow(v, g)' /\ HeldJob(v, g)'
      BY <1>0, <1>a, <1>c, <1>d, <1>e, <1>6 DEF Held, HeldRow, HeldJob,
         OnWithdrawal, j, r, s
    <2> QED BY <2>1, <2>2 DEF Held
  <1>7. CASE LeaseLapses(g)
    BY <1>0, <1>6, <1>7, LapseFields DEF s, r
  <1>8. CASE row'[g] = row[g] /\ pc'[j] = pc[j] /\ SameView(j)
    BY <1>6, <1>8 DEF s, r
  <1> QED BY <1>1, <1>2, <1>3, <1>4, <1>5, <1>7, <1>8, Apart, JobMoves DEF j

\* With a single worker, which may crash and restart at any point, and trips
\* whose window the calendar does not move: once a grant is 'revoked' its guest
\* does not drive the vehicle and holds no link that is still open - whatever
\* the guest does meanwhile, and whichever requests fail, but for the list
\* before the POST, the withdrawals and the drivers (the kind "tesla") and the
\* last write of a job: those failures may leave a second invitation behind.
THEOREM RevocationEndsAccess ==
  ASSUME Alone, Workers # {}, Windows = {},
         {"tesla", "db"} \cap FaultKinds = {}
  PROVE  Spec => []RevokedEndsAccess
  <1> DEFINE Inv == /\ TypeOK /\ FoundOK /\ SessionExclusive /\ IdsOK
                    /\ RevokingOK /\ Unready /\ PublishedMatches /\ HeldOK
                    /\ RevokedEndsAccess
  <1>1. Init => Inv
    <2> SUFFICES ASSUME Init
                 PROVE  Inv
      OBVIOUS
    <2>1. /\ \A g \in Grants : row[g] = NewRow /\ known[g] = {}
          /\ \A j \in Jobs : pc[j] = "idle"
          /\ drivers = {} /\ open = {}
      BY DEF Init
    <2>2. NewRow.status = "scheduled" /\ NewRow.pid = None
          /\ NewRow.next = NewRow.issue
      BY DEF NewRow
    <2>3. IdsOK /\ RevokingOK /\ Unready /\ PublishedMatches /\ RevokedEndsAccess
      BY <2>1, <2>2 DEF IdsOK, RevokingOK, RevokingAt, Unready, OnWithdrawal,
                        PublishedMatches, RevokedEndsAccess
    <2>4. HeldOK
      <3> SUFFICES ASSUME NEW g \in Grants, NEW v \in Workers
                   PROVE  Held(v, g)
        BY DEF HeldOK
      <3>1. <<v, g>> \in Jobs
        BY DEF Jobs
      <3> QED BY <2>1, <2>2, <3>1 DEF Held, PubRow, PubJob, Pub, HeldRow, HeldJob,
                                      Withdrawing, OnWithdrawal
    <2> QED BY <2>3, <2>4, InitJobs
  <1>2. Inv /\ [Next]_vars => Inv'
    <2> SUFFICES ASSUME Inv, [Next]_vars
                 PROVE  Inv'
      OBVIOUS
    <2>1. HeldOK'
      BY HeldStep
    <2>2. RevokedEndsAccess'
      BY <2>1 DEF Alone, HeldOK, Held, HeldRow, RevokedEndsAccess
    <2> QED BY <2>1, <2>2, TypeStep, FoundStep, SessionStep, IdsStep,
               RevokingStep, UnreadyStep, PublishedStep
  <1>3. Inv => RevokedEndsAccess
    OBVIOUS
  <1> QED BY <1>1, <1>2, <1>3, PTL DEF Spec
=============================================================================

----------------------------- MODULE OwnerProofs -----------------------------
(***************************************************************************)
(* Theorems about the parts of a workspace that its owner works with, each *)
(* from an inductive strengthening of its own: saved settings stay, the    *)
(* custom domain is detached before it is forgotten, a confirmed candidate *)
(* has its trip's times, the owner's word for a car stands, purged mail is *)
(* not read again, and an account is connected where it signed in.         *)
(***************************************************************************)
EXTENDS Workspace, TLAPS

LEMMA OwnerPartStays ==
  ASSUME [PartNext]_allVars
  PROVE  which' = which
  BY DEF PartNext, allVars

-----------------------------------------------------------------------------
(* The settings.                                                           *)

CarRow == [active : BOOLEAN, rev : 1 .. MaxEdits + 1]
Copy   == [ver : Nat, edits : SUBSET (1 .. MaxEdits), car : 0 .. MaxEdits + 1, live : BOOLEAN]
Save   == [by : {"form", "publish", "sync"}, ver : Nat, edits : SUBSET (1 .. MaxEdits),
           car : 0 .. MaxEdits + 1, live : BOOLEAN]
SyncKeys == [why : {"none", "unpublish", "relink"}, rev : 0 .. MaxEdits + 1]

\* A copy or a save that names the version of the row b holds every edit b holds.
Holds(q, b) == q.ver <= b.ver /\ (q.ver = b.ver => b.edits \subseteq q.edits)

CopiesHold(b) == \A t \in Tabs : Holds(tenant[t], b) /\ \A q \in saves[t] : Holds(q, b)

SettingsOK ==
  /\ vehicle \in CarRow /\ vehicle.rev <= edits + 1
  /\ branding \in Copy
  /\ cache \in [Tabs -> CarRow] /\ tenant \in [Tabs -> Copy] /\ tried \in [Tabs -> SyncKeys]
  /\ saves \in [Tabs -> SUBSET Save]
  /\ edits \in 0 .. MaxEdits /\ lost \in 0 .. MaxLostReplies
  /\ CopiesHold(branding)

LEMMA SettingsStep ==
  ASSUME [PartNext]_allVars, Runs("settings")
  PROVE  Settings!Next \/ UNCHANGED settingsVars
  BY DEF PartNext, allVars, Runs

LEMMA SettingsSame ==
  ASSUME SettingsOK, UNCHANGED settingsVars
  PROVE  SettingsOK'
  BY DEF SettingsOK, settingsVars, CopiesHold, Holds

LEMMA SettingsInit == PartInit => SettingsOK
  BY SettingsAssumption DEF PartInit, Settings!Init, Settings!ForAll, Settings!NoKey,
     Settings!Key, SettingsOK, CarRow, Copy, Save, SyncKeys,
     CopiesHold, Holds

LEMMA RequestType ==
  ASSUME NEW by \in {"form", "publish", "sync"}, NEW base \in Copy,
         NEW held \in SUBSET (1 .. MaxEdits), NEW car \in 0 .. MaxEdits + 1,
         NEW live \in BOOLEAN
  PROVE  /\ Settings!Request(by, base, held, car, live) \in Save
         /\ Settings!Request(by, base, held, car, live).ver = base.ver
         /\ Settings!Request(by, base, held, car, live).edits = held
  BY DEF Settings!Request, Save, Copy

LEMMA SyncType ==
  ASSUME NEW a \in Copy, NEW v \in CarRow
  PROVE  /\ Settings!SyncSave(a, v) \in Save
         /\ Settings!SyncSave(a, v).ver = a.ver
         /\ Settings!SyncSave(a, v).edits = a.edits
  <1>1. /\ a.edits \in SUBSET (1 .. MaxEdits) /\ a.car \in 0 .. MaxEdits + 1
        /\ a.live \in BOOLEAN /\ v.rev \in 0 .. MaxEdits + 1
    BY SettingsAssumption DEF Copy, CarRow
  <1>2. PICK car \in 0 .. MaxEdits + 1, live \in BOOLEAN :
          Settings!SyncSave(a, v) = Settings!Request("sync", a, a.edits, car, live)
    BY <1>1 DEF Settings!SyncSave
  <1>3. "sync" \in {"form", "publish", "sync"}
    OBVIOUS
  <1> QED
    BY <1>1, <1>2, <1>3, RequestType

LEMMA KeyType ==
  ASSUME NEW a \in Copy, NEW v \in CarRow, NEW key \in SyncKeys
  PROVE  Settings!KeyAfter(a, v, key) \in SyncKeys
  BY SettingsAssumption DEF Settings!KeyAfter, Settings!SyncKey, Settings!Key, Settings!NoKey,
     Settings!Unlinked, SyncKeys, CarRow, Copy

NewVersion == branding' = branding \/ branding'.ver = branding.ver + 1

\* Once the row has a new version, every copy of an older one is outdated.
LEMMA Outdated ==
  ASSUME SettingsOK, branding' \in Copy, NewVersion
  PROVE  CopiesHold(branding')
  <1>1. \A q \in Copy \cup Save : q.ver \in Nat
    BY DEF Copy, Save
  <1>2. \A q \in Copy \cup Save : Holds(q, branding) => Holds(q, branding')
    BY <1>1 DEF SettingsOK, NewVersion, Holds, Copy
  <1>3. \A t \in Tabs : tenant[t] \in Copy /\ saves[t] \subseteq Save
    BY DEF SettingsOK
  <1> QED
    BY <1>2, <1>3 DEF SettingsOK, CopiesHold

LEMMA RendersOK ==
  ASSUME SettingsOK, branding' \in Copy, NewVersion,
         NEW t \in Tabs, NEW a \in Copy, NEW v \in CarRow, NEW key \in SyncKeys,
         NEW inFlight \in SUBSET saves[t], Holds(a, branding'),
         Settings!Renders(t, a, v, key, inFlight)
  PROVE  /\ cache' \in [Tabs -> CarRow] /\ tenant' \in [Tabs -> Copy]
         /\ tried' \in [Tabs -> SyncKeys] /\ saves' \in [Tabs -> SUBSET Save]
         /\ CopiesHold(branding)'
  <1> USE DEF Settings!Renders
  <1>1. /\ cache' = [cache EXCEPT ![t] = v] /\ tenant' = [tenant EXCEPT ![t] = a]
        /\ tried' = [tried EXCEPT ![t] = Settings!KeyAfter(a, v, key)]
    OBVIOUS
  <1>2. PICK next \in SUBSET Save :
          /\ saves' = [saves EXCEPT ![t] = next]
          /\ \A q \in next : q \in saves[t] \/ q = Settings!SyncSave(a, v)
    <2>1. inFlight \subseteq Save
      BY DEF SettingsOK
    <2>2. /\ inFlight \cup {Settings!SyncSave(a, v)} \subseteq Save
      BY <2>1, SyncType
    <2> QED
      BY <2>1, <2>2
  <1>3. Holds(Settings!SyncSave(a, v), branding')
    BY SyncType DEF Holds
  <1>4. CopiesHold(branding)'
    BY <1>1, <1>2, <1>3, Outdated DEF CopiesHold, SettingsOK
  <1> QED
    BY <1>1, <1>2, <1>4, KeyType DEF SettingsOK

LEMMA StoredType ==
  ASSUME SettingsOK, NEW q \in Save
  PROVE  /\ Settings!Stored(q) \in Copy
         /\ Settings!Stored(q).ver = branding.ver + 1
         /\ Settings!Stored(q).edits = q.edits
  BY DEF SettingsOK, Settings!Stored, Save, Copy

LEMMA SettingsNext ==
  ASSUME SettingsOK, Settings!Next
  PROVE  SettingsOK'
  <1> USE SettingsAssumption
  <1>a. /\ vehicle \in CarRow /\ vehicle.rev <= edits + 1 /\ branding \in Copy
        /\ cache \in [Tabs -> CarRow] /\ tenant \in [Tabs -> Copy] /\ tried \in [Tabs -> SyncKeys]
        /\ saves \in [Tabs -> SUBSET Save]
        /\ edits \in 0 .. MaxEdits /\ lost \in 0 .. MaxLostReplies
        /\ CopiesHold(branding)
    BY DEF SettingsOK
  <1>b. /\ branding.ver \in Nat /\ vehicle.rev \in 1 .. MaxEdits + 1
    BY <1>a DEF Copy, CarRow
  <1>1. CASE Settings!SaveRate
    <2>1. branding' \in Copy /\ NewVersion
      BY <1>1, <1>a DEF Settings!SaveRate, Copy, NewVersion
    <2>2. edits' \in 0 .. MaxEdits /\ vehicle.rev <= edits' + 1 /\ lost' = lost
      BY <1>1, <1>a, <1>b DEF Settings!SaveRate, Settings!Counted
    <2> QED
      BY <1>1, <1>a, <2>1, <2>2, Outdated DEF Settings!SaveRate, SettingsOK, CopiesHold
  <1>2. CASE Settings!SaveBattery
    <2>1. edits' \in 0 .. MaxEdits /\ edits' = edits + 1 /\ lost' = lost
      BY <1>2, <1>a DEF Settings!SaveBattery, Settings!Counted
    <2>2. vehicle' = [vehicle EXCEPT !.rev = vehicle.rev + 1]
      BY <1>2 DEF Settings!SaveBattery
    <2>3. vehicle' \in CarRow /\ vehicle'.rev <= edits' + 1
      BY <1>a, <1>b, <2>1, <2>2 DEF CarRow
    <2> QED
      BY <1>2, <1>a, <2>1, <2>3 DEF Settings!SaveBattery, SettingsOK, CopiesHold
  <1>3. ASSUME NEW t \in Tabs, Settings!SubmitSettings(t) \/ Settings!Publish(t)
        PROVE  SettingsOK'
    <2>1. tenant[t] \in Copy /\ cache[t] \in CarRow /\ Holds(tenant[t], branding)
      BY <1>a DEF CopiesHold
    <2>2. PICK q \in Save : /\ saves' = [saves EXCEPT ![t] = saves[t] \cup {q}]
                            /\ q.ver = tenant[t].ver /\ tenant[t].edits \subseteq q.edits
                            /\ edits' \in 0 .. MaxEdits /\ edits <= edits' /\ lost' = lost
      <3>1. /\ cache[t].rev \in 0 .. MaxEdits + 1 /\ tenant[t].edits \in SUBSET (1 .. MaxEdits)
            /\ tenant[t].live \in BOOLEAN
        BY <2>1 DEF CarRow, Copy
      <3>2. CASE Settings!SubmitSettings(t)
        <4>1. PICK car \in {0} \cup IF cache[t].active THEN {cache[t].rev} ELSE {} :
                Settings!Sends(t, Settings!Request("form", tenant[t], tenant[t].edits \cup {edits'},
                                                   car, tenant[t].live))
          BY <3>2 DEF Settings!SubmitSettings
        <4>2. edits' \in 1 .. MaxEdits /\ edits' = edits + 1 /\ lost' = lost
          BY <3>2, <1>a DEF Settings!SubmitSettings, Settings!Counted
        <4>3. car \in 0 .. MaxEdits + 1
          BY <3>1, <4>1
        <4>4. tenant[t].edits \cup {edits'} \in SUBSET (1 .. MaxEdits)
          BY <3>1, <4>2
        <4> DEFINE q == Settings!Request("form", tenant[t], tenant[t].edits \cup {edits'},
                                         car, tenant[t].live)
        <4>5. /\ q \in Save /\ q.ver = tenant[t].ver
              /\ q.edits = tenant[t].edits \cup {edits'}
          BY <2>1, <3>1, <4>3, <4>4, RequestType
        <4>6. saves' = [saves EXCEPT ![t] = saves[t] \cup {q}]
          BY <4>1 DEF Settings!Sends
        <4> HIDE DEF q
        <4>7. edits <= edits' /\ edits' \in 0 .. MaxEdits /\ tenant[t].edits \subseteq q.edits
          BY <1>a, <4>2, <4>5
        <4> QED
          BY <4>2, <4>5, <4>6, <4>7, Zenon
      <3>3. CASE Settings!Publish(t)
        <4> DEFINE q == Settings!Request("publish", tenant[t], tenant[t].edits, cache[t].rev, TRUE)
        <4>1. q \in Save /\ q.ver = tenant[t].ver /\ q.edits = tenant[t].edits
          <5>1. "publish" \in {"form", "publish", "sync"}
            OBVIOUS
          <5>2. PICK live \in BOOLEAN :
                  q = Settings!Request("publish", tenant[t], tenant[t].edits, cache[t].rev, live)
            OBVIOUS
          <5> HIDE DEF q
          <5> QED
            BY <2>1, <3>1, <5>1, <5>2, RequestType
        <4>2. saves' = [saves EXCEPT ![t] = saves[t] \cup {q}]
          BY <3>3 DEF Settings!Publish, Settings!Sends
        <4>3. edits' = edits /\ lost' = lost
          BY <3>3 DEF Settings!Publish, Settings!counts
        <4> HIDE DEF q
        <4>4. edits <= edits' /\ edits' \in 0 .. MaxEdits /\ tenant[t].edits \subseteq q.edits
          BY <1>a, <4>1, <4>3
        <4> QED
          BY <4>1, <4>2, <4>3, <4>4, Zenon
      <3> QED
        BY <1>3, <3>2, <3>3
    <2>3. Holds(q, branding)
      BY <2>1, <2>2 DEF Holds
    <2>4. UNCHANGED <<vehicle, branding, cache, tenant, tried>>
      BY <1>3 DEF Settings!SubmitSettings, Settings!Publish
    <2>5. CopiesHold(branding)' /\ saves' \in [Tabs -> SUBSET Save]
      BY <1>a, <2>2, <2>3, <2>4 DEF CopiesHold
    <2> QED
      BY <1>a, <1>b, <2>2, <2>4, <2>5 DEF SettingsOK
  <1>4. ASSUME NEW t \in Tabs, NEW q \in saves[t], Settings!Saved(t, q)
        PROVE  SettingsOK'
    <2>1. q \in Save /\ branding' = Settings!Stored(q) /\ branding' \in Copy /\ NewVersion
      BY <1>4, <1>a, StoredType DEF Settings!Saved, NewVersion
    <2>2. Settings!Renders(t, branding', cache[t], tried[t], saves[t] \ {q})
      BY <1>4 DEF Settings!Saved
    <2>3. Holds(branding', branding')
      BY <2>1 DEF Holds, Copy
    <2> HIDE DEF Settings!Renders
    <2>4. /\ cache' \in [Tabs -> CarRow] /\ tenant' \in [Tabs -> Copy]
          /\ tried' \in [Tabs -> SyncKeys] /\ saves' \in [Tabs -> SUBSET Save]
          /\ CopiesHold(branding)'
      BY <1>a, <2>1, <2>2, <2>3, RendersOK
    <2> QED
      BY <1>4, <1>a, <2>1, <2>4 DEF Settings!Saved, Settings!counts, SettingsOK
  <1>5. ASSUME NEW t \in Tabs, NEW q \in saves[t], Settings!Refused(t, q)
        PROVE  SettingsOK'
    <2>1. q \in Save /\ branding' \in {branding, Settings!Stored(q)}
      BY <1>5, <1>a DEF Settings!Refused
    <2>2. branding' \in Copy /\ NewVersion
      BY <2>1, <1>a, StoredType DEF NewVersion
    <2>3. PICK key \in SyncKeys : Settings!Renders(t, branding', cache[t], key, saves[t] \ {q})
      BY <1>5, <1>a DEF Settings!Refused, SyncKeys, Settings!NoKey, Settings!Key
    <2>4. Holds(branding', branding')
      BY <2>2 DEF Holds, Copy
    <2>5. /\ cache' \in [Tabs -> CarRow] /\ tenant' \in [Tabs -> Copy]
          /\ tried' \in [Tabs -> SyncKeys] /\ saves' \in [Tabs -> SUBSET Save]
          /\ CopiesHold(branding)'
      BY <1>a, <2>2, <2>3, <2>4, RendersOK
    <2>6. lost' \in 0 .. MaxLostReplies /\ vehicle' = vehicle /\ edits' = edits
      BY <1>5, <1>a DEF Settings!Refused
    <2> QED
      BY <1>a, <2>2, <2>5, <2>6 DEF SettingsOK
  <1>6. ASSUME NEW t \in Tabs,
               Settings!SaveVehicle(t) \/ Settings!ChangeStatus(t) \/ Settings!Focus(t)
        PROVE  SettingsOK'
    <2>1. /\ edits' \in 0 .. MaxEdits /\ lost' = lost /\ branding' = branding
          /\ vehicle' \in CarRow /\ vehicle'.rev <= edits' + 1
      <3>1. CASE Settings!SaveVehicle(t)
        BY <3>1, <1>a, <1>b DEF Settings!SaveVehicle, Settings!Writes, Settings!Counted, CarRow
      <3>2. CASE Settings!ChangeStatus(t)
        <4> DEFINE new == [vehicle EXCEPT !.rev = vehicle.rev + 1, !.active = ~cache[t].active]
        <4>1. edits' \in 0 .. MaxEdits /\ edits' = edits + 1 /\ lost' = lost
          BY <3>2, <1>a DEF Settings!ChangeStatus, Settings!Counted
        <4>2. vehicle' \in {vehicle, new} /\ branding' = branding
          BY <3>2 DEF Settings!ChangeStatus, Settings!Writes
        <4>3. vehicle.rev + 1 \in 1 .. MaxEdits + 1
          BY <1>a, <1>b, <4>1
        <4>4. new \in CarRow /\ new.rev = vehicle.rev + 1
          BY <1>a, <4>3 DEF CarRow
        <4> HIDE DEF new
        <4> QED
          BY <1>a, <1>b, <4>1, <4>2, <4>4
      <3>3. CASE Settings!Focus(t)
        BY <3>3, <1>a DEF Settings!Focus, Settings!counts
      <3> QED
        BY <1>6, <3>1, <3>2, <3>3
    <2>2. Settings!Renders(t, tenant[t], vehicle', tried[t], saves[t])
      BY <1>6 DEF Settings!SaveVehicle, Settings!ChangeStatus, Settings!Focus, Settings!Writes,
         Settings!Copies
    <2>3. branding' \in Copy /\ NewVersion /\ Holds(tenant[t], branding')
      BY <1>a, <2>1 DEF NewVersion, CopiesHold
    <2>4. /\ cache' \in [Tabs -> CarRow] /\ tenant' \in [Tabs -> Copy]
          /\ tried' \in [Tabs -> SyncKeys] /\ saves' \in [Tabs -> SUBSET Save]
          /\ CopiesHold(branding)'
      BY <1>a, <2>1, <2>2, <2>3, RendersOK
    <2> QED
      BY <1>a, <2>1, <2>4 DEF SettingsOK
  <1> QED
    BY <1>1, <1>2, <1>3, <1>4, <1>5, <1>6 DEF Settings!Next

\* Every copy of the settings that has the row's version holds every edit of the row:
\* what saveConfig's lock on updated_at compares is enough.
THEOREM SettingsHold == PartSpec => [](Runs("settings") => SettingsOK)
  <1> DEFINE Inv == Runs("settings") => SettingsOK
  <1>1. PartInit => Inv
    BY SettingsInit
  <1>2. Inv /\ [PartNext]_allVars => Inv'
    <2> SUFFICES ASSUME Inv, [PartNext]_allVars, Runs("settings")'
                 PROVE  SettingsOK'
      OBVIOUS
    <2>1. Runs("settings")
      BY OwnerPartStays DEF Runs
    <2> QED
      BY <2>1, SettingsStep, SettingsSame, SettingsNext
  <1> QED
    BY <1>1, <1>2, PTL DEF PartSpec

\* No form, publication or GuestVehicleSync writes over an edit that was saved.
THEOREM SettingsStay == PartSpec => SavedSettingsStay
  <1>1. ASSUME Runs("settings") => SettingsOK, [PartNext]_allVars
        PROVE  [Runs("settings") => Settings!StillSaved]_settingsVars
    <2> SUFFICES ASSUME Runs("settings"), SettingsOK, Settings!Next
                 PROVE  branding.edits \subseteq branding'.edits
      BY <1>1, SettingsStep DEF Settings!StillSaved
    <2>1. CASE UNCHANGED branding
      BY <2>1
    <2>2. CASE Settings!SaveRate
      BY <2>2 DEF Settings!SaveRate, SettingsOK, Copy
    <2>3. ASSUME NEW t \in Tabs, NEW q \in saves[t],
                 Settings!Saved(t, q) \/ Settings!Refused(t, q)
          PROVE  branding.edits \subseteq branding'.edits
      <3>1. q \in Save /\ Holds(q, branding)
        BY DEF SettingsOK, CopiesHold
      <3>2. CASE branding' = Settings!Stored(q) /\ Settings!Unchanged(q)
        BY <3>1, <3>2, StoredType DEF Settings!Unchanged, Holds
      <3> QED
        BY <2>1, <2>3, <3>2 DEF Settings!Saved, Settings!Refused
    <2> QED
      BY <2>1, <2>2, <2>3 DEF Settings!Next, Settings!SaveBattery, Settings!SubmitSettings,
         Settings!Publish, Settings!SaveVehicle, Settings!ChangeStatus, Settings!Focus
  <1> QED
    BY <1>1, SettingsHold, PTL DEF PartSpec, SavedSettingsStay

-----------------------------------------------------------------------------
(* The custom domain.                                                      *)

DomainRow == [status : Domains!DomainStatus, due : BOOLEAN, claimed : BOOLEAN]
DomainPlaces == Domains!DomainStatus \cup {"idle", "claimed", "reconciling", "detached"}

\* While a job runs there is a row: only a removal deletes it, when it is done,
\* and the removal's job has detached the hostname by then.
DomainOK ==
  /\ domain \in DomainRow /\ attached \in BOOLEAN
  /\ proven \in {"nothing", "ownership", "routing"}
  /\ domainJob \in [at : DomainPlaces, status : Domains!DomainStatus]
  /\ domainJob.at # "idle" => domain.status # "absent" /\ domainJob.status # "absent"
  /\ domainJob.at # "absent"
  /\ domainJob.at = "detached" => ~attached
  /\ Domains!DetachedBeforeForgotten

LEMMA DomainStep ==
  ASSUME [PartNext]_allVars, Runs("domain")
  PROVE  Domains!Next \/ UNCHANGED domainVars
  BY DEF PartNext, allVars, Runs

LEMMA DomainSame ==
  ASSUME DomainOK, UNCHANGED domainVars
  PROVE  DomainOK'
  BY DEF DomainOK, domainVars, Domains!DetachedBeforeForgotten

LEMMA DomainInit == PartInit => DomainOK
  <1> SUFFICES ASSUME Domains!Init PROVE DomainOK
    BY DEF PartInit
  <1>1. Domains!NoDomain \in DomainRow
    BY DEF Domains!NoDomain, DomainRow, Domains!DomainStatus
  <1>2. /\ Domains!NoDomainJob \in [at : DomainPlaces, status : Domains!DomainStatus]
        /\ Domains!NoDomainJob.at = "idle"
    BY DEF Domains!NoDomainJob, DomainPlaces, Domains!DomainStatus
  <1>3. ~attached /\ attached \in BOOLEAN
    BY DEF Domains!Init
  <1> QED
    BY <1>1, <1>2, <1>3 DEF Domains!Init, DomainOK, Domains!DetachedBeforeForgotten

LEMMA DomainNext ==
  ASSUME DomainOK, Domains!Next
  PROVE  DomainOK'
  <1> USE DEF Domains!DetachedBeforeForgotten, Domains!DomainStatus, DomainPlaces, DomainRow,
          Domains!NoDomain, Domains!NoDomainJob
  <1>1. CASE Domains!RequestDomain
    BY <1>1 DEF DomainOK, Domains!RequestDomain
  <1>2. CASE Domains!RequestRemoval
    BY <1>2 DEF DomainOK, Domains!RequestRemoval
  <1>3. CASE Domains!Publish
    BY <1>3 DEF DomainOK, Domains!Publish
  <1>4. CASE Domains!DomainDue \/ Domains!LapseDomain
    <2>1. /\ domain' \in {[domain EXCEPT !.due = TRUE], [domain EXCEPT !.claimed = FALSE]}
          /\ UNCHANGED <<attached, proven, domainJob>>
      BY <1>4 DEF Domains!DomainDue, Domains!LapseDomain
    <2>2. domain' \in DomainRow /\ domain'.status = domain.status
      BY <2>1 DEF DomainOK
    <2> QED
      BY <2>1, <2>2 DEF DomainOK
  <1>5. CASE Domains!ClaimDomain
    BY <1>5 DEF DomainOK, Domains!ClaimDomain, Domains!Claimable
  <1>6. CASE Domains!Attach
    BY <1>6 DEF DomainOK, Domains!Attach
  <1>7. CASE Domains!Reconcile
    <2>1. Domains!FromProvider \in {"pending_verification", "pending_dns", "active"}
      BY DEF DomainOK, Domains!FromProvider
    <2> QED
      BY <1>7, <2>1 DEF DomainOK, Domains!Reconcile
  <1>8. CASE Domains!Record
    BY <1>8 DEF DomainOK, Domains!Record, Domains!Row
  <1>9. CASE Domains!Detach
    BY <1>9 DEF DomainOK, Domains!Detach
  <1>10. CASE Domains!Delete
    BY <1>10 DEF DomainOK, Domains!Delete
  <1>11. CASE Domains!ProviderFails
    <2>1. domain.status # "absent" /\ domainJob.status # "absent"
      BY <1>11 DEF DomainOK, Domains!ProviderFails
    <2>2. PICK st \in {"error", domainJob.status} :
            domain' = [Domains!NoDomain EXCEPT !.status = st]
      BY <1>11, <2>1 DEF Domains!ProviderFails, Domains!Row
    <2>3. domain' \in DomainRow /\ domain'.status # "absent"
      BY <2>1, <2>2 DEF DomainOK
    <2>4. attached' \in BOOLEAN /\ domainJob' = Domains!NoDomainJob /\ proven' = proven
      BY <1>11 DEF DomainOK, Domains!ProviderFails
    <2> QED
      BY <2>3, <2>4 DEF DomainOK
  <1>12. CASE Domains!CrashDomain
    BY <1>12 DEF DomainOK, Domains!CrashDomain
  <1> QED
    BY <1>1, <1>2, <1>3, <1>4, <1>5, <1>6, <1>7, <1>8, <1>9, <1>10, <1>11, <1>12
    DEF Domains!Next, Domains!Runs

LEMMA DomainInvariant == PartSpec => [](Runs("domain") => DomainOK)
  <1> DEFINE Inv == Runs("domain") => DomainOK
  <1>1. PartInit => Inv
    BY DomainInit
  <1>2. Inv /\ [PartNext]_allVars => Inv'
    <2> SUFFICES ASSUME Inv, [PartNext]_allVars, Runs("domain")'
                 PROVE  DomainOK'
      OBVIOUS
    <2>1. Runs("domain")
      BY OwnerPartStays DEF Runs
    <2> QED
      BY <2>1, DomainStep, DomainSame, DomainNext
  <1> QED
    BY <1>1, <1>2, PTL DEF PartSpec

\* A hostname that is still attached at the provider has its row.
THEOREM DomainDetached == PartSpec => []DetachedBeforeForgotten
  <1>1. (Runs("domain") => DomainOK) => DetachedBeforeForgotten
    BY DEF DetachedBeforeForgotten, DomainOK
  <1> QED
    BY <1>1, DomainInvariant, PTL

-----------------------------------------------------------------------------
(* The calendar.                                                           *)

CandRow == [status : Calendar!Statuses, change : {Calendar!Nothing, "schedule", "cancel"},
            time : Times \cup {Calendar!Nothing}]
BookingRow == [status : {"absent", "live", "cancelled"}, time : Times \cup {Calendar!Nothing}]
Fetched == [alive : BOOLEAN, time : Times \cup {Calendar!Nothing}]
SyncRow == [at : {"idle", "claimed", "fetched", "ingested"}, seen : Fetched]

CalendarOK ==
  /\ cand \in CandRow /\ booking \in BookingRow
  /\ event \in Fetched /\ import \in Fetched
  /\ sync \in [Syncers -> SyncRow]
  /\ Calendar!ConfirmedAgrees

LEMMA CalendarStep ==
  ASSUME [PartNext]_allVars, Runs("calendar")
  PROVE  Calendar!Next \/ UNCHANGED calendarVars
  BY DEF PartNext, allVars, Runs

LEMMA CalendarSame ==
  ASSUME CalendarOK, UNCHANGED calendarVars
  PROVE  CalendarOK'
  BY DEF CalendarOK, calendarVars, Calendar!ConfirmedAgrees

LEMMA CalendarInit == PartInit => CalendarOK
  <1> SUFFICES ASSUME Calendar!Init PROVE CalendarOK
    BY DEF PartInit
  <1>1. Calendar!NoEvent \in Fetched
    BY DEF Calendar!NoEvent, Fetched
  <1>2. Calendar!NoJob \in SyncRow
    BY <1>1 DEF Calendar!NoJob, SyncRow
  <1>3. Calendar!NoCand \in CandRow /\ Calendar!NoCand.status = "absent"
    BY DEF Calendar!NoCand, CandRow, Calendar!Statuses
  <1>4. Calendar!NoBooking \in BookingRow
    BY DEF Calendar!NoBooking, BookingRow
  <1>5. event \in Fetched
    BY DEF Calendar!Init, Fetched
  <1>6. sync \in [Syncers -> SyncRow]
    BY <1>2 DEF Calendar!Init
  <1> QED
    BY <1>1, <1>3, <1>4, <1>5, <1>6 DEF Calendar!Init, CalendarOK, Calendar!ConfirmedAgrees

\* An upsert leaves a candidate confirmed only with the times it was confirmed with.
LEMMA IngestedAgrees ==
  ASSUME CalendarOK, NEW e \in Fetched
  PROVE  /\ Calendar!Ingested(e) \in CandRow
         /\ Calendar!Ingested(e).status = "confirmed"
              => cand.status = "confirmed" /\ Calendar!Ingested(e).time = cand.time
  <1>1. Calendar!StatusOf(e) \in Calendar!Statuses
    BY DEF Calendar!StatusOf, CalendarOK, CandRow, Fetched, Calendar!Statuses
  <1>2. Calendar!ChangeOf(e) \in {Calendar!Nothing, "schedule", "cancel"}
    BY DEF Calendar!ChangeOf, CalendarOK, CandRow
  <1>3. Calendar!StatusOf(e) = "confirmed" => cand.status = "confirmed" /\ cand.time = e.time
    BY DEF Calendar!StatusOf, CalendarOK, CandRow, Fetched
  <1> QED
    BY <1>1, <1>2, <1>3 DEF Calendar!Ingested, CandRow, Fetched

LEMMA CalendarNext ==
  ASSUME CalendarOK, Calendar!Next
  PROVE  CalendarOK'
  <1> USE DEF Calendar!ConfirmedAgrees
  <1>a. /\ cand \in CandRow /\ booking \in BookingRow /\ event \in Fetched /\ import \in Fetched
        /\ sync \in [Syncers -> SyncRow]
    BY DEF CalendarOK
  <1>b. Calendar!NoEvent \in Fetched
    BY DEF Calendar!NoEvent, Fetched
  <1>c. Calendar!NoJob \in SyncRow
    BY <1>b DEF Calendar!NoJob, SyncRow
  <1>1. CASE Calendar!MoveEvent
    <2>1. CASE event' = [event EXCEPT !.alive = FALSE]
      BY <2>1, <1>1, <1>a DEF CalendarOK, Calendar!MoveEvent, Calendar!rest, Fetched
    <2>2. ASSUME NEW t \in Times, event' = [alive |-> TRUE, time |-> t]
          PROVE  event' \in Fetched
      BY <2>2 DEF Fetched
    <2> QED
      BY <1>1, <2>1, <2>2 DEF CalendarOK, Calendar!MoveEvent, Calendar!rest
  <1>2. CASE Calendar!Due \/ Calendar!LapseSync
    BY <1>2 DEF CalendarOK, Calendar!Due, Calendar!LapseSync, Calendar!google, Calendar!rest
  <1>3. CASE Calendar!Consent
    BY <1>3 DEF CalendarOK, Calendar!Consent, Calendar!google
  <1>4. CASE Calendar!Import
    BY <1>4, <1>a, <1>b, IngestedAgrees DEF CalendarOK, Calendar!Import, Calendar!google
  <1>5. CASE Calendar!DisconnectCalendar
    BY <1>5 DEF CalendarOK, Calendar!DisconnectCalendar, Calendar!google, Calendar!rest,
       CandRow, Calendar!Statuses
  <1>6. CASE Calendar!Load
    BY <1>6 DEF CalendarOK, Calendar!Load, Calendar!google
  <1>7. CASE Calendar!ConfirmCandidate \/ Calendar!ApplyChange
    <2>1. /\ cand' = [cand EXCEPT !.status = "confirmed", !.change = Calendar!Nothing]
          /\ booking' = [status |-> "live", time |-> cand.time]
          /\ UNCHANGED <<event, sync, import>>
      BY <1>7 DEF Calendar!ConfirmCandidate, Calendar!ApplyChange, Calendar!Decide,
         Calendar!google
    <2>2. cand' \in CandRow /\ booking' \in BookingRow /\ cand'.time = booking'.time
      BY <1>a, <2>1 DEF CandRow, BookingRow, Calendar!Statuses
    <2> QED
      BY <1>a, <2>1, <2>2 DEF CalendarOK
  <1>8. CASE Calendar!DismissCandidate \/ Calendar!CancelByReview
    <2>1. /\ \/ cand' = [cand EXCEPT !.status = "dismissed"]
             \/ cand' = [cand EXCEPT !.status = "cancelled", !.change = Calendar!Nothing]
          /\ booking' = booking \/ booking' = [booking EXCEPT !.status = "cancelled"]
          /\ UNCHANGED <<event, sync, import>>
      BY <1>8 DEF Calendar!DismissCandidate, Calendar!CancelByReview, Calendar!Decide,
         Calendar!google
    <2>2. cand' \in CandRow /\ cand'.status # "confirmed" /\ booking' \in BookingRow
      BY <1>a, <2>1 DEF CandRow, BookingRow, Calendar!Statuses
    <2> QED
      BY <1>a, <2>1, <2>2 DEF CalendarOK
  <1>9. CASE Calendar!CancelBooking
    BY <1>9 DEF CalendarOK, Calendar!CancelBooking, Calendar!google, Calendar!rest, BookingRow
  <1>10. ASSUME NEW w \in Syncers, Calendar!ClaimSync(w) \/ Calendar!SyncEnds(w)
                                  \/ Calendar!CrashSync(w)
         PROVE  CalendarOK'
    <2>1. CASE \/ Calendar!BusySync(w) \/ Calendar!Unavailable(w) \/ Calendar!FailSync(w)
               \/ Calendar!CrashSync(w)
      BY <2>1, <1>c DEF CalendarOK, Calendar!BusySync, Calendar!Unavailable, Calendar!FailSync,
         Calendar!CrashSync, Calendar!Done, Calendar!google, Calendar!rest
    <2>2. CASE Calendar!ClaimSync(w)
      BY <2>2 DEF CalendarOK, SyncRow, Calendar!ClaimSync, Calendar!SyncTo,
         Calendar!google,
         Calendar!rest
    <2>3. CASE Calendar!Fetch(w)
      BY <2>3 DEF CalendarOK, SyncRow, Calendar!Fetch, Calendar!google, Calendar!rest
    <2>4. CASE Calendar!IngestEvents(w)
      <3>1. sync[w].seen \in Fetched /\ sync' \in [Syncers -> SyncRow]
        BY <2>4, <1>a DEF Calendar!IngestEvents, Calendar!SyncTo, SyncRow
      <3>2. cand' = Calendar!Ingested(sync[w].seen) \/ cand' = cand
        BY <2>4 DEF Calendar!IngestEvents
      <3>3. UNCHANGED <<event, booking, import>>
        BY <2>4 DEF Calendar!IngestEvents, Calendar!google, Calendar!rest
      <3> QED
        BY <3>1, <3>2, <3>3, IngestedAgrees DEF CalendarOK
    <2>5. CASE Calendar!FlagCancelled(w)
      <3>1. \/ cand' = cand
            \/ cand' = [cand EXCEPT !.status = "needs_review", !.change = "cancel"]
            \/ cand' = [cand EXCEPT !.status = "cancelled"]
        BY <2>5, Zenon DEF Calendar!FlagCancelled
      <3>2. cand' \in CandRow /\ (cand' = cand \/ cand'.status # "confirmed")
        BY <1>a, <3>1 DEF CandRow, Calendar!Statuses
      <3>3. UNCHANGED <<event, booking, import>>
            /\ sync' = [sync EXCEPT ![w] = Calendar!NoJob]
        BY <2>5 DEF Calendar!FlagCancelled, Calendar!Done, Calendar!google, Calendar!rest
      <3>4. sync' \in [Syncers -> SyncRow]
        BY <1>a, <1>c, <3>3
      <3> QED
        BY <1>a, <3>2, <3>3, <3>4 DEF CalendarOK
    <2> QED
      BY <1>10, <2>1, <2>2, <2>3, <2>4, <2>5 DEF Calendar!SyncEnds, Calendar!SyncStep
  <1> QED
    BY <1>1, <1>2, <1>3, <1>4, <1>5, <1>6, <1>7, <1>8, <1>9, <1>10
    DEF Calendar!Next, Calendar!Owner

LEMMA CalendarInvariant == PartSpec => [](Runs("calendar") => CalendarOK)
  <1> DEFINE Inv == Runs("calendar") => CalendarOK
  <1>1. PartInit => Inv
    BY CalendarInit
  <1>2. Inv /\ [PartNext]_allVars => Inv'
    <2> SUFFICES ASSUME Inv, [PartNext]_allVars, Runs("calendar")'
                 PROVE  CalendarOK'
      OBVIOUS
    <2>1. Runs("calendar")
      BY OwnerPartStays DEF Runs
    <2> QED
      BY <2>1, CalendarStep, CalendarSame, CalendarNext
  <1> QED
    BY <1>1, <1>2, PTL DEF PartSpec

\* A candidate that reads 'confirmed' has the times of its live trip.
THEOREM CalendarAgrees == PartSpec => []ConfirmedAgrees
  <1>1. (Runs("calendar") => CalendarOK) => ConfirmedAgrees
    BY DEF ConfirmedAgrees, CalendarOK
  <1> QED
    BY <1>1, CalendarInvariant, PTL

-----------------------------------------------------------------------------
(* The fleet.                                                              *)

\* What the owner's word rests on: it is the row's name and not what Tesla said
\* at the last import, and an import that runs started from the row as it is.
FleetOK ==
  /\ aspect \in {"paint", "cabin", "wheels"}
  /\ row = [name |-> row.name, code |-> row.code, prior |-> row.prior]
  /\ row = Fleet!NoRow => /\ word = 0 /\ form = Fleet!Closed
                          /\ snap \in {Fleet!Idle, Fleet!NoRow}
  /\ snap # Fleet!Idle => profile # Fleet!Unread
  /\ word # 0 => /\ row.name = word
                 /\ row.prior = Fleet!Unread \/ row.prior.name # word
                 /\ snap \in {Fleet!Idle, Fleet!NoRow, row}

LEMMA FleetStep ==
  ASSUME [PartNext]_allVars, Runs("fleet")
  PROVE  Fleet!Next \/ UNCHANGED fleetVars
  BY DEF PartNext, allVars, Runs

LEMMA FleetSame ==
  ASSUME FleetOK, UNCHANGED fleetVars
  PROVE  FleetOK'
  BY DEF FleetOK, fleetVars

LEMMA FleetInit == PartInit => FleetOK
  <1> SUFFICES ASSUME Fleet!Init PROVE FleetOK
    BY DEF PartInit
  <1> QED
    BY DEF Fleet!Init, FleetOK, Fleet!NoRow

LEMMA NamedRow ==
  ASSUME NEW r, r.name # 0 - 1 \/ r.prior # Fleet!Unread
  PROVE  r # Fleet!NoRow
  BY DEF Fleet!NoRow

\* An import that Tesla's answer does not agree with leaves the owner's word.
LEMMA MergedKeeps ==
  ASSUME FleetOK, word # 0, profile.name # word
  PROVE  Fleet!Merged(profile, row).name = word
  BY DEF FleetOK, Fleet!Merged, Fleet!Owners

LEMMA FleetNext ==
  ASSUME FleetOK, Fleet!Next
  PROVE  FleetOK'
  <1>1. CASE Fleet!ReadProfile
    BY <1>1 DEF FleetOK, Fleet!ReadProfile
  <1>2. CASE Fleet!StartImport
    BY <1>2 DEF FleetOK, Fleet!StartImport
  <1>3. CASE Fleet!LandImport
    <2>1. CASE UNCHANGED <<row, word>>
      BY <1>3, <2>1 DEF FleetOK, Fleet!LandImport
    <2>2. CASE ~UNCHANGED <<row, word>>
      <3>1. /\ snap' = Fleet!Idle /\ UNCHANGED <<profile, form>> /\ profile # Fleet!Unread
            /\ snap # Fleet!NoRow \/ row = Fleet!NoRow
            /\ aspect' = aspect
            /\ row' = IF snap = Fleet!NoRow
                        THEN [name |-> profile.name, code |-> profile.code, prior |-> profile]
                        ELSE Fleet!Merged(profile, snap)
            /\ word' = IF profile.name = word THEN 0 ELSE word
        BY <1>3, <2>2 DEF FleetOK, Fleet!LandImport
      <3>2. row'.prior = profile
            /\ row' = [name |-> row'.name, code |-> row'.code, prior |-> row'.prior]
        BY <3>1 DEF Fleet!Merged
      <3>3. row' # Fleet!NoRow
        BY <3>1, <3>2, NamedRow
      <3>4. word' # 0 => row'.name = word' /\ profile.name # word'
        <4> SUFFICES ASSUME word # 0, profile.name # word
                     PROVE  row'.name = word
          BY <3>1
        <4>1. row # Fleet!NoRow /\ snap # Fleet!NoRow /\ snap = row
          BY <1>3, <3>1 DEF FleetOK, Fleet!LandImport
        <4> QED
          BY <3>1, <4>1, MergedKeeps
      <3> QED
        BY <3>1, <3>2, <3>3, <3>4 DEF FleetOK
    <2> QED
      BY <2>1, <2>2
  <1>4. CASE Fleet!OpenForm
    BY <1>4 DEF FleetOK, Fleet!OpenForm
  <1>5. CASE Fleet!Submit
    <2>1. /\ row' = [row EXCEPT !.name = form, !.code = Fleet!CodeKept(form)]
          /\ row'.name = form /\ row'.prior = row.prior
          /\ row' = [name |-> row'.name, code |-> row'.code, prior |-> row'.prior]
      BY <1>5 DEF FleetOK, Fleet!Submit
    <2>2. /\ form # 0 - 1 /\ UNCHANGED <<aspect, profile, snap>>
          /\ word' = IF snap # Fleet!Idle \/ (row.prior # Fleet!Unread /\ form = row.prior.name)
                       THEN 0 ELSE form
      BY <1>5 DEF Fleet!Submit, Fleet!Closed
    <2>3. row' # Fleet!NoRow
      BY <2>1, <2>2, NamedRow
    <2> QED
      BY <2>1, <2>2, <2>3 DEF FleetOK
  <1>6. ASSUME NEW n \in Fleet!Names, Fleet!AddManually(n)
        PROVE  FleetOK'
    <2>1. /\ row' = [name |-> n, code |-> 0, prior |-> Fleet!Unread]
          /\ row = Fleet!NoRow /\ word' = n /\ UNCHANGED <<aspect, profile, snap, form>>
      BY <1>6 DEF Fleet!AddManually
    <2>2. n # 0 - 1
      BY DEF Fleet!Names, Fleet!Other
    <2>3. row' # Fleet!NoRow
      BY <2>1, <2>2, NamedRow
    <2> QED
      BY <2>1, <2>3 DEF FleetOK
  <1>7. ASSUME NEW n \in Fleet!Names, Fleet!TypeForm(n)
        PROVE  FleetOK'
    BY <1>7 DEF FleetOK, Fleet!TypeForm
  <1> QED
    BY <1>1, <1>2, <1>3, <1>4, <1>5, <1>6, <1>7 DEF Fleet!Next

\* The guest's picture is of the owner's word, or there is none.
LEMMA PictureOfWord ==
  ASSUME FleetOK, word # 0, row.name = word, NEW offered \in Fleet!Offers, word \in Fleet!Known
  PROVE  Fleet!Picture(offered) \in {0, word}
  <1>1. Fleet!PaintShown \in {0, word} /\ Fleet!CabinShown(offered) \in {0, word}
    BY DEF Fleet!PaintShown, Fleet!CabinShown
  <1>2. Fleet!WheelShown(offered) = word
    BY DEF Fleet!WheelShown
  <1> QED
    BY <1>1, <1>2 DEF FleetOK, Fleet!Picture

LEMMA FleetInvariant == PartSpec => [](Runs("fleet") => FleetOK)
  <1> DEFINE Inv == Runs("fleet") => FleetOK
  <1>1. PartInit => Inv
    BY FleetInit
  <1>2. Inv /\ [PartNext]_allVars => Inv'
    <2> SUFFICES ASSUME Inv, [PartNext]_allVars, Runs("fleet")'
                 PROVE  FleetOK'
      OBVIOUS
    <2>1. Runs("fleet")
      BY OwnerPartStays DEF Runs
    <2> QED
      BY <2>1, FleetStep, FleetSame, FleetNext
  <1> QED
    BY <1>1, <1>2, PTL DEF PartSpec

\* What the owner typed stands until Tesla says the same.
THEOREM FleetWordStands == PartSpec => []WordStands
  <1>1. (Runs("fleet") => FleetOK) => WordStands
    <2> SUFFICES ASSUME FleetOK PROVE Fleet!WordStands
      BY DEF WordStands
    <2>1. 0 \notin Fleet!Known
      BY DEF Fleet!Known
    <2> QED
      BY <2>1, PictureOfWord DEF FleetOK, Fleet!WordStands, Fleet!ShownAsSaid
  <1> QED
    BY <1>1, FleetInvariant, PTL

-----------------------------------------------------------------------------
(* The mail archive.                                                       *)

IsMailer(r) == r = [at |-> r.at, job |-> r.job, copy |-> r.copy, keys |-> r.keys,
                    purged |-> r.purged]

MailerFields == {"at", "job", "copy", "keys", "purged"}

LEMMA FieldsOf ==
  ASSUME NEW r
  PROVE  IsMailer(r) <=> DOMAIN r = MailerFields /\ r = [f \in DOMAIN r |-> r[f]]
  BY DEF IsMailer, MailerFields

\* the row's message is complete
Whole == inbound.state \in {"queued", "processing", "classified"}

\* A purge comes after the message is complete, and no capture completes it again:
\* once there is a purge the row names no object, and a worker that has bytes
\* read the row before.
MailOK ==
  /\ inbound = [state |-> inbound.state, leased |-> inbound.leased, of |-> inbound.of]
  /\ parseJob = [state |-> parseJob.state, tries |-> parseJob.tries, leased |-> parseJob.leased]
  /\ mailer = [m \in Mailers |-> mailer[m]]
  /\ inbound.of # Nobody \/ index \/ body # "none" \/ parseJob.state # "absent" => Whole
  /\ purges = <<>> \/ (Whole /\ inbound.of = Nobody)
  /\ \A m \in Mailers :
       /\ IsMailer(mailer[m])
       /\ mailer[m].job \in {"parse", "backfill"} => Whole
       /\ mailer[m].job = "purge" => Whole /\ inbound.of = Nobody
       /\ mailer[m].at \in {"selected", "fetched", "stored"} =>
            /\ mailer[m].job \in {"parse", "backfill"}
            /\ mailer[m].copy = Nobody \/ mailer[m].purged = 0
       /\ mailer[m].at \in {"fetched", "stored"} => mailer[m].copy # Nobody

LEMMA MailStep ==
  ASSUME [PartNext]_allVars, Runs("mail")
  PROVE  Mail!Next \/ UNCHANGED mailVars
  BY DEF PartNext, allVars, Runs

LEMMA MailSame ==
  ASSUME MailOK, UNCHANGED mailVars
  PROVE  MailOK'
  BY DEF MailOK, mailVars, Whole, IsMailer

LEMMA MailInit == PartInit => MailOK
  <1> SUFFICES ASSUME Mail!Init PROVE MailOK
    BY DEF PartInit
  <1> QED
    BY DEF Mail!Init, MailOK, Mail!NoOutbox, Mail!Off, IsMailer, Whole

\* What a replica may do next without a word about the others.
MailerOK(r) ==
  /\ IsMailer(r)
  /\ r.job \in {"parse", "backfill"} => Whole'
  /\ r.job = "purge" => Whole' /\ inbound'.of = Nobody
  /\ r.at \in {"selected", "fetched", "stored"} =>
       /\ r.job \in {"parse", "backfill"}
       /\ r.copy = Nobody \/ r.purged = 0
  /\ r.at \in {"fetched", "stored"} => r.copy # Nobody

LEMMA OffOK == MailerOK(Mail!Off)
  BY DEF MailerOK, IsMailer, Mail!Off

\* The row keeps what it was: no longer complete it never is, and named never again.
RowOn ==
  /\ inbound' = [state |-> inbound'.state, leased |-> inbound'.leased, of |-> inbound'.of]
  /\ Whole => Whole'
  /\ Whole /\ inbound.of = Nobody => inbound'.of = Nobody

LEMMA OthersOK ==
  ASSUME MailOK, RowOn, NEW m \in Mailers
  PROVE  MailerOK(mailer[m])
  BY DEF MailOK, RowOn, MailerOK

LEMMA MailersOK ==
  ASSUME MailOK, RowOn, NEW m \in Mailers, NEW r, MailerOK(r), Mail!Now(m, r)
  PROVE  /\ mailer' = [n \in Mailers |-> mailer'[n]]
         /\ \A n \in Mailers : MailerOK(mailer'[n])
  BY OthersOK DEF MailOK, Mail!Now

LEMMA MailersStay ==
  ASSUME MailOK, RowOn, UNCHANGED mailer
  PROVE  /\ mailer' = [n \in Mailers |-> mailer'[n]]
         /\ \A n \in Mailers : MailerOK(mailer'[n])
  BY OthersOK DEF MailOK

\* The rest of the invariant, of the rows.
MailRowsOK ==
  /\ parseJob = [state |-> parseJob.state, tries |-> parseJob.tries, leased |-> parseJob.leased]
  /\ inbound.of # Nobody \/ index \/ body # "none" \/ parseJob.state # "absent" => Whole
  /\ purges = <<>> \/ (Whole /\ inbound.of = Nobody)

LEMMA MailParts ==
  ASSUME RowOn, MailRowsOK',
         mailer' = [n \in Mailers |-> mailer'[n]],
         \A n \in Mailers : MailerOK(mailer'[n])
  PROVE  MailOK'
  BY DEF MailOK, RowOn, MailRowsOK, MailerOK, IsMailer, Whole

\* Capture.
LEMMA CaptureKeeps ==
  ASSUME MailOK, NEW d \in Deliveries, Mail!Captures(d)
  PROVE  MailOK'
  <1>1. RowOn /\ MailRowsOK' /\ UNCHANGED mailer
    <2>1. CASE Mail!Authorize(d)
      BY <2>1 DEF MailOK, RowOn, MailRowsOK, Whole, Mail!Authorize, Mail!text
    <2>2. CASE Mail!Initialize(d)
      BY <2>2 DEF MailOK, RowOn, MailRowsOK, Whole, Mail!Initialize, Mail!text
    <2>3. CASE Mail!PutEnvelope(d) \/ Mail!CaptureFails(d)
      BY <2>3 DEF MailOK, RowOn, MailRowsOK, Whole, Mail!PutEnvelope, Mail!CaptureFails, Mail!text
    <2>4. CASE Mail!Finalize(d)
      BY <2>4 DEF MailOK, RowOn, MailRowsOK, Whole, Mail!Finalize, Mail!text, Mail!NoOutbox
    <2> QED
      BY <2>1, <2>2, <2>3, <2>4 DEF Mail!Captures
  <1> QED
    BY <1>1, MailersStay, MailParts

\* The leases.
LEMMA LeasesKeep ==
  ASSUME MailOK, Mail!Leases
  PROVE  MailOK'
  <1>1. RowOn /\ MailRowsOK' /\ UNCHANGED mailer
    <2>1. CASE Mail!LapseParse
      BY <2>1 DEF MailOK, RowOn, MailRowsOK, Whole, Mail!LapseParse, Mail!text
    <2>2. CASE Mail!LapseBackfill
      BY <2>2 DEF MailOK, RowOn, MailRowsOK, Whole, Mail!LapseBackfill, Mail!text
    <2>3. CASE Mail!LapsePurge
      <3>1. purges # <<>>
        BY <2>3 DEF Mail!LapsePurge
      <3> QED
        BY <2>3, <3>1 DEF MailOK, RowOn, MailRowsOK, Whole, Mail!LapsePurge, Mail!text
    <2> QED
      BY <2>1, <2>2, <2>3 DEF Mail!Leases
  <1> QED
    BY <1>1, MailersStay, MailParts

\* A worker's step: what it reads it reads of a message that is complete and, if
\* the row still names an object, not purged.
LEMMA ReadsKeep ==
  ASSUME MailOK, NEW m \in Mailers, Mail!Reads(m)
  PROVE  MailOK'
  <1>a. /\ DOMAIN mailer[m] = MailerFields /\ DOMAIN Mail!Off = MailerFields
        /\ Mail!Off.job = "none"
    BY FieldsOf DEF MailOK, Mail!Off, MailerFields
  <1>1. \E r : RowOn /\ MailRowsOK' /\ MailerOK(r) /\ Mail!Now(m, r)
    <2>1. CASE Mail!ClaimParse(m)
      <3> DEFINE r == [Mail!Off EXCEPT !.at = "claimed", !.job = "parse"]
      <3>1. r.at = "claimed" /\ r.job = "parse" /\ IsMailer(r)
        BY <1>a, FieldsOf DEF MailerFields
      <3>2. Mail!Now(m, r)
        BY <2>1 DEF Mail!ClaimParse
      <3> HIDE DEF r
      <3>3. Whole /\ RowOn /\ MailRowsOK'
        BY <2>1 DEF MailOK, RowOn, MailRowsOK, Whole, Mail!ClaimParse, Mail!text, Mail!Due,
           Mail!Claimed
      <3> QED
        BY <3>1, <3>2, <3>3 DEF MailerOK, RowOn
    <2>2. CASE Mail!SelectRow(m)
      <3> DEFINE r == [mailer[m] EXCEPT !.at = "selected", !.copy = inbound.of,
                                        !.purged = Len(purges)]
      <3>1. /\ r.at = "selected" /\ r.job = "parse" /\ r.copy = inbound.of
            /\ r.purged = Len(purges) /\ IsMailer(r)
        BY <1>a, <2>2, FieldsOf DEF MailerFields, Mail!SelectRow
      <3>2. Mail!Now(m, r)
        BY <2>2 DEF Mail!SelectRow
      <3> HIDE DEF r
      <3>3. Whole
        BY <2>2 DEF MailOK, Mail!SelectRow
      <3>4. RowOn /\ MailRowsOK'
        BY <2>2, <3>3 DEF MailOK, RowOn, MailRowsOK, Whole, Mail!SelectRow, Mail!text
      <3>5. r.copy = Nobody \/ r.purged = 0
        BY <3>1 DEF MailOK
      <3> QED
        BY <3>1, <3>2, <3>3, <3>4, <3>5 DEF MailerOK, RowOn
    <2>3. CASE Mail!ClaimBackfill(m)
      <3> DEFINE r == [Mail!Off EXCEPT !.at = "selected", !.job = "backfill",
                                       !.copy = inbound.of, !.purged = Len(purges)]
      <3>1. /\ r.at = "selected" /\ r.job = "backfill" /\ r.copy = inbound.of
            /\ r.purged = Len(purges) /\ IsMailer(r)
        BY <1>a, FieldsOf DEF MailerFields
      <3>2. Mail!Now(m, r)
        BY <2>3 DEF Mail!ClaimBackfill
      <3> HIDE DEF r
      <3>3. Whole /\ RowOn /\ MailRowsOK'
        BY <2>3 DEF MailOK, RowOn, MailRowsOK, Whole, Mail!ClaimBackfill, Mail!text
      <3>4. r.copy = Nobody \/ r.purged = 0
        BY <3>1 DEF MailOK
      <3> QED
        BY <3>1, <3>2, <3>3, <3>4 DEF MailerOK, RowOn
    <2>4. CASE Mail!Fetch(m)
      <3> DEFINE r == [mailer[m] EXCEPT !.at = "fetched"]
      <3>1. /\ r.at = "fetched" /\ r.job = mailer[m].job /\ r.copy = mailer[m].copy
            /\ r.purged = mailer[m].purged /\ IsMailer(r)
        BY <1>a, FieldsOf DEF MailerFields
      <3>2. Mail!Now(m, r)
        BY <2>4 DEF Mail!Fetch
      <3> HIDE DEF r
      <3>3. RowOn /\ MailRowsOK' /\ mailer[m].copy # Nobody
        BY <2>4 DEF MailOK, RowOn, MailRowsOK, Whole, Mail!Fetch, Mail!Readable, Mail!text
      <3> QED
        BY <2>4, <3>1, <3>2, <3>3 DEF MailOK, MailerOK, RowOn, Mail!Fetch
    <2>5. CASE Mail!StoreFiles(m)
      <3> DEFINE r == [mailer[m] EXCEPT !.at = "stored"]
      <3>1. /\ r.at = "stored" /\ r.job = mailer[m].job /\ r.copy = mailer[m].copy
            /\ r.purged = mailer[m].purged /\ IsMailer(r)
        BY <1>a, FieldsOf DEF MailerFields
      <3>2. Mail!Now(m, r)
        BY <2>5 DEF Mail!StoreFiles
      <3> HIDE DEF r
      <3>3. RowOn /\ MailRowsOK'
        BY <2>5 DEF MailOK, RowOn, MailRowsOK, Whole, Mail!StoreFiles, Mail!text
      <3> QED
        BY <2>5, <3>1, <3>2, <3>3 DEF MailOK, MailerOK, RowOn, Mail!StoreFiles
    <2>6. CASE Mail!Commit(m)
      <3>1. Whole
        BY <2>6 DEF MailOK, Mail!Commit
      <3>2. /\ UNCHANGED purges /\ Mail!Now(m, Mail!Off)
            /\ \/ inbound' = inbound
               \/ inbound' = [inbound EXCEPT !.state = "classified", !.leased = FALSE]
               \/ inbound' = [inbound EXCEPT !.leased = FALSE]
            /\ parseJob' = parseJob \/ parseJob' = Mail!Completed(parseJob)
        BY <2>6, Zenon DEF Mail!Commit
      <3>3. RowOn /\ MailRowsOK'
        BY <3>1, <3>2 DEF MailOK, RowOn, MailRowsOK, Whole, Mail!Completed
      <3> QED
        BY <3>2, <3>3, OffOK
    <2>7. CASE Mail!ReadFails(m)
      <3>1. Whole
        BY <2>7 DEF MailOK, Mail!ReadFails
      <3>2. /\ UNCHANGED purges /\ Mail!Now(m, Mail!Off)
            /\ inbound' = inbound \/ inbound' = [inbound EXCEPT !.leased = FALSE]
            /\ parseJob' = parseJob \/ parseJob' = Mail!Failed(parseJob)
        BY <2>7, Zenon DEF Mail!ReadFails
      <3>3. RowOn /\ MailRowsOK'
        BY <3>1, <3>2 DEF MailOK, RowOn, MailRowsOK, Whole, Mail!Failed
      <3> QED
        BY <3>2, <3>3, OffOK
    <2> QED
      BY <2>1, <2>2, <2>3, <2>4, <2>5, <2>6, <2>7 DEF Mail!Reads
  <1> QED
    BY <1>1, MailersOK, MailParts

\* A purge is of a complete message, and takes the row's key.
LEMMA PurgeOf ==
  ASSUME MailOK, Mail!Purge, Whole
  PROVE  RowOn /\ MailRowsOK' /\ Whole' /\ inbound'.of = Nobody
  BY DEF MailOK, RowOn, MailRowsOK, Whole, Mail!Purge, Mail!Unkeyed

LEMMA PurgesKeep ==
  ASSUME MailOK,
         \/ Mail!ManagerPurge
         \/ \E m \in Mailers : \/ Mail!SweepRetention(m) \/ Mail!Deletes(m)
                               \/ Mail!CrashMailer(m)
  PROVE  MailOK'
  <1>a. DOMAIN Mail!Off = MailerFields /\ Mail!Off.job = "none"
    BY DEF Mail!Off, MailerFields
  <1>1. CASE Mail!ManagerPurge
    <2>1. Mail!Purge /\ Whole /\ UNCHANGED mailer
      BY <1>1 DEF MailOK, Mail!ManagerPurge
    <2> QED
      BY <2>1, PurgeOf, MailersStay, MailParts
  <1>2. ASSUME NEW m \in Mailers, Mail!SweepRetention(m)
        PROVE  MailOK'
    <2> DEFINE r == [Mail!Off EXCEPT !.at = "deleting", !.job = "sweep", !.keys = Mail!Keys]
    <2>1. r.at = "deleting" /\ r.job = "sweep" /\ IsMailer(r)
      BY <1>a, FieldsOf DEF MailerFields
    <2>2. Mail!Purge /\ Whole /\ Mail!Now(m, r)
      BY <1>2 DEF MailOK, Mail!SweepRetention
    <2> HIDE DEF r
    <2>3. MailerOK(r)
      BY <2>1 DEF MailerOK
    <2> QED
      BY <2>2, <2>3, PurgeOf, MailersOK, MailParts
  <1>3. ASSUME NEW m \in Mailers, Mail!ClaimPurge(m)
        PROVE  MailOK'
    <2>1. PICK n \in DOMAIN purges :
            Mail!Now(m, [Mail!Off EXCEPT !.at = "deleting", !.job = "purge", !.purged = n,
                                         !.keys = purges[n].keys])
      BY <1>3 DEF Mail!ClaimPurge
    <2> DEFINE r == [Mail!Off EXCEPT !.at = "deleting", !.job = "purge", !.purged = n,
                                     !.keys = purges[n].keys]
    <2>2. r.at = "deleting" /\ r.job = "purge" /\ IsMailer(r)
      BY <1>a, FieldsOf DEF MailerFields
    <2>3. Mail!Now(m, r)
      BY <2>1
    <2> HIDE DEF r
    <2>4. Whole /\ inbound.of = Nobody
      BY <2>1 DEF MailOK
    <2>5. RowOn /\ MailRowsOK'
      BY <1>3, <2>4 DEF MailOK, RowOn, MailRowsOK, Whole, Mail!ClaimPurge, Mail!text
    <2>6. MailerOK(r)
      BY <2>2, <2>4, <2>5 DEF MailerOK, RowOn
    <2> QED
      BY <2>3, <2>5, <2>6, MailersOK, MailParts
  <1>4. ASSUME NEW m \in Mailers,
               Mail!DeleteInline(m) \/ Mail!RunPurge(m) \/ Mail!CrashMailer(m)
        PROVE  MailOK'
    <2>1. Mail!Now(m, Mail!Off) /\ UNCHANGED <<inbound, index, body, parseJob>>
      BY <1>4 DEF Mail!DeleteInline, Mail!RunPurge, Mail!CrashMailer, Mail!text
    <2>2. purges' = purges \/ (Whole /\ inbound.of = Nobody)
      BY <1>4 DEF MailOK, Mail!DeleteInline, Mail!RunPurge, Mail!CrashMailer
    <2>3. RowOn /\ MailRowsOK'
      BY <2>1, <2>2 DEF MailOK, RowOn, MailRowsOK, Whole
    <2> QED
      BY <2>1, <2>3, OffOK, MailersOK, MailParts
  <1> QED
    BY <1>1, <1>2, <1>3, <1>4 DEF Mail!Deletes

LEMMA MailNext ==
  ASSUME MailOK, Mail!Next
  PROVE  MailOK'
  BY CaptureKeeps, LeasesKeep, ReadsKeep, PurgesKeep DEF Mail!Next

LEMMA MailInvariant == PartSpec => [](Runs("mail") => MailOK)
  <1> DEFINE Inv == Runs("mail") => MailOK
  <1>1. PartInit => Inv
    BY MailInit
  <1>2. Inv /\ [PartNext]_allVars => Inv'
    <2> SUFFICES ASSUME Inv, [PartNext]_allVars, Runs("mail")'
                 PROVE  MailOK'
      OBVIOUS
    <2>1. Runs("mail")
      BY OwnerPartStays DEF Runs
    <2> QED
      BY <2>1, MailStep, MailSame, MailNext
  <1> QED
    BY <1>1, <1>2, PTL DEF PartSpec

\* What a worker decrypts is of a row it read before the first purge.
THEOREM MailNotReadAgain == PartSpec => []PurgedIsNotReadAgain
  <1>1. (Runs("mail") => MailOK) => PurgedIsNotReadAgain
    BY DEF PurgedIsNotReadAgain, MailOK, Mail!PurgedIsNotReadAgain
  <1> QED
    BY <1>1, MailInvariant, PTL

-----------------------------------------------------------------------------
(* The sign-ins.                                                           *)

Ticket == [flow : Connect!Flows, place : Workplaces]
Phases == {"page", "away", "back", "code", "token", "stored", "ready", "landed"}
Login  == [at : Phases, flow : Connect!Flows, ticket : Nat, account : Connect!Who,
           place : Workplaces \cup {0}]
Ends2  == {"fleet", "calendar"}

\* A tab's login is of a ticket of its flow; whoever is in it signed in for that
\* ticket, and past the callback the place is the ticket's.
LoginOK(r, given, said) ==
  /\ r \in Login /\ (r.at = "away" => r.account = Connect!NoOne)
  /\ r.at \notin {"page", "landed"} =>
       r.ticket \in DOMAIN given /\ given[r.ticket].flow = r.flow
  /\ r.at \notin {"page", "landed", "away"} /\ r.account # Connect!NoOne =>
       <<given[r.ticket], r.account>> \in said
  /\ r.at \in {"code", "token", "stored", "ready"} =>
       r.account # Connect!NoOne /\ r.place = given[r.ticket].place

ConnectOK ==
  /\ tickets \in Seq(Ticket) /\ active \in Workplaces
  /\ connected \in [Ends2 -> [Workplaces -> Connect!Who]]
  /\ session \in [Workplaces -> [id : Nat, account : Connect!Who]]
  /\ signin \in [Tabs -> Login] /\ \A t \in Tabs : LoginOK(signin[t], tickets, asked)
  /\ Connect!ConnectedAsAsked

LEMMA ConnectStep ==
  ASSUME [PartNext]_allVars, Runs("connect")
  PROVE  Connect!Next \/ UNCHANGED connectVars
  BY DEF PartNext, allVars, Runs

LEMMA ConnectSame ==
  ASSUME ConnectOK, UNCHANGED connectVars
  PROVE  ConnectOK'
  BY DEF ConnectOK, LoginOK, connectVars, Connect!ConnectedAsAsked, Connect!Asked

LEMMA AtPageOK ==
  /\ Connect!AtPage \in Login /\ Connect!AtPage.at = "page"
  /\ Connect!AtPage.account = Connect!NoOne
  BY DEF Connect!AtPage, Login, Phases, Connect!Flows, Connect!Who

LEMMA NoHandleOK == Connect!NoHandle \in [id : Nat, account : Connect!Who]
  BY DEF Connect!NoHandle, Connect!Who

LEMMA ConnectInit == PartInit => ConnectOK
  <1> SUFFICES ASSUME Connect!Init PROVE ConnectOK
    BY DEF PartInit
  <1>1. tickets \in Seq(Ticket) /\ active \in Workplaces
    BY ConnectAssumption DEF Connect!Init
  <1>2. connected \in [Ends2 -> [Workplaces -> Connect!Who]]
    BY DEF Connect!Init, Ends2, Connect!Who
  <1>3. session \in [Workplaces -> [id : Nat, account : Connect!Who]]
    BY NoHandleOK DEF Connect!Init
  <1>4. signin \in [Tabs -> Login] /\ \A t \in Tabs : LoginOK(signin[t], tickets, asked)
    BY AtPageOK DEF Connect!Init, LoginOK
  <1>5. Connect!ConnectedAsAsked
    BY DEF Connect!Init, Connect!ConnectedAsAsked
  <1> QED
    BY <1>1, <1>2, <1>3, <1>4, <1>5 DEF ConnectOK

\* What was asked stays asked, of the tickets there were.
Grows ==
  /\ tickets' \in Seq(Ticket) /\ DOMAIN tickets \subseteq DOMAIN tickets'
  /\ \A n \in DOMAIN tickets : tickets'[n] = tickets[n]
  /\ asked \subseteq asked'

LEMMA GrowsLogins ==
  ASSUME Grows, NEW r, LoginOK(r, tickets, asked)
  PROVE  LoginOK(r, tickets', asked')
  BY DEF Grows, LoginOK

\* A step of one tab that connects nobody.
LEMMA TabGoes ==
  ASSUME ConnectOK, Grows, NEW t \in Tabs, NEW r, Connect!Goes(t, r), LoginOK(r, tickets', asked'),
         UNCHANGED <<active, connected, session>>
  PROVE  ConnectOK'
  <1>1. signin' = [signin EXCEPT ![t] = r] /\ r \in Login
    BY DEF Connect!Goes, LoginOK
  <1>2. signin' \in [Tabs -> Login]
    BY <1>1 DEF ConnectOK
  <1>3. ASSUME NEW u \in Tabs PROVE LoginOK(signin'[u], tickets', asked')
    <2>1. CASE u = t
      BY <1>1, <2>1 DEF ConnectOK, LoginOK
    <2>2. CASE u # t
      <3>1. signin'[u] = signin[u]
        BY <1>1, <2>2 DEF ConnectOK
      <3>2. LoginOK(signin[u], tickets, asked)
        BY DEF ConnectOK
      <3> QED
        BY <3>1, <3>2, GrowsLogins
    <2> QED
      BY <2>1, <2>2
  <1>4. Connect!ConnectedAsAsked'
    BY DEF ConnectOK, Connect!ConnectedAsAsked, Connect!Asked, Grows
  <1> QED
    BY <1>2, <1>3, <1>4 DEF ConnectOK, Grows

LEMMA StartsKeeps ==
  ASSUME ConnectOK, NEW t \in Tabs, NEW f \in Connect!Flows, NEW p \in Workplaces,
         Connect!Starts(t, f, p)
  PROVE  ConnectOK'
  <1> DEFINE x == [flow |-> f, place |-> p]
             n == Len(tickets) + 1
             r == [Connect!AtPage EXCEPT !.at = "away", !.flow = f, !.ticket = n]
  <1>1. x \in Ticket /\ x.flow = f
    BY DEF Ticket
  <1>2. /\ tickets' = Append(tickets, x) /\ asked' = asked
        /\ UNCHANGED <<active, connected, session>>
    BY DEF Connect!Starts, Connect!server
  <1> HIDE DEF x
  <1>3. /\ tickets' \in Seq(Ticket) /\ Len(tickets') = n /\ n \in Nat /\ n \in DOMAIN tickets'
        /\ tickets'[n] = x
    BY <1>1, <1>2 DEF ConnectOK
  <1>4. Grows
    BY <1>1, <1>2, <1>3 DEF ConnectOK, Grows
  <1>5. Connect!Goes(t, r)
    BY <1>3 DEF Connect!Starts
  <1>6. r \in Login /\ r.at = "away" /\ r.flow = f /\ r.ticket = n
        /\ r.account = Connect!AtPage.account
    BY <1>3, AtPageOK DEF Login, Phases
  <1> HIDE DEF r, n
  <1>7. LoginOK(r, tickets', asked')
    BY <1>1, <1>3, <1>6, AtPageOK DEF LoginOK
  <1> QED
    BY <1>2, <1>4, <1>5, <1>7, TabGoes

\* The steps that go back to the page, or land on it.
LEMMA PageLoads ==
  ASSUME NEW f \in Connect!Flows, NEW p \in Workplaces \cup {0}
  PROVE  /\ LoginOK(Connect!AtPage, tickets', asked')
         /\ LoginOK(Connect!Landed(f, p), tickets', asked')
  <1>1. /\ Connect!Landed(f, p) \in Login
        /\ Connect!Landed(f, p).at = "landed"
    BY AtPageOK DEF Connect!Landed, Login, Phases
  <1> QED
    BY <1>1, AtPageOK DEF LoginOK

LEMMA SameGrows ==
  ASSUME ConnectOK, UNCHANGED <<tickets, asked>>
  PROVE  Grows
  BY DEF ConnectOK, Grows

LEMMA SignInKeeps ==
  ASSUME ConnectOK, NEW t \in Tabs,
         Connect!Deny(t) \/ \E a \in Accounts : Connect!SignIn(t, a)
  PROVE  ConnectOK'
  <1> DEFINE q == signin[t]
  <1>1. q \in Login /\ LoginOK(q, tickets, asked)
    BY DEF ConnectOK
  <1>2. UNCHANGED <<active, tickets, connected, session>> /\ q.at = "away"
    BY DEF Connect!Deny, Connect!SignIn, Connect!server
  <1>3. CASE Connect!Deny(t)
    <2> DEFINE r == [q EXCEPT !.at = "back"]
    <2>1. Connect!Goes(t, r) /\ asked' = asked
      BY <1>3 DEF Connect!Deny
    <2>2. /\ r \in Login /\ r.at = "back" /\ r.flow = q.flow /\ r.ticket = q.ticket
          /\ r.account = q.account
      BY <1>1 DEF Login, Phases
    <2> HIDE DEF q, r
    <2>3. Grows
      BY <1>2, <2>1, SameGrows
    <2>4. LoginOK(r, tickets', asked')
      BY <1>1, <1>2, <2>1, <2>2 DEF LoginOK
    <2> QED
      BY <1>2, <2>1, <2>3, <2>4, TabGoes
  <1>4. ASSUME NEW a \in Accounts, Connect!SignIn(t, a)
        PROVE  ConnectOK'
    <2> DEFINE r == [q EXCEPT !.at = "back", !.account = a]
    <2>1. Connect!Goes(t, r) /\ asked' = asked \cup {<<tickets[q.ticket], a>>}
      BY <1>4 DEF Connect!SignIn
    <2>2. /\ r \in Login /\ r.at = "back" /\ r.flow = q.flow /\ r.ticket = q.ticket
          /\ r.account = a
      BY <1>1 DEF Login, Phases, Connect!Who
    <2> HIDE DEF q, r
    <2>3. Grows
      BY <1>2, <2>1 DEF ConnectOK, Grows
    <2>4. LoginOK(r, tickets', asked')
      BY <1>1, <1>2, <2>1, <2>2 DEF LoginOK
    <2> QED
      BY <1>2, <2>1, <2>3, <2>4, TabGoes
  <1> QED
    BY <1>3, <1>4

\* The callback goes on for the ticket that the cookie and the state name.
LEMMA CallbackKeeps ==
  ASSUME ConnectOK, NEW t \in Tabs, Connect!Callback(t)
  PROVE  ConnectOK'
  <1> DEFINE q == signin[t]
             held == cookie[q.flow]
             r == [q EXCEPT !.at = "code", !.place = tickets[held].place]
  <1>1. q \in Login /\ LoginOK(q, tickets, asked) /\ q.at = "back"
    BY DEF ConnectOK, Connect!Callback
  <1>2. UNCHANGED <<active, tickets, asked, connected, session>>
    BY DEF Connect!Callback, Connect!server
  <1>3. CASE Connect!Failed(t)
    BY <1>2, <1>3, SameGrows, PageLoads, TabGoes DEF Connect!Failed, Connect!Flows
  <1>4. CASE held = q.ticket /\ q.account # Connect!NoOne /\ Connect!Goes(t, r)
    <2>1. q.ticket \in DOMAIN tickets /\ tickets[q.ticket] \in Ticket
      BY <1>1 DEF ConnectOK, LoginOK
    <2>2. /\ r \in Login /\ r.at = "code" /\ r.flow = q.flow /\ r.ticket = q.ticket
          /\ r.account = q.account /\ r.place = tickets[q.ticket].place
      BY <1>1, <1>4, <2>1 DEF Login, Phases, Ticket
    <2> HIDE DEF q, r
    <2>3. LoginOK(r, tickets', asked')
      BY <1>1, <1>2, <1>4, <2>1, <2>2 DEF LoginOK
    <2> QED
      BY <1>2, <1>4, <2>3, SameGrows, TabGoes
  <1> QED
    BY <1>3, <1>4 DEF Connect!Callback, Connect!Matches

\* The login goes on: what is asked, its ticket and its place stay.
LEMMA FurtherOK ==
  ASSUME ConnectOK, NEW t \in Tabs, NEW from \in {"code", "token", "stored"},
         NEW to \in {"token", "stored", "ready"}, signin[t].at = from,
         UNCHANGED <<tickets, asked>>
  PROVE  /\ LoginOK([signin[t] EXCEPT !.at = to], tickets', asked')
         /\ signin[t].place \in Workplaces /\ signin[t].account \in Connect!Who
         /\ signin[t].flow \in Connect!Flows /\ signin[t].ticket \in Nat
         /\ Connect!Asked(signin[t].flow, signin[t].place, signin[t].account)
  <1> DEFINE q == signin[t]
             r == [q EXCEPT !.at = to]
  <1>1. q \in Login /\ LoginOK(q, tickets, asked) /\ q.at = from
    BY DEF ConnectOK
  <1>2. /\ r \in Login /\ r.at = to /\ r.flow = q.flow /\ r.ticket = q.ticket
        /\ r.account = q.account /\ r.place = q.place
    BY <1>1 DEF Login, Phases
  <1> HIDE DEF q, r
  <1>3. tickets[q.ticket] \in Ticket /\ tickets[q.ticket].flow = q.flow
        /\ tickets[q.ticket].place = q.place
    BY <1>1 DEF ConnectOK, LoginOK
  <1>4. tickets[q.ticket] = [flow |-> q.flow, place |-> q.place] /\ q.place \in Workplaces
    BY <1>3 DEF Ticket
  <1>5. LoginOK(r, tickets', asked')
    BY <1>1, <1>2 DEF LoginOK
  <1>6. Connect!Asked(q.flow, q.place, q.account)
    BY <1>1, <1>4 DEF LoginOK, Connect!Asked
  <1> QED
    BY <1>1, <1>4, <1>5, <1>6 DEF q, r, Login

LEMMA ExchangeKeeps ==
  ASSUME ConnectOK, NEW t \in Tabs, Connect!Exchanged(t)
  PROVE  ConnectOK'
  <1>1. /\ UNCHANGED <<active, tickets, asked, connected, session>> /\ signin[t].at = "code"
        /\ Connect!Goes(t, [signin[t] EXCEPT !.at = "token"])
    BY DEF Connect!Exchanged, Connect!server
  <1>2. LoginOK([signin[t] EXCEPT !.at = "token"], tickets', asked')
    BY <1>1, FurtherOK
  <1> QED
    BY <1>1, <1>2, SameGrows, TabGoes

\* The logins are of a step that changes what is connected.
LEMMA LoginsKeep ==
  ASSUME ConnectOK, NEW t \in Tabs, NEW r, Connect!Goes(t, r),
         LoginOK(r, tickets', asked'), UNCHANGED <<tickets, asked>>
  PROVE  /\ tickets' \in Seq(Ticket) /\ signin' \in [Tabs -> Login]
         /\ \A u \in Tabs : LoginOK(signin'[u], tickets', asked')
  BY DEF ConnectOK, Connect!Goes, LoginOK

LEMMA CompleteKeeps ==
  ASSUME ConnectOK, NEW t \in Tabs, Connect!CompleteIntegration(t)
  PROVE  ConnectOK'
  <1> DEFINE q == signin[t]
  <1>1. /\ UNCHANGED <<active, tickets, asked, session>> /\ q.at = "token" /\ q.flow \in Ends2
        /\ connected' = [connected EXCEPT ![q.flow][q.place] = q.account]
        /\ Connect!Goes(t, [q EXCEPT !.at = "stored"])
    BY DEF Connect!CompleteIntegration, Connect!Stores, Ends2
  <1>2. /\ LoginOK([q EXCEPT !.at = "stored"], tickets', asked')
        /\ q.place \in Workplaces /\ q.account \in Connect!Who
        /\ Connect!Asked(q.flow, q.place, q.account)
    BY <1>1, FurtherOK
  <1>3. /\ tickets' \in Seq(Ticket) /\ signin' \in [Tabs -> Login]
        /\ \A u \in Tabs : LoginOK(signin'[u], tickets', asked')
    BY <1>1, <1>2, LoginsKeep
  <1> HIDE DEF q
  <1>4. /\ connected' \in [Ends2 -> [Workplaces -> Connect!Who]]
        /\ \A f \in Ends2, p \in Workplaces :
             connected'[f][p] = IF f = q.flow /\ p = q.place THEN q.account ELSE connected[f][p]
    BY <1>1, <1>2 DEF ConnectOK
  <1>5. Connect!ConnectedAsAsked'
    BY <1>1, <1>2, <1>4 DEF ConnectOK, Connect!ConnectedAsAsked, Connect!Asked, Ends2
  <1> QED
    BY <1>1, <1>3, <1>4, <1>5 DEF ConnectOK

LEMMA SessionKeeps ==
  ASSUME ConnectOK, NEW t \in Tabs, Connect!CreateSession(t)
  PROVE  ConnectOK'
  <1> DEFINE q == signin[t]
             s == [id |-> q.ticket, account |-> q.account]
  <1>1. /\ UNCHANGED <<active, tickets, asked, connected>> /\ q.at = "stored" /\ q.flow = "fleet"
        /\ session' = [session EXCEPT ![q.place] = s]
        /\ Connect!Goes(t, [q EXCEPT !.at = "ready"])
    BY DEF Connect!CreateSession
  <1>2. /\ LoginOK([q EXCEPT !.at = "ready"], tickets', asked')
        /\ q.place \in Workplaces /\ q.account \in Connect!Who /\ q.ticket \in Nat
        /\ Connect!Asked("fleet", q.place, q.account)
    BY <1>1, FurtherOK
  <1>3. /\ tickets' \in Seq(Ticket) /\ signin' \in [Tabs -> Login]
        /\ \A u \in Tabs : LoginOK(signin'[u], tickets', asked')
    BY <1>1, <1>2, LoginsKeep
  <1>4. s \in [id : Nat, account : Connect!Who] /\ s.account = q.account
    BY <1>2
  <1> HIDE DEF q, s
  <1>5. /\ session' \in [Workplaces -> [id : Nat, account : Connect!Who]]
        /\ \A p \in Workplaces : session'[p] = IF p = q.place THEN s ELSE session[p]
    BY <1>1, <1>2, <1>4 DEF ConnectOK
  <1>6. Connect!ConnectedAsAsked'
    BY <1>1, <1>2, <1>4, <1>5 DEF ConnectOK, Connect!ConnectedAsAsked, Connect!Asked
  <1> QED
    BY <1>1, <1>3, <1>5, <1>6 DEF ConnectOK

\* Sessions that end, and nothing else of it.
LEMMA EndsKeep ==
  ASSUME ConnectOK, UNCHANGED <<tickets, asked, connected, signin>>, active' \in Workplaces,
         session' \in [Workplaces -> [id : Nat, account : Connect!Who]],
         \A p \in Workplaces : session'[p] = session[p] \/ session'[p] = Connect!NoHandle
  PROVE  ConnectOK'
  BY DEF ConnectOK, Connect!ConnectedAsAsked, Connect!Asked

LEMMA ConnectNext ==
  ASSUME ConnectOK, Connect!Next
  PROVE  ConnectOK'
  <1>1. CASE Connect!Expire
    <2>1. session' = session \/ \E p \in Workplaces : session' = [session EXCEPT ![p] = Connect!NoHandle]
      BY <1>1 DEF Connect!Expire
    <2>2. UNCHANGED <<active, tickets, asked, connected, signin>>
      BY <1>1 DEF Connect!Expire
    <2> QED
      BY <2>1, <2>2, NoHandleOK, EndsKeep DEF ConnectOK
  <1>2. ASSUME NEW p \in Workplaces, Connect!Switch(p) \/ Connect!Demote(p)
        PROVE  ConnectOK'
    BY <1>2, EndsKeep DEF ConnectOK, Connect!Switch, Connect!Demote, Connect!server
  <1>3. ASSUME NEW t \in Tabs, NEW p \in Workplaces,
               \/ Connect!FleetLogin(t, p) \/ Connect!CalendarLogin(t, p)
               \/ Connect!GuestLogin(t, p)
        PROVE  ConnectOK'
    BY <1>3, StartsKeeps DEF Connect!FleetLogin, Connect!CalendarLogin, Connect!GuestLogin,
       Connect!Flows
  <1>4. ASSUME NEW t \in Tabs,
               Connect!Deny(t) \/ \E a \in Accounts : Connect!SignIn(t, a)
        PROVE  ConnectOK'
    BY <1>4, SignInKeeps
  <1>5. ASSUME NEW t \in Tabs, Connect!Callback(t)
        PROVE  ConnectOK'
    BY <1>5, CallbackKeeps
  <1>6. ASSUME NEW t \in Tabs, Connect!Fail(t)
        PROVE  ConnectOK'
    <2>1. UNCHANGED <<active, tickets, asked, connected, session>> /\ Connect!Goes(t, Connect!AtPage)
      BY <1>6 DEF Connect!Fail, Connect!Failed, Connect!server
    <2> QED
      BY <2>1, SameGrows, PageLoads, TabGoes DEF Connect!Flows
  <1>7. ASSUME NEW t \in Tabs, Connect!TeslaExchange(t) \/ Connect!GoogleExchange(t)
        PROVE  ConnectOK'
    BY <1>7, ExchangeKeeps DEF Connect!TeslaExchange, Connect!GoogleExchange
  <1>8. ASSUME NEW t \in Tabs, Connect!CompleteIntegration(t) \/ Connect!CreateSession(t)
        PROVE  ConnectOK'
    BY <1>8, CompleteKeeps, SessionKeeps
  <1>9. ASSUME NEW t \in Tabs,
               Connect!FleetAnswer(t) \/ Connect!CalendarAnswer(t) \/ Connect!GuestAnswer(t)
        PROVE  ConnectOK'
    <2>1. /\ UNCHANGED <<active, tickets, asked, connected, session>>
          /\ \/ Connect!Goes(t, Connect!AtPage)
             \/ Connect!Goes(t, Connect!Landed("fleet", active))
             \/ Connect!Goes(t, Connect!Landed("guest", signin[t].place))
      BY <1>9 DEF Connect!FleetAnswer, Connect!CalendarAnswer, Connect!GuestAnswer,
         Connect!Answers, Connect!server
    <2>2. active \in Workplaces /\ signin[t].place \in Workplaces \cup {0}
      BY DEF ConnectOK, Login
    <2> QED
      BY <2>1, <2>2, SameGrows, PageLoads, TabGoes DEF Connect!Flows
  <1>10. ASSUME NEW t \in Tabs, NEW found \in BOOLEAN, NEW told \in BOOLEAN,
                Connect!OwnerLands(t, found, told) \/ Connect!GuestLands(t, found, told)
         PROVE  ConnectOK'
    <2>1. UNCHANGED <<active, tickets, asked, connected, session>> /\ Connect!Goes(t, Connect!AtPage)
      BY <1>10 DEF Connect!OwnerLands, Connect!GuestLands, Connect!server
    <2> QED
      BY <2>1, SameGrows, PageLoads, TabGoes DEF Connect!Flows
  <1>11. ASSUME NEW t \in Tabs, NEW p \in Workplaces, NEW told \in BOOLEAN,
                \/ \E reached \in BOOLEAN : Connect!OwnerLeaves(t, p, reached, told)
                \/ Connect!GuestLeaves(t, p, told)
         PROVE  ConnectOK'
    <2>1. UNCHANGED <<active, tickets, asked, connected, signin>>
      BY <1>11 DEF Connect!OwnerLeaves, Connect!GuestLeaves, Connect!server
    <2>2. \/ session' = session
          \/ \E gone \in SUBSET Workplaces :
               session' = [q \in Workplaces |-> IF q \in gone THEN Connect!NoHandle ELSE session[q]]
      <3>1. CASE Connect!GuestLeaves(t, p, told)
        BY <3>1 DEF Connect!GuestLeaves, Connect!server
      <3>2. ASSUME NEW reached \in BOOLEAN, Connect!OwnerLeaves(t, p, reached, told)
            PROVE  \E gone \in SUBSET Workplaces :
                     session' = [q \in Workplaces |-> IF q \in gone THEN Connect!NoHandle
                                                  ELSE session[q]]
        <4> DEFINE gone == {q \in Workplaces : reached /\ session[q] = handle}
        <4>1. session' = [q \in Workplaces |-> IF q \in gone THEN Connect!NoHandle
                                           ELSE session[q]]
          BY <3>2 DEF Connect!OwnerLeaves
        <4> QED
          BY <4>1
      <3> QED
        BY <1>11, <3>1, <3>2
    <2> QED
      BY <2>1, <2>2, NoHandleOK, EndsKeep DEF ConnectOK
  <1> QED
    BY <1>1, <1>2, <1>3, <1>4, <1>5, <1>6, <1>7, <1>8, <1>9, <1>10, <1>11 DEF Connect!Next

LEMMA ConnectInvariant == PartSpec => [](Runs("connect") => ConnectOK)
  <1> DEFINE Inv == Runs("connect") => ConnectOK
  <1>1. PartInit => Inv
    BY ConnectInit
  <1>2. Inv /\ [PartNext]_allVars => Inv'
    <2> SUFFICES ASSUME Inv, [PartNext]_allVars, Runs("connect")'
                 PROVE  ConnectOK'
      OBVIOUS
    <2>1. Runs("connect")
      BY OwnerPartStays DEF Runs
    <2> QED
      BY <2>1, ConnectStep, ConnectSame, ConnectNext
  <1> QED
    BY <1>1, <1>2, PTL DEF PartSpec

\* Whoever is connected to a workspace signed in for that workspace.
THEOREM SignedInAsAsked == PartSpec => []ConnectedAsAsked
  <1>1. (Runs("connect") => ConnectOK) => ConnectedAsAsked
    BY DEF ConnectedAsAsked, ConnectOK
  <1> QED
    BY <1>1, ConnectInvariant, PTL

-----------------------------------------------------------------------------
(* The types of these parts: what the strengthenings above do not say.     *)

\* What is published names a vehicle, in the row and in every copy and save of it.
Linked(q) == q.live => q.car # 0

CopiesLinked == \A t \in Tabs : Linked(tenant[t]) /\ \A q \in saves[t] : Linked(q)

LEMMA RendersLinked ==
  ASSUME SettingsOK, CopiesLinked, NEW t \in Tabs, NEW a, NEW v, NEW key,
         NEW inFlight \in SUBSET saves[t], Linked(a),
         Settings!Renders(t, a, v, key, inFlight)
  PROVE  CopiesLinked'
  <1>1. Linked(Settings!SyncSave(a, v))
    BY DEF Settings!SyncSave, Settings!Request, Linked
  <1>2. /\ tenant' = [tenant EXCEPT ![t] = a]
        /\ \E next : /\ saves' = [saves EXCEPT ![t] = next]
                     /\ \A q \in next : q \in saves[t] \/ q = Settings!SyncSave(a, v)
    BY DEF Settings!Renders
  <1> QED
    BY <1>1, <1>2 DEF SettingsOK, CopiesLinked

LEMMA LinkedInvariant == PartSpec => [](Runs("settings") => Linked(branding) /\ CopiesLinked)
  <1> DEFINE Inv == Runs("settings") => Linked(branding) /\ CopiesLinked
  <1>1. PartInit => Inv
    BY DEF PartInit, Settings!Init, Settings!ForAll, Linked, CopiesLinked
  <1>2. Inv /\ (Runs("settings") => SettingsOK) /\ [PartNext]_allVars => Inv'
    <2> SUFFICES ASSUME Linked(branding), CopiesLinked, SettingsOK,
                        Settings!Next \/ UNCHANGED settingsVars
                 PROVE  Linked(branding)' /\ CopiesLinked'
      BY OwnerPartStays, SettingsStep DEF Runs
    <2>1. CASE UNCHANGED <<branding, tenant, saves>>
      BY <2>1 DEF Linked, CopiesLinked
    <2>2. CASE Settings!SaveRate
      BY <2>2 DEF Settings!SaveRate, Linked, CopiesLinked, SettingsOK, Copy
    <2>3. ASSUME NEW t \in Tabs, Settings!SubmitSettings(t) \/ Settings!Publish(t)
          PROVE  Linked(branding)' /\ CopiesLinked'
      <3>1. \E q : Linked(q) /\ saves' = [saves EXCEPT ![t] = saves[t] \cup {q}]
        BY <2>3 DEF Settings!SubmitSettings, Settings!Publish, Settings!Sends, Settings!Request,
           Linked
      <3>2. UNCHANGED <<branding, tenant>>
        BY <2>3 DEF Settings!SubmitSettings, Settings!Publish
      <3> QED
        BY <3>1, <3>2 DEF SettingsOK, CopiesLinked
    <2>4. ASSUME NEW t \in Tabs, NEW q \in saves[t],
                 Settings!Saved(t, q) \/ Settings!Refused(t, q)
          PROVE  Linked(branding)' /\ CopiesLinked'
      <3>1. Linked(branding')
        BY <2>4 DEF Settings!Saved, Settings!Refused, Settings!Stored, Linked, CopiesLinked
      <3>2. \E v, key : Settings!Renders(t, branding', v, key, saves[t] \ {q})
        BY <2>4 DEF Settings!Saved, Settings!Refused
      <3> QED
        BY <3>1, <3>2, RendersLinked
    <2>5. ASSUME NEW t \in Tabs,
                 Settings!SaveVehicle(t) \/ Settings!ChangeStatus(t) \/ Settings!Focus(t)
          PROVE  Linked(branding)' /\ CopiesLinked'
      <3>1. UNCHANGED branding
            /\ \E v : Settings!Renders(t, tenant[t], v, tried[t], saves[t])
        BY <2>5 DEF Settings!SaveVehicle, Settings!ChangeStatus, Settings!Focus, Settings!Writes,
           Settings!Copies
      <3>2. Linked(tenant[t])
        BY DEF CopiesLinked
      <3> QED
        BY <3>1, <3>2, RendersLinked
    <2> QED
      BY <2>1, <2>2, <2>3, <2>4, <2>5 DEF Settings!Next, Settings!SaveBattery, settingsVars
  <1> QED
    BY <1>1, <1>2, SettingsHold, PTL DEF PartSpec

LEMMA SettingsTypes ==
  ASSUME SettingsOK, Linked(branding)
  PROVE  Settings!TypeOK
  <1>1. \A b \in Copy \cup Save : Settings!Settings(b)
    BY DEF Copy, Save, Settings!Settings
  <1>2. \A t \in Tabs : /\ cache[t] \in CarRow /\ tenant[t] \in Copy /\ saves[t] \subseteq Save
                        /\ tried[t] \in SyncKeys /\ tenant[t].ver <= branding.ver
    BY DEF SettingsOK, CopiesHold, Holds
  <1>3. edits <= MaxEdits /\ lost <= MaxLostReplies
    BY SettingsAssumption DEF SettingsOK
  <1>4. vehicle \in Settings!Row /\ Settings!Settings(branding)
        /\ (branding.live => branding.car # 0)
    BY <1>1 DEF SettingsOK, CarRow, Settings!Row, Linked
  <1>5. ASSUME NEW t \in Tabs
        PROVE  /\ cache[t] \in Settings!Row
               /\ Settings!Settings(tenant[t]) /\ tenant[t].ver <= branding.ver
               /\ tried[t] \in [why : {"none", "unpublish", "relink"}, rev : 0 .. MaxEdits + 1]
               /\ \A q \in saves[t] : Settings!Settings(q) /\ q.by \in {"form", "publish", "sync"}
    BY <1>1, <1>2 DEF CarRow, Settings!Row, SyncKeys, Save
  <1> QED
    BY <1>3, <1>4, <1>5 DEF Settings!TypeOK

-----------------------------------------------------------------------------
\* The owner's edits of the domain and the provider's faults are as many as they may be.
DomainCounts == domainEdits \in 0 .. MaxDomainEdits /\ domainFaults \in 0 .. MaxDomainFaults

LEMMA DomainCounted == PartSpec => [](Runs("domain") => DomainCounts)
  <1> USE BoundsAssumption
  <1> DEFINE Inv == Runs("domain") => DomainCounts
  <1>1. PartInit => Inv
    BY DEF PartInit, Domains!Init, DomainCounts
  <1>2. Inv /\ [PartNext]_allVars => Inv'
    <2> SUFFICES ASSUME DomainCounts, Domains!Next \/ UNCHANGED domainVars
                 PROVE  DomainCounts'
      BY OwnerPartStays, DomainStep DEF Runs
    <2>1. CASE Domains!RequestDomain \/ Domains!RequestRemoval
      BY <2>1 DEF Domains!RequestDomain, Domains!RequestRemoval, Domains!Edit, DomainCounts
    <2>2. CASE Domains!ProviderFails \/ Domains!CrashDomain
      BY <2>2 DEF Domains!ProviderFails, Domains!CrashDomain, Domains!Fault, DomainCounts
    <2>3. CASE UNCHANGED <<domainEdits, domainFaults>>
      BY <2>3 DEF DomainCounts
    <2> QED
      BY <2>1, <2>2, <2>3 DEF Domains!Next, Domains!Runs, domainVars, Domains!Publish,
         Domains!DomainDue, Domains!LapseDomain, Domains!ClaimDomain, Domains!Attach,
         Domains!Reconcile, Domains!Record, Domains!Detach, Domains!Delete
  <1> QED
    BY <1>1, <1>2, PTL DEF PartSpec

LEMMA DomainTypes ==
  ASSUME DomainOK, DomainCounts
  PROVE  Domains!TypeOK
  BY BoundsAssumption DEF DomainOK, DomainRow, DomainPlaces, DomainCounts, Domains!TypeOK

-----------------------------------------------------------------------------
GoogleRow == [status : {"connected", "degraded", "reauth_required", "disconnected"},
              cred : BOOLEAN, due : BOOLEAN, claimed : BOOLEAN]

CalendarTyped ==
  /\ event.time \in Times /\ integ \in GoogleRow /\ screen \in CandRow
  /\ syncLock \in Syncers \cup {Calendar!Nothing}
  /\ moves \in 0 .. MaxMoves /\ consents \in 0 .. MaxConsents /\ upsets \in 0 .. MaxUpsets

LEMMA NoCandOK == Calendar!NoCand \in CandRow
  BY DEF Calendar!NoCand, CandRow, Calendar!Statuses

LEMMA CalendarTypedNext ==
  ASSUME CalendarOK, CalendarTyped, Calendar!Next
  PROVE  CalendarTyped'
  <1> USE BoundsAssumption
  <1>1. /\ event' = event \/ event'.time \in Times \/ event' = [event EXCEPT !.alive = FALSE]
        /\ moves' \in 0 .. MaxMoves
    BY DEF CalendarTyped, Calendar!Next, Calendar!MoveEvent, Calendar!google, Calendar!Due,
       Calendar!LapseSync, Calendar!Owner, Calendar!Consent, Calendar!Import,
       Calendar!DisconnectCalendar, Calendar!Load, Calendar!ConfirmCandidate,
       Calendar!DismissCandidate, Calendar!ApplyChange, Calendar!CancelByReview,
       Calendar!CancelBooking, Calendar!Decide, Calendar!ClaimSync, Calendar!SyncEnds,
       Calendar!SyncStep, Calendar!BusySync, Calendar!Unavailable, Calendar!Fetch,
       Calendar!IngestEvents, Calendar!FlagCancelled, Calendar!FailSync, Calendar!CrashSync
  <1>2. event'.time \in Times
    BY <1>1 DEF CalendarOK, CalendarTyped, Fetched
  <1>3. /\ integ' \in GoogleRow /\ consents' \in 0 .. MaxConsents /\ upsets' \in 0 .. MaxUpsets
        /\ screen' \in {screen, cand, Calendar!NoCand}
        /\ syncLock' \in Syncers \cup {syncLock, Calendar!Nothing}
    <2>a. /\ Calendar!Synced \in GoogleRow /\ Calendar!Off \in GoogleRow
          /\ [integ EXCEPT !.due = TRUE] \in GoogleRow
          /\ \A c \in BOOLEAN : [integ EXCEPT !.claimed = c] \in GoogleRow
          /\ \A s \in {"reauth_required", "degraded"} :
               [integ EXCEPT !.status = s, !.due = FALSE, !.claimed = FALSE] \in GoogleRow
      BY DEF CalendarTyped, GoogleRow, Calendar!Synced, Calendar!Off
    <2>b. upsets' = upsets \/ Calendar!Upset => upsets' \in 0 .. MaxUpsets
      BY DEF CalendarTyped, Calendar!Upset
    <2>1. CASE Calendar!Due \/ Calendar!LapseSync \/ Calendar!MoveEvent
      <3>1. /\ upsets' = upsets \/ Calendar!Upset
            /\ integ' = integ \/ integ' = [integ EXCEPT !.due = TRUE]
                 \/ integ' = [integ EXCEPT !.claimed = FALSE]
            /\ UNCHANGED <<screen, syncLock, consents>>
        BY <2>1, Zenon DEF Calendar!MoveEvent, Calendar!Due, Calendar!LapseSync, Calendar!rest
      <3> QED
        BY <2>a, <2>b, <3>1 DEF CalendarTyped
    <2>2. CASE Calendar!Owner
      <3>1. /\ upsets' = upsets /\ syncLock' = syncLock
            /\ integ' \in {integ, Calendar!Off, Calendar!Synced,
                           [status |-> "connected", cred |-> TRUE, due |-> FALSE,
                            claimed |-> FALSE]}
            /\ screen' \in {screen, cand, Calendar!NoCand}
            /\ consents' = consents \/ (consents < MaxConsents /\ consents' = consents + 1)
        BY <2>2 DEF Calendar!Owner, Calendar!Consent, Calendar!Import, Calendar!rest,
           Calendar!DisconnectCalendar, Calendar!Load, Calendar!ConfirmCandidate,
           Calendar!DismissCandidate, Calendar!ApplyChange, Calendar!CancelByReview,
           Calendar!CancelBooking, Calendar!Decide
      <3>2. [status |-> "connected", cred |-> TRUE, due |-> FALSE, claimed |-> FALSE] \in GoogleRow
        BY DEF GoogleRow
      <3>3. integ' \in GoogleRow
        BY <2>a, <3>1, <3>2, Zenon DEF CalendarTyped
      <3>4. consents' \in 0 .. MaxConsents
        BY <3>1 DEF CalendarTyped
      <3> QED
        BY <2>b, <3>1, <3>3, <3>4
    <2>3. ASSUME NEW w \in Syncers,
                 Calendar!ClaimSync(w) \/ Calendar!SyncEnds(w) \/ Calendar!CrashSync(w)
          PROVE  /\ integ' \in GoogleRow /\ upsets' \in 0 .. MaxUpsets
                 /\ syncLock' \in Syncers \cup {syncLock, Calendar!Nothing}
                 /\ UNCHANGED <<screen, consents>>
      <3>1. /\ upsets' = upsets \/ Calendar!Upset
            /\ syncLock' \in {syncLock, w, Calendar!Nothing}
            /\ UNCHANGED <<screen, consents>>
        BY <2>3 DEF Calendar!ClaimSync, Calendar!SyncEnds, Calendar!Done, Calendar!rest,
           Calendar!SyncStep, Calendar!BusySync, Calendar!Unavailable, Calendar!Fetch,
           Calendar!IngestEvents, Calendar!FlagCancelled, Calendar!FailSync, Calendar!CrashSync
      <3>2. \/ integ' = integ \/ integ' = Calendar!Synced
            \/ \E c \in BOOLEAN : integ' = [integ EXCEPT !.claimed = c]
            \/ \E s \in {"reauth_required", "degraded"} :
                 integ' = [integ EXCEPT !.status = s, !.due = FALSE, !.claimed = FALSE]
        BY <2>3, Zenon DEF Calendar!ClaimSync, Calendar!SyncEnds, Calendar!Done, Calendar!rest,
           Calendar!SyncStep, Calendar!BusySync, Calendar!Unavailable, Calendar!Fetch,
           Calendar!IngestEvents, Calendar!FlagCancelled, Calendar!FailSync, Calendar!CrashSync
      <3>3. integ' \in GoogleRow
        BY <2>a, <3>2, Zenon DEF CalendarTyped
      <3> QED
        BY <2>b, <3>1, <3>3
    <2> QED
      BY <2>1, <2>2, <2>3 DEF Calendar!Next, CalendarTyped
  <1> QED
    BY <1>1, <1>2, <1>3, NoCandOK DEF CalendarOK, CalendarTyped

LEMMA CalendarTypedInvariant == PartSpec => [](Runs("calendar") => CalendarTyped)
  <1> DEFINE Inv == Runs("calendar") => CalendarTyped
  <1>1. PartInit => Inv
    BY NoCandOK, BoundsAssumption DEF PartInit, Calendar!Init, Calendar!Off, GoogleRow,
       CalendarTyped
  <1>2. Inv /\ (Runs("calendar") => CalendarOK) /\ [PartNext]_allVars => Inv'
    <2> SUFFICES ASSUME CalendarTyped, CalendarOK, Calendar!Next \/ UNCHANGED calendarVars
                 PROVE  CalendarTyped'
      BY OwnerPartStays, CalendarStep DEF Runs
    <2>1. CASE UNCHANGED calendarVars
      BY <2>1 DEF CalendarTyped, calendarVars
    <2> QED
      BY <2>1, CalendarTypedNext
  <1> QED
    BY <1>1, <1>2, CalendarInvariant, PTL DEF PartSpec

LEMMA CalendarTypes ==
  ASSUME CalendarOK, CalendarTyped
  PROVE  Calendar!TypeOK
  <1>1. event \in [alive : BOOLEAN, time : Times]
    BY DEF CalendarOK, CalendarTyped, Fetched
  <1>2. \A w \in Syncers : sync[w].at \in {"idle", "claimed", "fetched", "ingested"}
    BY DEF CalendarOK, SyncRow
  <1> QED
    BY <1>1, <1>2, BoundsAssumption
    DEF CalendarOK, CalendarTyped, CandRow, BookingRow, GoogleRow, Calendar!TypeOK

-----------------------------------------------------------------------------
FleetRow == [name : Fleet!Names, code : Fleet!Known \cup {0}, prior : Fleet!Spec2 \cup {Fleet!Unread}]

FleetTyped ==
  /\ profile = Fleet!Unread \/ profile \in Fleet!Spec2
  /\ row = Fleet!NoRow \/ row \in FleetRow
  /\ snap \in {Fleet!Idle, Fleet!NoRow} \/ snap \in FleetRow
  /\ form = Fleet!Closed \/ form \in Fleet!Names
  /\ word \in Fleet!Names

\* What Tesla says of a car has a name and a code, in whatever it answers.
LEMMA ReportsTyped == aspect \in {"paint", "cabin", "wheels"} => Fleet!Reports \subseteq Fleet!Spec2
  <1> SUFFICES ASSUME aspect \in {"paint", "cabin", "wheels"}
               PROVE  Fleet!Reports \subseteq Fleet!Spec2
    OBVIOUS
  <1>1. \A a, b : Fleet!Either(a, b) \in {a, b}
    BY DEF Fleet!Either
  <1>2. /\ Fleet!Codes \subseteq Fleet!Known \cup {0}
        /\ \A raw \in Fleet!Raw : Fleet!Name(raw) \in Fleet!Names
    BY DEF Fleet!Codes, Fleet!Known, Fleet!Raw, Fleet!Name, Fleet!CabinName, Fleet!Survives,
       Fleet!Names, Fleet!Other, Fleet!Digits
  <1>3. \A code \in Fleet!Codes : code \in Fleet!Names /\ code \in Fleet!Known \cup {0}
    BY <1>2 DEF Fleet!Known, Fleet!Names, Fleet!Other
  <1>4. 0 \in Fleet!Names /\ 0 \in Fleet!Known \cup {0}
    BY DEF Fleet!Names, Fleet!Other
  <1>5. ASSUME NEW r \in Fleet!Raw, NEW c \in Fleet!Codes
        PROVE  Fleet!FromList(r, c) \in Fleet!Spec2
    <2>1. Fleet!Either(Fleet!Name(r), c) \in Fleet!Names
      BY <1>1, <1>2, <1>3
    <2>2. \A n \in Fleet!Names, k \in Fleet!Known \cup {0} : [name |-> n, code |-> k] \in Fleet!Spec2
      BY DEF Fleet!Spec2
    <2> QED
      BY <1>3, <1>4, <2>1, <2>2 DEF Fleet!FromList
  <1>6. ASSUME NEW r \in Fleet!Raw, NEW c \in Fleet!Codes
        PROVE  Fleet!FromConfig(r, c) \in Fleet!Spec2
    <2>1. Fleet!Either(Fleet!Name(r), c) \in Fleet!Names
      BY <1>1, <1>2, <1>3
    <2>2. \A n \in Fleet!Names, k \in Fleet!Known \cup {0} : [name |-> n, code |-> k] \in Fleet!Spec2
      BY DEF Fleet!Spec2
    <2>3. \E k \in {0, c} :
            Fleet!FromConfig(r, c) = [name |-> Fleet!Either(Fleet!Name(r), c), code |-> k]
      BY DEF Fleet!FromConfig
    <2> QED
      BY <1>3, <1>4, <2>1, <2>2, <2>3
  <1>7. \A l, g \in Fleet!Spec2 : Fleet!Enriched(l, g) \in Fleet!Spec2
    BY DEF Fleet!Enriched, Fleet!Either, Fleet!Spec2
  <1> DEFINE lists == {Fleet!FromList(r, c) : r \in Fleet!Raw, c \in Fleet!Codes}
  <1>8. \A l \in lists : l \in Fleet!Spec2
    BY <1>5
  <1>9. Fleet!Reports = lists \cup {Fleet!Enriched(l, Fleet!FromConfig(r, c)) :
                                   l \in lists, r \in Fleet!Raw, c \in Fleet!Codes}
    BY DEF Fleet!Reports
  <1> HIDE DEF lists
  <1>10. \A l \in lists, r \in Fleet!Raw, c \in Fleet!Codes :
           Fleet!Enriched(l, Fleet!FromConfig(r, c)) \in Fleet!Spec2
    BY <1>6, <1>7, <1>8
  <1> QED
    BY <1>8, <1>9, <1>10

LEMMA FleetTypedNext ==
  ASSUME FleetOK, FleetTyped, Fleet!Next
  PROVE  FleetTyped'
  <1>1. /\ 0 \in Fleet!Names /\ 0 - 1 \notin Fleet!Names
        /\ Fleet!NoRow.name = 0 - 1 /\ Fleet!Closed = 0 - 1
    BY DEF Fleet!Names, Fleet!Other, Fleet!NoRow, Fleet!Closed
  <1>2. CASE Fleet!ReadProfile
    BY <1>2, ReportsTyped DEF Fleet!ReadProfile, FleetOK, FleetTyped
  <1>3. CASE Fleet!StartImport
    BY <1>3 DEF Fleet!StartImport, FleetTyped
  <1>4. CASE Fleet!LandImport
    <2>1. CASE UNCHANGED <<row, word>>
      BY <1>4, <2>1 DEF Fleet!LandImport, FleetTyped
    <2>2. CASE ~UNCHANGED <<row, word>>
      <3>1. /\ snap # Fleet!Idle /\ snap' = Fleet!Idle /\ UNCHANGED <<profile, form>>
            /\ row' = IF snap = Fleet!NoRow
                        THEN [name |-> profile.name, code |-> profile.code, prior |-> profile]
                        ELSE Fleet!Merged(profile, snap)
            /\ word' \in {0, word}
        BY <1>4, <2>2 DEF Fleet!LandImport
      <3>2. profile \in Fleet!Spec2
        BY <3>1 DEF FleetOK, FleetTyped
      <3>3. snap # Fleet!NoRow => Fleet!Merged(profile, snap) \in FleetRow
        <4> SUFFICES ASSUME snap \in FleetRow PROVE Fleet!Merged(profile, snap) \in FleetRow
          BY <3>1 DEF FleetTyped
        <4>1. \A c, k, p, e : Fleet!Owners(c, k, p, e) \in {c, e}
          BY DEF Fleet!Owners
        <4>2. \E n \in {snap.name, profile.name}, c \in {snap.code, profile.code} :
                Fleet!Merged(profile, snap) = [name |-> n, code |-> c, prior |-> profile]
          BY <4>1 DEF Fleet!Merged
        <4> QED
          BY <3>2, <4>2 DEF FleetRow, Fleet!Spec2
      <3>4. [name |-> profile.name, code |-> profile.code, prior |-> profile] \in FleetRow
        BY <3>2 DEF FleetRow, Fleet!Spec2
      <3> QED
        BY <1>1, <3>1, <3>3, <3>4 DEF FleetTyped
    <2> QED
      BY <2>1, <2>2
  <1>5. CASE Fleet!OpenForm
    <2>1. row \in FleetRow /\ form' = row.name /\ UNCHANGED <<profile, row, snap, word>>
      BY <1>5 DEF Fleet!OpenForm, FleetTyped
    <2> QED
      BY <2>1 DEF FleetTyped, FleetRow
  <1>6. CASE Fleet!Submit
    <2>1. row \in FleetRow /\ form \in Fleet!Names
      BY <1>6 DEF Fleet!Submit, FleetOK, FleetTyped
    <2>2. \E c \in {0, row.code} : row' = [row EXCEPT !.name = form, !.code = c]
      BY <1>6 DEF Fleet!Submit, Fleet!CodeKept
    <2>3. row' \in FleetRow
      BY <2>1, <2>2 DEF FleetRow
    <2>4. word' \in {0, form} /\ form' = Fleet!Closed /\ UNCHANGED <<profile, snap>>
      BY <1>6 DEF Fleet!Submit
    <2> QED
      BY <1>1, <2>1, <2>3, <2>4 DEF FleetTyped
  <1>7. ASSUME NEW n \in Fleet!Names, Fleet!AddManually(n)
        PROVE  FleetTyped'
    BY <1>7 DEF Fleet!AddManually, FleetTyped, FleetRow
  <1>8. ASSUME NEW n \in Fleet!Names, Fleet!TypeForm(n)
        PROVE  FleetTyped'
    BY <1>8 DEF Fleet!TypeForm, FleetTyped
  <1> QED
    BY <1>2, <1>3, <1>4, <1>5, <1>6, <1>7, <1>8 DEF Fleet!Next

LEMMA FleetTypedInvariant == PartSpec => [](Runs("fleet") => FleetTyped)
  <1> DEFINE Inv == Runs("fleet") => FleetTyped
  <1>1. PartInit => Inv
    BY DEF PartInit, Fleet!Init, FleetTyped, Fleet!Names, Fleet!Other
  <1>2. Inv /\ (Runs("fleet") => FleetOK) /\ [PartNext]_allVars => Inv'
    <2> SUFFICES ASSUME FleetTyped, FleetOK, Fleet!Next \/ UNCHANGED fleetVars
                 PROVE  FleetTyped'
      BY OwnerPartStays, FleetStep DEF Runs
    <2>1. CASE UNCHANGED fleetVars
      BY <2>1 DEF FleetTyped, fleetVars
    <2> QED
      BY <2>1, FleetTypedNext
  <1> QED
    BY <1>1, <1>2, FleetInvariant, PTL DEF PartSpec

LEMMA FleetTypes == ASSUME FleetTyped PROVE Fleet!TypeOK
  BY DEF FleetTyped, FleetRow, Fleet!TypeOK

-----------------------------------------------------------------------------
KeptLogins == [{"fleet", "guest"} -> [Workplaces -> Connect!Who]]

ConnectTyped ==
  /\ durable \in BOOLEAN /\ admin \subseteq Workplaces /\ Len(tickets) \in Connect!Numbers
  /\ cookie \in [Connect!Flows -> Connect!Numbers]
  /\ handle \in [id : Connect!Numbers, account : Connect!Who] /\ sealed \in Connect!Who
  /\ fetched \in KeptLogins
  /\ \A p \in Workplaces : session[p].id \in Connect!Numbers
  /\ \A t \in Tabs : signin[t].ticket \in Connect!Numbers

LEMMA NoneTyped ==
  /\ 0 \in Connect!Numbers /\ Connect!NoOne \in Connect!Who
  /\ Connect!NoHandle \in [id : Connect!Numbers, account : Connect!Who]
  /\ Connect!NoHandle.id \in Connect!Numbers
  /\ Connect!AtPage.ticket \in Connect!Numbers
  /\ \A f, p : Connect!Landed(f, p).ticket \in Connect!Numbers
  <1>1. 0 \in Connect!Numbers
    BY BoundsAssumption DEF Connect!Numbers
  <1> QED
    BY <1>1 DEF Connect!Who, Connect!NoOne, Connect!NoHandle, Connect!AtPage, Connect!Landed

\* What a step of one tab leaves in it.
LEMMA TicketsTyped ==
  ASSUME ConnectOK, ConnectTyped, NEW t \in Tabs, NEW r, r.ticket \in Connect!Numbers,
         Connect!Goes(t, r)
  PROVE  \A u \in Tabs : signin'[u].ticket \in Connect!Numbers
  BY DEF ConnectOK, ConnectTyped, Connect!Goes

LEMMA CookiesTyped ==
  ASSUME ConnectTyped, NEW f \in Connect!Flows, NEW n \in Connect!Numbers,
         cookie' = [cookie EXCEPT ![f] = n]
  PROVE  cookie' \in [Connect!Flows -> Connect!Numbers]
  BY DEF ConnectTyped

LEMMA KeepsTyped ==
  ASSUME ConnectTyped, NEW f, NEW p, NEW a \in Connect!Who, Connect!Keeps(f, p, a)
  PROVE  fetched' \in KeptLogins
  BY DEF ConnectTyped, Connect!Keeps, KeptLogins

LEMMA ConnectTypedNext ==
  ASSUME ConnectOK, ConnectTyped, Connect!Next
  PROVE  ConnectTyped'
  <1>a. \A t \in Tabs : /\ signin[t] \in Login /\ signin[t].ticket \in Connect!Numbers
                        /\ signin[t].flow \in Connect!Flows /\ signin[t].account \in Connect!Who
    BY DEF ConnectOK, ConnectTyped, Login
  <1>1. CASE Connect!Expire
    <2>1. /\ cookie' = cookie \/ \E f \in Connect!Flows : cookie' = [cookie EXCEPT ![f] = 0]
          /\ session' = session
               \/ \E p \in Workplaces : session' = [session EXCEPT ![p] = Connect!NoHandle]
          /\ UNCHANGED <<durable, tickets, handle, sealed, fetched, admin, signin>>
      BY <1>1 DEF Connect!Expire
    <2>2. cookie' \in [Connect!Flows -> Connect!Numbers]
      BY <2>1, NoneTyped, CookiesTyped DEF ConnectTyped
    <2>3. \A p \in Workplaces : session'[p].id \in Connect!Numbers
      BY <2>1, NoneTyped DEF ConnectTyped, ConnectOK
    <2> QED
      BY <2>1, <2>2, <2>3 DEF ConnectTyped
  <1>2. ASSUME NEW p \in Workplaces, Connect!Switch(p) \/ Connect!Demote(p)
        PROVE  ConnectTyped'
    BY <1>2 DEF ConnectTyped, Connect!Switch, Connect!Demote, Connect!server, Connect!browser
  <1>3. ASSUME NEW t \in Tabs, NEW f \in Connect!Flows, NEW p \in Workplaces,
               Connect!Starts(t, f, p)
        PROVE  ConnectTyped'
    <2> DEFINE x == [flow |-> f, place |-> p]
               r == [Connect!AtPage EXCEPT !.at = "away", !.flow = f, !.ticket = Len(tickets')]
    <2>1. /\ Len(tickets) < MaxTickets /\ tickets' = Append(tickets, x)
          /\ cookie' = [cookie EXCEPT ![f] = Len(tickets')] /\ Connect!Goes(t, r)
          /\ UNCHANGED <<durable, handle, sealed, fetched, admin, session>>
      BY <1>3 DEF Connect!Starts, Connect!server
    <2>2. x \in Ticket
      BY DEF Ticket
    <2>3. r.ticket = Len(tickets')
      BY DEF Connect!AtPage
    <2> HIDE DEF x, r
    <2>4. Len(tickets') \in Connect!Numbers
      BY <2>1, <2>2, BoundsAssumption DEF ConnectOK, Connect!Numbers
    <2>5. \A u \in Tabs : signin'[u].ticket \in Connect!Numbers
      BY <2>1, <2>3, <2>4, TicketsTyped
    <2>6. cookie' \in [Connect!Flows -> Connect!Numbers]
      BY <2>1, <2>4, CookiesTyped
    <2> QED
      BY <2>1, <2>4, <2>5, <2>6 DEF ConnectTyped
  <1>4. ASSUME NEW t \in Tabs,
               \/ Connect!Deny(t) \/ \E a \in Accounts : Connect!SignIn(t, a)
               \/ Connect!Exchanged(t) \/ Connect!CompleteIntegration(t)
        PROVE  ConnectTyped'
    <2>1. /\ \E r : r.ticket = signin[t].ticket /\ Connect!Goes(t, r)
          /\ UNCHANGED <<durable, tickets, cookie, handle, sealed, fetched, admin, session>>
      <3>1. /\ \/ Connect!Goes(t, [signin[t] EXCEPT !.at = "back"])
               \/ \E a : Connect!Goes(t, [signin[t] EXCEPT !.at = "back", !.account = a])
               \/ Connect!Goes(t, [signin[t] EXCEPT !.at = "token"])
               \/ Connect!Goes(t, [signin[t] EXCEPT !.at = "stored"])
            /\ UNCHANGED <<durable, tickets, cookie, handle, sealed, fetched, admin, session>>
        BY <1>4 DEF Connect!Deny, Connect!SignIn, Connect!Exchanged, Connect!CompleteIntegration,
           Connect!browser, Connect!server
      <3>2. /\ \A stop : [signin[t] EXCEPT !.at = stop].ticket = signin[t].ticket
            /\ \A a : [signin[t] EXCEPT !.at = "back", !.account = a].ticket = signin[t].ticket
        BY <1>a DEF Login
      <3> QED
        BY <3>1, <3>2
    <2> QED
      BY <1>a, <2>1, TicketsTyped DEF ConnectTyped
  <1>5. ASSUME NEW t \in Tabs, Connect!Callback(t) \/ Connect!Fail(t)
        PROVE  ConnectTyped'
    <2>1. /\ cookie' = cookie \/ cookie' = [cookie EXCEPT ![signin[t].flow] = 0]
          /\ \/ Connect!Goes(t, Connect!AtPage)
             \/ \E p : Connect!Goes(t, [signin[t] EXCEPT !.at = "code", !.place = p])
          /\ UNCHANGED <<durable, tickets, handle, sealed, fetched, admin, session>>
      BY <1>5 DEF Connect!Callback, Connect!Fail, Connect!Failed, Connect!server
    <2>2. \A p : [signin[t] EXCEPT !.at = "code", !.place = p].ticket = signin[t].ticket
      BY <1>a DEF Login
    <2>3. \A u \in Tabs : signin'[u].ticket \in Connect!Numbers
      BY <1>a, <2>1, <2>2, NoneTyped, TicketsTyped
    <2>4. cookie' \in [Connect!Flows -> Connect!Numbers]
      BY <1>a, <2>1, NoneTyped, CookiesTyped DEF ConnectTyped
    <2> QED
      BY <2>1, <2>3, <2>4 DEF ConnectTyped
  <1>6. ASSUME NEW t \in Tabs, Connect!CreateSession(t)
        PROVE  ConnectTyped'
    <2> DEFINE s == [id |-> signin[t].ticket, account |-> signin[t].account]
               r == [signin[t] EXCEPT !.at = "ready"]
    <2>1. /\ session' = [session EXCEPT ![signin[t].place] = s] /\ Connect!Goes(t, r)
          /\ UNCHANGED <<durable, tickets, cookie, handle, sealed, fetched, admin>>
      BY <1>6 DEF Connect!CreateSession, Connect!browser
    <2>2. s.id = signin[t].ticket /\ r.ticket = signin[t].ticket
      BY <1>a DEF Login
    <2> HIDE DEF s, r
    <2>3. \A p \in Workplaces : session'[p].id \in Connect!Numbers
      BY <1>a, <2>1, <2>2 DEF ConnectOK, ConnectTyped
    <2> QED
      BY <1>a, <2>1, <2>2, <2>3, TicketsTyped DEF ConnectTyped
  <1>7. ASSUME NEW t \in Tabs,
               Connect!FleetAnswer(t) \/ Connect!CalendarAnswer(t) \/ Connect!GuestAnswer(t)
        PROVE  ConnectTyped'
    <2>1. PICK f \in Connect!Flows :
            /\ cookie' = [cookie EXCEPT ![f] = 0]
            /\ Connect!Goes(t, Connect!AtPage) \/ \E p : Connect!Goes(t, Connect!Landed(f, p))
            /\ \/ handle' = handle
               \/ \E n \in {0, signin[t].ticket} :
                    handle' = [id |-> n, account |-> signin[t].account]
            /\ sealed' \in {sealed, signin[t].account}
            /\ UNCHANGED <<durable, tickets, fetched, admin, session>>
      BY <1>7 DEF Connect!FleetAnswer, Connect!CalendarAnswer, Connect!GuestAnswer,
         Connect!Answers, Connect!server, Connect!Flows
    <2>2. \A u \in Tabs : signin'[u].ticket \in Connect!Numbers
      BY <2>1, NoneTyped, TicketsTyped
    <2>3. cookie' \in [Connect!Flows -> Connect!Numbers]
      BY <2>1, NoneTyped, CookiesTyped
    <2>4. handle' \in [id : Connect!Numbers, account : Connect!Who] /\ sealed' \in Connect!Who
      BY <1>a, <2>1, NoneTyped DEF ConnectTyped
    <2> QED
      BY <2>1, <2>2, <2>3, <2>4 DEF ConnectTyped
  <1>8. ASSUME NEW t \in Tabs, NEW found \in BOOLEAN, NEW told \in BOOLEAN,
               Connect!OwnerLands(t, found, told) \/ Connect!GuestLands(t, found, told)
        PROVE  ConnectTyped'
    <2>1. /\ Connect!Goes(t, Connect!AtPage)
          /\ \/ UNCHANGED fetched
             \/ \E f, p : \E a \in {Connect!NoOne, handle.account, sealed} : Connect!Keeps(f, p, a)
          /\ handle' \in {handle, Connect!NoHandle}
          /\ UNCHANGED <<durable, tickets, cookie, sealed, admin, session>>
      BY <1>8 DEF Connect!OwnerLands, Connect!GuestLands, Connect!Read, Connect!server
    <2>2. \A u \in Tabs : signin'[u].ticket \in Connect!Numbers
      BY <2>1, NoneTyped, TicketsTyped
    <2>3. {Connect!NoOne, handle.account, sealed} \subseteq Connect!Who
      BY NoneTyped DEF ConnectTyped
    <2>4. fetched' \in KeptLogins
      BY <2>1, <2>3, KeepsTyped DEF ConnectTyped
    <2> QED
      BY <2>1, <2>2, <2>4, NoneTyped DEF ConnectTyped
  <1>9. ASSUME NEW t \in Tabs, NEW p \in Workplaces, NEW told \in BOOLEAN,
               \/ \E reached \in BOOLEAN : Connect!OwnerLeaves(t, p, reached, told)
               \/ Connect!GuestLeaves(t, p, told)
        PROVE  ConnectTyped'
    <2>1. /\ \E f : Connect!Keeps(f, p, Connect!NoOne)
          /\ handle' \in {handle, Connect!NoHandle} /\ sealed' \in {sealed, Connect!NoOne}
          /\ \/ session' = session
             \/ \E reached : session' = [q \in Workplaces |-> IF reached /\ session[q] = handle
                                             THEN Connect!NoHandle ELSE session[q]]
          /\ UNCHANGED <<durable, tickets, cookie, admin, signin>>
      BY <1>9 DEF Connect!OwnerLeaves, Connect!GuestLeaves, Connect!server
    <2>2. fetched' \in KeptLogins
      BY <2>1, NoneTyped, KeepsTyped
    <2>3. \A q \in Workplaces : session'[q].id \in Connect!Numbers
      BY <2>1, NoneTyped DEF ConnectTyped
    <2> QED
      BY <2>1, <2>2, <2>3, NoneTyped DEF ConnectTyped
  <1>10. \A t \in Tabs, p \in Workplaces :
           Connect!FleetLogin(t, p) \/ Connect!CalendarLogin(t, p) \/ Connect!GuestLogin(t, p)
             => \E f \in Connect!Flows : Connect!Starts(t, f, p)
    BY DEF Connect!FleetLogin, Connect!CalendarLogin, Connect!GuestLogin, Connect!Flows
  <1> QED
    BY <1>1, <1>2, <1>3, <1>4, <1>5, <1>6, <1>7, <1>8, <1>9, <1>10
    DEF Connect!Next, Connect!TeslaExchange, Connect!GoogleExchange

LEMMA ConnectTypedInvariant == PartSpec => [](Runs("connect") => ConnectTyped)
  <1> DEFINE Inv == Runs("connect") => ConnectTyped
  <1>1. PartInit => Inv
    <2> SUFFICES ASSUME Connect!Init PROVE ConnectTyped
      BY DEF PartInit
    <2> QED
      BY NoneTyped DEF Connect!Init, ConnectTyped, KeptLogins
  <1>2. Inv /\ (Runs("connect") => ConnectOK) /\ [PartNext]_allVars => Inv'
    <2> SUFFICES ASSUME ConnectTyped, ConnectOK, Connect!Next \/ UNCHANGED connectVars
                 PROVE  ConnectTyped'
      BY OwnerPartStays, ConnectStep DEF Runs
    <2>1. CASE UNCHANGED connectVars
      BY <2>1 DEF ConnectTyped, connectVars
    <2> QED
      BY <2>1, ConnectTypedNext
  <1> QED
    BY <1>1, <1>2, ConnectInvariant, PTL DEF PartSpec

LEMMA ConnectTypes ==
  ASSUME ConnectOK, ConnectTyped
  PROVE  Connect!TypeOK
  <1>1. Len(tickets) <= MaxTickets
    BY BoundsAssumption DEF ConnectTyped, Connect!Numbers
  <1>2. session \in [Workplaces -> [id : Connect!Numbers, account : Connect!Who]]
    BY DEF ConnectOK, ConnectTyped
  <1>3. signin \in [Tabs -> [at : Phases, flow : Connect!Flows, ticket : Connect!Numbers,
                             account : Connect!Who, place : Workplaces \cup {0}]]
    BY DEF ConnectOK, ConnectTyped, Login
  <1> QED
    BY <1>1, <1>2, <1>3 DEF ConnectOK, ConnectTyped, KeptLogins, Phases, Ends2, Connect!TypeOK

-----------------------------------------------------------------------------
InboundRow == [state : {"absent", "authorized", "storing", "queued", "processing", "classified"},
               leased : BOOLEAN, of : Deliveries \cup {Nobody}]
MailerRow == [at : {"idle", "claimed", "selected", "fetched", "stored", "deleting"},
              job : {"none", "parse", "backfill", "purge", "sweep"},
              copy : Deliveries \cup {Nobody}, keys : SUBSET Mail!ObjectKeys,
              purged : 0 .. MaxPurges]
OutboxRow == [state : {"absent", "pending", "claimed", "failed", "completed", "dead"},
              tries : Nat, leased : BOOLEAN]
PurgeRow == [keys : SUBSET Mail!ObjectKeys, job : OutboxRow]

MailRowsTyped ==
  /\ inbound \in InboundRow
  /\ delivery \in [Deliveries -> {"waiting", "authorized", "initialized", "put", "accepted",
                                  "rejected"}]
  /\ envelope \in Deliveries \cup {Nobody} /\ files \in BOOLEAN
  /\ index \in BOOLEAN /\ body \in {"none", "kept", "scrubbed"}
  /\ mailFaults \in 0 .. MaxMailFaults

MailersTyped == mailer \in [Mailers -> MailerRow]

\* A job that waits has tries left; one that was claimed has had at most one more than
\* that for each fault, and if it has had them all a worker is on it.
JobFits(job, faults) ==
  /\ job \in OutboxRow /\ job.tries <= MaxTries + faults
  /\ job.state \in {"absent", "pending", "failed"} => job.tries < MaxTries
  /\ job.state = "claimed" /\ ~job.leased => job.tries < MaxTries + faults
Spent(job, faults) == job.state = "claimed" /\ job.tries = MaxTries + faults

Parses(r) == r.job = "parse"
PurgesAt(r, n) == r.job = "purge" /\ r.purged = n

ParseJobOK ==
  /\ JobFits(parseJob, mailFaults)
  /\ Spent(parseJob, mailFaults) => \E m \in Mailers : Parses(mailer[m])
PurgeJobsOK ==
  /\ purges \in Seq(PurgeRow) /\ Len(purges) <= MaxPurges
  /\ \A n \in DOMAIN purges :
       /\ JobFits(purges[n].job, mailFaults)
       /\ Spent(purges[n].job, mailFaults) => \E m \in Mailers : PurgesAt(mailer[m], n)

LEMMA FaultOrNot == Mail!Next => Mail!Fault \/ mailFaults' = mailFaults
  BY DEF Mail!Next, Mail!Captures, Mail!Authorize, Mail!Initialize, Mail!PutEnvelope,
     Mail!Finalize, Mail!CaptureFails, Mail!Reads, Mail!ClaimParse, Mail!SelectRow,
     Mail!ClaimBackfill, Mail!Fetch, Mail!StoreFiles, Mail!Commit, Mail!ReadFails,
     Mail!Deletes, Mail!DeleteInline, Mail!ClaimPurge, Mail!RunPurge, Mail!SweepRetention,
     Mail!ManagerPurge, Mail!Purge, Mail!CrashMailer, Mail!Leases, Mail!LapseParse,
     Mail!LapseBackfill, Mail!LapsePurge, Mail!Lapses, Mail!NoFault

LEMMA MailRowsNext ==
  ASSUME MailRowsTyped, Mail!Next
  PROVE  MailRowsTyped'
  <1>1. mailFaults' \in 0 .. MaxMailFaults
    BY FaultOrNot, BoundsAssumption DEF MailRowsTyped, Mail!Fault
  <1>2. ASSUME NEW d \in Deliveries, Mail!Captures(d)
        PROVE  MailRowsTyped'
    <2>1. /\ \/ inbound' = inbound
             \/ \E s \in {"authorized", "storing"} : inbound' = [inbound EXCEPT !.state = s]
             \/ inbound' = [inbound EXCEPT !.state = "queued", !.of = d]
          /\ \E to \in {"authorized", "initialized", "put", "accepted", "rejected"} :
               delivery' = [delivery EXCEPT ![d] = to]
          /\ envelope' \in {envelope, d} /\ UNCHANGED <<files, index, body>>
      BY <1>2 DEF Mail!Captures, Mail!Authorize, Mail!Initialize, Mail!PutEnvelope,
         Mail!Finalize, Mail!CaptureFails, Mail!Phase, Mail!objects, Mail!text
    <2>2. inbound' \in InboundRow
      BY <2>1 DEF MailRowsTyped, InboundRow
    <2>3. delivery' \in [Deliveries -> {"waiting", "authorized", "initialized", "put",
                                        "accepted", "rejected"}]
      BY <2>1 DEF MailRowsTyped
    <2> QED
      BY <1>1, <2>1, <2>2, <2>3 DEF MailRowsTyped
  <1>3. ASSUME /\ inbound' \in {inbound, [inbound EXCEPT !.leased = FALSE],
                               [inbound EXCEPT !.leased = TRUE],
                               [inbound EXCEPT !.state = "processing", !.leased = TRUE],
                               [inbound EXCEPT !.state = "classified", !.leased = FALSE],
                               [inbound EXCEPT !.of = Nobody]}
               /\ envelope' \in {envelope, Nobody} /\ files' \in BOOLEAN /\ index' \in BOOLEAN
               /\ body' \in {body, "kept", "scrubbed"} /\ UNCHANGED delivery
        PROVE  MailRowsTyped'
    <2>1. inbound' \in InboundRow
      BY <1>3 DEF MailRowsTyped, InboundRow
    <2> QED
      BY <1>1, <1>3, <2>1 DEF MailRowsTyped
  <1>4. CASE Mail!Leases
    BY <1>3, <1>4 DEF Mail!Leases, Mail!LapseParse, Mail!LapseBackfill, Mail!LapsePurge,
       Mail!objects, Mail!text, MailRowsTyped
  <1>5. ASSUME NEW m \in Mailers, Mail!Reads(m)
        PROVE  MailRowsTyped'
    BY <1>3, <1>5 DEF Mail!Reads, Mail!ClaimParse, Mail!SelectRow,
       Mail!ClaimBackfill, Mail!Fetch, Mail!StoreFiles, Mail!Commit, Mail!ReadFails,
       Mail!objects, Mail!text, MailRowsTyped
  <1>6. CASE Mail!Purge /\ UNCHANGED <<delivery, Mail!objects>>
    BY <1>3, <1>6 DEF Mail!Purge, Mail!Unkeyed, Mail!objects, MailRowsTyped
  <1>7. ASSUME NEW m \in Mailers, Mail!Deletes(m) \/ Mail!CrashMailer(m)
        PROVE  MailRowsTyped'
    BY <1>3, <1>7 DEF Mail!Deletes, Mail!DeleteInline, Mail!ClaimPurge, Mail!RunPurge,
       Mail!Deleted, Mail!CrashMailer, Mail!objects, Mail!text, MailRowsTyped
  <1> QED
    BY <1>2, <1>4, <1>5, <1>6, <1>7 DEF Mail!Next, Mail!SweepRetention, Mail!ManagerPurge,
       Mail!Purge

LEMMA MailersNext ==
  ASSUME MailRowsTyped, MailersTyped, ParseJobOK, PurgeJobsOK, Mail!Next
  PROVE  MailersTyped'
  <1>1. Mail!Off \in MailerRow /\ Len(purges) \in 0 .. MaxPurges
    BY BoundsAssumption DEF Mail!Off, MailerRow, PurgeJobsOK
  <1>2. ASSUME NEW m \in Mailers, NEW r \in MailerRow, Mail!Now(m, r)
        PROVE  MailersTyped'
    BY <1>2 DEF MailersTyped, Mail!Now
  <1>3. CASE UNCHANGED mailer
    BY <1>3 DEF MailersTyped
  <1>4. ASSUME NEW m \in Mailers, Mail!Reads(m)
        PROVE  MailersTyped'
    <2> DEFINE q == mailer[m]
               off == Mail!Off
    <2>1. /\ [off EXCEPT !.at = "claimed", !.job = "parse"] \in MailerRow
          /\ [off EXCEPT !.at = "selected", !.job = "backfill", !.copy = inbound.of,
                         !.purged = Len(purges)] \in MailerRow
      <3> HIDE DEF off
      <3>1. off \in MailerRow /\ inbound.of \in Deliveries \cup {Nobody}
        BY <1>1 DEF off, MailRowsTyped, InboundRow
      <3> QED
        BY <1>1, <3>1 DEF MailerRow
    <2>2. /\ [q EXCEPT !.at = "selected", !.copy = inbound.of, !.purged = Len(purges)] \in MailerRow
          /\ [q EXCEPT !.at = "fetched"] \in MailerRow /\ [q EXCEPT !.at = "stored"] \in MailerRow
      <3> HIDE DEF q
      <3>1. q \in MailerRow /\ inbound.of \in Deliveries \cup {Nobody}
        BY DEF q, MailersTyped, MailRowsTyped, InboundRow
      <3> QED
        BY <1>1, <3>1 DEF MailerRow
    <2>3. \/ Mail!Now(m, [off EXCEPT !.at = "claimed", !.job = "parse"])
          \/ Mail!Now(m, [off EXCEPT !.at = "selected", !.job = "backfill",
                                     !.copy = inbound.of, !.purged = Len(purges)])
          \/ Mail!Now(m, [q EXCEPT !.at = "selected", !.copy = inbound.of,
                                   !.purged = Len(purges)])
          \/ Mail!Now(m, [q EXCEPT !.at = "fetched"]) \/ Mail!Now(m, [q EXCEPT !.at = "stored"])
          \/ Mail!Now(m, off)
      BY <1>4, Zenon DEF Mail!Reads, Mail!ClaimParse, Mail!SelectRow,
         Mail!ClaimBackfill, Mail!Fetch, Mail!StoreFiles, Mail!Commit, Mail!ReadFails
    <2> HIDE DEF q
    <2> QED
      BY <1>1, <1>2, <2>1, <2>2, <2>3
  <1>5. ASSUME NEW m \in Mailers, Mail!SweepRetention(m) \/ Mail!Deletes(m) \/ Mail!CrashMailer(m)
        PROVE  MailersTyped'
    <2> DEFINE off == Mail!Off
    <2>1. \/ Mail!Now(m, off)
          \/ Mail!Now(m, [off EXCEPT !.at = "deleting", !.job = "sweep", !.keys = Mail!Keys])
          \/ \E n \in DOMAIN purges :
               Mail!Now(m, [off EXCEPT !.at = "deleting", !.job = "purge", !.purged = n,
                                       !.keys = purges[n].keys])
      BY <1>5, Zenon DEF Mail!Deletes, Mail!DeleteInline, Mail!ClaimPurge, Mail!RunPurge,
         Mail!CrashMailer, Mail!SweepRetention
    <2>2. off \in MailerRow
      BY <1>1
    <2>3. Mail!Keys \subseteq Mail!ObjectKeys
      BY DEF Mail!Keys, Mail!ObjectKeys
    <2>4. \A n \in DOMAIN purges : n \in 0 .. MaxPurges /\ purges[n].keys \subseteq Mail!ObjectKeys
      <3> SUFFICES ASSUME NEW n \in DOMAIN purges
                   PROVE  n \in 0 .. MaxPurges /\ purges[n].keys \subseteq Mail!ObjectKeys
        OBVIOUS
      <3>1. n \in 1 .. Len(purges) /\ purges[n] \in PurgeRow
        BY DEF PurgeJobsOK
      <3> QED
        BY <1>1, <3>1, BoundsAssumption DEF PurgeRow
    <2> HIDE DEF off
    <2>5. [off EXCEPT !.at = "deleting", !.job = "sweep", !.keys = Mail!Keys] \in MailerRow
      BY <2>2, <2>3 DEF MailerRow
    <2>6. \A n \in DOMAIN purges :
            [off EXCEPT !.at = "deleting", !.job = "purge", !.purged = n,
                        !.keys = purges[n].keys] \in MailerRow
      BY <2>2, <2>4 DEF MailerRow
    <2> QED
      BY <1>2, <2>1, <2>2, <2>5, <2>6
  <1> QED
    BY <1>3, <1>4, <1>5 DEF Mail!Next, Mail!ManagerPurge, Mail!Leases, Mail!LapseParse,
       Mail!LapseBackfill, Mail!LapsePurge, Mail!Captures, Mail!Authorize, Mail!Initialize,
       Mail!PutEnvelope, Mail!Finalize, Mail!CaptureFails

\* What a step makes of a job.
LEMMA JobsFit ==
  ASSUME NEW f \in Nat, NEW g \in {f, f + 1}, NEW job, JobFits(job, f)
  PROVE  /\ JobFits(job, g) /\ (Spent(job, g) => g = f /\ Spent(job, f))
         /\ JobFits([Mail!NoOutbox EXCEPT !.state = "pending"], g)
         /\ JobFits(Mail!Failed(job), g) /\ JobFits(Mail!Completed(job), g)
         /\ Mail!Due(job) => JobFits(Mail!Claimed(job), g)
         /\ ~Spent(job, g) => JobFits([job EXCEPT !.leased = FALSE], g)
                              /\ ~Spent([job EXCEPT !.leased = FALSE], g)
         /\ [Mail!NoOutbox EXCEPT !.state = "pending"].state # "claimed"
         /\ Mail!Failed(job).state # "claimed" /\ Mail!Completed(job).state # "claimed"
  <1> USE MailAssumption
  <1>1. /\ job \in OutboxRow /\ job.tries \in Nat /\ job.tries <= MaxTries + f
        /\ job.state \in {"absent", "pending", "failed"} => job.tries < MaxTries
        /\ job.state = "claimed" /\ ~job.leased => job.tries < MaxTries + f
    BY DEF JobFits, OutboxRow
  <1>2. JobFits(job, g) /\ (Spent(job, g) => g = f /\ Spent(job, f))
    BY <1>1 DEF JobFits, Spent
  <1>3. /\ JobFits([Mail!NoOutbox EXCEPT !.state = "pending"], g)
        /\ [Mail!NoOutbox EXCEPT !.state = "pending"].state # "claimed"
    <2> DEFINE n == Mail!NoOutbox
               r == [n EXCEPT !.state = "pending"]
    <2>1. n \in OutboxRow /\ n.tries = 0
      BY DEF OutboxRow, Mail!NoOutbox
    <2> HIDE DEF n
    <2>2. r \in OutboxRow /\ r.state = "pending" /\ r.tries = 0
      BY <2>1 DEF OutboxRow
    <2> HIDE DEF r
    <2>3. JobFits(r, g) /\ r.state # "claimed"
      BY <2>2 DEF JobFits
    <2> QED
      BY <2>3 DEF r, n
  <1>4. JobFits(Mail!Failed(job), g) /\ Mail!Failed(job).state # "claimed"
    <2>1. PICK s \in {"dead", "failed"} :
            /\ Mail!Failed(job) = [job EXCEPT !.state = s, !.leased = FALSE]
            /\ s = "failed" => ~(job.tries >= MaxTries)
      BY Zenon DEF Mail!Failed
    <2> DEFINE r == [job EXCEPT !.state = s, !.leased = FALSE]
    <2>2. r \in OutboxRow /\ r.state = s /\ r.tries = job.tries
      BY <1>1 DEF OutboxRow
    <2> HIDE DEF r
    <2>3. JobFits(r, g) /\ r.state # "claimed"
      BY <1>1, <2>1, <2>2 DEF JobFits
    <2> QED
      BY <2>1, <2>3 DEF r
  <1>5. JobFits(Mail!Completed(job), g) /\ Mail!Completed(job).state # "claimed"
    <2> DEFINE r == [job EXCEPT !.state = "completed", !.leased = FALSE]
    <2>1. r \in OutboxRow /\ r.state = "completed" /\ r.tries = job.tries
      BY <1>1 DEF OutboxRow
    <2> HIDE DEF r
    <2>2. JobFits(r, g) /\ r.state # "claimed"
      BY <1>1, <2>1 DEF JobFits
    <2> QED
      BY <2>2 DEF r, Mail!Completed
  <1>6. Mail!Due(job) => JobFits(Mail!Claimed(job), g)
    BY <1>1 DEF JobFits, OutboxRow, Mail!Claimed, Mail!Due
  <1>7. ~Spent(job, g) => JobFits([job EXCEPT !.leased = FALSE], g)
                         /\ ~Spent([job EXCEPT !.leased = FALSE], g)
    <2> DEFINE r == [job EXCEPT !.leased = FALSE]
    <2>1. r \in OutboxRow /\ r.state = job.state /\ r.tries = job.tries
      BY <1>1 DEF OutboxRow
    <2> HIDE DEF r
    <2>2. ~Spent(job, g) => JobFits(r, g) /\ ~Spent(r, g)
      BY <1>1, <2>1 DEF JobFits, Spent
    <2> QED
      BY <2>2 DEF r
  <1> QED
    BY <1>2, <1>3, <1>4, <1>5, <1>6, <1>7

LEMMA FaultsOf ==
  ASSUME MailRowsTyped, Mail!Next
  PROVE  /\ mailFaults \in Nat /\ mailFaults' \in {mailFaults, mailFaults + 1}
         /\ Mail!Fault => mailFaults' # mailFaults
  BY FaultOrNot, BoundsAssumption DEF MailRowsTyped, Mail!Fault

\* Who parses goes on with it, or the job is done with or a fault is counted.
LEMMA ParseJobNext ==
  ASSUME MailOK, MailRowsTyped, MailersTyped, ParseJobOK, Mail!Next
  PROVE  ParseJobOK'
  <1> USE DEF Parses
  <1>1. /\ mailFaults \in Nat /\ mailFaults' \in {mailFaults, mailFaults + 1}
        /\ JobFits(parseJob, mailFaults)
    BY FaultsOf DEF ParseJobOK
  <1> DEFINE pending == [Mail!NoOutbox EXCEPT !.state = "pending"]
             unleased == [parseJob EXCEPT !.leased = FALSE]
  <1>c. /\ JobFits(parseJob, mailFaults')
        /\ Spent(parseJob, mailFaults') => /\ mailFaults' = mailFaults
                                           /\ \E m \in Mailers : Parses(mailer[m])
        /\ JobFits(pending, mailFaults') /\ pending.state # "claimed"
        /\ JobFits(Mail!Failed(parseJob), mailFaults') /\ Mail!Failed(parseJob).state # "claimed"
        /\ JobFits(Mail!Completed(parseJob), mailFaults')
        /\ Mail!Completed(parseJob).state # "claimed"
        /\ Mail!Due(parseJob) => JobFits(Mail!Claimed(parseJob), mailFaults')
        /\ ~Spent(parseJob, mailFaults') =>
             JobFits(unleased, mailFaults') /\ ~Spent(unleased, mailFaults')
    BY <1>1, JobsFit DEF ParseJobOK
  <1> HIDE DEF pending, unleased
  <1>2. CASE /\ parseJob' = parseJob
             /\ \/ mailFaults' # mailFaults \/ parseJob.state # "claimed"
                \/ \A n \in Mailers : Parses(mailer[n]) => Parses(mailer'[n])
    BY <1>2, <1>c DEF ParseJobOK, Spent
  <1>3. CASE parseJob' \in {pending, Mail!Failed(parseJob), Mail!Completed(parseJob)}
    BY <1>3, <1>c DEF ParseJobOK, Spent
  <1>a. ASSUME NEW m \in Mailers, NEW r, Mail!Now(m, r), ~Parses(mailer[m])
        PROVE  \A n \in Mailers : Parses(mailer[n]) => Parses(mailer'[n])
    BY <1>a DEF MailersTyped, Mail!Now
  <1>b. ASSUME NEW m \in Mailers, mailer[m] = Mail!Off
        PROVE  ~Parses(mailer[m])
    BY <1>b DEF Mail!Off
  <1>4. ASSUME NEW d \in Deliveries, Mail!Captures(d)
        PROVE  ParseJobOK'
    BY <1>2, <1>3, <1>4 DEF Mail!Captures, Mail!Authorize, Mail!Initialize, Mail!PutEnvelope,
       Mail!Finalize, Mail!CaptureFails, pending
  <1>5. CASE Mail!Leases
    <2>1. CASE Mail!LapseParse
      <3>1. ~Spent(parseJob, mailFaults')
        BY <1>c, <2>1, FaultsOf
        DEF ParseJobOK, Mail!LapseParse, Mail!Lapses, Mail!Working
      <3>2. parseJob' = unleased
        BY <2>1 DEF Mail!LapseParse, unleased
      <3> QED
        BY <1>c, <3>1, <3>2 DEF ParseJobOK
    <2> QED
      BY <1>2, <1>5, <2>1 DEF Mail!Leases, Mail!LapseBackfill, Mail!LapsePurge
  <1>6. ASSUME NEW m \in Mailers, Mail!Reads(m)
        PROVE  ParseJobOK'
    <2>1. CASE Mail!ClaimParse(m)
      <3>1. parseJob' = Mail!Claimed(parseJob) /\ Mail!Due(parseJob)
            /\ mailer' = [mailer EXCEPT ![m] = [Mail!Off EXCEPT !.at = "claimed", !.job = "parse"]]
        BY <2>1 DEF Mail!ClaimParse, Mail!Now
      <3>2. Parses(mailer'[m])
        BY <3>1 DEF MailersTyped, Mail!Off
      <3> QED
        BY <1>c, <3>1, <3>2 DEF ParseJobOK
    <2>2. CASE Mail!ClaimBackfill(m)
      BY <1>2, <1>a, <1>b, <2>2 DEF Mail!ClaimBackfill
    <2>3. CASE Mail!SelectRow(m) \/ Mail!Fetch(m) \/ Mail!StoreFiles(m)
      <3>1. PICK r : r.job = mailer[m].job /\ mailer' = [mailer EXCEPT ![m] = r]
                     /\ parseJob' = parseJob
        <4>1. /\ \A stop : [mailer[m] EXCEPT !.at = stop].job = mailer[m].job
              /\ \A stop, c, p : [mailer[m] EXCEPT !.at = stop, !.copy = c, !.purged = p].job
                                 = mailer[m].job
          BY DEF MailersTyped, MailerRow
        <4>2. CASE Mail!SelectRow(m)
          <5> DEFINE r == [mailer[m] EXCEPT !.at = "selected", !.copy = inbound.of,
                                            !.purged = Len(purges)]
          <5>1. r.job = mailer[m].job
            BY <4>1
          <5>2. mailer' = [mailer EXCEPT ![m] = r] /\ parseJob' = parseJob
            BY <4>2 DEF Mail!SelectRow, Mail!Now
          <5> HIDE DEF r
          <5> QED
            BY <5>1, <5>2
        <4> QED
          BY <2>3, <4>1, <4>2 DEF Mail!Fetch, Mail!StoreFiles, Mail!Now
      <3>2. \A n \in Mailers : Parses(mailer[n]) => Parses(mailer'[n])
        BY <3>1 DEF MailersTyped
      <3> QED
        BY <1>2, <3>1, <3>2
    <2>4. CASE Mail!Commit(m) \/ Mail!ReadFails(m)
      <3>1. CASE mailer[m].job = "parse"
        BY <1>2, <1>3, <2>4, <3>1 DEF Mail!Commit, Mail!ReadFails
      <3>2. CASE mailer[m].job # "parse"
        BY <1>2, <1>a, <2>4, <3>2 DEF Mail!Commit, Mail!ReadFails
      <3> QED
        BY <3>1, <3>2
    <2> QED
      BY <1>6, <2>1, <2>2, <2>3, <2>4 DEF Mail!Reads
  <1>7. ASSUME NEW m \in Mailers, Mail!SweepRetention(m) \/ Mail!Deletes(m) \/ Mail!CrashMailer(m)
        PROVE  ParseJobOK'
    <2>1. /\ parseJob' = parseJob /\ \E r : Mail!Now(m, r)
          /\ mailer[m] = Mail!Off \/ mailer[m].job \in {"sweep", "purge"} \/ Mail!Fault
      BY <1>7 DEF Mail!Deletes, Mail!DeleteInline, Mail!ClaimPurge, Mail!RunPurge,
         Mail!CrashMailer, Mail!SweepRetention, Mail!Purge
    <2> QED
      BY <1>2, <1>a, <1>b, <2>1, FaultsOf
  <1> QED
    BY <1>2, <1>4, <1>5, <1>6, <1>7 DEF Mail!Next, Mail!ManagerPurge, Mail!Purge

\* The jobs of the other purges are as they were, and so are who works on them.
LEMMA OnePurgeJob ==
  ASSUME PurgeJobsOK, MailRowsTyped, Mail!Next, NEW k \in DOMAIN purges, NEW job,
         JobFits(job, mailFaults'), purges' = [purges EXCEPT ![k].job = job],
         Spent(job, mailFaults') => \E m \in Mailers : PurgesAt(mailer'[m], k),
         mailFaults' # mailFaults
           \/ \A n \in DOMAIN purges \ {k}, m \in Mailers :
                PurgesAt(mailer[m], n) => PurgesAt(mailer'[m], n)
  PROVE  PurgeJobsOK'
  <1>1. mailFaults \in Nat /\ mailFaults' \in {mailFaults, mailFaults + 1}
    BY FaultsOf
  <1>2. \A n \in DOMAIN purges : purges[n] \in PurgeRow
    BY DEF PurgeJobsOK
  <1> DEFINE new == [purges[k] EXCEPT !.job = job]
  <1>3. job \in OutboxRow /\ new \in PurgeRow /\ new.job = job
    BY <1>2 DEF JobFits, PurgeRow
  <1>4. purges' = [purges EXCEPT ![k] = new]
    OBVIOUS
  <1> HIDE DEF new
  <1>5. purges' \in Seq(PurgeRow) /\ Len(purges') = Len(purges) /\ DOMAIN purges' = DOMAIN purges
        /\ \A n \in DOMAIN purges : purges'[n] = IF n = k THEN new ELSE purges[n]
    BY <1>3, <1>4 DEF PurgeJobsOK
  <1>6. ASSUME NEW n \in DOMAIN purges, n # k
        PROVE  /\ JobFits(purges[n].job, mailFaults')
               /\ Spent(purges[n].job, mailFaults') => \E m \in Mailers : PurgesAt(mailer'[m], n)
    <2>1. /\ JobFits(purges[n].job, mailFaults)
          /\ Spent(purges[n].job, mailFaults) => \E m \in Mailers : PurgesAt(mailer[m], n)
      BY DEF PurgeJobsOK
    <2>2. /\ JobFits(purges[n].job, mailFaults')
          /\ Spent(purges[n].job, mailFaults') => /\ mailFaults' = mailFaults
                                                 /\ Spent(purges[n].job, mailFaults)
      BY <1>1, <2>1, JobsFit
    <2> QED
      BY <1>6, <2>1, <2>2
  <1>7. Len(purges') <= MaxPurges
    BY <1>5 DEF PurgeJobsOK
  <1>8. ASSUME NEW n \in DOMAIN purges
        PROVE  /\ JobFits(purges'[n].job, mailFaults')
               /\ Spent(purges'[n].job, mailFaults') => \E m \in Mailers : PurgesAt(mailer'[m], n)
    <2>1. CASE n = k
      BY <1>3, <1>5, <2>1
    <2>2. CASE n # k
      BY <1>5, <1>6, <2>2
    <2> QED
      BY <2>1, <2>2
  <1> QED
    BY <1>5, <1>7, <1>8 DEF PurgeJobsOK

LEMMA SamePurgeJobs ==
  ASSUME PurgeJobsOK, MailRowsTyped, Mail!Next, UNCHANGED purges,
         mailFaults' # mailFaults
           \/ \A n \in DOMAIN purges, m \in Mailers :
                PurgesAt(mailer[m], n) => PurgesAt(mailer'[m], n)
  PROVE  PurgeJobsOK'
  <1>1. mailFaults \in Nat /\ mailFaults' \in {mailFaults, mailFaults + 1}
    BY FaultsOf
  <1>2. ASSUME NEW n \in DOMAIN purges
        PROVE  /\ JobFits(purges[n].job, mailFaults')
               /\ Spent(purges[n].job, mailFaults') => \E m \in Mailers : PurgesAt(mailer'[m], n)
    <2>1. /\ JobFits(purges[n].job, mailFaults)
          /\ Spent(purges[n].job, mailFaults) => \E m \in Mailers : PurgesAt(mailer[m], n)
      BY DEF PurgeJobsOK
    <2>2. /\ JobFits(purges[n].job, mailFaults')
          /\ Spent(purges[n].job, mailFaults') => /\ mailFaults' = mailFaults
                                                 /\ Spent(purges[n].job, mailFaults)
      BY <1>1, <2>1, JobsFit
    <2> QED
      BY <2>1, <2>2
  <1> QED
    BY <1>2 DEF PurgeJobsOK

\* One more purge, by nobody who works on another.
LEMMA NewPurgeJob ==
  ASSUME PurgeJobsOK, MailRowsTyped, Mail!Next, Mail!Purge,
         \A n \in DOMAIN purges, m \in Mailers :
           PurgesAt(mailer[m], n) => PurgesAt(mailer'[m], n)
  PROVE  PurgeJobsOK'
  <1> DEFINE pending == [Mail!NoOutbox EXCEPT !.state = "pending"]
             new == [keys |-> Mail!Keys, job |-> pending]
  <1>1. mailFaults \in Nat /\ mailFaults' \in {mailFaults, mailFaults + 1}
    BY FaultsOf
  <1>2. JobFits(pending, mailFaults') /\ pending.state # "claimed"
    <2>1. JobFits(pending, 0) /\ pending.state # "claimed"
      <3> DEFINE job == Mail!NoOutbox
      <3>1. JobFits(job, 0)
        BY MailAssumption DEF JobFits, OutboxRow, Mail!NoOutbox
      <3> HIDE DEF job
      <3> QED
        BY <3>1, JobsFit DEF job
    <2> HIDE DEF pending
    <2> QED
      BY <1>1, <2>1, MailAssumption DEF JobFits, OutboxRow
  <1>3. pending \in OutboxRow
    BY <1>2 DEF JobFits
  <1> HIDE DEF pending
  <1>4. Mail!Keys \subseteq Mail!ObjectKeys
    BY DEF Mail!Keys, Mail!ObjectKeys
  <1>5. new \in PurgeRow /\ new.job = pending
    BY <1>3, <1>4 DEF PurgeRow
  <1>6. purges' = Append(purges, new) /\ Len(purges) < MaxPurges
    BY DEF Mail!Purge, pending
  <1> HIDE DEF new
  <1>7. /\ purges' \in Seq(PurgeRow) /\ Len(purges') <= MaxPurges
        /\ \A n \in DOMAIN purges' :
             (n \in DOMAIN purges /\ purges'[n] = purges[n]) \/ purges'[n] = new
    BY <1>5, <1>6, BoundsAssumption DEF PurgeJobsOK
  <1>8. ASSUME NEW n \in DOMAIN purges
        PROVE  /\ JobFits(purges[n].job, mailFaults')
               /\ Spent(purges[n].job, mailFaults') => \E m \in Mailers : PurgesAt(mailer'[m], n)
    <2>1. /\ JobFits(purges[n].job, mailFaults)
          /\ Spent(purges[n].job, mailFaults) => \E m \in Mailers : PurgesAt(mailer[m], n)
      BY DEF PurgeJobsOK
    <2>2. /\ JobFits(purges[n].job, mailFaults')
          /\ Spent(purges[n].job, mailFaults') => Spent(purges[n].job, mailFaults)
      BY <1>1, <2>1, JobsFit
    <2> QED
      BY <2>1, <2>2
  <1>9. ASSUME NEW n \in DOMAIN purges'
        PROVE  /\ JobFits(purges'[n].job, mailFaults')
               /\ Spent(purges'[n].job, mailFaults') => \E m \in Mailers : PurgesAt(mailer'[m], n)
    <2>1. CASE n \in DOMAIN purges /\ purges'[n] = purges[n]
      BY <1>8, <2>1
    <2>2. CASE purges'[n] = new
      BY <1>2, <1>5, <2>2 DEF Spent
    <2> QED
      BY <1>7, <2>1, <2>2
  <1> QED
    BY <1>7, <1>9 DEF PurgeJobsOK

LEMMA PurgeJobsNext ==
  ASSUME MailOK, MailRowsTyped, MailersTyped, PurgeJobsOK, Mail!Next
  PROVE  PurgeJobsOK'
  <1>1. ASSUME NEW k \in DOMAIN purges
        PROVE  LET job == purges[k].job
                   unleased == [job EXCEPT !.leased = FALSE]
               IN  /\ JobFits(job, mailFaults')
                   /\ Spent(job, mailFaults') => /\ mailFaults' = mailFaults
                                                 /\ \E m \in Mailers : PurgesAt(mailer[m], k)
                   /\ JobFits(Mail!Failed(job), mailFaults') /\ Mail!Failed(job).state # "claimed"
                   /\ JobFits(Mail!Completed(job), mailFaults')
                   /\ Mail!Completed(job).state # "claimed"
                   /\ Mail!Due(job) => JobFits(Mail!Claimed(job), mailFaults')
                   /\ ~Spent(job, mailFaults') =>
                        JobFits(unleased, mailFaults') /\ ~Spent(unleased, mailFaults')
    <2> DEFINE job == purges[k].job
    <2>1. /\ mailFaults \in Nat /\ mailFaults' \in {mailFaults, mailFaults + 1}
          /\ JobFits(job, mailFaults)
          /\ Spent(job, mailFaults) => \E m \in Mailers : PurgesAt(mailer[m], k)
      BY FaultsOf DEF PurgeJobsOK
    <2> HIDE DEF job
    <2> QED
      BY <2>1, JobsFit DEF job
  <1>a. ASSUME NEW m \in Mailers, NEW r, Mail!Now(m, r), NEW n,
               ~PurgesAt(mailer[m], n) \/ PurgesAt(r, n)
        PROVE  \A u \in Mailers : PurgesAt(mailer[u], n) => PurgesAt(mailer'[u], n)
    BY <1>a DEF MailersTyped, Mail!Now
  <1>b. ASSUME NEW m \in Mailers, mailer[m] = Mail!Off \/ mailer[m].job # "purge"
        PROVE  \A n : ~PurgesAt(mailer[m], n)
    BY <1>b DEF Mail!Off, PurgesAt
  <1>2. CASE UNCHANGED <<purges, mailer>>
    BY <1>2, SamePurgeJobs
  <1>3. ASSUME NEW m \in Mailers, NEW r, Mail!Now(m, r), UNCHANGED purges,
               mailer[m] = Mail!Off \/ mailer[m].job # "purge" \/ Mail!Fault
        PROVE  PurgeJobsOK'
    BY <1>3, <1>a, <1>b, SamePurgeJobs, FaultsOf
  <1>4. CASE Mail!LapsePurge
    <2>1. PICK k \in DOMAIN purges : purges' = [purges EXCEPT ![k].job.leased = FALSE]
      BY <1>4 DEF Mail!LapsePurge
    <2> DEFINE job == purges[k].job
               unleased == [job EXCEPT !.leased = FALSE]
    <2>2. purges' = [purges EXCEPT ![k].job = unleased] /\ UNCHANGED mailer
      BY <1>4, <2>1 DEF Mail!LapsePurge
    <2>3. ~Spent(job, mailFaults')
      <3>1. mailFaults' # mailFaults \/ \A m \in Mailers : mailer[m].job # "purge"
        BY <1>4, FaultsOf DEF Mail!LapsePurge, Mail!Lapses, Mail!Working
      <3> QED
        BY <1>1, <3>1 DEF PurgesAt
    <2>4. JobFits(unleased, mailFaults') /\ ~Spent(unleased, mailFaults')
      BY <1>1, <2>3
    <2> HIDE DEF unleased, job
    <2> QED
      BY <2>2, <2>4, OnePurgeJob
  <1>5. ASSUME NEW m \in Mailers, Mail!ClaimPurge(m)
        PROVE  PurgeJobsOK'
    <2>1. PICK k \in DOMAIN purges :
            /\ Mail!Due(purges[k].job)
            /\ purges' = [purges EXCEPT ![k].job = Mail!Claimed(purges[k].job)]
            /\ Mail!Now(m, [Mail!Off EXCEPT !.at = "deleting", !.job = "purge", !.purged = k,
                                            !.keys = purges[k].keys])
      BY <1>5 DEF Mail!ClaimPurge
    <2> DEFINE r == [Mail!Off EXCEPT !.at = "deleting", !.job = "purge", !.purged = k,
                                     !.keys = purges[k].keys]
               job == Mail!Claimed(purges[k].job)
    <2>2. PurgesAt(r, k) /\ mailer[m] = Mail!Off
      BY <1>5 DEF Mail!ClaimPurge, Mail!Off, PurgesAt
    <2>3. Mail!Now(m, r) /\ purges' = [purges EXCEPT ![k].job = job]
      BY <2>1
    <2>4. JobFits(job, mailFaults')
      BY <1>1, <2>1
    <2> HIDE DEF r, job
    <2>5. PurgesAt(mailer'[m], k)
      BY <2>2, <2>3 DEF MailersTyped, Mail!Now
    <2>6. \A n : \A u \in Mailers : PurgesAt(mailer[u], n) => PurgesAt(mailer'[u], n)
      BY <1>a, <1>b, <2>2, <2>3
    <2> QED
      BY <2>3, <2>4, <2>5, <2>6, OnePurgeJob
  <1>6. ASSUME NEW m \in Mailers, Mail!RunPurge(m)
        PROVE  PurgeJobsOK'
    <2> DEFINE k == mailer[m].purged
    <2>1. /\ Mail!Now(m, Mail!Off) /\ mailer[m].job = "purge"
          /\ \/ purges' = [purges EXCEPT ![k].job = Mail!Completed(purges[k].job)]
             \/ purges' = [purges EXCEPT ![k].job = Mail!Failed(purges[k].job)]
      BY <1>6 DEF Mail!RunPurge
    <2>2. \A n : n # k => \A u \in Mailers : PurgesAt(mailer[u], n) => PurgesAt(mailer'[u], n)
      <3>1. \A n : n # k => ~PurgesAt(mailer[m], n)
        BY DEF PurgesAt
      <3> QED
        BY <1>a, <2>1, <3>1
    <2> HIDE DEF k
    <2>3. CASE k \in DOMAIN purges
      <3>1. PICK job : /\ job = Mail!Completed(purges[k].job) \/ job = Mail!Failed(purges[k].job)
                       /\ purges' = [purges EXCEPT ![k].job = job]
        BY <2>1
      <3>2. JobFits(job, mailFaults') /\ ~Spent(job, mailFaults')
        BY <1>1, <2>3, <3>1 DEF Spent
      <3> QED
        BY <2>2, <2>3, <3>1, <3>2, OnePurgeJob
    <2>4. CASE k \notin DOMAIN purges
      <3>1. UNCHANGED purges
        BY <2>1, <2>4 DEF PurgeJobsOK
      <3> QED
        BY <2>2, <2>4, <3>1, SamePurgeJobs
    <2> QED
      BY <2>3, <2>4
  <1>7. ASSUME NEW m \in Mailers, Mail!Reads(m)
        PROVE  PurgeJobsOK'
    <2>1. UNCHANGED purges
          /\ \E r : /\ Mail!Now(m, r)
                    /\ mailer[m] = Mail!Off \/ mailer[m].job # "purge"
                         \/ mailer[m].at \in {"selected", "fetched", "stored"}
      BY <1>7 DEF Mail!Reads, Mail!ClaimParse, Mail!SelectRow, Mail!ClaimBackfill, Mail!Fetch,
         Mail!StoreFiles, Mail!Commit, Mail!ReadFails
    <2> QED
      BY <1>3, <2>1 DEF MailOK
  <1>8. ASSUME NEW m \in Mailers, Mail!DeleteInline(m) \/ Mail!CrashMailer(m)
        PROVE  PurgeJobsOK'
    BY <1>3, <1>8 DEF Mail!DeleteInline, Mail!CrashMailer
  <1>9. ASSUME NEW m \in Mailers, Mail!SweepRetention(m)
        PROVE  PurgeJobsOK'
    <2>1. Mail!Purge /\ mailer[m] = Mail!Off /\ \E r : Mail!Now(m, r)
      BY <1>9 DEF Mail!SweepRetention
    <2> QED
      BY <1>a, <1>b, <2>1, NewPurgeJob
  <1>10. CASE Mail!ManagerPurge
    BY <1>10, NewPurgeJob DEF Mail!ManagerPurge
  <1>11. ASSUME NEW d \in Deliveries, Mail!Captures(d)
         PROVE  PurgeJobsOK'
    BY <1>2, <1>11 DEF Mail!Captures, Mail!Authorize, Mail!Initialize, Mail!PutEnvelope,
       Mail!Finalize, Mail!CaptureFails
  <1> QED
    BY <1>2, <1>4, <1>5, <1>6, <1>7, <1>8, <1>9, <1>10, <1>11
    DEF Mail!Next, Mail!Leases, Mail!LapseParse, Mail!LapseBackfill, Mail!Deletes

MailTyped == MailRowsTyped /\ MailersTyped /\ ParseJobOK /\ PurgeJobsOK

\* A job is tried at most once more than it may for every lease that lapsed, every call
\* that failed and every worker that died.
LEMMA MailTypedInvariant == PartSpec => [](Runs("mail") => MailTyped)
  <1> DEFINE Inv == Runs("mail") => MailTyped
  <1>1. PartInit => Inv
    <2> SUFFICES ASSUME Mail!Init PROVE MailTyped
      BY DEF PartInit
    <2>1. MailRowsTyped
      <3>1. inbound \in InboundRow /\ 0 \in 0 .. MaxMailFaults
        BY BoundsAssumption DEF Mail!Init, InboundRow
      <3> QED
        BY <3>1 DEF Mail!Init, MailRowsTyped
    <2>2. MailersTyped
      BY BoundsAssumption DEF Mail!Init, MailersTyped, Mail!Off, MailerRow
    <2>3. ParseJobOK
      BY MailAssumption DEF Mail!Init, ParseJobOK, JobFits, Spent, OutboxRow, Mail!NoOutbox
    <2>4. PurgeJobsOK
      BY BoundsAssumption DEF Mail!Init, PurgeJobsOK
    <2> QED
      BY <2>1, <2>2, <2>3, <2>4 DEF MailTyped
  <1>2. Inv /\ (Runs("mail") => MailOK) /\ [PartNext]_allVars => Inv'
    <2> SUFFICES ASSUME MailTyped, MailOK, Mail!Next \/ UNCHANGED mailVars
                 PROVE  MailTyped'
      BY OwnerPartStays, MailStep DEF Runs
    <2>1. CASE UNCHANGED mailVars
      BY <2>1 DEF MailTyped, MailRowsTyped, MailersTyped, ParseJobOK, PurgeJobsOK, mailVars
    <2>2. CASE Mail!Next
      BY <2>2, MailRowsNext, MailersNext, ParseJobNext, PurgeJobsNext DEF MailTyped
    <2> QED
      BY <2>1, <2>2
  <1> QED
    BY <1>1, <1>2, MailInvariant, PTL DEF PartSpec

LEMMA MailTypes ==
  ASSUME MailTyped
  PROVE  Mail!TypeOK
  <1>1. \A job : JobFits(job, mailFaults) => job \in Mail!Outbox
    <2> SUFFICES ASSUME NEW job, JobFits(job, mailFaults) PROVE job \in Mail!Outbox
      OBVIOUS
    <2>1. job.tries \in 0 .. MaxTries + MaxMailFaults
      BY BoundsAssumption, MailAssumption DEF MailTyped, MailRowsTyped, JobFits, OutboxRow
    <2> QED
      BY <2>1 DEF JobFits, OutboxRow, Mail!Outbox
  <1>2. parseJob \in Mail!Outbox
    BY <1>1 DEF MailTyped, ParseJobOK
  <1>3. ASSUME NEW n \in DOMAIN purges
        PROVE  purges[n] \in [keys : SUBSET Mail!ObjectKeys, job : Mail!Outbox]
    <2>1. purges[n] \in PurgeRow /\ purges[n].job \in Mail!Outbox
      BY <1>1 DEF MailTyped, PurgeJobsOK
    <2> QED
      BY <2>1 DEF PurgeRow
  <1>4. mailer \in [Mailers -> MailerRow] /\ Len(purges) <= MaxPurges
        /\ mailFaults <= MaxMailFaults
    BY BoundsAssumption DEF MailTyped, MailersTyped, PurgeJobsOK, MailRowsTyped
  <1> QED
    BY <1>2, <1>3, <1>4 DEF MailTyped, MailRowsTyped, InboundRow, MailerRow, Mail!TypeOK

-----------------------------------------------------------------------------
\* Whichever of the parts the owner works with runs, its rows and the states of its jobs
\* keep to their types, and what is counted to its bounds: the settings, the domain, the
\* calendar, the fleet, the mail with the tries of its jobs, and the sign-ins.
THEOREM OwnerPartsTyped ==
  PartSpec => [](which \in {"settings", "domain", "calendar", "fleet", "mail", "connect"}
                   => PartsTypeOK)
  <1>1. (Runs("settings") => SettingsOK)
        /\ (Runs("settings") => Linked(branding) /\ CopiesLinked)
        /\ (Runs("domain") => DomainOK) /\ (Runs("domain") => DomainCounts)
        /\ (Runs("calendar") => CalendarOK) /\ (Runs("calendar") => CalendarTyped)
        /\ (Runs("fleet") => FleetTyped) /\ (Runs("mail") => MailTyped)
        /\ (Runs("connect") => ConnectOK) /\ (Runs("connect") => ConnectTyped)
        => (which \in {"settings", "domain", "calendar", "fleet", "mail", "connect"}
              => PartsTypeOK)
    <2> SUFFICES ASSUME Runs("settings") => SettingsOK /\ Linked(branding),
                        Runs("domain") => DomainOK /\ DomainCounts,
                        Runs("calendar") => CalendarOK /\ CalendarTyped,
                        Runs("fleet") => FleetTyped, Runs("mail") => MailTyped,
                        Runs("connect") => ConnectOK /\ ConnectTyped,
                        which \in {"settings", "domain", "calendar", "fleet", "mail", "connect"}
                 PROVE  PartsTypeOK
      OBVIOUS
    <2>1. CASE which = "settings"
      BY <2>1, SettingsTypes DEF PartsTypeOK, Runs
    <2>2. CASE which = "domain"
      BY <2>2, DomainTypes DEF PartsTypeOK, Runs
    <2>3. CASE which = "calendar"
      BY <2>3, CalendarTypes DEF PartsTypeOK, Runs
    <2>4. CASE which = "fleet"
      BY <2>4, FleetTypes DEF PartsTypeOK, Runs
    <2>5. CASE which = "mail"
      BY <2>5, MailTypes DEF PartsTypeOK, Runs
    <2>6. CASE which = "connect"
      BY <2>6, ConnectTypes DEF PartsTypeOK, Runs
    <2> QED
      BY <2>1, <2>2, <2>3, <2>4, <2>5, <2>6
  <1> QED
    BY <1>1, SettingsHold, LinkedInvariant, DomainInvariant, DomainCounted, CalendarInvariant,
       CalendarTypedInvariant, FleetTypedInvariant, MailTypedInvariant, ConnectInvariant,
       ConnectTypedInvariant, PTL

=============================================================================

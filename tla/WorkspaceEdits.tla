--------------------------- MODULE WorkspaceEdits ---------------------------
(***************************************************************************)
(* A workspace's guest settings and one vehicle of its fleet, edited in    *)
(* several browser tabs (components/owner/OwnerTenantProvider.tsx,         *)
(* TenantSettingsForm.tsx, vehicle-form.tsx, setup/DoneStep.tsx;           *)
(* lib/owner/vehicle-state.ts, vehicle-repository.ts; lib/tenant-config.ts,*)
(* lib/tenant-vehicle.ts).                                                 *)
(*                                                                         *)
(* Either row has an optimistic lock: updated_at for the settings,         *)
(* revision for the vehicle.  Each tab keeps copies of both and            *)
(* GuestVehicleSync saves the settings by itself whenever they differ.     *)
(* What the settings say is the set of edits they still hold.  A load and  *)
(* the rendering of what it read are one step.                             *)
(***************************************************************************)
EXTENDS Naturals

CONSTANTS
    Tabs,
    MaxEdits,      \* bound: edits, of either row
    MaxSaves,      \* bound: saves of the settings
    MaxLostReplies \* bound: saves whose answer is lost

VARIABLES
    vehicle,   \* onlyevs_vehicles: active, revision
    branding,  \* workspace_branding: updated_at, edits, the linked vehicle's
               \* revision it shows the guest (0: none) and publishedAt
    cache,     \* the tab's copy of the vehicle (remoteSnapshots)
    tenant,    \* the tab's copy of the settings
    tried,     \* GuestVehicleSync's attemptedKey
    saves,     \* calls of saveConfig in flight
    edits, lost

vars == <<vehicle, branding, cache, tenant, tried, saves,
          edits, lost>>
counts == <<edits, lost>>

Key(why, rev) == [why |-> why, rev |-> rev]
NoKey == Key("none", 0)
ForAll(x) == [t \in Tabs |-> x]

Init ==
    /\ vehicle = [active |-> TRUE, rev |-> 1]
    /\ branding = [ver |-> 1, edits |-> {}, car |-> 1, live |-> FALSE]
    /\ cache = ForAll(vehicle)
    /\ tenant = ForAll(branding)
    /\ tried = ForAll(NoKey) /\ saves = ForAll({})
    /\ edits = 0 /\ lost = 0

Counted == edits < MaxEdits /\ edits' = edits + 1 /\ UNCHANGED lost

(***************************************************************************)
(* saveConfig: what it sends.  featuresWithTenantConfig keeps publishedAt  *)
(* unless it is told otherwise, and never for a car that is not linked.    *)
(***************************************************************************)
\* Mutant: publishedAt is kept whatever car is linked.
MutRequest(by, base, held, car, live) ==
    [by |-> by, ver |-> base.ver, edits |-> held, car |-> car, live |-> live]

Request(by, base, held, car, live) ==
    [by |-> by, ver |-> base.ver, edits |-> held, car |-> car,
     live |-> live /\ car # 0]

\* GuestVehicleSync, of the copies a and v: the save it makes and its key
Unlinked(a, v) == a.car = 0 \/ ~v.active
SyncKey(a, v) ==
    CASE Unlinked(a, v) /\ ~a.live -> NoKey
      [] Unlinked(a, v) /\ a.live  -> Key("unpublish", 0)
      [] ~Unlinked(a, v) -> IF a.car = v.rev THEN NoKey ELSE Key("relink", v.rev)
SyncSave(a, v) ==
    IF Unlinked(a, v) THEN Request("sync", a, a.edits, a.car, FALSE)
                      ELSE Request("sync", a, a.edits, v.rev, a.live)
\* nothing to unpublish leaves the key alone, a car that matches clears it
KeyAfter(a, v, key) ==
    IF SyncKey(a, v) # NoKey THEN SyncKey(a, v)
    ELSE IF Unlinked(a, v) THEN key ELSE NoKey

\* the tab t renders the copies a and v and the effect runs; inFlight: the
\* calls that are not answered
Renders(t, a, v, key, inFlight) ==
    /\ tenant' = [tenant EXCEPT ![t] = a]
    /\ cache' = [cache EXCEPT ![t] = v]
    /\ tried' = [tried EXCEPT ![t] = KeyAfter(a, v, key)]
    /\ saves' = [saves EXCEPT ![t] =
         IF SyncKey(a, v) \in {NoKey, key} THEN inFlight
         ELSE inFlight \cup {SyncSave(a, v)}]

(***************************************************************************)
(* The settings: the form and the publication in the setup.                *)
(***************************************************************************)
Sends(t, q) == saves' = [saves EXCEPT ![t] = @ \cup {q}]
Free(t) == \A q \in saves[t] : q.by = "sync"

\* submit: a linked vehicle is taken from the tab's copy of the fleet
SubmitSettings(t) ==
    /\ Free(t) /\ Counted
    /\ \E car \in {0} \cup IF cache[t].active THEN {cache[t].rev} ELSE {} :
         Sends(t, Request("form", tenant[t], tenant[t].edits \cup {edits'}, car,
                          tenant[t].live))
    /\ UNCHANGED <<vehicle, branding, cache, tenant, tried>>

\* finish: only for a linked vehicle the tab sees active
Publish(t) ==
    /\ Free(t) /\ ~Unlinked(tenant[t], cache[t])
    /\ Sends(t, Request("publish", tenant[t], tenant[t].edits, cache[t].rev, TRUE))
    /\ UNCHANGED <<vehicle, branding, cache, tenant, tried, counts>>

\* Mutant: the update names the row and not the version it was read at.
MutUnchanged(q) == TRUE
Unchanged(q) == q.ver = branding.ver

Stored(q) == [ver |-> branding.ver + 1, edits |-> q.edits, car |-> q.car, live |-> q.live]

\* the row is as the tab read it: the save is made, and the tab has its answer
Saved(t, q) ==
    /\ q \in saves[t] /\ Unchanged(q) /\ branding.ver <= MaxSaves
    /\ branding' = Stored(q)
    /\ Renders(t, branding', cache[t], tried[t], saves[t] \ {q})
    /\ UNCHANGED <<vehicle, counts>>

\* refused, or the answer is lost: load reads the settings again, and a sync
\* that failed forgets its key before the new copy is rendered
Refused(t, q) ==
    /\ q \in saves[t]
    /\ \/ ~Unchanged(q) /\ UNCHANGED <<branding, lost>>
       \/ /\ lost < MaxLostReplies /\ lost' = lost + 1 /\ branding.ver <= MaxSaves
          /\ branding' \in {branding} \cup IF Unchanged(q) THEN {Stored(q)} ELSE {}
    /\ Renders(t, branding', cache[t], IF q.by = "sync" THEN NoKey ELSE tried[t],
               saves[t] \ {q})
    /\ UNCHANGED <<vehicle, edits>>

\* the charging rate and the vehicle's battery and home area are written
\* without a lock, and move the other columns' locks on
SaveRate ==
    /\ Counted /\ branding.ver <= MaxSaves
    /\ branding' = [branding EXCEPT !.ver = @ + 1]
    /\ UNCHANGED <<vehicle, cache, tenant, tried, saves>>

(***************************************************************************)
(* The vehicle.                                                            *)
(***************************************************************************)
\* the tab's copy is v: its own write, or loadRemoteState
Copies(t, v) == Renders(t, tenant[t], v, tried[t], saves[t])

\* an update of the row the copy's revision still names, or a refresh
Writes(t, new) ==
    /\ vehicle' = IF vehicle.rev = cache[t].rev THEN new ELSE vehicle
    /\ Copies(t, vehicle')

\* updateVehicle, of the spec the guest is shown
SaveVehicle(t) ==
    /\ Counted /\ Writes(t, [vehicle EXCEPT !.rev = @ + 1])
    /\ UNCHANGED branding

\* archiveVehicle, unarchiveVehicle
ChangeStatus(t) ==
    /\ Counted
    /\ Writes(t, [vehicle EXCEPT !.rev = @ + 1, !.active = ~cache[t].active])
    /\ UNCHANGED branding

SaveBattery ==
    /\ Counted /\ vehicle' = [vehicle EXCEPT !.rev = @ + 1]
    /\ UNCHANGED <<branding, cache, tenant, tried, saves>>

\* refreshOnFocus
Focus(t) ==
    /\ cache[t] # vehicle /\ Copies(t, vehicle)
    /\ UNCHANGED <<vehicle, branding, counts>>

Next ==
    \/ SaveRate \/ SaveBattery
    \/ \E t \in Tabs :
         \/ SubmitSettings(t) \/ Publish(t) \/ SaveVehicle(t)
         \/ ChangeStatus(t) \/ Focus(t)
         \/ \E q \in saves[t] : Saved(t, q) \/ Refused(t, q)

Spec == Init /\ [][Next]_vars

(***************************************************************************)
(* Properties.                                                             *)
(***************************************************************************)
Row == [active : BOOLEAN, rev : 1 .. MaxEdits + 1]
Settings(b) == /\ b.edits \subseteq 1 .. MaxEdits /\ b.car \in 0 .. MaxEdits + 1
               /\ b.live \in BOOLEAN /\ b.ver \in Nat

TypeOK ==
    /\ vehicle \in Row /\ Settings(branding)
    /\ branding.live => branding.car # 0
    /\ \A t \in Tabs :
         /\ cache[t] \in Row
         /\ Settings(tenant[t]) /\ tenant[t].ver <= branding.ver
         /\ tried[t] \in [why : {"none", "unpublish", "relink"}, rev : 0 .. MaxEdits + 1]
         /\ \A q \in saves[t] : Settings(q) /\ q.by \in {"form", "publish", "sync"}
    /\ edits <= MaxEdits /\ lost <= MaxLostReplies

\* An edit of the settings that was saved is not lost: no tab's form, no
\* publication and no GuestVehicleSync, started from an older copy, writes
\* over it (saveConfig's lock on updated_at, and the copy every draft starts
\* from).
StillSaved == branding.edits \subseteq branding'.edits
SavedSettingsStay == [][StillSaved]_vars
=============================================================================

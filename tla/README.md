# tesla-onboard: TLA+ models and proofs

This directory holds TLA+ models of evhost.app (the repository `tesla-onboard`),
the TLC configurations that check them on small instances, and proofs of their
main properties for every instance, checked by TLAPS. Paths below are relative
to the repository; four migrations under `supabase/migrations/` have short names:

| short | file |
|---|---|
| AL | `20260814193000_onlyevs_access_lifecycle.sql` |
| EI | `20260816003000_onlyevs_email_ingestion.sql` |
| EA | `20260816150000_onlyevs_email_action_lifecycle.sql` |
| PK | `20260817090000_onlyevs_vehicle_telemetry_ledger.sql` |

Contents: [the system](#1-the-system) ·
[the modules](#2-modules-and-how-they-correspond-to-the-code) ·
[runs](#3-runs-and-bounds) · [fairness](#4-fairness) ·
[proofs](#5-what-is-proved-and-how) ·
[disagreements](#6-where-code-and-documentation-disagree) ·
[what is not modelled](#7-what-is-not-modelled) · [what is left](#8-what-is-left) ·
[running it](#9-running-the-checks)

## 1. The system

evhost.app lets the owner of a rental Tesla hand a guest time-limited driver
access. It has four kinds of processes around one Postgres database:

- a **Next.js app** (`app/`, `components/`, `lib/`): owner pages, guest portal
  and API routes. It changes state through security-definer RPCs, which are
  plpgsql functions in `supabase/migrations/` and each run in one transaction,
  and, for settings and vehicles, through tables with an optimistic lock;
- the **worker** (`services/onlyevs-worker/`), deployed as two replicas. `main`
  calls `runOnce` every 15 seconds (`index.ts` 2337-2411). A pass claims due
  rows of several tables (`claimed_by`/`claimed_at`, a claim older than two
  minutes may be taken again) and works on them concurrently;
- a Cloudflare **email ingest worker** (`services/email-ingest-worker/`) that
  encrypts and stores forwarded Turo mail and posts it to the app;
- **providers**: Tesla's Fleet API (invitations, drivers, telemetry
  configuration, charging history), Google Calendar, SendGrid (with an event
  webhook back into the app), Vercel domains, S3-compatible storage, and the
  Tesla telemetry stream (Kafka).

The processes share nothing but the database. What makes the system hard is that
a job reads a row, calls a provider for seconds, and writes the row afterwards,
while the owner's RPCs, the other replica (after a lapsed claim) and webhooks
write the same row; that providers have no idempotency key or report in any
order; that a process may die anywhere; and that browsers keep copies, in tabs,
local storage, cookies and the history, of what the database says.

### Components

| component | state | operations | status, modules |
|---|---|---|---|
| Access-grant lifecycle | `onlyevs_access_grants`, `_access_secrets`; advisory lock per Tesla integration | claim, issue, supersede, revoke (worker); resolve a calendar change, cancel, reconnect (owner); bind, read, redeem (guest) | modelled: `AccessGrant` |
| Telemetry enrollment and integration disconnect | `_telemetry_enrollments`, `_integrations`, credentials | seed, sweep, claim, configure, poll, remove; connect, disconnect, force-disconnect | modelled: `TeslaIntegration` |
| Email action saga | `_email_candidates`, `_email_actions`, `_email_outbox`, `_email_deliveries`, trips | confirm, dismiss, abort (owner); execute, alert (worker); reconcile (webhook); supersede (parse) | modelled: `EmailAction` |
| Email ingestion and outbox | `_inbound_emails`, outbox, objects in R2 | authorize, initialize and finalize a capture; claim, parse, backfill | modelled: `MailArchive`; the candidate in `EmailAction` |
| Integration credentials and token rotation | rotating refresh tokens | refresh and persist, mark `reauth_required`, connect, disconnect | partly: `TeslaIntegration`, `CalendarSync` |
| Calendar candidates | `_calendar_candidates`, integration, lock | sync (worker), import (consent), confirm, dismiss, apply, cancel (owner) | modelled: `CalendarSync` |
| Trips, guest portal, reminders | trips, link tokens, link secrets, reminder deliveries | create, reschedule, cancel, rotate the link, clean up, remind | modelled: `TripPortal`, with `AccessGrant`, `CalendarSync`, `TripLedger` |
| Bookends, status sweep, evidence packets | `_trip_bookends`, trip status, packets | capture an edge, advance the status, compose | modelled: `TripLedger` |
| Workspace mail | message index, attachments, purge requests | index, read, set retention, purge | partly: `MailArchive` |
| Guest linking and merge | guests, identity keys | backfill, sweep, link, merge, roster | modelled: `GuestLinking` |
| Telemetry ingest | live card, history, location points, offsets | ingest, attribute, redeliver | partly: `TripLedger`, `ChargeLedger`, `LocationTrail` |
| Charging sync and sessions | invoices, sessions (derived), owner's entries | segment (twice), attribute, price, reconcile, override | partly: `ChargeLedger` |
| Custom domains | `_custom_domains`, Vercel's project | request, verify, activate, remove | modelled: `CustomDomain` |
| Guest onboarding flow | the adaptive flow, stored state, history, progress posts | go forward, back, start over, restore, publish | partly: `GuestJourney`, `GuestProgress` |
| Sign-in, tenant configuration, media, pages | cookies and import sessions; settings; vehicles; the Inbox | log in, call back, import; edit, publish; list, decide, confirm, abort; read the snapshot, cache it, show a vehicle | partly: `TeslaConnect`, `WorkspaceEdits`, `FleetImport`, `OwnerInbox`, `InboxCard`, `VehiclePage`, `TelemetryNotice` |
| Retention sweeps | history, location points | batched deletes by age | modelled: `LocationTrail` |

`PROJECT.json` says for each "partly" what is left out, maps every definition
that models code to its lines, and lists, under "hazards", the places where the
following bites, each with the properties that watch it.

### What makes each component correct

- **Access grants.** Creating an invitation has no idempotency key and its
  answer may be lost; the list afterwards is the only evidence, and it is shared
  by all trips of the vehicle and by the owner's own app. The worker therefore
  reserves (status `issuing`, with the set of ids seen before), posts, lists
  again and adopts *the* new id; anything else goes to `manual_review`. Writes
  are of two kinds: fenced by `claimed_by` and `revision` (the reservation), or
  by id alone (`setGrant`). Correct means: a second invitation is never asked
  for while the first may be open; the published URL is that of the id that will
  be revoked; `revoked` implies gone; nobody outlives the revocation; and what
  has ended is withdrawn or shown to people.
- **Email actions.** A cancellation email must not cancel a trip before the owner
  has been alerted and has had 30 minutes to abort. Five parties end an action
  (worker, abort, parse of a newer email, webhook, failed validation), the
  alert's fate arrives as events in any order, two jobs overlap after a lapsed
  claim, and candidate and action are two rows. Correct means: at most one
  alert, nothing destructive before the whole brake, the two rows agree, and what
  was confirmed comes to an end.
- **Tesla integration.** A refresh token works once, so refresh and persist must
  not overlap; a vehicle that leaves must stop streaming, although Tesla may
  refuse or be silent and jobs overwrite what the owner asked for meanwhile.
- **Calendar.** A confirmed candidate has its trip's times; a move, or a
  cancellation, that waits for the owner is not closed by a later sync.
- **Bookends and packets.** Once for each time the trip is completed, across a status
  update and a composition in different transactions, by several replicas, while the
  calendar, a mail and the owner write the same trip; the pickup, once recorded, stays;
  the live card never goes back, whatever order records come in.
- **Mail.** Capture and purge are sagas over database and object storage: what is
  captured is read, what is purged is not read again, and its bytes go.
- **Locations.** A location is kept for one trip, observed while its access was open and
  its guest had agreed, however late or often the record comes and wherever the trip is
  moved; what a sweep has deleted does not come back.
- **Domains.** Nothing stays attached at the provider without a row that says so.
- **Links and reminders.** The link outlives its trip wherever the calendar moves
  it (a mail may leave it short, until it is replaced), and a reminder carries the link of
  its time, not a replaced one.
- **Charging.** Two implementations of one segmentation, in TypeScript and SQL,
  agree; what Tesla billed is counted once; settled sessions are not rewritten.
- **Guests.** Trips with one address are one guest's, whoever links or merges.
- **The guest's walk.** Three copies of where the guest is (state, hook, browser
  history) stay together; what is finished stays finished, in whatever order the
  posts of several tabs arrive.
- **The owner's pages.** A saved edit is not lost to another tab's copy; what the
  owner typed outlives Tesla's imports; whoever is connected to a workspace
  signed in for it; the Inbox's paging skips nothing; a countdown is drawn from a
  fresh read, and a confirm sends the dates as typed; a failed refresh takes away all
  that was shown or cached, and a vehicle's page is of one workspace and one trip.

## 2. Modules and how they correspond to the code

| module | what it is |
|---|---|
| `AccessGrant` | the access-grant lifecycle: row, jobs, RPCs, guest, Tesla; its properties |
| `GuestLink` | abstract: what the portal promises about the link of a trip |
| `MCAccessGrant` | windows and symmetry for TLC |
| `EmailAction` | candidates, actions, outbox jobs, owner alert, brake, parse, abort, webhook; its properties |
| `OwnerBrake` | abstract: what the owner is promised about a destructive change |
| `MCEmailAction` | event types, SendGrid's reports and symmetry for TLC |
| `TeslaIntegration` | status, token, enrollments, jobs and the integration's lock |
| `TripLedger` | one trip's telemetry, bookends, status and packet |
| `CalendarSync` | one calendar event, its candidate, its trip, the owner's screen |
| `CustomDomain` | one hostname, its row and the provider's project |
| `MailArchive` | one message from capture to purge |
| `TripPortal` | a trip's private link and its reminders |
| `GuestLinking` | durable guests: sweep, backfill, merge, roster |
| `ChargeLedger` | one vehicle's charging sessions, invoices and costs |
| `GuestJourney`, `GuestProgress` | the walkthrough in one tab; its progress from several |
| `WorkspaceEdits`, `FleetImport` | settings and a vehicle in several tabs; a car from Tesla's answer to the guest's picture |
| `TeslaConnect` | sign-ins at Tesla and Google: cookies, callbacks, sessions |
| `OwnerInbox`, `InboxCard` | the Inbox's list and its paging; one Turo card |
| `LocationTrail` | one vehicle's location records, their trips, and the sweeps |
| `VehiclePage`, `TelemetryNotice` | the owner's snapshot and its cache, the active trip's card; the two panels that say why there is no signal |
| `Workspace` | composes `TripLedger` and the sixteen modules from `CalendarSync` on, which share no row with each other |
| `MCWorkspace` | the instance of `Workspace` for TLC: values, bounds, symmetry and view |
| `AccessGrantProofs` | theorems about `AccessGrant`: who may act, what the rows say, what becomes of the invitations |
| `EmailActionProofs`, `TeslaIntegrationProofs` | theorems about these two |
| `GuestProofs` | theorems about the parts of `Workspace` a guest meets: progress, link, linking, walkthrough |
| `OwnerProofs` | about those the owner works with: settings, domain, calendar, fleet, mail, sign-ins |
| `InboxProofs` | about the Inbox: its paging, and a card's countdown and dates |
| `ChargeProofs` | about `ChargeLedger` alone: the two segmentations, and the sums of invoices |
| `VehicleProofs` | about `TripLedger`, the charging, the locations kept of a vehicle and the page that shows it; and, with the three before it, about the types of every part |

An action is, everywhere, the code between two points (awaits, statements of a
transaction that reads committed rows) at which other parties can come between.

### 2.1 AccessGrant

All grants of an instance share one vehicle and one integration, because that is
where they meet: in Tesla's list and in the advisory lock.

| variable | in the code |
|---|---|
| `row[g]` | the row of `onlyevs_access_grants`: `status`, `issue_at`, `revoke_at`, `invite_expires_at`, `provider_invitation_id` (`pid`), `next_action_at` (`next`), `claimed_by`, whether the before-set is stored (`saved`, `before`) |
| `secret[g]` | `onlyevs_access_secrets`: whose redeem URL is stored |
| `trip[g]`, `review[g]`, `bound[g]` | trip status as grants read it; whether the candidate may still change the trip; whether the guest has consented |
| `connected` | the integration's status is `connected` |
| `lock` | `pg_try_advisory_lock` of the integration, held by a session |
| `pc`, `mem` | where each job stands between two awaits, and the context it read at the start |
| `fresh` | the jobs whose `context.revision` is still the row's `revision` |
| `open`, `creator`, `drivers`, `inflight` | Tesla: listed invitations, who each was made for, drivers, POSTs whose sender is gone and that may still land |
| `known[g]` | links the guest has been handed |

An action is the code between two awaits that other parties can come between:

| actions | code |
|---|---|
| `Claim` | `claim_onlyevs_due_access_grants` in its last version (`20260815190000_evhost_guest_portal.sql` 85-137) |
| `Begin`, `ReadContext`, `Refresh` | `processGrant` 1171-1211: the lock tried once, `grantContext`, the token refresh |
| `Before`, `Reserve`, `PostOk`, `PostFails`, `ListAfter`, `Commit`, `Supersede`, `Audit`, `Finish` | `issueAccess` 970-1107: list, fenced reservation, POST, list, publishing transaction under `FOR UPDATE`, withdrawal of what may no longer be published, audit row and bookend, unlock |
| `StartRevoke`, `RevokeCall`, `DropSecret`, `RecordRevoked`, `ListDrivers`, `RemoveDriver` | `revokeAccess` 1110-1169 |
| `SetGrant`, `Catch`, `Park`, `ParkAndAudit` | `setGrant` (by id alone), the catch block of `processGrant` 1203-1217, the audit table's check on `result` |
| `Crash`, `LeaseLapses` | the process dies: session lock and memory go, rows stay; a claim becomes older than two minutes |
| `ResolveApply`, `ResolveCancel`, `OwnerCancel` | `resolve_onlyevs_calendar_candidate_change` AL 1198-1318, `cancel_onlyevs_trip` |
| `IntegrationLost`, `Reconnect` | `reauth_required` written by another job; `complete_onlyevs_integration` |
| `Onboard`, `GuestReads`, `GuestRedeems` | consent; `get_onlyevs_ready_invite`; the redemption at Tesla |
| `Land`, `OwnerInvites`, `InviteLeaves`, `Tick` | external: a late POST, an invitation made by hand, expiry or withdrawal elsewhere, time |

Choices of the abstraction:

- Ticks are coarser than the code's 30-second, 2- and 5-minute delays: such a
  delay is "now", and the worker may take the row up at any later moment.
  `issue_at + 1 second` is one tick.
- A claim lapses at any moment while it is held, which covers slow provider calls
  and stopped processes alike.
- A claim takes all due rows: the limit of 25 and `SKIP LOCKED` only delay.
- Tesla answers a call, refuses it, or the answer is lost; a lost POST may have
  created the invitation, may create it later, or never. It refuses when the
  ids of the instance run out.
- Token rotation is the single step `Refresh`, which may fail; its own hazards
  are those of `TeslaIntegration`.
- Only calendar-confirmed trips have a grant. Trip status is live or cancelled:
  nothing else of it is read here. The status `redeemed` of the table is never
  written.
- The clock and the budgets of failures and decisions are bounded, so a run ends:
  `CHECK_DEADLOCK FALSE`.

`GuestLink` says: a link is published only for a live trip and only when none is
shown, and handed out only while it is shown and the trip is live. The mapping
takes the secret of a row in `invite_ready` as the shown link.

### 2.2 EmailAction

All emails belong to one reservation. An email is named by its `occurred_at`; so
are its candidate, its action (one per candidate through the unique idempotency
key), the action's outbox row and the trip a booking makes.

| variable | in the code |
|---|---|
| `cand[c]`, `intact[c]`, `effect[c]` | `onlyevs_email_candidates.state`; whether revision and facts are those that were confirmed; `effective_trip_id` |
| `act[c]`, `target[c]`, `deadline[c]` | `onlyevs_email_actions.state`, `effective_trip_id`, `brake_deadline` |
| `delivery[c]` | state of the delivery the action names |
| `job[c]` | the action's row in `onlyevs_email_outbox` |
| `trip`, `enabled` | trips made or changed; the integration has a working status |
| `parse[n]` | the open transaction that parses email `n`, with the row locks it holds |
| `pc`, `mem` | `processActionJob`: where it stands and what `execute` last returned |
| `sent[c]`, `report[c]`, `heard[c]` | SendGrid: alerts taken, events it will report, events the webhook has handled |

| actions | code |
|---|---|
| `Claim`, `Execute`, `Alert`, `LinkDelivery`, `Send`, `Finish`, `JobLost`, `LeaseLapses` | `claim_onlyevs_due_email` EI 371-391; `processActionJob` and `sendOwnerAlertForAction` (`email.ts` 504-719) |
| `Advance` with `Edge`, `Valid`, `CreateTrip`, `ApplyUpdate`, `CancelTrip`, `Refused`, `ToReview`, `Elapsed` | `execute_onlyevs_email_action` EA 379-675, one call per step |
| `ParseChoose`, `ParseHold`, `ParseKill`, `ParseCommit`, `ParseFails` | the transaction of `processParseJob` (`email.ts` 337-451) with `supersede_onlyevs_email_candidate_and_action` EA 795-840, statement by statement |
| `Confirm`, `Dismiss`, `Abort` | `confirm_onlyevs_email_candidate` EA 278-377, `dismiss_onlyevs_email_candidate` EI 627-, `abort_onlyevs_email_revocation` EA 743-793 |
| `Purge`, `SetEnabled`, `TripEnds` | a mail purge, a pause of the integration, a trip cancelled by other means |
| `Webhook` with `Reported`, `Legal`, `StartBrake` | `reconcile_onlyevs_sendgrid_event` EA 680-741 and the transition trigger EA 222-276 |

Choices of the abstraction:

- Candidate states `pending` and `auto_queued` and action states
  `failed_retryable`, `ambiguous`, `delivery_pending` and `dead_letter` are never
  written by this code; the branches that would handle them are left out.
- The loop bound of twelve steps in `processActionJob` is never reached (the
  longest path has six).
- Trips made from emails have no access grant, so the update of the grant in the
  cancellation of a trip is left out here (`AccessGrant` has it).
- Incomplete facts or a schedule conflict are the choice `Refused`.
- The outbox row of a parse is abstracted: one parse transaction per email,
  serialised by the unique `inbound_email_id`.
- A second delivery row, written by the job that lost the link, is never read.
- SendGrid reports a set of events in any order, each at least once; repeats are
  dropped by `sg_event_id` and leave no trace. An event whose transition raises
  counts as heard, because the webhook answers 200 and it is not sent again.
- `JobLost` is the loss of a job for any reason: a crash or a database error.
- The jobs of a pass, two at a time in the code, may all overlap.
- `Applied` lets an instance start where the booking's trip exists.

`OwnerBrake` says: a destructive change is announced, and its end is then a whole
brake away; it can be stopped before the announcement and for as long as the
brake counts; it is carried out only after the end; and once stopped or done it
stays so.

### 2.3 TeslaIntegration

| variable | in the code |
|---|---|
| `status`, `cred` | `onlyevs_integrations.status`; the stored refresh token: none, one Tesla still takes, or a spent one |
| `row[v]` | the enrollment: status, whether a configuration was applied, counted attempts, due, claimed |
| `fleet[v]`, `streaming` | the vehicle is active or retired; vehicles Tesla holds a configuration for |
| `lock`, `job[j]` | the advisory lock; where a job stands and the copy of the row it read |
| `unconfirmed`, `lost` | removals given up on or forced (the audit rows); a rotated token died with its process |

`Claim`, `ClaimCharging`, `Busy`, `NoContext`, `Refresh`, `RefreshFails`, `Persist`,
`Remove`, `Reconfigure`, `Configure`, `Poll`, `Report`, `Drop`, `Finish`, `Catch`,
`SyncCharging` are `processTelemetry` and `syncChargingInvoices` await by await;
`Seed` and `SweepRetired` are `runOnce`'s statements; `Connect`, `Disconnect`,
`ForceDisconnect`, `EditVehicle` the owner's RPCs. There is no clock: a row is due
(its retry is minutes away) or parked (365 days away). The ways Tesla fails are
the kinds `telemetry-policy.ts` tells apart.

### 2.4 TripLedger

`records` and `offset` are the vehicle's Kafka partition; `card` the live row;
`schedule`, `status` and `books` the trip and its bookends; `packets` the packet
versions; `pass[w]` where each replica's pass stands. An odometer reading only grows, so
a record, the card and a bookend are each represented by the hour the reading was
observed at. `Ingest` is the monotone upsert; `SweepStart`/`WriteStart`,
`SweepEnd`/`WriteEnd` and `CaptureOfJob`/`WriteOfJob` are a capture's read and its write.

The update of `advanceTripStatusesAndComposePackets` is two steps, because it computes
the status from its snapshot (`Look`: `Desired`, `Behind`) and, when it has waited for
the row, looks again only at whether the status is another (`Move`: `Moves`); so it may
write over what was committed meanwhile. The packet is `Freeze` (bookends and the next
version) and `Insert` (`on conflict do nothing`).

The trip has three other writers, and they depend on where it comes from. `Apply` and
`Drop` are `resolve_onlyevs_calendar_candidate_change`: applying gives the trip new times
and the status by the clock, *whatever it was* (a completed trip becomes active, a
cancelled one lives again, one whose new end is past is completed without a packet);
after a change reviewed as a cancellation the candidate is closed for good (`Dropped`).
`MailMoves` is `apply_update` of `execute_onlyevs_email_action`: the times only, of a trip
not yet cancelled or completed. `Cancel` is `cancel_onlyevs_trip` and a mail's
`cancel_trip`. `revised` and `reopened` record what these writers, and late updates of a
worker, made of the trip; the properties are stated with them. The calendar's decision
itself is `CalendarSync`'s, the mail's `EmailAction`'s: here each may come at any time.

### 2.5 CalendarSync

`event` is what Google says; `integ`, `cand`, `booking` are the rows; `sync[w]` and
`import` hold the copy of the event a job, or the consent callback, has fetched;
`screen` is the candidate as the review queue loaded it. `BusySync`, `Fetch`,
`IngestEvents`, `FlagCancelled`, `FailSync` are `processCalendar`; `Ingested` is the
`on conflict` of `ingest_onlyevs_calendar_candidates` in its last version;
`ConfirmCandidate`, `DismissCandidate`, `ApplyChange`, `CancelByReview` act on the
row, as the RPCs do, when the screen offers them. One event stands for all.

### 2.6 CustomDomain

`domain` is the row, `attached` and `proven` are the provider's side, `domainJob`
the job with the status it claimed. `Attach`, `Reconcile`, `Record`, `Detach`,
`Delete`, `ProviderFails` are `processDomain`. There is one worker: its pass waits
for its jobs, so two jobs do not overlap (with two replicas they may, see section 6).

### 2.7 MailArchive

`inbound` is the row, with whose bytes its hashes and its object key describe;
`delivery[d]` an attempt of the sender; `envelope` and `files` are the objects in
R2; `index` and `body` the searchable copy; `parseJob` and `purges` the outbox;
`mailer[m]` what a replica has read. Capture is four steps at two systems
(`Authorize`, `Initialize`, `PutEnvelope`, `Finalize`); a parse or backfill is
claim, select, fetch, store, commit; a purge is one transaction and then deletes,
inline or by its job. The message has one attachment.

### 2.8 TripPortal

`booked` (in the module: `trip`), `secret` and `reminders` are the three tables;
`request[o]` is what a request has read and is about to write. A rotation reads the
trip in the route and writes in the RPC; a reminder is `Begin`, `ReadMaterial`,
`Send`, `Finish`. Tokens are numbered as they are made. `Reschedule` applies a change of
the calendar, which moves the end and `token_expires_at` and writes the status by the
clock, whatever it was; `MailMoves` is a mail's `apply_update`, which leaves
`token_expires_at`, and `outgrown` remembers that until the link is replaced; `Sweep` is
the worker's statement, with its grace and `armed`, in one step (`TripLedger` has it in
two). The status `conflict`, which no code writes, when the trip starts, and the
workspace-wide reminder limit are left out.

### 2.9 GuestLinking

Read-committed transactions, statement by statement: `Find` and `Link` are
`link_onlyevs_trip_to_guest` with its row locks; `Merge`, `Repoint`, `Finish` are
`merge_onlyevs_guests`, each blocked as Postgres would block it and rolled back as a
broken foreign key or a deadlock would. `Offered` is the pairs of roster rows the
page offers to merge.

### 2.10 ChargeLedger

`Segment` is the fold of `lib/owner/charge-sessions.ts`, as a recursive function:
`Folded(h)[t]` is what the loop holds after the point at `t`, `Closed` what it makes of a
session still open at the end; `Islands` the window
functions of `get_onlyevs_charge_sessions`; `Cost`, `Matched`, `Unmatched`, `Billed`
are the reconciliation with Tesla's invoices and the owner's entries. The state is
an append-only history that also receives late points. The battery holds 100 kWh,
so kWh are a difference of readings.

### 2.11 GuestJourney, GuestProgress

`GuestJourney`: `page` is the stored state, `entries` and `at` the tab's history,
`refs` the refs of `useStepHistory`. One module of each kind stands for all, and a
traversal of the history is over before the guest acts again. `GuestProgress`: each
browser's `stored` state per link, the `tab`s, the requests in `flight`, and the
`guest`'s row with the update RPC in its last version.

### 2.12 WorkspaceEdits, FleetImport

`WorkspaceEdits`: `branding` and `vehicle` are the rows with their locks, `tenant`
and `cache` each tab's copies, `tried` the key of `GuestVehicleSync`, `saves` calls
in flight. What the settings say is the set of edits they still hold. `FleetImport`:
one car, one aspect (paint, cabin or wheels) with its name and Tesla's option code;
`Merged` is `mergePreservingOwnerFields`, `Picture` the choice of Tesla's image.

### 2.13 TeslaConnect

Three flows (`fleet`, `calendar`, `guest`) with their state cookies; `signin[t]`
is where a tab is between page, provider, callback and landing. Tabs of a browser
share cookies, local storage and the active workspace. `durable` is
`ONLYEVS_OPERATIONS_ENABLED`.

### 2.14 OwnerInbox, InboxCard

`OwnerInbox`: a read is ask, serve, land; `PageOf` is `paginateInboxItems` over the
two bounded queries; `Decide`, `Decided`, `Settled` are `mutate` with its reload.
`InboxCard`: `linked` and `facts` are what a card has read, `call` the decision
under way, `corrected` and `draft` its editor. Instants are hours; the vehicle's
zone has one clock change. An event that Google sent without `updated` has no
`source_updated_at`: the query lists it first and the page places it at its start. Such
rows are not modelled.

### 2.15 LocationTrail

`heard` is the Kafka partition, `taken` the consumer's offset, `hand` the record that
`ingestTelemetry` holds between its statements, `kept` the rows of both tables. `Take`
looks up the vehicle and inserts the history point, `Attribute` finds the trip, `Store`
inserts the location; `Fails` is the catch of `eachMessage`, which skips the record, and
`Dies` a restart from any offset that was committed. `spans` is every window a trip was
given, in order, the last one as it is; `stays` is what the lookup reads of a trip besides:
not cancelled, agreed to, its grant not ended. `endedAt` is since when one of these closes
the trip's access, while it does. `Reschedule` applies a change of the calendar: a new
window, in which no other trip of the vehicle lies (`Free`, the exclusion constraint), and
a live trip, whatever it was, with its grant as it is. `Cancel` closes the trip, by its
owner or in review; which of the two is not told apart, although a trip cancelled in
review is not revived. `EndGrant` and `ResumeGrant` are the writes of the grant's status
that the lookup sees: `AccessGrant` says when they come. `Sweep` deletes, table by table,
some or all of what is overdue; `whole` remembers the last sweep that left nothing. A
record is handled within the hour it is taken in, and the parser takes in what is no more
than `Skew` ahead of the clock. Lead, After, LinkLife, Late, Skew and KeepFor stand for
the code's durations in their order, not their proportions.

### 2.16 VehiclePage, TelemetryNotice

`VehiclePage`: a refresh is ask, snapshot, statistics, land (`useOwnerData`); `memo` is
the module-level cache, `panel` what the active trip's card has read for itself. A
cancelled request is forgotten at once, because its answer is ignored; `asked` counts the
failures shown when a request began. `TelemetryNotice`: the enrollment row as the page
has read it, and the notice (`Strip`) and the card (`LiveCard`) drawn from it.

### 2.17 Workspace

The sixteen modules from `CalendarSync` on share no row with each other or with
`TripLedger` at this level of abstraction, so their interleavings add nothing:
a behaviour of `PartSpec` is a behaviour of one of them, chosen by `which`, and the
other variables stay as they begin. Where components do interact, the interaction
is inside a module: grants and calendar decisions in `AccessGrant`; emails, trips
and purges in `EmailAction`; the access job and the sweeps in `TripLedger`.

## 3. Runs and bounds

| run | instance | what it asks |
|---|---|---|
| `AccessReplicas` | 1 grant, 2 workers, 2 invitations, every kind of failure (1), 1 owner's change, time to 3 | `SessionExclusive`, `PublishedMatches`, `IssuingIsRecoverable`, `RevokedIsGone`, `ImplementsGuestLink` |
| `AccessOneWorker` | 1 worker, 3 invitations, 3 failures (crash, lost integration, POST, URL, list, foreign invitations, invitations that leave), 2 changes, window fixed | `NeverRetriesAmbiguousCreate`, `RevokedEndsAccess` |
| `AccessTwoTrips` | 2 grants, 1 worker, 3 invitations, 1 failure, no crash | `HandedOutIsOwn` |
| `AccessLiveness` | fair, 1 worker, 2 failures of any kind, 1 change, invitations live 1 tick | `KnownLiveIsWatched`, `EndedAccessIsWithdrawn` |
| `EmailSafety` | a booked trip and a cancellation email, 2 workers, 1 failure, 1 decision, brake 1, time to 2 | `AlertedOnce`, `ApplyingIsInFlight`, `DestroysOnlyAfterBrake`, `ImplementsOwnerBrake` |
| `EmailProgress` | fair, a booking and a change of it, 2 workers, 1 crash or failed parse, 1 decision | `ConfirmedComesToRest` |
| `TeslaIntegration` | fair, 1 vehicle, 2 jobs (enrollment or charging), retryable, refused and hardware failures, 2 removal attempts, 2 owner's edits, 1 crash or lapse | `TokenKept`, `NoForgottenStream`, `RetiredVehicleLeaves` |
| `Workspace` | each part of `Workspace.tla` on its instance below (564,000 states) | `PartsTypeOK` and one property, or two, of each part |
| `WorkspaceProgress` | fair: ledger, calendar, domain and mail | `TripPackaged`, `MoveReachesOwner`, `RoutedIsActivated`, `MailSettles` |
| `FindAccessOutlives`, `FindDisconnectSpins`, `FindSilentCancel` | the smallest instance that shows it | one property each, violated: section 6 |

The parts of `Workspace`:

| part | instance | property | what it shows |
|---|---|---|---|
| ledger | 2 workers, records, crashes and 1 change of the schedule as `FewUpsets` allows, a trip from 0 to 1 that may move to 1 to 2, time to 2 | `OncePerCompletion`, `NothingGoesBack` | no completion is packaged twice, reopened trips included, and the pickup is the one on record; card and pickup never go back |
| calendar | 2 jobs, 2 schedules, 1 move, 1 consent, 1 failure | `ConfirmedAgrees` | whatever stale copies arrive, a confirmed candidate has its trip's times |
| domain | 4 owner's edits, 2 failures | `DetachedBeforeForgotten` | nothing stays attached without a row |
| mail | 2 replicas, 2 deliveries, 2 tries, 1 purge, 1 failure | `PurgedIsNotReadAgain` | no reader starts after a purge |
| guest | a history of 3 entries, 1 reload or new tab | `BackStaysInApp` | the in-app Back never leaves the app |
| settings | 2 tabs, 2 edits, 2 saves, 1 lost answer | `SavedSettingsStay` | no tab writes over a saved edit |
| charges | 4 moments, 3 points, 2 readings, 2 trips, 2 invoices, 1 entry | `ChargesAgree`, `SettledSessionsStay` | the two segmentations agree, each bill counts once |
| portal | 2 requests, 2 links, 2 reminders, 1 change by the calendar or a mail, time to 4 | `LinkHolds` | only a mail leaves a link that ends too soon; a reminder carries no replaced link |
| progress | 2 browsers, 2 links, 2 requests in flight, 2 steps | `FinishedStaysFinished` | no late post takes completion or consent back |
| fleet | 5 reads, imports and saves, 2 designs and an unknown one | `WordStands` | what the owner typed outlives Tesla |
| linking | 3 trips (2 of one address, 2 of one Tesla account), 2 replicas, 2 managers, 3 guests, 1 merge | `OneGuestPerAddress` | one address, one guest |
| connect | 2 tabs, 2 places, 1 account, 2 logins | `ConnectedAsAsked` | nobody is connected to a workspace he did not sign in for |
| inbox | 3 events and a mail at 3 moments, pages of 1, limit 2, 1 change, 1 decision | `NothingSkipped` | paging loses no row that stood still |
| trail | 2 trips back to back, the first of which may move, 1 record, 1 failure, death, resumed grant or shared VIN, 3 hours | `LocationKept` | while access is closed nothing observed after it is kept, nothing outlives its age or is kept twice |
| page | 2 workspaces, 1 cached, 2 trips (1 agreed to), 1 role lost, 1 failure | `LocationKept` | a failure takes away everything; the card is of its own trip |
| notice | every enrollment row | `LocationKept` | strip and live card give one reason |
| card | 2 cards, 2 openings, 1 edit, 1 click, one clock change, typed times on both sides of it | `CardKeepsFaith` | the countdown is fresh, the dates are sent as typed |

Why the bounds are enough for what each run asks:

- The grant's window is issue 1, revoke 2, and may move to [1,3] (extension) or
  [2,3] (a later day). Three ticks separate "before the window", "in it", "just
  ended" and "after an extension"; `InviteLife` 3 keeps an invitation open
  through the whole window, `InviteLife` 1 lets it expire in it.
- Two workers, jobs, tabs or requests give two actors on one row and a late write
  of a lapsed claim or an old copy. Two invitations give the one that is recorded
  and the one that is not; three add a foreign one or a second trip's.
- A property that one failure can break is checked with all kinds and one
  failure; `AccessOneWorker` has three because its properties are about a
  failure, the recovery from it, and a failure of that.
- What a run leaves out, it leaves out because the property then fails, and
  section 6 says so: the second replica and the crash in `AccessLiveness`, the
  crash in `AccessTwoTrips`, the moving window in `AccessOneWorker`. Of the kinds
  of failure `AccessOneWorker` does not inject, a failed list followed by a
  `refresh` or a `db` failure breaks `NeverRetriesAmbiguousCreate`; one `db`
  failure breaks `RevokedEndsAccess` (`FindAccessOutlives`); so does one `tesla`
  failure, where the withdrawal of a superseded second invitation fails and its
  id replaces that of the first.
- Emails need two: the one that asks and the one that supersedes or is
  superseded. `Brake` 1 with time to 2 has a tick before, at and after the end.
  `SomeReports` has every event type, both orders matter, and the rejected ones
  occur with and without `processed`.
- Two removal attempts have one that is counted and one that gives up; two edits
  of the owner give a disconnect and a reconnect, or a vehicle retired and
  revived, over a job that read the row before.
- Three moments of charging history with a gap of 2 have points inside and beyond
  the gap; every order of arrival, silence and repeated reading occurs, from
  every start of the window. `Lockstep` compares the two segmentations as
  functions of the same history.
- An event-heavy page at the cursor, equal times in and across the sources, a row
  that moves up and a row decided meanwhile all occur with four rows, pages of
  one and a limit of two (50 and 200 in the code: the limit stays above the page).
- Records never touch each other's rows, so `trail` has one, consumed any number of
  times at any hour; two trips with overlapping grants, of which the first is moved,
  cancelled and revived, and one failure give every order of lookup, change, redelivery
  and sweep. One cached workspace beside the one on screen is what a failure could
  forget to clear, and what a new one evicts.
- `FewUpsets` bounds the counters of a part together. The ledger has at most three of
  records, crashes, changes of the schedule and busy workers at a time: two workers
  against a record or a change, or one against a record and a crash; records come while
  a calendar's trip has not been moved. That is enough for a completed trip to be
  reopened by its calendar or by a late update and packaged again. The trail has one
  mishap or one move, and then the access of one trip closed at a time, of both without
  either; its sweeps that leave nothing come while nothing was moved or is closed: they
  read neither. Settings take five of edits, saved versions and lost answers; the
  sign-ins two of logins and lost roles, the card three of openings, edits and clicks,
  charging four of points, invoices and entries, the link four of reminders, reschedules
  and links. Most of these parts are proved for every bound (section 5): there the run
  is what finds a property broken when a definition changes.
- No part tells its workers, jobs, readers or tabs apart, so they are one symmetry set
  (`Alike`); and a state of `Workspace` is the state of the part that runs, since the
  others never move (`PartView`).
- In `WorkspaceProgress` the ledger has no records, since no status depends on them, and
  one worker, since a second one only helps it; its schedule may change twice, so that a
  trip is completed, reopened and completed again.

The inductive invariants of section 5 were checked with TLC on these instances before
they were proved. The types of `AccessGrant`, `EmailAction` and `TeslaIntegration` are
proved and have no run of their own.

## 4. Fairness

Assumed of the worker, in every fair specification: each claim and each step of a
job is taken when it stays possible (weak fairness). `main` calls `runOnce` in an
endless loop, 15 seconds apart, with every provider call under a timeout, and a
dead process is restarted by its deployment. `LeaseLapses`/`Lapse` and its like are
fair because a claim's age grows with the database clock; `Tick` because time
passes; the end of an open transaction because it commits or its connection is
lost; `Due` because `next_check` or `sync_due` is a time that comes.

- `AccessGrant`, `EmailAction` (`FairSpec`): weak fairness only. Nothing is assumed
  of the owner, the guest, SendGrid's events, Tesla's success or the absence of
  failures. `ConfirmedComesToRest` therefore leaves out `awaiting_owner_alert` (it
  waits for an event that may never come) and the brake;
  `EndedAccessIsWithdrawn` ends in a withdrawal, an extension, or a status people
  are shown.
- `TeslaIntegration`: weak fairness of seeding, of each job and of lapses; strong
  fairness of the sweep while no job is on the vehicle, of the claim of a row that
  waits for removal while the lock is free, and of the removal job's turn at the
  lock. A pass sweeps after the jobs of the pass before have ended and claims after
  it swept; a job holds the lock for seconds and rows fall due minutes to hours
  apart, so each of these finds its moment again and again. `RetiredVehicleLeaves`
  assumes besides that the vehicle is again and again without a job, since jobs that
  overlap on it for ever could each write their old status over the mark.
- `PartFairness` of `Workspace`: weak fairness of the ledger's `Tick` and passes,
  the calendar's and the domain's due times, claims, lapses and steps, and the
  mailer's steps and lapses; strong fairness of the claims of a parse and of a purge
  job, because a free worker takes each kind of job in turn and its other jobs end.
  Nothing is assumed of the owner, the organiser of the event, the sender of the
  mail or the providers.

## 5. What is proved, and how

All theorems hold for every value of the constants, under each module's assumptions.
Those of AccessGrant and EmailAction are `NullAssumption`, `BoundAssumption` and
`WindowAssumption` or `EmailAssumption`: `None` differs from every
value it stands beside, windows end after they begin, numbers are naturals, and
email types are the three the parser makes. TLC evaluates them on the runs.

### AccessGrant

- `TypeCorrect` (`[]TypeOK`) and `SessionsExclude` (`[]SessionExclusive`), in
  `AccessGrantProofs`. Neither is inductive alone: a job writes the id it holds
  in its memory, so the type of the row needs `FoundOK` (a job past the list
  holds a real id), and who may write at all depends on the lock. The invariant
  is `TypeOK /\ FoundOK /\ SessionExclusive`. `JobShape` states once what a step
  of one job does to `pc`, `lock` and `mem` of all jobs; every later proof uses
  it in place of the actions.
- `PublishedIsRecorded` (`[]PublishedMatches`), same module. Rows are
  written by anyone, by id alone, so the argument is about *which fields* a step
  can touch: `Keeps` says that status, id, secret and before-set stay, up to a
  status outside the published ones; `OthersKeep` shows it for every step but
  six, and those six are treated one by one. The withdrawal deletes the secret before it
  writes the row, so the invariant needs `Unready`: while a job is withdrawing, its
  grant's row is not `invite_ready`.
- `IssuingRecovers` (`[]IssuingIsRecoverable`), same module, through `SavedOK`:
  a job between reservation and publication works on a row whose before-set is
  stored. Only the publishing transaction clears it (`OnlyCommitForgets`), under
  the lock.
- `RevokedMeansGone` (`[]RevokedIsGone`), same module, through
  `IdsOK` (the ids in rows have been given out, so Tesla never reopens them:
  `NeverReopened`) and `RevokingOK` (the revoking job holds the row's own id,
  and after its call that id is gone).
- `LinkImplemented` (`ImplementsGuestLink`), same module: initial
  states map to initial states, and every step maps to a step of `GuestLink` or
  a stutter. Job steps withdraw or do nothing, except `Commit`, whose guard
  under `FOR UPDATE` gives `Publish`.
- `LiveIsWatched` (`[]KnownLiveIsWatched`), same module, provided that no worker
  crashes or that there is only one. A row loses its next action in a write that tells
  people, or in the one that records 'revoked', by which time `RevokedIsGone` holds; the
  invariant adds that an expired row never recorded an invitation (`ExpiredIsEmpty`) and,
  for the one worker, that the row of a job on its way to withdraw keeps its next action
  until the last write (`NextOK`), so a crash anywhere leaves it to be claimed again. The
  hypothesis is needed: with two replicas, the second writes `reauth_required` and no
  next action after the first was claimed, the first writes 'revoking' over it and
  crashes before it calls Tesla. TLC finds that behaviour.
- `HandsOutOwn` (`[]HandedOutIsOwn`), same module, while no worker crashes and Tesla drops
  no invitation of its own accord. That a recorded, stored or found id was made for the
  grant (`OwnIds`) rests on the one new invitation in the list being the job's own, and
  that on its being there at all (`MadeOK`): from the answer to the POST until the job
  finds it, nobody else takes it off the list or records it, and what it is compared with
  is the before-set the row saved (`SameBefore`, `BeforeOK`). Each hypothesis is needed:
  after a crash between reservation and POST, or when Tesla drops the invitation
  before the list is read, recovery takes the one the owner made by hand meanwhile. TLC
  finds both.
- `AmbiguousNotRetried` (`[]NeverRetriesAmbiguousCreate`), same module, for one worker that
  may crash and restart anywhere, any number of trips, windows that are not moved, and no
  failure of the token refresh or of a job's last write (and an invitation that lives at
  least a tick). `JobMoves` says once what a step
  of a job makes of `pc` and of its row (`Walks`, `Writes`), and `Apart` that nobody but
  the one worker writes the row of a trip that lives. The invariant (`OnceOK`) is about
  the row's next action: once an invitation was asked for (`Begun`), the row is
  'issuing', so that the next job goes on from the saved before-set, or it is not due
  until the time to revoke. Each restriction is needed (section 3): TLC finds the
  second request with two workers, with an extension, with a failed refresh and with a
  failed last write.
- `RevocationEndsAccess` (`[]RevokedEndsAccess`), same module, for one worker, windows that
  are not moved, no failure of the kinds `tesla` (the list before the POST, the
  withdrawals, the drivers) and `db` (a last write); the refresh may fail. The worker
  withdraws the id the row records, so the invariant (`HeldOK`) says that it is the
  guest's only one: while the trip lives, a row whose link the guest may have read is not
  due, and no job asks for another, until the time to revoke; after a cancellation
  nothing is published, and a second id that reaches the row is off Tesla's list or
  leaves the row in manual review. A driver's link is no longer open, and the job that
  removed the driver knows it (`HeldJob`). Each restriction is needed here too: for the
  window, TLC finds a job claimed before an extension that finds the integration lost and
  writes `next_attempt_at` over the row as it is now, so that the worker invites again.

### EmailAction

- `TypeCorrect` (`[]TypeOK`).
- `BrakeHolds` (`[]DestroysOnlyAfterBrake`), through
  `BrakeOK`: a destructive action that is still open has no deadline; one that
  counts or is carried out has one, and its `processed` was heard; one that is
  carried out is past it. `NextSteps` lists the hops an action's state can make
  in one step, whoever makes it.
- `ApplyingTogether` (`[]ApplyingIsInFlight`): inductive together with the
  type invariant.
- `BrakeImplemented` (`ImplementsOwnerBrake`): refinement by `Stage` and `End`.
  The difficult step is the parse that supersedes an action it has looked at
  before it locked it; `KillsOK` says that from the lock on (`ParseHold`) the
  action is the one looked at, that nobody else holds it, and that it is still
  queued or claimed, so that it is stopped before its brake and never undone.
- `OneAlert` (`[]AlertedOnce`), through `SentOK`: a job about to send is the
  only one there for that action, the delivery is linked, and nothing has been
  sent.

### TeslaIntegration

Under `IntegrationAssumption` (the numbers are naturals, at least one attempt; `None`
and `Charging` are none of the jobs and vehicles).

- `IntegrationTypes` (`[]TypeOK`), through `Typed`: the type and, for each place of a
  job's code, what its record holds there. `JobMoves` states once what any step does to
  the jobs, the lock and the rows.
- `TokenNeverLost` (`[]TokenKept`), through `Held` (whoever is past the lock's
  acquisition holds it) and `InHand` (a spent token in the table means that a job has
  its successor in memory, or that it was lost with its process).
- `StreamsOnRecord` (`[]NoForgottenStream`), through `Watched`: from the lock on, what
  the job knows of the stream is what Tesla has, because only the holder of the lock
  configures, removes or drops a row.

### TripLedger

In `VehicleProofs`, under `LedgerAssumption` (hours and bounds are naturals), for any set
of windows the trip may be moved to, whether or not they end after they start.

- `LedgerTypes` (`[]TypeOK`).
- `OncePerCompletionHolds` (`[]OncePerCompletion`), through `Packaged`: a trip was
  completed once more often than it was reopened while it is completed, as often
  otherwise (`Completions`), and packets and workers about to compose one are together no
  more; what a packet or a worker froze of the pickup is nothing or the bookend on record.
  `CompletionsGrow` says that no writer takes a completion back, and that one who makes a
  trip completed that was not adds one: of the workers whose update finds the trip ripe,
  only one that changes its status composes. `ComposersShrink` and `ComposersGrow` count
  the composers, `FrozenStart` says that the bookend is never rewritten.
- `NeverBack` (`NothingGoesBack`): every write of a start bookend goes through `Keep`,
  every write of the card through `OnCard`.

### The parts of Workspace

`PartSpec` lets one part run, named by `which`; each theorem is about `PartSpec`, its
invariant reads `Runs("...") => ...OK`, and four facts carry it: the part's `Init` gives
the strengthening, each of its steps keeps it, a stutter keeps it, and `which` never
changes (`WhichStays`). The assumptions of `Workspace.tla` are needed where they are
named: counters and times are numbers, sequences have elements of their type, a record
is refused as too late before it is old enough to be swept (`TrailAssumption`), a page of
the Inbox is smaller than a source's query and its rows are finitely many
(`InboxAssumption`), a vehicle's zone has any two offsets (`CardAssumption`), a moment of
the charging is a time since the epoch (`ChargesAssumption`), a job is tried at least once
before it is dead (`MailAssumption`). The
number of workers, syncers, tabs, mailers and replicas is arbitrary, infinite included.

In `GuestProofs`:

- `ProgressHolds`, `FinishedStays` (`FinishedStaysFinished`), through `ProgressOK`: who
  consented has finished on the row as it stands; a post may move the step, never the
  consent, and only a step at the end counts as completed.
- `LinkAlwaysHolds` (`[]LinkHolds`), through `PortalOK`: the encrypted copy is of the
  current token; the link reaches a day past the end, or the trip is a mail's that was
  moved since the link's end was set; a request that was begun asked for the current
  link or an older one, and what it is about to send is none older. Every step is one of
  two shapes: a request becomes another of the same trip (`BecomesOK`), or the trip
  changes and its link is no older (`QuietRequestOK` for the requests that stay).
- `OneGuestAlways` (`[]OneGuestPerAddress`), through `LinkingOK`: a linked trip's guest
  owns its address (`AddressOwned`); what a pass has found is still the owner, or nobody
  is, as long as that guest is there (`FoundOK`); no two passes hold one key and no two
  merges one trip (`KeysApart`, `TripsApart`); the trips a merge holds are its source's
  until it ends (`MergeOK`). None of the five is inductive without the others: a commit
  of a merge moves trips under a pass that has found their guest. That the roster offers
  no merge follows with the least trip of a guest, from the minimum of a set of numbers.
- `BackAlwaysStays` (`[]BackStaysInApp`), through `TraceOK`: every entry of the
  browser's history says at most how many of the app's entries are behind it, and the
  hook's counter is below the place the tab is at.

In `OwnerProofs`:

- `SettingsHold`, `SettingsStay` (`SavedSettingsStay`), through `CopiesHold`: every copy
  in a tab or a request that has the row's version holds every edit of the row, so that
  `saveConfig`'s comparison of `updated_at` is enough; a save makes a new version, which
  outdates every other copy.
- `DomainDetached` (`[]DetachedBeforeForgotten`), through `DomainOK`: while a job runs
  there is a row, because only a removal's own job deletes it, and that job has detached
  the hostname by then.
- `CalendarAgrees` (`[]ConfirmedAgrees`): inductive with the types of what is held in
  memory; the ingest's upsert leaves a candidate confirmed only with the times it has.
- `FleetWordStands` (`[]WordStands`), through `FleetOK`: the owner's word is the row's
  name and is not what Tesla said at the last import, and an import under way started
  from the row as it is. `ShownAsSaid` follows for every aspect of a car.
- `MailNotReadAgain` (`[]PurgedIsNotReadAgain`), through `MailOK`: a purge comes after
  the message is complete and no capture completes it again, so once there is a purge
  the row names no object, and a worker that holds a key read the row before.
- `SignedInAsAsked` (`[]ConnectedAsAsked`), through `LoginOK`: a tab's login is of a
  ticket of its flow, whoever is in it signed in for that ticket, and past the callback
  the place is the ticket's.

In `VehicleProofs`, `LocationAlwaysKept` (`[]LocationKept`), which is of three parts:

- the trail, through `WorldOK` (where access was closed, the trip is cancelled or its grant
  has ended), `StreamOK` (the record in hand is of a time and a trip that `Fits`: consented,
  in a window its grant was given, and not after its access was closed, if it is),
  `RowsOK` (so is every location kept, and each is kept once) and `SweepOK` (what a whole
  sweep was to delete is gone: a late record is refused before it is as old). What fits
  goes on fitting (`FitsStay`) whatever becomes of the trip: windows are only added,
  consent stays, and an access that closes now closes no earlier than `Skew` before
  anything seen so far. `WorldMoves` shows that each of the five changes is of this kind;
- the page, through `ViewOK`, `MemoOK` and `FetchOK` (what is shown, cached or awaited
  was asked since the last failure) and `CardOf` (the card is of the trip its view names,
  and was told of consented trips only);
- the notices, by cases over the reasons Tesla gives.

In `InboxProofs`:

- `NothingIsSkipped` (`[]NothingSkipped`), through `ListOK`. The property is not
  inductive: it says nothing of answers under way. `ReloadOK` says that a reload's answer
  has every row that stood still since it was asked for, `OlderOK` that what the list on
  screen lacks is in, or past, every older page asked for from it, and `Since` that a row
  not touched since the list was asked for is no newer than the paging's snapshot. That a
  page loses nothing is arithmetic of cut-off queries (`FirstAreMany`: what a query's limit
  leaves out comes after as many rows as the limit; `CutOff`, `NothingCut`: since a page
  is smaller than the limit, it comes after the page too). `Tied` is the case of a
  cursor on a mail: the events of its moment are fetched again and dropped, and must not
  use up the limit, which is what `whole` says. So the two exceptions the property names
  are the only ones, for every size of page and of query.
- `CardAlwaysFaithful` (`[]CardKeepsFaith`), through `CardOK`: what has been read since a
  card opened is as new as the action was then (`Reads`), and the decision under way
  sends what its editor held (`DatesAsTyped` itself, from `TypedDates`: away from the
  change of offset, a wall-clock time survives the way to an instant and back).
  The proof showed that the condition "away from the change" has to be stated of the
  instant and of the wall-clock time: stated of one of them it was right east of UTC only.

In `ChargeProofs` and `VehicleProofs`, of the charging, for a history of any length, in
whatever order its points came:

- `ChargesAlwaysAgree` (`[]ChargesAgree`) and `SettledAlways` (`SettledSessionsStay`). What
  must hold of the state is little, `ChargesOK` (the moments are finitely many numbers, an
  invoice states a window); what is difficult is that two programs find the same.
  `ChargeProofs` proves it of `ChargeLedger` by itself, where the provers see few symbols,
  and `VehicleProofs` takes it over as `Sessions`, whose operators are those of `Charges`
  one by one (`SameSegment`, `SameIslands`, `SameCharges`).
- `SegmentIsIslands`: the loop and the islands agree. The loop is a recursion, and what it
  holds after a point is written out without one (`FoldedIs`: the sessions that a row has
  closed by then, and the rows from the last start on). That this is what the recursion
  gives at every point follows with the least point where it would not be. The islands are
  numbered by how many starts lie at or before a row, so they are the sessions of the
  starts (`IslandsIs`), and a session of a start ends at the first row after it that does
  not charge (`ClosedBy`) or goes on at the last row (`GoesOnAtLast`), as in the loop.
- `SettledStays` and `StartsStay`: a point that comes after all others changes no session
  that a row has closed, and no start.
- `BilledHolds`: sums over finite sets are the same in whatever order they are taken
  (`SumsAdd`, by the smallest set for which they would not be); no invoice is matched by
  two sessions (`MatchedOnce`: the longest overlap, and of two that tie the earlier); so
  what the sessions are charged, what an owner's entries replace and what no session takes
  add up to all that was billed.

### The types of the parts

`PartsTyped` (`[]PartsTypeOK`), in `VehicleProofs`: whichever part runs, its tables and
states stay what its module says. It puts together `GuestPartsTyped`, `OwnerPartsTyped`,
`InboxPartsTyped` and `VehiclePartsTyped`, and each of these the invariants above, with
what they had no need of: in the bounds of `BoundsAssumption`, counters and lengths.

Two statements of the types were right on the checked instances only. A card's revision
has no bound but where it starts (`InboxCard`), and a mail job may be tried more often than
the number of faults and purges suggests: a message that cannot be read is tried to the
limit `MaxTries`, and past it once for each worker that died with the job in hand and each
lease that lapsed under one, because the claim of a lapsed lease does not ask for the
limit. `Outbox` says `MaxTries + MaxMailFaults` now, and the proof carries the argument as
`JobFits` and `Spent`: a job that waits has tries left, one whose lease is free has had
fewer than the limit and its faults allow, and on one that has had them all there is a
worker, so that its lease lapses by another fault only.

### Only model-checked

The liveness properties (`EndedAccessIsWithdrawn`, `ConfirmedComesToRest`,
`RetiredVehicleLeaves`, `TripPackaged`, `MoveReachesOwner`, `RoutedIsActivated`,
`MailSettles`): liveness under fairness and `ENABLED` are out of this prover's reach. Every
invariant and every action property of the passing runs is stated by a theorem, some under
the restrictions named above. The library's induction theorems take an operator as a
parameter, which no prover here instantiates; where an induction was needed (the minimum
of a set of numbers, the loop over a history, the sums), it is a least counterexample from
`WFMin`, which takes none.

## 6. Where code and documentation disagree

Shown by a run (quotations and lines in `PROJECT.json`, "findings"):

1. `FindAccessOutlives`: a failure after the link was published makes the worker
   invite again, and the first link outlives the revocation.
2. `FindDisconnectSpins`: a job that was polling when the owner disconnected writes
   Tesla's answer over the removal request, and the disconnect never ends.
3. `FindSilentCancel`: the second sync after a booking was cancelled in Google closes
   the review that the first one asked for, with the trip still live.

Met while modelling, without a run of their own. None of these is a property of a
passing run; where a property is restricted because of one, its comment says so.

### Access grants

- The properties of the one-worker runs fail on larger instances.
  `KnownLiveIsWatched` and `EndedAccessIsWithdrawn` fail with a second replica
  and a crash (a queued job of the other replica revives a row in manual review
  and dies). `RevokedEndsAccess` also fails with a failed revocation and a
  calendar extension, with two trips and an extension, and with two replicas.
  `HandedOutIsOwn` fails with one crash between reservation and POST
  (`lib/owner/access-lifecycle.ts:48-58`). With two replicas, a late job of a lapsed
  claim that finds the lock busy schedules a row that is already `invite_ready`, which
  leads to a second POST (`deploy/onlyevs/README.md:19-20`: "Two replicas are safe").
- `README.md:388` says the worker "never retries an ambiguous create"; a failed list
  followed by a failed token refresh turns an unreconciled create into a fresh POST
  (`index.ts:1198-1211`).
- `index.ts:1078-1079` says a failed cleanup "is surfaced as manual review"; its audit
  row is refused by the table's check on `result`, and the job ends in
  `failed_retryable`.
- `cancel_onlyevs_trip` raises before the access window opens: it sets `revoke_at` to
  now, against `revoke_at > issue_at` (AL 226). Cancelling from the calendar sets
  `revoke_at` to at least `issue_at + 1 second`, which may lie in the future; the
  worker then issues before it revokes (`components/owner/CalendarReviewQueue.tsx:138`).
- `cancel` is called final ("this cannot be undone", `app/owner/trips/[id]/page.tsx:310`),
  but applying a calendar change revives a cancelled trip.
- A job that fails after the owner moved the trip overwrites the new next action with
  now plus five minutes, so an invitation may be issued earlier than the two hours
  `TripAccessCompletion.tsx:69` promises.
- A grant in `reauth_required` is not claimed again, a reconnect included, unless
  another write gives it a next action.
- The consent card reads `?trip=` (`TripAccessCompletion.tsx:9-16`), but every link made
  is `/trip/<token>`: in the private portal `consented_at` is never set, and
  `get_onlyevs_ready_invite` never answers.

### Emails

- `supersede` is called a "no-op … always safe to call speculatively"
  (`email.ts:381-382`), but looks at the action before it locks it (EA 806-824):
  a candidate may read `superseded` although its action then succeeds.
- A rejected owner alert is lost: the delivery trigger has no edge from `sending` or
  `delivery_paused` to `bounced` or `dropped` (EA 260-266), the webhook answers 200,
  and the brake runs out.
- `email.ts:686` completes the outbox row that the webhook has just rescheduled
  (714-716): nothing ends the brake.
- After an abort or a review the candidate can be confirmed again on the screen;
  the unique idempotency key makes that insert raise every time (EA 353, EI 181).
- The comment at EA 842 says every call verifies; the step after the brake checks
  neither the candidate's state nor the integration, so a pause or a purge during
  the brake has no effect.
- A crash between the linking of the delivery and the call to SendGrid leaves the
  action in `awaiting_owner_alert` for ever; so does a send that definitely failed.
- A parse or backfill that had read before a purge writes index and text afterwards
  (`email.ts:1008-1012`); two overlapping deliveries overwrite each other's object, or
  recreate one that was purged; a failed commit may leave attachment bytes unrecorded.

### Tesla integration

- A refused removal parks the row in `error`, and a crash between the row's deletion and
  `finishTeslaDisconnect` leaves `disconnecting` with no row to end it.
- Removing the last enrollment of a retired vehicle deletes the credentials of an
  integration that is still connected.
- Rows in `missing_key`, `firmware` or `limit` have retries that no claim returns
  (`telemetry-policy.ts:153-164`); a reconnect does not revive rows in `error`;
  `attempt_count` is never reset.
- A persisted rotation may overwrite what the owner has just reconnected, and a crash
  between refresh and persist loses the token. A removal without context is retried
  without being counted.

### Calendar, trips, domains

- Dismissing or disconnecting hides later changes of a confirmed event; the owner's
  decisions act on the row as it is, not as the screen showed it; the sync's catch sets
  a disconnected integration to `degraded` or `reauth_required`.
- "composes exactly once" (`index.ts:2300`; 727-731: "only ever called once per trip"):
  applying a change of the calendar takes a completed trip back to active or confirmed
  (AL 1281-1285), and it is packaged a second time when it is completed again; and a
  change applied when the new end is past completes the trip itself, so that it has no
  packet. `OncePerCompletion` and `TripPackaged` say what holds instead. The owner's
  cancellation leaves the candidate confirmed, so a later change revives the trip.
- The worker's status update asks of a row it has waited for only whether its status is
  another (`index.ts:2321`): a cancellation, a completion or a reschedule that commits
  between its snapshot and its write is overwritten with the status of the old schedule.
- A mail's `apply_update` (EA 596-604) moves the trip's end and not `token_expires_at`:
  the link may die before the trip, though `rotate_onlyevs_trip_public_token` refuses
  such a link. `LinkHolds` excepts it by name. The trip's reminders stop with the link.
- A packet is lost when its worker dies between the status update and the composition;
  the end bookend may be rewritten after the packet froze it; a record whose ingest
  raised is committed as consumed.
- "Domain removal queued" (`WorkspaceDomains.tsx:88`): a running job's update may
  overwrite the removal. Rows in `active` or `error` are never rechecked. With two
  replicas and a lapsed claim, a removal can overtake a slow add.
- A reminder stays `pending` for ever after a crash or a failed receipt. When SendGrid's
  answer is lost it is recorded as failed though delivered, and the retry sends twice.
- After a reschedule AL 1279 extends the token but not the copy's `destroy_after`:
  reminders become unavailable until the link is rotated. A lost answer of a creation or
  rotation loses the link's only plain text.

### Locations

- The comment over the lookup says location is turned off at the source within "up to 5
  minutes" (`index.ts` 2085-2086); an active enrollment is next polled after twelve hours,
  and neither consent nor revocation brings `next_action_at` forward. When the answer to a
  configuration with location is lost and the grant ends before the retry, the applied
  hash already equals the wanted one and Tesla keeps sending. The lookup drops it all the
  same, which is what `EndedIsEnded` checks.
- A record observed while two trips' grants overlap, consumed after the first has ended,
  is kept for the second if its guest has agreed by then, though not when it was observed.
- A packet of a trip longer than 30 days, or composed before late records, undercounts the
  points out of area.

### Charging

- A record that says nothing of charging closes an open session
  (`charge-sessions.ts:46-47`, against 8-12). A gap right before the closing point is not
  flagged.
- "A resync never double-counts" (`index.ts:1687-1688`): an invoice without a provider
  id is keyed by its content, and counts twice when Tesla restates it.
- An owner's correction is keyed on the session's start and orphaned by a late point
  before it. The packet attributes a session to its own trip, the pages to the earliest
  trip it touches. Invoices that start before the read window are dropped.

### Guests

- The audit row of a merge may miss a trip linked between its read and the update
  (PK 986-987: "always has the exact set that moved"), and two merges of one source both
  answer with counts.
- The merge is offered only for rows that share an address (`drivers/[id]/page.tsx`
  186-214), which linking by exact address never leaves: the tool that repairs splits
  (PK 391-393) cannot be reached from the page. A Tesla key recorded after linking is
  never attached.
- One tenant page's tab publishes under another booking's token, because `TRIP_KEY` is
  shared (`progress-bridge.ts:11-14`). After a rotation an open tab keeps posting with
  the dead token; a last post that fails is not retried; two tabs overwrite each other's
  whole state.
- The browser's history and the walk's state may drift apart by one entry after a double
  Back.

### The owner's pages

- `GuestVehicleSync` of one tab may link a vehicle that another retires, a stale cache
  may publish an older specification (`TenantSettingsForm.tsx:159-160` says never), and
  saves of battery, home area and rate bump the settings' lock: conflicts over nothing.
- A save made during an import of several cars is lost (`import-mapping.ts:81-83`); an
  import while the car sleeps erases what Tesla had said; a conflicting interior code
  returns through `config.x ?? vehicle.x` (`tesla-vehicle-config.ts:407-410`); a stale
  form freezes a field nobody touched.
- Two tabs' logins overwrite each other's state cookie and both may fail. The page after
  an import shows the active workspace, not the one the login was for. An integration
  may be stored while its import session failed, under "couldn't securely save".
- The phone's footer passes `correcting={false}` (`OwnerInbox.tsx:670`): a confirm from a
  phone never sends the dates the editor took ("Correct the trip dates before
  confirming", 552-577). `DatesAsTyped` speaks of wide cards only because of it.
- An older page that lands after a reload leaves a gap; a failed reload leaves the cursor
  empty, so that "Load older" appends the first page again; 151 or more events at one
  time use up the calendar query (`email-inbox-repository.ts:24-30`). `NothingSkipped`
  leaves these out by name.
- A card shut and opened again under a read keeps the first opening's answer, against the
  comment of `open` (181-189); after a revision conflict nothing reloads, so retries keep
  failing; an untouched date is sent shifted around a clock change; each consumer of
  `useMinuteTicker` has a clock of its own (`UrgentActionPanel.tsx:146-150`).

- A failure is closed only when its answer is still awaited: a read that fails after its
  page was left, or after the next refresh began, clears nothing (`use-owner-data.ts`
  170), and a read slower than 30 seconds is always overtaken by the next. That next
  refresh clears the error before it has an answer, so an empty page looks loaded.
- "visible only during an active, guest-consented trip window" (`vehicles/[id]/page.tsx`
  257): the card's location is read once per vehicle, not per trip
  (`telemetry-active-trip-card.tsx` 82), and stays on the card of a trip that follows
  directly. `ShowsItsOwn` therefore asks only for a consented trip.
- A refused location read answers 403 and is shown as "couldn't be read"
  (`telemetry-view.ts` 366), although `denied` is to read as not available (322-324).
- While the enrollment row is read, the live card shows the copy of a vehicle without one,
  with its action. `telemetry_region_not_configured`, a deployment's own error
  (`telemetry-policy.ts` 130-133), is shown as "Reconnect Tesla to retry".

## 7. What is not modelled

- Cryptography, parsing of Turo mail, HTTP clients and rendering: their results
  enter as choices (a call fails, facts are refused). The key ring and its
  re-encryption change no state the properties see.
- Row-level security and the sign-in to the app: every action is taken by a party
  allowed to, except in `TeslaConnect`, where an admin may stop being one.
- Read receipts of workspace mail (one row, one statement); the values a telemetry
  record carries, vehicle alerts and the connectivity flag; the pages of a charging
  sync.
- The lessons' content, uploads, landing pages, and the rendering of owner pages.
- Calendar events without an edit time in the Inbox's paging (2.14), the start of a trip
  in `TripPortal`, and, in `LocationTrail`, who cancelled a trip.
- Durations below a tick, numbers of rows per pass, connection-pool limits.

## 8. What is left

- An abstract specification of the ledger's packet and of the telemetry store (the
  latest value by `observed_at`), with `TripLedger` shown to implement it.
- Two replicas in `CustomDomain`, and two vehicles in the run of `TeslaIntegration`
  (the theorems cover them; the liveness does not).
- The connectivity flag and alerts of telemetry ingest.

## 9. Running the checks

```
tlc -workers 2 -config EmailSafety.cfg MCEmailAction.tla
tlc -workers 2 -config Workspace.cfg MCWorkspace.tla
tlapm GuestProofs.tla
```

Each run is one `.cfg`, named after it, with the module `PROJECT.json` names:
`MCAccessGrant` (`Access...`, `FindAccessOutlives`), `MCEmailAction` (`Email...`),
`TeslaIntegration` (`TeslaIntegration`, `FindDisconnectSpins`), `MCWorkspace`
(`Workspace...`) or `CalendarSync` (`FindSilentCancel`). `Workspace` takes two to
three minutes, the others from a few seconds to a minute; one part of it alone is
checked by naming it in `Parts`. The proofs of a module take a few minutes.

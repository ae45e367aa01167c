----------------------------- MODULE MailArchive -----------------------------
(***************************************************************************)
(* One message of the workspace's mail, from the sender's first attempt to *)
(* its purge: the capture handler (services/email-ingest-worker), the row, *)
(* the objects in R2, the parse, backfill and purge jobs                   *)
(* (services/onlyevs-worker/email.ts), the retention sweep and the purge   *)
(* a manager asks for.                                                     *)
(*                                                                         *)
(* What is in R2 and what is in Postgres change in different steps, and a  *)
(* job reads the row, fetches the object and commits in steps of its own.  *)
(* The message has one attachment.  Leases may lapse under a slow worker.  *)
(***************************************************************************)
EXTENDS Naturals, Sequences

CONSTANTS
    Mailers,       \* replicas of onlyevs-worker
    Deliveries,    \* attempts of the sender to deliver the message
    Nobody,        \* null
    MaxTries,      \* attempts of an outbox job before it is dead
    MaxPurges,     \* bound: purges of the message
    MaxMailFaults  \* bound: failed calls, crashes, lapsed leases

VARIABLES
    inbound,    \* onlyevs_inbound_emails: state, lease, and whose bytes its
                \* hashes and r2_object_key describe
    delivery,   \* where each attempt to deliver is
    envelope,   \* the encrypted message in R2: whose bytes
    files,      \* the encrypted attachment is in R2
    index,      \* the message's row in the index, with its attachment's
    body,       \* the message's text in its candidate
    parseJob,   \* the parse job in onlyevs_email_outbox
    purges,     \* the purge audit, with each row's job in the outbox
    mailer,     \* what each replica is doing, and what it has read
    mailFaults

vars == <<inbound, delivery, envelope, files, index, body, parseJob, purges,
          mailer, mailFaults>>
objects == <<envelope, files>>
text == <<index, body>>

NoOutbox == [state |-> "absent", tries |-> 0, leased |-> FALSE]
Off == [at |-> "idle", job |-> "none", copy |-> Nobody, keys |-> {}, purged |-> 0]

Init ==
    /\ inbound = [state |-> "absent", leased |-> FALSE, of |-> Nobody]
    /\ delivery = [d \in Deliveries |-> "waiting"]
    /\ envelope = Nobody /\ files = FALSE /\ index = FALSE /\ body = "none"
    /\ parseJob = NoOutbox /\ purges = <<>>
    /\ mailer = [m \in Mailers |-> Off] /\ mailFaults = 0

Fault == mailFaults < MaxMailFaults /\ mailFaults' = mailFaults + 1
NoFault == UNCHANGED mailFaults

(***************************************************************************)
(* Capture: authorize, init, put, finalize.  A step that fails rejects the *)
(* message, or accepts it when it was forwarded before.                    *)
(***************************************************************************)
Phase(d, from, to) == delivery[d] = from /\ delivery' = [delivery EXCEPT ![d] = to]

\* the same Message-ID resolves to the row there is
Authorize(d) ==
    /\ Phase(d, "waiting", "authorized")
    /\ inbound' = IF inbound.state = "absent"
                    THEN [inbound EXCEPT !.state = "authorized"] ELSE inbound
    /\ NoFault /\ UNCHANGED <<objects, text, parseJob, purges, mailer>>

Initialize(d) ==
    /\ Phase(d, "authorized", "initialized")
    /\ inbound.state \in {"authorized", "storing"}
    /\ inbound' = [inbound EXCEPT !.state = "storing"]
    /\ NoFault /\ UNCHANGED <<objects, text, parseJob, purges, mailer>>

PutEnvelope(d) ==
    /\ Phase(d, "initialized", "put")
    /\ envelope' = d
    /\ NoFault /\ UNCHANGED <<inbound, files, text, parseJob, purges, mailer>>

\* its answer may be lost
Finalize(d) ==
    /\ inbound.state = "storing"
    /\ inbound' = [inbound EXCEPT !.state = "queued", !.of = d]
    /\ parseJob' = [NoOutbox EXCEPT !.state = "pending"]
    /\ \/ Phase(d, "put", "accepted") /\ NoFault
       \/ Phase(d, "put", "rejected") /\ Fault
    /\ UNCHANGED <<objects, text, purges, mailer>>

CaptureFails(d) ==
    /\ \/ delivery[d] \in {"authorized", "initialized", "put"} /\ Fault
       \/ /\ \/ delivery[d] = "authorized" /\ inbound.state \notin {"authorized", "storing"}
             \/ delivery[d] = "put" /\ inbound.state # "storing"
          /\ NoFault
    /\ \E answer \in {"accepted", "rejected"} : Phase(d, delivery[d], answer)
    /\ UNCHANGED <<inbound, objects, text, parseJob, purges, mailer>>

(***************************************************************************)
(* The outbox: claim_onlyevs_due_email and its leases.                     *)
(***************************************************************************)
Now(m, what) == mailer' = [mailer EXCEPT ![m] = what]
Working(job) == \E m \in Mailers : mailer[m].job = job

\* Mutant: a job whose worker died with it is not claimed again.
MutDue(job) == job.state \in {"pending", "failed"}
Due(job) == job.state \in {"pending", "failed", "claimed"} /\ ~job.leased

Claimed(job) == [state |-> "claimed", tries |-> job.tries + 1, leased |-> TRUE]

Failed(job) ==
    [job EXCEPT !.state = IF job.tries >= MaxTries THEN "dead" ELSE "failed",
                !.leased = FALSE]
Completed(job) == [job EXCEPT !.state = "completed", !.leased = FALSE]

\* a lease lapses once its worker is gone, or is too slow
Lapses(job) == (NoFault /\ ~Working(job)) \/ Fault
LapseParse == /\ parseJob.leased /\ Lapses("parse")
              /\ parseJob' = [parseJob EXCEPT !.leased = FALSE]
              /\ UNCHANGED <<inbound, delivery, objects, text, purges, mailer>>
LapseBackfill == /\ inbound.leased /\ Lapses("backfill")
                 /\ inbound' = [inbound EXCEPT !.leased = FALSE]
                 /\ UNCHANGED <<delivery, objects, text, parseJob, purges, mailer>>
LapsePurge == /\ \E n \in DOMAIN purges :
                   /\ purges[n].job.leased
                   /\ purges' = [purges EXCEPT ![n].job.leased = FALSE]
              /\ Lapses("purge")
              /\ UNCHANGED <<inbound, delivery, objects, text, parseJob, mailer>>

(***************************************************************************)
(* processParseJob and processIndexBackfillRow.                            *)
(***************************************************************************)
ClaimParse(m) ==
    /\ mailer[m] = Off /\ Due(parseJob)
    /\ parseJob' = Claimed(parseJob)
    /\ Now(m, [Off EXCEPT !.at = "claimed", !.job = "parse"])
    /\ NoFault /\ UNCHANGED <<inbound, delivery, objects, text, purges>>

\* the row is read, and marked if it is still queued
SelectRow(m) ==
    /\ mailer[m].at = "claimed" /\ mailer[m].job = "parse"
    /\ Now(m, [mailer[m] EXCEPT !.at = "selected", !.copy = inbound.of,
                                !.purged = Len(purges)])
    /\ inbound' = IF inbound.state = "queued"
                    THEN [inbound EXCEPT !.state = "processing", !.leased = TRUE]
                    ELSE inbound
    /\ NoFault /\ UNCHANGED <<delivery, objects, text, parseJob, purges>>

\* a classified message without an index row; nothing to do once it is purged
ClaimBackfill(m) ==
    /\ mailer[m] = Off
    /\ inbound.state = "classified" /\ ~index /\ ~inbound.leased /\ inbound.of # Nobody
    /\ inbound' = [inbound EXCEPT !.leased = TRUE]
    /\ Now(m, [Off EXCEPT !.at = "selected", !.job = "backfill", !.copy = inbound.of,
                          !.purged = Len(purges)])
    /\ NoFault /\ UNCHANGED <<delivery, objects, text, parseJob, purges>>

\* loadAndDecrypt: the object must be there, and be the one the row describes
Readable(m) == mailer[m].copy # Nobody /\ envelope = mailer[m].copy

Fetch(m) ==
    /\ mailer[m].at = "selected" /\ Readable(m)
    /\ Now(m, [mailer[m] EXCEPT !.at = "fetched"])
    /\ NoFault /\ UNCHANGED <<inbound, delivery, objects, text, parseJob, purges>>

\* the transaction is open, and keeps a purge from the row until it ends
StoreFiles(m) ==
    /\ mailer[m].at = "fetched"
    /\ files' = TRUE /\ Now(m, [mailer[m] EXCEPT !.at = "stored"])
    /\ NoFault /\ UNCHANGED <<inbound, delivery, envelope, text, parseJob, purges>>

Commit(m) ==
    /\ mailer[m].at = "stored"
    /\ index' = TRUE
    /\ IF mailer[m].job = "parse"
         THEN /\ body' = IF body = "none" THEN "kept" ELSE body
              /\ inbound' = IF inbound.state = "processing"
                              THEN [inbound EXCEPT !.state = "classified", !.leased = FALSE]
                              ELSE inbound
              /\ parseJob' = IF parseJob.state = "claimed" THEN Completed(parseJob)
                                                           ELSE parseJob
         ELSE /\ inbound' = [inbound EXCEPT !.leased = FALSE]
              /\ UNCHANGED <<body, parseJob>>
    /\ Now(m, Off)
    /\ NoFault /\ UNCHANGED <<delivery, objects, purges>>

\* the catch: the transaction is rolled back, what was put in R2 is not
ReadFails(m) ==
    /\ mailer[m].job \in {"parse", "backfill"}
    /\ Fault \/ (mailer[m].at = "selected" /\ ~Readable(m) /\ NoFault)
    /\ IF mailer[m].job = "parse"
         THEN parseJob' = Failed(parseJob) /\ UNCHANGED inbound
         ELSE inbound' = [inbound EXCEPT !.leased = FALSE] /\ UNCHANGED parseJob
    /\ Now(m, Off)
    /\ UNCHANGED <<delivery, objects, text, purges>>

(***************************************************************************)
(* Purge: one transaction for the rows, the objects after it.              *)
(***************************************************************************)
\* Mutant: the row keeps its key after the purge.
MutUnkeyed == inbound
Unkeyed == [inbound EXCEPT !.of = Nobody]

Keys == {k \in {"envelope", "files"} : IF k = "files" THEN index ELSE inbound.of # Nobody}

Purge ==
    /\ Len(purges) < MaxPurges
    /\ \A m \in Mailers : mailer[m].at # "stored"
    /\ index' = FALSE
    /\ body' = IF body = "kept" THEN "scrubbed" ELSE body
    /\ inbound' = Unkeyed
    /\ purges' = Append(purges, [keys |-> Keys, job |-> [NoOutbox EXCEPT !.state = "pending"]])
    /\ NoFault /\ UNCHANGED <<delivery, objects, parseJob>>

\* the retention window is over
SweepRetention(m) ==
    /\ mailer[m] = Off /\ inbound.of # Nobody
    /\ Purge
    /\ Now(m, [Off EXCEPT !.at = "deleting", !.job = "sweep", !.keys = Keys])

\* purge_onlyevs_email_message, _reservation and _guest
ManagerPurge ==
    /\ index \/ body # "none"
    /\ Purge
    /\ UNCHANGED mailer

\* deleteR2ObjectsWithReport: each key on its own
Deleted(keys) ==
    /\ envelope' = IF "envelope" \in keys THEN Nobody ELSE envelope
    /\ files' = (files /\ "files" \notin keys)

DeleteInline(m) ==
    /\ mailer[m].job = "sweep"
    /\ \/ Deleted(mailer[m].keys) /\ NoFault
       \/ (\E some \in SUBSET mailer[m].keys : Deleted(some)) /\ Fault
    /\ Now(m, Off)
    /\ UNCHANGED <<inbound, delivery, text, parseJob, purges>>

ClaimPurge(m) ==
    /\ mailer[m] = Off
    /\ \E n \in DOMAIN purges :
         /\ Due(purges[n].job)
         /\ purges' = [purges EXCEPT ![n].job = Claimed(purges[n].job)]
         /\ Now(m, [Off EXCEPT !.at = "deleting", !.job = "purge", !.purged = n,
                               !.keys = purges[n].keys])
    /\ NoFault /\ UNCHANGED <<inbound, delivery, objects, text, parseJob>>

\* processPurgeJob: one key that fails fails the job
RunPurge(m) ==
    /\ mailer[m].job = "purge"
    /\ LET n == mailer[m].purged IN
         \/ /\ Deleted(mailer[m].keys) /\ NoFault
            /\ purges' = [purges EXCEPT ![n].job = Completed(purges[n].job)]
         \/ /\ (\E some \in SUBSET mailer[m].keys : Deleted(some)) /\ Fault
            /\ purges' = [purges EXCEPT ![n].job = Failed(purges[n].job)]
    /\ Now(m, Off)
    /\ UNCHANGED <<inbound, delivery, text, parseJob>>

CrashMailer(m) ==
    /\ mailer[m] # Off /\ Fault /\ Now(m, Off)
    /\ UNCHANGED <<inbound, delivery, objects, text, parseJob, purges>>

Captures(d) == Authorize(d) \/ Initialize(d) \/ PutEnvelope(d) \/ Finalize(d) \/ CaptureFails(d)
Reads(m) == ClaimParse(m) \/ SelectRow(m) \/ ClaimBackfill(m) \/ Fetch(m) \/ StoreFiles(m)
            \/ Commit(m) \/ ReadFails(m)
Deletes(m) == DeleteInline(m) \/ ClaimPurge(m) \/ RunPurge(m)
Goes(m) == \/ SelectRow(m) \/ Fetch(m) \/ StoreFiles(m) \/ Commit(m) \/ ReadFails(m)
           \/ DeleteInline(m) \/ RunPurge(m)
Leases == LapseParse \/ LapseBackfill \/ LapsePurge
Next == \/ \E d \in Deliveries : Captures(d)
        \/ \E m \in Mailers : Reads(m) \/ Deletes(m) \/ SweepRetention(m) \/ CrashMailer(m)
        \/ ManagerPurge \/ Leases

\* a worker goes on with its job and, free, takes each kind of job in turn
Fairness ==
    /\ \A m \in Mailers :
         /\ WF_vars(Goes(m))
         /\ SF_vars(ClaimParse(m)) /\ SF_vars(ClaimPurge(m))
    /\ WF_vars(LapseParse) /\ WF_vars(LapsePurge)

Spec == Init /\ [][Next]_vars
FairSpec == Spec /\ Fairness

(***************************************************************************)
(* Properties.                                                             *)
(***************************************************************************)
\* a job is tried once more for each lease that lapsed and each worker that died
Outbox == [state : {"absent", "pending", "claimed", "failed", "completed", "dead"},
           tries : 0 .. MaxTries + MaxMailFaults, leased : BOOLEAN]
ObjectKeys == {"envelope", "files"}

TypeOK ==
    /\ inbound \in [state : {"absent", "authorized", "storing", "queued", "processing",
                             "classified"},
                    leased : BOOLEAN, of : Deliveries \cup {Nobody}]
    /\ delivery \in [Deliveries -> {"waiting", "authorized", "initialized", "put",
                                    "accepted", "rejected"}]
    /\ envelope \in Deliveries \cup {Nobody} /\ files \in BOOLEAN
    /\ index \in BOOLEAN /\ body \in {"none", "kept", "scrubbed"}
    /\ parseJob \in Outbox
    /\ Len(purges) <= MaxPurges
    /\ \A n \in DOMAIN purges : purges[n] \in [keys : SUBSET ObjectKeys, job : Outbox]
    /\ mailer \in [Mailers -> [at : {"idle", "claimed", "selected", "fetched", "stored", "deleting"},
                               job : {"none", "parse", "backfill", "purge", "sweep"},
                               copy : Deliveries \cup {Nobody}, keys : SUBSET ObjectKeys,
                               purged : 0 .. MaxPurges]]
    /\ mailFaults <= MaxMailFaults

\* A purged message is not read again: what a worker decrypts is of a row it
\* read before the first purge, however many jobs are retried, reclaimed or
\* backfilled afterwards and however long the bytes stay in R2
\* (executeEmailPurge nulls the row's key in the purge's own transaction).
PurgedIsNotReadAgain ==
    \A m \in Mailers : mailer[m].at \in {"fetched", "stored"} => mailer[m].purged = 0

GivenUp(n) == purges[n].job.state = "dead"
Gone(key) == IF key = "envelope" THEN envelope = Nobody ELSE ~files

\* Every object an open purge names is deleted from R2, or the purge's job is dead
\* and says so, whatever dies or fails between the transaction and the last
\* object (executeEmailPurge, processPurgeJob).
PurgedBytesGo ==
    \A n \in 1 .. MaxPurges :
      n \in DOMAIN purges /\ purges[n].job.state # "completed"
        ~> /\ n \in DOMAIN purges
           /\ GivenUp(n) \/ \A key \in purges[n].keys : Gone(key)

\* Every captured message is classified, or its job is dead, or it was purged
\* first, whichever worker dies with it (processParseJob and its leases).
CapturedIsRead ==
    inbound.state = "queued"
      ~> inbound.state = "classified" \/ parseJob.state = "dead" \/ purges # <<>>

\* Both: the mail's work comes to its end, whatever dies or fails on the way.
MailSettles == PurgedBytesGo /\ CapturedIsRead
=============================================================================

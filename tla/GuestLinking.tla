---------------------------- MODULE GuestLinking ----------------------------
(***************************************************************************)
(* The durable guests of a workspace: the worker's sweep that links a trip *)
(* to a guest by the exact keys of its binding (services/onlyevs-worker/   *)
(* index.ts, private.link_onlyevs_trip_to_guest), and the managers' merge  *)
(* of two guests (public.merge_onlyevs_guests).                            *)
(*                                                                         *)
(* The transactions read committed rows, statement by statement.  What     *)
(* blocks one is said in its guard; a transaction that breaks a foreign    *)
(* key, or is chosen to end a deadlock, leaves nothing behind.             *)
(* The page offers a merge only for rows that share an address (Offered);  *)
(* the function takes any two guests, and so does Merge.                   *)
(***************************************************************************)
EXTENDS Integers

CONSTANTS Sweepers,    \* the worker's replicas
          Managers,
          MailOf,      \* MailOf[t] \in 1 .. : the address of trip t's guest
          Signers,     \* bound: the trips whose guests may sign in at Tesla
          MaxGuests,   \* bound: guests ever made
          MaxMerges    \* bound: merges asked for

VARIABLES
    listed,     \* the trips there are, with their bindings
    signed,     \* the trips whose guest has signed in at Tesla, with one account
    guestOf,    \* onlyevs_trips.guest_id: 0 is null
    owner,      \* onlyevs_guest_identity_keys, key to guest: 0 is no row
    guests,     \* onlyevs_guests
    made,       \* how many ids have been given
    backfilled, \* the migration has run
    sweeper,    \* each replica's pass: the trips left, those read as signed in, one in hand
    merger,     \* each manager's merge
    merges

vars == <<listed, signed, guestOf, owner, guests, made, backfilled, sweeper, merger, merges>>

Trips   == DOMAIN MailOf
Account == 0
Keys    == {Account} \cup {MailOf[t] : t \in Trips}

Resting  == [todo |-> {}, seen |-> {}, trip |-> 0, found |-> 0]
NoMerge == [at |-> "page", source |-> 0, target |-> 0, moved |-> {}]

Init ==
    /\ listed = {} /\ signed = {} /\ guests = {} /\ made = 0 /\ merges = 0
    /\ guestOf = [t \in Trips |-> 0] /\ owner = [k \in Keys |-> 0]
    /\ backfilled = FALSE
    /\ sweeper = [w \in Sweepers |-> Resting]
    /\ merger = [m \in Managers |-> NoMerge]

(***************************************************************************)
(* Trips, sign-ins and the migration.                                      *)
(***************************************************************************)
CreateTrip(t) ==
    /\ listed = 1 .. t - 1 /\ listed' = 1 .. t
    /\ UNCHANGED <<signed, guestOf, owner, guests, made, backfilled, sweeper, merger, merges>>

Consent(t) ==
    /\ t \in (listed \cap Signers) \ signed /\ signed' = signed \cup {t}
    /\ UNCHANGED <<listed, guestOf, owner, guests, made, backfilled, sweeper, merger, merges>>

\* a guest for every address; the account is left to nobody
Backfill ==
    /\ ~backfilled /\ backfilled' = TRUE
    /\ LET mails == {MailOf[t] : t \in listed}
       IN  /\ guests' = mails
           /\ owner' = [k \in Keys |-> IF k \in mails THEN k ELSE 0]
           /\ guestOf' = [t \in Trips |-> IF t \in listed THEN MailOf[t] ELSE 0]
           /\ made' = IF mails = {} THEN 0 ELSE CHOOSE n \in mails : \A k \in mails : k <= n
    /\ UNCHANGED <<listed, signed, sweeper, merger, merges>>

(***************************************************************************)
(* sweepGuestLinking: the candidates, then one transaction for each.       *)
(***************************************************************************)
KeysOf(w, t) == {MailOf[t]} \cup (IF t \in sweeper[w].seen THEN {Account} ELSE {})

\* Mutant: the transaction takes no lock on its keys.
MutHeld(w) == {}
Held(w) == IF sweeper[w].trip = 0 THEN {} ELSE KeysOf(w, sweeper[w].trip)

ReadCandidates(w) ==
    /\ backfilled /\ sweeper[w] = Resting
    /\ LET todo == {t \in listed : guestOf[t] = 0}
       IN  /\ todo # {}
           /\ sweeper' = [sweeper EXCEPT ![w].todo = todo, ![w].seen = signed \cap todo]
    /\ UNCHANGED <<listed, signed, guestOf, owner, guests, made, backfilled, merger, merges>>

\* the address comes before the account
Find(w, t) ==
    /\ sweeper[w].trip = 0 /\ t \in sweeper[w].todo
    /\ \A v \in Sweepers \ {w} : Held(v) \cap KeysOf(w, t) = {}
    /\ sweeper' = [sweeper EXCEPT ![w].todo = @ \ {t}, ![w].trip = t,
                     ![w].found = IF owner[MailOf[t]] = 0 /\ t \in sweeper[w].seen
                                    THEN owner[Account] ELSE owner[MailOf[t]]]
    /\ UNCHANGED <<listed, signed, guestOf, owner, guests, made, backfilled, merger, merges>>

\* the guest, its keys where they are free, and the trip: at the commit
Link(w) ==
    LET t == sweeper[w].trip
        g == IF sweeper[w].found = 0 THEN made + 1 ELSE sweeper[w].found
    IN  /\ t # 0 /\ \A m \in Managers : t \notin merger[m].moved
        /\ sweeper[w].found = 0 => made < MaxGuests
        /\ IF sweeper[w].found \in guests \cup {0}
             THEN /\ guests' = guests \cup {g}
                  /\ made' = IF g > made THEN g ELSE made
                  /\ owner' = [k \in Keys |-> IF k \in KeysOf(w, t) /\ owner[k] = 0
                                                THEN g ELSE owner[k]]
                  /\ guestOf' = [guestOf EXCEPT ![t] = g]
                  /\ sweeper' = [sweeper EXCEPT ![w].trip = 0, ![w].found = 0,
                                   ![w].seen = @ \cap sweeper[w].todo]
             ELSE /\ sweeper' = [sweeper EXCEPT ![w] = Resting]
                  /\ UNCHANGED <<guests, made, owner, guestOf>>
        /\ UNCHANGED <<listed, signed, backfilled, merger, merges>>

\* the replica dies, or the database fails it
Abandon(w) ==
    /\ sweeper[w] # Resting /\ sweeper' = [sweeper EXCEPT ![w] = Resting]
    /\ UNCHANGED <<listed, signed, guestOf, owner, guests, made, backfilled, merger, merges>>

(***************************************************************************)
(* merge_onlyevs_guests, of any two guests.                                *)
(***************************************************************************)
Of(g) == {t \in Trips : guestOf[t] = g}

\* both are there: the trips and keys are read and written to the audit
Merge(m, source, target) ==
    /\ merger[m].at = "page" /\ source # target
    /\ merges < MaxMerges /\ merges' = merges + 1
    /\ backfilled /\ {source, target} \subseteq guests
    /\ merger' = [merger EXCEPT ![m].at = "audited", ![m].source = source, ![m].target = target]
    /\ UNCHANGED <<listed, signed, guestOf, owner, guests, made, backfilled, sweeper>>

RolledBack(m) ==
    /\ merger' = [merger EXCEPT ![m] = NoMerge]
    /\ UNCHANGED <<guestOf, owner, guests>>

\* the update of the trips waits for their rows, and then holds them and the target's
Repoint(m) ==
    LET trips == Of(merger[m].source)
    IN  /\ merger[m].at = "audited"
        /\ \A n \in Managers \ {m} : merger[n].moved \cap trips = {}
        /\ IF trips = {} \/ merger[m].target \in guests
             THEN /\ merger' = [merger EXCEPT ![m].at = "repointed", ![m].moved = trips]
                  /\ UNCHANGED <<guestOf, owner, guests>>
             ELSE RolledBack(m)
        /\ UNCHANGED <<listed, signed, made, backfilled, sweeper, merges>>

\* the keys, the source's row and the commit: a trip that still names the source fails it
Finish(m) ==
    LET source == merger[m].source
        target == merger[m].target
        moved  == merger[m].moved
        keys   == {k \in Keys : owner[k] = source}
    IN  /\ merger[m].at = "repointed"
        /\ \A n \in Managers : merger[n].moved # {} => merger[n].target # source
        /\ IF Of(source) \subseteq moved /\ (keys = {} \/ target \in guests)
             THEN /\ guests' = guests \ {source}
                  /\ owner' = [k \in Keys |-> IF k \in keys THEN target ELSE owner[k]]
                  /\ guestOf' = [t \in Trips |-> IF t \in moved THEN target ELSE guestOf[t]]
                  /\ merger' = [merger EXCEPT ![m] = NoMerge]
             ELSE RolledBack(m)
        /\ UNCHANGED <<listed, signed, made, backfilled, sweeper, merges>>

\* a merge that the database ends, of two that wait for each other, say
GiveUp(m) ==
    /\ merger[m].at # "page" /\ RolledBack(m)
    /\ UNCHANGED <<listed, signed, made, backfilled, sweeper, merges>>

Next == \/ Backfill
        \/ \E t \in Trips : CreateTrip(t) \/ Consent(t)
        \/ \E w \in Sweepers : \/ ReadCandidates(w) \/ Link(w) \/ Abandon(w)
                               \/ \E t \in Trips : Find(w, t)
        \/ \E m \in Managers : \/ Repoint(m) \/ Finish(m) \/ GiveUp(m)
                               \/ \E s, t \in guests : Merge(m, s, t)

Spec == Init /\ [][Next]_vars

TypeOK ==
    /\ listed \subseteq Trips /\ signed \subseteq listed
    /\ guests \subseteq 1 .. MaxGuests /\ made \in 0 .. MaxGuests
    /\ guestOf \in [Trips -> guests \cup {0}] /\ owner \in [Keys -> guests \cup {0}]
    /\ backfilled \in BOOLEAN /\ merges \in 0 .. MaxMerges
    /\ sweeper \in [Sweepers -> [todo : SUBSET Trips, seen : SUBSET Trips,
                                 trip : Trips \cup {0}, found : 0 .. MaxGuests]]
    /\ merger \in [Managers -> [at : {"page", "audited", "repointed"},
                                source : 0 .. MaxGuests, target : 0 .. MaxGuests,
                                moved : SUBSET Trips]]

(***************************************************************************)
(* The drivers' roster, as a reader of the committed rows has it: a row    *)
(* for each guest a trip links to, with the address of the latest trip,    *)
(* here the highest; and the pairs of guests whose rows share an address,  *)
(* which the page offers to merge.                                         *)
(***************************************************************************)
Rows       == {g \in guests : Of(g) # {}}
Address(g) == MailOf[CHOOSE t \in Of(g) : \A u \in Of(g) : u <= t]
Offered    == {p \in Rows \X Rows : p[1] # p[2] /\ Address(p[1]) = Address(p[2])}

\* Trips with one address are one guest's, whoever else links or merges at
\* the time: a linked trip's guest is the owner of its address, and no two
\* rows of the roster share one (sweepGuestLinking, merge_onlyevs_guests).
OneGuestPerAddress ==
    /\ \A t \in Trips : guestOf[t] # 0 => guestOf[t] = owner[MailOf[t]]
    /\ Offered = {}

=============================================================================

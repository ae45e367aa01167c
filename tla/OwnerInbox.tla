------------------------------ MODULE OwnerInbox ------------------------------
(* The owner's Inbox: one list merged from Turo mail candidates and calendar   *)
(* events, read a page at a time (lib/owner/email-inbox-repository.ts), and    *)
(* the decisions taken on its cards (components/owner/OwnerInbox.tsx).         *)
(*                                                                             *)
(* A read is three steps: the page asks, the database answers, the answer      *)
(* lands.  In between rows come, move up (a calendar event is listed under     *)
(* the time of its last edit) and are decided elsewhere; a decision reloads    *)
(* the list while an older page may still be on its way.  One workspace; the   *)
(* browser's clock is the database's.  items holds each card as it was read.   *)
EXTENDS Naturals, FiniteSets

CONSTANTS Mails, Events,        \* Turo candidates, calendar candidates (ids)
          PageSize,             \* 50
          FetchLimit,           \* INBOX_SOURCE_FETCH_LIMIT
          Begins, Now0,         \* how the rows may stand when the page opens, and when
          MaxTime, MaxChanges, MaxDecisions   \* bounds of the instance

VARIABLES time, work,      \* the rows: when listed (0: not there yet), how decided
          instant,
          touched, changes, decisions,   \* the change that last placed a row; counts
          items, cursor, hasMore, snapshot, loading, deciding,  \* OwnerInbox's state
          reads,                         \* fetches on their way
          list                           \* the reload on screen, and if it is whole

db == <<time, work, instant, touched, changes>>
page == <<items, cursor, hasMore, snapshot, loading>>
vars == <<db, page, decisions, deciding, reads, list>>

Rows == Mails \cup Events
Top == [row |-> 0, time |-> MaxTime + 1]   \* no cursor: everything is older
Idle == [decision |-> "none"]
Reloading == [decision |-> "taken"]
Decisions == {"dismiss", "archive", "restore"}

Moving == {"open", "applying"}

Entry(r) == [row |-> r, time |-> time[r]]

(* Newest first, calendar before mail, then by id. *)
Precedes(a, b) ==
    \/ a.time > b.time
    \/ /\ a.time = b.time
       /\ \/ a.row \in Events /\ b.row \in Mails
          \/ (a.row \in Mails <=> b.row \in Mails) /\ a.row < b.row

First(S, n) == {e \in S : Cardinality({d \in S : Precedes(d, e)}) < n}

SameSource(r, s) == r \in Mails <=> s \in Mails

(* Mutant: no tie-break, so rows that share the cursor's time go. *)
MutBounded(r, c) == time[r] < c.time \/ (time[r] = c.time /\ ~SameSource(r, c.row))

(* The bound a source's query carries: its own cursor exactly, the other one's *)
(* only down to the time it stands at.                                         *)
Bounded(r, c) ==
    \/ time[r] < c.time
    \/ time[r] = c.time /\ (SameSource(r, c.row) => r > c.row)

(* Every event has the time of its last edit.  One that Google lists without   *)
(* it is not modelled: the query sorts it first and the page under its         *)
(* starts_at, so FetchLimit of them could crowd newer rows out of a page.      *)
Fetched(source, c, upto) ==
    LET found == {r \in source : time[r] \in 1..upto /\ Bounded(r, c)}
    IN  First({Entry(r) : r \in found}, FetchLimit)

(* paginateInboxItems: what lies past the cursor, in order, one page of it. *)
Past(c, upto) ==
    {e \in Fetched(Mails, c, upto) \cup Fetched(Events, c, upto) : Precedes(c, e)}

(* Events tied with a mail the cursor stands at use up their query's limit.    *)
Crowded(c) ==
    /\ c.row \in Mails
    /\ Cardinality({r \in Events : time[r] = c.time}) + PageSize >= FetchLimit

PageOf(c, upto) ==
    LET past == Past(c, upto)
        got == First(past, PageSize)
    IN  [cards |-> {[row |-> e.row, work |-> work[e.row]] : e \in got},
         next |-> IF got = {} THEN Top
                  ELSE CHOOSE e \in got : \A d \in got \ {e} : Precedes(d, e),
         more |-> got # past,
         whole |-> ~Crowded(c)]

Unread == [cards |-> {}, next |-> Top, more |-> FALSE, whole |-> TRUE]

Ask(append) ==
    [append |-> append, from |-> IF append THEN cursor ELSE Top,
     upto |-> IF append THEN snapshot ELSE instant,
     list |-> list.number, since |-> changes, served |-> FALSE, page |-> Unread]

Init ==
    /\ time \in Begins /\ instant = Now0
    /\ work = [r \in Rows |-> "open"]
    /\ touched = [r \in Rows |-> 0] /\ changes = 0 /\ decisions = 0
    /\ items = {} /\ cursor = Top /\ hasMore = FALSE /\ snapshot = instant
    /\ loading = TRUE /\ deciding = Idle
    /\ list = [number |-> 0, since |-> 0, whole |-> TRUE]
    /\ reads = {[append |-> FALSE, from |-> Top, upto |-> instant, list |-> 0, since |-> 0,
                 served |-> FALSE, page |-> Unread]}

-----------------------------------------------------------------------------
(* The database under the page. *)
Tick ==
    /\ instant < MaxTime
    /\ instant' = instant + 1
    /\ UNCHANGED <<time, work, touched, changes, page, decisions, deciding, reads, list>>

Changes == changes < MaxChanges /\ changes' = changes + 1

(* A mail is listed under the time it was sent, whenever it is read. *)
MailComes(r, t) ==
    /\ Changes
    /\ time[r] = 0
    /\ time' = [time EXCEPT ![r] = t]
    /\ touched' = [touched EXCEPT ![r] = changes']
    /\ UNCHANGED <<work, instant, page, decisions, deciding, reads, list>>

(* A new or edited calendar event is listed under its edit. *)
EventEdited(r) ==
    /\ Changes
    /\ time[r] < instant
    /\ time' = [time EXCEPT ![r] = instant]
    /\ touched' = [touched EXCEPT ![r] = changes']
    /\ UNCHANGED <<work, instant, page, decisions, deciding, reads, list>>

(* The review queue, the card's Confirm or the worker moves a candidate on. *)
Elsewhere(r) ==
    /\ Changes
    /\ time[r] > 0
    /\ work[r] \in Moving
    /\ \E w \in (Moving \cup {"final"}) \ {work[r]} : work' = [work EXCEPT ![r] = w]
    /\ UNCHANGED <<time, instant, touched, page, decisions, deciding, reads, list>>

-----------------------------------------------------------------------------
(* Load older activity. *)
LoadOlder ==
    /\ hasMore
    /\ ~loading
    /\ loading' = TRUE
    /\ reads' = reads \cup {Ask(TRUE)}
    /\ UNCHANGED <<db, items, cursor, hasMore, snapshot, decisions, deciding, list>>

Serve(q) ==
    /\ ~q.served
    /\ LET answer == [q EXCEPT !.served = TRUE, !.page = PageOf(q.from, q.upto)]
       IN  reads' = (reads \ {q}) \cup {answer}
    /\ UNCHANGED <<db, page, decisions, deciding, list>>

(* The decision that asked for a reload waits for it before the buttons return. *)
Settled(q) == IF q.append THEN deciding ELSE Idle

(* Whichever answer lands is taken: a reload replaces the list, an older page  *)
(* is added to the list that is there by now.                                  *)
Land(q) ==
    /\ q.served
    /\ reads' = reads \ {q}
    /\ items' = IF q.append THEN items \cup q.page.cards ELSE q.page.cards
    /\ cursor' = q.page.next
    /\ hasMore' = q.page.more
    /\ loading' = FALSE
    /\ deciding' = Settled(q)
    /\ list' = IF q.append
               THEN [list EXCEPT !.whole = @ /\ q.page.whole /\ q.list = list.number]
               ELSE [number |-> list.number + 1, since |-> q.since, whole |-> TRUE]
    /\ UNCHANGED <<db, snapshot, decisions>>

ReadFails(q) ==
    /\ reads' = reads \ {q}
    /\ loading' = FALSE
    /\ deciding' = Settled(q)
    /\ UNCHANGED <<db, items, cursor, hasMore, snapshot, decisions, list>>

-----------------------------------------------------------------------------
Actionable(c) == c.work = "open"

(* The buttons of a card as it was read. *)
Offered(d, c) ==
    CASE d = "dismiss" -> c.row \in Mails /\ Actionable(c)
      [] d = "archive" -> ~Actionable(c) /\ c.work # "archived"
      [] d = "restore" -> c.work = "archived"

Decide(d, c) ==
    /\ decisions < MaxDecisions
    /\ deciding = Idle
    /\ c \in items
    /\ Offered(d, c)
    /\ decisions' = decisions + 1
    /\ deciding' = [decision |-> d, card |-> c]
    /\ UNCHANGED <<db, page, reads, list>>

Deciding == deciding.decision \in Decisions

(* dismiss_, archive_ and restore_onlyevs_...: each checks the row, never the card. *)
Accepted(d, r) ==
    CASE d = "dismiss" -> work[r] = "open"
      [] d = "archive" -> work[r] \in {"final", "archived"}
      [] d = "restore" -> work[r] = "archived"

Outcome(d) == IF d = "archive" THEN "archived" ELSE "final"

Decided ==
    /\ Deciding
    /\ LET d == deciding.decision
           r == deciding.card.row
       IN  Accepted(d, r) /\ work' = [work EXCEPT ![r] = Outcome(d)]
    /\ deciding' = Reloading
    /\ cursor' = Top
    /\ snapshot' = instant
    /\ loading' = TRUE
    /\ reads' = reads \cup {Ask(FALSE)}
    /\ UNCHANGED <<time, instant, touched, changes, items, hasMore, decisions, list>>

DecisionFails ==
    /\ Deciding
    /\ deciding' = Idle
    /\ UNCHANGED <<db, page, decisions, reads, list>>

Next ==
    \/ Tick
    \/ \E r \in Mails, t \in 1..instant : MailComes(r, t)
    \/ \E r \in Events : EventEdited(r)
    \/ \E r \in Rows : Elsewhere(r)
    \/ LoadOlder
    \/ \E q \in reads : Serve(q) \/ Land(q) \/ ReadFails(q)
    \/ \E d \in Decisions, c \in items : Decide(d, c)
    \/ Decided
    \/ DecisionFails

Spec == Init /\ [][Next]_vars

-----------------------------------------------------------------------------
Works == {"open", "applying", "final", "archived"}
Cursors == [row : Rows, time : 1..MaxTime] \cup {Top}

TypeOK ==
    /\ time \in [Rows -> 0..MaxTime] /\ instant \in 0..MaxTime
    /\ work \in [Rows -> Works] /\ touched \in [Rows -> 0..changes]
    /\ items \subseteq [row : Rows, work : Works]
    /\ cursor \in Cursors /\ {hasMore, loading, list.whole} \subseteq BOOLEAN
    /\ \A q \in reads : {q.from, q.page.next} \subseteq Cursors /\ q.list <= list.number

(* Paging never loses a row: every row that has stood still since the list on  *)
(* screen was asked for is on a card, or lies past the cursor with more to     *)
(* load - the two sources are read with a limit each and merged afterwards.    *)
(* Except where the code gives that up: an older page that lands on a list     *)
(* reloaded meanwhile, and a cursor on a mail so many events tie with that     *)
(* they use up the calendar query's limit.                                     *)
NothingSkipped ==
    list.number > 0 /\ list.whole =>
        \A r \in Rows : time[r] > 0 /\ touched[r] <= list.since =>
            \/ \E c \in items : c.row = r
            \/ hasMore /\ Precedes(cursor, Entry(r))
=============================================================================

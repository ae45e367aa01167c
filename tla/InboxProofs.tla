----------------------------- MODULE InboxProofs -----------------------------
(***************************************************************************)
(* Theorems about the owner's Inbox: paging through the list that is       *)
(* merged from two sources skips no row that stood still, and a card's     *)
(* countdown is fresh and its confirm sends the dates as they were typed.  *)
(***************************************************************************)
EXTENDS Workspace, GuestProofs, FiniteSetTheorems, TLAPS

-----------------------------------------------------------------------------
(* The Inbox's list.                                                       *)

Entries == [row : Inbox!Rows, time : Nat]

LEMMA RowFacts ==
  /\ \A r \in Inbox!Rows : r \in Nat /\ r # 0
  /\ \A r \in Inbox!Rows : (r \in Mails \/ r \in Events) /\ ~(r \in Mails /\ r \in Events)
  /\ 0 \notin Mails /\ 0 \notin Events
  /\ Mails \subseteq Inbox!Rows /\ Events \subseteq Inbox!Rows
  BY InboxAssumption DEF Inbox!Rows

\* The order of the list is one: no two entries stand at the same place.
LEMMA Ordered ==
  ASSUME NEW a \in Entries, NEW b \in Entries
  PROVE  /\ ~Inbox!Precedes(a, a)
         /\ a = b \/ Inbox!Precedes(a, b) \/ Inbox!Precedes(b, a)
         /\ ~(Inbox!Precedes(a, b) /\ Inbox!Precedes(b, a))
  <1>1. /\ a.row \in Inbox!Rows /\ b.row \in Inbox!Rows /\ a.time \in Nat /\ b.time \in Nat
        /\ (a.row = b.row /\ a.time = b.time => a = b)
    BY DEF Entries
  <1>2. a.row \in Nat /\ b.row \in Nat
    BY <1>1, RowFacts
  <1>3. /\ a.row \in Mails <=> a.row \notin Events
        /\ b.row \in Mails <=> b.row \notin Events
    BY <1>1, RowFacts
  <1> QED BY <1>1, <1>2, <1>3 DEF Inbox!Precedes

LEMMA Transitive ==
  ASSUME NEW a \in Entries, NEW b \in Entries, NEW c \in Entries,
         Inbox!Precedes(a, b), Inbox!Precedes(b, c)
  PROVE  Inbox!Precedes(a, c)
  <1>1. /\ a.row \in Inbox!Rows /\ b.row \in Inbox!Rows /\ c.row \in Inbox!Rows
        /\ a.time \in Nat /\ b.time \in Nat /\ c.time \in Nat
    BY DEF Entries
  <1>2. a.row \in Nat /\ b.row \in Nat /\ c.row \in Nat
    BY <1>1, RowFacts
  <1>3. /\ a.row \in Mails <=> a.row \notin Events
        /\ b.row \in Mails <=> b.row \notin Events
        /\ c.row \in Mails <=> c.row \notin Events
    BY <1>1, RowFacts
  <1> QED BY <1>1, <1>2, <1>3 DEF Inbox!Precedes

\* What stands before e in S; the first n of S are those with fewer before them.
Ahead(S, e) == {d \in S : Inbox!Precedes(d, e)}

LEMMA SameCardinality == \A S : Inbox!Cardinality(S) = Cardinality(S)
  BY Zenon DEF Inbox!Cardinality, Cardinality

LEMMA FirstAhead ==
  ASSUME NEW S, NEW n
  PROVE  Inbox!First(S, n) = {e \in S : Cardinality(Ahead(S, e)) < n}
  BY SameCardinality DEF Inbox!First, Ahead

\* Of two entries, the one that is not before the other has no fewer before it.
LEMMA AheadOrdered ==
  ASSUME NEW S \in SUBSET Entries, IsFiniteSet(S), NEW d \in Entries, NEW e \in Entries
  PROVE  /\ Cardinality(Ahead(S, d)) \in Nat
         /\ e = d \/ Inbox!Precedes(d, e) \/ Cardinality(Ahead(S, e)) <= Cardinality(Ahead(S, d))
         /\ d \in S /\ Inbox!Precedes(d, e) => Cardinality(Ahead(S, d)) < Cardinality(Ahead(S, e))
  <1>1. /\ IsFiniteSet(Ahead(S, d)) /\ IsFiniteSet(Ahead(S, e))
        /\ Cardinality(Ahead(S, d)) \in Nat /\ Cardinality(Ahead(S, e)) \in Nat
    BY FS_Subset, FS_CardinalityType DEF Ahead
  <1>2. ASSUME e # d, ~Inbox!Precedes(d, e)
        PROVE  Cardinality(Ahead(S, e)) <= Cardinality(Ahead(S, d))
    <2>1. Inbox!Precedes(e, d)
      BY <1>2, Ordered
    <2>2. Ahead(S, e) \subseteq Ahead(S, d)
      BY <2>1, Transitive DEF Ahead
    <2> QED BY <1>1, <2>2, FS_Subset
  <1>3. ASSUME d \in S, Inbox!Precedes(d, e)
        PROVE  Cardinality(Ahead(S, d)) < Cardinality(Ahead(S, e))
    <2>1. Ahead(S, d) \subseteq Ahead(S, e)
      BY <1>3, Transitive DEF Ahead
    <2>2. d \in Ahead(S, e) /\ d \notin Ahead(S, d)
      BY <1>3, Ordered DEF Ahead
    <2>3. /\ Cardinality(Ahead(S, d)) <= Cardinality(Ahead(S, e))
          /\ Cardinality(Ahead(S, d)) # Cardinality(Ahead(S, e))
      BY <1>1, <2>1, <2>2, FS_Subset
    <2> QED BY <1>1, <2>3
  <1> QED BY <1>1, <1>2, <1>3

\* Whoever has n or more before him comes after all the first n.
LEMMA AfterFirst ==
  ASSUME NEW S \in SUBSET Entries, IsFiniteSet(S), NEW n \in Nat,
         NEW e \in Entries, n <= Cardinality(Ahead(S, e)), NEW d \in Inbox!First(S, n)
  PROVE  Inbox!Precedes(d, e)
  <1>1. d \in S /\ d \in Entries /\ Cardinality(Ahead(S, d)) < n
    BY FirstAhead
  <1>2. Cardinality(Ahead(S, d)) \in Nat /\ Cardinality(Ahead(S, e)) \in Nat
    BY <1>1, AheadOrdered
  <1> QED BY <1>1, <1>2, AheadOrdered

\* If somebody is left over, the first n are n.
LEMMA FirstAreMany ==
  ASSUME NEW S \in SUBSET Entries, IsFiniteSet(S), NEW n \in Nat, S \ Inbox!First(S, n) # {}
  PROVE  /\ IsFiniteSet(Inbox!First(S, n))
         /\ n <= Cardinality(Inbox!First(S, n))
  <1> DEFINE T == Inbox!First(S, n)
             ranks == {Cardinality(Ahead(S, e)) : e \in S \ T}
  <1>1. T \subseteq S
    BY FirstAhead
  <1>2. ranks \in SUBSET Nat /\ ranks # {}
    BY AheadOrdered
  <1>3. PICK e \in S \ T : \A d \in S \ T : Cardinality(Ahead(S, e)) <= Cardinality(Ahead(S, d))
    <2>1. PICK k \in ranks : \A y \in ranks : k <= y
      BY <1>2, Least
    <2>2. PICK e \in S \ T : k = Cardinality(Ahead(S, e))
      BY <2>1
    <2> QED BY <2>1, <2>2
  <1>4. Cardinality(Ahead(S, e)) \in Nat /\ n <= Cardinality(Ahead(S, e))
    BY <1>3, AheadOrdered, FirstAhead
  <1>5. Ahead(S, e) \subseteq T
    <2> SUFFICES ASSUME NEW d \in Ahead(S, e), d \notin T PROVE FALSE
      OBVIOUS
    <2>1. d \in S \ T /\ Inbox!Precedes(d, e) /\ d \in Entries
      BY DEF Ahead
    <2>2. Cardinality(Ahead(S, d)) < Cardinality(Ahead(S, e)) /\ Cardinality(Ahead(S, d)) \in Nat
      BY <1>3, <2>1, AheadOrdered
    <2> QED BY <1>3, <1>4, <2>1, <2>2
  <1>6. IsFiniteSet(T) /\ Cardinality(T) \in Nat /\ Cardinality(Ahead(S, e)) <= Cardinality(T)
    BY <1>1, <1>5, FS_Subset, FS_CardinalityType
  <1> QED BY <1>4, <1>6

\* The first n, if any, have a last one, and no more than n stand up to it.
LEMMA LastOfFirst ==
  ASSUME NEW S \in SUBSET Entries, IsFiniteSet(S), NEW n \in Nat, Inbox!First(S, n) # {}
  PROVE  \E m \in Inbox!First(S, n) : \A d \in Inbox!First(S, n) \ {m} : Inbox!Precedes(d, m)
  <1> DEFINE T == Inbox!First(S, n)
             ranks == {Cardinality(Ahead(S, e)) : e \in T}
  <1>1. T \subseteq S
    BY FirstAhead
  <1>2. ranks \in SUBSET (0 .. n) /\ ranks # {}
    BY <1>1, AheadOrdered, FirstAhead
  <1>3. PICK m \in T : \A d \in T : Cardinality(Ahead(S, d)) <= Cardinality(Ahead(S, m))
    BY <1>2, Greatest
  <1>4. ASSUME NEW d \in T \ {m}
        PROVE  Inbox!Precedes(d, m)
    <2>1. m \in Entries /\ d \in Entries /\ m \in S /\ d # m
      BY <1>1, <1>3
    <2>2. ~Inbox!Precedes(m, d)
      <3>1. /\ Cardinality(Ahead(S, m)) \in Nat /\ Cardinality(Ahead(S, d)) \in Nat
            /\ Cardinality(Ahead(S, d)) <= Cardinality(Ahead(S, m))
        BY <1>3, <2>1, AheadOrdered
      <3> QED BY <2>1, <3>1, AheadOrdered
    <2> QED BY <2>1, <2>2, Ordered
  <1> QED BY <1>3, <1>4

\* A set that is all among its first n has no more than n.
LEMMA AllFirst ==
  ASSUME NEW S \in SUBSET Entries, IsFiniteSet(S), NEW n \in Nat, Inbox!First(S, n) = S
  PROVE  Cardinality(S) <= n
  <1>1. CASE S = {}
    BY <1>1, FS_EmptySet
  <1>2. CASE S # {}
    <2>1. PICK m \in S : \A d \in S \ {m} : Inbox!Precedes(d, m)
      BY <1>2, LastOfFirst
    <2>2. S \ {m} \subseteq Ahead(S, m) /\ IsFiniteSet(Ahead(S, m))
      BY <2>1, FS_Subset DEF Ahead
    <2>3. Cardinality(Ahead(S, m)) < n /\ Cardinality(Ahead(S, m)) \in Nat
      BY <2>1, FirstAhead, AheadOrdered
    <2>4. Cardinality(S \ {m}) <= Cardinality(Ahead(S, m))
      BY <2>2, FS_Subset
    <2>5. Cardinality(S \ {m}) = Cardinality(S) - 1 /\ Cardinality(S) \in Nat
      BY <2>1, FS_RemoveElement, FS_CardinalityType
    <2> QED BY <2>3, <2>4, <2>5
  <1> QED BY <1>1, <1>2

-----------------------------------------------------------------------------
Works == Inbox!Works
ListedCards == [row : Inbox!Rows, work : Works]
Answer == [cards : SUBSET ListedCards, next : Inbox!Cursors, more : BOOLEAN, whole : BOOLEAN]
Fetch == [append : BOOLEAN, from : Inbox!Cursors, upto : Nat, list : Nat, since : Nat,
          served : BOOLEAN, page : Answer]

RowTypes ==
  /\ time \in [Inbox!Rows -> 0 .. MaxListed] /\ instant \in 0 .. MaxListed
  /\ \A r \in Inbox!Rows : time[r] <= instant
  /\ work \in [Inbox!Rows -> Works]

LEMMA EntryOK ==
  ASSUME RowTypes, NEW r \in Inbox!Rows
  PROVE  /\ Inbox!Entry(r) \in Entries /\ Inbox!Entry(r).row = r
         /\ Inbox!Entry(r).time = time[r] /\ time[r] \in Nat /\ time[r] <= MaxListed
  BY InboxAssumption DEF RowTypes, Inbox!Entry, Entries

\* Where a query starts: at the top or at an entry.
LEMMA CursorFacts ==
  ASSUME NEW c \in Inbox!Cursors
  PROVE  /\ c.time \in Nat
         /\ \/ c.row \in Inbox!Rows /\ c \in Entries
            \/ c.row = 0 /\ c.time = MaxListed + 1
  BY InboxAssumption DEF Inbox!Cursors, Inbox!Top, Entries

FoundIn(source, c, upto) == {r \in source : time[r] \in 1 .. upto /\ Inbox!Bounded(r, c)}
EntriesIn(source, c, upto) == {Inbox!Entry(r) : r \in FoundIn(source, c, upto)}

LEMMA SourceOK ==
  ASSUME RowTypes, NEW source \in {Mails, Events}, NEW c, NEW upto
  PROVE  /\ EntriesIn(source, c, upto) \in SUBSET Entries
         /\ IsFiniteSet(EntriesIn(source, c, upto))
         /\ Inbox!Fetched(source, c, upto) = Inbox!First(EntriesIn(source, c, upto), FetchLimit)
         /\ Inbox!Fetched(source, c, upto) \subseteq EntriesIn(source, c, upto)
         /\ IsFiniteSet(Inbox!Fetched(source, c, upto))
  <1> DEFINE found == FoundIn(source, c, upto)
             F == EntriesIn(source, c, upto)
             f == [r \in found |-> Inbox!Entry(r)]
  <1>1. found \subseteq Inbox!Rows /\ IsFiniteSet(found)
    <2>1. source \subseteq Inbox!Rows /\ IsFiniteSet(source)
      BY RowFacts, InboxAssumption
    <2>2. found \in SUBSET source
      BY DEF FoundIn
    <2> QED BY <2>1, <2>2, FS_Subset
  <1>2. F \in SUBSET Entries
    BY <1>1, EntryOK DEF EntriesIn
  <1>3. f \in Surjection(found, F)
    BY DEF Surjection, EntriesIn
  <1>4. IsFiniteSet(F)
    BY <1>1, <1>3, FS_Surjection
  <1>5. Inbox!Fetched(source, c, upto) = Inbox!First(F, FetchLimit)
    BY DEF Inbox!Fetched, EntriesIn, FoundIn
  <1>6. Inbox!First(F, FetchLimit) \in SUBSET F
    BY FirstAhead
  <1> QED BY <1>2, <1>4, <1>5, <1>6, FS_Subset

LEMMA PastOK ==
  ASSUME RowTypes, NEW c, NEW upto
  PROVE  /\ Inbox!Past(c, upto) \in SUBSET Entries
         /\ IsFiniteSet(Inbox!Past(c, upto))
         /\ \A e \in Inbox!Past(c, upto) : e.row \in Inbox!Rows /\ e.time \in 1 .. upto /\ e = Inbox!Entry(e.row)
  <1> DEFINE both == Inbox!Fetched(Mails, c, upto) \cup Inbox!Fetched(Events, c, upto)
  <1>1. IsFiniteSet(both) /\ both \subseteq Entries
    BY SourceOK, FS_Union
  <1>2. Inbox!Past(c, upto) \in SUBSET both
    BY DEF Inbox!Past
  <1>3. ASSUME NEW e \in both
        PROVE  e.row \in Inbox!Rows /\ e.time \in 1 .. upto /\ e = Inbox!Entry(e.row)
    <2>1. PICK source \in {Mails, Events} : e \in EntriesIn(source, c, upto)
      BY <1>3, SourceOK
    <2>2. PICK r \in source : e = Inbox!Entry(r) /\ time[r] \in 1 .. upto
      BY <2>1 DEF EntriesIn, FoundIn
    <2>3. r \in Inbox!Rows
      BY <2>1, <2>2, RowFacts
    <2> QED BY <2>2, <2>3, EntryOK
  <1> QED BY <1>1, <1>2, <1>3, FS_Subset

\* A page is of rows, and the next cursor is an entry of it or the top.
LEMMA AnswerTyped ==
  ASSUME RowTypes, NEW c, NEW upto \in Nat, upto <= MaxListed
  PROVE  Inbox!PageOf(c, upto) \in Answer
  <1> DEFINE past == Inbox!Past(c, upto)
             got == Inbox!First(past, PageSize)
             next == IF got = {} THEN Inbox!Top
                     ELSE CHOOSE e \in got : \A d \in got \ {e} : Inbox!Precedes(d, e)
             cards == {[row |-> e.row, work |-> work[e.row]] : e \in got}
  <1>1. past \in SUBSET Entries /\ IsFiniteSet(past) /\ got \subseteq past
    BY PastOK, FirstAhead
  <1>2. \A e \in got : e.row \in Inbox!Rows /\ e.time \in 1 .. MaxListed /\ e \in Entries
    BY <1>1, PastOK, InboxAssumption
  <1>3. got \subseteq Inbox!Cursors
    BY <1>2 DEF Entries, Inbox!Cursors
  <1>4. next \in Inbox!Cursors
    <2>1. CASE got = {}
      BY <2>1 DEF Inbox!Cursors
    <2>2. CASE got # {}
      <3>1. PageSize \in Nat
        BY InboxAssumption
      <3>2. \E m \in got : \A d \in got \ {m} : Inbox!Precedes(d, m)
        BY <1>1, <2>2, <3>1, LastOfFirst
      <3>3. next \in got
        BY <2>2, <3>2
      <3> QED BY <1>3, <3>3
    <2> QED BY <2>1, <2>2
  <1>5. cards \in SUBSET ListedCards
    BY <1>2 DEF ListedCards, RowTypes
  <1>6. /\ (got # past) \in BOOLEAN /\ (~Inbox!Crowded(c)) \in BOOLEAN
    BY DEF Inbox!Crowded
  <1>7. Inbox!PageOf(c, upto) = [cards |-> cards, next |-> next, more |-> got # past,
                                 whole |-> ~Inbox!Crowded(c)]
    BY DEF Inbox!PageOf
  <1> HIDE DEF cards, next, got, past
  <1> QED BY <1>4, <1>5, <1>6, <1>7 DEF Answer

\* Whatever a source's limit cut off, or the page's, comes after the page's
\* last card, and the page says that there is more.
Placed(r, cards, more, next) ==
  (\E c \in cards : c.row = r) \/ (more /\ Inbox!Precedes(next, Inbox!Entry(r)))

LEMMA CutOff ==
  ASSUME RowTypes, NEW c, NEW upto, NEW f \in Entries,
         \/ f \in Inbox!Past(c, upto) \ Inbox!First(Inbox!Past(c, upto), PageSize)
         \/ f \notin Inbox!Past(c, upto) /\ PageSize < Cardinality(Ahead(Inbox!Past(c, upto), f)),
         f.time <= MaxListed
  PROVE  Inbox!PageOf(c, upto).more /\ Inbox!Precedes(Inbox!PageOf(c, upto).next, f)
  <1> DEFINE past == Inbox!Past(c, upto)
             got == Inbox!First(past, PageSize)
             next == IF got = {} THEN Inbox!Top
                     ELSE CHOOSE e \in got : \A d \in got \ {e} : Inbox!Precedes(d, e)
  <1>0. PageSize \in Nat /\ MaxListed \in Nat
    BY InboxAssumption
  <1>1. past \in SUBSET Entries /\ IsFiniteSet(past) /\ got \subseteq past
    BY PastOK, FirstAhead
  <1>2. PageSize <= Cardinality(Ahead(past, f)) /\ Cardinality(Ahead(past, f)) \in Nat
    <2>1. Cardinality(Ahead(past, f)) \in Nat
      BY <1>1, AheadOrdered
    <2>2. CASE f \in past \ got
      BY <1>0, <2>1, <2>2, FirstAhead
    <2> QED BY <1>0, <2>1, <2>2
  <1>3. \A d \in got : Inbox!Precedes(d, f)
    BY <1>0, <1>1, <1>2, AfterFirst
  <1>4. got # past
    <2>1. CASE f \in past \ got
      BY <2>1
    <2>2. CASE f \notin past /\ PageSize < Cardinality(Ahead(past, f))
      <3> SUFFICES ASSUME got = past PROVE FALSE
        OBVIOUS
      <3>1. Cardinality(past) <= PageSize /\ Cardinality(past) \in Nat
        BY <1>0, <1>1, AllFirst, FS_CardinalityType
      <3>2. Ahead(past, f) \in SUBSET past
        BY DEF Ahead
      <3>3. Cardinality(Ahead(past, f)) <= Cardinality(past)
        BY <1>1, <3>2, FS_Subset
      <3> QED BY <1>0, <1>2, <2>2, <3>1, <3>3
    <2> QED BY <2>1, <2>2
  <1>5. Inbox!Precedes(next, f)
    <2>1. CASE got = {}
      BY <1>0, <2>1 DEF Inbox!Precedes, Inbox!Top, Entries
    <2>2. CASE got # {}
      <3>1. \E m \in got : \A d \in got \ {m} : Inbox!Precedes(d, m)
        BY <1>0, <1>1, <2>2, LastOfFirst
      <3>2. next \in got
        BY <2>2, <3>1
      <3> QED BY <1>3, <3>2
    <2> QED BY <2>1, <2>2
  <1>6. Inbox!PageOf(c, upto).more = (got # past) /\ Inbox!PageOf(c, upto).next = next
    BY DEF Inbox!PageOf
  <1> QED BY <1>4, <1>5, <1>6

\* A row past the cursor is bounded in by its source's query.
LEMMA BoundedIn ==
  ASSUME RowTypes, NEW c \in Inbox!Cursors, NEW r \in Inbox!Rows,
         Inbox!Precedes(c, Inbox!Entry(r))
  PROVE  Inbox!Bounded(r, c)
  <1>1. r \in Nat /\ time[r] \in Nat /\ Inbox!Entry(r).row = r /\ Inbox!Entry(r).time = time[r]
    BY EntryOK, RowFacts
  <1>2. r \in Mails <=> r \notin Events
    BY RowFacts
  <1>3. c.row \in Mails => c.row \notin Events
    BY CursorFacts, RowFacts
  <1> QED BY <1>1, <1>2, <1>3, CursorFacts DEF Inbox!Precedes, Inbox!Bounded, Inbox!SameSource

\* The only rows that a query brings from before the cursor are events tied
\* with the mail that it stands at.
LEMMA Tied ==
  ASSUME RowTypes, NEW c \in Inbox!Cursors, NEW r \in Inbox!Rows,
         Inbox!Bounded(r, c), ~Inbox!Precedes(c, Inbox!Entry(r))
  PROVE  c.row \in Mails /\ r \in Events /\ time[r] = c.time
  <1>1. r \in Nat /\ time[r] \in Nat /\ Inbox!Entry(r).row = r /\ Inbox!Entry(r).time = time[r]
        /\ time[r] <= MaxListed /\ MaxListed \in Nat
    BY EntryOK, RowFacts, InboxAssumption
  <1>2. r \in Mails <=> r \notin Events
    BY RowFacts
  <1>3. time[r] = c.time /\ (Inbox!SameSource(r, c.row) => r > c.row)
    BY <1>1, CursorFacts DEF Inbox!Precedes, Inbox!Bounded
  <1>4. c.row \in Inbox!Rows
    BY <1>1, <1>3, CursorFacts
  <1>5. c.row \in Nat /\ (c.row \in Mails <=> c.row \notin Events)
    BY <1>4, RowFacts
  <1> QED BY <1>1, <1>2, <1>3, <1>5 DEF Inbox!Precedes, Inbox!SameSource

\* A read of the page past a cursor has every listed row that lies past it, on
\* the page or after it, unless events tied with a mail crowd the calendar out.
LEMMA NothingCut ==
  ASSUME RowTypes, NEW c \in Inbox!Cursors, NEW upto, NEW r \in Inbox!Rows,
         time[r] \in 1 .. upto, Inbox!Precedes(c, Inbox!Entry(r)), ~Inbox!Crowded(c)
  PROVE  LET p == Inbox!PageOf(c, upto) IN Placed(r, p.cards, p.more, p.next)
  <1> DEFINE past == Inbox!Past(c, upto)
             got == Inbox!First(past, PageSize)
             f == Inbox!Entry(r)
  <1>0. /\ f \in Entries /\ f.row = r /\ f.time = time[r] /\ f.time <= MaxListed
        /\ PageSize \in Nat /\ FetchLimit \in Nat /\ PageSize < FetchLimit
    BY EntryOK, InboxAssumption
  <1>1. PICK source \in {Mails, Events} : r \in source
    BY RowFacts
  <1> DEFINE F == EntriesIn(source, c, upto)
             T == Inbox!Fetched(source, c, upto)
             U == {e \in T : Inbox!Precedes(c, e)}
             K == {s \in Events : time[s] = c.time}
  <1>2. f \in F
    BY <1>1, BoundedIn DEF EntriesIn, FoundIn
  <1>3. F \in SUBSET Entries /\ IsFiniteSet(F) /\ T = Inbox!First(F, FetchLimit)
        /\ T \subseteq F /\ IsFiniteSet(T)
    BY SourceOK
  <1>4. U \subseteq past
    BY DEF Inbox!Past
  <1>5. past \in SUBSET Entries /\ IsFiniteSet(past) /\ got \subseteq past
    BY PastOK, FirstAhead
  <1>6. CASE f \in T
    <2>1. f \in past
      BY <1>4, <1>6
    <2>2. CASE f \in got
      <3>1. Inbox!PageOf(c, upto).cards = {[row |-> e.row, work |-> work[e.row]] : e \in got}
        BY DEF Inbox!PageOf
      <3>2. [row |-> f.row, work |-> work[f.row]] \in Inbox!PageOf(c, upto).cards
        BY <2>2, <3>1
      <3> QED BY <1>0, <3>2 DEF Placed
    <2>3. CASE f \notin got
      BY <1>0, <2>1, <2>3, CutOff DEF Placed
    <2> QED BY <2>2, <2>3
  <1>7. CASE f \notin T
    <2>1. /\ FetchLimit <= Cardinality(T) /\ Cardinality(T) \in Nat
          /\ FetchLimit <= Cardinality(Ahead(F, f)) /\ Cardinality(Ahead(F, f)) \in Nat
      BY <1>0, <1>2, <1>3, <1>7, FirstAreMany, FS_CardinalityType, FirstAhead, AheadOrdered
    <2>2. \A e \in T : Inbox!Precedes(e, f)
      BY <1>0, <1>3, <2>1, AfterFirst
    <2>3. U \in SUBSET Ahead(past, f) /\ IsFiniteSet(Ahead(past, f))
      BY <1>4, <1>5, <2>2, FS_Subset DEF Ahead
    <2>4. Cardinality(U) <= Cardinality(Ahead(past, f)) /\ Cardinality(Ahead(past, f)) \in Nat
          /\ Cardinality(U) \in Nat
      BY <2>3, FS_Subset, FS_CardinalityType
    <2>5. PageSize < Cardinality(U)
      <3> DEFINE V == T \ U
                 g == [e \in V |-> e.row]
      <3>1. \A e \in V : \E s \in source : /\ e = Inbox!Entry(s) /\ c.row \in Mails
                                           /\ s \in Events /\ time[s] = c.time
        <4> SUFFICES ASSUME NEW e \in V
                     PROVE  \E s \in source : /\ e = Inbox!Entry(s) /\ c.row \in Mails
                                              /\ s \in Events /\ time[s] = c.time
          OBVIOUS
        <4>1. PICK s \in source : e = Inbox!Entry(s) /\ Inbox!Bounded(s, c)
          BY <1>3 DEF EntriesIn, FoundIn
        <4>2. s \in Inbox!Rows
          BY <4>1, RowFacts
        <4> QED BY <4>1, <4>2, Tied
      <3>2. IsFiniteSet(V) /\ IsFiniteSet(U) /\ Cardinality(V) \in Nat
            /\ Cardinality(T) = Cardinality(U) + Cardinality(V)
        <4>1. U \in SUBSET T /\ V \in SUBSET T /\ U \cup V = T /\ U \cap V = {}
          OBVIOUS
        <4>2. IsFiniteSet(U) /\ IsFiniteSet(V) /\ Cardinality(U) \in Nat /\ Cardinality(V) \in Nat
          BY <1>3, <4>1, FS_Subset, FS_CardinalityType
        <4> HIDE DEF U, V, T
        <4>3. Cardinality(T) = Cardinality(U) + Cardinality(V) - Cardinality({})
          BY <4>1, <4>2, FS_Union
        <4> QED BY <4>2, <4>3, FS_EmptySet
      <3>3. CASE V = {}
        BY <1>0, <2>1, <2>4, <3>2, <3>3, FS_EmptySet
      <3>4. CASE V # {}
        <4>1. K \in SUBSET Events /\ IsFiniteSet(K) /\ Cardinality(K) \in Nat
          BY InboxAssumption, FS_Subset, FS_CardinalityType
        <4>2. c.row \in Mails
          BY <3>1, <3>4
        <4>3. Cardinality(K) + PageSize < FetchLimit
          <5>1. ~(Cardinality(K) + PageSize >= FetchLimit)
            BY <4>2, SameCardinality, RowFacts DEF Inbox!Crowded
          <5> QED BY <1>0, <4>1, <5>1
        <4>4. g \in [V -> K] /\ \A d, e \in V : g[d] = g[e] => d = e
          <5>1. \A e \in V : e.row \in K /\ e = Inbox!Entry(e.row)
            BY <3>1, EntryOK, RowFacts
          <5> HIDE DEF V, K
          <5> QED BY <5>1
        <4>5. g \in Injection(V, K)
          BY <4>4 DEF Injection, IsInjective
        <4>6. Cardinality(V) <= Cardinality(K)
          BY <4>1, <4>5, FS_Injection
        <4> HIDE DEF U, V, T, K
        <4> QED BY <1>0, <2>1, <2>4, <3>2, <4>1, <4>3, <4>6
      <3> QED BY <3>3, <3>4
    <2>6. PageSize < Cardinality(Ahead(past, f))
      BY <1>0, <2>4, <2>5
    <2>7. f \notin got /\ (f \in past \/ f \notin past)
      <3>1. ~(Cardinality(Ahead(past, f)) < PageSize)
        BY <1>0, <2>4, <2>6
      <3> QED BY <3>1, FirstAhead
    <2>8. Inbox!PageOf(c, upto).more /\ Inbox!Precedes(Inbox!PageOf(c, upto).next, f)
      BY <1>0, <2>6, <2>7, CutOff
    <2> QED BY <2>8 DEF Placed
  <1> QED BY <1>6, <1>7

-----------------------------------------------------------------------------
\* The list on screen: what it was asked for at, and that it has everything.
Since(n, upto) == \A r \in Inbox!Rows : touched[r] <= n => time[r] <= upto

Still(r, n) == time[r] > 0 /\ touched[r] <= n

OnScreen(r) == \E c \in items : c.row = r

\* A reload on its way starts at the top, and its answer has every row that
\* stood still since.
ReloadOK(q) ==
  ~q.append =>
    /\ q.from = Inbox!Top /\ Since(q.since, q.upto)
    /\ q.served => \A r \in Inbox!Rows : Still(r, q.since) =>
                     Placed(r, q.page.cards, q.page.more, q.page.next)

\* What the list on screen lacks, an older page on its way was asked for.
OlderOK(q) ==
  q.append /\ q.list = list.number /\ list.whole =>
    \A r \in Inbox!Rows : Still(r, list.since) =>
      \/ OnScreen(r)
      \/ ~q.served /\ Inbox!Precedes(q.from, Inbox!Entry(r)) /\ time[r] <= q.upto
      \/ q.served /\ (q.page.whole => Placed(r, q.page.cards, q.page.more, q.page.next))

ListTypes ==
  /\ RowTypes
  /\ changes \in Nat /\ touched \in [Inbox!Rows -> Nat] /\ \A r \in Inbox!Rows : touched[r] <= changes
  /\ snapshot \in 0 .. instant /\ cursor \in Inbox!Cursors /\ hasMore \in BOOLEAN
  /\ items \in SUBSET ListedCards
  /\ list \in [number : Nat, since : Nat, whole : BOOLEAN] /\ list.since <= changes
  /\ reads \in SUBSET Fetch
  /\ \A q \in reads : q.list <= list.number /\ q.since <= changes /\ q.upto <= snapshot
  /\ list.number = 0 => ~hasMore /\ \A q \in reads : ~q.append

ListOK ==
  /\ ListTypes
  /\ Since(list.since, snapshot)
  /\ \A q \in reads : ReloadOK(q) /\ OlderOK(q)
  /\ Inbox!NothingSkipped

LEMMA ListStep ==
  ASSUME [PartNext]_allVars, Runs("inbox")
  PROVE  Inbox!Next \/ UNCHANGED inboxVars
  BY DEF PartNext, allVars, Runs

LEMMA ListSame ==
  ASSUME ListOK, UNCHANGED inboxVars
  PROVE  ListOK'
  BY DEF ListOK, ListTypes, RowTypes, Since, ReloadOK, OlderOK, Placed, OnScreen, Still,
         Inbox!NothingSkipped, Inbox!Entry, inboxVars

LEMMA UnreadOK == Inbox!Unread \in Answer
  <1>1. {} \in SUBSET ListedCards /\ Inbox!Top \in Inbox!Cursors
    BY DEF Inbox!Cursors
  <1> QED BY <1>1 DEF Inbox!Unread, Answer

LEMMA ListInit == PartInit => ListOK
  <1> SUFFICES ASSUME PartInit PROVE ListOK
    OBVIOUS
  <1> USE DEF PartInit, Inbox!Init
  <1> DEFINE q0 == [append |-> FALSE, from |-> Inbox!Top, upto |-> instant, list |-> 0,
                    since |-> 0, served |-> FALSE, page |-> Inbox!Unread]
  <1>1. time \in [Inbox!Rows -> 0 .. Now0] /\ Now0 \in 0 .. MaxListed /\ MaxListed \in Nat
        /\ instant = Now0
    BY InboxAssumption DEF Inbox!Rows
  <1>2. work \in [Inbox!Rows -> Works]
    BY DEF Works, Inbox!Works
  <1>3. RowTypes
    BY <1>1, <1>2 DEF RowTypes
  <1>4. reads = {q0} /\ q0 \in Fetch
    <2>1. Inbox!Top \in Inbox!Cursors
      BY DEF Inbox!Cursors
    <2> QED BY <1>1, <2>1, UnreadOK DEF Fetch
  <1>5. /\ ~q0.append /\ ~q0.served /\ q0.list = 0 /\ q0.since = 0 /\ q0.upto = instant
        /\ q0.from = Inbox!Top
    OBVIOUS
  <1>6. /\ list \in [number : Nat, since : Nat, whole : BOOLEAN] /\ list.since = 0
        /\ list.number = 0
    OBVIOUS
  <1> HIDE DEF q0
  <1>7. ListTypes
    <2>1. /\ changes \in Nat /\ touched \in [Inbox!Rows -> Nat]
          /\ \A r \in Inbox!Rows : touched[r] <= changes
      OBVIOUS
    <2>2. cursor \in Inbox!Cursors /\ hasMore \in BOOLEAN /\ ~hasMore
          /\ items \in SUBSET ListedCards
      BY DEF Inbox!Cursors
    <2>3. snapshot \in 0 .. instant /\ snapshot = instant
      BY <1>1
    <2>4. \A q \in reads : q.list <= list.number /\ q.since <= changes /\ q.upto <= snapshot
      BY <1>1, <1>4, <1>5, <1>6, <2>3
    <2>5. list.since <= changes /\ reads \in SUBSET Fetch
      BY <1>4, <1>6
    <2>6. \A q \in reads : ~q.append
      BY <1>4, <1>5
    <2> QED BY <1>3, <1>6, <2>1, <2>2, <2>3, <2>4, <2>5, <2>6 DEF ListTypes
  <1>8. \A n : Since(n, instant)
    BY <1>1 DEF Since
  <1>9. \A q \in reads : ReloadOK(q) /\ OlderOK(q)
    BY <1>4, <1>5, <1>8 DEF ReloadOK, OlderOK
  <1>10. Inbox!NothingSkipped
    BY <1>6 DEF Inbox!NothingSkipped
  <1> QED BY <1>6, <1>7, <1>8, <1>9, <1>10 DEF ListOK

\* While the rows that stood still keep their place, everything keeps.
LEMMA RowsMove ==
  ASSUME ListOK, ListTypes',
         \A r \in Inbox!Rows : \A n \in Nat :
           n <= changes /\ touched'[r] <= n => touched[r] <= n /\ time'[r] = time[r],
         UNCHANGED <<items, cursor, hasMore, snapshot, reads, list>>
  PROVE  ListOK'
  <1>0. ListTypes /\ list.since \in Nat /\ list.since <= changes
    BY DEF ListOK, ListTypes
  <1>1. ASSUME NEW r \in Inbox!Rows, NEW n \in Nat, n <= changes, Still(r, n)'
        PROVE  Still(r, n) /\ Inbox!Entry(r)' = Inbox!Entry(r) /\ time'[r] = time[r]
    BY <1>1 DEF Still, Inbox!Entry
  <1>2. Since(list.since, snapshot)'
    BY <1>0 DEF ListOK, Since
  <1>3. ASSUME NEW q \in reads
        PROVE  ReloadOK(q)' /\ OlderOK(q)'
    <2>1. q.since \in Nat /\ q.since <= changes /\ ReloadOK(q) /\ OlderOK(q)
      BY <1>3 DEF ListOK, ListTypes, Fetch
    <2>2. ReloadOK(q)'
      BY <1>1, <2>1 DEF ReloadOK, Since, Placed
    <2>3. OlderOK(q)'
      BY <1>0, <1>1, <2>1 DEF OlderOK, OnScreen, Placed
    <2> QED BY <2>2, <2>3
  <1>4. Inbox!NothingSkipped'
    BY <1>0, <1>1 DEF ListOK, Inbox!NothingSkipped, Still
  <1> QED BY <1>2, <1>3, <1>4 DEF ListOK

\* A row that comes or moves is touched after everything that was asked.
LEMMA TouchMoves ==
  ASSUME ListOK, NEW r \in Inbox!Rows, NEW t \in 0 .. instant,
         changes' = changes + 1, time' = [time EXCEPT ![r] = t],
         touched' = [touched EXCEPT ![r] = changes'],
         UNCHANGED <<work, instant, items, cursor, hasMore, snapshot, reads, list>>
  PROVE  ListOK'
  <1>0. ListTypes /\ MaxListed \in Nat
    BY InboxAssumption DEF ListOK
  <1> USE DEF ListTypes
  <1>1. /\ changes' \in Nat /\ changes < changes' /\ touched' \in [Inbox!Rows -> Nat]
        /\ \A s \in Inbox!Rows : touched'[s] <= changes'
    BY <1>0
  <1>2. RowTypes'
    BY <1>0 DEF RowTypes
  <1>3. ListTypes'
    <2>1. list.since <= changes' /\ \A q \in reads : q.since <= changes'
      BY <1>0, <1>1 DEF Fetch
    <2> QED BY <1>0, <1>1, <1>2, <2>1
  <1>4. ASSUME NEW s \in Inbox!Rows, NEW n \in Nat, n <= changes, touched'[s] <= n
        PROVE  touched[s] <= n /\ time'[s] = time[s]
    <2>1. s # r
      BY <1>0, <1>1, <1>4
    <2> QED BY <1>0, <1>4, <2>1 DEF RowTypes
  <1> QED BY <1>3, <1>4, RowsMove

LEMMA RowsKeep ==
  ASSUME ListOK,
         \/ Inbox!Tick
         \/ \E r \in Mails, t \in 1 .. instant : Inbox!MailComes(r, t)
         \/ \E r \in Events : Inbox!EventEdited(r)
         \/ \E r \in Inbox!Rows : Inbox!Elsewhere(r)
  PROVE  ListOK'
  <1>0. ListTypes /\ RowTypes /\ MaxListed \in Nat
    BY InboxAssumption DEF ListOK, ListTypes
  <1>1. CASE Inbox!Tick
    <2>1. /\ instant < MaxListed /\ instant' = instant + 1
          /\ UNCHANGED <<time, work, touched, changes, items, cursor, hasMore, snapshot, reads, list>>
      BY <1>1 DEF Inbox!Tick, Inbox!page
    <2>2. RowTypes'
      BY <1>0, <2>1 DEF RowTypes
    <2>3. snapshot' \in 0 .. instant'
      BY <1>0, <2>1 DEF ListTypes, RowTypes
    <2>4. ListTypes'
      BY <1>0, <2>1, <2>2, <2>3 DEF ListTypes
    <2> QED BY <2>1, <2>4, RowsMove
  <1>2. ASSUME NEW r \in Mails, NEW t \in 1 .. instant, Inbox!MailComes(r, t)
        PROVE  ListOK'
    <2>1. r \in Inbox!Rows /\ t \in 0 .. instant
      BY RowFacts
    <2> QED BY <1>2, <2>1, TouchMoves DEF Inbox!MailComes, Inbox!Changes, Inbox!page
  <1>3. ASSUME NEW r \in Events, Inbox!EventEdited(r)
        PROVE  ListOK'
    <2>1. r \in Inbox!Rows /\ instant \in 0 .. instant
      BY <1>0, RowFacts DEF RowTypes
    <2> QED BY <1>3, <2>1, TouchMoves DEF Inbox!EventEdited, Inbox!Changes, Inbox!page
  <1>4. ASSUME NEW r \in Inbox!Rows, Inbox!Elsewhere(r)
        PROVE  ListOK'
    <2>1. /\ changes' = changes + 1
          /\ UNCHANGED <<time, instant, touched, items, cursor, hasMore, snapshot, reads, list>>
      BY <1>4 DEF Inbox!Elsewhere, Inbox!Changes, Inbox!page
    <2>2. PICK w \in (Inbox!Moving \cup {"final"}) \ {work[r]} : work' = [work EXCEPT ![r] = w]
      BY <1>4 DEF Inbox!Elsewhere
    <2>3. w \in Works
      BY DEF Works, Inbox!Works, Inbox!Moving
    <2>4. RowTypes'
      BY <1>0, <2>1, <2>2, <2>3 DEF RowTypes
    <2>5. changes' \in Nat /\ changes <= changes'
      BY <1>0, <2>1 DEF ListTypes
    <2>6. /\ list.since <= changes' /\ \A q \in reads : q.since <= changes'
          /\ \A s \in Inbox!Rows : touched[s] <= changes'
      BY <1>0, <2>5 DEF Fetch, ListTypes
    <2>7. ListTypes'
      BY <1>0, <2>1, <2>4, <2>5, <2>6 DEF ListTypes
    <2> QED BY <2>1, <2>7, RowsMove
  <1> QED BY <1>1, <1>2, <1>3, <1>4

\* While the rows stand and the screen with them, the reads may change to others
\* that are as they should be.
LEMMA ReadsChange ==
  ASSUME ListOK, ListTypes',
         UNCHANGED <<time, instant, touched, items, hasMore, list>>,
         Since(list.since, snapshot)',
         \/ UNCHANGED cursor
         \/ cursor' = Inbox!Top,
         \A q \in reads' : q \in reads \/ (ReloadOK(q) /\ OlderOK(q))
  PROVE  ListOK'
  <1>1. ASSUME NEW r \in Inbox!Rows
        PROVE  Inbox!Entry(r)' = Inbox!Entry(r) /\ \A n : Still(r, n)' = Still(r, n)
    BY DEF Inbox!Entry, Still
  <1>2. ASSUME NEW q \in reads'
        PROVE  ReloadOK(q)' /\ OlderOK(q)'
    <2>1. ReloadOK(q) /\ OlderOK(q)
      BY <1>2 DEF ListOK
    <2>2. ReloadOK(q)'
      BY <1>1, <2>1 DEF ReloadOK, Since, Placed
    <2>3. OlderOK(q)'
      BY <1>1, <2>1 DEF OlderOK, OnScreen, Placed
    <2> QED BY <2>2, <2>3
  <1>3. Inbox!NothingSkipped'
    <2>1. \A r \in Inbox!Rows : Inbox!Precedes(cursor, Inbox!Entry(r)) =>
            Inbox!Precedes(cursor', Inbox!Entry(r))
      <3>1. \A r \in Inbox!Rows : Inbox!Precedes(Inbox!Top, Inbox!Entry(r))
        BY EntryOK, InboxAssumption DEF ListOK, ListTypes, Inbox!Precedes, Inbox!Top
      <3> QED BY <3>1
    <2> QED BY <1>1, <2>1 DEF ListOK, Inbox!NothingSkipped
  <1> QED BY <1>2, <1>3 DEF ListOK

LEMMA AskOK ==
  ASSUME ListOK, NEW append \in BOOLEAN, append => hasMore
  PROVE  /\ Inbox!Ask(append) \in Fetch /\ Inbox!Ask(append).append = append /\ Inbox!Ask(append).list = list.number
         /\ Inbox!Ask(append).since = changes
         /\ Inbox!Ask(append).upto = IF append THEN snapshot ELSE instant
         /\ ReloadOK(Inbox!Ask(append)) /\ OlderOK(Inbox!Ask(append))
  <1> DEFINE q == Inbox!Ask(append)
  <1>0. /\ ListTypes /\ RowTypes /\ Since(list.since, snapshot) /\ MaxListed \in Nat
        /\ Inbox!NothingSkipped
    BY InboxAssumption DEF ListOK, ListTypes
  <1>1. q = [append |-> append, from |-> IF append THEN cursor ELSE Inbox!Top,
             upto |-> IF append THEN snapshot ELSE instant,
             list |-> list.number, since |-> changes, served |-> FALSE, page |-> Inbox!Unread]
    BY DEF Inbox!Ask
  <1>2. /\ q.append = append /\ q.from = (IF append THEN cursor ELSE Inbox!Top)
        /\ q.upto = (IF append THEN snapshot ELSE instant)
        /\ q.list = list.number /\ q.since = changes /\ ~q.served
    BY <1>1
  <1>3. q \in Fetch
    <2>1. cursor \in Inbox!Cursors /\ Inbox!Top \in Inbox!Cursors
      BY <1>0 DEF ListTypes, Inbox!Cursors
    <2>2. list.number \in Nat /\ changes \in Nat /\ snapshot \in Nat /\ instant \in Nat
      BY <1>0 DEF ListTypes, RowTypes
    <2> QED BY <1>1, <2>1, <2>2, UnreadOK DEF Fetch
  <1> HIDE DEF q
  <1>4. ReloadOK(q)
    BY <1>0, <1>2 DEF ReloadOK, Since, RowTypes
  <1>5. OlderOK(q)
    <2> SUFFICES ASSUME append, list.whole, NEW r \in Inbox!Rows,
                        Still(r, list.since), ~OnScreen(r)
                 PROVE  Inbox!Precedes(q.from, Inbox!Entry(r)) /\ time[r] <= q.upto
      BY <1>2 DEF OlderOK
    <2>1. Inbox!Precedes(cursor, Inbox!Entry(r))
      <3>1. list.number > 0
        BY <1>0 DEF ListTypes
      <3> QED BY <1>0, <3>1 DEF Inbox!NothingSkipped, Still, OnScreen
    <2>2. time[r] <= snapshot
      BY <1>0 DEF Since, Still
    <2> QED BY <1>2, <2>1, <2>2
  <1> QED BY <1>2, <1>3, <1>4, <1>5 DEF q

LEMMA ServeOK ==
  ASSUME ListOK, NEW q \in reads, Inbox!Serve(q)
  PROVE  ListOK'
  <1> DEFINE p == Inbox!PageOf(q.from, q.upto)
             a == [q EXCEPT !.served = TRUE, !.page = p]
  <1>0. /\ ListTypes /\ RowTypes /\ q \in Fetch /\ MaxListed \in Nat
        /\ q.list <= list.number /\ q.since <= changes /\ q.upto <= snapshot /\ snapshot <= instant
        /\ instant <= MaxListed /\ q.upto \in Nat /\ snapshot \in Nat /\ instant \in Nat
        /\ ReloadOK(q) /\ OlderOK(q)
    BY InboxAssumption DEF ListOK, ListTypes, RowTypes, Fetch
  <1>1. /\ ~q.served /\ reads' = (reads \ {q}) \cup {a}
        /\ UNCHANGED <<time, work, instant, touched, changes, items, cursor, hasMore, snapshot, list>>
    BY DEF Inbox!Serve, Inbox!db, Inbox!page
  <1>2. q.upto <= MaxListed
    BY <1>0
  <1>3. p \in Answer
    BY <1>0, <1>2, AnswerTyped
  <1> HIDE DEF p
  <1>4. /\ a \in Fetch /\ a.append = q.append /\ a.from = q.from /\ a.upto = q.upto
        /\ a.list = q.list /\ a.since = q.since /\ a.served /\ a.page = p
    BY <1>0, <1>3 DEF Fetch
  <1> HIDE DEF a
  <1>5. ASSUME NEW r \in Inbox!Rows, time[r] > 0, time[r] <= q.upto, ~Inbox!Crowded(q.from),
               Inbox!Precedes(q.from, Inbox!Entry(r))
        PROVE  Placed(r, p.cards, p.more, p.next)
    <2>1. q.from \in Inbox!Cursors /\ time[r] \in 1 .. q.upto
      BY <1>0, <1>5, EntryOK DEF Fetch
    <2> QED BY <1>0, <1>5, <2>1, NothingCut DEF p
  <1>6. ReloadOK(a)
    <2> SUFFICES ASSUME ~q.append
                 PROVE  /\ a.from = Inbox!Top /\ Since(a.since, a.upto)
                        /\ \A r \in Inbox!Rows : Still(r, a.since) =>
                             Placed(r, a.page.cards, a.page.more, a.page.next)
      BY <1>4 DEF ReloadOK
    <2>1. q.from = Inbox!Top /\ Since(q.since, q.upto)
      BY <1>0 DEF ReloadOK
    <2>2. ~Inbox!Crowded(q.from)
      BY <2>1, RowFacts DEF Inbox!Crowded, Inbox!Top
    <2>3. ASSUME NEW r \in Inbox!Rows, Still(r, q.since)
          PROVE  Placed(r, p.cards, p.more, p.next)
      <3>1. Inbox!Precedes(q.from, Inbox!Entry(r))
        BY <1>0, <2>1, EntryOK DEF Inbox!Precedes, Inbox!Top
      <3> QED BY <1>5, <2>1, <2>2, <2>3, <3>1 DEF Still, Since
    <2> QED BY <1>4, <2>1, <2>3
  <1>7. OlderOK(a)
    <2> SUFFICES ASSUME q.append, q.list = list.number, list.whole,
                        NEW r \in Inbox!Rows, Still(r, list.since), ~OnScreen(r), p.whole
                 PROVE  Placed(r, p.cards, p.more, p.next)
      BY <1>4 DEF OlderOK
    <2>1. Inbox!Precedes(q.from, Inbox!Entry(r)) /\ time[r] <= q.upto
      BY <1>0, <1>1 DEF OlderOK
    <2>2. ~Inbox!Crowded(q.from)
      BY DEF p, Inbox!PageOf
    <2> QED BY <1>5, <2>1, <2>2 DEF Still
  <1>8. ListTypes'
    <2>1. RowTypes'
      BY <1>0, <1>1 DEF RowTypes
    <2>2. reads' \in SUBSET Fetch
      BY <1>0, <1>1, <1>4 DEF ListTypes
    <2>3. \A o \in reads' : o.list <= list.number /\ o.since <= changes /\ o.upto <= snapshot
      BY <1>0, <1>1, <1>4 DEF ListTypes
    <2>4. list.number = 0 => ~hasMore /\ \A o \in reads' : ~o.append
      BY <1>0, <1>1, <1>4 DEF ListTypes
    <2> QED BY <1>0, <1>1, <2>1, <2>2, <2>3, <2>4 DEF ListTypes
  <1>9. Since(list.since, snapshot)'
    BY <1>1 DEF ListOK, Since
  <1> QED BY <1>1, <1>6, <1>7, <1>8, <1>9, ReadsChange

LEMMA AskingOK ==
  ASSUME ListOK, Inbox!LoadOlder \/ Inbox!Decided \/ \E q \in reads : Inbox!ReadFails(q)
  PROVE  ListOK'
  <1>0. ListTypes /\ RowTypes /\ Since(list.since, snapshot) /\ MaxListed \in Nat
    BY InboxAssumption DEF ListOK, ListTypes
  <1>1. CASE Inbox!LoadOlder
    <2> DEFINE q == Inbox!Ask(TRUE)
    <2>1. /\ hasMore /\ reads' = reads \cup {q}
          /\ UNCHANGED <<time, work, instant, touched, changes, items, cursor, hasMore, snapshot, list>>
      BY <1>1 DEF Inbox!LoadOlder, Inbox!db
    <2>2. /\ q \in Fetch /\ q.list = list.number /\ q.since = changes /\ q.upto = snapshot
          /\ ReloadOK(q) /\ OlderOK(q)
      BY <2>1, AskOK
    <2> HIDE DEF q
    <2>3. ListTypes'
      <3>1. RowTypes'
        BY <1>0, <2>1 DEF RowTypes
      <3>2. \A o \in reads' : o.list <= list.number /\ o.since <= changes /\ o.upto <= snapshot
        BY <1>0, <2>1, <2>2 DEF ListTypes, RowTypes
      <3>3. list.number # 0
        BY <1>0, <2>1 DEF ListTypes
      <3> QED BY <1>0, <2>1, <2>2, <3>1, <3>2, <3>3 DEF ListTypes
    <2>4. Since(list.since, snapshot)'
      BY <1>0, <2>1 DEF Since
    <2> QED BY <2>1, <2>2, <2>3, <2>4, ReadsChange
  <1>2. CASE Inbox!Decided
    <2> DEFINE q == Inbox!Ask(FALSE)
    <2>1. /\ reads' = reads \cup {q} /\ cursor' = Inbox!Top /\ snapshot' = instant
          /\ UNCHANGED <<time, instant, touched, changes, items, hasMore, list>>
      BY <1>2 DEF Inbox!Decided
    <2>2. /\ q \in Fetch /\ ~q.append
          /\ q.list = list.number /\ q.since = changes /\ q.upto = instant
          /\ ReloadOK(q) /\ OlderOK(q)
      BY AskOK
    <2> HIDE DEF q
    <2>3. work' \in [Inbox!Rows -> Works]
      <3> DEFINE r == deciding.card.row
                 w == Inbox!Outcome(deciding.decision)
      <3>1. work' = [work EXCEPT ![r] = w]
        BY <1>2 DEF Inbox!Decided
      <3>2. w \in Works
        BY DEF Inbox!Outcome, Works, Inbox!Works
      <3> HIDE DEF r, w
      <3> QED BY <1>0, <3>1, <3>2 DEF RowTypes
    <2>4. ListTypes'
      <3>1. RowTypes'
        BY <1>0, <2>1, <2>3 DEF RowTypes
      <3>2. \A o \in reads' : o.list <= list.number /\ o.since <= changes /\ o.upto <= instant
        BY <1>0, <2>1, <2>2 DEF ListTypes, RowTypes, Fetch
      <3>3. cursor' \in Inbox!Cursors /\ snapshot' \in 0 .. instant
        BY <1>0, <2>1 DEF Inbox!Cursors, RowTypes
      <3>4. list.number = 0 => ~hasMore /\ \A o \in reads' : ~o.append
        BY <1>0, <2>1, <2>2 DEF ListTypes
      <3> QED BY <1>0, <2>1, <2>2, <3>1, <3>2, <3>3, <3>4 DEF ListTypes
    <2>5. Since(list.since, snapshot)'
      BY <1>0, <2>1 DEF Since, RowTypes
    <2> QED BY <2>1, <2>2, <2>4, <2>5, ReadsChange
  <1>3. ASSUME NEW q \in reads, Inbox!ReadFails(q)
        PROVE  ListOK'
    <2>1. /\ reads' = reads \ {q}
          /\ UNCHANGED <<time, work, instant, touched, changes, items, cursor, hasMore, snapshot, list>>
      BY <1>3 DEF Inbox!ReadFails, Inbox!db
    <2>2. ListTypes'
      BY <1>0, <2>1 DEF ListTypes, RowTypes
    <2>3. Since(list.since, snapshot)'
      BY <1>0, <2>1 DEF Since
    <2> QED BY <2>1, <2>2, <2>3, ReadsChange
  <1> QED BY <1>1, <1>2, <1>3

LEMMA LandOK ==
  ASSUME ListOK, NEW q \in reads, Inbox!Land(q)
  PROVE  ListOK'
  <1> DEFINE p == q.page
  <1>0. /\ ListTypes /\ RowTypes /\ q \in Fetch /\ p \in Answer
        /\ q.list <= list.number /\ q.since <= changes /\ q.upto <= snapshot
        /\ ReloadOK(q) /\ OlderOK(q) /\ Since(list.since, snapshot)
        /\ Inbox!NothingSkipped
        /\ list.number \in Nat /\ list.since \in Nat /\ list.whole \in BOOLEAN
        /\ list.since <= changes /\ q.since \in Nat /\ q.list \in Nat /\ q.append \in BOOLEAN
    BY DEF ListOK, ListTypes, Fetch
  <1>1. /\ q.served /\ reads' = reads \ {q} /\ cursor' = p.next /\ hasMore' = p.more
        /\ items' = IF q.append THEN items \cup p.cards ELSE p.cards
        /\ list' = IF q.append
                   THEN [list EXCEPT !.whole = @ /\ p.whole /\ q.list = list.number]
                   ELSE [number |-> list.number + 1, since |-> q.since, whole |-> TRUE]
        /\ UNCHANGED <<time, work, instant, touched, changes, snapshot>>
    BY DEF Inbox!Land, Inbox!db
  <1>2. /\ p.cards \in SUBSET ListedCards /\ p.next \in Inbox!Cursors /\ p.more \in BOOLEAN
        /\ p.whole \in BOOLEAN
    BY <1>0 DEF Answer
  <1> HIDE DEF p
  <1>3. ASSUME NEW r \in Inbox!Rows
        PROVE  Inbox!Entry(r)' = Inbox!Entry(r) /\ \A n : Still(r, n)' = Still(r, n)
    BY <1>1 DEF Inbox!Entry, Still
  <1>4. RowTypes'
    BY <1>0, <1>1 DEF RowTypes
  <1>5. CASE q.append
    <2>1. /\ list' \in [number : Nat, since : Nat, whole : BOOLEAN]
          /\ list'.number = list.number /\ list'.since = list.since
          /\ list'.whole = (list.whole /\ p.whole /\ q.list = list.number)
      <3> DEFINE v == list.whole /\ p.whole /\ q.list = list.number
      <3>1. list' = [list EXCEPT !.whole = v]
        BY <1>1, <1>5
      <3>2. v \in BOOLEAN
        BY <1>0
      <3>3. list \in [number : Nat, since : Nat, whole : BOOLEAN]
        BY <1>0 DEF ListTypes
      <3> HIDE DEF v
      <3>4. /\ list' \in [number : Nat, since : Nat, whole : BOOLEAN]
            /\ list'.number = list.number /\ list'.since = list.since /\ list'.whole = v
        BY <3>1, <3>2, <3>3
      <3> QED BY <3>4 DEF v
    <2>2. items' = items \cup p.cards
      BY <1>1, <1>5
    <2>3. ListTypes'
      <3>1. list.number # 0
        BY <1>0, <1>5 DEF ListTypes
      <3>2. items' \in SUBSET ListedCards
        BY <1>0, <1>2, <2>2 DEF ListTypes
      <3>3. reads' \in SUBSET Fetch
            /\ \A o \in reads' : o.list <= list'.number /\ o.since <= changes /\ o.upto <= snapshot
        BY <1>0, <1>1, <2>1 DEF ListTypes
      <3> QED BY <1>0, <1>1, <1>2, <1>4, <2>1, <3>1, <3>2, <3>3 DEF ListTypes
    <2>4. Since(list.since, snapshot)'
      BY <1>0, <1>1, <2>1 DEF Since
    <2>5. \A r \in Inbox!Rows : OnScreen(r) => OnScreen(r)'
      BY <2>2 DEF OnScreen
    <2>6. ASSUME NEW o \in reads'
          PROVE  ReloadOK(o)' /\ OlderOK(o)'
      <3>1. ReloadOK(o) /\ OlderOK(o)
        BY <1>1, <2>6 DEF ListOK
      <3>2. ReloadOK(o)'
        BY <1>1, <1>3, <3>1 DEF ReloadOK, Since, Placed
      <3>3. OlderOK(o)'
        BY <1>1, <1>3, <2>1, <2>5, <3>1 DEF OlderOK, Placed
      <3> QED BY <3>2, <3>3
    <2>7. Inbox!NothingSkipped'
      <3> SUFFICES ASSUME list'.whole, NEW r \in Inbox!Rows, Still(r, list.since)
                   PROVE  \/ \E c \in items' : c.row = r
                          \/ hasMore' /\ Inbox!Precedes(cursor', Inbox!Entry(r))
        BY <1>1, <1>3, <2>1 DEF Inbox!NothingSkipped, Still
      <3>1. OnScreen(r) \/ Placed(r, p.cards, p.more, p.next)
        BY <1>0, <1>1, <1>5, <2>1 DEF OlderOK, p
      <3> QED BY <1>1, <2>2, <3>1 DEF OnScreen, Placed
    <2> QED BY <2>3, <2>4, <2>6, <2>7 DEF ListOK
  <1>6. CASE ~q.append
    <2>1. /\ list' \in [number : Nat, since : Nat, whole : BOOLEAN]
          /\ list'.number = list.number + 1 /\ list'.since = q.since
      BY <1>0, <1>1, <1>6
    <2>2. items' = p.cards
      BY <1>1, <1>6
    <2>3. ListTypes'
      <3>1. list'.number # 0
        BY <1>0, <2>1
      <3>2. items' \in SUBSET ListedCards
        BY <1>2, <2>2
      <3>3. reads' \in SUBSET Fetch
            /\ \A o \in reads' : o.list <= list'.number /\ o.since <= changes /\ o.upto <= snapshot
        <4>1. \A o \in reads : o.list \in Nat /\ o.list <= list.number
          BY <1>0 DEF ListTypes, Fetch
        <4> QED BY <1>0, <1>1, <2>1, <4>1 DEF ListTypes
      <3> QED BY <1>0, <1>1, <1>2, <1>4, <2>1, <3>1, <3>2, <3>3 DEF ListTypes
    <2>4. Since(q.since, q.upto)
      BY <1>0, <1>6 DEF ReloadOK
    <2>5. Since(list.since, snapshot)'
      <3> SUFFICES ASSUME NEW r \in Inbox!Rows, touched[r] <= q.since
                   PROVE  time[r] <= snapshot
        BY <1>1, <2>1 DEF Since
      <3>1. /\ time[r] \in Nat /\ q.upto \in Nat /\ snapshot \in Nat
            /\ time[r] <= q.upto /\ q.upto <= snapshot
        BY <1>0, <2>4, EntryOK DEF Since, ListTypes, RowTypes, Fetch
      <3> QED BY <3>1
    <2>6. ASSUME NEW o \in reads'
          PROVE  ReloadOK(o)' /\ OlderOK(o)'
      <3>1. ReloadOK(o) /\ o.list \in Nat /\ o.list <= list.number
        BY <1>0, <1>1, <2>6 DEF ListOK, ListTypes, Fetch
      <3>2. ReloadOK(o)'
        BY <1>1, <1>3, <3>1 DEF ReloadOK, Since, Placed
      <3>3. o.list # list'.number
        BY <1>0, <2>1, <3>1
      <3> QED BY <3>2, <3>3 DEF OlderOK
    <2>7. Inbox!NothingSkipped'
      <3> SUFFICES ASSUME NEW r \in Inbox!Rows, Still(r, q.since)
                   PROVE  \/ \E c \in items' : c.row = r
                          \/ hasMore' /\ Inbox!Precedes(cursor', Inbox!Entry(r))
        BY <1>1, <1>3, <2>1 DEF Inbox!NothingSkipped, Still
      <3>1. Placed(r, p.cards, p.more, p.next)
        BY <1>0, <1>1, <1>6 DEF ReloadOK, p
      <3> QED BY <1>1, <2>2, <3>1 DEF Placed
    <2> QED BY <2>3, <2>5, <2>6, <2>7 DEF ListOK
  <1> QED BY <1>5, <1>6

LEMMA ListNext ==
  ASSUME ListOK, Inbox!Next \/ UNCHANGED inboxVars
  PROVE  ListOK'
  <1>1. ASSUME NEW q \in reads, Inbox!Serve(q) \/ Inbox!Land(q) \/ Inbox!ReadFails(q)
        PROVE  ListOK'
    BY <1>1, ServeOK, LandOK, AskingOK
  <1>2. ASSUME \/ Inbox!DecisionFails
               \/ \E d \in Inbox!Decisions, c \in items : Inbox!Decide(d, c)
        PROVE  ListOK'
    <2>1. UNCHANGED <<time, work, instant, touched, changes, items, cursor, hasMore, snapshot,
                      reads, list>>
      BY <1>2 DEF Inbox!DecisionFails, Inbox!Decide, Inbox!db, Inbox!page
    <2>2. ListTypes'
      BY <2>1 DEF ListOK, ListTypes, RowTypes
    <2> QED BY <2>1, <2>2, RowsMove
  <1>3. CASE UNCHANGED inboxVars
    BY <1>3, ListSame
  <1> QED BY <1>1, <1>2, <1>3, RowsKeep, AskingOK DEF Inbox!Next

LEMMA ListInvariant == PartSpec => [](Runs("inbox") => ListOK)
  <1> DEFINE Inv == Runs("inbox") => ListOK
  <1>1. PartInit => Inv
    BY ListInit
  <1>2. Inv /\ [PartNext]_allVars => Inv'
    <2> SUFFICES ASSUME Inv, [PartNext]_allVars, Runs("inbox")'
                 PROVE  ListOK'
      OBVIOUS
    <2>1. Runs("inbox")
      BY WhichStays DEF Runs
    <2> QED BY <2>1, ListStep, ListNext
  <1> QED BY <1>1, <1>2, PTL DEF PartSpec

\* Paging loses nothing that stood still: whatever rows come, move up and are
\* decided meanwhile, in whatever order reloads and older pages land, and
\* wherever the limits of the two queries cut.
THEOREM NothingIsSkipped == PartSpec => []NothingSkipped
  <1>1. (Runs("inbox") => ListOK) => NothingSkipped
    BY DEF NothingSkipped, ListOK
  <1> QED BY <1>1, ListInvariant, PTL

-----------------------------------------------------------------------------
(* A card of the Inbox.                                                    *)

ActionRow == [state : {"none", "queued", "revocation_pending", "provider_mutating",
                       "succeeded", "needs_review", "aborted"},
              late : BOOLEAN, revision : Nat]
CardRead == [at : {"none", "asked", "read"}, row : ActionRow]
Dates    == SUBSET (Card!Ends \X Int)
Decision == [what : {"none", "confirm", "abort"},
             at : {"idle", "asked", "answered", "listing", "refreshing"},
             item : Items \cup {Card!Shut}, wide : BOOLEAN, typed : Dates, sends : Dates]

CardTypes ==
  /\ act \in [Items -> ActionRow] /\ linked \in [Items -> ActionRow]
  /\ opened \in [Items -> Nat] /\ fetches \in [Items -> CardRead]
  /\ readStatus \in [Items -> [facts : Card!Statuses, action : Card!Statuses]]
  /\ draft \in [Card!Ends -> Int] /\ call \in Decision

\* What was read since the card opened is as new as the action was then, and a
\* card with no read under way opens with one.
Reads(i) ==
  /\ opened[i] <= act[i].revision
  /\ readStatus[i].action = "loaded" => opened[i] <= linked[i].revision
  /\ fetches[i].at = "read" => opened[i] <= fetches[i].row.revision
  /\ fetches[i] = Card!Unfetched => readStatus[i].facts # "loading"

CardOK == CardTypes /\ (\A i \in Items : Reads(i)) /\ Card!DatesAsTyped

LEMMA CardStep ==
  ASSUME [PartNext]_allVars, Runs("card")
  PROVE  Card!Next \/ UNCHANGED cardVars
  BY DEF PartNext, allVars, Runs

LEMMA CardSame ==
  ASSUME CardOK, UNCHANGED cardVars
  PROVE  CardOK'
  BY DEF CardOK, CardTypes, Reads, Card!DatesAsTyped, cardVars

LEMMA ConstantsOK ==
  /\ Card!NoAction \in ActionRow
  /\ Card!Unfetched \in CardRead
  /\ Card!NoCall \in Decision
  <1>1. Card!NoAction \in ActionRow
    BY DEF Card!NoAction, ActionRow
  <1>2. Card!Unfetched \in CardRead
    BY <1>1 DEF Card!Unfetched, CardRead
  <1>3. {} \in Dates
    BY DEF Dates
  <1>4. Card!NoCall \in Decision
    BY <1>3 DEF Card!NoCall, Decision
  <1> QED BY <1>1, <1>2, <1>4

LEMMA CardInit == PartInit => CardOK
  <1> SUFFICES ASSUME PartInit PROVE CardOK
    OBVIOUS
  <1> USE DEF PartInit, Card!Init
  <1>1. act \in [Items -> ActionRow]
    BY CardAssumption DEF ActionRow
  <1>2. linked \in [Items -> ActionRow] /\ fetches \in [Items -> CardRead] /\ call \in Decision
    BY ConstantsOK
  <1>3. /\ opened \in [Items -> Nat] /\ draft \in [Card!Ends -> Int]
        /\ readStatus \in [Items -> [facts : Card!Statuses, action : Card!Statuses]]
    BY DEF Card!Both, Card!Statuses
  <1>4. ASSUME NEW i \in Items
        PROVE  Reads(i)
    BY <1>1 DEF Reads, Card!Both, Card!Unfetched, ActionRow
  <1>5. Card!DatesAsTyped
    BY DEF Card!DatesAsTyped, Card!NoCall
  <1> QED BY <1>1, <1>2, <1>3, <1>4, <1>5 DEF CardOK, CardTypes

LEMMA ZonesOK == ZoneBefore \in Int /\ ZoneAfter \in Int /\ ZoneChange \in Int
  BY CardAssumption

\* The zone's offset is taken on the right side of its change: what was typed
\* is what the instant reads as, and an untouched field is not sent.
LEMMA TypedDates ==
  ASSUME NEW b \in Int, NEW w \in Int,
         Card!Clear(b, Card!Wall(b)), Card!Clear(Card!ToInstant(w), w)
  PROVE  /\ Card!ToInstant(w) \in Int
         /\ Card!Wall(Card!ToInstant(w)) = w
         /\ w = Card!Wall(b) <=> Card!ToInstant(w) = b
  <1>1. Card!Offset(w) \in Int /\ Card!Offset(b) \in Int
    BY ZonesOK DEF Card!Offset
  <1>2. Card!Offset(Card!ToInstant(w)) = Card!Offset(w)
    BY DEF Card!Clear, Card!Offset
  <1>3. Card!Offset(Card!Wall(b)) = Card!Offset(b)
    BY DEF Card!Clear, Card!Offset
  <1> QED BY <1>1, <1>2, <1>3 DEF Card!Wall, Card!ToInstant

LEMMA ConfirmSends ==
  ASSUME CardTypes, NEW i \in Items, NEW wide \in BOOLEAN, Card!Confirm(i, wide)
  PROVE  call' \in Decision /\ Card!DatesAsTyped'
  <1> DEFINE edited == corrected = i /\ facts[i]
             fixed == Card!Corrections(i)
             sent == [e \in Card!Ends |-> Card!ToInstant(draft[e])]
             D == {f \in Card!Ends : sent[f] # Proposed[i][f]}
  <1>1. Proposed[i] \in [Card!Ends -> Int]
    BY CardAssumption DEF Card!Ends
  <1>2. sent \in [Card!Ends -> Int]
    BY ZonesOK DEF CardTypes, Card!ToInstant, Card!Offset
  <1>3. fixed = [e \in D |-> sent[e]]
    BY DEF Card!Corrections
  <1>4. Card!Pairs(draft) = {<<e, draft[e]>> : e \in Card!Ends}
    BY DEF CardTypes, Card!Pairs
  <1>5. Card!Pairs(fixed) = {<<e, sent[e]>> : e \in D}
    BY <1>3 DEF Card!Pairs
  <1>6. {Card!Pairs(draft), Card!Pairs(fixed), {}} \subseteq Dates
    <2>1. \A e \in Card!Ends : <<e, draft[e]>> \in Card!Ends \X Int
      BY DEF CardTypes
    <2>2. \A e \in D : <<e, sent[e]>> \in Card!Ends \X Int
      BY <1>2
    <2>3. Card!Pairs(draft) \subseteq Card!Ends \X Int
      BY <1>4, <2>1
    <2>4. Card!Pairs(fixed) \subseteq Card!Ends \X Int
      BY <1>5, <2>2
    <2> QED BY <2>3, <2>4 DEF Dates
  <1>7. call' = [what |-> "confirm", at |-> "asked", item |-> i, wide |-> wide,
                 typed |-> IF edited THEN Card!Pairs(draft) ELSE {},
                 sends |-> IF wide /\ edited THEN Card!Pairs(fixed) ELSE {}]
    BY DEF Card!Confirm
  <1> HIDE DEF fixed, edited, sent, D
  <1>8. call' \in Decision
    BY <1>6, <1>7 DEF Decision
  <1>9. ASSUME call'.wide, NEW f \in call'.typed,
               Card!Clear(Proposed[i][f[1]], Card!Wall(Proposed[i][f[1]])),
               Card!Clear(Card!ToInstant(f[2]), f[2])
        PROVE  LET sends == {s[2] : s \in {p \in call'.sends : p[1] = f[1]}}
               IN  IF f[2] = Card!Wall(Proposed[i][f[1]]) THEN sends = {}
                   ELSE \E t \in sends : Card!Wall(t) = f[2]
    <2>1. edited /\ wide
      BY <1>7, <1>9
    <2>2. PICK e \in Card!Ends : f = <<e, draft[e]>>
      BY <1>4, <1>7, <1>9, <2>1
    <2>3. call'.sends = {<<d, sent[d]>> : d \in D}
      BY <1>5, <1>7, <2>1
    <2>4. draft[e] \in Int /\ Proposed[i][e] \in Int /\ sent[e] = Card!ToInstant(draft[e])
      BY <1>1 DEF CardTypes, sent
    <2>5. /\ Card!Wall(Card!ToInstant(draft[e])) = draft[e]
          /\ draft[e] = Card!Wall(Proposed[i][e]) <=> Card!ToInstant(draft[e]) = Proposed[i][e]
      BY <1>9, <2>2, <2>4, TypedDates
    <2>6. e \in D <=> Card!ToInstant(draft[e]) # Proposed[i][e]
      BY <2>4 DEF D
    <2>7. {p \in call'.sends : p[1] = e} = IF e \in D THEN {<<e, sent[e]>>} ELSE {}
      BY <2>3
    <2>8. CASE e \in D
      <3>1. draft[e] # Card!Wall(Proposed[i][e])
        BY <2>5, <2>6, <2>8
      <3>2. sent[e] \in {s[2] : s \in {p \in call'.sends : p[1] = e}}
        BY <2>7, <2>8
      <3> QED BY <2>2, <2>4, <2>5, <3>1, <3>2
    <2>9. CASE e \notin D
      <3>1. draft[e] = Card!Wall(Proposed[i][e])
        BY <2>5, <2>6, <2>9
      <3>2. {s[2] : s \in {p \in call'.sends : p[1] = e}} = {}
        BY <2>7, <2>9
      <3> QED BY <2>2, <3>1, <3>2
    <2> QED BY <2>8, <2>9
  <1> QED BY <1>7, <1>8, <1>9 DEF Card!DatesAsTyped

LEMMA DatesStay ==
  ASSUME Card!DatesAsTyped, call'.what # "confirm" \/ call' = call
  PROVE  Card!DatesAsTyped'
  BY DEF Card!DatesAsTyped

LEMMA CallGoesOn ==
  ASSUME Card!DatesAsTyped, call \in Decision,
         NEW at2 \in {"answered", "listing", "refreshing"}, call' = [call EXCEPT !.at = at2]
  PROVE  Card!DatesAsTyped' /\ call' \in Decision
  <1>1. /\ call'.what = call.what /\ call'.wide = call.wide /\ call'.item = call.item
        /\ call'.typed = call.typed /\ call'.sends = call.sends
    BY DEF Decision
  <1>2. call' \in Decision
    BY DEF Decision
  <1> QED BY <1>1, <1>2 DEF Card!DatesAsTyped

\* An action only moves on: its revision grows.
LEMMA ActionMoves ==
  ASSUME CardTypes, NEW i \in Items,
         NEW state \in {"queued", "revocation_pending", "provider_mutating", "succeeded",
                        "needs_review", "aborted"},
         Card!Moves(i, state)
  PROVE  /\ act' \in [Items -> ActionRow]
         /\ \A h \in Items : act[h].revision <= act'[h].revision
  <1> DEFINE r == [state |-> state, late |-> FALSE, revision |-> act[i].revision + 1]
  <1>1. act[i].revision \in Nat /\ \A h \in Items : act[h].revision \in Nat
    BY DEF CardTypes, ActionRow
  <1>2. r \in ActionRow /\ r.revision = act[i].revision + 1
    BY <1>1 DEF ActionRow
  <1>3. act' = [act EXCEPT ![i] = r]
    BY DEF Card!Moves
  <1> HIDE DEF r
  <1> QED BY <1>1, <1>2, <1>3 DEF CardTypes

\* The rest of a card's reads stands when only its action moves.
LEMMA ReadsStay ==
  ASSUME CardOK, act' \in [Items -> ActionRow],
         \A h \in Items : act[h].revision <= act'[h].revision,
         UNCHANGED <<opened, linked, fetches, readStatus>>
  PROVE  \A i \in Items : Reads(i)'
  <1> TAKE i \in Items
  <1>1. opened[i] \in Nat /\ act[i].revision \in Nat /\ act'[i].revision \in Nat
    BY DEF CardOK, CardTypes, ActionRow
  <1> QED BY <1>1 DEF CardOK, Reads

LEMMA CardNext ==
  ASSUME CardOK, Card!Next \/ UNCHANGED cardVars
  PROVE  CardOK'
  <1>0. CardTypes /\ Card!DatesAsTyped /\ \A i \in Items : Reads(i)
    BY DEF CardOK
  <1>1. ASSUME NEW i \in Items, Card!Worker(i)
        PROVE  CardOK'
    <2>1. PICK state \in {"revocation_pending", "provider_mutating", "succeeded", "needs_review"} :
            Card!Moves(i, state)
      BY <1>1 DEF Card!Worker
    <2>2. /\ act' \in [Items -> ActionRow]
          /\ \A h \in Items : act[h].revision <= act'[h].revision
      BY <1>0, <2>1, ActionMoves
    <2>3. UNCHANGED <<opened, linked, fetches, readStatus, draft, call>>
      BY <1>1 DEF Card!Worker, Card!known, Card!editor
    <2> QED BY <1>0, <2>2, <2>3, ReadsStay, DatesStay DEF CardOK, CardTypes
  <1>2. ASSUME NEW i \in Items, Card!Deadline(i)
        PROVE  CardOK'
    <2>1. UNCHANGED <<opened, linked, fetches, readStatus, draft, call>>
      BY <1>2 DEF Card!Deadline, Card!known, Card!editor
    <2>2. /\ act' \in [Items -> ActionRow]
          /\ \A h \in Items : act[h].revision <= act'[h].revision
      <3>1. act' = [act EXCEPT ![i].late = TRUE]
        BY <1>2 DEF Card!Deadline
      <3>2. \A h \in Items : act[h] \in ActionRow
        BY <1>0 DEF CardTypes
      <3>3. \A h \in Items : act'[h] = IF h = i THEN [act[i] EXCEPT !.late = TRUE] ELSE act[h]
        BY <1>0, <3>1 DEF CardTypes
      <3>4. \A h \in Items : act'[h] \in ActionRow /\ act'[h].revision = act[h].revision
        BY <3>2, <3>3 DEF ActionRow
      <3>5. \A h \in Items : act[h].revision <= act'[h].revision
        BY <3>2, <3>4 DEF ActionRow
      <3>6. act' = [h \in Items |-> act'[h]]
        BY <1>0, <3>1 DEF CardTypes
      <3> QED BY <3>4, <3>5, <3>6
    <2> QED BY <1>0, <2>1, <2>2, ReadsStay, DatesStay DEF CardOK, CardTypes
  <1>3. ASSUME NEW i \in Items, Card!Open(i)
        PROVE  CardOK'
    <2> DEFINE both == Card!Both("loading")
               asking == [Card!Unfetched EXCEPT !.at = "asked"]
    <2>1. /\ UNCHANGED <<act, linked, draft, call>>
          /\ \/ /\ readStatus' = [readStatus EXCEPT ![i] = both]
                /\ fetches' = [fetches EXCEPT ![i] = asking]
             \/ UNCHANGED <<readStatus, fetches>>
          /\ opened' = [opened EXCEPT ![i] = act[i].revision] \/ opened' = opened
          /\ opened' = opened \/
               (fetches[i] = Card!Unfetched /\ (Card!Reads(i) => readStatus' = [readStatus EXCEPT ![i] = both]
                  /\ fetches' = [fetches EXCEPT ![i] = asking]))
      BY <1>3 DEF Card!Open, Card!database, Card!editor
    <2>2. /\ asking \in CardRead /\ asking.at = "asked" /\ asking # Card!Unfetched
          /\ both \in [facts : Card!Statuses, action : Card!Statuses]
          /\ both.facts = "loading" /\ both.action = "loading"
      BY ConstantsOK DEF CardRead, Card!Both, Card!Statuses, Card!Unfetched
    <2> HIDE DEF asking, both
    <2>3. act[i].revision \in Nat
      BY <1>0 DEF CardTypes, ActionRow
    <2>4. CardTypes'
      BY ZenonT(60), <1>0, <2>1, <2>2, <2>3 DEF CardTypes
    <2>5. ASSUME NEW h \in Items
          PROVE  Reads(h)'
      <3>1. CASE opened' = opened
        BY <1>0, <2>1, <2>2, <3>1 DEF Reads, CardTypes
      <3>2. CASE opened' # opened
        <4>1. readStatus[i].facts # "loading"
          BY <1>0, <2>1, <3>2 DEF Reads
        <4>2. /\ readStatus' = [readStatus EXCEPT ![i] = both]
              /\ fetches' = [fetches EXCEPT ![i] = asking]
              /\ opened' = [opened EXCEPT ![i] = act[i].revision]
          BY <2>1, <3>2, <4>1 DEF Card!Reads
        <4> QED BY <1>0, <2>1, <2>2, <2>3, <4>2 DEF Reads, CardTypes
      <3> QED BY <3>1, <3>2
    <2> QED BY <1>0, <2>1, <2>4, <2>5, DatesStay DEF CardOK, CardTypes
  <1>4. ASSUME NEW i \in Items, Card!ReadRow(i)
        PROVE  CardOK'
    <2> DEFINE r == [at |-> "read", row |-> act[i]]
    <2>1. /\ fetches' = [fetches EXCEPT ![i] = r]
          /\ UNCHANGED <<act, linked, opened, readStatus, draft, call>>
      BY <1>4 DEF Card!ReadRow, Card!database, Card!editor
    <2>2. r \in CardRead /\ r.at = "read" /\ r.row = act[i] /\ r # Card!Unfetched
      BY <1>0 DEF CardTypes, CardRead, Card!Unfetched
    <2> HIDE DEF r
    <2>3. CardTypes'
      BY <1>0, <2>1, <2>2 DEF CardTypes
    <2>4. ASSUME NEW h \in Items
          PROVE  Reads(h)'
      BY <1>0, <2>1, <2>2 DEF Reads, CardTypes
    <2> QED BY <1>0, <2>1, <2>3, <2>4, DatesStay DEF CardOK, CardTypes
  <1>5. ASSUME NEW i \in Items, NEW f \in {"loaded", "error"}, NEW a \in {"loaded", "error"},
               Card!Enriched(i, f, a)
        PROVE  CardOK'
    <2> DEFINE r == [facts |-> f, action |-> a]
    <2>1. /\ readStatus' = [readStatus EXCEPT ![i] = r]
          /\ fetches' = [fetches EXCEPT ![i] = Card!Unfetched]
          /\ linked' = IF a = "loaded" THEN [linked EXCEPT ![i] = fetches[i].row] ELSE linked
          /\ fetches[i].at = "read"
          /\ UNCHANGED <<act, opened, draft, call>>
      BY <1>5 DEF Card!Enriched, Card!database, Card!editor
    <2>2. /\ r \in [facts : Card!Statuses, action : Card!Statuses]
          /\ r.facts # "loading" /\ r.action = a
      BY DEF Card!Statuses
    <2>3. /\ Card!Unfetched \in CardRead /\ Card!Unfetched.at # "read"
          /\ fetches[i].row \in ActionRow
      BY <1>0, ConstantsOK DEF Card!Unfetched, CardTypes, CardRead
    <2> HIDE DEF r
    <2>4. CardTypes'
      BY <1>0, <2>1, <2>2, <2>3 DEF CardTypes
    <2>5. ASSUME NEW h \in Items
          PROVE  Reads(h)'
      BY <1>0, <2>1, <2>2, <2>3 DEF Reads, CardTypes
    <2> QED BY <1>0, <2>1, <2>4, <2>5, DatesStay DEF CardOK, CardTypes
  <1>6. ASSUME NEW i \in Items, Card!BeginCorrection(i)
        PROVE  CardOK'
    <2>1. /\ draft' = [e \in Card!Ends |-> Card!Wall(Proposed[i][e])]
          /\ UNCHANGED <<act, linked, opened, fetches, readStatus, call>>
      BY <1>6 DEF Card!BeginCorrection, Card!database, Card!known
    <2>2. \A e \in Card!Ends : Proposed[i][e] \in Int
      BY CardAssumption DEF Card!Ends
    <2>3. draft' \in [Card!Ends -> Int]
      BY <2>1, <2>2, ZonesOK DEF Card!Wall, Card!Offset
    <2> QED BY <1>0, <2>1, <2>3, ReadsStay, DatesStay DEF CardOK, CardTypes, Reads
  <1>7. ASSUME NEW i \in Items, Card!Abort(i)
        PROVE  CardOK'
    <2> DEFINE c == [Card!NoCall EXCEPT !.what = "abort", !.at = "asked", !.item = i]
    <2>1. /\ call' = c
          /\ UNCHANGED <<act, linked, opened, fetches, readStatus, draft>>
      BY <1>7 DEF Card!Abort, Card!database, Card!known, Card!editor
    <2>2. c \in Decision /\ c.what = "abort"
      BY ConstantsOK DEF Decision
    <2> HIDE DEF c
    <2> QED BY <1>0, <2>1, <2>2, DatesStay DEF CardOK, CardTypes, Reads
  <1>8. ASSUME NEW e \in Card!Ends, NEW w \in Walls, Card!Type(e, w)
        PROVE  CardOK'
    <2>1. /\ draft' = [draft EXCEPT ![e] = w]
          /\ UNCHANGED <<act, linked, opened, fetches, readStatus, call>>
      BY <1>8 DEF Card!Type, Card!database, Card!known
    <2>2. w \in Int
      BY CardAssumption
    <2>3. draft' \in [Card!Ends -> Int]
      BY <1>0, <2>1, <2>2 DEF CardTypes
    <2> QED BY <1>0, <2>1, <2>3, DatesStay DEF CardOK, CardTypes, Reads
  <1>9. ASSUME NEW i \in Items, NEW wide \in BOOLEAN, Card!Confirm(i, wide)
        PROVE  CardOK'
    <2>1. UNCHANGED <<act, linked, opened, fetches, readStatus, draft>>
      BY <1>9 DEF Card!Confirm, Card!database, Card!known, Card!editor
    <2> QED BY <1>0, <1>9, <2>1, ConfirmSends DEF CardOK, CardTypes, Reads
  <1>10. ASSUME NEW at2 \in {"answered", "refreshing"}, NEW state \in {"queued", "aborted"},
                Card!Moves(call.item, state), call' = [call EXCEPT !.at = at2],
                UNCHANGED <<opened, linked, fetches, readStatus, draft>>
         PROVE  CardOK'
    <2>1. /\ act' \in [Items -> ActionRow]
          /\ \A h \in Items : act[h].revision <= act'[h].revision
      <3>1. CASE call.item \in Items
        BY <1>0, <1>10, <3>1, ActionMoves
      <3>2. CASE call.item \notin Items
        <4>1. act' = act
          BY <1>0, <1>10, <3>2 DEF Card!Moves, CardTypes
        <4> QED BY <1>0, <4>1 DEF CardTypes, ActionRow
      <3> QED BY <3>1, <3>2
    <2>2. call \in Decision
      BY <1>0 DEF CardTypes
    <2>3. call' \in Decision /\ Card!DatesAsTyped'
      BY <1>0, <1>10, <2>2, CallGoesOn
    <2>4. \A h \in Items : Reads(h)'
      BY <1>10, <2>1, ReadsStay
    <2>5. CardTypes'
      BY <1>0, <1>10, <2>1, <2>3 DEF CardTypes
    <2> QED BY <2>3, <2>4, <2>5 DEF CardOK
  <1>11. CASE Card!Confirmed
    BY <1>10, <1>11 DEF Card!Confirmed, Card!known, Card!editor
  <1>12. CASE Card!Told
    <2>1. /\ call' = [call EXCEPT !.at = "listing"]
          /\ UNCHANGED <<act, linked, opened, fetches, readStatus, draft>>
      BY <1>12 DEF Card!Told, Card!database, Card!known
    <2>2. call \in Decision
      BY <1>0 DEF CardTypes
    <2>3. call' \in Decision /\ Card!DatesAsTyped'
      BY <1>0, <2>1, <2>2, CallGoesOn
    <2> QED BY <1>0, <2>1, <2>3 DEF CardOK, CardTypes, Reads
  <1>13. CASE Card!Listed \/ Card!CallFails
    <2>1. /\ call' = Card!NoCall
          /\ UNCHANGED <<act, linked, opened, fetches, readStatus, draft>>
      BY <1>13 DEF Card!Listed, Card!CallFails, Card!database, Card!known, Card!editor
    <2>2. call' \in Decision /\ call'.what # "confirm"
      BY <2>1, ConstantsOK DEF Card!NoCall
    <2> QED BY <1>0, <2>1, <2>2, DatesStay DEF CardOK, CardTypes, Reads
  <1>14. CASE Card!Aborted
    BY <1>10, <1>14 DEF Card!Aborted, Card!known, Card!editor
  <1>15. CASE Card!Refreshed
    <2>1. /\ linked' = [linked EXCEPT ![call.item] = act[call.item]]
          /\ call' = Card!NoCall
          /\ UNCHANGED <<act, opened, fetches, readStatus, draft>>
      BY <1>15 DEF Card!Refreshed, Card!database, Card!editor
    <2>2. call' \in Decision /\ call'.what # "confirm"
      BY <2>1, ConstantsOK DEF Card!NoCall
    <2>3. CardTypes'
      BY <1>0, <2>1, <2>2 DEF CardTypes
    <2>4. ASSUME NEW h \in Items
          PROVE  Reads(h)'
      BY <1>0, <2>1 DEF Reads, CardTypes
    <2> QED BY <1>0, <2>2, <2>3, <2>4, DatesStay DEF CardOK, CardTypes
  <1>16. CASE UNCHANGED cardVars
    BY <1>16, CardSame
  <1> QED BY <1>1, <1>2, <1>3, <1>4, <1>5, <1>6, <1>7, <1>8, <1>9, <1>11, <1>12, <1>13, <1>14,
             <1>15, <1>16 DEF Card!Next

LEMMA CardKeeps == CardOK => Card!CardKeepsFaith
  BY DEF CardOK, Reads, Card!CardKeepsFaith, Card!CardIsFresh

LEMMA CardInvariant == PartSpec => [](Runs("card") => CardOK)
  <1>1. PartInit => (Runs("card") => CardOK)
    BY CardInit
  <1>2. (Runs("card") => CardOK) /\ [PartNext]_allVars => (Runs("card") => CardOK)'
    <2> SUFFICES ASSUME Runs("card") => CardOK, [PartNext]_allVars, Runs("card")'
                 PROVE  CardOK'
      OBVIOUS
    <2>1. Runs("card")
      BY WhichStays DEF Runs
    <2> QED BY <2>1, CardStep, CardNext
  <1> QED BY <1>1, <1>2, PTL DEF PartSpec

\* Whatever the worker does to an action and however the owner opens, shuts and
\* aborts: a card that has settled shows the action as it was when it opened or
\* later, and its confirm sends the dates the owner changed as he typed them.
THEOREM CardAlwaysFaithful == PartSpec => []CardKeepsFaith
  <1>1. (Runs("card") => CardOK) => CardKeepsFaith
    BY CardKeeps DEF CardKeepsFaith
  <1> QED BY <1>1, CardInvariant, PTL

-----------------------------------------------------------------------------
(* The types of these parts.                                               *)

\* The page's buttons wait for a read, or they do not.
LEMMA LoadingInvariant == PartSpec => [](Runs("inbox") => loading \in BOOLEAN)
  <1> DEFINE Inv == Runs("inbox") => loading \in BOOLEAN
  <1>1. PartInit => Inv
    BY DEF PartInit, Inbox!Init
  <1>2. Inv /\ [PartNext]_allVars => Inv'
    <2> SUFFICES ASSUME loading \in BOOLEAN, Inbox!Next \/ UNCHANGED inboxVars
                 PROVE  loading' \in BOOLEAN
      BY WhichStays, ListStep DEF Runs
    <2> QED
      BY DEF Inbox!Next, Inbox!Tick, Inbox!MailComes, Inbox!EventEdited, Inbox!Elsewhere,
         Inbox!LoadOlder, Inbox!Serve, Inbox!Land, Inbox!ReadFails, Inbox!Decide,
         Inbox!Decided, Inbox!DecisionFails, Inbox!page, inboxVars
  <1> QED BY <1>1, <1>2, PTL DEF PartSpec

LEMMA InboxTypes == ListOK /\ loading \in BOOLEAN => Inbox!TypeOK
  <1> SUFFICES ASSUME ListTypes, loading \in BOOLEAN PROVE Inbox!TypeOK
    BY DEF ListOK
  <1>1. touched \in [Inbox!Rows -> 0 .. changes]
    BY DEF ListTypes
  <1>2. \A q \in reads : {q.from, q.page.next} \subseteq Inbox!Cursors /\ q.list <= list.number
    BY DEF ListTypes, Fetch, Answer
  <1> QED
    BY <1>1, <1>2 DEF ListTypes, RowTypes, ListedCards, Works, Inbox!TypeOK

\* A candidate waits, is being applied, or is done, and a card shows one of those;
\* what is open on the page, and what is corrected there, is a card or nothing.
Stages == {"needs_review", "applying", "applied"}
CardPlaces ==
  /\ candidate \in [Items -> Stages] /\ shown \in [Items -> Stages]
  /\ expanded \in Items \cup {Card!Shut} /\ corrected \in Items \cup {Card!Shut}

LEMMA PlacesInvariant == PartSpec => [](Runs("card") => CardPlaces)
  <1> DEFINE Inv == Runs("card") => CardPlaces
  <1>1. PartInit => Inv
    <2> SUFFICES ASSUME Card!Init PROVE CardPlaces
      BY DEF PartInit
    <2>1. candidate \in [Items -> Stages]
      BY DEF Card!Init, Stages
    <2> QED BY <2>1 DEF Card!Init, CardPlaces
  <1>2. Inv /\ [PartNext]_allVars => Inv'
    <2> SUFFICES ASSUME CardPlaces, Card!Next \/ UNCHANGED cardVars
                 PROVE  CardPlaces'
      BY WhichStays, CardStep DEF Runs
    <2> USE DEF CardPlaces
    <2>1. CASE UNCHANGED cardVars
      BY <2>1 DEF cardVars
    <2>2. ASSUME NEW i \in Items, Card!Worker(i)
          PROVE  CardPlaces'
      BY <2>2 DEF Card!Worker, Card!editor, Stages
    <2>3. ASSUME NEW i \in Items, Card!Open(i)
          PROVE  CardPlaces'
      BY <2>3 DEF Card!Open, Card!database, Card!editor
    <2>4. ASSUME NEW i \in Items, Card!Deadline(i) \/ Card!ReadRow(i)
                 \/ Card!BeginCorrection(i) \/ Card!Abort(i)
          PROVE  CardPlaces'
      BY <2>4 DEF Card!Deadline, Card!ReadRow, Card!BeginCorrection, Card!Abort,
         Card!database, Card!editor
    <2>5. ASSUME NEW i \in Items, \/ \E f, a \in {"loaded", "error"} : Card!Enriched(i, f, a)
                                 \/ \E wide \in BOOLEAN : Card!Confirm(i, wide)
          PROVE  CardPlaces'
      BY <2>5 DEF Card!Enriched, Card!Confirm, Card!database, Card!editor
    <2>6. ASSUME NEW e \in Card!Ends, NEW w \in Walls, Card!Type(e, w)
          PROVE  CardPlaces'
      BY <2>6 DEF Card!Type, Card!database
    <2>7. CASE Card!Confirmed \/ Card!Aborted
      BY <2>7 DEF Card!Confirmed, Card!Aborted, Card!editor, Stages
    <2>8. CASE Card!Told \/ Card!Listed \/ Card!Refreshed \/ Card!CallFails
      BY <2>8 DEF Card!Told, Card!Listed, Card!Refreshed, Card!CallFails, Card!database,
         Card!editor
    <2> QED
      BY <2>1, <2>2, <2>3, <2>4, <2>5, <2>6, <2>7, <2>8 DEF Card!Next
  <1> QED BY <1>1, <1>2, PTL DEF PartSpec

LEMMA CardTypesOK == CardOK /\ CardPlaces => Card!TypeOK
  BY DEF CardOK, CardTypes, CardPlaces, Stages, ActionRow, Decision, Card!TypeOK

\* The list on the Inbox's page, the reads on their way to it and its cards stay what
\* their modules say they are, for any rows, pages, actions and clicks
\* (OwnerInbox.tsx, email-inbox-repository.ts, InboxCandidateCard.tsx).
THEOREM InboxPartsTyped == PartSpec => [](which \in {"inbox", "card"} => PartsTypeOK)
  <1>1. ASSUME which \in {"inbox", "card"}, Runs("inbox") => ListOK,
               Runs("inbox") => loading \in BOOLEAN,
               Runs("card") => CardOK, Runs("card") => CardPlaces
        PROVE  PartsTypeOK
    <2>1. CASE which = "inbox"
      BY <1>1, <2>1, InboxTypes DEF PartsTypeOK, Runs
    <2>2. CASE which = "card"
      BY <1>1, <2>2, CardTypesOK DEF PartsTypeOK, Runs
    <2> QED BY <1>1, <2>1, <2>2
  <1> QED
    BY <1>1, ListInvariant, LoadingInvariant, CardInvariant, PlacesInvariant, PTL
=============================================================================

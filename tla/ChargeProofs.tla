----------------------------- MODULE ChargeProofs ----------------------------
(***************************************************************************)
(* Theorems about ChargeLedger, for any moments, readings, trips, invoices *)
(* and windows and a history of any length: that the fold over the points  *)
(* and the islands of charging rows find the same sessions, that settled   *)
(* sessions stay, and that what Tesla billed is counted once.              *)
(*                                                                         *)
(* The fold is a recursive function, and the provers cannot instantiate an *)
(* induction: each induction is over the least number, or from a smallest  *)
(* set, at which what is claimed would fail.  So the fold's value after    *)
(* every point is written out first (AsOf): what is open, from its start   *)
(* on, and the sessions the points so far have closed.  Sums over a set    *)
(* are treated likewise (Sums).                                            *)
(***************************************************************************)
EXTENDS ChargeLedger, FiniteSetTheorems, TLAPS

-----------------------------------------------------------------------------
(* The charging sessions: numbers and finite sets of them.                 *)

\* A set of numbers has a least one, and a greatest one where it is finite.
LEMMA Least ==
  ASSUME NEW T \in SUBSET Nat, T # {}
  PROVE  \E x \in T : \A y \in T : x <= y
  <1> DEFINE R == {p \in Nat \X Nat : p[1] < p[2]}
  <1>1. IsWellFoundedOn(R, Nat)
    BY NatLessThanWellFounded DEF OpToRel
  <1> HIDE DEF R
  <1>2. PICK x \in T : \A y \in T : <<y, x>> \notin R
    BY <1>1, WFMin
  <1>3. \A y \in T : ~(y < x)
    BY <1>2 DEF R
  <1> QED
    BY <1>3

LEMMA FiniteGreatest ==
  ASSUME NEW T \in SUBSET Nat, T # {}, IsFiniteSet(T)
  PROVE  \E x \in T : \A y \in T : y <= x
  <1> DEFINE Top(U) == \E x \in U : \A y \in U : y <= x
             Bad == {n \in Nat : \E U \in SUBSET T : U # {} /\ Cardinality(U) = n /\ ~Top(U)}
  <1> SUFFICES ASSUME ~Top(T) PROVE FALSE
    OBVIOUS
  <1>1. Cardinality(T) \in Bad
    BY FS_CardinalityType
  <1>2. PICK n \in Bad : \A m \in Bad : n <= m
    BY <1>1, Least
  <1>3. PICK U \in SUBSET T : U # {} /\ Cardinality(U) = n /\ ~Top(U)
    BY <1>2
  <1>4. PICK x \in U : TRUE
    BY <1>3
  <1>5. IsFiniteSet(U) /\ IsFiniteSet(U \ {x}) /\ Cardinality(U \ {x}) = n - 1
    <2>1. IsFiniteSet(U)
      BY <1>3, FS_Subset
    <2> QED
      BY <1>3, <1>4, <2>1, FS_RemoveElement
  <1>6. n - 1 \in Nat
    BY <1>5, FS_CardinalityType
  <1>7. n - 1 \notin Bad
    BY <1>2, <1>6
  <1>8. U \ {x} # {} => Top(U \ {x})
    BY <1>5, <1>6, <1>7
  <1>9. CASE U \ {x} = {}
    <2>1. U = {x}
      BY <1>4, <1>9
    <2> QED
      BY <1>3, <1>4, <2>1
  <1>10. CASE U \ {x} # {}
    <2>1. PICK z \in U \ {x} : \A y \in U \ {x} : y <= z
      BY <1>8, <1>10
    <2>2. x \in Nat /\ z \in Nat /\ U \subseteq Nat
      OBVIOUS
    <2>3. CASE x <= z
      <3>1. \A y \in U : y <= z
        BY <2>1, <2>3
      <3> QED
        BY <1>3, <3>1
    <2>4. CASE z <= x
      <3>1. \A y \in U : y <= x
        BY <2>1, <2>2, <2>4
      <3> QED
        BY <1>3, <1>4, <3>1
    <2> QED
      BY <2>2, <2>3, <2>4
  <1> QED
    BY <1>9, <1>10

LEMMA MinOf ==
  ASSUME NEW T \in SUBSET Nat, T # {}
  PROVE  /\ Min(T) \in T
         /\ \A y \in T : Min(T) <= y
  <1>1. \E x \in T : \A y \in T : x <= y
    BY Least
  <1>2. Min(T) = CHOOSE x \in T : \A y \in T : x =< y
    BY DEF Min
  <1> QED
    BY <1>1, <1>2

LEMMA MaxOf ==
  ASSUME NEW T \in SUBSET Nat, T # {}, IsFiniteSet(T)
  PROVE  /\ Max(T) \in T
         /\ \A y \in T : y <= Max(T)
  <1>1. \E x \in T : \A y \in T : x >= y
    <2>1. PICK x \in T : \A y \in T : y <= x
      BY FiniteGreatest
    <2>2. \A y \in T : x >= y
      BY <2>1
    <2> QED
      BY <2>2
  <1>2. Max(T) = CHOOSE x \in T : \A y \in T : x >= y
    BY DEF Max
  <1>3. Max(T) \in T /\ \A y \in T : Max(T) >= y
    BY <1>1, <1>2
  <1> QED
    BY <1>3

LEMMA MaxIs ==
  ASSUME NEW T \in SUBSET Nat, NEW x \in T, \A y \in T : y <= x
  PROVE  Max(T) = x
  <1>2. \A y \in T : x >= y
    OBVIOUS
  <1>1. \E z \in T : \A y \in T : z >= y
    BY <1>2
  <1>3. Max(T) = CHOOSE z \in T : \A y \in T : z >= y
    BY DEF Max
  <1>4. Max(T) \in T /\ Max(T) >= x
    BY <1>1, <1>3
  <1>5. Max(T) <= x /\ Max(T) \in Nat /\ x \in Nat
    BY <1>4
  <1> QED
    BY <1>4, <1>5

LEMMA MinIs ==
  ASSUME NEW T \in SUBSET Nat, NEW x \in T, \A y \in T : x <= y
  PROVE  Min(T) = x
  <1>1. Min(T) \in T /\ Min(T) <= x
    BY MinOf
  <1>2. x <= Min(T) /\ Min(T) \in Nat /\ x \in Nat
    BY <1>1
  <1> QED
    BY <1>1, <1>2

-----------------------------------------------------------------------------
(* Where a session starts, and the rows it has.                            *)

\* A history: finitely many points, each at its moment.
History(h) == DOMAIN h \subseteq Nat /\ IsFiniteSet(DOMAIN h)

\* The starts of sessions up to a moment, and the last of them.
StartsTo(h, t) == {u \in Starts(h) : u <= t}
First(h, t) == Max(StartsTo(h, t))
RowsTo(h, t) == {u \in DOMAIN h : Charging(h, u) /\ First(h, u) = First(h, t)
                                  /\ u <= t}

LEMMA LagOf ==
  ASSUME NEW h, History(h), NEW t \in DOMAIN h, Before(h, t) # {}
  PROVE  /\ Lag(h, t) \in DOMAIN h /\ Lag(h, t) < t
         /\ \A u \in DOMAIN h : u < t => u <= Lag(h, t)
  <1>1. /\ Before(h, t) \in SUBSET Nat /\ IsFiniteSet(Before(h, t))
        /\ Before(h, t) \in SUBSET DOMAIN h
    <2>1. Before(h, t) \in SUBSET DOMAIN h
      BY DEF Before
    <2> QED
      BY <2>1, FS_Subset DEF History
  <1>2. /\ Lag(h, t) \in Before(h, t)
        /\ \A u \in Before(h, t) : u <= Lag(h, t)
    BY <1>1, MaxOf DEF Lag
  <1> QED
    BY <1>2 DEF Before

LEMMA StartsFinite ==
  ASSUME NEW h, History(h), NEW t \in Nat
  PROVE  /\ Starts(h) \in SUBSET DOMAIN h /\ Starts(h) \in SUBSET Nat
         /\ IsFiniteSet(Starts(h))
         /\ StartsTo(h, t) \in SUBSET Nat /\ IsFiniteSet(StartsTo(h, t))
  <1>1. Starts(h) \in SUBSET DOMAIN h
    BY DEF Starts
  <1>2. IsFiniteSet(Starts(h))
    BY <1>1, FS_Subset DEF History
  <1>3. StartsTo(h, t) \in SUBSET Starts(h)
    BY DEF StartsTo
  <1>4. IsFiniteSet(StartsTo(h, t))
    BY <1>2, <1>3, FS_Subset
  <1> QED
    BY <1>1, <1>2, <1>3, <1>4 DEF History

\* The last start up to a moment.
LEMMA FirstOf ==
  ASSUME NEW h, History(h), NEW t \in Nat, StartsTo(h, t) # {}
  PROVE  /\ First(h, t) \in Starts(h) /\ First(h, t) <= t
         /\ \A u \in Starts(h) : u <= t => u <= First(h, t)
  <1>1. StartsTo(h, t) \in SUBSET Nat /\ IsFiniteSet(StartsTo(h, t))
    BY StartsFinite
  <1>2. First(h, t) \in StartsTo(h, t) /\ \A u \in StartsTo(h, t) : u <= First(h, t)
    BY <1>1, MaxOf DEF First
  <1> QED
    BY <1>2 DEF StartsTo

LEMMA FirstIs ==
  ASSUME NEW h, History(h), NEW t \in Nat, NEW s \in Starts(h), s <= t,
         \A u \in Starts(h) : u <= t => u <= s
  PROVE  First(h, t) = s
  <1>1. StartsTo(h, t) \in SUBSET Nat
    BY StartsFinite
  <1> QED
    BY <1>1, MaxIs DEF First, StartsTo

\* A row that charges follows a start.
LEMMA ChargingStarted ==
  ASSUME NEW h, History(h), NEW t \in DOMAIN h, Charging(h, t)
  PROVE  StartsTo(h, t) # {}
  <1> DEFINE Bad == {u \in DOMAIN h : Charging(h, u) /\ StartsTo(h, u) = {}}
  <1> SUFFICES ASSUME StartsTo(h, t) = {} PROVE FALSE
    OBVIOUS
  <1>1. Bad \in SUBSET Nat /\ t \in Bad
    BY DEF History
  <1>2. PICK u \in Bad : \A v \in Bad : u <= v
    BY <1>1, Least
  <1>3. u \in DOMAIN h /\ u \in Nat /\ Charging(h, u) /\ u \notin Starts(h)
    BY <1>1, <1>2 DEF StartsTo
  <1>4. Before(h, u) # {} /\ Charging(h, Lag(h, u))
    BY <1>3 DEF Starts, AfterCharging
  <1>5. Lag(h, u) \in DOMAIN h /\ Lag(h, u) < u
    BY <1>3, <1>4, LagOf
  <1>6. StartsTo(h, Lag(h, u)) \subseteq StartsTo(h, u)
    <2>1. Starts(h) \in SUBSET Nat /\ Lag(h, u) \in Nat
      BY <1>3, <1>5, StartsFinite DEF History
    <2> HIDE DEF Bad
    <2> QED
      BY <1>3, <1>5, <2>1 DEF StartsTo
  <1>7. StartsTo(h, u) = {}
    BY <1>2
  <1> QED
    BY <1>2, <1>3, <1>4, <1>5, <1>6, <1>7 DEF History

\* A row that charges after one that did is in its session.
LEMMA Continues ==
  ASSUME NEW h, History(h), NEW t \in DOMAIN h, Charging(h, t),
         AfterCharging(h, t)
  PROVE  /\ First(h, t) = First(h, Lag(h, t))
         /\ RowsTo(h, t) = RowsTo(h, Lag(h, t)) \cup {t}
  <1> DEFINE l == Lag(h, t)
  <1>1. /\ l \in DOMAIN h /\ Charging(h, l) /\ l < t /\ l \in Nat /\ t \in Nat
        /\ \A u \in DOMAIN h : u < t => u <= l
    BY LagOf DEF AfterCharging, History
  <1>2. t \notin Starts(h)
    BY DEF Starts
  <1> HIDE DEF l
  <1>3. StartsTo(h, t) = StartsTo(h, l)
    <2>1. Starts(h) \in SUBSET DOMAIN h /\ Starts(h) \in SUBSET Nat
      BY <1>1, StartsFinite
    <2>2. ASSUME NEW u \in Starts(h)
          PROVE  u <= t <=> u <= l
      <3>1. u \in DOMAIN h /\ u \in Nat /\ u # t
        BY <1>2, <2>1
      <3> QED
        BY <1>1, <3>1
    <2> QED
      BY <2>2 DEF StartsTo
  <1>4. First(h, t) = First(h, l)
    BY <1>3 DEF First
  <1>5. \A u \in DOMAIN h : u <= t <=> u <= l \/ u = t
    BY <1>1 DEF History
  <1>6. RowsTo(h, t) = RowsTo(h, l) \cup {t}
    BY <1>1, <1>4, <1>5 DEF RowsTo
  <1> QED
    BY <1>4, <1>6 DEF l

\* A start is its own session's first row.
LEMMA StartIsFirst ==
  ASSUME NEW h, History(h), NEW t \in Starts(h)
  PROVE  /\ First(h, t) = t
         /\ RowsTo(h, t) = {t}
  <1>1. t \in Nat /\ t \in DOMAIN h /\ Charging(h, t)
    BY DEF Starts, History
  <1>2. First(h, t) = t
    BY <1>1, FirstIs
  <1>3. ASSUME NEW u \in DOMAIN h, Charging(h, u), First(h, u) = t, u <= t
        PROVE  u = t
    BY <1>1, <1>3, ChargingStarted, FirstOf DEF History
  <1>4. RowsTo(h, t) = {t}
    BY <1>1, <1>2, <1>3 DEF RowsTo
  <1> QED
    BY <1>2, <1>4

\* Between a session's start and a row of it every row charges.
LEMMA Between ==
  ASSUME NEW h, History(h), NEW t \in DOMAIN h, Charging(h, t),
         NEW v \in DOMAIN h, First(h, t) <= v, v <= t
  PROVE  Charging(h, v)
  <1> DEFINE Bad == {u \in DOMAIN h : Charging(h, u)
                       /\ \E w \in DOMAIN h : First(h, u) <= w /\ w <= u
                                              /\ ~Charging(h, w)}
  <1> SUFFICES ASSUME ~Charging(h, v) PROVE FALSE
    OBVIOUS
  <1>1. Bad \in SUBSET Nat /\ t \in Bad
    BY DEF History
  <1>2. PICK u \in Bad : \A w \in Bad : u <= w
    BY <1>1, Least
  <1>3. PICK w \in DOMAIN h : First(h, u) <= w /\ w <= u /\ ~Charging(h, w)
    BY <1>2
  <1>4. u \in DOMAIN h /\ u \in Nat /\ w \in Nat /\ Charging(h, u)
    BY <1>1, <1>2, <1>3 DEF History
  <1>5. u \notin Starts(h)
    BY <1>3, <1>4, StartIsFirst
  <1>6. AfterCharging(h, u)
    BY <1>4, <1>5 DEF Starts
  <1>7. /\ Lag(h, u) \in DOMAIN h /\ Lag(h, u) < u
        /\ \A y \in DOMAIN h : y < u => y <= Lag(h, u)
        /\ Charging(h, Lag(h, u))
    BY <1>4, <1>6, LagOf DEF AfterCharging
  <1>8. First(h, u) = First(h, Lag(h, u))
    BY <1>4, <1>6, Continues
  <1>9. w # u
    BY <1>3, <1>4
  <1>10. w < u
    BY <1>3, <1>4, <1>9
  <1>11. w <= Lag(h, u)
    BY <1>7, <1>10
  <1>12. Lag(h, u) \in Bad
    BY <1>3, <1>7, <1>8, <1>11
  <1> QED
    BY <1>2, <1>4, <1>7, <1>12 DEF History

-----------------------------------------------------------------------------
(* The loop over the points: what is open and what is done after each.     *)

\* The last reading of some rows, and whether a gap was in them.
Reads(h, R) == LET got == {t \in R : h[t].pct # Null}
               IN  IF got = {} THEN Null ELSE h[Max(got)].pct
Gapped(h, R) == \E t \in R : AfterCharging(h, t) /\ t - Lag(h, t) >= Gap

\* The session of a row as far as that row, and one that a row closes.
OpenAt(h, t) == [from |-> First(h, t), last |-> t, before |-> h[First(h, t)].pct,
                 after |-> Reads(h, RowsTo(h, t)), gap |-> Gapped(h, RowsTo(h, t))]
EndedAt(h, c) == Ended(OpenAt(h, Lag(h, c)), c,
                   Known(h[c].pct, Reads(h, RowsTo(h, Lag(h, c)))),
                   Gapped(h, RowsTo(h, Lag(h, c))))
Closing(h) == {c \in DOMAIN h : ~Charging(h, c) /\ AfterCharging(h, c)}

OpenBy(h, t) == IF Charging(h, t) THEN OpenAt(h, t) ELSE NoOpen
DoneBy(h, t) == {EndedAt(h, c) : c \in {u \in Closing(h) : u <= t}}
Begun == [open |-> NoOpen, done |-> {}]
AsOf(h, t) == [open |-> OpenBy(h, t), done |-> DoneBy(h, t)]

LEMMA ReadsOne ==
  ASSUME NEW h, NEW t \in Nat
  PROVE  Reads(h, {t}) = h[t].pct
  <1>1. CASE h[t].pct = Null
    BY <1>1 DEF Reads
  <1>2. CASE h[t].pct # Null
    <2>1. {u \in {t} : h[u].pct # Null} = {t}
      BY <1>2, Zenon
    <2>2. Max({t}) = t
      BY MaxIs
    <2> QED
      BY <2>1, <2>2 DEF Reads
  <1> QED
    BY <1>1, <1>2

LEMMA ReadsNext ==
  ASSUME NEW h, NEW R \in SUBSET Nat, NEW t \in Nat, \A u \in R : u < t
  PROVE  Reads(h, R \cup {t}) = Known(h[t].pct, Reads(h, R))
  <1>1. CASE h[t].pct = Null
    <2>1. {u \in R \cup {t} : h[u].pct # Null} = {u \in R : h[u].pct # Null}
      BY <1>1
    <2> QED
      BY <1>1, <2>1 DEF Reads, Known
  <1>2. CASE h[t].pct # Null
    <2> DEFINE got == {u \in R \cup {t} : h[u].pct # Null}
    <2>1. got \in SUBSET Nat /\ t \in got /\ \A u \in got : u <= t
      <3>1. got \in SUBSET Nat /\ t \in got
        BY <1>2
      <3>2. ASSUME NEW u \in got PROVE u <= t
        <4>1. u \in Nat /\ (u < t \/ u = t)
          OBVIOUS
        <4> QED
          BY <4>1
      <3> QED
        BY <3>1, <3>2
    <2>2. Max(got) = t
      <3> HIDE DEF got
      <3> QED
        BY <2>1, MaxIs
    <2> QED
      BY <1>2, <2>1, <2>2 DEF Reads, Known
  <1> QED
    BY <1>1, <1>2

LEMMA GappedType == \A h, R : Gapped(h, R) \in BOOLEAN
  BY DEF Gapped

LEMMA RowsNat ==
  ASSUME NEW h, History(h), NEW t
  PROVE  RowsTo(h, t) \in SUBSET Nat /\ RowsTo(h, t) \in SUBSET DOMAIN h
         /\ \A u \in RowsTo(h, t) : u <= t
  BY DEF RowsTo, History

\* A start opens a session; a row that charges on goes on with it.
LEMMA OpensAt ==
  ASSUME NEW h, History(h), NEW t \in Starts(h)
  PROVE  OpenAt(h, t) = Opened(h, t, t)
  <1>1. t \in Nat /\ ~AfterCharging(h, t)
    BY DEF Starts, History
  <1>2. First(h, t) = t /\ RowsTo(h, t) = {t}
    BY StartIsFirst
  <1>3. Reads(h, {t}) = h[t].pct
    BY <1>1, ReadsOne
  <1>4. Gapped(h, {t}) = FALSE
    BY <1>1 DEF Gapped
  <1> QED
    BY <1>2, <1>3, <1>4 DEF OpenAt, Opened

LEMMA GoesOn ==
  ASSUME NEW h, History(h), NEW t \in DOMAIN h, Charging(h, t),
         AfterCharging(h, t)
  PROVE  OpenAt(h, t) = Continued(h, t, OpenAt(h, Lag(h, t)))
  <1> DEFINE l == Lag(h, t)
             R == RowsTo(h, l)
  <1>1. l \in DOMAIN h /\ l \in Nat /\ t \in Nat /\ l < t
    BY LagOf DEF AfterCharging, History
  <1>2. First(h, t) = First(h, l) /\ RowsTo(h, t) = R \cup {t}
    BY Continues
  <1>3. R \in SUBSET Nat /\ \A u \in R : u < t
    BY <1>1, RowsNat
  <1>4. Reads(h, R \cup {t}) = Known(h[t].pct, Reads(h, R))
    BY <1>1, <1>3, ReadsNext
  <1>5. Gapped(h, R \cup {t}) <=> (Gapped(h, R) \/ t - l >= Gap)
    BY DEF Gapped
  <1>6. Gapped(h, R \cup {t}) = (Gapped(h, R) \/ t - l >= Gap)
    BY <1>5, GappedType
  <1>7. /\ OpenAt(h, l).last = l /\ OpenAt(h, l).gap = Gapped(h, R)
        /\ OpenAt(h, l).after = Reads(h, R)
    BY DEF OpenAt
  <1>8. [OpenAt(h, l) EXCEPT !.gap = Gapped(h, R) \/ t - l >= Gap, !.last = t,
                             !.after = Known(h[t].pct, Reads(h, R))]
          = [from |-> First(h, l), last |-> t, before |-> h[First(h, l)].pct,
             after |-> Known(h[t].pct, Reads(h, R)),
             gap |-> (Gapped(h, R) \/ t - l >= Gap)]
    <2>1. OpenAt(h, l) = [from |-> First(h, l), last |-> l, before |-> h[First(h, l)].pct,
                          after |-> Reads(h, R), gap |-> Gapped(h, R)]
      BY DEF OpenAt
    <2>2. ASSUME NEW c, NEW e
          PROVE  [OpenAt(h, l) EXCEPT !.gap = e, !.last = t, !.after = c]
                   = [from |-> First(h, l), last |-> t, before |-> h[First(h, l)].pct,
                      after |-> c, gap |-> e]
      <3> DEFINE p == [OpenAt(h, l) EXCEPT !.gap = e]
                 q == [p EXCEPT !.last = t]
      <3>1. [OpenAt(h, l) EXCEPT !.gap = e, !.last = t, !.after = c] = [q EXCEPT !.after = c]
        OBVIOUS
      <3> HIDE DEF l, R
      <3>2. p = [from |-> First(h, l), last |-> l, before |-> h[First(h, l)].pct,
                 after |-> Reads(h, R), gap |-> e]
        BY <2>1
      <3> HIDE DEF p
      <3>3. q = [from |-> First(h, l), last |-> t, before |-> h[First(h, l)].pct,
                 after |-> Reads(h, R), gap |-> e]
        BY <3>2
      <3> HIDE DEF q
      <3>4. [q EXCEPT !.after = c] = [from |-> First(h, l), last |-> t,
                 before |-> h[First(h, l)].pct, after |-> c, gap |-> e]
        BY <3>3
      <3> QED
        BY <3>1, <3>4
    <2> QED
      BY <2>2, Zenon
  <1>9. Continued(h, t, OpenAt(h, l))
          = [OpenAt(h, l) EXCEPT !.gap = Gapped(h, R) \/ t - l >= Gap, !.last = t,
                                 !.after = Known(h[t].pct, Reads(h, R))]
    BY <1>7 DEF Continued
  <1> HIDE DEF l, R
  <1>10. OpenAt(h, t) = [from |-> First(h, l), last |-> t, before |-> h[First(h, l)].pct,
             after |-> Known(h[t].pct, Reads(h, R)),
             gap |-> (Gapped(h, R) \/ t - l >= Gap)]
    BY <1>2, <1>4, <1>6 DEF OpenAt
  <1> QED
    BY <1>8, <1>9, <1>10 DEF l

LEMMA IsOpen ==
  ASSUME NEW h, History(h), NEW t \in DOMAIN h, Charging(h, t)
  PROVE  /\ OpenAt(h, t) # NoOpen
         /\ First(h, t) \in Starts(h) /\ First(h, t) <= t
         /\ \A u \in Starts(h) : u <= t => u <= First(h, t)
  <1>1. t \in Nat /\ StartsTo(h, t) # {}
    BY ChargingStarted DEF History
  <1>2. /\ First(h, t) \in Starts(h) /\ First(h, t) <= t
        /\ \A u \in Starts(h) : u <= t => u <= First(h, t)
    BY <1>1, FirstOf
  <1>3. First(h, t) \in Nat
    BY <1>1, <1>2, StartsFinite
  <1>4. OpenAt(h, t).from = First(h, t) /\ NoOpen.from = -1
    BY DEF OpenAt, NoOpen, Null
  <1> QED
    BY <1>2, <1>3, <1>4

\* What is done by a point: what was by the one before, and what this one closes.
LEMMA DoneFirst ==
  ASSUME NEW h, History(h), NEW t \in DOMAIN h, Before(h, t) = {}
  PROVE  DoneBy(h, t) = {} /\ ~AfterCharging(h, t)
  <1>1. ASSUME NEW c \in Closing(h), c <= t
        PROVE  FALSE
    <2>1. c \in DOMAIN h /\ c \in Nat /\ t \in Nat /\ Before(h, c) # {}
      BY DEF Closing, AfterCharging, History
    <2>2. PICK u \in DOMAIN h : u < c
      BY <2>1 DEF Before
    <2>3. u < t
      BY <1>1, <2>1, <2>2 DEF History
    <2> QED
      BY <2>3 DEF Before
  <1>2. {u \in Closing(h) : u <= t} = {}
    BY <1>1
  <1> QED
    BY <1>2 DEF DoneBy, AfterCharging

LEMMA DoneNext ==
  ASSUME NEW h, History(h), NEW t \in DOMAIN h, Before(h, t) # {}
  PROVE  DoneBy(h, t) = DoneBy(h, Lag(h, t))
                          \cup (IF t \in Closing(h) THEN {EndedAt(h, t)} ELSE {})
  <1> DEFINE l == Lag(h, t)
  <1>1. /\ l \in DOMAIN h /\ l < t /\ l \in Nat /\ t \in Nat
        /\ \A u \in DOMAIN h : u < t => u <= l
    BY LagOf DEF History
  <1> HIDE DEF l
  <1>2. ASSUME NEW u \in Closing(h)
        PROVE  u <= t <=> u <= l \/ u = t
    <2>1. u \in DOMAIN h /\ u \in Nat
      BY DEF Closing, History
    <2> QED
      BY <1>1, <2>1
  <1>3. {u \in Closing(h) : u <= t}
          = {u \in Closing(h) : u <= l} \cup (IF t \in Closing(h) THEN {t} ELSE {})
    BY <1>2, <1>1
  <1> QED
    BY <1>3, Zenon DEF DoneBy, l

\* One point takes what is open and done before it to what is after it.
LEMMA PointStep ==
  ASSUME NEW h, History(h), NEW t \in DOMAIN h
  PROVE  AsOf(h, t) = Point(h, t,
           IF Before(h, t) = {} THEN Begun ELSE AsOf(h, Lag(h, t)))
  <1> DEFINE old == IF Before(h, t) = {} THEN Begun ELSE AsOf(h, Lag(h, t))
  <1>1. \A d : /\ [open |-> NoOpen, done |-> d].open = NoOpen
               /\ [open |-> NoOpen, done |-> d].done = d
    OBVIOUS
  <1>2. ASSUME NEW o, NEW d, NEW p, old = [open |-> o, done |-> d]
        PROVE  old.open = o /\ old.done = d /\ [old EXCEPT !.open = p] = [open |-> p, done |-> d]
    BY <1>2
  <1>3. ASSUME Charging(h, t), ~AfterCharging(h, t),
               NEW d, old = [open |-> NoOpen, done |-> d], DoneBy(h, t) = d
        PROVE  AsOf(h, t) = Point(h, t, old)
    <2>1. t \in Starts(h)
      BY <1>3 DEF Starts
    <2>2. OpenBy(h, t) = Opened(h, t, t)
      BY <1>3, <2>1, OpensAt DEF OpenBy
    <2>3. old.open = NoOpen
          /\ [old EXCEPT !.open = Opened(h, t, t)]
               = [open |-> Opened(h, t, t), done |-> d]
      BY <1>2, <1>3
    <2> HIDE DEF old
    <2> QED
      BY <1>3, <2>2, <2>3 DEF AsOf, Point
  <1>4. ASSUME ~Charging(h, t),
               NEW d, old = [open |-> NoOpen, done |-> d], DoneBy(h, t) = d
        PROVE  AsOf(h, t) = Point(h, t, old)
    <2>1. OpenBy(h, t) = NoOpen
      BY <1>4 DEF OpenBy
    <2>2. old.open = NoOpen
      BY <1>2, <1>4
    <2> HIDE DEF old
    <2> QED
      BY <1>4, <2>1, <2>2 DEF AsOf, Point
  <1>5. CASE Before(h, t) = {}
    <2>1. old = [open |-> NoOpen, done |-> {}]
      BY <1>5 DEF Begun
    <2>2. DoneBy(h, t) = {} /\ ~AfterCharging(h, t)
      BY <1>5, DoneFirst
    <2> HIDE DEF old
    <2>3. AsOf(h, t) = Point(h, t, old)
      BY <1>3, <1>4, <2>1, <2>2
    <2> QED
      BY <2>3 DEF old
  <1>6. CASE Before(h, t) # {}
    <2> DEFINE l == Lag(h, t)
    <2>1. l \in DOMAIN h
      BY <1>6, LagOf
    <2>2. old = [open |-> OpenBy(h, l), done |-> DoneBy(h, l)]
      BY <1>6 DEF AsOf
    <2>3. AfterCharging(h, t) <=> Charging(h, l)
      BY <1>6 DEF AfterCharging
    <2>4. DoneBy(h, t) = DoneBy(h, l) \cup (IF t \in Closing(h) THEN {EndedAt(h, t)} ELSE {})
      BY <1>6, DoneNext
    <2>5. t \in Closing(h) <=> ~Charging(h, t) /\ Charging(h, l)
      BY <2>3 DEF Closing
    <2> SUFFICES AsOf(h, t) = Point(h, t, old)
      OBVIOUS
    <2> HIDE DEF l, old
    <2>6. CASE ~Charging(h, l)
      <3>1. old = [open |-> NoOpen, done |-> DoneBy(h, l)]
        BY <2>2, <2>6 DEF OpenBy
      <3>2. DoneBy(h, t) = DoneBy(h, l)
        BY <2>4, <2>5, <2>6
      <3> QED
        BY <1>3, <1>4, <2>3, <2>6, <3>1, <3>2
    <2>7. CASE Charging(h, l)
      <3>1. OpenBy(h, l) = OpenAt(h, l) /\ OpenAt(h, l) # NoOpen
        BY <2>1, <2>7, IsOpen DEF OpenBy
      <3>2. old.open = OpenAt(h, l) /\ old.done = DoneBy(h, l)
        BY <1>2, <2>2, <3>1
      <3>3. CASE Charging(h, t)
        <4>1. OpenBy(h, t) = Continued(h, t, OpenAt(h, l))
          BY <2>3, <2>7, <3>3, GoesOn DEF OpenBy, l
        <4>2. DoneBy(h, t) = DoneBy(h, l)
          BY <2>4, <2>5, <3>3
        <4>3. [old EXCEPT !.open = OpenBy(h, t)]
                = [open |-> OpenBy(h, t), done |-> DoneBy(h, l)]
          BY <1>2, <2>2
        <4>4. Point(h, t, old) = [old EXCEPT !.open = OpenBy(h, t)]
          BY <3>1, <3>2, <3>3, <4>1 DEF Point
        <4> QED
          BY <4>2, <4>3, <4>4 DEF AsOf
      <3>4. CASE ~Charging(h, t)
        <4>1. OpenBy(h, t) = NoOpen /\ DoneBy(h, t) = DoneBy(h, l) \cup {EndedAt(h, t)}
          BY <2>4, <2>5, <2>7, <3>4 DEF OpenBy
        <4>2. OpenAt(h, l).after = Reads(h, RowsTo(h, l))
              /\ OpenAt(h, l).gap = Gapped(h, RowsTo(h, l))
          BY DEF OpenAt
        <4>3. EndedAt(h, t) = Ended(OpenAt(h, l), t,
                 Known(h[t].pct, OpenAt(h, l).after), OpenAt(h, l).gap)
          BY <4>2 DEF EndedAt, l
        <4>4. Point(h, t, old)
                = [open |-> NoOpen, done |-> DoneBy(h, l) \cup {EndedAt(h, t)}]
          BY <3>1, <3>2, <3>4, <4>3 DEF Point
        <4> QED
          BY <4>1, <4>4 DEF AsOf
      <3> QED
        BY <3>3, <3>4
    <2> QED
      BY <2>6, <2>7
  <1> QED
    BY <1>5, <1>6

\* The fold has those values: they satisfy its equation, and only one function does.
LEMMA FoldedIs ==
  ASSUME NEW h, History(h), NEW t \in DOMAIN h
  PROVE  Folded(h)[t] = AsOf(h, t)
  <1> DEFINE Eq(g) == g = [u \in DOMAIN h |-> Point(h, u,
                        IF Before(h, u) = {} THEN Begun ELSE g[Lag(h, u)])]
             real == [u \in DOMAIN h |-> AsOf(h, u)]
  <1>1. Folded(h) = CHOOSE g : Eq(g)
    BY DEF Folded, Begun
  <1>2. Eq(real)
    <2>1. ASSUME NEW u \in DOMAIN h
          PROVE  AsOf(h, u) = Point(h, u,
                   IF Before(h, u) = {} THEN Begun ELSE real[Lag(h, u)])
      <3>1. Before(h, u) # {}
              => real[Lag(h, u)] = AsOf(h, Lag(h, u))
        BY LagOf
      <3> HIDE DEF real
      <3> QED
        BY <3>1, PointStep
    <2> QED
      BY <2>1
  <1>3. Eq(Folded(h))
    <2> HIDE DEF Eq
    <2> QED
      BY <1>1, <1>2
  <1> DEFINE acc == Folded(h)
             Bad == {u \in DOMAIN h : acc[u] # AsOf(h, u)}
  <1>4. \A u \in DOMAIN h : acc[u] = Point(h, u,
          IF Before(h, u) = {} THEN Begun ELSE acc[Lag(h, u)])
    BY <1>3, Zenon
  <1> SUFFICES ASSUME Bad # {} PROVE FALSE
    OBVIOUS
  <1>5. Bad \in SUBSET Nat
    BY DEF History
  <1>6. PICK u \in Bad : \A v \in Bad : u <= v
    BY <1>5, Least
  <1>7. u \in DOMAIN h /\ u \in Nat /\ acc[u] # AsOf(h, u)
    BY <1>5, <1>6
  <1>8. Before(h, u) # {} => acc[Lag(h, u)] = AsOf(h, Lag(h, u))
    <2> SUFFICES ASSUME Before(h, u) # {}
                 PROVE  acc[Lag(h, u)] = AsOf(h, Lag(h, u))
      OBVIOUS
    <2>1. Lag(h, u) \in DOMAIN h /\ Lag(h, u) < u
      BY <1>7, LagOf
    <2>2. Lag(h, u) \notin Bad
      BY <1>5, <1>6, <1>7, <2>1 DEF History
    <2> QED
      BY <2>1, <2>2
  <1> HIDE DEF acc, Bad, real, Eq
  <1>9. acc[u] = AsOf(h, u)
    <2>1. acc[u] = Point(h, u,
            IF Before(h, u) = {} THEN Begun ELSE acc[Lag(h, u)])
      BY <1>4, <1>7
    <2> QED
      BY <1>7, <1>8, <2>1, PointStep
  <1> QED
    BY <1>7, <1>9

\* What the loop returns: a session for each row that closes one, and the one open
\* at the last row.
Ongoing(h, t) == Ended(OpenAt(h, t), t, Reads(h, RowsTo(h, t)), TRUE)

LEMMA SegmentIs ==
  ASSUME NEW h, History(h), DOMAIN h # {}
  PROVE  LET m == Max(DOMAIN h)
         IN  /\ m \in DOMAIN h /\ \A u \in DOMAIN h : u <= m
             /\ Segment(h) = {EndedAt(h, c) : c \in Closing(h)}
                  \cup (IF Charging(h, m) THEN {Ongoing(h, m)} ELSE {})
  <1> DEFINE m == Max(DOMAIN h)
  <1>1. m \in DOMAIN h /\ \A u \in DOMAIN h : u <= m
    BY MaxOf DEF History
  <1>2. Folded(h)[m] = AsOf(h, m)
    BY <1>1, FoldedIs
  <1>3. Segment(h) = Closed(AsOf(h, m))
    BY <1>2 DEF Segment
  <1> HIDE DEF m
  <1>4. {u \in Closing(h) : u <= m} = Closing(h)
    BY <1>1 DEF Closing
  <1>5. AsOf(h, m).open = OpenBy(h, m)
        /\ AsOf(h, m).done = {EndedAt(h, c) : c \in Closing(h)}
    BY <1>4 DEF AsOf, DoneBy
  <1>6. CASE Charging(h, m)
    <2>1. OpenBy(h, m) = OpenAt(h, m) /\ OpenAt(h, m) # NoOpen
      BY <1>1, <1>6, IsOpen DEF OpenBy
    <2>2. OpenAt(h, m).last = m /\ OpenAt(h, m).after = Reads(h, RowsTo(h, m))
      BY DEF OpenAt
    <2>3. Closed(AsOf(h, m)) = {EndedAt(h, c) : c \in Closing(h)} \cup {Ongoing(h, m)}
      BY <1>5, <2>1, <2>2 DEF Closed, Ongoing
    <2> QED
      BY <1>1, <1>3, <1>6, <2>3 DEF m
  <1>7. CASE ~Charging(h, m)
    <2>1. OpenBy(h, m) = NoOpen
      BY <1>7 DEF OpenBy
    <2>2. Closed(AsOf(h, m)) = {EndedAt(h, c) : c \in Closing(h)}
      BY <1>5, <2>1 DEF Closed
    <2> QED
      BY <1>1, <1>3, <1>7, <2>2 DEF m
  <1> QED
    BY <1>6, <1>7

-----------------------------------------------------------------------------
(* The islands: one for each start.                                        *)

LEMMA IslandIs ==
  ASSUME NEW h, NEW t
  PROVE  Island(h, t) = Cardinality(StartsTo(h, t))
  BY DEF Island, StartsTo

LEMMA IslandGrows ==
  ASSUME NEW h, History(h), NEW s \in Starts(h), NEW r \in Starts(h), s < r
  PROVE  Island(h, s) < Island(h, r)
  <1>1. s \in Nat /\ r \in Nat
    BY DEF Starts, History
  <1>2. IsFiniteSet(StartsTo(h, r)) /\ StartsTo(h, r) \in SUBSET Nat
        /\ StartsTo(h, s) \in SUBSET Nat
    BY <1>1, StartsFinite
  <1>3. StartsTo(h, s) \in SUBSET StartsTo(h, r)
    BY <1>1, <1>2 DEF StartsTo
  <1>4. r \in StartsTo(h, r) /\ r \notin StartsTo(h, s)
    BY <1>1 DEF StartsTo
  <1>5. /\ Cardinality(StartsTo(h, s)) <= Cardinality(StartsTo(h, r))
        /\ Cardinality(StartsTo(h, s)) # Cardinality(StartsTo(h, r))
        /\ IsFiniteSet(StartsTo(h, s))
    BY <1>2, <1>3, <1>4, FS_Subset
  <1>6. Cardinality(StartsTo(h, s)) \in Nat /\ Cardinality(StartsTo(h, r)) \in Nat
    BY <1>2, <1>5, FS_CardinalityType
  <1> QED
    BY <1>5, <1>6, IslandIs

LEMMA IslandNumbers ==
  ASSUME NEW h, History(h)
  PROVE  /\ \A s \in Starts(h) :
              Island(h, s) \in 1 .. Cardinality(Starts(h))
         /\ \A k \in 1 .. Cardinality(Starts(h)) :
              \E s \in Starts(h) : Island(h, s) = k
  <1> DEFINE S == Starts(h)
             n == Cardinality(S)
             f == [s \in S |-> Island(h, s)]
  <1>1. S \in SUBSET Nat /\ IsFiniteSet(S) /\ n \in Nat
    <2>1. S \in SUBSET Nat /\ IsFiniteSet(S)
      BY StartsFinite, 0 \in Nat
    <2> QED
      BY <2>1, FS_CardinalityType
  <1>2. ASSUME NEW s \in S
        PROVE  Island(h, s) \in 1 .. n
    <2>1. StartsTo(h, s) \in SUBSET S /\ s \in StartsTo(h, s)
      BY <1>1 DEF StartsTo
    <2>2. IsFiniteSet(StartsTo(h, s)) /\ Cardinality(StartsTo(h, s)) <= n
      BY <1>1, <2>1, FS_Subset
    <2>3. Cardinality(StartsTo(h, s)) \in Nat /\ Cardinality(StartsTo(h, s)) # 0
      BY <2>1, <2>2, FS_CardinalityType, FS_EmptySet
    <2> QED
      BY <1>1, <2>2, <2>3, IslandIs
  <1>3. ASSUME NEW s \in S, NEW r \in S, f[s] = f[r]
        PROVE  s = r
    <2>1. s \in Nat /\ r \in Nat /\ Island(h, s) = Island(h, r)
      BY <1>1, <1>3
    <2>2. Island(h, s) \in Int
      BY <1>1, <1>2
    <2>3. ~(s < r) /\ ~(r < s)
      BY <2>1, <2>2, IslandGrows
    <2> QED
      BY <2>1, <2>3
  <1>4. f \in [S -> 1 .. n]
    BY <1>2
  <1>5. f \in Injection(S, 1 .. n)
    BY <1>3, <1>4 DEF Injection, IsInjective
  <1>6. IsFiniteSet(1 .. n) /\ Cardinality(1 .. n) = n
    <2>1. IsFiniteSet(1 .. n) /\ Cardinality(1 .. n) = IF 1 > n THEN 0 ELSE n - 1 + 1
      BY <1>1, FS_Interval
    <2> QED
      BY <1>1, <2>1
  <1>7. f \in Surjection(S, 1 .. n)
    BY <1>5, <1>6, FS_Injection
  <1>8. \A k \in 1 .. n : \E s \in S : f[s] = k
    BY <1>7 DEF Surjection
  <1> QED
    BY <1>2, <1>8

\* A row has the number of the last start up to it.
LEMMA SameIsland ==
  ASSUME NEW h, History(h), NEW t \in DOMAIN h, NEW s \in Starts(h)
  PROVE  Island(h, t) = Island(h, s)
           <=> StartsTo(h, t) # {} /\ First(h, t) = s
  <1>1. t \in Nat /\ s \in Nat /\ Starts(h) \in SUBSET Nat
    BY DEF Starts, History
  <1>2. Island(h, s) \in Nat /\ Island(h, s) # 0
    <2>1. Island(h, s) \in 1 .. Cardinality(Starts(h))
      BY IslandNumbers
    <2>2. Cardinality(Starts(h)) \in Nat
      BY <1>1, StartsFinite, FS_CardinalityType
    <2> QED
      BY <2>1, <2>2
  <1>3. CASE StartsTo(h, t) = {}
    <2>1. Island(h, t) = 0
      BY <1>3, IslandIs, FS_EmptySet
    <2> QED
      BY <1>2, <1>3, <2>1
  <1>4. CASE StartsTo(h, t) # {}
    <2> DEFINE r == First(h, t)
    <2>1. /\ r \in Starts(h) /\ r <= t
          /\ \A u \in Starts(h) : u <= t => u <= r
      BY <1>1, <1>4, FirstOf
    <2>2. r \in Nat
      BY <1>1, <2>1
    <2> HIDE DEF r
    <2>3. StartsTo(h, t) = StartsTo(h, r)
      <3>1. ASSUME NEW u \in Starts(h) PROVE u <= t <=> u <= r
        <4>1. u \in Nat
          BY <1>1
        <4> QED
          BY <1>1, <2>1, <2>2, <4>1
      <3> QED
        BY <3>1 DEF StartsTo
    <2>4. Island(h, t) = Island(h, r)
      BY <2>3, IslandIs
    <2>5. Island(h, r) = Island(h, s) => r = s
      <3>1. Island(h, r) = Island(h, s) => ~(r < s) /\ ~(s < r)
        BY <1>2, <2>1, IslandGrows
      <3> QED
        BY <1>1, <2>2, <3>1
    <2> QED
      BY <1>4, <2>4, <2>5 DEF r
  <1> QED
    BY <1>3, <1>4

\* A session's rows, the rows that may close it, and the session.
RowsOf(h, s) == {t \in DOMAIN h : Charging(h, t) /\ First(h, t) = s}
Closers(h, s) == {t \in DOMAIN h : ~Charging(h, t) /\ StartsTo(h, t) # {}
                                   /\ First(h, t) = s}
SessionOf(h, s) ==
  IF Closers(h, s) = {}
    THEN Session(s, Max(RowsOf(h, s)), h[s].pct, Reads(h, RowsOf(h, s)), TRUE)
    ELSE Session(s, Min(Closers(h, s)), h[s].pct,
           Known(h[Min(Closers(h, s))].pct, Reads(h, RowsOf(h, s))),
           Gapped(h, RowsOf(h, s)))

LEMMA StartRow ==
  ASSUME NEW h, History(h), NEW s \in Starts(h)
  PROVE  /\ s \in RowsOf(h, s) /\ \A u \in RowsOf(h, s) : s <= u
         /\ RowsOf(h, s) \in SUBSET Nat /\ Min(RowsOf(h, s)) = s
  <1>1. s \in DOMAIN h /\ Charging(h, s)
    BY DEF Starts
  <1>2. s \in RowsOf(h, s)
    BY <1>1, StartIsFirst DEF RowsOf
  <1>3. \A u \in RowsOf(h, s) : s <= u
    BY IsOpen DEF RowsOf
  <1>4. RowsOf(h, s) \in SUBSET Nat
    BY DEF RowsOf, History
  <1> QED
    BY <1>2, <1>3, <1>4, MinIs

LEMMA SessionIs ==
  ASSUME NEW h, History(h), NEW s \in Starts(h)
  PROVE  IslandSession(h, Island(h, s)) = SessionOf(h, s)
  <1> DEFINE k == Island(h, s)
  <1>1. {t \in DOMAIN h : Charging(h, t) /\ Island(h, t) = k} = RowsOf(h, s)
    BY SameIsland, ChargingStarted DEF RowsOf
  <1>2. {t \in DOMAIN h : ~Charging(h, t) /\ Island(h, t) = k} = Closers(h, s)
    BY SameIsland DEF Closers
  <1>3. Min(RowsOf(h, s)) = s
    BY StartRow
  <1> HIDE DEF k
  <1>4. IslandSession(h, k) = SessionOf(h, s)
    BY <1>1, <1>2, <1>3 DEF IslandSession, SessionOf, Reads, Gapped
  <1> QED
    BY <1>4 DEF k

LEMMA IslandsIs ==
  ASSUME NEW h, History(h)
  PROVE  Islands(h) = {SessionOf(h, s) : s \in Starts(h)}
  <1> DEFINE n == Cardinality(Starts(h))
  <1>1. /\ \A s \in Starts(h) : Island(h, s) \in 1 .. n
        /\ \A k \in 1 .. n : \E s \in Starts(h) : Island(h, s) = k
    BY IslandNumbers
  <1>2. Islands(h) = {IslandSession(h, k) : k \in 1 .. n}
    BY DEF Islands
  <1> HIDE DEF n
  <1>3. ASSUME NEW k \in 1 .. n
        PROVE  \E s \in Starts(h) : IslandSession(h, k) = SessionOf(h, s)
    BY <1>1, SessionIs
  <1>4. ASSUME NEW s \in Starts(h)
        PROVE  \E k \in 1 .. n : IslandSession(h, k) = SessionOf(h, s)
    BY <1>1, SessionIs
  <1> QED
    BY <1>2, <1>3, <1>4

-----------------------------------------------------------------------------
(* Each session is closed by its own row, or goes on at the last row.      *)

\* The rows between a session's start and a row of it are its own.
LEMMA InSession ==
  ASSUME NEW h, History(h), NEW t \in DOMAIN h, Charging(h, t),
         NEW u \in DOMAIN h, First(h, t) <= u, u <= t
  PROVE  Charging(h, u) /\ First(h, u) = First(h, t)
  <1>1. Charging(h, u)
    BY Between
  <1>2. /\ First(h, t) \in Starts(h)
        /\ \A v \in Starts(h) : v <= t => v <= First(h, t)
    BY IsOpen
  <1>3. t \in Nat /\ u \in Nat /\ Starts(h) \in SUBSET Nat
    BY DEF Starts, History
  <1>4. \A v \in Starts(h) : v <= u => v <= First(h, t)
    BY <1>2, <1>3
  <1> QED
    BY <1>1, <1>2, <1>3, <1>4, FirstIs

\* A row without charging right after one with it closes that one's session.
LEMMA ClosedBy ==
  ASSUME NEW h, History(h), NEW c \in Closing(h),
         NEW s, s = First(h, Lag(h, c))
  PROVE  /\ s \in Starts(h) /\ c \in Closers(h, s)
         /\ Min(Closers(h, s)) = c
         /\ RowsTo(h, Lag(h, c)) = RowsOf(h, s)
         /\ SessionOf(h, s) = EndedAt(h, c)
  <1> DEFINE l == Lag(h, c)
  <1>1. /\ c \in DOMAIN h /\ c \in Nat /\ ~Charging(h, c)
        /\ Before(h, c) # {} /\ Charging(h, l)
    BY DEF Closing, AfterCharging, History
  <1>2. /\ l \in DOMAIN h /\ l \in Nat /\ l < c
        /\ \A u \in DOMAIN h : u < c => u <= l
    BY <1>1, LagOf DEF History
  <1>3. /\ s \in Starts(h) /\ s <= l /\ s \in Nat
        /\ \A v \in Starts(h) : v <= l => v <= s
    BY <1>1, <1>2, IsOpen, StartsFinite
  <1>4. Starts(h) \in SUBSET Nat /\ Starts(h) \in SUBSET DOMAIN h
        /\ c \notin Starts(h)
    BY <1>1 DEF Starts, History
  <1>5. s = First(h, l)
    OBVIOUS
  <1> HIDE DEF l
  <1>6. \A v \in Starts(h) : v <= c => v <= s
    <2> SUFFICES ASSUME NEW v \in Starts(h), v <= c PROVE v <= s
      OBVIOUS
    <2>1. v \in DOMAIN h /\ v \in Nat /\ v # c
      BY <1>4
    <2>2. v < c
      BY <1>1, <2>1
    <2> QED
      BY <1>2, <1>3, <2>1, <2>2
  <1>7. First(h, c) = s /\ s \in StartsTo(h, c)
    <2>1. s <= c
      BY <1>1, <1>2, <1>3
    <2> QED
      BY <1>1, <1>3, <1>6, <2>1, FirstIs DEF StartsTo
  <1>8. c \in Closers(h, s)
    BY <1>1, <1>7 DEF Closers
  <1>9. ASSUME NEW u \in Closers(h, s), u < c
        PROVE  FALSE
    <2>1. u \in DOMAIN h /\ u \in Nat /\ ~Charging(h, u) /\ First(h, u) = s
          /\ StartsTo(h, u) # {}
      BY DEF Closers, History
    <2>2. s <= u
      BY <2>1, FirstOf
    <2>3. u <= l
      BY <1>2, <1>9, <2>1
    <2> QED
      BY <1>1, <1>2, <1>5, <2>1, <2>2, <2>3, Between DEF l
  <1>10. Closers(h, s) \in SUBSET Nat
    BY DEF Closers, History
  <1>11. Min(Closers(h, s)) = c
    <2>1. \A u \in Closers(h, s) : c <= u
      BY <1>1, <1>9, <1>10
    <2> QED
      BY <1>8, <1>10, <2>1, MinIs
  <1>12. ASSUME NEW u \in RowsOf(h, s)
         PROVE  u <= l
    <2>1. u \in DOMAIN h /\ u \in Nat /\ Charging(h, u) /\ First(h, u) = s
      BY DEF RowsOf, History
    <2>2. s <= c
      BY <1>1, <1>2, <1>3
    <2>3. ~(c <= u)
      BY <1>1, <2>1, <2>2, Between
    <2> QED
      BY <1>1, <1>2, <2>1, <2>3
  <1>13. RowsTo(h, l) = RowsOf(h, s)
    BY <1>5, <1>12 DEF RowsTo, RowsOf
  <1>14. OpenAt(h, l).from = s /\ OpenAt(h, l).before = h[s].pct
    BY <1>5 DEF OpenAt
  <1>15. SessionOf(h, s) = EndedAt(h, c)
    BY <1>8, <1>11, <1>13, <1>14 DEF SessionOf, EndedAt, Ended, l
  <1> QED
    BY <1>3, <1>8, <1>11, <1>13, <1>15 DEF l

\* A session some row may close is closed by the first of those.
LEMMA Closes ==
  ASSUME NEW h, History(h), NEW s \in Starts(h), Closers(h, s) # {}
  PROVE  /\ Min(Closers(h, s)) \in Closing(h)
         /\ First(h, Lag(h, Min(Closers(h, s)))) = s
  <1> DEFINE c == Min(Closers(h, s))
             l == Lag(h, c)
  <1>1. s \in DOMAIN h /\ s \in Nat /\ Charging(h, s)
        /\ Starts(h) \in SUBSET Nat /\ Closers(h, s) \in SUBSET Nat
    BY DEF Starts, Closers, History
  <1>2. c \in Closers(h, s) /\ \A u \in Closers(h, s) : c <= u
    BY <1>1, MinOf
  <1> HIDE DEF c
  <1>3. /\ c \in DOMAIN h /\ c \in Nat /\ ~Charging(h, c) /\ First(h, c) = s
        /\ StartsTo(h, c) # {}
    BY <1>2 DEF Closers, History
  <1>4. s <= c /\ \A v \in Starts(h) : v <= c => v <= s
    BY <1>3, FirstOf
  <1>5. s < c
    <2>1. s # c
      BY <1>1, <1>3
    <2> QED
      BY <1>1, <1>3, <1>4, <2>1
  <1>6. Before(h, c) # {}
    BY <1>1, <1>5 DEF Before
  <1>7. l \in DOMAIN h /\ l \in Nat /\ l < c /\ s <= l
    BY <1>1, <1>3, <1>5, <1>6, LagOf DEF History
  <1> HIDE DEF l
  <1>8. \A v \in Starts(h) : v <= l => v <= s
    BY <1>1, <1>3, <1>4, <1>7
  <1>9. First(h, l) = s /\ s \in StartsTo(h, l)
    BY <1>7, <1>8, FirstIs DEF StartsTo
  <1>10. Charging(h, l)
    <2> SUFFICES ASSUME ~Charging(h, l) PROVE FALSE
      OBVIOUS
    <2>1. l \in Closers(h, s)
      BY <1>7, <1>9 DEF Closers
    <2> QED
      BY <1>2, <1>3, <1>7, <2>1
  <1>11. c \in Closing(h)
    BY <1>3, <1>6, <1>10 DEF Closing, AfterCharging, l
  <1> QED
    BY <1>9, <1>11 DEF l, c

\* The session of the last row, where it charges, is the one no row closes.
LEMMA OngoingIs ==
  ASSUME NEW h, History(h), NEW m \in DOMAIN h, \A u \in DOMAIN h : u <= m,
         Charging(h, m)
  PROVE  /\ First(h, m) \in Starts(h)
         /\ SessionOf(h, First(h, m)) = Ongoing(h, m)
  <1> DEFINE s == First(h, m)
  <1>1. s \in Starts(h) /\ s <= m
    BY IsOpen
  <1>2. m \in Nat
    BY DEF History
  <1>3. Closers(h, s) = {}
    <2> SUFFICES ASSUME NEW u \in Closers(h, s) PROVE FALSE
      OBVIOUS
    <2>1. u \in DOMAIN h /\ u \in Nat /\ ~Charging(h, u) /\ First(h, u) = s
          /\ StartsTo(h, u) # {}
      BY DEF Closers, History
    <2>2. s <= u /\ u <= m
      BY <2>1, FirstOf
    <2> QED
      BY <2>1, <2>2, Between
  <1>4. RowsTo(h, m) = RowsOf(h, s)
    BY DEF RowsTo, RowsOf
  <1>5. m \in RowsOf(h, s) /\ RowsOf(h, s) \in SUBSET Nat
        /\ \A u \in RowsOf(h, s) : u <= m
    BY DEF RowsOf, History
  <1>6. Max(RowsOf(h, s)) = m
    BY <1>5, MaxIs
  <1>7. OpenAt(h, m).from = s /\ OpenAt(h, m).before = h[s].pct
    BY DEF OpenAt
  <1> HIDE DEF s
  <1>8. SessionOf(h, s) = Ongoing(h, m)
    BY <1>3, <1>4, <1>6, <1>7 DEF SessionOf, Ongoing, Ended
  <1> QED
    BY <1>1, <1>8 DEF s

LEMMA GoesOnAtLast ==
  ASSUME NEW h, History(h), NEW m \in DOMAIN h, \A u \in DOMAIN h : u <= m,
         NEW s \in Starts(h), Closers(h, s) = {}
  PROVE  Charging(h, m) /\ First(h, m) = s
  <1>1. s \in DOMAIN h /\ s \in Nat /\ m \in Nat /\ s <= m
        /\ Starts(h) \in SUBSET Nat /\ Starts(h) \in SUBSET DOMAIN h
    BY DEF Starts, History
  <1>2. ASSUME NEW r \in Starts(h), s < r
        PROVE  FALSE
    <2> DEFINE Later == {v \in Starts(h) : s < v}
    <2>1. Later \in SUBSET Nat /\ r \in Later
      BY <1>1, <1>2
    <2>2. PICK q \in Later : \A v \in Later : q <= v
      BY <2>1, Least
    <2>3. q \in Starts(h) /\ q \in DOMAIN h /\ q \in Nat /\ s < q
      BY <1>1, <2>2
    <2>4. Before(h, q) # {} /\ ~AfterCharging(h, q)
      BY <1>1, <2>3 DEF Before, Starts
    <2> DEFINE l == Lag(h, q)
    <2>5. /\ l \in DOMAIN h /\ l \in Nat /\ l < q /\ s <= l
          /\ ~Charging(h, l)
      BY <1>1, <2>3, <2>4, LagOf DEF AfterCharging, History
    <2> HIDE DEF l
    <2>6. ASSUME NEW v \in Starts(h), v <= l
          PROVE  v <= s
      <3>1. v \in Nat /\ v < q
        BY <1>1, <2>3, <2>5, <2>6
      <3>2. v \notin Later
        BY <2>1, <2>2, <2>3, <3>1
      <3> QED
        BY <1>1, <3>1, <3>2
    <2>7. First(h, l) = s /\ s \in StartsTo(h, l)
      BY <2>5, <2>6, FirstIs DEF StartsTo
    <2>8. l \in Closers(h, s)
      BY <2>5, <2>7 DEF Closers
    <2> QED
      BY <2>8
  <1>3. \A v \in Starts(h) : v <= m => v <= s
    BY <1>1, <1>2
  <1>4. First(h, m) = s /\ s \in StartsTo(h, m)
    BY <1>1, <1>3, FirstIs DEF StartsTo
  <1>5. m \notin Closers(h, s)
    OBVIOUS
  <1> QED
    BY <1>4, <1>5 DEF Closers

\* The fold over the points and the islands of charging rows find the same
\* sessions, with the same ends, trips, kWh and gaps, on every finite history
\* (segmentChargeSessions, get_onlyevs_charge_sessions).
THEOREM SegmentIsIslands ==
  ASSUME NEW h, History(h)
  PROVE  Segment(h) = Islands(h)
  <1>1. Islands(h) = {SessionOf(h, s) : s \in Starts(h)}
    BY IslandsIs
  <1>2. CASE DOMAIN h = {}
    <2>1. Starts(h) = {}
      BY <1>2 DEF Starts
    <2> QED
      BY <1>1, <1>2, <2>1 DEF Segment
  <1>3. CASE DOMAIN h # {}
    <2> DEFINE m == Max(DOMAIN h)
    <2>1. /\ m \in DOMAIN h /\ \A u \in DOMAIN h : u <= m
          /\ Segment(h) = {EndedAt(h, c) : c \in Closing(h)}
               \cup (IF Charging(h, m) THEN {Ongoing(h, m)} ELSE {})
      BY <1>3, SegmentIs
    <2> HIDE DEF m
    <2>2. ASSUME NEW c \in Closing(h)
          PROVE  EndedAt(h, c) \in Islands(h)
      BY <1>1, ClosedBy
    <2>3. ASSUME Charging(h, m)
          PROVE  Ongoing(h, m) \in Islands(h)
      <3>1. /\ First(h, m) \in Starts(h)
            /\ SessionOf(h, First(h, m)) = Ongoing(h, m)
        BY <2>1, <2>3, OngoingIs
      <3> QED
        BY <1>1, <3>1
    <2>4. ASSUME NEW s \in Starts(h)
          PROVE  SessionOf(h, s) \in Segment(h)
      <3>1. CASE Closers(h, s) # {}
        <4> DEFINE c == Min(Closers(h, s))
        <4>1. c \in Closing(h) /\ First(h, Lag(h, c)) = s
          BY <3>1, Closes
        <4> HIDE DEF c
        <4>2. SessionOf(h, s) = EndedAt(h, c)
          BY <4>1, ClosedBy
        <4> QED
          BY <2>1, <4>1, <4>2
      <3>2. CASE Closers(h, s) = {}
        <4>1. Charging(h, m) /\ First(h, m) = s
          BY <2>1, <3>2, GoesOnAtLast
        <4>2. SessionOf(h, s) = Ongoing(h, m)
          BY <2>1, <4>1, OngoingIs
        <4> QED
          BY <2>1, <4>1, <4>2
      <3> QED
        BY <3>1, <3>2
    <2>5. Segment(h) \subseteq Islands(h)
      BY <2>1, <2>2, <2>3
    <2>6. Islands(h) \subseteq Segment(h)
      BY <1>1, <2>4
    <2> QED
      BY <2>5, <2>6
  <1> QED
    BY <1>2, <1>3


-----------------------------------------------------------------------------
(* A history that goes on: later points leave the earlier ones' sessions.  *)

GoesOnAs(h, g) == /\ DOMAIN h \subseteq DOMAIN g /\ \A u \in DOMAIN h : g[u] = h[u]
                  /\ \A t \in DOMAIN g \ DOMAIN h : \A u \in DOMAIN h : t > u

LEMMA SamePoint ==
  ASSUME NEW h, NEW g, History(h), History(g), GoesOnAs(h, g), NEW u \in DOMAIN h
  PROVE  /\ u \in DOMAIN g
         /\ Charging(g, u) <=> Charging(h, u)
         /\ Before(g, u) = Before(h, u)
         /\ Lag(g, u) = Lag(h, u)
         /\ AfterCharging(g, u) <=> AfterCharging(h, u)
         /\ u \in Starts(g) <=> u \in Starts(h)
  <1>1. u \in DOMAIN g /\ \A v \in DOMAIN h : g[v] = h[v]
    BY DEF GoesOnAs
  <1>2. \A v \in DOMAIN h : Charging(g, v) <=> Charging(h, v)
    BY <1>1 DEF Charging
  <1>3. Before(g, u) = Before(h, u)
    <2>1. ASSUME NEW v \in DOMAIN g, v < u
          PROVE  v \in DOMAIN h
      BY <2>1 DEF GoesOnAs, History
    <2> QED
      BY <2>1 DEF Before, GoesOnAs
  <1>4. Lag(g, u) = Lag(h, u)
    BY <1>3 DEF Lag
  <1>5. AfterCharging(g, u) <=> AfterCharging(h, u)
    BY <1>2, <1>3, <1>4, LagOf DEF AfterCharging
  <1> QED
    BY <1>1, <1>2, <1>3, <1>4, <1>5 DEF Starts

LEMMA SameRows ==
  ASSUME NEW h, NEW g, History(h), History(g), GoesOnAs(h, g), NEW u \in DOMAIN h
  PROVE  First(g, u) = First(h, u) /\ RowsTo(g, u) = RowsTo(h, u)
  <1>1. ASSUME NEW v \in DOMAIN h, NEW w \in DOMAIN g, w <= v
        PROVE  w \in DOMAIN h
    BY <1>1 DEF GoesOnAs, History
  <1>2. ASSUME NEW v \in DOMAIN h
        PROVE  StartsTo(g, v) = StartsTo(h, v)
    <2>1. \A w \in StartsTo(g, v) : w \in StartsTo(h, v)
      BY <1>1, SamePoint DEF StartsTo, Starts
    <2>2. \A w \in StartsTo(h, v) : w \in StartsTo(g, v)
      BY SamePoint DEF StartsTo, Starts
    <2> QED
      BY <2>1, <2>2
  <1>3. \A v \in DOMAIN h : First(g, v) = First(h, v)
    BY <1>2 DEF First
  <1>4. \A w \in RowsTo(g, u) : w \in RowsTo(h, u)
    BY <1>1, <1>3, SamePoint DEF RowsTo
  <1>5. \A w \in RowsTo(h, u) : w \in RowsTo(g, u)
    BY <1>3, SamePoint DEF RowsTo
  <1> QED
    BY <1>3, <1>4, <1>5

\* A session that a row has closed is closed so ever after.
LEMMA SameEnd ==
  ASSUME NEW h, NEW g, History(h), History(g), GoesOnAs(h, g), NEW c \in Closing(h)
  PROVE  c \in Closing(g) /\ EndedAt(g, c) = EndedAt(h, c)
  <1> DEFINE l == Lag(h, c)
             R == RowsTo(h, l)
  <1>1. c \in DOMAIN h /\ l \in DOMAIN h
    BY LagOf DEF Closing, AfterCharging
  <1>2. c \in Closing(g) /\ Lag(g, c) = l
    BY <1>1, SamePoint DEF Closing
  <1>3. First(g, l) = First(h, l) /\ RowsTo(g, l) = R
    BY <1>1, SameRows
  <1>4. R \in SUBSET DOMAIN h
    BY RowsNat
  <1>5. \A u \in DOMAIN h : g[u] = h[u]
    BY DEF GoesOnAs
  <1>6. First(h, l) \in DOMAIN h
    BY <1>1, IsOpen, StartsFinite, 0 \in Nat DEF Closing, AfterCharging
  <1> HIDE DEF l, R
  <1>7. Reads(g, R) = Reads(h, R)
    <2>1. {t \in R : g[t].pct # Null} = {t \in R : h[t].pct # Null}
      BY <1>4, <1>5
    <2>2. {t \in R : h[t].pct # Null} # {}
            => Max({t \in R : h[t].pct # Null}) \in DOMAIN h
      <3> DEFINE got == {t \in R : h[t].pct # Null}
      <3>1. got \in SUBSET DOMAIN h
        BY <1>4
      <3>2. got \in SUBSET Nat /\ IsFiniteSet(got)
        BY <3>1, FS_Subset DEF History
      <3> HIDE DEF got
      <3>3. got # {} => Max(got) \in DOMAIN h
        BY <3>1, <3>2, MaxOf
      <3> QED
        BY <3>3 DEF got
    <2> QED
      BY <1>5, <2>1, <2>2 DEF Reads
  <1>8. Gapped(g, R) = Gapped(h, R)
    <2>1. Gapped(g, R) <=> Gapped(h, R)
      BY <1>4, SamePoint DEF Gapped
    <2> QED
      BY <2>1, GappedType
  <1>9. OpenAt(g, l) = OpenAt(h, l) /\ RowsTo(h, l) = R
    <2>1. RowsTo(h, l) = R
      BY DEF R
    <2>2. g[First(h, l)].pct = h[First(h, l)].pct
      BY <1>5, <1>6
    <2> QED
      BY <1>3, <1>7, <1>8, <2>1, <2>2 DEF OpenAt
  <1>10. g[c].pct = h[c].pct /\ Lag(h, c) = l
    BY <1>1, <1>5 DEF l
  <1> QED
    BY <1>2, <1>3, <1>7, <1>8, <1>9, <1>10 DEF EndedAt

LEMMA EndOf ==
  ASSUME NEW h, NEW t
  PROVE  EndedAt(h, t).to = t /\ Ongoing(h, t).to = t
  BY DEF EndedAt, Ongoing, Ended, Session

LEMMA FromOf ==
  ASSUME NEW h, NEW s
  PROVE  SessionOf(h, s).from = s
  BY DEF SessionOf, Session

LEMMA SettledStays ==
  ASSUME NEW h, NEW g, History(h), History(g), GoesOnAs(h, g)
  PROVE  Settled(h) \subseteq Settled(g)
  <1> SUFFICES ASSUME NEW s \in Settled(h) PROVE s \in Settled(g)
    OBVIOUS
  <1>1. s \in Segment(h) /\ ~Charging(h, s.to)
    BY DEF Settled
  <1>2. DOMAIN h # {}
    BY <1>1 DEF Segment
  <1>3. DOMAIN g # {}
    BY <1>2 DEF GoesOnAs
  <1>4. PICK c \in Closing(h) : s = EndedAt(h, c)
    BY <1>1, <1>2, SegmentIs, EndOf
  <1>5. c \in Closing(g) /\ s = EndedAt(g, c) /\ s.to = c
    BY <1>4, SameEnd, EndOf
  <1>6. s \in Segment(g)
    BY <1>3, <1>5, SegmentIs
  <1>7. ~Charging(g, s.to)
    BY <1>5 DEF Closing
  <1> QED
    BY <1>6, <1>7 DEF Settled

LEMMA StartsStay ==
  ASSUME NEW h, NEW g, History(h), History(g), GoesOnAs(h, g), NEW s \in Segment(h)
  PROVE  \E r \in Segment(g) : r.from = s.from
  <1>1. PICK u \in Starts(h) : s = SessionOf(h, u)
    BY SegmentIsIslands, IslandsIs
  <1>2. u \in Starts(g)
    BY SamePoint DEF Starts
  <1>3. SessionOf(g, u) \in Segment(g)
    BY <1>2, SegmentIsIslands, IslandsIs
  <1> QED
    BY <1>1, <1>3, FromOf

-----------------------------------------------------------------------------
(* What holds of the charging in every state.                              *)

Numbers == Moments \subseteq Nat /\ Invoices \subseteq Int
           /\ Windows \subseteq [from : Int, to : Int]

ChargesOK ==
  /\ History(history)
  /\ DOMAIN invoices \subseteq Invoices /\ IsFiniteSet(DOMAIN invoices)
  /\ \A i \in DOMAIN invoices : invoices[i] \in Windows

LEMMA ChargesInit == Init => ChargesOK
  BY FS_EmptySet DEF Init, ChargesOK, History

LEMMA ChargesNext ==
  ASSUME Numbers, ChargesOK, Next
  PROVE  ChargesOK'
  <1> USE DEF Numbers
  <1>1. CASE Observe
    <2>1. PICK t \in Moments \ DOMAIN history : \E p : history' =
            [u \in DOMAIN history \cup {t} |-> IF u = t THEN p ELSE history[u]]
      BY <1>1 DEF Observe
    <2>2. DOMAIN history' = DOMAIN history \cup {t} /\ t \in Nat
      BY <2>1
    <2>3. History(history')
      BY <2>2, FS_AddElement DEF ChargesOK, History
    <2> QED
      BY <1>1, <2>3 DEF Observe, ChargesOK
  <1>2. CASE Sync
    <2>1. PICK i \in Invoices, w \in Windows : invoices' =
            [j \in DOMAIN invoices \cup {i} |-> IF j = i THEN w ELSE invoices[j]]
      BY <1>2 DEF Sync
    <2>2. DOMAIN invoices' = DOMAIN invoices \cup {i}
      BY <2>1
    <2>3. IsFiniteSet(DOMAIN invoices')
      BY <2>2, FS_AddElement DEF ChargesOK
    <2>4. \A j \in DOMAIN invoices' : invoices'[j] \in Windows
      BY <2>1 DEF ChargesOK
    <2> QED
      BY <1>2, <2>2, <2>3, <2>4 DEF Sync, ChargesOK
  <1>3. CASE Enter
    BY <1>3 DEF Enter, ChargesOK
  <1> QED
    BY <1>1, <1>2, <1>3 DEF Next

\* The tables keep to their types; an owner's entry is of a session's first moment.
LEMMA TypesInit == MaxPoints \in Nat /\ Init => TypeOK
  BY FS_EmptySet DEF Init, TypeOK

LEMMA TypesNext ==
  ASSUME MaxPoints \in Nat, Numbers, ChargesOK, TypeOK, Next
  PROVE  TypeOK'
  <1>1. CASE Observe
    <2>1. PICK t \in Moments \ DOMAIN history, state \in {"on", "off", "silent"},
               pct \in Readings \cup {Null} : history' =
            [u \in DOMAIN history \cup {t} |->
               IF u = t THEN [state |-> state, pct |-> pct] ELSE history[u]]
      BY <1>1 DEF Observe
    <2>2. DOMAIN history' = DOMAIN history \cup {t} /\ DOMAIN history' \subseteq Moments
      BY <2>1 DEF TypeOK
    <2>3. Cardinality(DOMAIN history') <= MaxPoints
      <3>1. Cardinality(DOMAIN history') = Cardinality(DOMAIN history) + 1
        BY <2>1, <2>2, FS_AddElement DEF ChargesOK, History
      <3>2. Cardinality(DOMAIN history) \in Nat /\ Cardinality(DOMAIN history) < MaxPoints
        BY <1>1, FS_CardinalityType DEF Observe, ChargesOK, History
      <3> QED
        BY <3>1, <3>2
    <2>4. \A u \in DOMAIN history' :
            history'[u] \in [state : {"on", "off", "silent"}, pct : Readings \cup {Null}]
      BY <2>1 DEF TypeOK
    <2> QED
      BY <1>1, <2>2, <2>3, <2>4 DEF Observe, TypeOK
  <1>2. CASE Sync
    <2>1. PICK i \in Invoices, w \in Windows : invoices' =
            [j \in DOMAIN invoices \cup {i} |-> IF j = i THEN w ELSE invoices[j]]
      BY <1>2 DEF Sync
    <2>2. DOMAIN invoices' \subseteq Invoices
          /\ \A j \in DOMAIN invoices' : invoices'[j] \in Windows
      BY <2>1 DEF TypeOK
    <2> QED
      BY <1>2, <2>2 DEF Sync, TypeOK
  <1>3. CASE Enter
    <2>1. PICK s \in Islands(history) : entered' = entered \cup {s.from}
      BY <1>3 DEF Enter
    <2>2. PICK u \in Starts(history) : s = SessionOf(history, u)
      BY IslandsIs DEF ChargesOK
    <2>3. s.from \in Moments
      BY <2>2, FromOf DEF Starts, TypeOK
    <2> QED
      BY <1>3, <2>1, <2>3 DEF Enter, TypeOK
  <1> QED
    BY <1>1, <1>2, <1>3 DEF Next

LEMMA LockstepHolds == ChargesOK => Lockstep
  <1> SUFFICES ASSUME ChargesOK, NEW since \in Moments
               PROVE  LET h == [t \in {u \in DOMAIN history : u >= since} |-> history[t]]
                      IN  Segment(h) = Islands(h)
    BY DEF Lockstep
  <1> DEFINE h == [t \in {u \in DOMAIN history : u >= since} |-> history[t]]
  <1>1. DOMAIN h \in SUBSET DOMAIN history
    OBVIOUS
  <1> HIDE DEF h
  <1>2. History(h)
    BY <1>1, FS_Subset DEF ChargesOK, History
  <1>3. Segment(h) = Islands(h)
    BY <1>2, SegmentIsIslands
  <1> QED
    BY <1>3 DEF h

LEMMA SettledHolds ==
  ASSUME ChargesOK, ChargesOK', [Next]_vars
  PROVE  history' # history => StillSettled
  <1> SUFFICES ASSUME history' # history, InOrder PROVE StillSettled
    BY DEF StillSettled
  <1>1. Observe
    BY DEF Next, Sync, Enter, vars
  <1>2. PICK t \in Moments \ DOMAIN history : \E p : history' =
          [u \in DOMAIN history \cup {t} |-> IF u = t THEN p ELSE history[u]]
    BY <1>1 DEF Observe
  <1>3. DOMAIN history \subseteq DOMAIN history'
        /\ \A u \in DOMAIN history : history'[u] = history[u]
    BY <1>2
  <1>4. GoesOnAs(history, history')
    BY <1>3 DEF GoesOnAs, InOrder
  <1>5. History(history) /\ History(history')
    BY DEF ChargesOK
  <1>6. Settled(history) \subseteq Settled(history')
    BY <1>4, <1>5, SettledStays
  <1>7. \A s \in Segment(history) :
          \E r \in Segment(history') : r.from = s.from
    BY <1>4, <1>5, StartsStay
  <1> QED
    BY <1>6, <1>7 DEF StillSettled

-----------------------------------------------------------------------------
(* Sums over finite sets, added up in whatever order.                      *)

One(s) == CHOOSE x \in s : TRUE

\* g adds up F over each subset of S, one chosen element after the other.
Chosen(g, F, S) ==
  g = [s \in SUBSET S |-> IF s = {} THEN 0 ELSE F[One(s)] + g[s \ {One(s)}]]

\* g adds up F over each subset of S, from any of its elements on.
Sums(g, F, S) ==
  /\ IsFiniteSet(S) /\ \A x \in S : F[x] \in Int
  /\ g \in [SUBSET S -> Int] /\ g[{}] = 0
  /\ \A T \in SUBSET S : \A y \in T : g[T] = F[y] + g[T \ {y}]

LEMMA OneOf ==
  ASSUME NEW s, s # {}
  PROVE  One(s) \in s
  BY DEF One

LEMMA Smaller ==
  ASSUME NEW T, IsFiniteSet(T), NEW y \in T
  PROVE  /\ IsFiniteSet(T \ {y}) /\ Cardinality(T) \in Nat \ {0}
         /\ Cardinality(T \ {y}) = Cardinality(T) - 1 /\ Cardinality(T \ {y}) \in Nat
  <1>1. IsFiniteSet(T \ {y}) /\ Cardinality(T \ {y}) = Cardinality(T) - 1
    BY FS_RemoveElement
  <1>2. Cardinality(T) \in Nat /\ Cardinality(T \ {y}) \in Nat
    BY <1>1, FS_CardinalityType
  <1> QED
    BY <1>1, <1>2

\* Such a function exists: for sets of at most n elements, n after n.
LEMMA ChosenExists ==
  ASSUME NEW S, IsFiniteSet(S), NEW F, \A x \in S : F[x] \in Int
  PROVE  \E g : Chosen(g, F, S)
  <1> DEFINE Upto(n) == {T \in SUBSET S : Cardinality(T) <= n}
             Rule(g, T) == g[T] = IF T = {} THEN 0 ELSE F[One(T)] + g[T \ {One(T)}]
             Has(n) == \E g \in [Upto(n) -> Int] : \A T \in Upto(n) : Rule(g, T)
             Bad == {n \in Nat : ~Has(n)}
  <1>1. \A T \in SUBSET S : IsFiniteSet(T) /\ Cardinality(T) \in Nat
    BY FS_Subset, FS_CardinalityType
  <1>2. Has(0)
    <2>1. \A T \in Upto(0) : T = {}
      BY <1>1, FS_EmptySet
    <2> DEFINE g == [T \in Upto(0) |-> 0]
    <2>2. g \in [Upto(0) -> Int] /\ \A T \in Upto(0) : Rule(g, T)
      BY <2>1
    <2> QED
      BY <2>2
  <1>3. ASSUME NEW n \in Nat, Has(n)
        PROVE  Has(n + 1)
    <2>1. PICK g \in [Upto(n) -> Int] : \A T \in Upto(n) : Rule(g, T)
      BY <1>3
    <2> DEFINE k == [T \in Upto(n + 1) |->
                       IF T = {} THEN 0 ELSE F[One(T)] + g[T \ {One(T)}]]
    <2>2. ASSUME NEW T \in Upto(n + 1), T # {}
          PROVE  One(T) \in S /\ T \ {One(T)} \in Upto(n) /\ T \ {One(T)} \in Upto(n + 1)
      <3>1. One(T) \in T
        BY <2>2, OneOf
      <3>2. Cardinality(T \ {One(T)}) = Cardinality(T) - 1 /\ Cardinality(T) <= n + 1
            /\ Cardinality(T) \in Nat
        BY <1>1, <3>1, Smaller
      <3> QED
        BY <3>1, <3>2
    <2>3. k \in [Upto(n + 1) -> Int]
      BY <2>2
    <2>4. ASSUME NEW T \in Upto(n)
          PROVE  k[T] = g[T]
      <3>1. T \in Upto(n + 1)
        BY <1>1
      <3>2. Rule(g, T)
        BY <2>1
      <3> HIDE DEF Upto
      <3> QED
        BY <3>1, <3>2
    <2>5. \A T \in Upto(n + 1) : Rule(k, T)
      <3> SUFFICES ASSUME NEW T \in Upto(n + 1) PROVE Rule(k, T)
        OBVIOUS
      <3>1. k[T] = IF T = {} THEN 0 ELSE F[One(T)] + g[T \ {One(T)}]
        OBVIOUS
      <3>2. T # {} => k[T \ {One(T)}] = g[T \ {One(T)}]
        BY <2>2, <2>4
      <3> HIDE DEF k, Upto
      <3> QED
        BY <3>1, <3>2
    <2> HIDE DEF k, Rule, Upto
    <2> QED
      BY <2>3, <2>5
  <1>4. \A n \in Nat : Has(n)
    <2> HIDE DEF Has
    <2> SUFFICES ASSUME Bad # {} PROVE FALSE
      OBVIOUS
    <2>1. PICK n \in Bad : \A m \in Bad : n <= m
      BY Least
    <2>2. n \in Nat /\ n # 0 /\ ~Has(n)
      BY <1>2, <2>1
    <2>3. n - 1 \in Nat /\ n - 1 \notin Bad
      BY <2>1, <2>2
    <2>4. Has(n - 1 + 1)
      BY <1>3, <2>3
    <2>5. n - 1 + 1 = n
      BY <2>2
    <2> QED
      BY <2>2, <2>4, <2>5
  <1>5. Cardinality(S) \in Nat /\ Upto(Cardinality(S)) = SUBSET S
    <2>1. Cardinality(S) \in Nat
      BY FS_CardinalityType
    <2>2. \A T \in SUBSET S : Cardinality(T) <= Cardinality(S)
      BY FS_Subset
    <2> QED
      BY <2>1, <2>2
  <1>6. PICK g \in [SUBSET S -> Int] : \A T \in SUBSET S : Rule(g, T)
    BY <1>4, <1>5
  <1>7. Chosen(g, F, S)
    BY <1>6 DEF Chosen
  <1> QED
    BY <1>7

\* A statement about the subsets of a finite set that fails for one fails for a
\* smallest one; each lemma below shows that it holds for that one.
LEMMA SmallestSet ==
  ASSUME NEW S, IsFiniteSet(S), NEW B \in SUBSET (SUBSET S), B # {}
  PROVE  \E T \in B : \A y \in T : T \ {y} \notin B
  <1> DEFINE N == {Cardinality(T) : T \in B}
  <1>1. \A T \in B : IsFiniteSet(T) /\ Cardinality(T) \in Nat
    BY FS_Subset, FS_CardinalityType
  <1>2. N \in SUBSET Nat /\ N # {}
    BY <1>1
  <1>3. PICK n \in N : \A m \in N : n <= m
    BY <1>2, Least
  <1>4. PICK T \in B : n = Cardinality(T)
    BY <1>3
  <1>5. ASSUME NEW y \in T, T \ {y} \in B
        PROVE  FALSE
    <2>1. Cardinality(T \ {y}) = Cardinality(T) - 1 /\ Cardinality(T) \in Nat
      BY <1>1, Smaller
    <2>2. Cardinality(T \ {y}) \in N
      BY <1>5
    <2>3. n <= Cardinality(T \ {y})
      BY <1>3, <2>2
    <2> QED
      BY <1>4, <2>1, <2>3
  <1> QED
    BY <1>5

LEMMA ChosenSums ==
  ASSUME NEW S, IsFiniteSet(S), NEW F, \A x \in S : F[x] \in Int, NEW g, Chosen(g, F, S)
  PROVE  Sums(g, F, S)
  <1>1. /\ DOMAIN g = SUBSET S /\ g = [T \in DOMAIN g |-> g[T]]
        /\ \A T \in SUBSET S :
             g[T] = IF T = {} THEN 0 ELSE F[One(T)] + g[T \ {One(T)}]
    BY DEF Chosen
  <1> DEFINE Odd == {T \in SUBSET S : g[T] \notin Int}
             Bad == {T \in SUBSET S : \E y \in T : g[T] # F[y] + g[T \ {y}]}
  <1>2. \A T \in SUBSET S : g[T] \in Int
    <2> SUFFICES ASSUME Odd # {} PROVE FALSE
      OBVIOUS
    <2>1. Odd \in SUBSET (SUBSET S)
      OBVIOUS
    <2>2. PICK T \in Odd : \A y \in T : T \ {y} \notin Odd
      <3> HIDE DEF Odd
      <3> QED
        BY <2>1, SmallestSet
    <2>3. CASE T = {}
      <3>1. g[T] = 0
        BY <1>1, <2>3
      <3> QED
        BY <2>2, <3>1
    <2>4. CASE T # {}
      <3>1. One(T) \in T
        BY <2>4, OneOf
      <3>2. g[T \ {One(T)}] \in Int /\ F[One(T)] \in Int
        BY <2>2, <3>1
      <3>3. g[T] = F[One(T)] + g[T \ {One(T)}]
        BY <1>1, <2>4
      <3> QED
        BY <3>2, <3>3
    <2> QED
      BY <2>3, <2>4
  <1>3. Bad = {}
    <2> SUFFICES ASSUME Bad # {} PROVE FALSE
      OBVIOUS
    <2>1. Bad \in SUBSET (SUBSET S)
      OBVIOUS
    <2>2. PICK T \in Bad : \A y \in T : T \ {y} \notin Bad
      <3> HIDE DEF Bad
      <3> QED
        BY <2>1, SmallestSet
    <2>3. PICK y \in T : g[T] # F[y] + g[T \ {y}]
      OBVIOUS
    <2> DEFINE x == One(T)
    <2>4. x \in T /\ x \in S /\ y \in S /\ T \in SUBSET S
      BY <2>3, OneOf
    <2>5. g[T] = F[x] + g[T \ {x}]
      BY <1>1, <2>3
    <2> HIDE DEF x
    <2>6. x # y
      BY <2>3, <2>5
    <2>7. T \ {x} \in SUBSET S /\ T \ {x} \notin Bad /\ y \in T \ {x}
          /\ T \ {y} \in SUBSET S /\ T \ {y} \notin Bad /\ x \in T \ {y}
      BY <2>2, <2>3, <2>4, <2>6
    <2>8. /\ g[T \ {x}] = F[y] + g[(T \ {x}) \ {y}]
          /\ g[T \ {y}] = F[x] + g[(T \ {y}) \ {x}]
      BY <2>7
    <2>9. (T \ {x}) \ {y} = (T \ {y}) \ {x} /\ (T \ {y}) \ {x} \in SUBSET S
      BY <2>4
    <2>10. F[x] \in Int /\ F[y] \in Int /\ g[(T \ {y}) \ {x}] \in Int
      BY <1>2, <2>4, <2>9
    <2> DEFINE rest == g[(T \ {y}) \ {x}]
    <2>11. g[T \ {x}] = F[y] + rest /\ g[T \ {y}] = F[x] + rest /\ rest \in Int
      BY <2>8, <2>9, <2>10, Zenon
    <2> HIDE DEF Bad, rest
    <2>12. F[x] + (F[y] + rest) = F[y] + (F[x] + rest)
      BY <2>10, <2>11
    <2>13. g[T] = F[x] + (F[y] + rest)
      BY <2>5, <2>11, Zenon
    <2>14. g[T] # F[y] + (F[x] + rest)
      BY <2>3, <2>11, Zenon
    <2> QED
      BY <2>12, <2>13, <2>14
  <1>4. g[{}] = 0 /\ g \in [SUBSET S -> Int]
    BY <1>1, <1>2
  <1> QED
    BY <1>3, <1>4 DEF Sums

LEMMA SameSums ==
  \A S, F, g, k : \A T \in SUBSET S : Sums(g, F, S) /\ Sums(k, F, T) => g[T] = k[T]
  <1> SUFFICES ASSUME NEW S, NEW F, NEW g, NEW k, NEW T \in SUBSET S, Sums(g, F, S), Sums(k, F, T)
               PROVE  g[T] = k[T]
    OBVIOUS
  <1> DEFINE Bad == {U \in SUBSET T : g[U] # k[U]}
  <1> SUFFICES ASSUME Bad # {} PROVE FALSE
    OBVIOUS
  <1>1. Bad \in SUBSET (SUBSET T) /\ IsFiniteSet(T)
    BY DEF Sums
  <1>2. PICK U \in Bad : \A y \in U : U \ {y} \notin Bad
    <2> HIDE DEF Bad
    <2> QED
      BY <1>1, SmallestSet
  <1>3. U \in SUBSET T /\ U \in SUBSET S /\ g[U] # k[U]
    BY <1>2
  <1>4. U # {}
    BY <1>3 DEF Sums
  <1>5. PICK y \in U : TRUE
    BY <1>4
  <1>6. g[U] = F[y] + g[U \ {y}] /\ k[U] = F[y] + k[U \ {y}]
    BY <1>3 DEF Sums
  <1>7. g[U \ {y}] = k[U \ {y}]
    BY <1>2, <1>3
  <1> QED
    BY <1>3, <1>6, <1>7

\* The sum over two sets with nothing in common is the sum of theirs.
LEMMA SumsAdd ==
  ASSUME NEW S, NEW F, NEW g, Sums(g, F, S),
         NEW A \in SUBSET S, NEW B \in SUBSET S, A \cap B = {}
  PROVE  g[A \cup B] = g[A] + g[B]
  <1> DEFINE Bad == {U \in SUBSET B : g[A \cup U] # g[A] + g[U]}
  <1> SUFFICES ASSUME Bad # {} PROVE FALSE
    OBVIOUS
  <1>0. IsFiniteSet(B) /\ Bad \in SUBSET (SUBSET B)
    BY FS_Subset DEF Sums
  <1>1. PICK U \in Bad : \A y \in U : U \ {y} \notin Bad
    <2> HIDE DEF Bad
    <2> QED
      BY <1>0, SmallestSet
  <1>2. U \in SUBSET B /\ U \in SUBSET S /\ g[A \cup U] # g[A] + g[U]
    BY <1>1
  <1>3. U # {}
    <2> SUFFICES ASSUME U = {} PROVE FALSE
      OBVIOUS
    <2>1. A \cup U = A /\ g[U] = 0 /\ g[A] \in Int
      BY DEF Sums
    <2> QED
      BY <1>2, <2>1
  <1>4. PICK y \in U : TRUE
    BY <1>3
  <1>5. y \in S /\ y \notin A /\ U \ {y} \notin Bad /\ U \ {y} \in SUBSET B
        /\ U \ {y} \in SUBSET S /\ A \cup U \in SUBSET S /\ A \cup (U \ {y}) \in SUBSET S
    BY <1>1, <1>2, <1>4
  <1>6. (A \cup U) \ {y} = A \cup (U \ {y})
    BY <1>5
  <1>7. g[A \cup U] = F[y] + g[(A \cup U) \ {y}] /\ g[U] = F[y] + g[U \ {y}]
    BY <1>4, <1>2, <1>5 DEF Sums
  <1>8. g[A \cup (U \ {y})] = g[A] + g[U \ {y}]
    BY <1>5
  <1>9. F[y] \in Int /\ g[A] \in Int /\ g[U \ {y}] \in Int
    BY <1>5 DEF Sums
  <1> HIDE DEF Bad
  <1>10. g[A \cup U] = F[y] + (g[A] + g[U \ {y}])
    BY <1>6, <1>7, <1>8, Zenon
  <1>11. g[A] + g[U] = g[A] + (F[y] + g[U \ {y}])
    BY <1>7, Zenon
  <1>12. F[y] + (g[A] + g[U \ {y}]) = g[A] + (F[y] + g[U \ {y}])
    BY <1>9
  <1> QED
    BY <1>2, <1>10, <1>11, <1>12, Zenon

LEMMA SumsAddThree ==
  ASSUME NEW S, NEW F, NEW g, Sums(g, F, S),
         NEW A \in SUBSET S, NEW B \in SUBSET S, NEW C \in SUBSET S,
         A \cap B = {}, (A \cup B) \cap C = {}
  PROVE  g[(A \cup B) \cup C] = g[A] + g[B] + g[C]
  <1>0. \A P \in SUBSET S : \A Q \in SUBSET S : P \cap Q = {} => g[P \cup Q] = g[P] + g[Q]
    BY SumsAdd
  <1>1. g[A \cup B] = g[A] + g[B]
    BY <1>0
  <1>2. A \cup B \in SUBSET S
    OBVIOUS
  <1>3. g[(A \cup B) \cup C] = g[A \cup B] + g[C]
    BY <1>0, <1>2
  <1> QED
    BY <1>1, <1>3

\* A sum of the sums over sets with nothing in common is the sum over all of them.
LEMMA SumsOfSums ==
  ASSUME NEW S, NEW F, NEW g, Sums(g, F, S), NEW R, NEW K \in [R -> SUBSET S], NEW G, NEW k, Sums(k, G, R),
         \A r \in R : G[r] = g[K[r]],
         \A r, s \in R : r # s => K[r] \cap K[s] = {}
  PROVE  k[R] = g[UNION {K[r] : r \in R}]
  <1> DEFINE All(U) == UNION {K[r] : r \in U}
             Bad == {U \in SUBSET R : k[U] # g[All(U)]}
  <1> SUFFICES ASSUME Bad # {} PROVE FALSE
    OBVIOUS
  <1>0. Bad \in SUBSET (SUBSET R) /\ IsFiniteSet(R)
    BY DEF Sums
  <1>1. PICK U \in Bad : \A y \in U : U \ {y} \notin Bad
    <2> HIDE DEF Bad
    <2> QED
      BY <1>0, SmallestSet
  <1>2. U \in SUBSET R /\ k[U] # g[All(U)]
    BY <1>1
  <1>3. U # {}
    <2> SUFFICES ASSUME U = {} PROVE FALSE
      OBVIOUS
    <2>1. All(U) = {}
      OBVIOUS
    <2>2. k[U] = 0 /\ g[{}] = 0
      BY DEF Sums
    <2> QED
      BY <1>2, <2>1, <2>2
  <1>4. PICK y \in U : TRUE
    BY <1>3
  <1>5. y \in R /\ U \ {y} \in SUBSET R /\ U \ {y} \notin Bad
    BY <1>1, <1>2, <1>4
  <1>6. k[U \ {y}] = g[All(U \ {y})]
    BY <1>5
  <1>7. k[U] = G[y] + k[U \ {y}] /\ G[y] = g[K[y]]
    BY <1>2, <1>4, <1>5 DEF Sums
  <1>8. All(U) = All(U \ {y}) \cup K[y]
    BY <1>4
  <1>9. All(U \ {y}) \cap K[y] = {}
    BY <1>2, <1>5
  <1>10. All(U \ {y}) \in SUBSET S /\ K[y] \in SUBSET S
    BY <1>5
  <1> HIDE DEF All, Bad
  <1>11. g[All(U)] = g[All(U \ {y})] + g[K[y]]
    <2>0. \A A \in SUBSET S : \A B \in SUBSET S : A \cap B = {} => g[A \cup B] = g[A] + g[B]
      BY SumsAdd
    <2>1. g[All(U \ {y}) \cup K[y]] = g[All(U \ {y})] + g[K[y]]
      BY <1>9, <1>10, <2>0, Zenon
    <2> QED
      BY <1>8, <2>1, Zenon
  <1>12. g[All(U \ {y})] \in Int /\ g[K[y]] \in Int
    BY <1>10 DEF Sums
  <1> QED
    BY <1>2, <1>6, <1>7, <1>11, <1>12

\* SumSet and MapThenSumSet are such sums.
LEMMA SumSetIs ==
  ASSUME NEW S, IsFiniteSet(S), NEW F, \A x \in S : F[x] = x /\ x \in Int
  PROVE  \E g : /\ Sums(g, F, S)
                /\ \A T \in SUBSET S : SumSet(T) = g[T]
  <1>1. ASSUME NEW T \in SUBSET S
        PROVE  \E k : Sums(k, F, T) /\ SumSet(T) = k[T]
    <2> DEFINE Rule(k) == k = [s \in SUBSET T |-> IF s = {} THEN 0
                 ELSE (CHOOSE x \in s : TRUE) + k[s \ {CHOOSE x \in s : TRUE}]]
    <2>1. IsFiniteSet(T) /\ \A x \in T : F[x] \in Int
      BY FS_Subset
    <2>2. \A s \in SUBSET T : s # {} => F[One(s)] = One(s)
      BY OneOf
    <2>3. \A k : Chosen(k, F, T) <=> Rule(k)
      <3> SUFFICES ASSUME NEW k PROVE Chosen(k, F, T) <=> Rule(k)
        OBVIOUS
      <3>1. [s \in SUBSET T |-> IF s = {} THEN 0 ELSE F[One(s)] + k[s \ {One(s)}]]
              = [s \in SUBSET T |-> IF s = {} THEN 0 ELSE One(s) + k[s \ {One(s)}]]
        BY <2>2
      <3> QED
        BY <3>1 DEF Chosen, One
    <2>4. PICK k0 : Rule(k0)
      <3>1. \E j : Chosen(j, F, T)
        BY <2>1, ChosenExists, Zenon
      <3> HIDE DEF Rule
      <3> QED
        BY <2>3, <3>1, Zenon
    <2> DEFINE k == CHOOSE j : Rule(j)
    <2>5. Rule(k)
      <3> HIDE DEF Rule
      <3> QED
        BY <2>4
    <2>6. SumSet(T) = k[T]
      BY DEF SumSet, FoldSet, MapThenFoldSet
    <2> HIDE DEF k, Rule
    <2>7. Sums(k, F, T)
      BY <2>1, <2>3, <2>5, ChosenSums
    <2> QED
      BY <2>6, <2>7
  <1>2. PICK g : Sums(g, F, S)
    BY <1>1
  <1>3. ASSUME NEW T \in SUBSET S
        PROVE  SumSet(T) = g[T]
    <2>1. PICK k : Sums(k, F, T) /\ SumSet(T) = k[T]
      BY <1>1
    <2>2. Sums(g, F, S) /\ Sums(k, F, T)
      BY <1>2, <2>1
    <2>3. g[T] = k[T]
      BY <2>2, SameSums
    <2> QED
      BY <2>1, <2>3
  <1> QED
    BY <1>2, <1>3

LEMMA ChargedSum ==
  ASSUME NEW all, IsFiniteSet(all), NEW G,
         \A s \in all : G[s] \in Int /\ G[s] = Charged(s, all)
  PROVE  \E k : /\ Sums(k, G, all)
                /\ MapThenSumSet(LAMBDA s : Charged(s, all), all) = k[all]
  <1> DEFINE Rule(k) == k = [s \in SUBSET all |-> IF s = {} THEN 0
               ELSE Charged(CHOOSE x \in s : TRUE, all)
                      + k[s \ {CHOOSE x \in s : TRUE}]]
  <1>1. \A s \in SUBSET all : s # {} => G[One(s)] = Charged(One(s), all)
    BY OneOf
  <1>2. \A k : Chosen(k, G, all) <=> Rule(k)
    <2> SUFFICES ASSUME NEW k PROVE Chosen(k, G, all) <=> Rule(k)
      OBVIOUS
    <2>1. [s \in SUBSET all |-> IF s = {} THEN 0 ELSE G[One(s)] + k[s \ {One(s)}]]
            = [s \in SUBSET all |-> IF s = {} THEN 0
                 ELSE Charged(One(s), all) + k[s \ {One(s)}]]
      BY <1>1
    <2> QED
      BY <2>1 DEF Chosen, One
  <1>3. PICK k0 : Rule(k0)
    <2>1. \E j : Chosen(j, G, all)
      BY ChosenExists, Zenon
    <2> HIDE DEF Rule
    <2> QED
      BY <1>2, <2>1, Zenon
  <1> DEFINE k == CHOOSE j : Rule(j)
  <1>4. Rule(k)
    <2> HIDE DEF Rule
    <2> QED
      BY <1>3
  <1>5. MapThenSumSet(LAMBDA s : Charged(s, all), all) = k[all]
    BY DEF MapThenSumSet, MapThenFoldSet
  <1> HIDE DEF k, Rule
  <1>6. Sums(k, G, all)
    BY <1>2, <1>4, ChosenSums
  <1> QED
    BY <1>5, <1>6

-----------------------------------------------------------------------------
(* What Tesla billed.                                                      *)

LEMMA IntPair ==
  ASSUME NEW a \in Int, NEW b \in Int
  PROVE  Min({a, b}) \in Int /\ Max({a, b}) \in Int
  <1>1. \E x \in {a, b} : \A y \in {a, b} : x =< y
    <2>1. CASE a <= b
      BY <2>1
    <2>2. CASE b <= a
      BY <2>2
    <2> QED
      BY <2>1, <2>2
  <1>2. \E x \in {a, b} : \A y \in {a, b} : x >= y
    <2>1. CASE a >= b
      BY <2>1
    <2>2. CASE b >= a
      BY <2>2
    <2> QED
      BY <2>1, <2>2
  <1>3. Min({a, b}) \in {a, b}
    BY <1>1 DEF Min
  <1>4. Max({a, b}) \in {a, b}
    BY <1>2 DEF Max
  <1> QED
    BY <1>3, <1>4

\* The sessions of a history: finitely many, each by its start.
LEMMA SessionsOf ==
  ASSUME NEW h, History(h)
  PROVE  /\ IsFiniteSet(Islands(h))
         /\ \A s \in Islands(h) : s.from \in Nat /\ s.to \in Nat
         /\ \A s, r \in Islands(h) : s.from = r.from => s = r
  <1> DEFINE S == Starts(h)
             f == [u \in S |-> SessionOf(h, u)]
  <1>1. Islands(h) = {SessionOf(h, u) : u \in S}
    BY IslandsIs
  <1>2. S \in SUBSET Nat /\ IsFiniteSet(S)
    BY StartsFinite, 0 \in Nat
  <1>3. f \in Surjection(S, Islands(h))
    BY <1>1 DEF Surjection
  <1>4. IsFiniteSet(Islands(h))
    BY <1>2, <1>3, FS_Surjection
  <1>5. ASSUME NEW u \in S
        PROVE  SessionOf(h, u).to \in Nat
    <2>1. CASE Closers(h, u) = {}
      <3>1. RowsOf(h, u) # {} /\ RowsOf(h, u) \in SUBSET Nat
        BY StartRow
      <3>2. RowsOf(h, u) \in SUBSET DOMAIN h
        BY DEF RowsOf
      <3>3. IsFiniteSet(RowsOf(h, u))
        BY <3>2, FS_Subset DEF History
      <3>4. Max(RowsOf(h, u)) \in Nat
        BY <3>1, <3>3, MaxOf
      <3>5. SessionOf(h, u).to = Max(RowsOf(h, u))
        BY <2>1 DEF SessionOf, Session
      <3> QED
        BY <3>4, <3>5
    <2>2. CASE Closers(h, u) # {}
      <3>1. Closers(h, u) \in SUBSET Nat
        BY DEF Closers, History
      <3>2. Min(Closers(h, u)) \in Nat
        BY <2>2, <3>1, MinOf
      <3>3. SessionOf(h, u).to = Min(Closers(h, u))
        BY <2>2 DEF SessionOf, Session
      <3> QED
        BY <3>2, <3>3
    <2> QED
      BY <2>1, <2>2
  <1>6. \A u \in S : SessionOf(h, u).from = u
    BY FromOf
  <1> HIDE DEF S
  <1> QED
    BY <1>1, <1>2, <1>4, <1>5, <1>6

\* No invoice is matched to two sessions.
LEMMA MatchedOnce ==
  ASSUME Numbers, ChargesOK, NEW s \in Islands(history), NEW r \in Islands(history),
         s # r
  PROVE  Matched(s, Islands(history))
           \cap Matched(r, Islands(history)) = {}
  <1> DEFINE all == Islands(history)
  <1>1. ASSUME NEW q \in all, NEW i \in DOMAIN invoices
        PROVE  Overlap(q, invoices[i]) \in Int
    <2>1. q.from \in Int /\ q.to \in Int
      BY SessionsOf DEF ChargesOK
    <2>2. invoices[i].from \in Int /\ invoices[i].to \in Int
      BY DEF Numbers, ChargesOK
    <2>3. Min({q.to, invoices[i].to}) \in Int
          /\ Max({q.from, invoices[i].from}) \in Int
      BY <2>1, <2>2, IntPair
    <2> QED
      BY <2>3 DEF Overlap
  <1>2. ASSUME NEW p \in all, NEW q \in all, p.from < q.from,
               NEW i \in Matched(p, all), i \in Matched(q, all)
        PROVE  FALSE
    <2>1. p.from \in Nat /\ q.from \in Nat /\ p # q
      BY <1>2, SessionsOf DEF ChargesOK
    <2>2. i \in DOMAIN invoices
      BY DEF Matched
    <2>3. Overlap(p, invoices[i]) \in Int /\ Overlap(q, invoices[i]) \in Int
      BY <1>1, <2>2
    <2> HIDE DEF all
    <2>4. Overlap(q, invoices[i]) <= Overlap(p, invoices[i])
      <3>1. ~(q.from < p.from) /\ q \in all \ {p}
        BY <1>2, <2>1
      <3> QED
        BY <3>1 DEF Matched
    <2>5. Overlap(p, invoices[i]) < Overlap(q, invoices[i])
      <3>1. p \in all \ {q}
        BY <2>1
      <3> QED
        BY <1>2, <3>1 DEF Matched
    <2> QED
      BY <2>3, <2>4, <2>5
  <1>3. s.from < r.from \/ r.from < s.from
    BY SessionsOf DEF ChargesOK
  <1> HIDE DEF all
  <1>4. s \in all /\ r \in all
    BY DEF all
  <1>5. \A i : ~(i \in Matched(s, all) /\ i \in Matched(r, all))
    BY <1>2, <1>3, <1>4
  <1> QED
    BY <1>5 DEF all

\* What Tesla billed is counted once (reconcileChargingInvoices).
LEMMA BilledHolds ==
  ASSUME Numbers, ChargesOK
  PROVE  BilledOnce
  <1> DEFINE all == Islands(history)
             S == DOMAIN invoices
             F == [i \in S |-> i]
             M(s) == Matched(s, all)
             K == [s \in all |-> IF s.from \in entered THEN {} ELSE M(s)]
             Taken == UNION {K[s] : s \in all}
             Gone == Overruled(all)
             Free == Unmatched(all)
  <1>1. S \in SUBSET Int /\ IsFiniteSet(S) /\ \A i \in S : F[i] = i
    BY DEF Numbers, ChargesOK
  <1>2. IsFiniteSet(all)
    BY SessionsOf DEF ChargesOK
  <1>3. \A s \in all : M(s) \in SUBSET S
    BY DEF Matched
  <1>4. \A s, r \in all : s # r => M(s) \cap M(r) = {}
    BY MatchedOnce
  <1>5. PICK g : Sums(g, F, S) /\ \A T \in SUBSET S : SumSet(T) = g[T]
    BY <1>1, SumSetIs
  <1>6. K \in [all -> SUBSET S]
    BY <1>3
  <1>7. \A s, r \in all : s # r => K[s] \cap K[r] = {}
    BY <1>4
  <1> DEFINE G == [s \in all |-> g[K[s]]]
  <1>8. \A s \in all : G[s] \in Int
    BY <1>5, <1>6 DEF Sums
  <1>9. ASSUME NEW s \in all
        PROVE  G[s] = Charged(s, all)
    <2>1. G[s] = g[K[s]]
      OBVIOUS
    <2>2. g[{}] = 0 /\ Billed(M(s)) = g[M(s)]
      BY <1>3, <1>5 DEF Sums, Billed
    <2>3. CASE s.from \in entered
      <3>1. Cost(s, all).by = "manual"
        BY <2>3 DEF Cost
      <3>2. K[s] = {}
        BY <2>3
      <3> QED
        BY <2>1, <2>2, <3>1, <3>2 DEF Charged
    <2>4. CASE s.from \notin entered /\ M(s) # {}
      <3>1. Cost(s, all).by = "invoice"
            /\ Cost(s, all).usd = Billed(M(s))
        BY <2>4 DEF Cost
      <3>2. K[s] = M(s)
        BY <2>4
      <3> QED
        BY <2>1, <2>2, <3>1, <3>2 DEF Charged
    <2>5. CASE s.from \notin entered /\ M(s) = {}
      <3>1. Cost(s, all) = Priced(s)
        BY <2>5 DEF Cost
      <3>2. Priced(s).by \in {"none", "rate"}
        BY DEF Priced
      <3>3. K[s] = {}
        BY <2>5
      <3> QED
        BY <2>1, <2>2, <3>1, <3>2, <3>3 DEF Charged
    <2> QED
      BY <2>3, <2>4, <2>5
  <1>10. PICK k : /\ Sums(k, G, all)
                  /\ MapThenSumSet(LAMBDA s : Charged(s, all), all) = k[all]
    <2> HIDE DEF G, all
    <2> QED
      BY <1>2, <1>8, <1>9, ChargedSum
  <1>11. \A s \in all : G[s] = g[K[s]]
    OBVIOUS
  <1>12. /\ Taken \in SUBSET S /\ Gone \in SUBSET S /\ Free \in SUBSET S
    BY <1>3 DEF Overruled, Unmatched
  <1>13. Taken \cap Free = {} /\ (Taken \cup Free) \cap Gone = {}
    <2>1. ASSUME NEW i \in Taken, i \in Free PROVE FALSE
      BY <2>1 DEF Unmatched
    <2>2. ASSUME NEW i \in Gone, i \in Free PROVE FALSE
      BY <2>2 DEF Unmatched, Overruled
    <2>3. ASSUME NEW i \in Gone, i \in Taken PROVE FALSE
      <3>1. PICK s \in all : s.from \in entered /\ i \in M(s)
        BY DEF Overruled
      <3>2. PICK r \in all : i \in K[r]
        BY <2>3
      <3>3. r.from \notin entered /\ i \in M(r)
        BY <3>2
      <3> QED
        BY <1>4, <3>1, <3>3
    <2> HIDE DEF Taken, Free, Gone
    <2> QED
      BY <2>1, <2>2, <2>3
  <1>14. (Taken \cup Free) \cup Gone = S
    <2> SUFFICES ASSUME NEW i \in S PROVE i \in Taken \/ i \in Free \/ i \in Gone
      BY <1>12
    <2>1. CASE i \in Free
      BY <2>1
    <2>2. CASE i \notin Free
      <3>1. PICK s \in all : i \in M(s)
        BY <2>2 DEF Unmatched
      <3>2. CASE s.from \in entered
        BY <3>1, <3>2 DEF Overruled
      <3>3. CASE s.from \notin entered
        <4>1. i \in K[s]
          BY <3>1, <3>3
        <4> QED
          BY <4>1
      <3> QED
        BY <3>2, <3>3
    <2> QED
      BY <2>1, <2>2
  <1>15. k[all] = g[Taken]
    <2> HIDE DEF G, all, F, S, K
    <2>1. k[all] = g[UNION {K[s] : s \in all}]
      BY <1>1, <1>2, <1>5, <1>6, <1>7, <1>10, <1>11, SumsOfSums
    <2> QED
      BY <2>1
  <1>16. g[S] = g[Taken] + g[Free] + g[Gone]
    <2> HIDE DEF Taken, Free, Gone, F, S, G, all
    <2>1. g[(Taken \cup Free) \cup Gone] = g[Taken] + g[Free] + g[Gone]
      BY <1>5, <1>12, <1>13, SumsAddThree
    <2> QED
      BY <1>14, <2>1, Zenon
  <1>17. Billed(Free) = g[Free] /\ Billed(Gone) = g[Gone]
         /\ Billed(S) = g[S]
    BY <1>5, <1>12 DEF Billed
  <1>18. MapThenSumSet(LAMBDA s : Charged(s, all), all)
           + Billed(Free) + Billed(Gone) = Billed(S)
    <2> HIDE DEF all, Taken, Free, Gone, F, S, G
    <2> QED
      BY <1>10, <1>15, <1>16, <1>17
  <1> QED
    BY <1>18 DEF BilledOnce, Accounted
=============================================================================

----------------------------- MODULE FleetImport -----------------------------
(***************************************************************************)
(* What a vehicle of the fleet looks like, from Tesla's answers to the     *)
(* guest's picture of it: the reading of an owner's cars (lib/tesla-       *)
(* server.ts, lib/tesla-vehicle-config.ts), the import and its merge with  *)
(* what the owner typed (components/owner/setup/ImportStep.tsx,            *)
(* lib/owner/import-mapping.ts), the vehicle form, and the choice of       *)
(* Tesla's picture (lib/vehicle-media.ts).                                 *)
(*                                                                         *)
(* One car and one aspect of it, its paint, its cabin or its wheels, each  *)
(* a name and, but for the wheels, Tesla's option code.  Two designs are   *)
(* known, 1 and 2, by name and by code; Other is a name of no design.      *)
(* An import writes the fleet's cars one after the other: a form may be    *)
(* saved while it awaits another car, and then it writes what it merged    *)
(* from the screen it started on.  Left out: archived cars.                *)
(***************************************************************************)
EXTENDS Integers, FiniteSets

CONSTANT MaxVisits     \* bound: reads, imports and saves

VARIABLES
    aspect,    \* "paint", "cabin" or "wheels"
    profile,   \* what Tesla last said of the car
    row,       \* onlyevs_vehicles: name, code and tesla_imported_spec
    snap,      \* the import under way: the row as the screen showed it
    form,      \* the name in the open form
    word,      \* what the owner last said that Tesla had not: 0 is nothing
    visits

vars == <<aspect, profile, row, snap, form, word, visits>>

Known  == {1, 2}
Other  == 3
Digits == 4
Names  == 0 .. Other
Raw    == Names \cup {Digits}
Codes  == IF aspect = "wheels" THEN {0} ELSE Known \cup {0}
Spec2  == [name : Names, code : Known \cup {0}]
Unread == [name |-> 0 - 1, code |-> 0]
NoRow  == [name |-> 0 - 1, code |-> 0, prior |-> Unread]
Idle   == [NoRow EXCEPT !.name = 0 - 2]
Closed == 0 - 1

Counted == visits < MaxVisits /\ visits' = visits + 1

(***************************************************************************)
(* Tesla's answers: the list of products, and the car's own configuration, *)
(* which a car that sleeps does not give.                                  *)
(***************************************************************************)
\* a value that nobody knows survives as it is; a number says nothing of a cabin
Survives(raw)  == IF raw = Digits THEN Other ELSE raw
CabinName(raw) == IF raw = Digits THEN 0 ELSE raw
Name(raw)      == IF aspect = "cabin" THEN CabinName(raw) ELSE Survives(raw)
Either(a, b)   == IF a # 0 THEN a ELSE b

FromList(raw, code) ==
    CASE aspect = "wheels" -> [name |-> 0, code |-> 0]
      [] aspect = "paint"  -> [name |-> code, code |-> code]
      [] aspect = "cabin"  -> [name |-> Either(Name(raw), code), code |-> code]

\* of a cabin, a code that contradicts the description is dropped
FromConfig(raw, code) ==
    [name |-> Either(Name(raw), code),
     code |-> IF aspect = "cabin" /\ Name(raw) \notin {0, code} THEN 0 ELSE code]

Enriched(list, config) == [name |-> Either(config.name, list.name),
                           code |-> Either(config.code, list.code)]

Reports == LET lists == {FromList(r, c) : r \in Raw, c \in Codes}
           IN  lists \cup {Enriched(l, FromConfig(r, c)) : l \in lists, r \in Raw, c \in Codes}

Init ==
    /\ aspect \in {"paint", "cabin", "wheels"}
    /\ profile = Unread /\ row = NoRow /\ snap = Idle /\ form = Closed
    /\ word = 0 /\ visits = 0

\* the sign-in at Tesla leaves the page, and with it an import
ReadProfile ==
    /\ snap = Idle /\ form = Closed /\ Counted
    /\ profile' \in Reports
    /\ UNCHANGED <<aspect, row, snap, form, word>>

(***************************************************************************)
(* The import.                                                             *)
(***************************************************************************)
\* Mutant: what Tesla says, where it says something.
MutOwners(current, known, prior, fresh) == Either(fresh, current)
Owners(current, known, prior, fresh) ==
    IF (known /\ current = prior) \/ (~known /\ current = 0) THEN fresh ELSE current

Merged(fresh, r) ==
    LET known == r.prior # Unread
        was   == IF known THEN r.prior ELSE [name |-> 0, code |-> 0]
    IN  [name  |-> Owners(r.name, known, was.name, fresh.name),
         code  |-> Owners(r.code, known, was.code, fresh.code),
         prior |-> fresh]

StartImport ==
    /\ profile # Unread /\ snap = Idle /\ Counted
    /\ snap' = row
    /\ UNCHANGED <<aspect, profile, row, form, word>>

\* an update over the car as the fleet now has it, an insert that the VIN's
\* index refuses when the car is there, or a failure
LandImport ==
    /\ snap # Idle /\ snap' = Idle
    /\ \/ UNCHANGED <<row, word>>
       \/ /\ snap # NoRow \/ row = NoRow
          /\ row' = IF snap = NoRow
                      THEN [name |-> profile.name, code |-> profile.code, prior |-> profile]
                      ELSE Merged(profile, snap)
          /\ word' = IF profile.name = word THEN 0 ELSE word
    /\ UNCHANGED <<aspect, profile, form, visits>>

(***************************************************************************)
(* The form.                                                               *)
(***************************************************************************)
Valid(name) == aspect = "paint" => name # 0

\* handleManualAdd, with the car's VIN
AddManually(name) ==
    /\ row = NoRow /\ Valid(name) /\ Counted
    /\ row' = [name |-> name, code |-> 0, prior |-> Unread]
    /\ word' = name
    /\ UNCHANGED <<aspect, profile, snap, form>>

OpenForm ==
    /\ row # NoRow /\ form = Closed /\ form' = row.name
    /\ UNCHANGED <<aspect, profile, row, snap, word, visits>>

TypeForm(name) ==
    /\ form # Closed /\ form' = name
    /\ UNCHANGED <<aspect, profile, row, snap, word, visits>>

\* toVehicleInput: a code goes with the name it came with
CodeKept(name) == IF name # row.name THEN 0 ELSE row.code

Submit ==
    /\ form # Closed /\ Valid(form) /\ Counted
    /\ row' = [row EXCEPT !.name = form, !.code = CodeKept(form)]
    /\ word' = IF snap # Idle \/ (row.prior # Unread /\ form = row.prior.name) THEN 0 ELSE form
    /\ form' = Closed
    /\ UNCHANGED <<aspect, profile, snap>>

Next == \/ ReadProfile \/ StartImport \/ LandImport \/ OpenForm \/ Submit
        \/ \E n \in Names : AddManually(n) \/ TypeForm(n)

Spec == Init /\ [][Next]_vars

(***************************************************************************)
(* Tesla's picture of the car, of a trim that is offered in some designs.  *)
(***************************************************************************)
PaintShown ==
    IF row.name \in Known
      THEN IF row.code \in {0, row.name} THEN row.name ELSE 0
      ELSE row.code

CabinShown(offered) ==
    IF row.name \in offered
      THEN IF row.code \in offered \ {row.name} THEN 0 ELSE row.name
      ELSE IF row.name = 0 THEN row.code ELSE 0

\* a blank name will do where there is one design
WheelShown(offered) ==
    IF row.name = 0 /\ Cardinality(offered) = 1 THEN CHOOSE d \in offered : TRUE ELSE row.name

Offers == {{1}, {1, 2}}

Picture(offered) ==
    LET shown == CASE aspect = "paint"  -> PaintShown
                   [] aspect = "cabin"  -> CabinShown(offered)
                   [] aspect = "wheels" -> WheelShown(offered)
    IN  IF shown \in offered THEN shown ELSE 0

-----------------------------------------------------------------------------
TypeOK ==
    /\ profile = Unread \/ profile \in Spec2
    /\ row = NoRow \/ row \in [name : Names, code : Known \cup {0}, prior : Spec2 \cup {Unread}]
    /\ snap \in {Idle, NoRow} \/ snap \in [name : Names, code : Known \cup {0},
                                           prior : Spec2 \cup {Unread}]
    /\ form = Closed \/ form \in Names
    /\ word \in Names

\* The guest is shown no picture of another design than the owner named,
\* whatever code an earlier or a later answer of Tesla's left in the row.
ShownAsSaid == \A offered \in Offers : word \in Known => Picture(offered) \in {0, word}

\* What the owner typed, and Tesla had not said, stands until Tesla says the
\* same: through every import that did not begin before it, however often
\* Tesla's answers change, in the row and in the guest's picture.
WordStands == /\ word # 0 => row.name = word
              /\ ShownAsSaid
=============================================================================

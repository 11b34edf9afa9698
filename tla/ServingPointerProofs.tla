-------------------------- MODULE ServingPointerProofs --------------------------
(***************************************************************************)
(* The safety properties of ServingPointer for any generations, operators, *)
(* routers and types of store.                                             *)
(***************************************************************************)
EXTENDS ServingPointer, SequenceTheorems, WellFoundedInduction, NaturalsInduction, TLAPS

-----------------------------------------------------------------------------
(***************************************************************************)
(* The inductive invariant.                                                *)
(***************************************************************************)

\* State and protection of the two generations the pointer names.
NamedRows ==
    /\ \A g \in Generations : registry[g].state = "SERVING" <=> g = pointer.gen
    /\ \A g \in Generations : registry[g].protection = "SERVING" <=> g = pointer.gen
    /\ \A g \in Generations : registry[g].protection = "ROLLBACK" <=> g = pointer.prev
    /\ pointer.prev \in Generations =>
          registry[pointer.prev].state \in {"RETIRING", "READY"}

\* A row tells the type of its store, and there is one until cleanup.
RowsHaveStores ==
    \A g \in Generations :
        /\ registry[g].state # "ABSENT" => registry[g].backend \in Backends
        /\ registry[g].state \in {"LOADING", "READY", "SERVING", "RETIRING"} => g \in stores

\* What the cleaner has chosen still is disposable, and for each failure in it
\* a newer one stays.
ChoiceHolds ==
    /\ cleaner.pc = "idle" <=> cleaner.todo = {}
    /\ \A g \in cleaner.todo : Disposable(g)
    /\ \A g \in cleaner.todo : registry[g].state = "FAILED" =>
          \E f \in Failed \ cleaner.todo : registry[f].created > registry[g].created

\* Who remembers the current version remembers what belongs to it.
Remembered ==
    /\ pointer.version >= 1
    /\ \A o \in Operators : operator[o].version <= pointer.version
    /\ \A r \in Requests :
          /\ request[r].version <= pointer.version
          /\ request[r].pc = "pointed" /\ request[r].version = pointer.version
                => request[r].gen = pointer.gen
    /\ cache.version <= pointer.version
    /\ cache.version = pointer.version =>
          cache.gen = pointer.gen /\ cache.target = DeriveTarget(pointer.gen)

\* The latest move was the promotion this operator knows of.
Latest(o) == operator[o].pc = "promoted" /\ operator[o].version = pointer.version
LatestIsLast ==
    \A o \in Operators : Latest(o) =>
        /\ pointer.prev \in Generations
        /\ registry[pointer.prev].state = "RETIRING"
        /\ operator[o].id = Len(journal) /\ Len(journal) >= 1
        /\ journal[Len(journal)].from = pointer.prev

\* The latest of the first n promotions that was not rolled back made g serve.
Explains(n, g) ==
    \/ g = First /\ \A i \in 1..n : journal[i].state # "COMMITTED"
    \/ \E i \in 1..n : /\ journal[i].state = "COMMITTED" /\ journal[i].to = g
                       /\ \A j \in 1..n : journal[j].state = "COMMITTED" => j <= i

\* Each promotion started from what the ones before it explain.
JournalChain ==
    /\ Explains(Len(journal), pointer.gen)
    /\ \A n \in 1..Len(journal) : Explains(n - 1, journal[n].from)

\* Some number is above all stamps, so that there is a last one.
StampsBounded == \E b \in Nat : \A g \in Generations : registry[g].created <= b

PointerInv ==
    /\ TypeOK /\ NamedRows /\ RowsHaveStores /\ ChoiceHolds
    /\ Remembered /\ LatestIsLast /\ JournalChain /\ StampsBounded

-----------------------------------------------------------------------------
(***************************************************************************)
(* Facts about the helpers.                                                *)
(***************************************************************************)

\* Numbers that do not exceed a bound have a largest one among them.
LEMMA Largest ==
    ASSUME NEW S \in SUBSET Nat, S # {}, NEW b \in Nat, \A k \in S : k <= b
    PROVE  \E n \in S : \A k \in S : k <= n
<1> DEFINE Missing == {b - k : k \in S}
<1>1. Missing \subseteq Nat /\ Missing # {}
  <2>1. \A k \in S : b - k \in Nat
    OBVIOUS
  <2> QED
    BY <2>1, Zenon
<1>2. PICK m \in Missing : \A k \in Missing : ~(<<k, m>> \in OpToRel(<, Nat))
  BY <1>1, WFMin, NatLessThanWellFounded, Zenon
<1>3. \A k \in Missing : ~(k < m)
  BY <1>1, <1>2, Zenon DEF OpToRel
<1>4. PICK n \in S : m = b - n
  BY <1>2
<1>5. \A k \in S : ~(b - k < b - n)
  BY <1>3, <1>4
<1>6. \A k \in S : k <= n
  BY <1>5
<1> QED
  BY <1>4, <1>6

\* Build stamps a row with a number no row has.
LEMMA LastCreatedIsLast ==
    ASSUME TypeOK, StampsBounded
    PROVE  LastCreated \in Nat /\ \A g \in Generations : registry[g].created <= LastCreated
<1> DEFINE stamps == {registry[g].created : g \in Generations}
<1>1. \A g \in Generations : registry[g].created \in Nat
  BY DEF TypeOK, Row
<1>2. stamps \in SUBSET Nat /\ stamps # {}
  BY <1>1, ServingAssumption
<1>3. PICK b \in Nat : \A g \in Generations : registry[g].created <= b
  BY DEF StampsBounded
<1>4. \A k \in stamps : k <= b
  BY <1>3
<1> HIDE DEF stamps
<1>5. \E n \in stamps : \A k \in stamps : k <= n
  BY <1>2, <1>4, Largest
<1>6. LastCreated = CHOOSE n \in stamps : \A k \in stamps : k <= n
  BY DEF LastCreated, stamps
<1>7. LastCreated \in stamps /\ \A k \in stamps : k <= LastCreated
  BY <1>5, <1>6
<1> QED
  BY <1>2, <1>7 DEF stamps

\* A move of the pointer, forwards or backwards, as the rows see it.
Move(new, oldState) ==
    /\ new \in Generations /\ new # pointer.gen
    /\ registry[new].state \in {"READY", "RETIRING"}
    /\ oldState \in {"RETIRING", "READY"}
    /\ registry' = Swapped(pointer.gen, oldState, new)
    /\ pointer' = [gen |-> new, prev |-> pointer.gen, version |-> pointer.version + 1]
    /\ UNCHANGED <<stores, request, cache, cleaner, faults>>

LEMMA MoveShape ==
    ASSUME TypeOK, NEW new, NEW oldState, Move(new, oldState)
    PROVE  /\ registry' \in [Generations -> Row]
           /\ \A g \in Generations :
                /\ registry'[g].state = IF g = new THEN "SERVING"
                                        ELSE IF g = pointer.gen THEN oldState ELSE registry[g].state
                /\ registry'[g].protection = IF g = new THEN "SERVING"
                                             ELSE IF g = pointer.gen THEN "ROLLBACK" ELSE "NONE"
                /\ registry'[g].backend = registry[g].backend
                /\ registry'[g].created = registry[g].created
<1>1. registry \in [Generations -> Row] /\ pointer.gen \in Generations
  BY DEF TypeOK
<1>2. registry' = [g \in Generations |-> registry'[g]]
  BY DEF Move, Swapped
<1>3. ASSUME NEW g \in Generations
      PROVE  registry'[g] = [registry[g] EXCEPT
               !.state = IF g = new THEN "SERVING" ELSE IF g = pointer.gen THEN oldState ELSE @,
               !.protection = IF g = new THEN "SERVING" ELSE IF g = pointer.gen THEN "ROLLBACK" ELSE "NONE"]
  <2>1. registry[g] \in Row
    BY <1>1
  <2>2. Unprotected(g) = [registry[g] EXCEPT !.protection = "NONE"]
    BY <2>1 DEF Unprotected, Row
  <2>3. CASE g = new
    BY <2>1, <2>3 DEF Move, Swapped, Row
  <2>4. CASE g # new /\ g = pointer.gen
    BY <2>1, <2>4 DEF Move, Swapped, Row
  <2>5. CASE g # new /\ g # pointer.gen
    BY <2>1, <2>2, <2>5 DEF Move, Swapped, Row
  <2> QED
    BY <2>3, <2>4, <2>5
<1>4. ASSUME NEW g \in Generations
      PROVE  /\ registry'[g] \in Row
             /\ registry'[g].state = IF g = new THEN "SERVING"
                                     ELSE IF g = pointer.gen THEN oldState ELSE registry[g].state
             /\ registry'[g].protection = IF g = new THEN "SERVING"
                                          ELSE IF g = pointer.gen THEN "ROLLBACK" ELSE "NONE"
             /\ registry'[g].backend = registry[g].backend
             /\ registry'[g].created = registry[g].created
  <2>1. registry[g] \in Row
    BY <1>1
  <2>2. oldState \in States /\ "SERVING" \in States
    BY DEF Move, States
  <2> DEFINE state == IF g = new THEN "SERVING" ELSE IF g = pointer.gen THEN oldState ELSE registry[g].state
             protection == IF g = new THEN "SERVING" ELSE IF g = pointer.gen THEN "ROLLBACK" ELSE "NONE"
  <2>3. state \in States /\ protection \in {"NONE", "SERVING", "ROLLBACK"}
    BY <2>1, <2>2 DEF Row
  <2>4. registry'[g] = [registry[g] EXCEPT !.state = state, !.protection = protection]
    BY <1>3, <2>1 DEF Row
  <2> HIDE DEF state, protection
  <2>5. /\ registry'[g] \in Row
        /\ registry'[g].state = state /\ registry'[g].protection = protection
        /\ registry'[g].backend = registry[g].backend
        /\ registry'[g].created = registry[g].created
    BY <2>1, <2>3, <2>4 DEF Row
  <2> QED
    BY <2>5 DEF state, protection
<1>5. registry' \in [Generations -> Row]
  BY <1>2, <1>4
<1> QED
  BY <1>4, <1>5

LEMMA PromoteIsMove ==
    ASSUME TypeOK, NamedRows, NEW o \in Operators, NEW g \in Generations, Promote(o, g),
           Expected(o) /\ Promotable(g)
    PROVE  Move(g, "RETIRING")
<1>1. g # pointer.gen
  BY DEF NamedRows, Promotable
<1> QED
  BY <1>1 DEF Promote, Move, Promotable

LEMMA RollbackIsMove ==
    ASSUME TypeOK, NamedRows, NEW o \in Operators, Rollback(o), Expected(o) /\ Revertible
    PROVE  Move(pointer.prev, "READY")
<1>1. pointer.prev \in Generations
  BY DEF TypeOK, Revertible
<1>2. pointer.prev # pointer.gen
  BY <1>1 DEF NamedRows, Revertible
<1> QED
  BY <1>1, <1>2 DEF Rollback, Move, Revertible

-----------------------------------------------------------------------------
(***************************************************************************)
(* Steps that change one row: always one the pointer does not name.        *)
(***************************************************************************)

Unnamed(row) == row.protection = "NONE" /\ row.state # "SERVING"

RowStep(g) ==
    /\ registry' \in [Generations -> Row]
    /\ \A h \in Generations \ {g} : registry'[h] = registry[h]
    /\ Unnamed(registry[g]) /\ Unnamed(registry'[g])
    /\ g # pointer.gen /\ g # pointer.prev

\* A row that the pointer cannot name is replaced by another one.
LEMMA RowReplaced ==
    ASSUME TypeOK, NamedRows, NEW g \in Generations, NEW row \in Row,
           registry' = [registry EXCEPT ![g] = row],
           registry[g].state \notin {"SERVING", "READY"}, Unnamed(row),
           registry[g].state = "RETIRING" => registry[g].protection = "NONE"
    PROVE  RowStep(g) /\ registry'[g] = row
<1>1. registry \in [Generations -> Row] /\ registry[g] \in Row
  BY DEF TypeOK
<1>2. registry' \in [Generations -> Row] /\ registry'[g] = row
  BY <1>1
<1>3. \A h \in Generations \ {g} : registry'[h] = registry[h]
  BY <1>1
<1>4. g # pointer.gen
  BY DEF NamedRows
<1>5. g # pointer.prev
  BY DEF NamedRows
<1>6. Unnamed(registry[g])
  BY <1>1, <1>4, <1>5 DEF Unnamed, NamedRows, Row
<1> QED
  BY <1>2, <1>3, <1>4, <1>5, <1>6 DEF RowStep

LEMMA BuildShape ==
    ASSUME TypeOK, NamedRows, StampsBounded,
           NEW g \in Generations, NEW b \in Backends, Build(g, b)
    PROVE  /\ RowStep(g)
           /\ registry[g].state = "ABSENT"
           /\ registry'[g].state = "LOADING" /\ registry'[g].backend = b
           /\ registry'[g].created = LastCreated + 1
           /\ LastCreated \in Nat
<1> DEFINE row == [Absent EXCEPT !.state = "LOADING", !.backend = b, !.created = LastCreated + 1]
<1>1. LastCreated \in Nat
  BY LastCreatedIsLast
<1>2. /\ row \in Row /\ Unnamed(row)
      /\ row.state = "LOADING" /\ row.backend = b /\ row.created = LastCreated + 1
  <2>1. Absent \in Row /\ Absent.protection = "NONE"
    BY DEF Absent, Row, States
  <2>2. LastCreated + 1 \in Nat
    BY <1>1
  <2>3. ASSUME NEW n \in Nat, NEW new, new = [Absent EXCEPT !.state = "LOADING", !.backend = b, !.created = n]
        PROVE  /\ new \in Row /\ new.protection = "NONE"
               /\ new.state = "LOADING" /\ new.backend = b /\ new.created = n
    BY <2>1, <2>3 DEF Row, States
  <2> QED
    BY <2>2, <2>3 DEF Unnamed
<1>3. registry' = [registry EXCEPT ![g] = row]
  BY DEF Build
<1>4. registry[g].state = "ABSENT"
  BY DEF Build
<1>5. RowStep(g) /\ registry'[g] = row
  <2> HIDE DEF row
  <2> QED
    BY <1>2, <1>3, <1>4, RowReplaced
<1> QED
  BY <1>1, <1>2, <1>4, <1>5

LEMMA BuildEndsShape ==
    ASSUME TypeOK, NamedRows, NEW g \in Generations, BuildEnds(g)
    PROVE  /\ RowStep(g)
           /\ registry[g].state = "LOADING"
           /\ registry'[g].state \in {"READY", "FAILED"}
           /\ registry'[g].backend = registry[g].backend
           /\ registry'[g].created = registry[g].created
<1>1. PICK s \in {"READY", "FAILED"} :
         registry' = [registry EXCEPT ![g] = [registry[g] EXCEPT !.state = s]]
  BY DEF BuildEnds, TypeOK
<1> DEFINE row == [registry[g] EXCEPT !.state = s]
<1>2. registry[g] \in Row /\ registry[g].state = "LOADING"
  BY DEF TypeOK, BuildEnds
<1>3. registry[g].protection = "NONE"
  BY <1>2 DEF NamedRows, Row
<1>4. /\ row \in Row /\ row.state = s /\ Unnamed(row)
      /\ row.backend = registry[g].backend /\ row.created = registry[g].created
  BY <1>2, <1>3 DEF Row, States, Unnamed
<1>5. RowStep(g) /\ registry'[g] = row
  <2>1. registry' = [registry EXCEPT ![g] = row]
    BY <1>1, Zenon
  <2> HIDE DEF row
  <2> QED
    BY <1>2, <1>4, <2>1, RowReplaced
<1> QED
  BY <1>2, <1>4, <1>5

LEMMA RetireShape ==
    ASSUME TypeOK, NamedRows, NEW g \in Generations, Retire(g)
    PROVE  /\ RowStep(g)
           /\ registry[g].state = "RETIRING" /\ registry'[g].state = "RETIRED"
           /\ registry'[g].backend = registry[g].backend
           /\ registry'[g].created = registry[g].created
<1> DEFINE row == [registry[g] EXCEPT !.state = "RETIRED"]
<1>1. registry[g] \in Row /\ registry[g].state = "RETIRING" /\ registry[g].protection = "NONE"
  BY DEF TypeOK, Retire
<1>2. /\ row \in Row /\ row.state = "RETIRED" /\ Unnamed(row)
      /\ row.backend = registry[g].backend /\ row.created = registry[g].created
  BY <1>1 DEF Row, States, Unnamed
<1>3. registry' = [registry EXCEPT ![g] = row]
  BY DEF Retire, TypeOK
<1>4. RowStep(g) /\ registry'[g] = row
  <2> HIDE DEF row
  <2> QED
    BY <1>1, <1>2, <1>3, RowReplaced
<1> QED
  BY <1>1, <1>2, <1>4

\* The cleaner takes one of the generations it has chosen.
LEMMA TargetIsChosen ==
    ASSUME ChoiceHolds, cleaner.pc # "idle"
    PROVE  Target \in cleaner.todo /\ registry[Target].state \in {"RETIRED", "FAILED"}
<1>1. cleaner.todo # {}
  BY DEF ChoiceHolds
<1>2. Target \in cleaner.todo
  BY <1>1 DEF Target
<1> QED
  BY <1>2 DEF ChoiceHolds, Disposable

LEMMA DeletedShape ==
    ASSUME TypeOK, NamedRows, ChoiceHolds, DeleteRetiredGeneration
    PROVE  /\ Target \in Generations /\ RowStep(Target)
           /\ registry'[Target] = Absent
<1>1. /\ Target \in cleaner.todo /\ Target \in Generations
      /\ registry[Target].state \in {"RETIRED", "FAILED"}
  BY TargetIsChosen DEF DeleteRetiredGeneration, TypeOK
<1>2. Absent \in Row /\ Unnamed(Absent)
  BY DEF Absent, Row, States, Unnamed
<1>3. registry' = [registry EXCEPT ![Target] = Absent]
  BY DEF DeleteRetiredGeneration, RowAfterDeletion
<1> QED
  BY <1>1, <1>2, <1>3, RowReplaced

-----------------------------------------------------------------------------
(***************************************************************************)
(* The steps, by what they do to the control plane.                        *)
(***************************************************************************)

Promotes == \E o \in Operators, g \in Generations : Promote(o, g) /\ Expected(o) /\ Promotable(g)
RollsBack == \E o \in Operators : Rollback(o) /\ Expected(o) /\ Revertible

\* Steps that at most answer an operator or a query.
Quiet == UNCHANGED <<registry, pointer, journal, stores, cleaner>>

LEMMA StepKinds ==
    ASSUME [Next]_vars
    PROVE  \/ Quiet
           \/ Promotes
           \/ RollsBack
           \/ \E g \in Generations, b \in Backends : Build(g, b)
           \/ \E g \in Generations : BuildEnds(g)
           \/ \E g \in Generations : Retire(g)
           \/ LoadServingEvidence \/ DeleteGeneration \/ DeleteRetiredGeneration \/ CleanerDies
<1>1. ASSUME NEW o \in Operators, Get(o) \/ Leave(o)
      PROVE  Quiet
  BY <1>1 DEF Get, Leave, Quiet, servingVars
<1>2. ASSUME NEW o \in Operators, NEW g \in Generations, Promote(o, g)
      PROVE  Quiet \/ Promotes
  <2>1. CASE Expected(o) /\ Promotable(g)
    BY <1>2, <2>1 DEF Promotes
  <2>2. CASE ~(Expected(o) /\ Promotable(g))
    BY <1>2, <2>2 DEF Promote, Rejected, Quiet, servingVars
  <2> QED
    BY <2>1, <2>2
<1>3. ASSUME NEW o \in Operators, Rollback(o)
      PROVE  Quiet \/ RollsBack
  <2>1. CASE Expected(o) /\ Revertible
    BY <1>3, <2>1 DEF RollsBack
  <2>2. CASE ~(Expected(o) /\ Revertible)
    BY <1>3, <2>2 DEF Rollback, Rejected, Quiet, servingVars
  <2> QED
    BY <2>1, <2>2
<1>4. ASSUME NEW r \in Requests, Follow(r) \/ Resolve(r)
      PROVE  Quiet
  BY <1>4 DEF Follow, Resolve, Quiet, servingVars
<1>5. CASE UNCHANGED vars
  BY <1>5 DEF vars, Quiet
<1>6. CASE Next
  BY <1>1, <1>2, <1>3, <1>4, <1>6 DEF Next, CleanerStep
<1> QED
  BY <1>5, <1>6

\* A move of the pointer, or the operator who makes it.
LEMMA MovesArePromotions ==
    ASSUME TypeOK, NamedRows, Promotes \/ RollsBack
    PROVE  \E new, oldState : Move(new, oldState)
<1>1. CASE Promotes
  BY <1>1, PromoteIsMove DEF Promotes
<1>2. CASE RollsBack
  BY <1>2, RollbackIsMove DEF RollsBack
<1> QED
  BY <1>1, <1>2

-----------------------------------------------------------------------------
(***************************************************************************)
(* Types.                                                                  *)
(***************************************************************************)

\* The registry and what the cleaner and the builders change.
LEMMA TypeOfRegistry ==
    ASSUME PointerInv, [Next]_vars
    PROVE  /\ registry' \in [Generations -> Row]
           /\ stores' \subseteq Generations
           /\ pointer' \in [gen : Generations, prev : Generations \cup {None}, version : Nat]
           /\ cleaner' \in [pc : {"idle", "physical", "row"}, todo : SUBSET Generations]
<1> USE DEF PointerInv
<1>1. /\ registry \in [Generations -> Row] /\ stores \subseteq Generations
      /\ pointer \in [gen : Generations, prev : Generations \cup {None}, version : Nat]
      /\ cleaner \in [pc : {"idle", "physical", "row"}, todo : SUBSET Generations]
  BY DEF TypeOK
<1>2. CASE Quiet
  BY <1>1, <1>2 DEF Quiet
<1>3. CASE Promotes \/ RollsBack
  <2>1. PICK new, oldState : Move(new, oldState)
    BY <1>3, MovesArePromotions
  <2> QED
    BY <1>1, <2>1, MoveShape DEF Move
<1>4. ASSUME NEW g \in Generations, NEW b \in Backends, Build(g, b)
      PROVE  /\ registry' \in [Generations -> Row]
             /\ UNCHANGED <<pointer, cleaner>> /\ stores' \subseteq Generations
  BY <1>1, <1>4, BuildShape DEF RowStep, Build
<1>5. ASSUME NEW g \in Generations, BuildEnds(g)
      PROVE  registry' \in [Generations -> Row] /\ UNCHANGED <<pointer, cleaner, stores>>
  BY <1>5, BuildEndsShape DEF RowStep, BuildEnds
<1>6. ASSUME NEW g \in Generations, Retire(g)
      PROVE  registry' \in [Generations -> Row] /\ UNCHANGED <<pointer, cleaner, stores>>
  BY <1>6, RetireShape DEF RowStep, Retire
<1>7. CASE LoadServingEvidence
  BY <1>1, <1>7 DEF LoadServingEvidence, SelectGenerationCleanupCandidates, servingVars
<1>8. CASE DeleteGeneration
  BY <1>1, <1>8 DEF DeleteGeneration, servingVars
<1>9. CASE DeleteRetiredGeneration
  <2>1. registry' \in [Generations -> Row]
    BY <1>9, DeletedShape DEF RowStep
  <2> QED
    BY <1>1, <1>9, <2>1 DEF DeleteRetiredGeneration, Resting
<1>10. CASE CleanerDies
  BY <1>1, <1>10 DEF CleanerDies, Resting, servingVars
<1> QED
  BY <1>1, <1>2, <1>3, <1>4, <1>5, <1>6, <1>7, <1>8, <1>9, <1>10, StepKinds

\* The journal grows or has its last state set.
LEMMA TypeOfJournal ==
    ASSUME TypeOK, [Next]_vars
    PROVE  journal' \in Seq(Promotion) /\ Len(journal') >= Len(journal)
<1>1. journal \in Seq(Promotion) /\ Len(journal) \in Nat
  BY LenProperties DEF TypeOK
<1>2. ASSUME NEW o \in Operators, NEW g \in Generations, Promote(o, g)
      PROVE  journal' \in Seq(Promotion) /\ Len(journal') >= Len(journal)
  <2>1. CASE Expected(o) /\ Promotable(g)
    <3> DEFINE e == [from |-> pointer.gen, to |-> g, state |-> "COMMITTED"]
    <3>1. journal' = Append(journal, e)
      BY <1>2, <2>1 DEF Promote
    <3>2. e \in Promotion
      BY DEF Promotion, TypeOK
    <3> HIDE DEF e
    <3> QED
      BY <1>1, <3>1, <3>2, AppendProperties
  <2>2. CASE ~(Expected(o) /\ Promotable(g))
    BY <1>1, <1>2, <2>2 DEF Promote, Rejected, servingVars
  <2> QED
    BY <2>1, <2>2
<1>3. ASSUME NEW o \in Operators, Rollback(o)
      PROVE  journal' \in Seq(Promotion) /\ Len(journal') >= Len(journal)
  <2>1. CASE Expected(o) /\ Revertible
    <3> DEFINE i == operator[o].id
               e == [journal[i] EXCEPT !.state = "ROLLED_BACK"]
    <3>1. journal' = [journal EXCEPT ![i] = e]
      BY <1>3, <2>1 DEF Rollback
    <3>2. CASE i \in 1..Len(journal)
      <4>1. journal[i] \in Promotion
        BY <1>1, <3>2, ElementOfSeq
      <4>2. e \in Promotion
        BY <4>1 DEF Promotion
      <4> HIDE DEF e, i
      <4> QED
        BY <1>1, <3>1, <3>2, <4>2, ExceptSeq
    <3>3. CASE i \notin 1..Len(journal)
      <4>1. journal' = journal
        <5> HIDE DEF e, i
        <5> QED
          BY <1>1, <3>1, <3>3
      <4> QED
        BY <1>1, <4>1
    <3> QED
      BY <3>2, <3>3
  <2>2. CASE ~(Expected(o) /\ Revertible)
    BY <1>1, <1>3, <2>2 DEF Rollback, Rejected, servingVars
  <2> QED
    BY <2>1, <2>2
<1>4. CASE UNCHANGED journal
  BY <1>1, <1>4
<1>5. Quiet => UNCHANGED journal
  BY DEF Quiet
<1>6. Promotes \/ RollsBack \/ UNCHANGED journal
  BY StepKinds, <1>5 DEF Build, BuildEnds, Retire, LoadServingEvidence, DeleteGeneration,
     DeleteRetiredGeneration, CleanerDies, servingVars
<1> QED
  BY <1>2, <1>3, <1>4, <1>6 DEF Promotes, RollsBack

\* What operators, routers and the cache hold.  A step changes the memory of
\* one operator, of one query, or of the cache.

LEMMA RoutableHasStore ==
    ASSUME PointerInv, NEW g \in Generations, RoutableLifecycle(registry[g])
    PROVE  DeriveTarget(g) \in Generations \X Backends
<1>1. registry[g].state # "ABSENT"
  BY DEF RoutableLifecycle
<1> QED
  BY <1>1 DEF PointerInv, RowsHaveStores, DeriveTarget

LEMMA TypeOfRequests ==
    ASSUME PointerInv, [Next]_vars
    PROVE  /\ request' \in [Requests -> [pc : {"new", "pointed"}, version : Nat, gen : Generations]]
           /\ cache' \in [version : Nat, gen : Generations, target : Targets]
<1>1. /\ request \in [Requests -> [pc : {"new", "pointed"}, version : Nat, gen : Generations]]
      /\ cache \in [version : Nat, gen : Generations, target : Targets]
      /\ pointer.gen \in Generations /\ pointer.version \in Nat
  BY DEF PointerInv, TypeOK
<1>2. ASSUME NEW r \in Requests, Follow(r)
      PROVE  /\ request' \in [Requests -> [pc : {"new", "pointed"}, version : Nat, gen : Generations]]
             /\ UNCHANGED cache
  BY <1>1, <1>2 DEF Follow
<1>3. ASSUME NEW r \in Requests, Resolve(r)
      PROVE  /\ request' \in [Requests -> [pc : {"new", "pointed"}, version : Nat, gen : Generations]]
             /\ cache' \in [version : Nat, gen : Generations, target : Targets]
  <2>1. Waiting \in [pc : {"new", "pointed"}, version : Nat, gen : Generations]
    BY ServingAssumption DEF Waiting
  <2>2. request' \in [Requests -> [pc : {"new", "pointed"}, version : Nat, gen : Generations]]
    BY <1>1, <1>3, <2>1 DEF Resolve
  <2> DEFINE g == request[r].gen
             target == IF Known(r) THEN cache.target
                       ELSE IF RoutableLifecycle(registry[g]) THEN DeriveTarget(g) ELSE None
  <2>3. g \in Generations /\ request[r].version \in Nat
    BY <1>1
  <2>4. target \in Targets
    BY <1>1, <2>3, RoutableHasStore DEF Targets
  <2>5. cache' = IF target = None THEN cache
                 ELSE [version |-> request[r].version, gen |-> g, target |-> target]
    BY <1>3 DEF Resolve
  <2>6. cache' \in [version : Nat, gen : Generations, target : Targets]
    <3> HIDE DEF target, g
    <3> QED
      BY <1>1, <2>3, <2>4, <2>5
  <2> QED
    BY <2>2, <2>6
<1>4. ASSUME UNCHANGED <<request, cache>>
      PROVE  UNCHANGED request /\ UNCHANGED cache
  BY <1>4
<1>5. \/ UNCHANGED <<request, cache>>
      \/ \E r \in Requests : Follow(r) \/ Resolve(r)
  BY DEF Next, vars, CleanerStep, Build, BuildEnds, Retire, Get, Leave, Promote, Rollback,
     LoadServingEvidence, DeleteGeneration, DeleteRetiredGeneration, CleanerDies
<1> QED
  BY <1>1, <1>2, <1>3, <1>4, <1>5, Zenon

LEMMA TypeOfOperators ==
    ASSUME TypeOK, [Next]_vars
    PROVE  operator' \in [Operators -> [pc : {"idle", "read", "promoted"}, version : Nat,
                                        gen : Generations, id : 0..Len(journal')]]
<1> DEFINE Known0 == [pc : {"idle", "read", "promoted"}, version : Nat, gen : Generations, id : 0..Len(journal)]
           Known1 == [pc : {"idle", "read", "promoted"}, version : Nat, gen : Generations, id : 0..Len(journal')]
<1>1. /\ operator \in [Operators -> Known0]
      /\ pointer.gen \in Generations /\ pointer.version \in Nat
      /\ Len(journal) \in Nat
  BY LenProperties DEF TypeOK
<1>2. journal' \in Seq(Promotion) /\ Len(journal') \in Nat /\ Len(journal') >= Len(journal)
  BY TypeOfJournal, LenProperties
<1>3. 0..Len(journal) \subseteq 0..Len(journal')
  BY <1>1, <1>2
<1>4. Known0 \subseteq Known1
  BY <1>3
<1>5. operator \in [Operators -> Known1]
  BY <1>1, <1>4
<1>6. Idle \in Known1
  BY <1>2, ServingAssumption DEF Idle
<1>7. ASSUME NEW o \in Operators, NEW answer \in Known1, Answered(o, answer)
      PROVE  operator' \in [Operators -> Known1]
  <2> HIDE DEF Known1
  <2> QED
    BY <1>5, <1>7 DEF Answered
<1>8. ASSUME NEW o \in Operators, Get(o)
      PROVE  operator' \in [Operators -> Known1]
  <2> DEFINE answer == [Idle EXCEPT !.pc = "read", !.version = pointer.version, !.gen = pointer.gen]
  <2>1. answer \in Known1
    BY <1>1, <1>6
  <2>2. Answered(o, answer)
    BY <1>8 DEF Get, Answered
  <2> HIDE DEF answer, Known1
  <2> QED
    BY <1>7, <2>1, <2>2
<1>9. ASSUME NEW o \in Operators, NEW g \in Generations, Promote(o, g)
      PROVE  operator' \in [Operators -> Known1]
  <2>1. CASE Expected(o) /\ Promotable(g)
    <3> DEFINE answer == [pc |-> "promoted", version |-> pointer.version + 1, gen |-> g,
                          id |-> Len(journal) + 1]
    <3>1. journal' = Append(journal, [from |-> pointer.gen, to |-> g, state |-> "COMMITTED"])
      BY <1>9, <2>1 DEF Promote
    <3>2. Len(journal') = Len(journal) + 1
      <4>1. [from |-> pointer.gen, to |-> g, state |-> "COMMITTED"] \in Promotion
        BY <1>1 DEF Promotion
      <4>2. journal \in Seq(Promotion)
        BY DEF TypeOK
      <4> QED
        BY <3>1, <4>1, <4>2, AppendProperties
    <3>3. answer \in Known1
      BY <1>1, <3>2
    <3>4. Answered(o, answer)
      BY <1>9, <2>1 DEF Promote
    <3> HIDE DEF answer, Known1
    <3> QED
      BY <1>7, <3>3, <3>4
  <2>2. CASE ~(Expected(o) /\ Promotable(g))
    BY <1>6, <1>7, <1>9, <2>2 DEF Promote, Rejected
  <2> QED
    BY <2>1, <2>2
<1>10. ASSUME NEW o \in Operators, Rollback(o) \/ Leave(o)
       PROVE  operator' \in [Operators -> Known1]
  <2>1. Answered(o, Idle)
    BY <1>10 DEF Rollback, Leave, Rejected
  <2> HIDE DEF Known1
  <2> QED
    BY <1>6, <1>7, <2>1
<1>11. CASE UNCHANGED operator
  BY <1>5, <1>11
<1>12. \/ UNCHANGED operator
       \/ \E o \in Operators : \/ Get(o) \/ Rollback(o) \/ Leave(o)
                               \/ \E g \in Generations : Promote(o, g)
  BY DEF Next, vars, CleanerStep, Build, BuildEnds, Retire, Follow, Resolve,
     LoadServingEvidence, DeleteGeneration, DeleteRetiredGeneration, CleanerDies
<1> QED
  <2>1. CASE UNCHANGED operator
    BY <1>11, <2>1, Zenon
  <2>2. CASE \E o \in Operators : Get(o) \/ Rollback(o) \/ Leave(o)
    BY <1>8, <1>10, <2>2, Zenon
  <2>3. CASE \E o \in Operators, g \in Generations : Promote(o, g)
    BY <1>9, <2>3, Zenon
  <2> QED
    BY <1>12, <2>1, <2>2, <2>3, Zenon

LEMMA TypeStep ==
    ASSUME PointerInv, [Next]_vars
    PROVE  TypeOK'
<1>1. faults' \in 0..MaxFaults
  <2>1. faults \in 0..MaxFaults /\ MaxFaults \in Nat
    BY ServingAssumption DEF PointerInv, TypeOK
  <2>2. ASSUME NEW g \in Generations, BuildEnds(g)
        PROVE  faults' = faults \/ (faults < MaxFaults /\ faults' = faults + 1)
    BY <2>2 DEF BuildEnds
  <2>3. CleanerDies => faults < MaxFaults /\ faults' = faults + 1
    BY DEF CleanerDies
  <2>4. \/ faults' = faults
        \/ CleanerDies
        \/ \E g \in Generations : BuildEnds(g)
    BY DEF Next, vars, CleanerStep, Build, Retire, Get, Leave, Promote, Rollback, Follow, Resolve,
       LoadServingEvidence, DeleteGeneration, DeleteRetiredGeneration
  <2> QED
    BY <2>1, <2>2, <2>3, <2>4
<1> QED
  BY <1>1, TypeOfRegistry, TypeOfJournal, TypeOfOperators, TypeOfRequests DEF TypeOK, PointerInv

-----------------------------------------------------------------------------
(***************************************************************************)
(* The rows the pointer names, the stores and the stamps.                  *)
(***************************************************************************)

\* No step but a move of the pointer touches a row the pointer names.
LEMMA RowsChangeUnnamed ==
    ASSUME PointerInv, [Next]_vars
    PROVE  \/ Promotes \/ RollsBack
           \/ UNCHANGED <<registry, pointer>>
           \/ UNCHANGED <<pointer, cleaner>> /\ \E g \in Generations : RowStep(g)
           \/ UNCHANGED pointer /\ DeleteRetiredGeneration /\ RowStep(Target)
<1> USE DEF PointerInv
<1>1. ASSUME NEW g \in Generations, NEW b \in Backends, Build(g, b)
      PROVE  UNCHANGED <<pointer, cleaner>> /\ RowStep(g)
  BY <1>1, BuildShape DEF Build
<1>2. ASSUME NEW g \in Generations, BuildEnds(g) \/ Retire(g)
      PROVE  UNCHANGED <<pointer, cleaner>> /\ RowStep(g)
  BY <1>2, BuildEndsShape, RetireShape DEF BuildEnds, Retire
<1>3. CASE DeleteRetiredGeneration
  BY <1>3, DeletedShape DEF DeleteRetiredGeneration
<1>4. Quiet \/ LoadServingEvidence \/ DeleteGeneration \/ CleanerDies => UNCHANGED <<registry, pointer>>
  BY DEF Quiet, LoadServingEvidence, DeleteGeneration, CleanerDies, servingVars
<1> QED
  BY <1>1, <1>2, <1>3, <1>4, StepKinds

LEMMA NamedRowsStep ==
    ASSUME PointerInv, [Next]_vars
    PROVE  NamedRows'
<1>1. pointer.gen \in Generations
  BY DEF PointerInv, TypeOK
<1>2. CASE Promotes \/ RollsBack
  <2>1. PICK new, oldState : Move(new, oldState)
    BY <1>2, MovesArePromotions DEF PointerInv
  <2>2. /\ pointer'.gen = new /\ pointer'.prev = pointer.gen /\ new # pointer.gen
        /\ oldState \in {"RETIRING", "READY"}
    BY <2>1 DEF Move
  <2>3. \A g \in Generations : g # new /\ g # pointer.gen => registry[g].state # "SERVING"
    BY DEF PointerInv, NamedRows
  <2>4. \A g \in Generations :
           /\ registry'[g].state = IF g = new THEN "SERVING"
                                   ELSE IF g = pointer.gen THEN oldState ELSE registry[g].state
           /\ registry'[g].protection = IF g = new THEN "SERVING"
                                        ELSE IF g = pointer.gen THEN "ROLLBACK" ELSE "NONE"
    BY <2>1, MoveShape DEF PointerInv
  <2> QED
    BY <1>1, <2>2, <2>3, <2>4 DEF NamedRows
<1>3. CASE UNCHANGED <<registry, pointer>>
  BY <1>3 DEF PointerInv, NamedRows
<1>4. ASSUME NEW g \in Generations, RowStep(g), UNCHANGED pointer
      PROVE  NamedRows'
  BY <1>4 DEF PointerInv, NamedRows, RowStep, Unnamed
<1> QED
  BY <1>2, <1>3, <1>4, RowsChangeUnnamed, DeletedShape DEF PointerInv

LEMMA RowsHaveStoresStep ==
    ASSUME PointerInv, [Next]_vars
    PROVE  RowsHaveStores'
<1> USE DEF PointerInv
<1>1. CASE Promotes \/ RollsBack
  <2>1. PICK new, oldState : Move(new, oldState)
    BY <1>1, MovesArePromotions
  <2>2. pointer.gen \in Generations /\ registry[pointer.gen].state = "SERVING"
    BY DEF NamedRows, TypeOK
  <2>3. /\ new \in Generations /\ registry[new].state \in {"READY", "RETIRING"}
        /\ stores' = stores
    BY <2>1 DEF Move
  <2>4. \A g \in Generations :
           /\ registry'[g].state = IF g = new THEN "SERVING"
                                   ELSE IF g = pointer.gen THEN oldState ELSE registry[g].state
           /\ registry'[g].backend = registry[g].backend
    BY <2>1, MoveShape
  <2> QED
    BY <2>2, <2>3, <2>4 DEF RowsHaveStores
<1>2. ASSUME NEW g \in Generations, NEW b \in Backends, Build(g, b)
      PROVE  RowsHaveStores'
  <2>1. stores' = stores \cup {g}
    BY <1>2 DEF Build
  <2> QED
    BY <1>2, <2>1, BuildShape DEF RowsHaveStores, RowStep
<1>3. ASSUME NEW g \in Generations, BuildEnds(g)
      PROVE  RowsHaveStores'
  <2>1. stores' = stores
    BY <1>3 DEF BuildEnds
  <2> QED
    BY <1>3, <2>1, BuildEndsShape DEF RowsHaveStores, RowStep
<1>4. ASSUME NEW g \in Generations, Retire(g)
      PROVE  RowsHaveStores'
  <2>1. stores' = stores
    BY <1>4 DEF Retire
  <2> QED
    BY <1>4, <2>1, RetireShape DEF RowsHaveStores, RowStep
<1>5. CASE DeleteGeneration
  <2>1. registry' = registry /\ stores' = stores \ {Target}
    BY <1>5 DEF DeleteGeneration, servingVars
  <2>2. registry[Target].state \in {"RETIRED", "FAILED"}
    BY <1>5, TargetIsChosen DEF DeleteGeneration
  <2> QED
    BY <2>1, <2>2 DEF RowsHaveStores
<1>6. CASE DeleteRetiredGeneration
  <2>1. stores' = stores
    BY <1>6 DEF DeleteRetiredGeneration
  <2>2. registry'[Target].state = "ABSENT"
    BY <1>6, DeletedShape DEF Absent
  <2> QED
    BY <1>6, <2>1, <2>2, DeletedShape DEF RowsHaveStores, RowStep
<1>7. Quiet \/ LoadServingEvidence \/ CleanerDies => UNCHANGED <<registry, stores>>
  BY DEF Quiet, LoadServingEvidence, CleanerDies, servingVars
<1>8. UNCHANGED <<registry, stores>> => RowsHaveStores'
  BY DEF RowsHaveStores
<1> QED
  BY <1>1, <1>2, <1>3, <1>4, <1>5, <1>6, <1>7, <1>8, StepKinds

LEMMA StampsBoundedStep ==
    ASSUME PointerInv, [Next]_vars
    PROVE  StampsBounded'
<1> USE DEF PointerInv
<1>1. PICK b \in Nat : \A g \in Generations : registry[g].created <= b
  BY DEF StampsBounded
<1>2. \A g \in Generations : registry[g].created \in Nat
  BY DEF TypeOK, Row
<1>3. CASE Promotes \/ RollsBack
  <2>1. \A g \in Generations : registry'[g].created = registry[g].created
    BY <1>3, MovesArePromotions, MoveShape
  <2> QED
    BY <1>1, <2>1 DEF StampsBounded
<1>4. ASSUME NEW g \in Generations, NEW k \in Backends, Build(g, k)
      PROVE  StampsBounded'
  <2>1. /\ LastCreated + 1 \in Nat
        /\ \A h \in Generations : registry[h].created <= LastCreated + 1
    BY <1>2, LastCreatedIsLast
  <2>2. \A h \in Generations : registry'[h].created <= LastCreated + 1
    BY <1>4, <2>1, BuildShape DEF RowStep
  <2> QED
    BY <2>1, <2>2 DEF StampsBounded
<1>5. ASSUME NEW g \in Generations, BuildEnds(g) \/ Retire(g)
      PROVE  StampsBounded'
  <2>1. \A h \in Generations : registry'[h].created = registry[h].created
    BY <1>5, BuildEndsShape, RetireShape DEF RowStep
  <2> QED
    BY <1>1, <2>1 DEF StampsBounded
<1>6. CASE DeleteRetiredGeneration
  <2>1. \A h \in Generations : registry'[h].created <= b
    BY <1>1, <1>6, DeletedShape DEF RowStep, Absent
  <2> QED
    BY <1>1, <2>1 DEF StampsBounded
<1>7. Quiet \/ LoadServingEvidence \/ DeleteGeneration \/ CleanerDies => UNCHANGED registry
  BY DEF Quiet, LoadServingEvidence, DeleteGeneration, CleanerDies, servingVars
<1>8. UNCHANGED registry => StampsBounded'
  BY <1>1 DEF StampsBounded
<1> QED
  BY <1>3, <1>4, <1>5, <1>6, <1>7, <1>8, StepKinds

-----------------------------------------------------------------------------
(***************************************************************************)
(* The cleaner's choice.                                                   *)
(***************************************************************************)

\* A failure that is not retained is older than one that is.
LEMMA NewerIsRetained ==
    ASSUME TypeOK, StampsBounded, NEW g \in Failed \ Retained
    PROVE  \E f \in Retained : registry[f].created > registry[g].created
<1> DEFINE stamps == {registry[f].created : f \in Failed}
<1>1. Failed \subseteq Generations
  BY DEF Failed
<1>2. \A f \in Failed : registry[f].created \in Nat
  BY <1>1 DEF TypeOK, Row
<1>3. stamps \in SUBSET Nat /\ stamps # {}
  BY <1>2
<1>4. PICK b \in Nat : \A f \in Generations : registry[f].created <= b
  BY DEF StampsBounded
<1>5. \A k \in stamps : k <= b
  BY <1>1, <1>4
<1>6. PICK n \in stamps : \A k \in stamps : k <= n
  <2> HIDE DEF stamps
  <2> QED
    BY <1>3, <1>5, Largest
<1>7. PICK f \in Failed : registry[f].created = n
  BY <1>6
<1>8. \A h \in Failed : registry[h].created <= registry[f].created
  BY <1>6, <1>7
<1>9. f \in Retained
  BY <1>7, <1>8 DEF Retained
<1>10. PICK h \in Failed : ~(registry[h].created <= registry[g].created)
  BY DEF Retained
<1>11. registry[f].created > registry[g].created
  BY <1>2, <1>7, <1>8, <1>10
<1> QED
  BY <1>9, <1>11

\* Steps that leave the rows of disposable generations alone keep the choice.
LEMMA ChoiceKept ==
    ASSUME TypeOK, ChoiceHolds, cleaner' = cleaner,
           \A g \in Generations : Disposable(g) => registry'[g] = registry[g]
                                                   \/ /\ registry'[g].state = registry[g].state
                                                      /\ registry'[g].created = registry[g].created
    PROVE  ChoiceHolds'
<1>1. cleaner.todo \subseteq Generations
  BY DEF TypeOK
<1>2. \A g \in cleaner.todo : Disposable(g)' /\ registry'[g].state = registry[g].state
                              /\ registry'[g].created = registry[g].created
  BY <1>1 DEF ChoiceHolds, Disposable
<1>3. \A f \in Failed : /\ f \in Failed' /\ registry'[f].created = registry[f].created
  BY DEF Failed, Disposable
<1> QED
  BY <1>2, <1>3 DEF ChoiceHolds

LEMMA ChoiceHoldsStep ==
    ASSUME PointerInv, [Next]_vars
    PROVE  ChoiceHolds'
<1> USE DEF PointerInv
<1>1. CASE Promotes \/ RollsBack
  <2>1. PICK new, oldState : Move(new, oldState)
    BY <1>1, MovesArePromotions
  <2>2. registry[pointer.gen].state = "SERVING"
    BY DEF NamedRows, TypeOK
  <2>3. registry[new].state \in {"READY", "RETIRING"} /\ cleaner' = cleaner
    BY <2>1 DEF Move
  <2>4. \A g \in Generations :
           /\ registry'[g].state = IF g = new THEN "SERVING"
                                   ELSE IF g = pointer.gen THEN oldState ELSE registry[g].state
           /\ registry'[g].created = registry[g].created
    BY <2>1, MoveShape
  <2>5. \A g \in Generations : Disposable(g) =>
           registry'[g].state = registry[g].state /\ registry'[g].created = registry[g].created
    BY <2>2, <2>3, <2>4 DEF Disposable
  <2> QED
    BY <2>3, <2>5, ChoiceKept
<1>2. ASSUME NEW g \in Generations, NEW b \in Backends, Build(g, b)
      PROVE  ChoiceHolds'
  BY <1>2, BuildShape, ChoiceKept DEF RowStep, Disposable, Build
<1>3. ASSUME NEW g \in Generations, BuildEnds(g) \/ Retire(g)
      PROVE  ChoiceHolds'
  <2>1. cleaner' = cleaner
    BY <1>3 DEF BuildEnds, Retire
  <2>2. RowStep(g) /\ registry[g].state \in {"LOADING", "RETIRING"}
    BY <1>3, BuildEndsShape, RetireShape
  <2>3. \A h \in Generations : Disposable(h) => registry'[h] = registry[h]
    BY <2>2 DEF RowStep, Disposable
  <2> QED
    BY <2>1, <2>3, ChoiceKept
<1>4. CASE LoadServingEvidence
  <2> DEFINE chosen == SelectGenerationCleanupCandidates
  <2>1. /\ cleaner' = [pc |-> "physical", todo |-> chosen] /\ chosen # {}
        /\ registry' = registry
    BY <1>4 DEF LoadServingEvidence, servingVars
  <2>2. \A g \in chosen : Disposable(g) /\ g \notin Retained /\ g \in Generations
    BY DEF SelectGenerationCleanupCandidates
  <2>3. \A f \in Retained : f \notin chosen /\ f \in Failed
    BY DEF SelectGenerationCleanupCandidates, Retained
  <2>4. \A g \in chosen : registry[g].state = "FAILED" => g \in Failed \ Retained
    BY <2>2 DEF Failed
  <2>5. \A g \in chosen : registry[g].state = "FAILED" =>
           \E f \in Failed \ chosen : registry[f].created > registry[g].created
    BY <2>3, <2>4, NewerIsRetained
  <2>6. Failed' = Failed /\ cleaner'.todo = chosen /\ cleaner'.pc = "physical"
    BY <2>1 DEF Failed
  <2> HIDE DEF chosen
  <2> QED
    BY <2>1, <2>2, <2>5, <2>6 DEF ChoiceHolds, Disposable
<1>5. CASE DeleteGeneration
  <2>1. registry' = registry /\ cleaner' = [cleaner EXCEPT !.pc = "row"] /\ cleaner.pc = "physical"
    BY <1>5 DEF DeleteGeneration, servingVars
  <2>2. cleaner'.todo = cleaner.todo /\ cleaner'.pc = "row"
    BY <2>1 DEF TypeOK
  <2>3. Failed' = Failed
    BY <2>1 DEF Failed
  <2> QED
    BY <2>1, <2>2, <2>3 DEF ChoiceHolds, Disposable
<1>6. CASE DeleteRetiredGeneration
  <2>1. /\ cleaner'.todo = cleaner.todo \ {Target}
        /\ cleaner'.pc = "idle" <=> cleaner'.todo = {}
    BY <1>6 DEF DeleteRetiredGeneration, Resting
  <2>2. /\ Target \in cleaner.todo /\ cleaner.todo \subseteq Generations
        /\ \A g \in Generations \ {Target} : registry'[g] = registry[g]
    BY <1>6, TargetIsChosen, DeletedShape DEF DeleteRetiredGeneration, RowStep, TypeOK
  <2>3. \A f \in Failed \ cleaner.todo : f \in Failed' \ cleaner'.todo /\ registry'[f] = registry[f]
    BY <2>1, <2>2 DEF Failed
  <2> QED
    BY <2>1, <2>2, <2>3 DEF ChoiceHolds, Disposable
<1>7. CASE CleanerDies
  <2>1. cleaner'.pc = "idle" /\ cleaner'.todo = {}
    BY <1>7 DEF CleanerDies, Resting
  <2> QED
    BY <2>1 DEF ChoiceHolds
<1>8. CASE Quiet
  BY <1>8, ChoiceKept DEF Quiet
<1> QED
  BY <1>1, <1>2, <1>3, <1>4, <1>5, <1>6, <1>7, <1>8, StepKinds

\* What cleanup takes is what its choice and the pointer say.
LEMMA CleanupStep ==
    ASSUME PointerInv, [Next]_vars
    PROVE  SparesTheLiving
<1> USE DEF PointerInv, SparesTheLiving
<1>1. CASE DeleteGeneration
  <2>1. stores' = stores \ {Target} /\ registry' = registry
    BY <1>1 DEF DeleteGeneration, servingVars
  <2>2. registry[Target].state \in {"RETIRED", "FAILED"} /\ Target \in Generations
    BY <1>1, TargetIsChosen DEF DeleteGeneration, TypeOK
  <2>3. Target \notin {pointer.gen, pointer.prev}
    BY <2>2 DEF NamedRows
  <2> QED
    BY <2>1, <2>2, <2>3 DEF Failed
<1>2. CASE DeleteRetiredGeneration
  <2>1. stores' = stores
    BY <1>2 DEF DeleteRetiredGeneration
  <2>2. Target \in cleaner.todo /\ \A g \in Generations \ {Target} : registry'[g] = registry[g]
    BY <1>2, TargetIsChosen, DeletedShape DEF DeleteRetiredGeneration, RowStep
  <2>3. ASSUME NEW g \in Failed, registry'[g].state = "ABSENT"
        PROVE  \E f \in Failed : /\ registry[f].created > registry[g].created
                                 /\ registry'[f].state = "FAILED"
    <3>1. g = Target
      BY <2>2, <2>3 DEF Failed
    <3>2. PICK f \in Failed \ cleaner.todo : registry[f].created > registry[g].created
      BY <2>2, <3>1 DEF ChoiceHolds, Failed
    <3>3. registry'[f].state = "FAILED"
      BY <2>2, <3>2 DEF Failed
    <3> QED
      BY <3>2, <3>3
  <2> QED
    BY <2>1, <2>3
<1>3. ASSUME NEW g \in Generations, NEW b \in Backends, Build(g, b)
      PROVE  stores \subseteq stores' /\ \A h \in Failed : registry'[h].state # "ABSENT"
  <2>1. stores' = stores \cup {g}
    BY <1>3 DEF Build
  <2> QED
    BY <1>3, <2>1, BuildShape DEF RowStep, Failed
<1>4. ASSUME NEW g \in Generations, BuildEnds(g) \/ Retire(g)
      PROVE  stores' = stores /\ \A h \in Failed : registry'[h].state # "ABSENT"
  <2>1. stores' = stores
    BY <1>4 DEF BuildEnds, Retire
  <2> QED
    BY <1>4, <2>1, BuildEndsShape, RetireShape DEF RowStep, Failed
<1>5. CASE Promotes \/ RollsBack
  <2>1. PICK new, oldState : Move(new, oldState)
    BY <1>5, MovesArePromotions
  <2>2. stores' = stores /\ oldState # "ABSENT"
    BY <2>1 DEF Move
  <2>3. \A g \in Generations :
           registry'[g].state = IF g = new THEN "SERVING"
                                ELSE IF g = pointer.gen THEN oldState ELSE registry[g].state
    BY <2>1, MoveShape
  <2> QED
    BY <2>2, <2>3 DEF Failed
<1>6. Quiet \/ LoadServingEvidence \/ CleanerDies => UNCHANGED <<registry, stores>>
  BY DEF Quiet, LoadServingEvidence, CleanerDies, servingVars
<1>7. UNCHANGED <<registry, stores>> => stores' = stores /\ \A h \in Failed : registry'[h].state # "ABSENT"
  BY DEF Failed
<1> QED
  BY <1>1, <1>2, <1>3, <1>4, <1>5, <1>6, <1>7, StepKinds

-----------------------------------------------------------------------------
(***************************************************************************)
(* What operators, routers and the cache remember.                         *)
(***************************************************************************)

\* The row of the serving generation changes by moves only, and by a move the
\* version grows.
LEMMA VersionGrows ==
    ASSUME PointerInv, [Next]_vars
    PROVE  /\ pointer.version \in Nat /\ pointer.gen \in Generations
           /\ \/ UNCHANGED pointer /\ registry'[pointer.gen] = registry[pointer.gen]
              \/ /\ pointer'.version = pointer.version + 1
                 /\ UNCHANGED <<request, cache>>
<1>1. pointer.version \in Nat /\ pointer.gen \in Generations
  BY DEF PointerInv, TypeOK
<1>2. CASE Promotes \/ RollsBack
  BY <1>1, <1>2, MovesArePromotions DEF PointerInv, Move
<1>3. ASSUME NEW g \in Generations, RowStep(g)
      PROVE  registry'[pointer.gen] = registry[pointer.gen]
  BY <1>1, <1>3 DEF RowStep
<1>4. DeleteRetiredGeneration => Target \in Generations
  BY DeletedShape DEF PointerInv
<1> QED
  BY <1>1, <1>2, <1>3, <1>4, RowsChangeUnnamed

LEMMA OperatorsRemember ==
    ASSUME PointerInv, [Next]_vars
    PROVE  \A o \in Operators : operator'[o].version <= pointer'.version
<1>1. /\ \A o \in Operators : operator[o].version \in Nat /\ operator[o].version <= pointer.version
      /\ DOMAIN operator = Operators
      /\ pointer.version \in Nat /\ pointer'.version \in Nat /\ pointer'.version >= pointer.version
  BY VersionGrows DEF PointerInv, Remembered, TypeOK
<1>2. ASSUME NEW o \in Operators, NEW answer, Answered(o, answer),
             answer.version \in Nat, answer.version <= pointer'.version
      PROVE  \A p \in Operators : operator'[p].version <= pointer'.version
  <2>1. \A p \in Operators : operator'[p] = IF p = o THEN answer ELSE operator[p]
    BY <1>1, <1>2 DEF Answered
  <2> QED
    BY <1>1, <1>2, <2>1
<1>3. Idle.version = 0
  BY DEF Idle
<1>4. ASSUME NEW o \in Operators, Get(o)
      PROVE  \A p \in Operators : operator'[p].version <= pointer'.version
  <2> DEFINE answer == [Idle EXCEPT !.pc = "read", !.version = pointer.version, !.gen = pointer.gen]
  <2>1. answer.version = pointer.version
    BY DEF Idle
  <2>2. Answered(o, answer)
    BY <1>4 DEF Get, Answered
  <2> HIDE DEF answer
  <2> QED
    BY <1>1, <1>2, <2>1, <2>2
<1>5. ASSUME NEW o \in Operators, NEW g \in Generations, Promote(o, g)
      PROVE  \A p \in Operators : operator'[p].version <= pointer'.version
  <2>1. CASE Expected(o) /\ Promotable(g)
    <3> DEFINE answer == [pc |-> "promoted", version |-> pointer.version + 1, gen |-> g,
                          id |-> Len(journal) + 1]
    <3>1. Answered(o, answer) /\ pointer'.version = pointer.version + 1
      BY <1>5, <2>1 DEF Promote
    <3>2. answer.version = pointer.version + 1
      OBVIOUS
    <3> HIDE DEF answer
    <3> QED
      BY <1>1, <1>2, <3>1, <3>2
  <2>2. CASE ~(Expected(o) /\ Promotable(g))
    BY <1>1, <1>2, <1>3, <1>5, <2>2 DEF Promote, Rejected
  <2> QED
    BY <2>1, <2>2
<1>6. ASSUME NEW o \in Operators, Rollback(o) \/ Leave(o)
      PROVE  \A p \in Operators : operator'[p].version <= pointer'.version
  <2>1. Answered(o, Idle)
    BY <1>6 DEF Rollback, Leave, Rejected
  <2> QED
    BY <1>1, <1>2, <1>3, <2>1
<1>7. UNCHANGED operator => \A p \in Operators : operator'[p].version <= pointer'.version
  BY <1>1
<1>8. \/ UNCHANGED operator
      \/ \E o \in Operators : Get(o) \/ Rollback(o) \/ Leave(o)
      \/ \E o \in Operators, g \in Generations : Promote(o, g)
  BY DEF Next, vars, CleanerStep, Build, BuildEnds, Retire, Follow, Resolve,
     LoadServingEvidence, DeleteGeneration, DeleteRetiredGeneration, CleanerDies
<1> QED
  BY <1>4, <1>5, <1>6, <1>7, <1>8

\* Queries and cache, while the pointer stands still and when it moves.
LEMMA RoutersRemember ==
    ASSUME PointerInv, [Next]_vars
    PROVE  Remembered'
<1> USE DEF PointerInv
<1>1. /\ request \in [Requests -> [pc : {"new", "pointed"}, version : Nat, gen : Generations]]
      /\ cache \in [version : Nat, gen : Generations, target : Targets]
      /\ pointer.version \in Nat /\ pointer.version >= 1 /\ pointer.gen \in Generations
  BY DEF TypeOK, Remembered
<1>2. \A o \in Operators : operator'[o].version <= pointer'.version
  BY OperatorsRemember
<1>3. CASE pointer'.version = pointer.version + 1 /\ UNCHANGED <<request, cache>>
  BY <1>1, <1>2, <1>3 DEF Remembered
<1>4. CASE UNCHANGED pointer /\ registry'[pointer.gen] = registry[pointer.gen]
  <2>1. DeriveTarget(pointer.gen)' = DeriveTarget(pointer.gen)
    BY <1>4 DEF DeriveTarget
  <2>2. ASSUME NEW r \in Requests, Follow(r)
        PROVE  Remembered'
    <3>1. /\ cache' = cache
          /\ \A q \in Requests : request'[q] =
                IF q = r THEN [pc |-> "pointed", version |-> pointer.version, gen |-> pointer.gen]
                ELSE request[q]
      BY <1>1, <2>2 DEF Follow
    <3> QED
      BY <1>1, <1>2, <1>4, <2>1, <3>1 DEF Remembered
  <2>3. ASSUME NEW r \in Requests, Resolve(r)
        PROVE  Remembered'
    <3> DEFINE target == IF Known(r) THEN cache.target
                         ELSE IF RoutableLifecycle(registry[request[r].gen])
                              THEN DeriveTarget(request[r].gen) ELSE None
    <3>1. /\ \A q \in Requests : request'[q] = IF q = r THEN Waiting ELSE request[q]
          /\ cache' = IF target = None THEN cache
                      ELSE [version |-> request[r].version, gen |-> request[r].gen, target |-> target]
      BY <1>1, <2>3 DEF Resolve
    <3>2. /\ Waiting.version = 0 /\ Waiting.pc = "new"
      BY DEF Waiting
    <3>3. \A q \in Requests :
            /\ request'[q].version <= pointer.version
            /\ request'[q].pc = "pointed" /\ request'[q].version = pointer.version
                  => request'[q].gen = pointer.gen
      BY <1>1, <3>1, <3>2 DEF Remembered
    <3>4. /\ request[r].version \in Nat /\ request[r].version <= pointer.version
          /\ request[r].version = pointer.version => request[r].gen = pointer.gen
      BY <1>1, <2>3 DEF Resolve, Remembered
    <3>5. target # None /\ request[r].version = pointer.version => target = DeriveTarget(pointer.gen)
      BY <3>4 DEF Known, Remembered
    <3>6. /\ cache'.version <= pointer.version
          /\ cache'.version = pointer.version =>
                cache'.gen = pointer.gen /\ cache'.target = DeriveTarget(pointer.gen)
      <4> HIDE DEF target
      <4>1. CASE target = None
        BY <3>1, <4>1 DEF Remembered
      <4>2. CASE target # None
        <5>1. /\ cache'.version = request[r].version /\ cache'.gen = request[r].gen
              /\ cache'.target = target
          BY <3>1, <4>2
        <5> QED
          BY <3>4, <3>5, <4>2, <5>1
      <4> QED
        BY <4>1, <4>2
    <3> QED
      BY <1>1, <1>2, <1>4, <2>1, <3>3, <3>6 DEF Remembered
  <2>4. CASE UNCHANGED <<request, cache>>
    BY <1>2, <1>4, <2>1, <2>4 DEF Remembered
  <2>5. \/ UNCHANGED <<request, cache>>
        \/ \E r \in Requests : Follow(r) \/ Resolve(r)
    BY DEF Next, vars, CleanerStep, Build, BuildEnds, Retire, Get, Leave, Promote, Rollback,
       LoadServingEvidence, DeleteGeneration, DeleteRetiredGeneration, CleanerDies
  <2> QED
    BY <2>2, <2>3, <2>4, <2>5
<1> QED
  BY <1>3, <1>4, VersionGrows

-----------------------------------------------------------------------------
(***************************************************************************)
(* The journal.                                                            *)
(***************************************************************************)

\* Only the first n promotions count for what they explain.
LEMMA ExplainsDependsOn ==
    ASSUME NEW n, NEW g, Explains(n, g), \A i \in 1..n : journal'[i] = journal[i]
    PROVE  Explains(n, g)'
BY DEF Explains

\* What a promotion does to the journal and to the operator.
LEMMA PromoteShape ==
    ASSUME TypeOK, NEW o \in Operators, NEW g \in Generations, Promote(o, g),
           Expected(o) /\ Promotable(g)
    PROVE  /\ Len(journal) \in Nat /\ Len(journal') = Len(journal) + 1
           /\ \A i \in 1..Len(journal) : journal'[i] = journal[i]
           /\ journal'[Len(journal) + 1].from = pointer.gen
           /\ journal'[Len(journal) + 1].to = g
           /\ journal'[Len(journal) + 1].state = "COMMITTED"
           /\ operator'[o].id = Len(journal) + 1
           /\ \A p \in Operators \ {o} : operator'[p] = operator[p]
           /\ pointer' = [gen |-> g, prev |-> pointer.gen, version |-> pointer.version + 1]
<1> DEFINE e == [from |-> pointer.gen, to |-> g, state |-> "COMMITTED"]
<1>1. journal \in Seq(Promotion) /\ e \in Promotion /\ Len(journal) \in Nat
  BY LenProperties DEF TypeOK, Promotion
<1>2. journal' = Append(journal, e)
  BY DEF Promote
<1>3. /\ Len(journal') = Len(journal) + 1
      /\ \A i \in 1..Len(journal) : journal'[i] = journal[i]
      /\ journal'[Len(journal) + 1] = e
  <2> HIDE DEF e
  <2> QED
    BY <1>1, <1>2, AppendProperties
<1>4. /\ operator'[o].id = Len(journal) + 1
      /\ \A p \in Operators \ {o} : operator'[p] = operator[p]
  BY DEF Promote, Answered, TypeOK
<1>5. pointer' = [gen |-> g, prev |-> pointer.gen, version |-> pointer.version + 1]
  BY DEF Promote
<1> QED
  BY <1>1, <1>3, <1>4, <1>5

\* A rollback that is accepted undoes the last promotion of the journal.
LEMMA RollbackShape ==
    ASSUME TypeOK, LatestIsLast, NEW o \in Operators, Rollback(o), Expected(o) /\ Revertible
    PROVE  /\ Len(journal) \in Nat \ {0} /\ Len(journal') = Len(journal)
           /\ \A i \in 1..(Len(journal) - 1) : journal'[i] = journal[i]
           /\ journal'[Len(journal)].from = journal[Len(journal)].from
           /\ journal'[Len(journal)].state = "ROLLED_BACK"
           /\ journal[Len(journal)].from = pointer.prev
           /\ pointer'.gen = pointer.prev
           /\ pointer'.version = pointer.version + 1
           /\ operator'[o].pc = "idle"
           /\ \A p \in Operators \ {o} : operator'[p] = operator[p]
<1>1. Latest(o)
  BY DEF Rollback, Expected, Latest
<1>2. /\ operator[o].id = Len(journal) /\ Len(journal) >= 1
      /\ journal[Len(journal)].from = pointer.prev
  BY <1>1 DEF LatestIsLast
<1>3. journal \in Seq(Promotion) /\ Len(journal) \in Nat
  BY LenProperties DEF TypeOK
<1> DEFINE n == Len(journal)
           e == [journal[n] EXCEPT !.state = "ROLLED_BACK"]
<1>4. journal' = [journal EXCEPT ![n] = e]
  BY <1>2 DEF Rollback
<1>5. n \in 1..Len(journal) /\ n \in Nat
  BY <1>2, <1>3
<1>6. journal[n] \in Promotion
  BY <1>3, <1>5, ElementOfSeq
<1>7. e \in Promotion /\ e.from = journal[n].from /\ e.state = "ROLLED_BACK"
  BY <1>6 DEF Promotion
<1>8. /\ Len(journal') = n
      /\ \A i \in 1..n : journal'[i] = IF i = n THEN e ELSE journal[i]
  <2>1. n = Len(journal)
    OBVIOUS
  <2> HIDE DEF e, n
  <2> QED
    BY <1>3, <1>4, <1>5, <1>7, <2>1, ExceptSeq
<1>9. /\ operator'[o] = Idle
      /\ \A p \in Operators \ {o} : operator'[p] = operator[p]
  BY DEF Rollback, Answered, TypeOK
<1>10. pointer'.gen = pointer.prev /\ pointer'.version = pointer.version + 1
  BY DEF Rollback
<1>11. journal'[n] = e /\ \A i \in 1..(n - 1) : journal'[i] = journal[i]
  <2> HIDE DEF e
  <2> QED
    BY <1>5, <1>8
<1> QED
  BY <1>2, <1>5, <1>7, <1>8, <1>9, <1>10, <1>11 DEF Idle

LEMMA JournalChainStep ==
    ASSUME PointerInv, [Next]_vars
    PROVE  JournalChain'
<1> USE DEF PointerInv
<1> DEFINE n == Len(journal)
<1>1. ASSUME NEW o \in Operators, NEW g \in Generations, Promote(o, g), Expected(o) /\ Promotable(g)
      PROVE  JournalChain'
  <2>1. /\ n \in Nat /\ Len(journal') = n + 1
        /\ \A i \in 1..n : journal'[i] = journal[i]
        /\ journal'[n + 1].from = pointer.gen /\ journal'[n + 1].to = g
        /\ journal'[n + 1].state = "COMMITTED" /\ pointer'.gen = g
    BY <1>1, PromoteShape
  <2>2. Explains(Len(journal), pointer.gen)'
    <3>1. n + 1 \in 1..(n + 1) /\ \A i \in 1..(n + 1) : i <= n + 1
      BY <2>1
    <3> QED
      BY <2>1, <3>1 DEF Explains
  <2>3. ASSUME NEW m \in 1..(n + 1)
        PROVE  Explains(m - 1, journal[m].from)'
    <3>1. PICK f : f = IF m = n + 1 THEN pointer.gen ELSE journal[m].from
      OBVIOUS
    <3>2. journal'[m].from = f
      BY <2>1, <3>1
    <3>3. Explains(m - 1, f)
      BY <2>1, <3>1 DEF JournalChain
    <3>4. Explains(m - 1, f)'
      <4>1. \A i \in 1..(m - 1) : journal'[i] = journal[i]
        BY <2>1
      <4> QED
        BY <3>3, <4>1, ExplainsDependsOn
    <3> QED
      BY <3>2, <3>4 DEF Explains
  <2> QED
    BY <2>1, <2>2, <2>3 DEF JournalChain
<1>2. ASSUME NEW o \in Operators, Rollback(o), Expected(o) /\ Revertible
      PROVE  JournalChain'
  <2>1. /\ n \in Nat \ {0} /\ Len(journal') = n
        /\ \A i \in 1..(n - 1) : journal'[i] = journal[i]
        /\ journal'[n].from = journal[n].from /\ journal'[n].state = "ROLLED_BACK"
        /\ journal[n].from = pointer.prev /\ pointer'.gen = pointer.prev
    BY <1>2, RollbackShape
  <2>2. ASSUME NEW m \in 1..n
        PROVE  Explains(m - 1, journal[m].from)'
    <3>1. PICK f : f = journal[m].from
      OBVIOUS
    <3>2. journal'[m].from = f
      BY <2>1, <3>1
    <3>3. Explains(m - 1, f)
      BY <3>1 DEF JournalChain
    <3>4. Explains(m - 1, f)'
      <4>1. \A i \in 1..(m - 1) : journal'[i] = journal[i]
        BY <2>1
      <4> QED
        BY <3>3, <4>1, ExplainsDependsOn
    <3> QED
      BY <3>2, <3>4 DEF Explains
  <2>3. Explains(n - 1, pointer.gen)'
    <3>1. Explains(n - 1, journal[n].from)'
      BY <2>1, <2>2
    <3> QED
      BY <2>1, <3>1 DEF Explains
  <2>4. Explains(n, pointer.gen)'
    <3>1. \A i \in 1..n : i \in 1..(n - 1) \/ i = n
      BY <2>1
    <3>2. \A i \in 1..(n - 1) : i \in 1..n
      BY <2>1
    <3> QED
      BY <2>1, <2>3, <3>1, <3>2 DEF Explains
  <2> QED
    BY <2>1, <2>2, <2>4 DEF JournalChain
<1>3. CASE UNCHANGED <<journal, pointer>>
  BY <1>3 DEF JournalChain, Explains
<1>4. Promotes \/ RollsBack \/ UNCHANGED <<journal, pointer>>
  BY StepKinds DEF Quiet, Build, BuildEnds, Retire, LoadServingEvidence, DeleteGeneration,
     DeleteRetiredGeneration, CleanerDies, servingVars
<1> QED
  BY <1>1, <1>2, <1>3, <1>4 DEF Promotes, RollsBack

LEMMA LatestIsLastStep ==
    ASSUME PointerInv, [Next]_vars
    PROVE  LatestIsLast'
<1> USE DEF PointerInv
<1>1. /\ pointer.version \in Nat /\ pointer.gen \in Generations
      /\ \A p \in Operators : operator[p].version \in Nat /\ operator[p].version <= pointer.version
  BY DEF TypeOK, Remembered
<1>2. ASSUME NEW o \in Operators, NEW g \in Generations, Promote(o, g), Expected(o) /\ Promotable(g)
      PROVE  LatestIsLast'
  <2>1. Move(g, "RETIRING")
    BY <1>2, PromoteIsMove
  <2>2. registry'[pointer.gen].state = "RETIRING"
    BY <1>1, <2>1, MoveShape DEF Move
  <2>3. /\ Len(journal) \in Nat /\ Len(journal') = Len(journal) + 1
        /\ journal'[Len(journal) + 1].from = pointer.gen
        /\ operator'[o].id = Len(journal) + 1
        /\ \A p \in Operators \ {o} : operator'[p] = operator[p]
        /\ pointer'.prev = pointer.gen /\ pointer'.version = pointer.version + 1
    BY <1>2, PromoteShape
  <2>4. \A p \in Operators \ {o} : ~Latest(p)'
    BY <1>1, <2>3 DEF Latest
  <2> QED
    BY <1>1, <2>2, <2>3, <2>4 DEF LatestIsLast
<1>3. ASSUME NEW o \in Operators, Rollback(o), Expected(o) /\ Revertible
      PROVE  LatestIsLast'
  <2>1. /\ operator'[o].pc = "idle" /\ pointer'.version = pointer.version + 1
        /\ \A p \in Operators \ {o} : operator'[p] = operator[p]
    BY <1>3, RollbackShape
  <2>2. \A p \in Operators : ~Latest(p)'
    BY <1>1, <2>1 DEF Latest
  <2> QED
    BY <2>2 DEF LatestIsLast
<1>4. Promotes \/ RollsBack \/ UNCHANGED <<journal, pointer>>
  BY StepKinds DEF Quiet, Build, BuildEnds, Retire, LoadServingEvidence, DeleteGeneration,
     DeleteRetiredGeneration, CleanerDies, servingVars
<1>5. CASE ~Promotes /\ ~RollsBack
  <2>1. UNCHANGED <<journal, pointer>>
    BY <1>4, <1>5
  <2>2. pointer.prev \in Generations => registry'[pointer.prev] = registry[pointer.prev]
    <3>1. ASSUME NEW g \in Generations, RowStep(g), pointer.prev \in Generations
          PROVE  registry'[pointer.prev] = registry[pointer.prev]
      BY <3>1 DEF RowStep
    <3>2. DeleteRetiredGeneration => Target \in Generations
      BY DeletedShape
    <3> QED
      BY <1>5, <3>1, <3>2, RowsChangeUnnamed
  <2>3. \A p \in Operators : operator'[p] = operator[p] \/ operator'[p].pc # "promoted"
    <3>1. ASSUME NEW o \in Operators, Get(o)
          PROVE  \A p \in Operators : operator'[p] = operator[p] \/ operator'[p].pc # "promoted"
      BY <3>1 DEF Get, TypeOK, Idle
    <3>2. ASSUME NEW o \in Operators,
                 \/ Rollback(o) /\ ~(Expected(o) /\ Revertible)
                 \/ Leave(o)
                 \/ \E g \in Generations : Promote(o, g) /\ ~(Expected(o) /\ Promotable(g))
          PROVE  \A p \in Operators : operator'[p] = operator[p] \/ operator'[p].pc # "promoted"
      <4>1. Answered(o, Idle)
        BY <3>2 DEF Rollback, Leave, Promote, Rejected
      <4> QED
        BY <4>1 DEF Answered, TypeOK, Idle
    <3>3. \/ UNCHANGED operator
          \/ \E o \in Operators : Get(o) \/ Rollback(o) \/ Leave(o)
          \/ \E o \in Operators, g \in Generations : Promote(o, g)
      BY DEF Next, vars, CleanerStep, Build, BuildEnds, Retire, Follow, Resolve,
         LoadServingEvidence, DeleteGeneration, DeleteRetiredGeneration, CleanerDies
    <3> QED
      BY <1>5, <3>1, <3>2, <3>3 DEF Promotes, RollsBack
  <2>4. \A p \in Operators : Latest(p)' => Latest(p) /\ operator'[p] = operator[p]
    BY <2>1, <2>3 DEF Latest
  <2> QED
    BY <2>1, <2>2, <2>4 DEF LatestIsLast
<1> QED
  BY <1>2, <1>3, <1>5 DEF Promotes, RollsBack

-----------------------------------------------------------------------------
(***************************************************************************)
(* The theorems.                                                           *)
(***************************************************************************)

LEMMA PointerInit == Init => PointerInv
<1> SUFFICES ASSUME Init PROVE PointerInv
  OBVIOUS
<1>1. \A g \in Generations :
        registry[g] = IF g = First
                      THEN [state |-> "SERVING", protection |-> "SERVING", backend |-> FirstBackend,
                            created |-> 1]
                      ELSE [state |-> "ABSENT", protection |-> "NONE", backend |-> None, created |-> 0]
  BY DEF Init, Absent
<1>2. registry \in [Generations -> Row]
  <2>1. \A g \in Generations : registry[g] \in Row
    BY <1>1, ServingAssumption DEF Row, States
  <2>2. registry = [g \in Generations |-> registry[g]]
    BY DEF Init
  <2> QED
    BY <2>1, <2>2
<1>3. journal = << >> /\ journal \in Seq(Promotion) /\ Len(journal) = 0
  BY EmptySeq DEF Init
<1>4. TypeOK
  <2>1. /\ stores \subseteq Generations
        /\ pointer \in [gen : Generations, prev : Generations \cup {None}, version : Nat]
        /\ faults \in 0..MaxFaults
    BY ServingAssumption DEF Init
  <2>2. operator \in [Operators -> [pc : {"idle", "read", "promoted"}, version : Nat,
                                    gen : Generations, id : 0..Len(journal)]]
    BY <1>3, ServingAssumption DEF Init, Idle
  <2>3. /\ request \in [Requests -> [pc : {"new", "pointed"}, version : Nat, gen : Generations]]
        /\ cache \in [version : Nat, gen : Generations, target : Targets]
    BY ServingAssumption DEF Init, Waiting, Targets
  <2>4. cleaner \in [pc : {"idle", "physical", "row"}, todo : SUBSET Generations]
    BY DEF Init, Resting
  <2> QED
    BY <1>2, <1>3, <2>1, <2>2, <2>3, <2>4 DEF TypeOK
<1>5. NamedRows /\ RowsHaveStores
  BY <1>1, ServingAssumption DEF Init, NamedRows, RowsHaveStores
<1>6. ChoiceHolds
  BY DEF Init, Resting, ChoiceHolds
<1>7. Remembered
  BY DEF Init, Idle, Waiting, Remembered
<1>8. LatestIsLast
  BY DEF Init, Idle, Latest, LatestIsLast
<1>9. JournalChain
  BY <1>3 DEF Init, JournalChain, Explains
<1>10. StampsBounded
  <2>1. \A g \in Generations : registry[g].created <= 1
    BY <1>1
  <2> QED
    BY <2>1 DEF StampsBounded
<1> QED
  BY <1>4, <1>5, <1>6, <1>7, <1>8, <1>9, <1>10 DEF PointerInv

\* The invariant the properties below follow from.
THEOREM PointerInvHolds == Spec => []PointerInv
<1>1. PointerInv /\ [Next]_vars => PointerInv'
  BY TypeStep, NamedRowsStep, RowsHaveStoresStep, ChoiceHoldsStep, RoutersRemember,
     LatestIsLastStep, JournalChainStep, StampsBoundedStep DEF PointerInv
<1> QED
  BY <1>1, PointerInit, PTL DEF Spec

\* Type correctness.
THEOREM PointerTypes == Spec => []TypeOK
<1>1. PointerInv => TypeOK
  BY DEF PointerInv
<1> QED
  BY <1>1, PointerInvHolds, PTL

\* promote and rollback clear every protection and set two; no other step
\* touches a row the pointer names.
THEOREM ProtectionAlwaysFollows == Spec => []ProtectionFollowsPointer
<1>1. PointerInv => ProtectionFollowsPointer
  <2> SUFFICES ASSUME PointerInv PROVE ProtectionFollowsPointer
    OBVIOUS
  <2>1. pointer.gen \in Generations /\ registry[pointer.gen].state = "SERVING"
    BY DEF PointerInv, TypeOK, NamedRows
  <2>2. pointer.gen \in Existing /\ pointer.gen \in stores
    BY <2>1 DEF PointerInv, RowsHaveStores, Existing
  <2>3. Serving = {pointer.gen}
    BY <2>1 DEF PointerInv, NamedRows, Serving
  <2>4. Reconcile \in {"CONSISTENT", "CONSISTENT_WITH_READY_CANDIDATE"}
    BY <2>2, <2>3 DEF Reconcile
  <2> QED
    BY <2>4 DEF PointerInv, NamedRows, ProtectionFollowsPointer
<1> QED
  BY <1>1, PointerInvHolds, PTL

\* Each promotion started from what the ones before it explain, and only the
\* last promotion is ever rolled back.
THEOREM JournalAlwaysExplains == Spec => []JournalExplainsPointer
<1>1. PointerInv => JournalExplainsPointer
  <2> SUFFICES ASSUME PointerInv PROVE JournalExplainsPointer
    OBVIOUS
  <2>1. Explains(Len(journal), pointer.gen)
    BY DEF PointerInv, JournalChain
  <2>2. Len(journal) \in Nat
    BY LenProperties DEF PointerInv, TypeOK
  <2>3. CASE pointer.gen = First /\ \A i \in 1..Len(journal) : journal[i].state # "COMMITTED"
    <3>1. Effective = {}
      BY <2>3 DEF Effective
    <3> QED
      BY <2>3, <3>1 DEF JournalExplainsPointer
  <2>4. ASSUME NEW i \in 1..Len(journal), journal[i].state = "COMMITTED", journal[i].to = pointer.gen,
               \A j \in 1..Len(journal) : journal[j].state = "COMMITTED" => j <= i
        PROVE  JournalExplainsPointer
    <3>1. i \in Effective /\ (\A j \in Effective : j <= i) /\ Effective \subseteq Nat
      BY <2>2, <2>4 DEF Effective
    <3>2. \A k \in Effective : (\A j \in Effective : j <= k) => k = i
      BY <3>1
    <3>3. i = CHOOSE k \in Effective : \A j \in Effective : j <= k
      BY <3>1, <3>2
    <3> QED
      BY <2>4, <3>1, <3>3 DEF JournalExplainsPointer
  <2> QED
    BY <2>1, <2>3, <2>4 DEF Explains
<1> QED
  BY <1>1, PointerInvHolds, PTL

\* What rollback demands holds for whoever made the latest move.
THEOREM LatestAlwaysRevertible == Spec => []LatestPromotionRevertible
<1>1. PointerInv => LatestPromotionRevertible
  <2> SUFFICES ASSUME PointerInv, NEW o \in Operators, operator[o].pc = "promoted", Expected(o)
               PROVE  Revertible /\ pointer.prev \in stores
    BY DEF LatestPromotionRevertible
  <2>1. pointer.prev \in Generations /\ registry[pointer.prev].state = "RETIRING"
    BY DEF PointerInv, LatestIsLast, Latest, Expected
  <2>2. pointer.prev # None
    BY <2>1, ServingAssumption
  <2> QED
    BY <2>1, <2>2 DEF PointerInv, NamedRows, RowsHaveStores, Revertible
<1> QED
  BY <1>1, PointerInvHolds, PTL

\* The row of the serving generation only changes with the version, so what the
\* cache holds for the version is what the registry says.
THEOREM RoutersFollow == Spec => []RoutedWherePointerSays
<1>1. PointerInv => RoutedWherePointerSays
  <2> SUFFICES ASSUME PointerInv, NEW r \in Requests,
                      request[r].pc = "pointed", request[r].version = pointer.version
               PROVE  IF Known(r) THEN cache.target = DeriveTarget(pointer.gen)
                                  ELSE RoutableLifecycle(registry[pointer.gen])
    BY DEF RoutedWherePointerSays
  <2>1. Known(r) => cache.target = DeriveTarget(pointer.gen)
    BY DEF PointerInv, Remembered, Known
  <2>2. /\ registry[pointer.gen].state = "SERVING"
        /\ registry[pointer.gen].protection = "SERVING"
    BY DEF PointerInv, NamedRows, TypeOK
  <2> QED
    BY <2>1, <2>2 DEF RoutableLifecycle
<1> QED
  BY <1>1, PointerInvHolds, PTL

\* Candidates are chosen long before they are deleted, and what was chosen
\* stays disposable.
THEOREM CleanupAlwaysSpares == Spec => CleanupSparesTheLiving
<1>1. PointerInv /\ [Next]_vars => [SparesTheLiving]_vars
  BY CleanupStep
<1> QED
  BY <1>1, PointerInvHolds, PTL DEF Spec, CleanupSparesTheLiving
=============================================================================

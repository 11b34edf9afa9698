--------------------------- MODULE RetirementProofs ---------------------------
(***************************************************************************)
(* What the deletion of a retired generation promises, for any number of   *)
(* coordinators, operations, generations and faults.                       *)
(*                                                                         *)
(* Eligibility is decided in one transaction and the objects go much later,*)
(* by whoever holds the claim then.  What makes this safe is that a doomed *)
(* generation stays doomed: nothing takes its lifecycle back, and every    *)
(* promotion of it has cut over already, so that no row left in the        *)
(* journal, and no process that is late, can move the pointer to it.       *)
(***************************************************************************)
EXTENDS GenerationRetirement, GenerationPromotionProofs

-----------------------------------------------------------------------------
(***************************************************************************)
(* The invariants.                                                         *)
(***************************************************************************)

RetirementOperation == [state : STATES \cup {"ABSENT"}, candidate : Generations,
                        owner : Coordinators \cup {None}, live : BOOLEAN, fence : Nat]

Tables ==
    /\ op \in [Operations -> RetirementOperation]
    /\ generation \in [Generations -> GenerationRow]
    /\ journal \in Seq(JournalRow)
    /\ pointer \in Pointer
    /\ retirement \in [Generations -> RetirementRow \cup {None}]

\* The retirement of g was decided: it never serves again.
Doomed(g) == generation[g].protection = "RETIREMENT_IN_PROGRESS" \/ generation[g].state = "RETIRED"

PromotionSteps == PrepareSteps \cup RowSteps \cup PlainSteps \cup {"protect:retire"}
DeleteSteps == {"delete:plan", "delete:mark", "delete:record", "delete:fence", "delete:assert",
                "delete:reassert", "delete:verify", "delete:reverify", "delete:intent",
                "delete:remove", "delete:accepted", "delete:observe", "delete:absent"}
CleanupSteps == DeleteSteps \cup {"cleanup:retire", "cleanup:authorize", "cleanup:confirm",
                                  "cleanup:finalize", "cleanup:complete"}

Promotes(o) == op[o].state \in PromotionStates
CleansUp(o) == op[o].state \in {"RETIREMENT_WAITING_ELIGIBILITY", "CLEANING_UP", "COMPLETED"}
HasCutOver(o) == \E j \in Rows : journal[j].op = o /\ Cut(j)

\* What a handler of operation o may rely on at its next call, however long
\* ago it read it.
Relies(pc, o, mem) ==
    /\ pc \in PromotionSteps => Promotes(o)
    /\ pc \in PrepareSteps => mem \in Generations \X Nat /\ mem[2] <= pointer.version
    /\ pc = "prepare:insert" =>
          \A i \in Rows : journal[i].op = o /\ Cut(i) => mem[2] < journal[i].resulting
    /\ pc \in RowSteps => \E j \in Rows : /\ mem = <<j>> /\ journal[j].op = o
                                          /\ pc # "promote:cas" => Cut(j)
    /\ pc = "protect:retire" => \E g \in Generations : mem = <<g>>
    /\ pc \in CleanupSteps => retirement[op[o].candidate] # None
    /\ pc \in DeleteSteps => Doomed(op[o].candidate)
    /\ pc \in DeleteSteps \ {"delete:plan"} => mem[2] \in DOMAIN Roles

Engaged(w) ==
    /\ w = [pc |-> w.pc, op |-> w.op, fence |-> w.fence, mem |-> w.mem]
    /\ w.pc # "idle"
    /\ w.op \in Operations /\ w.fence \in Nat /\ op[w.op].state # "ABSENT"
    /\ Relies(w.pc, w.op, w.mem)

Knowledge ==
    /\ DOMAIN work = Coordinators
    /\ \A c \in Coordinators : work[c] = Idle \/ Engaged(work[c])

\* A row that was not cut over before another row of its operation was can
\* never be: the pointer has left the version it expects.
JournalInv ==
    /\ \A j \in Rows : /\ journal[j].expected <= pointer.version
                       /\ Cut(j) => journal[j].resulting <= pointer.version
                       /\ journal[j].to = op[journal[j].op].candidate
                       /\ Promotes(journal[j].op)
    /\ \A i, j \in Rows : journal[i].op = journal[j].op /\ ~Cut(i) /\ Cut(j) =>
          journal[i].expected < journal[j].resulting
    /\ \A o \in Operations : op[o].state \in {"PROMOTED", "ROLLBACK_PROTECTED"} => HasCutOver(o)

Deleted == {"LOGICALLY_RETIRED", "PHYSICAL_DELETE_PENDING", "PHYSICALLY_DELETED",
            "METADATA_FINALIZED"}

\* A doomed generation is out of the pointer, and so are all who promoted it.
DoomInv ==
    /\ \A g \in Generations : Doomed(g) =>
          /\ generation[g].state \in {"RETIRING", "RETIRED"}
          /\ g \notin {pointer.generation, pointer.previous}
          /\ \A o \in Operations : Promotes(o) /\ op[o].candidate = g => HasCutOver(o)
    /\ \A g \in Generations : retirement[g] # None =>
          (retirement[g].state \in Deleted => generation[g].state = "RETIRED")

DamageInv ==
    \A g \in Generations : generation[g].state # "ABSENT" /\ Damaged(g) => Doomed(g)

DeletionInv == Tables /\ Knowledge /\ JournalInv /\ DoomInv

-----------------------------------------------------------------------------
(***************************************************************************)
(* The steps, by what they do to the rows.                                 *)
(***************************************************************************)

\* The states an operation goes through.
Moves == {<<"READY_TO_PROMOTE", "PROMOTING">>, <<"PROMOTING", "PROMOTED">>,
          <<"PROMOTED", "ROLLBACK_PROTECTED">>, <<"CLEANING_UP", "COMPLETED">>,
          <<"RETIREMENT_WAITING_ELIGIBILITY", "CLEANING_UP">>}

\* An operation is claimed or released, requested, or moves on.
OpEffect ==
    /\ op' \in [Operations -> RetirementOperation]
    /\ \A o \in Operations :
          \/ /\ op'[o].state = op[o].state /\ op'[o].candidate = op[o].candidate
             /\ op'[o].fence >= op[o].fence
          \/ op[o].state = "ABSENT" /\ op'[o].state = "RETIREMENT_WAITING_ELIGIBILITY"
          \/ /\ <<op[o].state, op'[o].state>> \in Moves /\ op'[o].candidate = op[o].candidate
             /\ op'[o].fence = op[o].fence
             /\ op'[o].state = "PROMOTED" => HasCutOver(o)

\* A row is cut over at the version it expects, or appended by who read the
\* pointer before its operation cut over.
JournalEffect ==
    /\ journal' \in Seq(JournalRow) /\ pointer' \in Pointer
    /\ pointer'.version >= pointer.version
    /\ Rows \subseteq Rows'
    /\ \A j \in Rows :
          /\ journal'[j].op = journal[j].op /\ journal'[j].to = journal[j].to
          /\ journal'[j].expected = journal[j].expected
          /\ Cut(j) => Cut(j)' /\ journal'[j].resulting = journal[j].resulting
          /\ ~Cut(j) /\ Cut(j)' => /\ journal'[j].resulting = pointer.version + 1
                                   /\ pointer'.version = pointer.version + 1
    /\ \A j \in Rows' \ Rows :
          /\ ~Cut(j)' /\ op[journal'[j].op].state \in PromotionStates
          /\ journal'[j].to = op[journal'[j].op].candidate
          /\ journal'[j].expected <= pointer.version
          /\ \A i \in Rows : journal[i].op = journal'[j].op /\ Cut(i) =>
                journal'[j].expected < journal[i].resulting
    /\ \/ pointer'.generation = pointer.generation
       \/ \E j \in Rows : ~Cut(j) /\ PointerMatches(j) /\ pointer'.generation = journal[j].to
    /\ pointer'.previous \in {pointer.generation, pointer.previous, None}

\* Only eligibility dooms a generation, and nothing absolves it.
Dooms(g) == \E o \in Operations : op[o].candidate = g /\ ~Promotes(o) /\ Eligible(o, g)
LifecycleEffect ==
    /\ generation' \in [Generations -> GenerationRow]
    /\ \A g \in Generations :
          /\ Doomed(g) => Doomed(g)'
          /\ Doomed(g)' => /\ generation'[g].state \in {"RETIRING", "RETIRED"}
                           /\ Doomed(g) \/ Dooms(g)
          /\ generation[g].state = "ABSENT" => generation'[g].state = "ABSENT"

RetirementEffect ==
    /\ retirement' \in [Generations -> RetirementRow \cup {None}]
    /\ \A g \in Generations :
          /\ retirement[g] # None => retirement'[g] # None
          /\ retirement'[g] # None =>
                (retirement'[g].state \in Deleted => generation'[g].state = "RETIRED")

Effects == OpEffect /\ JournalEffect /\ LifecycleEffect /\ RetirementEffect

\* One process stops, claims or goes on.
Proceeds(c, w) == work' = [work EXCEPT ![c] = w] /\ (w = Idle \/ Engaged(w)')
WorkEffect == work' = work \/ \E c \in Coordinators : \E w : Proceeds(c, w)

-----------------------------------------------------------------------------
(***************************************************************************)
(* What the effects preserve.                                              *)
(***************************************************************************)

\* An operation never gets another candidate, and a promotion stays one.
LEMMA OpFacts ==
    ASSUME OpEffect, NEW o \in Operations
    PROVE  /\ op[o].state # "ABSENT" => /\ op'[o].state # "ABSENT"
                                        /\ op'[o].candidate = op[o].candidate
                                        /\ op'[o].fence >= op[o].fence \/ op'[o].fence = op[o].fence
                                        /\ CleansUp(o) => CleansUp(o)'
           /\ Promotes(o) => Promotes(o)'
           /\ Promotes(o)' => Promotes(o) /\ op'[o].candidate = op[o].candidate
           /\ op'[o].state \in {"PROMOTED", "ROLLBACK_PROTECTED"} =>
                 op[o].state \in {"PROMOTED", "ROLLBACK_PROTECTED"} \/ HasCutOver(o)
BY DEF OpEffect, Moves, Promotes, PromotionStates, CleansUp

\* A cutover is never taken back.
LEMMA CutOverKept ==
    ASSUME JournalEffect, NEW o, HasCutOver(o)
    PROVE  HasCutOver(o)'
<1>1. PICK j \in Rows : journal[j].op = o /\ Cut(j)
  BY DEF HasCutOver
<1>2. j \in Rows' /\ journal'[j].op = o /\ Cut(j)'
  BY <1>1 DEF JournalEffect
<1> QED
  BY <1>2 DEF HasCutOver

\* What a handler relies on stays true, whatever the others do.
LEMMA RelianceKept ==
    ASSUME DeletionInv, Effects, NEW pc, NEW o \in Operations, NEW mem,
           op[o].state # "ABSENT", Relies(pc, o, mem)
    PROVE  Relies(pc, o, mem)'
<1>1. /\ op'[o].candidate = op[o].candidate
      /\ Promotes(o) => Promotes(o)'
  BY OpFacts DEF Effects
<1>2. op[o].candidate \in Generations
  BY DEF DeletionInv, Tables, RetirementOperation
<1>3. /\ retirement[op[o].candidate] # None => retirement'[op'[o].candidate] # None
      /\ Doomed(op[o].candidate) => Doomed(op[o].candidate)'
  BY <1>1, <1>2 DEF Effects, LifecycleEffect, RetirementEffect
<1>4. Doomed(op[o].candidate) => (Doomed(op[o].candidate))'
  BY <1>1, <1>3 DEF Doomed
<1>5. ASSUME pc \in PrepareSteps
      PROVE  mem \in Generations \X Nat /\ mem[2] <= pointer'.version
  <2>1. mem \in Generations \X Nat /\ mem[2] <= pointer.version /\ mem[2] \in Nat
    BY <1>5 DEF Relies
  <2>2. pointer.version \in Nat /\ pointer'.version \in Nat /\ pointer'.version >= pointer.version
    BY DEF DeletionInv, Tables, Pointer, Effects, JournalEffect
  <2> QED
    BY <2>1, <2>2
<1>6. ASSUME pc = "prepare:insert", NEW i \in Rows', journal'[i].op = o, Cut(i)'
      PROVE  mem[2] < journal'[i].resulting
  <2>1. i \in Rows
    BY <1>6 DEF Effects, JournalEffect
  <2>2. CASE Cut(i)
    BY <1>6, <2>1, <2>2 DEF Effects, JournalEffect, Relies
  <2>3. CASE ~Cut(i)
    <3>1. journal'[i].resulting = pointer.version + 1
      BY <1>6, <2>1, <2>3 DEF Effects, JournalEffect
    <3>2. mem[2] \in Nat /\ mem[2] <= pointer.version /\ pointer.version \in Nat
      BY <1>6 DEF Relies, PrepareSteps, DeletionInv, Tables, Pointer
    <3> QED
      BY <3>1, <3>2
  <2> QED
    BY <2>2, <2>3
<1>7. ASSUME pc \in RowSteps
      PROVE  \E j \in Rows' : mem = <<j>> /\ journal'[j].op = o /\ (pc # "promote:cas" => Cut(j)')
  <2>1. PICK j \in Rows : mem = <<j>> /\ journal[j].op = o /\ (pc # "promote:cas" => Cut(j))
    BY <1>7 DEF Relies
  <2>2. j \in Rows' /\ journal'[j].op = o /\ (pc # "promote:cas" => Cut(j)')
    BY <2>1 DEF Effects, JournalEffect
  <2> QED
    BY <2>1, <2>2
<1> QED
  BY <1>1, <1>3, <1>4, <1>5, <1>6, <1>7 DEF Relies

LEMMA EngagedKept ==
    ASSUME DeletionInv, Effects, NEW w, Engaged(w)
    PROVE  Engaged(w)'
<1>1. w.op \in Operations /\ op[w.op].state # "ABSENT" /\ Relies(w.pc, w.op, w.mem)
  BY DEF Engaged
<1>2. Relies(w.pc, w.op, w.mem)'
  BY <1>1, RelianceKept
<1>3. op'[w.op].state # "ABSENT"
  BY <1>1, OpFacts DEF Effects
<1> QED
  BY <1>1, <1>2, <1>3 DEF Engaged

\* Every process at work knows what it needs.
LEMMA KnowledgeKept ==
    ASSUME DeletionInv, Effects, WorkEffect
    PROVE  Knowledge'
<1>1. \A w : Engaged(w) => Engaged(w)'
  BY EngagedKept
<1>2. ASSUME NEW c \in Coordinators, NEW w, Proceeds(c, w)
      PROVE  Knowledge'
  <2>1. DOMAIN work' = Coordinators /\ work'[c] = w
        /\ \A d \in Coordinators : d # c => work'[d] = work[d]
    BY <1>2 DEF Proceeds, DeletionInv, Knowledge
  <2>2. \A d \in Coordinators : \E v : v = work'[d] /\ (v = Idle \/ Engaged(v)')
    BY <1>1, <1>2, <2>1 DEF Proceeds, DeletionInv, Knowledge
  <2> QED
    BY <2>1, <2>2 DEF Knowledge, Engaged
<1>3. CASE work' = work
  <2>2. \A d \in Coordinators : \E v : v = work'[d] /\ (v = Idle \/ Engaged(v)')
    BY <1>1, <1>3 DEF DeletionInv, Knowledge
  <2> QED
    BY <1>3, <2>2 DEF Knowledge, Engaged, DeletionInv
<1> QED
  BY <1>2, <1>3 DEF WorkEffect

LEMMA JournalInvKept ==
    ASSUME DeletionInv, Effects
    PROVE  JournalInv'
<1> USE DEF Effects
<1>1. pointer.version \in Nat /\ pointer'.version \in Nat /\ pointer'.version >= pointer.version
  BY DEF DeletionInv, Tables, Pointer, JournalEffect
<1>2. ASSUME NEW j \in Rows
      PROVE  /\ journal[j].op \in Operations /\ journal[j].expected \in Nat
             /\ journal[j].resulting \in Nat
  BY JournalElement DEF Rows, DeletionInv, Tables, JournalRow
<1>3. ASSUME NEW j \in Rows'
      PROVE  /\ journal'[j].op \in Operations /\ journal'[j].expected \in Nat
             /\ journal'[j].resulting \in Nat
  BY JournalElement DEF Rows, JournalEffect, JournalRow
<1>4. ASSUME NEW j \in Rows'
      PROVE  /\ journal'[j].expected <= pointer'.version
             /\ Cut(j)' => journal'[j].resulting <= pointer'.version
             /\ journal'[j].to = op'[journal'[j].op].candidate
             /\ op'[journal'[j].op].state \in PromotionStates
  <2>1. CASE j \in Rows
    <3>1. journal[j].op \in Operations /\ journal'[j].op = journal[j].op
          /\ journal'[j].to = journal[j].to /\ journal[j].to = op[journal[j].op].candidate
          /\ Promotes(journal[j].op) /\ journal'[j].expected = journal[j].expected
          /\ journal[j].expected <= pointer.version
      BY <1>2, <2>1 DEF DeletionInv, JournalInv, JournalEffect
    <3>2. op'[journal[j].op].candidate = op[journal[j].op].candidate
          /\ op'[journal[j].op].state \in PromotionStates
      BY <3>1, OpFacts DEF Promotes
    <3>3. Cut(j)' => journal'[j].resulting <= pointer'.version
      BY <1>1, <1>2, <2>1 DEF DeletionInv, JournalInv, JournalEffect
    <3> QED
      BY <1>1, <1>2, <2>1, <3>1, <3>2, <3>3 DEF Promotes
  <2>2. CASE j \notin Rows
    <3>1. /\ ~Cut(j)' /\ op[journal'[j].op].state \in PromotionStates /\ journal'[j].to = op[journal'[j].op].candidate
          /\ journal'[j].expected <= pointer.version
      BY <2>2 DEF JournalEffect
    <3>2. \A o \in Operations : op[o].state \in PromotionStates =>
              op'[o].state \in PromotionStates /\ op'[o].candidate = op[o].candidate
      BY <1>3, <3>1, OpFacts DEF Promotes
    <3> QED
      BY <1>1, <1>3, <3>1, <3>2 DEF Promotes
  <2> QED
    BY <2>1, <2>2
<1>5. ASSUME NEW i \in Rows', NEW j \in Rows', journal'[i].op = journal'[j].op, ~Cut(i)', Cut(j)'
      PROVE  journal'[i].expected < journal'[j].resulting
  <2>1. j \in Rows
    BY <1>5 DEF JournalEffect
  <2>2. journal'[i].expected <= pointer.version
    BY <1>5 DEF JournalEffect, DeletionInv, JournalInv
  <2>3. CASE ~Cut(j)
    <3>1. journal'[j].resulting = pointer.version + 1
      BY <1>5, <2>1, <2>3 DEF JournalEffect
    <3> QED
      BY <1>1, <1>3, <2>2, <3>1
  <2>4. CASE Cut(j)
    <3>1. journal'[j].resulting = journal[j].resulting /\ journal'[j].op = journal[j].op
      BY <2>1, <2>4 DEF JournalEffect
    <3>2. CASE i \in Rows
      BY <1>5, <2>1, <2>4, <3>1, <3>2 DEF JournalEffect, DeletionInv, JournalInv
    <3>3. CASE i \notin Rows
      BY <1>5, <2>1, <2>4, <3>1, <3>3 DEF JournalEffect
    <3> QED
      BY <3>2, <3>3
  <2> QED
    BY <2>3, <2>4
<1>6. ASSUME NEW o \in Operations, op'[o].state \in {"PROMOTED", "ROLLBACK_PROTECTED"}
      PROVE  HasCutOver(o)'
  BY <1>6, OpFacts, CutOverKept DEF DeletionInv, JournalInv
<1> QED
  BY <1>4, <1>5, <1>6 DEF JournalInv, Promotes

\* Nothing moves the pointer to a doomed generation.
LEMMA DoomInvKept ==
    ASSUME DeletionInv, Effects
    PROVE  DoomInv'
<1> USE DEF Effects
<1>1. ASSUME NEW g \in Generations, Doomed(g)'
      PROVE  /\ \A j \in Rows : ~Cut(j) /\ PointerMatches(j) => journal[j].to # g
             /\ g \notin {pointer.generation, pointer.previous}
             /\ \A o \in Operations : Promotes(o) /\ op[o].candidate = g => HasCutOver(o)
  <2>1. CASE Doomed(g)
    <3>1. /\ g \notin {pointer.generation, pointer.previous}
          /\ \A o \in Operations : Promotes(o) /\ op[o].candidate = g => HasCutOver(o)
      BY <2>1 DEF DeletionInv, DoomInv
    <3>2. ASSUME NEW j \in Rows, ~Cut(j), PointerMatches(j), journal[j].to = g
          PROVE  FALSE
      <4>1. journal[j].op \in Operations /\ journal[j].expected \in Nat
        BY JournalElement DEF Rows, DeletionInv, Tables, JournalRow
      <4>2. HasCutOver(journal[j].op)
        BY <3>1, <3>2, <4>1 DEF DeletionInv, JournalInv
      <4>3. PICK i \in Rows : journal[i].op = journal[j].op /\ Cut(i)
        BY <4>2 DEF HasCutOver
      <4>4. journal[i].resulting <= pointer.version /\ journal[j].expected < journal[i].resulting
        BY <3>2, <4>3 DEF DeletionInv, JournalInv
      <4>5. journal[i].resulting \in Nat /\ pointer.version \in Nat
        BY JournalElement DEF Rows, DeletionInv, Tables, JournalRow, Pointer
      <4> QED
        BY <3>2, <4>1, <4>4, <4>5 DEF PointerMatches
    <3> QED
      BY <3>1, <3>2
  <2>2. CASE ~Doomed(g)
    <3>1. PICK o \in Operations : op[o].candidate = g /\ ~Promotes(o) /\ Eligible(o, g)
      BY <1>1, <2>2 DEF LifecycleEffect, Dooms
    <3>2. ASSUME NEW j \in Rows, ~Cut(j)
          PROVE  journal[j].to # g
      BY <3>1, <3>2 DEF Eligible, Cut, Incomplete, Touches
    <3>3. ASSUME NEW p \in Operations, Promotes(p), op[p].candidate = g
          PROVE  HasCutOver(p)
      <4>1. op[p].state \notin ACTIVE
        BY <3>1, <3>3 DEF Eligible
      <4>2. op[p].state = "ROLLBACK_PROTECTED"
        BY <3>3, <4>1 DEF Promotes, PromotionStates, ACTIVE
      <4> QED
        BY <4>2 DEF DeletionInv, JournalInv
    <3> QED
      BY <3>1, <3>2, <3>3 DEF Eligible
  <2> QED
    BY <2>1, <2>2
<1>2. ASSUME NEW g \in Generations, Doomed(g)'
      PROVE  /\ generation'[g].state \in {"RETIRING", "RETIRED"}
             /\ g \notin {pointer'.generation, pointer'.previous}
  <2>1. g # None
    BY StoreAssumption
  <2> QED
    BY <1>1, <1>2, <2>1 DEF LifecycleEffect, JournalEffect
<1>3. ASSUME NEW g \in Generations, Doomed(g)', NEW o \in Operations, Promotes(o)', op'[o].candidate = g
      PROVE  HasCutOver(o)'
  BY <1>1, <1>3, OpFacts, CutOverKept
<1> QED
  BY <1>2, <1>3 DEF DoomInv, RetirementEffect

LEMMA DeletionInvKept ==
    ASSUME DeletionInv, Effects, WorkEffect
    PROVE  DeletionInv'
<1>1. Tables'
  BY DEF Effects, OpEffect, JournalEffect, LifecycleEffect, RetirementEffect, Tables
<1> QED
  BY <1>1, KnowledgeKept, JournalInvKept, DoomInvKept DEF DeletionInv

-----------------------------------------------------------------------------
(***************************************************************************)
(* What a step leaves alone, and where its process goes.                   *)
(***************************************************************************)

LEMMA OpStays ==
    ASSUME DeletionInv, op' = op
    PROVE  OpEffect
BY DEF DeletionInv, Tables, OpEffect, RetirementOperation

LEMMA OpWritten ==
    ASSUME DeletionInv, NEW o \in Operations, NEW r \in RetirementOperation,
           op' = [op EXCEPT ![o] = r],
           \/ r.state = op[o].state /\ r.candidate = op[o].candidate /\ r.fence >= op[o].fence
           \/ op[o].state = "ABSENT" /\ r.state = "RETIREMENT_WAITING_ELIGIBILITY"
           \/ /\ <<op[o].state, r.state>> \in Moves /\ r.candidate = op[o].candidate
              /\ r.fence = op[o].fence /\ (r.state = "PROMOTED" => HasCutOver(o))
    PROVE  OpEffect
<1>1. op \in [Operations -> RetirementOperation] /\ \A p \in Operations : op[p].fence \in Nat
  BY DEF DeletionInv, Tables, RetirementOperation
<1>2. op' \in [Operations -> RetirementOperation] /\ op'[o] = r
      /\ \A p \in Operations : p # o => op'[p] = op[p]
  BY <1>1
<1> QED
  BY <1>1, <1>2 DEF OpEffect

LEMMA JournalStays ==
    ASSUME DeletionInv, journal' = journal, pointer' = pointer
    PROVE  JournalEffect
<1>1. pointer'.version >= pointer.version
  BY DEF DeletionInv, Tables, Pointer
<1> QED
  BY <1>1 DEF DeletionInv, Tables, JournalEffect, Rows, Cut

LEMMA LifecycleStays ==
    ASSUME DeletionInv, generation' = generation
    PROVE  LifecycleEffect
BY DEF DeletionInv, Tables, DoomInv, LifecycleEffect, Doomed

LEMMA RetirementStays ==
    ASSUME DeletionInv, UNCHANGED <<generation, retirement>>
    PROVE  RetirementEffect
BY DEF DeletionInv, Tables, DoomInv, RetirementEffect

LEMMA NoEffect ==
    ASSUME DeletionInv, UNCHANGED <<op, tableVars>>
    PROVE  Effects
BY OpStays, JournalStays, LifecycleStays, RetirementStays DEF tableVars, Effects

\* A process whose handler has begun.
LEMMA AtHand ==
    ASSUME DeletionInv, NEW c \in Coordinators, work[c].pc # "idle"
    PROVE  /\ Engaged(work[c])
           /\ work[c].op \in Operations
           /\ Candidate(c) \in Generations
           /\ Candidate(c) = op[work[c].op].candidate
           /\ op[work[c].op].state # "ABSENT"
           /\ Relies(work[c].pc, work[c].op, work[c].mem)
<1>1. Engaged(work[c])
  BY DEF DeletionInv, Knowledge, Idle
<1> QED
  BY <1>1 DEF Engaged, Candidate, DeletionInv, Tables, RetirementOperation

LEMMA StopWorks ==
    ASSUME NEW c \in Coordinators, Stop(c)
    PROVE  WorkEffect
BY DEF Stop, WorkEffect, Proceeds

\* A process goes on with what it may rely on.
LEMMA GotoReaches ==
    ASSUME DeletionInv, Effects, NEW c \in Coordinators, work[c].pc # "idle",
           NEW pc, pc # "idle", NEW mem, Goto(c, pc, mem),
           \A o : o = work[c].op => Relies(pc, o, mem)'
    PROVE  WorkEffect
<1> DEFINE w == [pc |-> pc, op |-> work[c].op, fence |-> work[c].fence, mem |-> mem]
<1>1. work' = [work EXCEPT ![c] = w]
  BY DEF Goto
<1>2. \A v : v = w => Engaged(v)'
  <2>1. TAKE v
  <2>2. HAVE v = w
  <2>3. w.op \in Operations /\ w.fence \in Nat /\ op[w.op].state # "ABSENT"
    BY AtHand DEF Engaged
  <2>4. op'[v.op].state # "ABSENT"
    BY <2>2, <2>3, OpFacts DEF Effects
  <2>5. v.pc = pc /\ v.op = work[c].op /\ v.mem = mem
    BY <2>2
  <2>6. Relies(v.pc, v.op, v.mem)'
    BY <2>5
  <2> QED
    BY <2>2, <2>3, <2>4, <2>5, <2>6 DEF Engaged
<1> HIDE DEF w
<1>3. \E v : Proceeds(c, v)
  BY <1>1, <1>2 DEF Proceeds
<1> QED
  BY <1>3 DEF WorkEffect

LEMMA GotoWorks ==
    ASSUME DeletionInv, Effects, NEW c \in Coordinators, work[c].pc # "idle",
           NEW pc, pc # "idle", NEW mem, Goto(c, pc, mem), Relies(pc, work[c].op, mem)
    PROVE  WorkEffect
<1>1. work[c].op \in Operations /\ op[work[c].op].state # "ABSENT"
  BY AtHand
<1>2. ASSUME NEW o, o = work[c].op
      PROVE  Relies(pc, o, mem)'
  BY <1>1, <1>2, RelianceKept
<1> QED
  BY <1>2, GotoReaches

\* A call that only reads.
LEMMA ReadingWorks ==
    ASSUME DeletionInv, UNCHANGED <<op, tableVars>>, NEW c \in Coordinators, work[c].pc # "idle",
           \/ Stop(c)
           \/ \E pc, mem : pc # "idle" /\ Goto(c, pc, mem) /\ Relies(pc, work[c].op, mem)
    PROVE  Effects /\ WorkEffect
BY NoEffect, StopWorks, GotoWorks

\* A transition out of the state its handler works in.
LEMMA TransitionWorks ==
    ASSUME DeletionInv, NEW c \in Coordinators, work[c].pc # "idle", NEW from, NEW to,
           Transition(c, from, to), <<from, to>> \in Moves,
           to = "PROMOTED" => HasCutOver(work[c].op), UNCHANGED tableVars
    PROVE  Effects /\ WorkEffect
<1> DEFINE o == work[c].op
           r == [op[o] EXCEPT !.state = to, !.owner = None, !.live = FALSE]
<1>1. o \in Operations /\ op[o] \in RetirementOperation
  BY AtHand DEF DeletionInv, Tables
<1>2. to \in STATES
  BY DEF Moves, STATES, ACTIVE
<1>3. r \in RetirementOperation /\ r.state = to /\ r.candidate = op[o].candidate
      /\ r.fence = op[o].fence
  BY <1>1, <1>2 DEF RetirementOperation
<1>4. op' = op \/ (op' = [op EXCEPT ![o] = r] /\ op[o].state = from)
  BY DEF Transition
<1>5. OpEffect
  <2>1. CASE op' = op
    BY <2>1, OpStays
  <2>2. CASE op' = [op EXCEPT ![o] = r] /\ op[o].state = from
    <3> HIDE DEF r
    <3> QED
      BY <1>1, <1>3, <2>2, OpWritten
  <2> QED
    BY <1>4, <2>1, <2>2
<1> QED
  BY <1>5, JournalStays, LifecycleStays, RetirementStays, StopWorks
     DEF Effects, tableVars, Transition

-----------------------------------------------------------------------------
(***************************************************************************)
(* Claims, leases and requests.                                            *)
(***************************************************************************)

LEMMA ClaimWorks ==
    ASSUME DeletionInv, NEW c \in Coordinators, RetirementClaim(c)
    PROVE  Effects /\ WorkEffect
<1>1. PICK o \in Claimable :
        /\ op' = [op EXCEPT ![o] = [@ EXCEPT !.owner = c, !.live = TRUE, !.fence = NextFence(o)]]
        /\ work' = [work EXCEPT ![c] = [pc |-> op[o].state, op |-> o, fence |-> NextFence(o),
                                        mem |-> <<>>]]
  BY DEF RetirementClaim, ClaimNext
<1> DEFINE r == [op[o] EXCEPT !.owner = c, !.live = TRUE, !.fence = NextFence(o)]
           w == [pc |-> op[o].state, op |-> o, fence |-> NextFence(o), mem |-> <<>>]
<1>2. o \in Operations /\ op[o].state \in ACTIVE /\ op \in [Operations -> RetirementOperation]
  BY DEF Claimable, DeletionInv, Tables
<1>3. op[o].fence \in Nat /\ NextFence(o) \in Nat /\ NextFence(o) >= op[o].fence
  BY <1>2 DEF RetirementOperation, NextFence
<1>4. r \in RetirementOperation /\ r.state = op[o].state /\ r.candidate = op[o].candidate
      /\ r.fence = NextFence(o)
  BY <1>2, <1>3 DEF RetirementOperation
<1>5. op' = [op EXCEPT ![o] = r] /\ work' = [work EXCEPT ![c] = w]
  BY <1>1
<1>6. OpEffect
  <2> HIDE DEF r
  <2> QED
    BY <1>2, <1>3, <1>4, <1>5, OpWritten
<1>7. Effects
  BY <1>6, JournalStays, LifecycleStays, RetirementStays DEF Effects, RetirementClaim, tableVars
<1>8. op[o].state # "ABSENT" /\ op[o].state # "idle"
  BY <1>2 DEF ACTIVE
<1>9. Relies(op[o].state, o, <<>>)
  BY <1>2 DEF Relies, PromotionSteps, PrepareSteps, RowSteps, PlainSteps, CleanupSteps, DeleteSteps,
              ACTIVE, Promotes, PromotionStates
<1>10. \A pc : pc = op[o].state => Relies(pc, o, <<>>)'
  BY <1>2, <1>7, <1>8, <1>9, RelianceKept
<1>11. op'[o].state # "ABSENT"
  BY <1>2, <1>7, <1>8, OpFacts DEF Effects
<1>12. \A v : v = w => Engaged(v)'
  <2>1. TAKE v
  <2>2. HAVE v = w
  <2>3. v.pc = op[o].state /\ v.op = o /\ v.mem = <<>> /\ v.fence = NextFence(o)
        /\ v = [pc |-> v.pc, op |-> v.op, fence |-> v.fence, mem |-> v.mem]
    BY <2>2
  <2>4. Relies(v.pc, v.op, v.mem)'
    BY <1>10, <2>3
  <2> QED
    BY <1>2, <1>3, <1>8, <1>11, <2>3, <2>4 DEF Engaged
<1> HIDE DEF w
<1>13. \E v : Proceeds(c, v)
  BY <1>5, <1>12 DEF Proceeds
<1> QED
  BY <1>7, <1>13 DEF WorkEffect

LEMMA StoreWorks ==
    ASSUME DeletionInv, RetirementStoreStep
    PROVE  Effects /\ WorkEffect
<1>1. ASSUME NEW c \in Coordinators, Interrupt(c)
      PROVE  Effects /\ WorkEffect
  BY <1>1, NoEffect, StopWorks DEF Interrupt, RetirementStoreStep
<1>2. ASSUME NEW o \in Operations, LeaseRunsOut(o) \/ LeaseOutlived(o)
      PROVE  Effects /\ WorkEffect
  <2> DEFINE r == [op[o] EXCEPT !.live = FALSE]
  <2>1. op \in [Operations -> RetirementOperation] /\ \A p \in Operations : op[p].fence \in Nat
    BY DEF DeletionInv, Tables, RetirementOperation
  <2>2. r \in RetirementOperation /\ r.state = op[o].state /\ r.candidate = op[o].candidate
        /\ r.fence = op[o].fence
    BY <2>1 DEF RetirementOperation
  <2>3. op' = [op EXCEPT ![o] = r] /\ work' = work
    BY <1>2 DEF LeaseRunsOut, LeaseOutlived
  <2> HIDE DEF r
  <2>4. op[o].fence >= op[o].fence
    BY <2>1
  <2>5. OpEffect
    BY <2>2, <2>3, <2>4, OpWritten
  <2> QED
    BY <2>3, <2>5, JournalStays, LifecycleStays, RetirementStays
       DEF Effects, WorkEffect, RetirementStoreStep, tableVars
<1> QED
  BY <1>1, <1>2 DEF RetirementStoreStep

LEMMA RequestWorks ==
    ASSUME DeletionInv, NEW o \in Operations, NEW g \in Generations, ScheduleCleanup(o, g)
    PROVE  Effects /\ WorkEffect
<1> DEFINE r == Unclaimed("RETIREMENT_WAITING_ELIGIBILITY", g)
           row == [op |-> o, state |-> "WAITING_ELIGIBILITY"]
<1>2. r \in RetirementOperation /\ r.state = "RETIREMENT_WAITING_ELIGIBILITY"
  BY DEF Unclaimed, RetirementOperation, STATES, ACTIVE
<1>3. row \in RetirementRow /\ row.state \notin Deleted
  BY DEF RetirementRow, RetirementStates, Deleted
<1>4. /\ op' = [op EXCEPT ![o] = r] /\ op[o].state = "ABSENT" /\ retirement[g] = None
      /\ retirement' = [retirement EXCEPT ![g] = row]
      /\ UNCHANGED <<work, generation, journal, pointer>>
  BY DEF ScheduleCleanup
<1> HIDE DEF r, row
<1>5. OpEffect
  BY <1>2, <1>4, OpWritten
<1>6. RetirementEffect
  <2>1. retirement \in [Generations -> RetirementRow \cup {None}]
    BY DEF DeletionInv, Tables
  <2>2. retirement' \in [Generations -> RetirementRow \cup {None}] /\ retirement'[g] = row
        /\ \A h \in Generations : h # g => retirement'[h] = retirement[h]
    BY <1>3, <1>4, <2>1
  <2>3. \A h \in Generations : retirement[h] # None =>
           (retirement[h].state \in Deleted => generation'[h].state = "RETIRED")
    BY <1>4 DEF DeletionInv, DoomInv
  <2> QED
    BY <1>3, <1>4, <2>2, <2>3 DEF RetirementEffect
<1> QED
  BY <1>4, <1>5, <1>6, JournalStays, LifecycleStays DEF Effects, WorkEffect

-----------------------------------------------------------------------------
(***************************************************************************)
(* The calls of a promotion.                                               *)
(***************************************************************************)

LEMMA PromotionReads ==
    ASSUME DeletionInv, NEW c \in Coordinators, UNCHANGED physicalVars,
           \/ ReadPointerToPrepare(c) \/ LookupPromotion(c) \/ LoadPromotion(c)
           \/ ObserveRouters(c) \/ ReadPointerToProtect(c)
    PROVE  Effects /\ WorkEffect
<1> DEFINE o == work[c].op
<1>1. CASE ReadPointerToPrepare(c)
  <2>1. work[c].pc = "READY_TO_PROMOTE" /\ Promotes(o)
    BY <1>1, AtHand DEF ReadPointerToPrepare, At, Relies, PromotionSteps, PlainSteps
  <2>2. Relies("prepare:advance", o, <<>>)
    BY <2>1 DEF Relies, PromotionSteps, PrepareSteps, RowSteps, PlainSteps, CleanupSteps, DeleteSteps
  <2>3. Relies("prepare:lookup", o, <<pointer.generation, pointer.version>>)
    <3>1. pointer.generation \in Generations /\ pointer.version \in Nat
      BY DEF DeletionInv, Tables, Pointer
    <3> QED
      BY <2>1, <3>1 DEF Relies, PromotionSteps, PrepareSteps, RowSteps, CleanupSteps, DeleteSteps
  <2> QED
    BY <1>1, <2>1, <2>2, <2>3, ReadingWorks DEF ReadPointerToPrepare, tableVars
<1>2. CASE LookupPromotion(c)
  <2>1. /\ work[c].pc = "prepare:lookup" /\ Promotes(o)
        /\ work[c].mem \in Generations \X Nat /\ work[c].mem[2] <= pointer.version
    BY <1>2, AtHand DEF LookupPromotion, At, Relies, PromotionSteps, PrepareSteps
  <2>2. Relies("prepare:advance", o, <<>>)
    BY <2>1 DEF Relies, PromotionSteps, PrepareSteps, RowSteps, PlainSteps, CleanupSteps, DeleteSteps
  <2>3. JournalsOf(o) = {} => Relies("prepare:insert", o, work[c].mem)
    BY <2>1 DEF Relies, PromotionSteps, PrepareSteps, RowSteps, CleanupSteps, DeleteSteps, JournalsOf
  <2>4. CASE JournalsOf(o) # {}
    BY <1>2, <2>1, <2>2, <2>4, ReadingWorks DEF LookupPromotion, tableVars
  <2>5. CASE JournalsOf(o) = {}
    BY <1>2, <2>1, <2>3, <2>5, ReadingWorks DEF LookupPromotion, tableVars
  <2> QED
    BY <2>4, <2>5
<1>3. CASE LoadPromotion(c)
  <2>1. work[c].pc = "PROMOTING" /\ Promotes(o)
    BY <1>3, AtHand DEF LoadPromotion, At, Relies, PromotionSteps, PlainSteps
  <2>2. ASSUME NEW j \in Newest(JournalsOf(o)), Resume(c, j)
        PROVE  Effects /\ WorkEffect
    <3>1. j \in Rows /\ journal[j].op = o
      BY DEF Newest, JournalsOf
    <3>2. journal[j].phase \in Phases
      BY <3>1, JournalElement DEF DeletionInv, Tables, JournalRow, Rows
    <3>3. StepAfter(journal[j].phase) \in RowSteps
          /\ (StepAfter(journal[j].phase) # "promote:cas" => Cut(j))
          /\ StepAfter(journal[j].phase) # "idle"
      BY <3>2 DEF StepAfter, Phases, RowSteps, Cut
    <3>4. Relies(StepAfter(journal[j].phase), o, <<j>>)
      BY <2>1, <3>1, <3>3 DEF Relies, PromotionSteps, PrepareSteps, RowSteps, CleanupSteps, DeleteSteps
    <3> QED
      BY <1>3, <2>1, <2>2, <3>3, <3>4, ReadingWorks DEF Resume, LoadPromotion, tableVars
  <2> QED
    BY <1>3, <2>1, <2>2, ReadingWorks DEF LoadPromotion, tableVars
<1>4. CASE ObserveRouters(c)
  <2>1. work[c].pc = "promote:observe" /\ Relies("promote:observe", o, work[c].mem)
    BY <1>4, AtHand DEF ObserveRouters, At
  <2>2. Relies("promote:mark", o, work[c].mem)
    BY <2>1 DEF Relies, PromotionSteps, PrepareSteps, RowSteps, CleanupSteps, DeleteSteps
  <2> QED
    BY <1>4, <2>1, <2>2, ReadingWorks DEF ObserveRouters, tableVars
<1>5. CASE ReadPointerToProtect(c)
  <2>1. work[c].pc = "PROMOTED" /\ Promotes(o)
    BY <1>5, AtHand DEF ReadPointerToProtect, At, Relies, PromotionSteps, PlainSteps
  <2>2. Relies("protect:advance", o, <<>>)
    BY <2>1 DEF Relies, PromotionSteps, PrepareSteps, RowSteps, PlainSteps, CleanupSteps, DeleteSteps
  <2>3. pointer.previous # None => Relies("protect:retire", o, <<pointer.previous>>)
    BY <2>1 DEF Relies, PromotionSteps, PrepareSteps, RowSteps, PlainSteps, CleanupSteps, DeleteSteps,
                DeletionInv, Tables, Pointer
  <2> QED
    BY <1>5, <2>1, <2>2, <2>3, ReadingWorks DEF ReadPointerToProtect, tableVars
<1> QED
  BY <1>1, <1>2, <1>3, <1>4, <1>5

LEMMA PromotionAdvances ==
    ASSUME DeletionInv, NEW c \in Coordinators,
           AdvanceToPromoting(c) \/ AdvanceToPromoted(c) \/ AdvanceToProtected(c)
    PROVE  Effects /\ WorkEffect
<1>1. CASE AdvanceToPromoting(c)
  BY <1>1, TransitionWorks DEF AdvanceToPromoting, At, Moves
<1>2. CASE AdvanceToPromoted(c)
  <2>1. work[c].pc = "promote:advance"
    BY <1>2 DEF AdvanceToPromoted, At
  <2>2. HasCutOver(work[c].op)
    BY <2>1, AtHand DEF Relies, RowSteps, HasCutOver
  <2> QED
    BY <1>2, <2>1, <2>2, TransitionWorks DEF AdvanceToPromoted, At, Moves
<1>3. CASE AdvanceToProtected(c)
  BY <1>3, TransitionWorks DEF AdvanceToProtected, At, Moves
<1> QED
  BY <1>1, <1>2, <1>3

\* The row works of a promotion: row j, which the process remembers.
LEMMA RowAtHand ==
    ASSUME DeletionInv, NEW c \in Coordinators, work[c].pc \in RowSteps
    PROVE  /\ work[c].mem = <<Row(c)>> /\ Row(c) \in Rows /\ journal[Row(c)].op = work[c].op
           /\ journal[Row(c)] \in JournalRow
           /\ work[c].pc # "promote:cas" => Cut(Row(c))
           /\ Promotes(work[c].op)
<1>1. Relies(work[c].pc, work[c].op, work[c].mem)
  BY AtHand DEF RowSteps
<1>2. PICK j \in Rows : /\ work[c].mem = <<j>> /\ journal[j].op = work[c].op
                        /\ work[c].pc # "promote:cas" => Cut(j)
  BY <1>1 DEF Relies
<1>3. Row(c) = j
  BY <1>2 DEF Row
<1>4. journal[j] \in JournalRow
  BY JournalElement DEF Rows, DeletionInv, Tables
<1> QED
  BY <1>1, <1>2, <1>3, <1>4 DEF Relies, PromotionSteps

\* A row that was cut over changes its phase.
LEMMA RowMovesOn ==
    ASSUME DeletionInv, NEW j \in Rows, Cut(j), NEW phase \in Phases \ {"PREPARING"},
           journal' = [journal EXCEPT ![j].phase = phase], pointer' = pointer
    PROVE  JournalEffect
<1> DEFINE row == [journal[j] EXCEPT !.phase = phase]
<1>1. journal \in Seq(JournalRow) /\ journal[j] \in JournalRow
  BY JournalElement DEF DeletionInv, Tables, Rows
<1>2. row \in JournalRow /\ row.op = journal[j].op /\ row.to = journal[j].to /\ row.phase = phase
      /\ row.expected = journal[j].expected /\ row.resulting = journal[j].resulting
  BY <1>1 DEF JournalRow
<1>3. journal' = [journal EXCEPT ![j] = row]
  OBVIOUS
<1> HIDE DEF row
<1>4. journal' \in Seq(JournalRow) /\ Rows' = Rows
  <2>1. j \in DOMAIN journal
    BY DEF Rows
  <2>2. [journal EXCEPT ![j] = row] \in Seq(JournalRow)
        /\ DOMAIN [journal EXCEPT ![j] = row] = DOMAIN journal
    BY <1>1, <1>2, <2>1, JournalExcept
  <2> QED
    BY <1>3, <2>2 DEF Rows
<1>5. journal'[j] = row /\ \A i \in Rows : i # j => journal'[i] = journal[i]
  BY <1>3 DEF Rows
<1>6. pointer \in Pointer /\ pointer.version \in Nat
  BY DEF DeletionInv, Tables, Pointer
<1>7. Cut(j)' /\ \A i \in Rows : i # j => (Cut(i) <=> journal'[i].phase # "PREPARING")
  BY <1>2, <1>5 DEF Cut
<1> QED
  BY <1>2, <1>4, <1>5, <1>6, <1>7 DEF JournalEffect, Cut

LEMMA PrepareWorks ==
    ASSUME DeletionInv, NEW c \in Coordinators, PreparePromotion(c)
    PROVE  Effects /\ WorkEffect
<1> DEFINE o == work[c].op
           row == [op |-> o, from |-> work[c].mem[1], to |-> Candidate(c),
                   expected |-> work[c].mem[2], phase |-> "PREPARING", resulting |-> 0]
<1>1. /\ work[c].pc = "prepare:insert" /\ o \in Operations /\ Promotes(o)
      /\ Candidate(c) \in Generations /\ Candidate(c) = op[o].candidate
      /\ work[c].mem \in Generations \X Nat /\ work[c].mem[2] <= pointer.version
      /\ \A i \in Rows : journal[i].op = o /\ Cut(i) => work[c].mem[2] < journal[i].resulting
  BY AtHand DEF PreparePromotion, At, Relies, PromotionSteps, PrepareSteps
<1>2. row \in JournalRow /\ row.op = o /\ row.to = op[o].candidate /\ row.expected = work[c].mem[2]
      /\ row.phase = "PREPARING"
  BY <1>1 DEF JournalRow, Phases
<1>3. journal' = Append(journal, row) /\ UNCHANGED <<op, generation, pointer, retirement>>
      /\ Goto(c, "prepare:advance", <<>>)
  BY DEF PreparePromotion
<1>4. Promotes(o) => op[o].state \in PromotionStates
  BY DEF Promotes
<1> HIDE DEF row
<1>5. journal \in Seq(JournalRow)
  BY DEF DeletionInv, Tables
<1>6. /\ Append(journal, row) \in Seq(JournalRow)
      /\ DOMAIN Append(journal, row) = DOMAIN journal \cup {Len(journal) + 1}
      /\ \A i \in DOMAIN journal : Append(journal, row)[i] = journal[i]
      /\ Append(journal, row)[Len(journal) + 1] = row
      /\ Len(journal) + 1 \notin DOMAIN journal
  BY <1>2, <1>5, JournalAppend
<1>7. /\ journal' \in Seq(JournalRow) /\ Rows' = Rows \cup {Len(journal) + 1}
      /\ \A i \in Rows : journal'[i] = journal[i]
      /\ journal'[Len(journal) + 1] = row
      /\ Rows' \ Rows = {Len(journal) + 1}
  BY <1>3, <1>6 DEF Rows
<1>8. pointer \in Pointer /\ pointer.version \in Nat
  BY DEF DeletionInv, Tables, Pointer
<1>9. JournalEffect
  <2>1. \A i \in Rows : Cut(i) <=> journal'[i].phase # "PREPARING"
    BY <1>7 DEF Cut
  <2>2. \A j \in Rows' \ Rows : journal'[j] = row
    BY <1>7
  <2>3. \A j \in Rows' \ Rows :
          /\ ~Cut(j)' /\ op[journal'[j].op].state \in PromotionStates
          /\ journal'[j].to = op[journal'[j].op].candidate
          /\ journal'[j].expected <= pointer.version
          /\ \A i \in Rows : journal[i].op = journal'[j].op /\ Cut(i) =>
                journal'[j].expected < journal[i].resulting
    BY <1>1, <1>2, <1>4, <2>2 DEF Cut
  <2>4. pointer'.version >= pointer.version /\ pointer' = pointer
    BY <1>3, <1>8
  <2> QED
    BY <1>7, <1>8, <2>1, <2>3, <2>4 DEF JournalEffect, Cut
<1>10. Effects
  BY <1>3, <1>9, OpStays, LifecycleStays, RetirementStays DEF Effects
<1>11. Relies("prepare:advance", o, <<>>)
  BY <1>1 DEF Relies, PromotionSteps, PrepareSteps, RowSteps, PlainSteps, CleanupSteps, DeleteSteps
<1> QED
  BY <1>1, <1>3, <1>10, <1>11, GotoWorks

LEMMA CasWorks ==
    ASSUME DeletionInv, NEW c \in Coordinators, CasPointer(c)
    PROVE  Effects /\ WorkEffect
<1>1. work[c].pc = "promote:cas" /\ work[c].pc \in RowSteps
  BY DEF CasPointer, At, RowSteps
<1>2. PICK j \in Rows, o \in Operations :
        /\ j = Row(c) /\ o = work[c].op /\ work[c].mem = <<j>> /\ journal[j].op = o
        /\ journal[j] \in JournalRow /\ Promotes(o)
  BY <1>1, RowAtHand, AtHand
<1>3. UNCHANGED <<op, generation, retirement>>
  BY DEF CasPointer
<1>4. CASE Cut(j) /\ Resume(c, j) /\ UNCHANGED <<journal, pointer>>
  <2>1. StepAfter(journal[j].phase) \in RowSteps /\ StepAfter(journal[j].phase) # "promote:cas"
        /\ StepAfter(journal[j].phase) # "idle"
    BY <1>2, <1>4 DEF StepAfter, Phases, RowSteps, Cut, JournalRow
  <2>2. Relies(StepAfter(journal[j].phase), o, <<j>>)
    BY <1>2, <1>4, <2>1
       DEF Relies, PromotionSteps, PrepareSteps, RowSteps, CleanupSteps, DeleteSteps
  <2> QED
    BY <1>1, <1>2, <1>3, <1>4, <2>1, <2>2, ReadingWorks DEF Resume, tableVars
<1>5. CASE Stop(c) /\ UNCHANGED <<journal, pointer>>
  BY <1>1, <1>2, <1>3, <1>5, ReadingWorks DEF tableVars
<1>6. CASE /\ ~Cut(j) /\ PointerMatches(j)
           /\ pointer' = [generation |-> journal[j].to, previous |-> pointer.generation,
                          version |-> pointer.version + 1]
           /\ journal' = [journal EXCEPT ![j] = [@ EXCEPT !.phase = "POINTER_UPDATED",
                                                         !.resulting = pointer.version + 1]]
           /\ Goto(c, "promote:observe", <<j>>)
  <2> DEFINE row == [journal[j] EXCEPT !.phase = "POINTER_UPDATED", !.resulting = pointer.version + 1]
  <2>1. pointer \in Pointer /\ pointer.version \in Nat /\ pointer.generation \in Generations
    BY DEF DeletionInv, Tables, Pointer
  <2>2. row \in JournalRow /\ row.op = journal[j].op /\ row.to = journal[j].to
        /\ row.phase = "POINTER_UPDATED" /\ row.expected = journal[j].expected
        /\ row.resulting = pointer.version + 1
    <3>1. \A v \in Nat : [journal[j] EXCEPT !.phase = "POINTER_UPDATED", !.resulting = v] \in JournalRow
      BY <1>2 DEF JournalRow, Phases
    <3>2. pointer.version + 1 \in Nat
      BY <2>1
    <3> QED
      BY <1>2, <3>1, <3>2 DEF JournalRow
  <2>3. journal' = [journal EXCEPT ![j] = row]
    BY <1>6
  <2> HIDE DEF row
  <2>4. j \in DOMAIN journal /\ journal \in Seq(JournalRow)
    BY <1>2 DEF Rows, DeletionInv, Tables
  <2>5. [journal EXCEPT ![j] = row] \in Seq(JournalRow)
        /\ DOMAIN [journal EXCEPT ![j] = row] = DOMAIN journal
    BY <2>2, <2>4, JournalExcept
  <2>6. journal' \in Seq(JournalRow) /\ Rows' = Rows
    BY <2>3, <2>5 DEF Rows
  <2>7. journal'[j] = row /\ \A i \in Rows : i # j => journal'[i] = journal[i]
    BY <2>3, <2>4 DEF Rows
  <2>8. pointer' \in Pointer /\ pointer'.version = pointer.version + 1
        /\ pointer'.generation = journal[j].to /\ pointer'.previous = pointer.generation
    BY <1>2, <1>6, <2>1 DEF Pointer, JournalRow
  <2>9. JournalEffect
    <3>1. \A i \in Rows : i # j => (Cut(i) <=> journal'[i].phase # "PREPARING")
      BY <2>7 DEF Cut
    <3>2. pointer'.version >= pointer.version
      BY <2>1, <2>8
    <3> QED
      BY <1>2, <1>6, <2>2, <2>6, <2>7, <2>8, <3>1, <3>2 DEF JournalEffect, Cut
  <2>10. Effects
    BY <1>3, <2>9, OpStays, LifecycleStays, RetirementStays DEF Effects
  <2>11. ASSUME NEW p, p = o
         PROVE  Relies("promote:observe", p, <<j>>)'
    <3>1. Promotes(o)' /\ Cut(j)' /\ journal'[j].op = o
      BY <1>2, <1>3, <2>2, <2>7 DEF Promotes, Cut
    <3>2. \E i \in Rows' : <<j>> = <<i>> /\ journal'[i].op = p /\ Cut(i)'
      BY <1>2, <2>6, <2>11, <3>1
    <3> QED
      BY <2>11, <3>1, <3>2
         DEF Relies, PromotionSteps, PrepareSteps, RowSteps, CleanupSteps, DeleteSteps, Promotes
  <2> QED
    BY <1>1, <1>2, <1>6, <2>10, <2>11, GotoReaches
<1> QED
  BY <1>2, <1>4, <1>5, <1>6 DEF CasPointer

LEMMA MarkWorks ==
    ASSUME DeletionInv, NEW c \in Coordinators, MarkRouterVerified(c)
    PROVE  Effects /\ WorkEffect
<1>1. work[c].pc = "promote:mark" /\ work[c].pc \in RowSteps
  BY DEF MarkRouterVerified, At, RowSteps
<1>2. PICK j \in Rows : /\ j = Row(c) /\ work[c].mem = <<j>> /\ journal[j].op = work[c].op
                        /\ Cut(j) /\ Promotes(work[c].op)
  BY <1>1, RowAtHand
<1>3. UNCHANGED <<op, generation, retirement, pointer>>
  BY DEF MarkRouterVerified
<1>4. CASE journal' = [journal EXCEPT ![j].phase = "ROUTER_VERIFIED"]
           /\ Goto(c, "promote:finalize", <<j>>)
  <2>1. JournalEffect
    BY <1>2, <1>3, <1>4, RowMovesOn DEF Phases
  <2>2. Effects
    BY <1>3, <2>1, OpStays, LifecycleStays, RetirementStays DEF Effects
  <2>3. Relies("promote:finalize", work[c].op, <<j>>)
    BY <1>2 DEF Relies, PromotionSteps, PrepareSteps, RowSteps, CleanupSteps, DeleteSteps
  <2> QED
    BY <1>1, <1>4, <2>2, <2>3, GotoWorks
<1>5. CASE Stop(c) /\ UNCHANGED journal
  BY <1>1, <1>3, <1>5, ReadingWorks DEF tableVars
<1> QED
  BY <1>2, <1>4, <1>5 DEF MarkRouterVerified

\* The rotation of the registry dooms and absolves nobody.
LEMMA RotationSpares ==
    ASSUME DeletionInv, NEW j \in Rows, CanFinalize(j), retirement' = retirement,
           generation' = [g \in Generations |-> RotatedRow(g, j)]
    PROVE  LifecycleEffect /\ RetirementEffect
<1>1. \A g \in Generations : /\ generation[g] \in GenerationRow
                             /\ generation[g].version + 1 \in Nat
                             /\ generation[g].version + 2 \in Nat
                             /\ generation[g].version + 1 + 1 = generation[g].version + 2
  BY DEF DeletionInv, Tables, GenerationRow
<1>2. /\ journal[j].from \in Generations /\ ~Doomed(journal[j].from)
      /\ journal[j].to \in Generations /\ ~Doomed(journal[j].to)
  <2>1. journal[j] \in JournalRow
    BY JournalElement DEF Rows, DeletionInv, Tables
  <2> QED
    BY <2>1 DEF JournalRow, CanFinalize, DeletionInv, DoomInv
<1>3. ASSUME NEW g \in Generations
      PROVE  /\ RotatedRow(g, j) \in GenerationRow
             /\ g \notin {journal[j].from, journal[j].to} =>
                   /\ RotatedRow(g, j).state = generation[g].state
                   /\ \/ RotatedRow(g, j).protection = generation[g].protection
                      \/ /\ RotatedRow(g, j).protection = "NONE"
                         /\ generation[g].protection # "RETIREMENT_IN_PROGRESS"
             /\ g \in {journal[j].from, journal[j].to} =>
                   /\ RotatedRow(g, j).state \in {"RETIRING", "SERVING"}
                   /\ RotatedRow(g, j).protection \in {"ROLLBACK", "SERVING"}
                   /\ generation[g].state \in {"SERVING", "READY"}
  <2>1. generation[g] \in GenerationRow /\ generation[g].version + 1 \in Nat
        /\ generation[g].version + 2 \in Nat
        /\ generation[g].version + 1 + 1 = generation[g].version + 2
    BY <1>1
  <2> DEFINE released == generation[g].protection \in {"SERVING", "ROLLBACK"}
             base == [generation[g] EXCEPT !.protection = IF released THEN "NONE" ELSE @,
                                           !.version = IF released THEN @ + 1 ELSE @]
  <2>2. /\ base \in GenerationRow /\ base.state = generation[g].state
        /\ base.version + 1 \in Nat
        /\ \/ base.protection = generation[g].protection
           \/ base.protection = "NONE" /\ generation[g].protection # "RETIREMENT_IN_PROGRESS"
    BY <2>1 DEF GenerationRow, Protections
  <2>3. RotatedRow(g, j) =
          IF g = journal[j].from
          THEN [state |-> "RETIRING", protection |-> "ROLLBACK", version |-> base.version + 1]
          ELSE IF g = journal[j].to
          THEN [state |-> "SERVING", protection |-> "SERVING", version |-> base.version + 1]
          ELSE base
    BY DEF RotatedRow
  <2> HIDE DEF base
  <2> QED
    BY <2>2, <2>3 DEF GenerationRow, GenerationStates, Protections, CanFinalize
<1>4. generation' \in [Generations -> GenerationRow]
      /\ \A g \in Generations : generation'[g] = RotatedRow(g, j)
  BY <1>3
<1>5. LifecycleEffect
  <2>1. ASSUME NEW g \in Generations
        PROVE  /\ Doomed(g) <=> (generation'[g].protection = "RETIREMENT_IN_PROGRESS"
                                 \/ generation'[g].state = "RETIRED")
               /\ generation[g].state = "ABSENT" => generation'[g].state = "ABSENT"
               /\ Doomed(g) => generation'[g].state = generation[g].state
    BY <1>2, <1>3, <1>4 DEF Doomed
  <2> QED
    BY <1>4, <2>1 DEF LifecycleEffect, Doomed, DeletionInv, DoomInv
<1>6. RetirementEffect
  <2>1. ASSUME NEW g \in Generations, generation[g].state = "RETIRED"
        PROVE  generation'[g].state = "RETIRED"
    BY <1>2, <1>3, <1>4, <2>1 DEF Doomed
  <2> QED
    BY <2>1 DEF RetirementEffect, DeletionInv, Tables, DoomInv
<1> QED
  BY <1>5, <1>6

LEMMA FinalizeWorks ==
    ASSUME DeletionInv, NEW c \in Coordinators, FinalizePromotion(c)
    PROVE  Effects /\ WorkEffect
<1>1. work[c].pc = "promote:finalize" /\ work[c].pc \in RowSteps
  BY DEF FinalizePromotion, At, RowSteps
<1>2. PICK j \in Rows : /\ j = Row(c) /\ work[c].mem = <<j>> /\ journal[j].op = work[c].op
                        /\ Cut(j) /\ Promotes(work[c].op)
  BY <1>1, RowAtHand
<1>3. UNCHANGED <<op, retirement, pointer>>
  BY DEF FinalizePromotion
<1>4. Relies("promote:advance", work[c].op, <<j>>)
  BY <1>2 DEF Relies, PromotionSteps, PrepareSteps, RowSteps, CleanupSteps, DeleteSteps
<1>5. CASE /\ CanFinalize(j)
           /\ generation' = [g \in Generations |-> RotatedRow(g, j)]
           /\ journal' = [journal EXCEPT ![j].phase = "GENERATION_FINALIZED"]
           /\ Goto(c, "promote:advance", <<j>>)
  <2>1. JournalEffect
    BY <1>2, <1>3, <1>5, RowMovesOn DEF Phases
  <2>2. Effects
    BY <1>3, <1>5, <2>1, OpStays, RotationSpares DEF Effects
  <2> QED
    BY <1>1, <1>4, <1>5, <2>2, GotoWorks
<1>6. CASE UNCHANGED <<generation, journal>> /\ (Stop(c) \/ Goto(c, "promote:advance", <<j>>))
  BY <1>1, <1>3, <1>4, <1>6, ReadingWorks DEF tableVars
<1> QED
  BY <1>2, <1>5, <1>6 DEF FinalizePromotion

\* A retirement row is written.
LEMMA RowWritten ==
    ASSUME DeletionInv, NEW g \in Generations, NEW row \in RetirementRow,
           retirement' = [retirement EXCEPT ![g] = row],
           \A h \in Generations : generation[h].state = "RETIRED" /\ h # g =>
               generation'[h].state = "RETIRED",
           row.state \in Deleted => generation'[g].state = "RETIRED"
    PROVE  RetirementEffect
<1>1. retirement \in [Generations -> RetirementRow \cup {None}]
  BY DEF DeletionInv, Tables
<1>2. retirement' \in [Generations -> RetirementRow \cup {None}] /\ retirement'[g] = row
      /\ \A h \in Generations : h # g => retirement'[h] = retirement[h]
  BY <1>1
<1>3. row # None
  BY RetirementAssumption
<1> QED
  BY <1>2, <1>3 DEF RetirementEffect, DeletionInv, DoomInv

LEMMA BeginWorks ==
    ASSUME DeletionInv, NEW c \in Coordinators, BeginRetirement(c)
    PROVE  Effects /\ WorkEffect
<1>1. work[c].pc = "protect:retire" /\ work[c].op \in Operations /\ Promotes(work[c].op)
  BY AtHand DEF BeginRetirement, At, Relies, PromotionSteps
<1>2. PICK g \in Generations : work[c].mem = <<g>>
  BY <1>1, AtHand DEF Relies
<1> DEFINE row == [op |-> work[c].op, state |-> "WAITING_ELIGIBILITY"]
<1>3. row \in RetirementRow /\ row.state \notin Deleted
  BY <1>1 DEF RetirementRow, RetirementStates, Deleted
<1>4. /\ UNCHANGED <<op, generation, journal, pointer>> /\ Goto(c, "protect:advance", <<>>)
      /\ \/ retirement' = retirement
         \/ retirement[g] = None /\ retirement' = [retirement EXCEPT ![g] = row]
  BY <1>2 DEF BeginRetirement
<1> HIDE DEF row
<1>5. RetirementEffect
  BY <1>3, <1>4, RetirementStays, RowWritten
<1>6. Effects
  BY <1>4, <1>5, OpStays, JournalStays, LifecycleStays DEF Effects
<1>7. Relies("protect:advance", work[c].op, <<>>)
  BY <1>1 DEF Relies, PromotionSteps, PrepareSteps, RowSteps, PlainSteps, CleanupSteps, DeleteSteps
<1> QED
  BY <1>1, <1>4, <1>6, <1>7, GotoWorks

\* The operator takes the protection of the rollback generation away.
LEMMA ReleaseWorks ==
    ASSUME DeletionInv, NEW g \in Generations, ReleaseRollbackProtection(g)
    PROVE  Effects /\ WorkEffect
<1> DEFINE row == [state |-> generation[g].state, protection |-> "NONE",
                   version |-> generation[g].version + 1]
<1>1. /\ generation \in [Generations -> GenerationRow] /\ generation[g].protection = "ROLLBACK"
      /\ generation[g].version + 1 \in Nat /\ pointer \in Pointer
      /\ pointer.version \in Nat /\ pointer.version + 1 \in Nat
      /\ pointer.version + 1 >= pointer.version
  BY DEF ReleaseRollbackProtection, ReleaseAllowed, DeletionInv, Tables, GenerationRow, Pointer
<1>2. /\ generation' = [generation EXCEPT ![g] = row] /\ UNCHANGED <<op, work, journal>>
      /\ pointer' = [pointer EXCEPT !.previous = None, !.version = pointer.version + 1]
  BY DEF ReleaseRollbackProtection, storeVars
<1>3. row \in GenerationRow /\ row.state = generation[g].state /\ row.protection = "NONE"
  BY <1>1 DEF GenerationRow, Protections
<1> HIDE DEF row
<1>4. /\ generation' \in [Generations -> GenerationRow] /\ generation'[g] = row
      /\ \A h \in Generations : h # g => generation'[h] = generation[h]
  BY <1>1, <1>2, <1>3
<1>5. LifecycleEffect
  BY <1>1, <1>3, <1>4 DEF LifecycleEffect, Doomed, DeletionInv, DoomInv
<1>6. RetirementEffect
  <2>1. CASE retirement' = retirement
    BY <1>3, <1>4, <2>1 DEF RetirementEffect, DeletionInv, Tables, DoomInv
  <2>2. CASE retirement[g] # None /\ retirement' = [retirement EXCEPT ![g].state = "WAITING_ELIGIBILITY"]
    <3>1. retirement[g] \in RetirementRow
      BY <2>2 DEF DeletionInv, Tables
    <3>2. /\ [retirement[g] EXCEPT !.state = "WAITING_ELIGIBILITY"] \in RetirementRow
          /\ [retirement[g] EXCEPT !.state = "WAITING_ELIGIBILITY"].state \notin Deleted
      BY <3>1 DEF RetirementRow, RetirementStates, Deleted
    <3>3. retirement' = [retirement EXCEPT ![g] = [retirement[g] EXCEPT !.state = "WAITING_ELIGIBILITY"]]
      BY <2>2
    <3> QED
      BY <1>4, <3>2, <3>3, RowWritten
  <2> QED
    BY <2>1, <2>2 DEF ReleaseRollbackProtection
<1>7. JournalEffect
  <2>1. pointer' \in Pointer /\ pointer'.version = pointer.version + 1 /\ pointer'.previous = None
        /\ pointer'.generation = pointer.generation
    BY <1>1, <1>2 DEF Pointer
  <2>2. journal' = journal /\ journal \in Seq(JournalRow)
    BY <1>2 DEF DeletionInv, Tables
  <2> QED
    BY <1>1, <2>1, <2>2 DEF JournalEffect, Rows, Cut
<1> QED
  BY <1>2, <1>5, <1>6, <1>7, OpStays DEF Effects, WorkEffect

LEMMA PromotionWorks ==
    ASSUME DeletionInv, NEW c \in Coordinators, PromotionStep(c), UNCHANGED physicalVars
    PROVE  Effects /\ WorkEffect
BY PromotionReads, PromotionAdvances, PrepareWorks, CasWorks, MarkWorks, FinalizeWorks, BeginWorks
   DEF PromotionStep

-----------------------------------------------------------------------------
(***************************************************************************)
(* The calls of a cleanup.                                                 *)
(***************************************************************************)

\* The generation of a deletion at work is doomed, whatever comes next.
LEMMA DeletionReliance ==
    ASSUME DeletionInv, NEW c \in Coordinators, work[c].pc \in DeleteSteps,
           NEW pc \in CleanupSteps, NEW mem,
           pc \in DeleteSteps \ {"delete:plan"} => mem[2] \in DOMAIN Roles
    PROVE  Relies(pc, work[c].op, mem) /\ pc # "idle" /\ work[c].pc # "idle"
<1>1. Relies(work[c].pc, work[c].op, work[c].mem) /\ work[c].pc # "idle"
  BY AtHand DEF DeleteSteps
<1>2. retirement[op[work[c].op].candidate] # None /\ Doomed(op[work[c].op].candidate)
  BY <1>1 DEF Relies, CleanupSteps
<1> QED
  BY <1>1, <1>2 DEF Relies, PromotionSteps, PrepareSteps, RowSteps, PlainSteps, CleanupSteps, DeleteSteps

\* The calls between the plan and the confirmation touch no row.
DeletionStep(c) ==
    \/ PlanDeletion(c) \/ MarkDeletionAuthority(c) \/ RecordDeletionPlan(c) \/ MarkDeletionFence(c)
    \/ AssertFirst(c) \/ VerifyAll(c) \/ AssertVolume(c) \/ VerifyVolume(c)
    \/ RecordIntent(c) \/ Remove(c) \/ RecordAccepted(c) \/ ObserveAbsence(c) \/ RecordAbsent(c)

\* The next call of a deletion: with the same plan and resource, with the
\* next resource, or with a plan of its own.
LEMMA DeletionGoes ==
    ASSUME DeletionInv, NEW c \in Coordinators, DeletionStep(c)
    PROVE  /\ UNCHANGED <<op, tableVars, expected>> /\ work[c].pc \in DeleteSteps
           /\ \/ Stop(c)
              \/ \E pc \in CleanupSteps : \E mem :
                    /\ Goto(c, pc, mem)
                    /\ pc \in DeleteSteps \ {"delete:plan"} => mem[2] \in DOMAIN Roles
<1>1. 1 \in DOMAIN Roles /\ 2 \in DOMAIN Roles /\ 3 \in DOMAIN Roles /\ DOMAIN Roles = 1..3
      /\ Roles[1] = "workload" /\ Roles[2] = "pvc" /\ Roles[3] = "service"
  BY DEF Roles
<1>2. ASSUME work[c].pc \in DeleteSteps \ {"delete:plan"}
      PROVE  work[c].mem[2] \in DOMAIN Roles
  BY <1>2, AtHand DEF Relies, DeleteSteps
<1>3. CASE PlanDeletion(c)
  <2>1. Stop(c) \/ \E m : Goto(c, "delete:mark", <<m, 1>>)
    BY <1>3 DEF PlanDeletion
  <2> QED
    BY <1>1, <1>3, <2>1 DEF PlanDeletion, At, DeleteSteps, CleanupSteps, physicalVars
<1>4. CASE MarkDeletionAuthority(c)
  <2>1. Stop(c) \/ \E m : Goto(c, "delete:record", <<m, 1>>)
    BY <1>4 DEF MarkDeletionAuthority
  <2> QED
    BY <1>1, <1>4, <2>1 DEF MarkDeletionAuthority, At, DeleteSteps, CleanupSteps
<1>5. CASE RecordDeletionPlan(c)
  BY <1>2, <1>5 DEF RecordDeletionPlan, At, DeleteSteps, CleanupSteps, Continue
<1>6. CASE MarkDeletionFence(c)
  BY <1>2, <1>6 DEF MarkDeletionFence, AttemptState, At, DeleteSteps, CleanupSteps
<1>7. CASE AssertFirst(c) \/ AssertVolume(c)
  BY <1>2, <1>7 DEF AssertFirst, AssertVolume, AssertAuthority, Continue, At, DeleteSteps, CleanupSteps,
                    physicalVars
<1>8. CASE VerifyAll(c) \/ VerifyVolume(c)
  BY <1>2, <1>8 DEF VerifyAll, VerifyVolume, Continue, At, DeleteSteps, CleanupSteps, physicalVars
<1>9. CASE RecordIntent(c) \/ RecordAccepted(c)
  BY <1>2, <1>9 DEF RecordIntent, RecordAccepted, AttemptState, At, DeleteSteps, CleanupSteps
<1>10. CASE Remove(c) \/ ObserveAbsence(c)
  BY <1>2, <1>10 DEF Remove, ObserveAbsence, Continue, At, DeleteSteps, CleanupSteps, physicalVars
<1>11. CASE RecordAbsent(c)
  <2>1. work[c].pc = "delete:absent" /\ work[c].mem[2] \in 1..3
    BY <1>1, <1>2, <1>11 DEF RecordAbsent, At, DeleteSteps
  <2> DEFINE next == CASE Role(c) = "workload" -> "delete:reassert"
                       [] Role(c) = "pvc"      -> "delete:intent"
                       [] Role(c) = "service"  -> "cleanup:confirm"
             mem == <<Plan(c), work[c].mem[2] + 1>>
  <2>2. /\ next \in CleanupSteps
        /\ next \in DeleteSteps \ {"delete:plan"} => mem[2] \in DOMAIN Roles
    <3>1. CASE work[c].mem[2] = 1
      <4>1. next = "delete:reassert" /\ mem[2] = 2
        BY <1>1, <3>1 DEF Role
      <4> QED
        BY <1>1, <4>1 DEF CleanupSteps, DeleteSteps
    <3>2. CASE work[c].mem[2] = 2
      <4>1. next = "delete:intent" /\ mem[2] = 3
        BY <1>1, <3>2 DEF Role
      <4> QED
        BY <1>1, <4>1 DEF CleanupSteps, DeleteSteps
    <3>3. CASE work[c].mem[2] = 3
      <4>1. next = "cleanup:confirm"
        BY <1>1, <3>3 DEF Role
      <4> QED
        BY <4>1 DEF CleanupSteps, DeleteSteps
    <3>4. work[c].mem[2] = 1 \/ work[c].mem[2] = 2 \/ work[c].mem[2] = 3
      BY <2>1
    <3> HIDE DEF next, mem
    <3> QED
      BY <3>1, <3>2, <3>3, <3>4
  <2>3. Stop(c) \/ Goto(c, next, mem)
    BY <1>11 DEF RecordAbsent, AttemptState
  <2>4. UNCHANGED <<op, tableVars, expected>>
    BY <1>11 DEF RecordAbsent, AttemptState
  <2> HIDE DEF next, mem
  <2> QED
    BY <2>1, <2>2, <2>3, <2>4 DEF DeleteSteps
<1> QED
  BY <1>3, <1>4, <1>5, <1>6, <1>7, <1>8, <1>9, <1>10, <1>11 DEF DeletionStep

LEMMA DeletionWorks ==
    ASSUME DeletionInv, NEW c \in Coordinators, DeletionStep(c)
    PROVE  Effects /\ WorkEffect
<1>1. UNCHANGED <<op, tableVars>> /\ work[c].pc \in DeleteSteps /\ work[c].pc # "idle"
  BY DeletionGoes DEF DeleteSteps
<1>2. CASE Stop(c)
  BY <1>1, <1>2, ReadingWorks
<1>3. ASSUME NEW pc \in CleanupSteps, NEW mem, Goto(c, pc, mem),
             pc \in DeleteSteps \ {"delete:plan"} => mem[2] \in DOMAIN Roles
      PROVE  Effects /\ WorkEffect
  BY <1>1, <1>3, DeletionReliance, ReadingWorks
<1> QED
  BY <1>2, <1>3, DeletionGoes

\* The lifecycle of the generation at work is written.
LEMMA GenerationWritten ==
    ASSUME DeletionInv, NEW g \in Generations, NEW state \in {"RETIRING", "RETIRED"},
           NEW protection \in {"NONE", "RETIREMENT_IN_PROGRESS"},
           generation' = [generation EXCEPT ![g] =
              [state |-> state, protection |-> protection, version |-> @.version + 1]],
           generation[g].state # "ABSENT",
           protection = "RETIREMENT_IN_PROGRESS" \/ state = "RETIRED",
           Doomed(g) \/ Dooms(g)
    PROVE  /\ LifecycleEffect /\ generation'[g].state = state
           /\ \A h \in Generations : h # g => generation'[h] = generation[h]
<1> DEFINE row == [state |-> state, protection |-> protection, version |-> generation[g].version + 1]
<1>1. generation \in [Generations -> GenerationRow] /\ generation[g].version + 1 \in Nat
  BY DEF DeletionInv, Tables, GenerationRow
<1>2. row \in GenerationRow /\ row.state = state /\ row.protection = protection
  BY <1>1 DEF GenerationRow, GenerationStates, Protections
<1>3. generation' = [generation EXCEPT ![g] = row]
  OBVIOUS
<1> HIDE DEF row
<1>4. /\ generation' \in [Generations -> GenerationRow] /\ generation'[g] = row
      /\ \A h \in Generations : h # g => generation'[h] = generation[h]
  BY <1>1, <1>2, <1>3
<1> QED
  BY <1>2, <1>4 DEF LifecycleEffect, Doomed, DeletionInv, DoomInv

LEMMA ReevaluateWorks ==
    ASSUME DeletionInv, NEW c \in Coordinators, Reevaluate(c)
    PROVE  Effects /\ WorkEffect
<1> DEFINE o == work[c].op
           g == Candidate(c)
           r == [op[o] EXCEPT !.owner = None, !.live = FALSE]
           s == [op[o] EXCEPT !.state = "CLEANING_UP", !.owner = None, !.live = FALSE]
           row == [op |-> o, state |-> "RETIRING"]
<1>1. /\ work[c].pc # "idle" /\ o \in Operations /\ g \in Generations /\ g = op[o].candidate
      /\ op[o] \in RetirementOperation /\ op[o].fence \in Nat
  BY AtHand DEF Reevaluate, At, DeletionInv, Tables, RetirementOperation
<1>2. Stop(c) /\ UNCHANGED <<journal, pointer>>
  BY DEF Reevaluate
<1>3. CASE op' = [op EXCEPT ![o] = r] /\ UNCHANGED <<generation, retirement>>
  <2>1. r \in RetirementOperation /\ r.state = op[o].state /\ r.candidate = op[o].candidate
        /\ r.fence = op[o].fence
    BY <1>1 DEF RetirementOperation
  <2> HIDE DEF r
  <2>2. op[o].fence >= op[o].fence
    BY <1>1
  <2>3. OpEffect
    BY <1>1, <1>3, <2>1, <2>2, OpWritten
  <2> QED
    BY <1>2, <1>3, <2>3, JournalStays, LifecycleStays, RetirementStays, StopWorks DEF Effects
<1>4. CASE /\ op[o].state = "RETIREMENT_WAITING_ELIGIBILITY" /\ Eligible(o, g)
           /\ generation' = [generation EXCEPT ![g] =
                [state |-> "RETIRING", protection |-> "RETIREMENT_IN_PROGRESS",
                 version |-> @.version + 1]]
           /\ retirement' = [retirement EXCEPT ![g] = row]
           /\ op' = [op EXCEPT ![o] = s]
  <2>1. s \in RetirementOperation /\ s.state = "CLEANING_UP" /\ s.candidate = op[o].candidate
        /\ s.fence = op[o].fence
    BY <1>1 DEF RetirementOperation, STATES, ACTIVE
  <2>2. row \in RetirementRow /\ row.state \notin Deleted
    BY <1>1 DEF RetirementRow, RetirementStates, Deleted
  <2>3. Dooms(g) /\ generation[g].state # "ABSENT"
    BY <1>1, <1>4 DEF Dooms, Promotes, PromotionStates, Eligible
  <2> HIDE DEF s, row
  <2>4. OpEffect
    BY <1>1, <1>4, <2>1, OpWritten DEF Moves
  <2>5. LifecycleEffect /\ \A h \in Generations : h # g => generation'[h] = generation[h]
    BY <1>1, <1>4, <2>3, GenerationWritten
  <2>6. RetirementEffect
    BY <1>1, <1>4, <2>2, <2>5, RowWritten
  <2> QED
    BY <1>2, <2>4, <2>5, <2>6, JournalStays, StopWorks DEF Effects
<1>5. CASE UNCHANGED <<op, generation, retirement>>
  BY <1>1, <1>2, <1>5, ReadingWorks DEF tableVars
<1> QED
  BY <1>3, <1>4, <1>5 DEF Reevaluate

\* The calls of a cleanup outside the deletion itself.
LEMMA CleanupReliance ==
    ASSUME NEW o, retirement[op[o].candidate] # None,
           NEW pc \in CleanupSteps, pc \in DeleteSteps => pc = "delete:plan" /\ Doomed(op[o].candidate)
    PROVE  Relies(pc, o, <<>>) /\ pc # "idle"
BY DEF Relies, PromotionSteps, PrepareSteps, RowSteps, PlainSteps, CleanupSteps, DeleteSteps

LEMMA LoadWorks ==
    ASSUME DeletionInv, NEW c \in Coordinators, LoadRetirement(c)
    PROVE  Effects /\ WorkEffect
<1>1. work[c].pc # "idle" /\ UNCHANGED <<op, tableVars>>
  BY DEF LoadRetirement, At
<1>2. CASE Stop(c)
  BY <1>1, <1>2, ReadingWorks
<1>3. CASE /\ OwnRow(c)
           /\ \E pc \in {"cleanup:retire", "cleanup:authorize", "cleanup:finalize", "cleanup:complete"} :
                 Goto(c, pc, <<>>)
  <2>1. PICK pc \in {"cleanup:retire", "cleanup:authorize", "cleanup:finalize", "cleanup:complete"} :
            Goto(c, pc, <<>>)
    BY <1>3
  <2>2. retirement[op[work[c].op].candidate] # None /\ pc \in CleanupSteps /\ pc \notin DeleteSteps
    BY <1>3 DEF OwnRow, RowOf, Candidate, CleanupSteps, DeleteSteps
  <2>3. Relies(pc, work[c].op, <<>>) /\ pc # "idle"
    BY <2>2, CleanupReliance
  <2> QED
    BY <1>1, <2>1, <2>3, ReadingWorks
<1> QED
  BY <1>2, <1>3 DEF LoadRetirement

\* What a call outside the deletion has at hand.
LEMMA CleanupAtHand ==
    ASSUME DeletionInv, NEW c \in Coordinators, work[c].pc \in CleanupSteps
    PROVE  /\ work[c].pc # "idle" /\ work[c].op \in Operations /\ Candidate(c) \in Generations
           /\ Candidate(c) = op[work[c].op].candidate
           /\ RowOf(c) # None
           /\ RowOf(c).state \in Deleted =>
                 generation[Candidate(c)].state = "RETIRED" /\ Doomed(Candidate(c))
           /\ \A state \in RetirementStates : [op |-> work[c].op, state |-> state] \in RetirementRow
<1>1. work[c].pc # "idle"
  BY DEF CleanupSteps, DeleteSteps
<1>2. Relies(work[c].pc, work[c].op, work[c].mem)
  BY <1>1, AtHand
<1>3. work[c].op \in Operations /\ Candidate(c) \in Generations
      /\ Candidate(c) = op[work[c].op].candidate
  BY <1>1, AtHand
<1>4. RowOf(c) # None
  BY <1>2, <1>3 DEF Relies, RowOf
<1> QED
  BY <1>1, <1>3, <1>4 DEF RowOf, DeletionInv, DoomInv, Doomed, RetirementRow

LEMMA RetireWorks ==
    ASSUME DeletionInv, NEW c \in Coordinators, MarkGenerationRetired(c)
    PROVE  Effects /\ WorkEffect
<1> DEFINE o == work[c].op
           g == Candidate(c)
           row == [op |-> o, state |-> "LOGICALLY_RETIRED"]
<1>1. work[c].pc = "cleanup:retire" /\ work[c].pc \in CleanupSteps
      /\ UNCHANGED <<op, journal, pointer>>
  BY DEF MarkGenerationRetired, At, CleanupSteps
<1>2. /\ work[c].pc # "idle" /\ o \in Operations /\ g \in Generations /\ g = op[o].candidate
      /\ retirement[g] # None /\ row \in RetirementRow
  BY <1>1, CleanupAtHand DEF RowOf, RetirementStates
<1>3. CASE /\ generation[g].state = "RETIRING" /\ generation[g].protection = "RETIREMENT_IN_PROGRESS"
           /\ generation' = [generation EXCEPT ![g] =
                [state |-> "RETIRED", protection |-> @.protection, version |-> @.version + 1]]
           /\ retirement' = [retirement EXCEPT ![g] = row]
           /\ Goto(c, "cleanup:authorize", <<>>)
  <2>1. Doomed(g)
    BY <1>3 DEF Doomed
  <2>2. generation' = [generation EXCEPT ![g] =
          [state |-> "RETIRED", protection |-> "RETIREMENT_IN_PROGRESS", version |-> @.version + 1]]
    BY <1>3
  <2>3. LifecycleEffect /\ generation'[g].state = "RETIRED"
        /\ \A h \in Generations : h # g => generation'[h] = generation[h]
    BY <1>2, <1>3, <2>1, <2>2, GenerationWritten
  <2>4. RetirementEffect
    <3> HIDE DEF row
    <3> QED
      BY <1>2, <1>3, <2>3, RowWritten
  <2>5. Effects
    BY <1>1, <2>3, <2>4, OpStays, JournalStays DEF Effects
  <2>6. Relies("cleanup:authorize", o, <<>>)
    BY <1>2, CleanupReliance DEF CleanupSteps, DeleteSteps
  <2> QED
    BY <1>2, <1>3, <2>5, <2>6, GotoWorks
<1>4. CASE Stop(c) /\ UNCHANGED <<generation, retirement>>
  BY <1>1, <1>2, <1>4, ReadingWorks DEF tableVars
<1> QED
  BY <1>3, <1>4 DEF MarkGenerationRetired, Rejected, Fenced

LEMMA AuthorizeWorks ==
    ASSUME DeletionInv, NEW c \in Coordinators, AuthorizePhysicalDeletion(c)
    PROVE  Effects /\ WorkEffect
<1> DEFINE o == work[c].op
           g == Candidate(c)
           row == [op |-> o, state |-> "PHYSICAL_DELETE_PENDING"]
<1>1. work[c].pc = "cleanup:authorize" /\ work[c].pc \in CleanupSteps
      /\ UNCHANGED <<op, generation, journal, pointer>>
  BY DEF AuthorizePhysicalDeletion, At, CleanupSteps
<1>2. /\ work[c].pc # "idle" /\ o \in Operations /\ g \in Generations /\ g = op[o].candidate
      /\ retirement[g] # None /\ row \in RetirementRow
      /\ RowOf(c).state \in Deleted => generation[g].state = "RETIRED" /\ Doomed(g)
  BY <1>1, CleanupAtHand DEF RowOf, RetirementStates
<1>3. CASE /\ RowOf(c).state \in {"LOGICALLY_RETIRED", "PHYSICAL_DELETE_PENDING"}
           /\ retirement' = [retirement EXCEPT ![g] = row]
           /\ Goto(c, "delete:plan", <<>>)
  <2>1. generation[g].state = "RETIRED" /\ Doomed(g)
    BY <1>2, <1>3 DEF Deleted
  <2>2. RetirementEffect
    <3> HIDE DEF row
    <3> QED
      BY <1>1, <1>2, <1>3, <2>1, RowWritten
  <2>3. Effects
    BY <1>1, <2>2, OpStays, JournalStays, LifecycleStays DEF Effects
  <2>4. Relies("delete:plan", o, <<>>)
    BY <1>2, <2>1, CleanupReliance DEF CleanupSteps, DeleteSteps
  <2> QED
    BY <1>2, <1>3, <2>3, <2>4, GotoWorks
<1>4. CASE Stop(c) /\ UNCHANGED retirement
  BY <1>1, <1>2, <1>4, ReadingWorks DEF tableVars
<1> QED
  BY <1>3, <1>4 DEF AuthorizePhysicalDeletion, Rejected, Fenced

LEMMA ConfirmWorks ==
    ASSUME DeletionInv, NEW c \in Coordinators, ConfirmPhysicalDeletion(c)
    PROVE  Effects /\ WorkEffect
<1> DEFINE o == work[c].op
           g == Candidate(c)
           row == [op |-> o, state |-> "PHYSICALLY_DELETED"]
<1>1. work[c].pc = "cleanup:confirm" /\ work[c].pc \in CleanupSteps
      /\ UNCHANGED <<op, generation, journal, pointer>>
  BY DEF ConfirmPhysicalDeletion, At, CleanupSteps
<1>2. /\ work[c].pc # "idle" /\ o \in Operations /\ g \in Generations /\ g = op[o].candidate
      /\ retirement[g] # None /\ row \in RetirementRow
      /\ RowOf(c).state \in Deleted => generation[g].state = "RETIRED" /\ Doomed(g)
  BY <1>1, CleanupAtHand DEF RowOf, RetirementStates
<1>3. CASE /\ RowOf(c).state = "PHYSICAL_DELETE_PENDING"
           /\ retirement' = [retirement EXCEPT ![g] = row]
           /\ Goto(c, "cleanup:finalize", <<>>)
  <2>1. generation[g].state = "RETIRED"
    BY <1>2, <1>3 DEF Deleted
  <2>2. RetirementEffect
    <3> HIDE DEF row
    <3> QED
      BY <1>1, <1>2, <1>3, <2>1, RowWritten
  <2>3. Effects
    BY <1>1, <2>2, OpStays, JournalStays, LifecycleStays DEF Effects
  <2>4. Relies("cleanup:finalize", o, <<>>)
    BY <1>2, CleanupReliance DEF CleanupSteps, DeleteSteps
  <2> QED
    BY <1>2, <1>3, <2>3, <2>4, GotoWorks
<1>4. CASE Stop(c) /\ UNCHANGED retirement
  BY <1>1, <1>2, <1>4, ReadingWorks DEF tableVars
<1> QED
  BY <1>3, <1>4 DEF ConfirmPhysicalDeletion, Confirmed, HasAuthority

LEMMA FinalizeRetirementWorks ==
    ASSUME DeletionInv, NEW c \in Coordinators, FinalizeRetirement(c)
    PROVE  Effects /\ WorkEffect
<1> DEFINE o == work[c].op
           g == Candidate(c)
           row == [op |-> o, state |-> "METADATA_FINALIZED"]
<1>1. work[c].pc = "cleanup:finalize" /\ work[c].pc \in CleanupSteps
      /\ UNCHANGED <<op, journal, pointer>>
  BY DEF FinalizeRetirement, At, CleanupSteps
<1>2. /\ work[c].pc # "idle" /\ o \in Operations /\ g \in Generations /\ g = op[o].candidate
      /\ retirement[g] # None /\ row \in RetirementRow
      /\ RowOf(c).state \in Deleted => generation[g].state = "RETIRED" /\ Doomed(g)
  BY <1>1, CleanupAtHand DEF RowOf, RetirementStates
<1>3. CASE /\ RowOf(c).state = "PHYSICALLY_DELETED"
           /\ generation' = [generation EXCEPT ![g] =
                [state |-> @.state, protection |-> "NONE", version |-> @.version + 1]]
           /\ retirement' = [retirement EXCEPT ![g] = row]
           /\ Goto(c, "cleanup:complete", <<>>)
  <2>1. generation[g].state = "RETIRED" /\ Doomed(g)
    BY <1>2, <1>3 DEF Deleted
  <2>2. generation' = [generation EXCEPT ![g] =
          [state |-> "RETIRED", protection |-> "NONE", version |-> @.version + 1]]
    BY <1>3, <2>1
  <2>3. LifecycleEffect /\ generation'[g].state = "RETIRED"
        /\ \A h \in Generations : h # g => generation'[h] = generation[h]
    BY <1>2, <2>1, <2>2, GenerationWritten
  <2>4. RetirementEffect
    <3> HIDE DEF row
    <3> QED
      BY <1>2, <1>3, <2>3, RowWritten
  <2>5. Effects
    BY <1>1, <2>3, <2>4, OpStays, JournalStays DEF Effects
  <2>6. Relies("cleanup:complete", o, <<>>)
    BY <1>2, CleanupReliance DEF CleanupSteps, DeleteSteps
  <2> QED
    BY <1>2, <1>3, <2>5, <2>6, GotoWorks
<1>4. CASE Stop(c) /\ UNCHANGED <<generation, retirement>>
  BY <1>1, <1>2, <1>4, ReadingWorks DEF tableVars
<1> QED
  BY <1>3, <1>4 DEF FinalizeRetirement

LEMMA CleanupWorks ==
    ASSUME DeletionInv, NEW c \in Coordinators, CleanupStep(c)
    PROVE  Effects /\ WorkEffect
<1>1. CASE CompleteCleanup(c)
  BY <1>1, TransitionWorks DEF CompleteCleanup, At, Moves
<1> QED
  BY <1>1, ReevaluateWorks, LoadWorks, RetireWorks, AuthorizeWorks, DeletionWorks, ConfirmWorks,
     FinalizeRetirementWorks DEF CleanupStep, DeletionStep

LEMMA RetirementWorks ==
    ASSUME DeletionInv, [RetirementNext]_allVars
    PROVE  Effects /\ WorkEffect
<1>1. CASE ClusterStep
  <2>1. UNCHANGED <<op, work, tableVars>>
    BY <1>1 DEF ClusterStep, Vanish, StatusWritten, LateCreate, storeVars
  <2> QED
    BY <2>1, NoEffect DEF WorkEffect
<1>2. CASE UNCHANGED allVars
  BY <1>2, NoEffect DEF allVars, vars, storeVars, WorkEffect
<1>3. ASSUME NEW c \in Coordinators,
             RetirementClaim(c) \/ CleanupStep(c) \/ (PromotionStep(c) /\ UNCHANGED physicalVars)
      PROVE  Effects /\ WorkEffect
  BY <1>3, ClaimWorks, CleanupWorks, PromotionWorks
<1>4. ASSUME NEW o \in Operations, NEW g \in Generations, ScheduleCleanup(o, g)
      PROVE  Effects /\ WorkEffect
  BY <1>4, RequestWorks
<1>5. ASSUME NEW g \in Generations, ReleaseRollbackProtection(g)
      PROVE  Effects /\ WorkEffect
  BY <1>5, ReleaseWorks
<1>6. CASE RetirementStoreStep
  BY <1>6, StoreWorks
<1> QED
  BY <1>1, <1>2, <1>3, <1>4, <1>5, <1>6 DEF RetirementNext

-----------------------------------------------------------------------------
(***************************************************************************)
(* The theorems on the rows.                                               *)
(***************************************************************************)

LEMMA InitDeletionInv == RetirementInit => DeletionInv
<1> SUFFICES ASSUME RetirementInit PROVE DeletionInv
  OBVIOUS
<1>1. PICK ready \in Generations \ {InitialServing}, failed \in Generations \ {InitialServing} :
        /\ ready # failed
        /\ op = [o \in Operations |->
                   IF \A p \in Operations : o <= p THEN Unclaimed("READY_TO_PROMOTE", ready)
                   ELSE Unclaimed("ABSENT", ready)]
        /\ generation = [g \in Generations |->
             [state |-> CASE g = InitialServing -> "SERVING" [] g = ready -> "READY"
                          [] g = failed -> "FAILED" [] OTHER -> "ABSENT",
              protection |-> IF g = InitialServing THEN "SERVING" ELSE "NONE",
              version |-> 1]]
  BY DEF RetirementInit
<1>2. /\ work = [c \in Coordinators |-> Idle] /\ journal = <<>>
      /\ pointer = [generation |-> InitialServing, previous |-> None, version |-> 1]
      /\ retirement = [g \in Generations |-> None]
  BY DEF RetirementInit
<1>3. op \in [Operations -> RetirementOperation]
      /\ \A o \in Operations : op[o].state \in {"READY_TO_PROMOTE", "ABSENT"}
  BY <1>1 DEF Unclaimed, RetirementOperation, STATES, ACTIVE
<1>4. generation \in [Generations -> GenerationRow]
      /\ \A g \in Generations : /\ generation[g].protection \in {"SERVING", "NONE"}
                                /\ generation[g].state \in {"SERVING", "READY", "FAILED", "ABSENT"}
  BY <1>1 DEF GenerationRow, GenerationStates, Protections
<1>5. journal \in Seq(JournalRow) /\ Rows = {}
  BY <1>2 DEF Rows
<1>6. pointer \in Pointer
  BY <1>2, PromotionAssumption DEF Pointer
<1>7. Tables
  BY <1>2, <1>3, <1>4, <1>5, <1>6 DEF Tables
<1>8. Knowledge
  BY <1>2 DEF Knowledge
<1>9. JournalInv
  BY <1>3, <1>5 DEF JournalInv
<1>10. DoomInv
  BY <1>2, <1>4 DEF DoomInv, Doomed
<1> QED
  BY <1>7, <1>8, <1>9, <1>10 DEF DeletionInv

\* The decision to retire holds, whatever the processes remember: types,
\* knowledge, journal and doom of every behaviour.
LEMMA DeletionInvHolds == RetirementSpec => []DeletionInv
<1>1. DeletionInv /\ [RetirementNext]_allVars => DeletionInv'
  BY RetirementWorks, DeletionInvKept
<1> QED
  BY InitDeletionInv, <1>1, PTL DEF RetirementSpec

-----------------------------------------------------------------------------
(***************************************************************************)
(* The deletion itself: fences, plans, attempts and objects.               *)
(***************************************************************************)

AttemptStates == {"PLANNED", "FENCE_MARKED", "DELETE_INTENT", "DELETE_ACCEPTED", "ABSENT_CONFIRMED"}
Attempt == [op : Operations, fence : Nat, role : RoleNames, uid : Nat, state : AttemptStates]
ClusterObject == [uid : Nat, rv : Nat, deleting : BOOLEAN,
                  marker : [op : Operations, fence : Nat] \cup {None}]
DeletionPlan == [RoleNames -> [uid : Nat \ {0}, rv : Nat]]

PhysicalTypes ==
    /\ expected \in [Operations -> [pointer : Nat, generation : Nat, fence : Nat]]
    /\ attempts \in SUBSET Attempt
    /\ cluster \in [Generations -> [RoleNames -> ClusterObject]]
    /\ faults \in Nat

Intended(a) == a.state \notin {"PLANNED", "FENCE_MARKED"}
Absent(a) == a.state = "ABSENT_CONFIRMED"
Own(w) == {a \in attempts : a.op = w.op /\ a.fence = w.fence}
TargetUid(a) == cluster[op[a.op].candidate][a.role].uid

CleanupHandler == CleanupSteps \cup {"RETIREMENT_WAITING_ELIGIBILITY", "CLEANING_UP"}

PlanSteps == {"delete:mark", "delete:record"}
AttemptSteps == DeleteSteps \ {"delete:plan", "delete:mark", "delete:record"}
EndSteps == {"cleanup:confirm", "cleanup:finalize", "cleanup:complete"}

\* What a process of a cleanup may rely on: its plan names objects that were
\* there, and the attempts under its fence are those of this plan.
Grasps(w) ==
    /\ w.fence <= op[w.op].fence
    /\ w.pc \in CleanupHandler => CleansUp(w.op)
    /\ w.pc \in PlanSteps \cup AttemptSteps =>
          /\ w.mem[1] \in DeletionPlan
          /\ \A role \in RoleNames : w.mem[1][role].uid <= faults + 1
    /\ w.pc \notin AttemptSteps \cup EndSteps => Own(w) = {}
    /\ w.pc \in AttemptSteps => \A a \in Own(w) : a.uid = w.mem[1][a.role].uid
    /\ w.pc = "delete:remove" => \E a \in Own(w) : a.role = Roles[w.mem[2]] /\ Intended(a)
    /\ w.pc = "delete:absent" =>
          cluster[op[w.op].candidate][Roles[w.mem[2]]].uid # w.mem[1][Roles[w.mem[2]]].uid
    /\ w.pc = "cleanup:complete" => retirement[op[w.op].candidate].state = "METADATA_FINALIZED"

Settled(o) == \A a \in attempts : a.op = o /\ a.fence = expected[o].fence => Absent(a)

Undecided == {"REQUESTED", "WAITING_ELIGIBILITY"}

\* The retirement row of a cleanup is its own, and says no more than its
\* attempts do.
CleanupRow(o) ==
    LET row == retirement[op[o].candidate] IN
    /\ row # None /\ row.op = o
    /\ row.state \in {"PHYSICALLY_DELETED", "METADATA_FINALIZED"} => Settled(o)
    /\ op[o].state = "COMPLETED" => row.state = "METADATA_FINALIZED"
    /\ op[o].state = "RETIREMENT_WAITING_ELIGIBILITY" => row.state \in Undecided

\* No uid is ever used twice: what is confirmed absent stays absent.
AttemptsInv ==
    /\ \A a \in attempts : /\ a.uid \in 1..(faults + 1)
                           /\ a.fence <= op[a.op].fence /\ op[a.op].state # "ABSENT"
                           /\ Absent(a) => TargetUid(a) # a.uid
    /\ \A g \in Generations, role \in RoleNames : cluster[g][role].uid <= faults + 1

GraspInv == \A c \in Coordinators : work[c] = Idle \/ Grasps(work[c])

PhysicalInv ==
    /\ PhysicalTypes
    /\ GraspInv
    /\ FenceNamesOneClaim
    /\ AttemptsInv
    /\ \A o \in Operations : CleansUp(o) => CleanupRow(o)
    /\ IntentNamesWhatIsDeleted
    /\ DamageInv

-----------------------------------------------------------------------------
(***************************************************************************)
(* The steps, by what they do to attempts, objects and retirement rows.    *)
(***************************************************************************)

Same(a, b) == a.op = b.op /\ a.fence = b.fence /\ a.role = b.role /\ a.uid = b.uid

\* Attempts are planned under the authority of a claim, and go forward.
AttemptEffect ==
    /\ attempts' \in SUBSET Attempt
    /\ \A a \in attempts : \E b \in attempts' : Same(a, b) /\ (Intended(a) => Intended(b))
    /\ \A b \in attempts' :
          \/ \E a \in attempts : /\ Same(a, b) /\ (Absent(a) => Absent(b))
                                 /\ Absent(b) => Absent(a) \/ TargetUid(b) # b.uid
          \/ /\ ~Absent(b) /\ b.uid \in 1..(faults + 1)
             /\ b.fence <= op[b.op].fence /\ op[b.op].state # "ABSENT"
             /\ retirement[op[b.op].candidate] # None
             /\ retirement[op[b.op].candidate].state = "PHYSICAL_DELETE_PENDING"

\* An object is deleted as an attempt intends, vanishes, or is created under
\* a uid that was never used.
ObjectEffect ==
    /\ cluster' \in [Generations -> [RoleNames -> ClusterObject]]
    /\ faults' \in {faults, faults + 1}
    /\ \A g \in Generations, role \in RoleNames :
          /\ \/ cluster'[g][role].uid = cluster[g][role].uid
             \/ cluster'[g][role].uid = 0 /\ cluster[g][role].deleting
             \/ /\ cluster'[g][role].uid = faults + 2 /\ faults' = faults + 1
                /\ cluster[g][role].uid = 0
          /\ cluster'[g][role].deleting =>
                /\ cluster'[g][role].uid = cluster[g][role].uid
                /\ \/ cluster[g][role].deleting
                   \/ /\ Doomed(g)
                      /\ \E a \in attempts : /\ op[a.op].candidate = g /\ a.role = role
                                             /\ a.uid = cluster[g][role].uid /\ Intended(a)

\* A retirement row keeps its operation, and is confirmed when all attempts
\* under the fence it expects are.
RowEffect ==
    /\ expected' \in [Operations -> [pointer : Nat, generation : Nat, fence : Nat]]
    /\ \A o \in Operations :
          LET g == op[o].candidate
              row == retirement[g]
          IN  CleansUp(o) =>
                 /\ retirement'[g].op = row.op
                 /\ retirement'[g].state \in {"PHYSICALLY_DELETED", "METADATA_FINALIZED"} =>
                       /\ expected'[o].fence = expected[o].fence
                       /\ \/ row.state \in {"PHYSICALLY_DELETED", "METADATA_FINALIZED"}
                          \/ Settled(o) /\ attempts' = attempts
                 /\ row.state = "METADATA_FINALIZED" => retirement'[g].state = "METADATA_FINALIZED"
                 /\ op'[o].state = "COMPLETED" =>
                       op[o].state = "COMPLETED" \/ row.state = "METADATA_FINALIZED"
                 /\ op'[o].state = "RETIREMENT_WAITING_ELIGIBILITY" =>
                       retirement'[g].state = row.state \/ retirement'[g].state \in Undecided
    /\ \A o \in Operations : ~CleansUp(o) /\ CleansUp(o)' =>
          /\ retirement'[op'[o].candidate] = [op |-> o, state |-> "WAITING_ELIGIBILITY"]
          /\ op'[o].state # "COMPLETED"

\* Process c stops, claims, or goes on under its claim, and only the attempts
\* under that claim change.
ClaimEffect ==
    \/ work' = work /\ attempts' = attempts
    \/ \E c \in Coordinators :
          /\ \A d \in Coordinators : d # c => work'[d] = work[d]
          /\ \A a \in Attempt : ~(work[c] # Idle /\ a.op = work[c].op /\ a.fence = work[c].fence) =>
                (a \in attempts' <=> a \in attempts)
          /\ DOMAIN work' = Coordinators
          /\ \/ work'[c] = Idle
             \/ \E w : /\ work[c] # Idle /\ work'[c] = w /\ w.pc # "idle" /\ Grasps(w)'
                       /\ w.op = work[c].op /\ w.fence = work[c].fence
             \/ /\ work[c] = Idle /\ work'[c].op \in Operations /\ work'[c].pc \in ACTIVE
                /\ work'[c].fence = op[work'[c].op].fence + 1
                /\ work'[c].fence = op'[work'[c].op].fence
                /\ work'[c].pc = op[work'[c].op].state

PhysicalEffects == AttemptEffect /\ ObjectEffect /\ RowEffect /\ ClaimEffect

\* What a process relies on in a deletion stays true, whatever the others do.
LEMMA GraspKept ==
    ASSUME DeletionInv, PhysicalInv, Effects, PhysicalEffects,
           NEW w, Engaged(w), Grasps(w), Own(w)' = Own(w)
    PROVE  Grasps(w)'
<1>1. w.op \in Operations /\ w.fence \in Nat /\ op[w.op].state # "ABSENT"
      /\ Relies(w.pc, w.op, w.mem)
  BY DEF Engaged
<1>2. /\ op'[w.op].candidate = op[w.op].candidate
      /\ op'[w.op].fence >= op[w.op].fence \/ op'[w.op].fence = op[w.op].fence
      /\ op'[w.op].fence \in Nat /\ op[w.op].fence \in Nat
      /\ CleansUp(w.op) => CleansUp(w.op)'
      /\ op[w.op].candidate \in Generations
  BY <1>1, OpFacts DEF Effects, OpEffect, DeletionInv, Tables, RetirementOperation
<1>3. w.fence <= op'[w.op].fence
  BY <1>1, <1>2 DEF Grasps
<1>4. faults \in Nat /\ faults' \in {faults, faults + 1}
  BY DEF PhysicalInv, PhysicalTypes, PhysicalEffects, ObjectEffect
<1>5. ASSUME w.pc \in PlanSteps \cup AttemptSteps
      PROVE  /\ w.mem[1] \in DeletionPlan
             /\ \A role \in RoleNames : /\ w.mem[1][role].uid \in Nat \ {0}
                                        /\ w.mem[1][role].uid <= faults + 1
                                        /\ w.mem[1][role].uid <= faults' + 1
  <2>1. w.mem[1] \in DeletionPlan /\ \A role \in RoleNames : w.mem[1][role].uid <= faults + 1
    BY <1>5 DEF Grasps
  <2>2. \A role \in RoleNames : w.mem[1][role].uid \in Nat \ {0}
    BY <2>1 DEF DeletionPlan
  <2> QED
    BY <1>4, <2>1, <2>2
<1>6. ASSUME w.pc = "delete:absent"
      PROVE  cluster'[op[w.op].candidate][Roles[w.mem[2]]].uid # w.mem[1][Roles[w.mem[2]]].uid
  <2> DEFINE role == Roles[w.mem[2]]
             g == op[w.op].candidate
  <2>1. role \in RoleNames
    BY <1>1, <1>6 DEF Relies, DeleteSteps, RoleNames
  <2>2. cluster[g][role].uid # w.mem[1][role].uid
    BY <1>6 DEF Grasps
  <2>3. w.mem[1][role].uid \in Nat \ {0} /\ w.mem[1][role].uid <= faults + 1
    BY <1>5, <1>6, <2>1 DEF AttemptSteps, DeleteSteps
  <2>4. cluster'[g][role].uid \in {cluster[g][role].uid, 0, faults + 2}
    BY <1>2, <2>1 DEF PhysicalEffects, ObjectEffect
  <2>5. ASSUME NEW u, NEW v, u \in Nat \ {0}, u <= faults + 1, v # u,
               NEW x \in {v, 0, faults + 2}
        PROVE  x # u
    BY <1>4, <2>5
  <2> QED
    BY <2>2, <2>3, <2>4, <2>5
<1>7. ASSUME w.pc = "cleanup:complete"
      PROVE  retirement'[op[w.op].candidate].state = "METADATA_FINALIZED"
  <2>1. CleansUp(w.op) /\ retirement[op[w.op].candidate].state = "METADATA_FINALIZED"
    BY <1>7 DEF Grasps, CleanupHandler, CleanupSteps
  <2> QED
    BY <1>1, <2>1 DEF PhysicalEffects, RowEffect
<1>8. /\ w.pc \notin AttemptSteps \cup EndSteps => Own(w)' = {}
      /\ w.pc \in AttemptSteps => \A a \in Own(w)' : a.uid = w.mem[1][a.role].uid
      /\ w.pc = "delete:remove" => \E a \in Own(w)' : a.role = Roles[w.mem[2]] /\ Intended(a)
      /\ w.pc \in CleanupHandler => CleansUp(w.op)'
  BY <1>2 DEF Grasps
<1> HIDE DEF Own
<1> QED
  BY <1>2, <1>3, <1>5, <1>6, <1>7, <1>8 DEF Grasps, Intended

\* A claim that begins has made no attempt.
LEMMA ClaimGrasps ==
    ASSUME DeletionInv, PhysicalInv, Effects, PhysicalEffects,
           NEW w, w.op \in Operations, w.pc \in ACTIVE, w.fence = op[w.op].fence + 1,
           w.fence = op'[w.op].fence, w.pc = op[w.op].state,
           \A a \in Attempt : a \in attempts' <=> a \in attempts
    PROVE  Grasps(w)'
<1>1. op[w.op].fence \in Nat /\ op'[w.op].fence \in Nat /\ op[w.op].state # "ABSENT"
  BY DEF DeletionInv, Tables, RetirementOperation, Effects, OpEffect, ACTIVE
<1>2. attempts' = attempts
  BY DEF PhysicalInv, PhysicalTypes, PhysicalEffects, AttemptEffect
<1>3. \A a \in attempts : a.op = w.op => a.fence \in Nat /\ a.fence <= op[w.op].fence
  BY DEF PhysicalInv, PhysicalTypes, AttemptsInv, Attempt
<1>4. Own(w)' = {}
  BY <1>1, <1>2, <1>3 DEF Own
<1>5. w.pc \in CleanupHandler => CleansUp(w.op)'
  <2>1. w.pc \in CleanupHandler => CleansUp(w.op)
    BY DEF CleanupHandler, CleanupSteps, DeleteSteps, CleansUp, ACTIVE
  <2> QED
    BY <1>1, <2>1, OpFacts DEF Effects
<1>6. w.fence <= op'[w.op].fence
  BY <1>1
<1>7. w.pc \notin PlanSteps \cup AttemptSteps \cup {"delete:remove", "delete:absent", "cleanup:complete"}
  BY DEF ACTIVE, PlanSteps, AttemptSteps, DeleteSteps
<1> HIDE DEF Own
<1> QED
  BY <1>4, <1>5, <1>6, <1>7 DEF Grasps

LEMMA GraspsTogether ==
    ASSUME \A d \in Coordinators : \E v : v = work'[d] /\ (v = Idle \/ Grasps(v)')
    PROVE  GraspInv'
<1> SUFFICES ASSUME NEW d \in Coordinators, work'[d] # Idle
             PROVE  Grasps(work[d])'
  BY DEF GraspInv
<1>1. PICK v : v = work'[d] /\ Grasps(v)'
  OBVIOUS
<1>2. Own(work[d])' = Own(v)'
  BY <1>1 DEF Own
<1>3. CleansUp(work[d].op)' <=> CleansUp(v.op)'
  BY <1>1 DEF CleansUp
<1> HIDE DEF Own, CleansUp
<1> QED
  BY <1>1, <1>2, <1>3 DEF Grasps

\* Two processes never work under one claim.
LEMMA GraspInvKept ==
    ASSUME DeletionInv, PhysicalInv, Effects, WorkEffect, PhysicalEffects
    PROVE  GraspInv' /\ FenceNamesOneClaim'
<1>1. ASSUME NEW c \in Coordinators, work[c] # Idle
      PROVE  Engaged(work[c]) /\ Grasps(work[c]) /\ work[c].op \in Operations /\ work[c].fence \in Nat
             /\ work[c].pc # "idle" /\ work[c].fence <= op[work[c].op].fence
  BY <1>1 DEF DeletionInv, Knowledge, PhysicalInv, GraspInv, Engaged, Grasps
<1>2. ASSUME NEW c \in Coordinators, NEW d \in Coordinators, c # d, work[c] # Idle, work[d] # Idle,
             work[c].op = work[d].op
      PROVE  work[c].fence # work[d].fence
  BY <1>1, <1>2 DEF PhysicalInv, FenceNamesOneClaim, At
<1>3. \A o \in Operations : op[o].fence \in Nat
  BY DEF DeletionInv, Tables, RetirementOperation
<1>4. ASSUME NEW w, Engaged(w), Grasps(w),
             \A a \in Attempt : a.op = w.op /\ a.fence = w.fence =>
                (a \in attempts' <=> a \in attempts)
      PROVE  Grasps(w)'
  <2>1. attempts \subseteq Attempt /\ attempts' \subseteq Attempt
    BY DEF PhysicalInv, PhysicalTypes, PhysicalEffects, AttemptEffect
  <2>2. Own(w)' = Own(w)
    BY <1>4, <2>1 DEF Own
  <2> QED
    BY <1>4, <2>2, GraspKept
<1>5. CASE work' = work /\ attempts' = attempts
  <2>1. \A d \in Coordinators : \E v : v = work'[d] /\ (v = Idle \/ Grasps(v)')
    BY <1>1, <1>4, <1>5
  <2>2. GraspInv'
    BY <2>1, GraspsTogether
  <2> QED
    BY <1>5, <2>2 DEF PhysicalInv, FenceNamesOneClaim, At
<1>6. ASSUME NEW c \in Coordinators,
             \A d \in Coordinators : d # c => work'[d] = work[d],
             \A a \in Attempt : ~(work[c] # Idle /\ a.op = work[c].op /\ a.fence = work[c].fence) =>
                (a \in attempts' <=> a \in attempts),
             \/ work'[c] = Idle
             \/ \E w : /\ work[c] # Idle /\ work'[c] = w /\ w.pc # "idle" /\ Grasps(w)'
                       /\ w.op = work[c].op /\ w.fence = work[c].fence
             \/ /\ work[c] = Idle /\ work'[c].op \in Operations /\ work'[c].pc \in ACTIVE
                /\ work'[c].fence = op[work'[c].op].fence + 1
                /\ work'[c].fence = op'[work'[c].op].fence
                /\ work'[c].pc = op[work'[c].op].state
      PROVE  GraspInv' /\ FenceNamesOneClaim'
  <2>1. ASSUME NEW d \in Coordinators, d # c
        PROVE  \E v : v = work'[d] /\ (v = Idle \/ Grasps(v)')
    <3>1. CASE work[d] = Idle
      BY <1>6, <2>1, <3>1
    <3>2. CASE work[d] # Idle
      <4>1. Engaged(work[d]) /\ Grasps(work[d])
        BY <1>1, <3>2
      <4>2. \A a \in Attempt : a.op = work[d].op /\ a.fence = work[d].fence =>
                (a \in attempts' <=> a \in attempts)
        BY <1>2, <1>6, <2>1, <3>2
      <4>3. ASSUME NEW w, w = work[d]
            PROVE  Grasps(w)'
        BY <1>4, <4>1, <4>2, <4>3
      <4> QED
        BY <1>6, <2>1, <4>3
    <3> QED
      BY <3>1, <3>2
  <2>2. \E v : v = work'[c] /\ (v = Idle \/ Grasps(v)')
    <3>1. ASSUME NEW w, w = work'[c], work[c] = Idle, w.op \in Operations, w.pc \in ACTIVE,
                 w.fence = op[w.op].fence + 1, w.fence = op'[w.op].fence, w.pc = op[w.op].state
          PROVE  Grasps(w)'
      BY <1>6, <3>1, ClaimGrasps
    <3> QED
      BY <1>6, <3>1
  <2>3. \A d \in Coordinators : \E v : v = work'[d] /\ (v = Idle \/ Grasps(v)')
    BY <2>1, <2>2
  <2>4. GraspInv'
    BY <2>3, GraspsTogether
  <2>5. ASSUME NEW d \in Coordinators, d # c, work'[c].pc # "idle", work'[d].pc # "idle",
               work'[c].op = work'[d].op
        PROVE  work'[c].fence # work'[d].fence
    <3>1. work'[d] = work[d] /\ work[d] # Idle /\ work'[c] # Idle
      BY <1>6, <2>5 DEF Idle
    <3>2. CASE work[c] # Idle /\ work'[c].op = work[c].op /\ work'[c].fence = work[c].fence
      BY <1>2, <2>5, <3>1, <3>2
    <3>3. CASE work'[c].op \in Operations /\ work'[c].fence = op[work'[c].op].fence + 1
      <4>1. work[d].fence \in Nat /\ work[d].fence <= op[work'[c].op].fence
        BY <1>1, <2>5, <3>1
      <4> QED
        BY <1>3, <3>1, <3>3, <4>1
    <3> QED
      BY <1>6, <3>1, <3>2, <3>3
  <2>6. ASSUME NEW d \in Coordinators, NEW e \in Coordinators, d # c, e # c, d # e,
               work'[d].pc # "idle", work'[e].pc # "idle", work'[d].op = work'[e].op
        PROVE  work'[d].fence # work'[e].fence
    BY <1>2, <1>6, <2>6 DEF Idle
  <2> QED
    BY <2>4, <2>5, <2>6 DEF FenceNamesOneClaim, At
<1> QED
  BY <1>5, <1>6 DEF PhysicalEffects, ClaimEffect

LEMMA AttemptsInvKept ==
    ASSUME DeletionInv, PhysicalInv, Effects, PhysicalEffects
    PROVE  AttemptsInv'
<1>1. faults \in Nat /\ faults' \in Nat /\ faults' >= faults
  BY DEF PhysicalInv, PhysicalTypes, PhysicalEffects, ObjectEffect
<1>2. ASSUME NEW g \in Generations, NEW role \in RoleNames
      PROVE  /\ cluster'[g][role].uid <= faults' + 1
             /\ \A u \in 1..(faults + 1) : cluster[g][role].uid # u => cluster'[g][role].uid # u
  <2>1. cluster[g][role].uid \in Nat /\ cluster[g][role].uid <= faults + 1
    BY DEF PhysicalInv, PhysicalTypes, ClusterObject, AttemptsInv
  <2>2. \/ cluster'[g][role].uid = cluster[g][role].uid \/ cluster'[g][role].uid = 0
        \/ cluster'[g][role].uid = faults + 2 /\ faults' = faults + 1
    BY DEF PhysicalEffects, ObjectEffect
  <2> QED
    BY <1>1, <2>1, <2>2
<1>3. ASSUME NEW b \in attempts'
      PROVE  /\ b.uid \in 1..(faults' + 1)
             /\ b.fence <= op'[b.op].fence /\ op'[b.op].state # "ABSENT"
             /\ Absent(b) => TargetUid(b)' # b.uid
  <2>1. b \in Attempt
    BY DEF PhysicalEffects, AttemptEffect
  <2>2. /\ b.uid \in 1..(faults + 1) /\ b.fence <= op[b.op].fence /\ op[b.op].state # "ABSENT"
        /\ Absent(b) => TargetUid(b) # b.uid
    <3>1. CASE \E a \in attempts : /\ Same(a, b)
                                   /\ Absent(b) => Absent(a) \/ TargetUid(b) # b.uid
      BY <3>1 DEF PhysicalInv, AttemptsInv, Same, TargetUid
    <3> QED
      BY <3>1 DEF PhysicalEffects, AttemptEffect
  <2>3. /\ op'[b.op].candidate = op[b.op].candidate /\ op'[b.op].state # "ABSENT"
        /\ op'[b.op].fence >= op[b.op].fence \/ op'[b.op].fence = op[b.op].fence
        /\ op[b.op].fence \in Nat /\ op'[b.op].fence \in Nat /\ b.fence \in Nat
        /\ op[b.op].candidate \in Generations /\ b.role \in RoleNames
    BY <2>1, <2>2, OpFacts
       DEF Attempt, Effects, OpEffect, DeletionInv, Tables, RetirementOperation
  <2>4. b.fence <= op'[b.op].fence
    BY <2>2, <2>3
  <2>5. b.uid \in 1..(faults' + 1)
    BY <1>1, <2>2
  <2>6. Absent(b) => TargetUid(b)' # b.uid
    BY <1>2, <2>2, <2>3 DEF TargetUid
  <2> QED
    BY <2>3, <2>4, <2>5, <2>6
<1> QED
  BY <1>2, <1>3 DEF AttemptsInv, Absent, TargetUid

LEMMA CleanupRowsKept ==
    ASSUME DeletionInv, PhysicalInv, Effects, PhysicalEffects, NEW o \in Operations, CleansUp(o)'
    PROVE  CleanupRow(o)'
<1>1. CASE CleansUp(o)
  <2> DEFINE g == op[o].candidate
             Gone_ == {"PHYSICALLY_DELETED", "METADATA_FINALIZED"}
  <2>1. op'[o].candidate = g /\ g \in Generations
    BY <1>1, OpFacts DEF Effects, CleansUp, DeletionInv, Tables, RetirementOperation
  <2>2. /\ retirement[g] # None /\ retirement[g].op = o
        /\ retirement[g].state \in Gone_ => Settled(o)
        /\ op[o].state = "COMPLETED" => retirement[g].state = "METADATA_FINALIZED"
        /\ op[o].state = "RETIREMENT_WAITING_ELIGIBILITY" => retirement[g].state \in Undecided
    BY <1>1 DEF PhysicalInv, CleanupRow
  <2>3. /\ retirement'[g] # None /\ retirement'[g].op = o
        /\ retirement'[g].state \in Gone_ =>
              /\ expected'[o].fence = expected[o].fence
              /\ retirement[g].state \in Gone_ \/ (Settled(o) /\ attempts' = attempts)
        /\ retirement[g].state = "METADATA_FINALIZED" => retirement'[g].state = "METADATA_FINALIZED"
        /\ op'[o].state = "COMPLETED" =>
              op[o].state = "COMPLETED" \/ retirement[g].state = "METADATA_FINALIZED"
        /\ op'[o].state = "RETIREMENT_WAITING_ELIGIBILITY" =>
              retirement'[g].state = retirement[g].state \/ retirement'[g].state \in Undecided
    BY <1>1, <2>1, <2>2 DEF Effects, RetirementEffect, PhysicalEffects, RowEffect
  <2>4. ASSUME retirement'[g].state \in Gone_, NEW b \in attempts', b.op = o,
               b.fence = expected'[o].fence
        PROVE  Absent(b)
    <3>1. CASE Settled(o) /\ attempts' = attempts
      BY <2>3, <2>4, <3>1 DEF Settled
    <3>2. CASE retirement[g].state \in Gone_
      <4>1. CASE \E a \in attempts : Same(a, b) /\ (Absent(a) => Absent(b))
        BY <2>2, <2>3, <2>4, <3>2, <4>1 DEF Settled, Same
      <4>2. CASE retirement[op[b.op].candidate].state = "PHYSICAL_DELETE_PENDING"
        BY <2>4, <3>2, <4>2
      <4> QED
        BY <4>1, <4>2 DEF PhysicalEffects, AttemptEffect
    <3> QED
      BY <2>3, <2>4, <3>1, <3>2
  <2>5. retirement'[g].state \in Gone_ => Settled(o)'
    BY <2>4 DEF Settled, Absent
  <2>6. op'[o].state = "RETIREMENT_WAITING_ELIGIBILITY" =>
           op[o].state = "RETIREMENT_WAITING_ELIGIBILITY"
    BY <1>1 DEF Effects, OpEffect, CleansUp, Moves
  <2>7. op'[o].state = "RETIREMENT_WAITING_ELIGIBILITY" => retirement'[g].state \in Undecided
    BY <2>2, <2>3, <2>6
  <2> QED
    BY <2>1, <2>2, <2>3, <2>5, <2>7 DEF CleanupRow
<1>2. CASE ~CleansUp(o)
  <2>1. /\ retirement'[op'[o].candidate] = [op |-> o, state |-> "WAITING_ELIGIBILITY"]
        /\ op'[o].state # "COMPLETED"
    BY <1>2 DEF PhysicalEffects, RowEffect
  <2>2. [op |-> o, state |-> "WAITING_ELIGIBILITY"] \in RetirementRow
    BY DEF RetirementRow, RetirementStates
  <2>3. retirement'[op'[o].candidate] # None
    BY <2>1, <2>2, RetirementAssumption
  <2> QED
    BY <2>1, <2>3 DEF CleanupRow, Undecided
<1> QED
  BY <1>1, <1>2

LEMMA IntentKept ==
    ASSUME DeletionInv, PhysicalInv, Effects, PhysicalEffects
    PROVE  IntentNamesWhatIsDeleted'
<1> SUFFICES ASSUME NEW g \in Generations, NEW role \in RoleNames, cluster'[g][role].deleting
             PROVE  \E b \in attempts' : /\ op'[b.op].candidate = g /\ b.role = role
                                         /\ b.uid = cluster'[g][role].uid /\ Intended(b)
  BY DEF IntentNamesWhatIsDeleted, Intended
<1>1. cluster'[g][role].uid = cluster[g][role].uid
  BY DEF PhysicalEffects, ObjectEffect
<1>2. PICK a \in attempts : /\ op[a.op].candidate = g /\ a.role = role
                            /\ a.uid = cluster[g][role].uid /\ Intended(a)
  BY DEF PhysicalEffects, ObjectEffect, PhysicalInv, IntentNamesWhatIsDeleted, Intended
<1>3. PICK b \in attempts' : Same(a, b) /\ Intended(b)
  BY <1>2 DEF PhysicalEffects, AttemptEffect
<1>4. a.op \in Operations /\ op[a.op].state # "ABSENT"
  BY DEF PhysicalInv, PhysicalTypes, AttemptsInv, Attempt
<1>5. op'[a.op].candidate = op[a.op].candidate
  BY <1>4, OpFacts DEF Effects
<1> QED
  BY <1>1, <1>2, <1>3, <1>5 DEF Same

\* Only what is doomed is damaged.
LEMMA DamageKept ==
    ASSUME DeletionInv, PhysicalInv, Effects, PhysicalEffects
    PROVE  DamageInv'
<1> SUFFICES ASSUME NEW g \in Generations, Damaged(g)', generation'[g].state # "ABSENT"
             PROVE  Doomed(g)'
  BY DEF DamageInv
<1>1. generation[g].state # "ABSENT" /\ (Doomed(g) => Doomed(g)')
  BY DEF Effects, LifecycleEffect
<1>2. CASE Damaged(g)
  BY <1>1, <1>2 DEF PhysicalInv, DamageInv
<1>3. CASE ~Damaged(g)
  <2>1. PICK role \in RoleNames : cluster'[g][role].uid # 1 \/ cluster'[g][role].deleting
    BY DEF Damaged
  <2>2. cluster[g][role].uid = 1 /\ ~cluster[g][role].deleting
    BY <1>3 DEF Damaged
  <2>3. cluster'[g][role].deleting
    BY <2>1, <2>2 DEF PhysicalEffects, ObjectEffect
  <2>4. Doomed(g)
    BY <2>2, <2>3 DEF PhysicalEffects, ObjectEffect
  <2> QED
    BY <1>1, <2>4
<1> QED
  BY <1>2, <1>3

LEMMA PhysicalInvKept ==
    ASSUME DeletionInv, PhysicalInv, Effects, WorkEffect, PhysicalEffects
    PROVE  PhysicalInv'
<1>1. PhysicalTypes'
  BY DEF PhysicalInv, PhysicalTypes, PhysicalEffects, AttemptEffect, ObjectEffect, RowEffect
<1>2. \A o \in Operations : CleansUp(o)' => CleanupRow(o)'
  BY CleanupRowsKept
<1> QED
  BY <1>1, <1>2, GraspInvKept, AttemptsInvKept, IntentKept, DamageKept DEF PhysicalInv

-----------------------------------------------------------------------------
(***************************************************************************)
(* What a step leaves alone.                                               *)
(***************************************************************************)

LEMMA AttemptsStay ==
    ASSUME PhysicalInv, attempts' = attempts
    PROVE  AttemptEffect
BY DEF PhysicalInv, PhysicalTypes, AttemptEffect, Same

LEMMA ObjectsStay ==
    ASSUME PhysicalInv, cluster' = cluster, faults' \in {faults, faults + 1}
    PROVE  ObjectEffect
BY DEF PhysicalInv, PhysicalTypes, ObjectEffect

LEMMA RowsStay ==
    ASSUME PhysicalInv, UNCHANGED <<retirement, expected>>,
           \A o \in Operations : CleansUp(o)' => op'[o].state = op[o].state
    PROVE  RowEffect
<1>1. \A o \in Operations : CleansUp(o)' => CleansUp(o)
  BY DEF CleansUp
<1>2. \A o \in Operations : op'[o].state = "COMPLETED" => op[o].state = "COMPLETED"
  BY DEF CleansUp
<1> QED
  BY <1>1, <1>2 DEF PhysicalInv, PhysicalTypes, RowEffect

\* Process c goes on with w under the same claim.
LEMMA GoesOn ==
    ASSUME DeletionInv, NEW c \in Coordinators, work[c].pc # "idle",
           NEW pc, pc # "idle", NEW mem, Goto(c, pc, mem),
           \A a \in Attempt : ~(a.op = work[c].op /\ a.fence = work[c].fence) =>
                (a \in attempts' <=> a \in attempts),
           \A w : w = [pc |-> pc, op |-> work[c].op, fence |-> work[c].fence, mem |-> mem] => Grasps(w)'
    PROVE  ClaimEffect
<1> DEFINE w == [pc |-> pc, op |-> work[c].op, fence |-> work[c].fence, mem |-> mem]
<1>1. DOMAIN work' = Coordinators /\ work'[c] = w /\ \A d \in Coordinators : d # c => work'[d] = work[d]
  BY DEF Goto, DeletionInv, Knowledge
<1>2. work[c] # Idle
  BY DEF Idle
<1>3. \E v : /\ work[c] # Idle /\ work'[c] = v /\ v.pc # "idle" /\ Grasps(v)'
             /\ v.op = work[c].op /\ v.fence = work[c].fence
  BY <1>1, <1>2
<1> QED
  BY <1>1, <1>2, <1>3 DEF ClaimEffect

LEMMA Stops ==
    ASSUME DeletionInv, NEW c \in Coordinators, Stop(c), attempts' = attempts
    PROVE  ClaimEffect
BY DEF Stop, DeletionInv, Knowledge, ClaimEffect

\* A process at work has a hold on its claim.
LEMMA GraspAtHand ==
    ASSUME DeletionInv, PhysicalInv, NEW c \in Coordinators, work[c].pc # "idle"
    PROVE  /\ Engaged(work[c]) /\ Grasps(work[c]) /\ work[c].op \in Operations
           /\ work[c].fence \in Nat /\ op[work[c].op].state # "ABSENT"
           /\ Candidate(c) \in Generations /\ Candidate(c) = op[work[c].op].candidate
BY AtHand DEF PhysicalInv, GraspInv, Idle, Engaged

\* A call outside the deletion: it plans and attempts nothing.
LEMMA GoesElsewhere ==
    ASSUME DeletionInv, PhysicalInv, Effects, NEW c \in Coordinators, work[c].pc # "idle",
           NEW pc, pc # "idle", NEW mem, Goto(c, pc, mem), attempts' = attempts,
           pc \notin PlanSteps \cup AttemptSteps,
           pc \in EndSteps \/ work[c].pc \notin AttemptSteps \cup EndSteps,
           pc \in CleanupHandler => work[c].pc \in CleanupHandler,
           pc = "cleanup:complete" => retirement'[Candidate(c)].state = "METADATA_FINALIZED"
    PROVE  ClaimEffect
<1>1. ASSUME NEW w, w = [pc |-> pc, op |-> work[c].op, fence |-> work[c].fence, mem |-> mem]
      PROVE  Grasps(w)'
  <2>1. /\ Grasps(work[c]) /\ w.op \in Operations /\ w.fence \in Nat /\ op[w.op].state # "ABSENT"
        /\ w.op = work[c].op /\ w.fence = work[c].fence /\ w.pc = pc /\ Candidate(c) = op[w.op].candidate
    BY <1>1, GraspAtHand
  <2>2. /\ op'[w.op].fence >= op[w.op].fence \/ op'[w.op].fence = op[w.op].fence
        /\ op'[w.op].fence \in Nat /\ op[w.op].fence \in Nat /\ op'[w.op].candidate = op[w.op].candidate
        /\ CleansUp(w.op) => CleansUp(w.op)'
    BY <2>1, OpFacts DEF Effects, OpEffect, DeletionInv, Tables, RetirementOperation
  <2>3. w.fence <= op[w.op].fence
    BY <2>1 DEF Grasps
  <2>4. w.fence <= op'[w.op].fence
    BY <2>1, <2>2, <2>3
  <2>5. pc \notin AttemptSteps \cup EndSteps => Own(w)' = {}
    <3>1. Own(w)' = Own(work[c])
      BY <2>1 DEF Own
    <3> QED
      BY <2>1, <3>1 DEF Grasps
  <2>6. pc \in CleanupHandler => CleansUp(w.op)'
    BY <2>1, <2>2 DEF Grasps
  <2>7. pc \notin {"delete:remove", "delete:absent"}
    BY DEF AttemptSteps, DeleteSteps
  <2>8. pc = "cleanup:complete" => retirement'[op'[w.op].candidate].state = "METADATA_FINALIZED"
    BY <2>1, <2>2
  <2> HIDE DEF Own
  <2> QED
    BY <2>1, <2>4, <2>5, <2>6, <2>7, <2>8 DEF Grasps
<1> QED
  BY <1>1, GoesOn

-----------------------------------------------------------------------------
(***************************************************************************)
(* The steps that touch no attempt.                                        *)
(***************************************************************************)

LEMMA ClaimPhysical ==
    ASSUME DeletionInv, PhysicalInv, Effects, NEW c \in Coordinators, RetirementClaim(c)
    PROVE  PhysicalEffects
<1>1. PICK o \in Claimable :
        /\ op' = [op EXCEPT ![o] = [@ EXCEPT !.owner = c, !.live = TRUE, !.fence = NextFence(o)]]
        /\ work' = [work EXCEPT ![c] = [pc |-> op[o].state, op |-> o, fence |-> NextFence(o),
                                        mem |-> <<>>]]
  BY DEF RetirementClaim, ClaimNext
<1>2. UNCHANGED <<retirement, expected, attempts, cluster, faults>>
  BY DEF RetirementClaim, ClaimNext, tableVars, physicalVars
<1>3. o \in Operations /\ op[o].state \in ACTIVE /\ op \in [Operations -> RetirementOperation]
  BY DEF Claimable, DeletionInv, Tables
<1>4. /\ op'[o].fence = op[o].fence + 1 /\ op'[o].state = op[o].state
      /\ \A p \in Operations : p # o => op'[p] = op[p]
  BY <1>1, <1>3 DEF RetirementOperation, NextFence
<1>5. RowEffect
  <2>1. \A p \in Operations : op'[p].state = op[p].state
    BY <1>4
  <2> QED
    BY <1>2, <2>1, RowsStay
<1>6. work[c] = Idle
  BY DEF RetirementClaim, ClaimNext, At, DeletionInv, Knowledge, Engaged
<1>7. /\ DOMAIN work' = Coordinators /\ \A d \in Coordinators : d # c => work'[d] = work[d]
      /\ work'[c].op = o /\ work'[c].pc = op[o].state /\ work'[c].fence = op[o].fence + 1
  BY <1>1 DEF DeletionInv, Knowledge, NextFence
<1>8. ClaimEffect
  BY <1>2, <1>3, <1>4, <1>6, <1>7 DEF ClaimEffect
<1> QED
  BY <1>2, <1>5, <1>8, AttemptsStay, ObjectsStay DEF PhysicalEffects

LEMMA StorePhysical ==
    ASSUME DeletionInv, PhysicalInv, Effects, RetirementStoreStep
    PROVE  PhysicalEffects
<1>1. UNCHANGED <<retirement, expected, attempts, cluster>>
  BY DEF RetirementStoreStep, tableVars, physicalVars
<1>2. ASSUME NEW c \in Coordinators, Interrupt(c)
      PROVE  PhysicalEffects
  BY <1>1, <1>2, Stops, AttemptsStay, ObjectsStay, RowsStay DEF Interrupt, PhysicalEffects
<1>3. ASSUME NEW o \in Operations, LeaseRunsOut(o) \/ LeaseOutlived(o)
      PROVE  PhysicalEffects
  <2>1. \A p \in Operations : op'[p].state = op[p].state
    BY <1>3 DEF LeaseRunsOut, LeaseOutlived, DeletionInv, Tables, RetirementOperation
  <2>2. work' = work /\ faults' \in {faults, faults + 1}
    BY <1>3 DEF LeaseRunsOut, LeaseOutlived
  <2> QED
    BY <1>1, <2>1, <2>2, AttemptsStay, ObjectsStay, RowsStay DEF ClaimEffect, PhysicalEffects
<1> QED
  BY <1>2, <1>3 DEF RetirementStoreStep

\* A cleanup's generation has its row already.
LEMMA RequestPhysical ==
    ASSUME DeletionInv, PhysicalInv, Effects,
           NEW o \in Operations, NEW g \in Generations, ScheduleCleanup(o, g)
    PROVE  PhysicalEffects
<1> DEFINE row == [op |-> o, state |-> "WAITING_ELIGIBILITY"]
           e == [pointer |-> pointer.version, generation |-> generation[g].version, fence |-> 0]
<1>1. /\ op[o].state = "ABSENT" /\ retirement[g] = None
      /\ op' = [op EXCEPT ![o] = Unclaimed("RETIREMENT_WAITING_ELIGIBILITY", g)]
      /\ retirement' = [retirement EXCEPT ![g] = row] /\ expected' = [expected EXCEPT ![o] = e]
      /\ UNCHANGED <<work, faults, attempts, cluster>>
  BY DEF ScheduleCleanup
<1>2. /\ op \in [Operations -> RetirementOperation]
      /\ retirement \in [Generations -> RetirementRow \cup {None}]
      /\ expected \in [Operations -> [pointer : Nat, generation : Nat, fence : Nat]]
      /\ pointer.version \in Nat /\ generation[g].version \in Nat
  BY DEF DeletionInv, Tables, Pointer, GenerationRow, PhysicalInv, PhysicalTypes
<1>3. e \in [pointer : Nat, generation : Nat, fence : Nat]
  BY <1>2
<1> HIDE DEF row, e
<1>4. /\ op'[o].state = "RETIREMENT_WAITING_ELIGIBILITY" /\ op'[o].candidate = g
      /\ retirement'[g] = row
      /\ \A p \in Operations : p # o => op'[p] = op[p] /\ expected'[p] = expected[p]
      /\ \A h \in Generations : h # g => retirement'[h] = retirement[h]
  BY <1>1, <1>2 DEF Unclaimed
<1>5. ASSUME NEW p \in Operations, CleansUp(p)
      PROVE  p # o /\ op[p].candidate \in Generations /\ op[p].candidate # g
  BY <1>1, <1>2, <1>5 DEF CleansUp, PhysicalInv, CleanupRow, RetirementOperation
<1>6. ASSUME NEW p \in Operations, CleansUp(p)
      PROVE  /\ retirement'[op[p].candidate] = retirement[op[p].candidate]
             /\ expected'[p] = expected[p] /\ op'[p] = op[p]
  BY <1>4, <1>5, <1>6
<1>7. ASSUME NEW p \in Operations, ~CleansUp(p), CleansUp(p)'
      PROVE  p = o
  BY <1>4, <1>7 DEF CleansUp
<1>8. \A p \in Operations : CleansUp(p) =>
         (op[p].state = "COMPLETED" => retirement[op[p].candidate].state = "METADATA_FINALIZED")
  BY DEF PhysicalInv, CleanupRow
<1>9. expected' \in [Operations -> [pointer : Nat, generation : Nat, fence : Nat]]
  BY <1>1, <1>2, <1>3
<1>10. RowEffect
  BY <1>4, <1>6, <1>7, <1>8, <1>9 DEF RowEffect, row
<1> QED
  BY <1>1, <1>10, AttemptsStay, ObjectsStay DEF ClaimEffect, PhysicalEffects

\* A promotion goes on as a promotion.
LEMMA PromotionGoes ==
    ASSUME DeletionInv, NEW c \in Coordinators, PromotionStep(c)
    PROVE  /\ work[c].pc \in PromotionSteps /\ faults' = faults
           /\ Stop(c) \/ \E pc \in PromotionSteps : \E mem : Goto(c, pc, mem)
<1>1. CASE ReadPointerToPrepare(c) \/ LookupPromotion(c) \/ PreparePromotion(c)
  BY <1>1 DEF ReadPointerToPrepare, LookupPromotion, PreparePromotion, At, PromotionSteps, PrepareSteps,
              PlainSteps
<1>2. CASE ObserveRouters(c) \/ MarkRouterVerified(c) \/ FinalizePromotion(c)
  BY <1>2 DEF ObserveRouters, MarkRouterVerified, FinalizePromotion, At, PromotionSteps, RowSteps
<1>3. CASE ReadPointerToProtect(c) \/ BeginRetirement(c)
  BY <1>3 DEF ReadPointerToProtect, BeginRetirement, At, PromotionSteps, PlainSteps
<1>4. CASE AdvanceToPromoting(c) \/ AdvanceToPromoted(c) \/ AdvanceToProtected(c)
  BY <1>4 DEF AdvanceToPromoting, AdvanceToPromoted, AdvanceToProtected, Transition, At,
              PromotionSteps, RowSteps, PlainSteps
<1>5. ASSUME NEW j \in Rows
      PROVE  StepAfter(journal[j].phase) \in PromotionSteps
  <2>1. journal[j].phase \in Phases
    BY JournalElement DEF Rows, DeletionInv, Tables, JournalRow
  <2> QED
    BY <2>1 DEF StepAfter, Phases, PromotionSteps, RowSteps
<1>6. CASE LoadPromotion(c)
  <2>1. Stop(c) \/ \E j \in Rows : Resume(c, j)
    BY <1>6 DEF LoadPromotion, Newest, JournalsOf
  <2> QED
    BY <1>5, <1>6, <2>1 DEF Resume, LoadPromotion, At, PromotionSteps, PlainSteps
<1>7. CASE CasPointer(c)
  <2>1. work[c].pc = "promote:cas" /\ work[c].pc \in RowSteps /\ faults' = faults
    BY <1>7 DEF CasPointer, At, RowSteps
  <2>2. Row(c) \in Rows
    BY <2>1, RowAtHand
  <2>3. Stop(c) \/ Resume(c, Row(c)) \/ Goto(c, "promote:observe", <<Row(c)>>)
    BY <1>7 DEF CasPointer
  <2>4. "promote:observe" \in PromotionSteps
    BY DEF PromotionSteps, RowSteps
  <2> QED
    BY <1>5, <2>1, <2>2, <2>3, <2>4 DEF Resume, PromotionSteps
<1> QED
  BY <1>1, <1>2, <1>3, <1>4, <1>6, <1>7 DEF PromotionStep

LEMMA PromotionPhysical ==
    ASSUME DeletionInv, PhysicalInv, Effects, NEW c \in Coordinators, PromotionStep(c),
           UNCHANGED physicalVars
    PROVE  PhysicalEffects
<1>1. UNCHANGED <<expected, attempts, cluster, faults>>
  BY PromotionGoes DEF physicalVars
<1>2. ClaimEffect
  <2>1. work[c].pc # "idle" /\ work[c].pc \notin AttemptSteps \cup EndSteps
    BY PromotionGoes DEF PromotionSteps, PrepareSteps, RowSteps, PlainSteps, AttemptSteps, EndSteps, DeleteSteps
  <2>2. ASSUME NEW pc \in PromotionSteps
        PROVE  pc # "idle" /\ pc \notin PlanSteps \cup AttemptSteps \cup CleanupHandler
               /\ pc # "cleanup:complete"
    BY DEF PromotionSteps, PrepareSteps, RowSteps, PlainSteps, PlanSteps, AttemptSteps, DeleteSteps,
           CleanupHandler, CleanupSteps
  <2>3. ASSUME NEW pc \in PromotionSteps, NEW mem, Goto(c, pc, mem)
        PROVE  ClaimEffect
    BY <1>1, <2>1, <2>2, <2>3, GoesElsewhere
  <2> QED
    BY <1>1, <2>3, Stops, PromotionGoes
<1>3. \A o \in Operations : CleansUp(o)' => op'[o].state = op[o].state
  <2>1. CASE AdvanceToPromoting(c) \/ AdvanceToPromoted(c) \/ AdvanceToProtected(c)
    <3>1. op' = op \/ \E to \in {"PROMOTING", "PROMOTED", "ROLLBACK_PROTECTED"} :
             op' = [op EXCEPT ![work[c].op] = [@ EXCEPT !.state = to, !.owner = None, !.live = FALSE]]
      BY <2>1 DEF AdvanceToPromoting, AdvanceToPromoted, AdvanceToProtected, Transition
    <3>2. op \in [Operations -> RetirementOperation]
      BY DEF DeletionInv, Tables
    <3> QED
      BY <3>1, <3>2 DEF CleansUp, RetirementOperation
  <2>2. CASE op' = op
    BY <2>2
  <2> QED
    BY <2>1, <2>2 DEF PromotionStep, ReadPointerToPrepare, LookupPromotion, PreparePromotion,
       LoadPromotion, CasPointer, ObserveRouters, MarkRouterVerified, FinalizePromotion,
       ReadPointerToProtect, BeginRetirement
<1>4. ASSUME NEW o \in Operations, CleansUp(o)
      PROVE  retirement'[op[o].candidate] = retirement[op[o].candidate]
  <2>1. retirement[op[o].candidate] # None
    BY <1>4 DEF PhysicalInv, CleanupRow
  <2>2. CASE retirement' = retirement
    BY <2>2
  <2>3. CASE BeginRetirement(c)
    <3>1. retirement \in [Generations -> RetirementRow \cup {None}]
          /\ op[o].candidate \in Generations
      BY DEF DeletionInv, Tables, RetirementOperation
    <3>2. \/ retirement' = retirement
          \/ /\ retirement' = [retirement EXCEPT ![work[c].mem[1]] =
                                 [op |-> work[c].op, state |-> "WAITING_ELIGIBILITY"]]
             /\ retirement[work[c].mem[1]] = None
      BY <2>3 DEF BeginRetirement
    <3> QED
      BY <2>1, <3>1, <3>2
  <2> QED
    BY <2>2, <2>3 DEF PromotionStep, ReadPointerToPrepare, LookupPromotion, PreparePromotion,
       LoadPromotion, CasPointer, ObserveRouters, MarkRouterVerified, FinalizePromotion,
       ReadPointerToProtect, AdvanceToPromoting, AdvanceToPromoted, AdvanceToProtected, tableVars
<1>5. RowEffect
  BY <1>1, <1>3, <1>4 DEF RowEffect, CleansUp, PhysicalInv, PhysicalTypes
<1> QED
  BY <1>1, <1>2, <1>5, AttemptsStay, ObjectsStay DEF PhysicalEffects

LEMMA ReleasePhysical ==
    ASSUME DeletionInv, PhysicalInv, Effects, NEW g \in Generations, ReleaseRollbackProtection(g),
           UNCHANGED physicalVars
    PROVE  PhysicalEffects
<1>1. /\ UNCHANGED <<op, work, faults, expected, attempts, cluster>>
      /\ \/ retirement' = retirement
         \/ /\ retirement[g] # None /\ retirement[g].state \in {"REQUESTED", "WAITING_ELIGIBILITY"}
            /\ retirement' = [retirement EXCEPT ![g].state = "WAITING_ELIGIBILITY"]
  BY DEF ReleaseRollbackProtection, ReleaseAllowed, storeVars, physicalVars
<1>2. CASE retirement' = retirement
  BY <1>1, <1>2, AttemptsStay, ObjectsStay, RowsStay DEF ClaimEffect, PhysicalEffects, CleansUp
<1>3. CASE /\ retirement[g] # None /\ retirement[g].state \in {"REQUESTED", "WAITING_ELIGIBILITY"}
           /\ retirement' = [retirement EXCEPT ![g].state = "WAITING_ELIGIBILITY"]
  <2>1. retirement \in [Generations -> RetirementRow \cup {None}]
    BY DEF DeletionInv, Tables
  <2>2. /\ retirement'[g].op = retirement[g].op /\ retirement'[g].state = "WAITING_ELIGIBILITY"
        /\ \A h \in Generations : h # g => retirement'[h] = retirement[h]
    BY <1>3, <2>1 DEF RetirementRow
  <2>3. ASSUME NEW o \in Operations
        PROVE  op[o].candidate \in Generations /\ (CleansUp(o)' <=> CleansUp(o)) /\ op'[o] = op[o]
    BY <1>1 DEF DeletionInv, Tables, RetirementOperation, CleansUp
  <2>4. ASSUME NEW o \in Operations
        PROVE  LET h == op[o].candidate IN
               /\ retirement'[h].op = retirement[h].op
               /\ \/ retirement'[h] = retirement[h]
                  \/ retirement'[h].state \in Undecided /\ retirement[h].state \in Undecided
    BY <1>3, <2>2, <2>3 DEF Undecided
  <2>5. \A o \in Operations : CleansUp(o) =>
           (op[o].state = "COMPLETED" => retirement[op[o].candidate].state = "METADATA_FINALIZED")
    BY DEF PhysicalInv, CleanupRow
  <2>6. expected' \in [Operations -> [pointer : Nat, generation : Nat, fence : Nat]]
    BY <1>1 DEF PhysicalInv, PhysicalTypes
  <2>7. RowEffect
    BY <1>1, <2>3, <2>4, <2>5, <2>6 DEF RowEffect, Undecided
  <2> QED
    BY <1>1, <2>7, AttemptsStay, ObjectsStay DEF ClaimEffect, PhysicalEffects
<1> QED
  BY <1>1, <1>2, <1>3

-----------------------------------------------------------------------------
(***************************************************************************)
(* The calls of a cleanup outside the deletion.                            *)
(***************************************************************************)

\* Of two cleanups each has a generation of its own.
LEMMA OwnGeneration ==
    ASSUME PhysicalInv, NEW o \in Operations, CleansUp(o), NEW p \in Operations, CleansUp(p), p # o
    PROVE  op[p].candidate # op[o].candidate
BY DEF PhysicalInv, CleanupRow

\* The cleanup o writes its retirement row.
LEMMA CleanupRowWritten ==
    ASSUME DeletionInv, PhysicalInv, NEW o \in Operations, CleansUp(o),
           NEW row, row.op = o, retirement' = [retirement EXCEPT ![op[o].candidate] = row],
           attempts' = attempts,
           expected' \in [Operations -> [pointer : Nat, generation : Nat, fence : Nat]],
           \A p \in Operations : p # o => expected'[p] = expected[p] /\ op'[p] = op[p],
           op'[o].state = "COMPLETED" => op[o].state = "COMPLETED",
           op'[o].state = "RETIREMENT_WAITING_ELIGIBILITY" => row.state \in Undecided,
           row.state \in {"PHYSICALLY_DELETED", "METADATA_FINALIZED"} =>
              /\ expected'[o].fence = expected[o].fence
              /\ \/ retirement[op[o].candidate].state \in {"PHYSICALLY_DELETED", "METADATA_FINALIZED"}
                 \/ Settled(o),
           retirement[op[o].candidate].state = "METADATA_FINALIZED" => row.state = "METADATA_FINALIZED"
    PROVE  RowEffect
<1>1. /\ retirement \in [Generations -> RetirementRow \cup {None}]
      /\ \A p \in Operations : op[p].candidate \in Generations
  BY DEF DeletionInv, Tables, RetirementOperation
<1>2. /\ retirement'[op[o].candidate] = row
      /\ \A h \in Generations : h # op[o].candidate => retirement'[h] = retirement[h]
  BY <1>1
<1>3. retirement[op[o].candidate].op = o
  BY DEF PhysicalInv, CleanupRow
<1>4. ASSUME NEW p \in Operations, p # o, CleansUp(p)
      PROVE  /\ retirement'[op[p].candidate] = retirement[op[p].candidate]
             /\ expected'[p] = expected[p] /\ op'[p] = op[p]
             /\ op[p].state = "COMPLETED" => retirement[op[p].candidate].state = "METADATA_FINALIZED"
  BY <1>1, <1>2, <1>4, OwnGeneration DEF PhysicalInv, CleanupRow
<1>5. \A p \in Operations : CleansUp(p)' => CleansUp(p)
  BY DEF CleansUp
<1> QED
  BY <1>2, <1>3, <1>4, <1>5 DEF RowEffect

\* A call of a cleanup that moves on within the handler of its claim.
LEMMA CleanupGoes ==
    ASSUME DeletionInv, PhysicalInv, Effects, NEW c \in Coordinators,
           NEW pc \in CleanupSteps \cup {"delete:plan"}, Goto(c, pc, <<>>), attempts' = attempts,
           pc \notin PlanSteps \cup AttemptSteps,
           work[c].pc \in CleanupHandler,
           pc \in EndSteps \/ work[c].pc \notin AttemptSteps \cup EndSteps,
           pc = "cleanup:complete" => retirement'[Candidate(c)].state = "METADATA_FINALIZED"
    PROVE  ClaimEffect
<1>1. work[c].pc # "idle" /\ pc # "idle"
  BY DEF CleanupHandler, CleanupSteps, DeleteSteps
<1> QED
  BY <1>1, GoesElsewhere

\* The handler of a cleanup works for one.
LEMMA CleanupWorker ==
    ASSUME DeletionInv, PhysicalInv, NEW c \in Coordinators, work[c].pc \in CleanupHandler
    PROVE  /\ work[c].op \in Operations /\ CleansUp(work[c].op)
           /\ Candidate(c) \in Generations /\ Candidate(c) = op[work[c].op].candidate
           /\ RowOf(c) = retirement[Candidate(c)]
           /\ CleanupRow(work[c].op) /\ Grasps(work[c]) /\ work[c].pc # "idle"
           /\ work[c].fence \in Nat
<1>1. work[c].pc # "idle"
  BY DEF CleanupHandler, CleanupSteps, DeleteSteps
<1> QED
  BY <1>1, GraspAtHand DEF Grasps, RowOf, PhysicalInv

LEMMA ReevaluatePhysical ==
    ASSUME DeletionInv, PhysicalInv, Effects, NEW c \in Coordinators, Reevaluate(c)
    PROVE  PhysicalEffects
<1> DEFINE o == work[c].op
           g == Candidate(c)
           row == [op |-> o, state |-> "RETIRING"]
           e == [pointer |-> pointer.version, generation |-> generation[g].version + 1,
                 fence |-> work[c].fence]
<1>1. /\ work[c].pc \in CleanupHandler /\ UNCHANGED <<faults, attempts, cluster>> /\ Stop(c)
  BY DEF Reevaluate, At, CleanupHandler
<1>2. /\ o \in Operations /\ g \in Generations /\ g = op[o].candidate /\ CleansUp(o) /\ CleanupRow(o)
      /\ work[c].fence \in Nat
  BY <1>1, CleanupWorker
<1>3. /\ op \in [Operations -> RetirementOperation]
      /\ expected \in [Operations -> [pointer : Nat, generation : Nat, fence : Nat]]
      /\ pointer.version \in Nat /\ generation[g].version \in Nat
  BY <1>2 DEF DeletionInv, Tables, Pointer, GenerationRow, PhysicalInv, PhysicalTypes
<1>4. CASE UNCHANGED <<op, retirement, expected>>
  BY <1>1, <1>4, AttemptsStay, ObjectsStay, RowsStay, Stops DEF PhysicalEffects
<1>5. CASE /\ op' = [op EXCEPT ![o] = [@ EXCEPT !.owner = None, !.live = FALSE]]
           /\ UNCHANGED <<retirement, expected>>
  <2>1. \A p \in Operations : op'[p].state = op[p].state
    BY <1>2, <1>3, <1>5 DEF RetirementOperation
  <2> QED
    BY <1>1, <1>5, <2>1, AttemptsStay, ObjectsStay, RowsStay, Stops DEF PhysicalEffects
<1>6. CASE /\ op[o].state = "RETIREMENT_WAITING_ELIGIBILITY"
           /\ retirement' = [retirement EXCEPT ![g] = row]
           /\ expected' = [expected EXCEPT ![o] = e]
           /\ op' = [op EXCEPT ![o] = [@ EXCEPT !.state = "CLEANING_UP", !.owner = None, !.live = FALSE]]
  <2>1. e \in [pointer : Nat, generation : Nat, fence : Nat]
    BY <1>2, <1>3
  <2>2. row.op = o /\ row.state = "RETIRING" /\ row.state # "METADATA_FINALIZED"
        /\ row.state \notin {"PHYSICALLY_DELETED", "METADATA_FINALIZED"}
    OBVIOUS
  <2> HIDE DEF row, e
  <2>3. /\ expected' \in [Operations -> [pointer : Nat, generation : Nat, fence : Nat]]
        /\ \A p \in Operations : p # o => expected'[p] = expected[p] /\ op'[p] = op[p]
        /\ op'[o].state = "CLEANING_UP"
    BY <1>2, <1>3, <1>6, <2>1 DEF RetirementOperation
  <2>4. retirement[g].state # "METADATA_FINALIZED"
    BY <1>2, <1>6 DEF CleanupRow, Undecided
  <2>5. /\ retirement' = [retirement EXCEPT ![op[o].candidate] = row] /\ attempts' = attempts
        /\ op'[o].state = "COMPLETED" => op[o].state = "COMPLETED"
        /\ op'[o].state = "RETIREMENT_WAITING_ELIGIBILITY" => row.state \in Undecided
        /\ retirement[op[o].candidate].state # "METADATA_FINALIZED"
    BY <1>1, <1>2, <1>6, <2>3, <2>4
  <2>6. RowEffect
    BY <1>2, <2>2, <2>3, <2>5, CleanupRowWritten
  <2> QED
    BY <1>1, <2>6, AttemptsStay, ObjectsStay, Stops DEF PhysicalEffects
<1> QED
  BY <1>4, <1>5, <1>6 DEF Reevaluate

LEMMA LoadPhysical ==
    ASSUME DeletionInv, PhysicalInv, Effects, NEW c \in Coordinators, LoadRetirement(c)
    PROVE  PhysicalEffects
<1>1. /\ UNCHANGED <<op, retirement, faults, expected, attempts, cluster>>
      /\ work[c].pc = "CLEANING_UP" /\ work[c].pc \in CleanupHandler
      /\ work[c].pc \notin AttemptSteps \cup EndSteps
  BY DEF LoadRetirement, At, CleanupHandler, AttemptSteps, DeleteSteps, EndSteps, tableVars, physicalVars
<1>2. AttemptEffect /\ ObjectEffect /\ RowEffect
  BY <1>1, AttemptsStay, ObjectsStay, RowsStay
<1>3. CASE Stop(c)
  BY <1>1, <1>2, <1>3, Stops DEF PhysicalEffects
<1>4. ASSUME NEW pc \in {"cleanup:retire", "cleanup:authorize", "cleanup:finalize", "cleanup:complete"},
             Goto(c, pc, <<>>), pc = "cleanup:complete" => RowOf(c).state = "METADATA_FINALIZED"
      PROVE  PhysicalEffects
  <2>1. pc \in CleanupSteps /\ pc \notin PlanSteps \cup AttemptSteps
    BY DEF CleanupSteps, PlanSteps, AttemptSteps, DeleteSteps
  <2>2. pc = "cleanup:complete" => retirement'[Candidate(c)].state = "METADATA_FINALIZED"
    BY <1>1, <1>4 DEF RowOf
  <2>3. ClaimEffect
    BY <1>1, <1>4, <2>1, <2>2, CleanupGoes
  <2> QED
    BY <1>2, <2>3 DEF PhysicalEffects
<1> QED
  BY <1>3, <1>4 DEF LoadRetirement

LEMMA RetirePhysical ==
    ASSUME DeletionInv, PhysicalInv, Effects, NEW c \in Coordinators, MarkGenerationRetired(c)
    PROVE  PhysicalEffects
<1> DEFINE o == work[c].op
           g == Candidate(c)
           row == [op |-> o, state |-> "LOGICALLY_RETIRED"]
<1>1. /\ work[c].pc = "cleanup:retire" /\ work[c].pc \in CleanupHandler
      /\ work[c].pc \notin AttemptSteps \cup EndSteps
      /\ UNCHANGED <<op, faults, attempts, cluster>>
  BY DEF MarkGenerationRetired, At, CleanupHandler, CleanupSteps, AttemptSteps, DeleteSteps, EndSteps
<1>2. /\ o \in Operations /\ g \in Generations /\ g = op[o].candidate /\ CleansUp(o) /\ CleanupRow(o)
      /\ RowOf(c) = retirement[g]
  BY <1>1, CleanupWorker
<1>3. expected \in [Operations -> [pointer : Nat, generation : Nat, fence : Nat]]
  BY DEF PhysicalInv, PhysicalTypes
<1>4. CASE Stop(c) /\ UNCHANGED <<retirement, expected>>
  BY <1>1, <1>4, AttemptsStay, ObjectsStay, RowsStay, Stops DEF PhysicalEffects
<1>5. CASE /\ RowOf(c).state = "RETIRING" /\ op[o].state = "CLEANING_UP"
           /\ retirement' = [retirement EXCEPT ![g] = row]
           /\ expected' = [expected EXCEPT ![o].generation = @ + 1]
           /\ Goto(c, "cleanup:authorize", <<>>)
  <2>1. row.op = o /\ row.state \notin {"PHYSICALLY_DELETED", "METADATA_FINALIZED"}
    OBVIOUS
  <2> HIDE DEF row
  <2> DEFINE e == [expected[o] EXCEPT !.generation = @ + 1]
  <2>2. e \in [pointer : Nat, generation : Nat, fence : Nat]
    <3>1. expected[o].generation + 1 \in Nat
      BY <1>2, <1>3
    <3> QED
      BY <1>2, <1>3, <3>1
  <2>3. RowEffect
    <3>1. expected' = [expected EXCEPT ![o] = e]
      BY <1>2, <1>3, <1>5
    <3> HIDE DEF e
    <3>2. /\ expected' \in [Operations -> [pointer : Nat, generation : Nat, fence : Nat]]
          /\ \A p \in Operations : p # o => expected'[p] = expected[p] /\ op'[p] = op[p]
      BY <1>1, <1>2, <1>3, <2>2, <3>1
    <3>3. /\ retirement' = [retirement EXCEPT ![op[o].candidate] = row] /\ attempts' = attempts
          /\ op'[o].state = "COMPLETED" => op[o].state = "COMPLETED"
          /\ op'[o].state # "RETIREMENT_WAITING_ELIGIBILITY"
          /\ retirement[op[o].candidate].state # "METADATA_FINALIZED"
      BY <1>1, <1>2, <1>5
    <3> QED
      BY <1>2, <2>1, <3>2, <3>3, CleanupRowWritten
  <2>4. "cleanup:authorize" \in CleanupSteps /\ "cleanup:authorize" \notin PlanSteps \cup AttemptSteps
    BY DEF CleanupSteps, PlanSteps, AttemptSteps, DeleteSteps
  <2>5. ClaimEffect
    BY <1>1, <1>5, <2>4, CleanupGoes
  <2> QED
    BY <1>1, <2>3, <2>5, AttemptsStay, ObjectsStay DEF PhysicalEffects
<1> QED
  BY <1>4, <1>5 DEF MarkGenerationRetired, Rejected, Fenced, Authorized

LEMMA AuthorizePhysical ==
    ASSUME DeletionInv, PhysicalInv, Effects, NEW c \in Coordinators, AuthorizePhysicalDeletion(c)
    PROVE  PhysicalEffects
<1> DEFINE o == work[c].op
           g == Candidate(c)
           row == [op |-> o, state |-> "PHYSICAL_DELETE_PENDING"]
<1>1. /\ work[c].pc = "cleanup:authorize" /\ work[c].pc \in CleanupHandler
      /\ work[c].pc \notin AttemptSteps \cup EndSteps
      /\ UNCHANGED <<op, faults, attempts, cluster>>
  BY DEF AuthorizePhysicalDeletion, At, CleanupHandler, CleanupSteps, AttemptSteps, DeleteSteps, EndSteps
<1>2. /\ o \in Operations /\ g \in Generations /\ g = op[o].candidate /\ CleansUp(o) /\ CleanupRow(o)
      /\ RowOf(c) = retirement[g] /\ work[c].fence \in Nat
  BY <1>1, CleanupWorker
<1>3. expected \in [Operations -> [pointer : Nat, generation : Nat, fence : Nat]]
  BY DEF PhysicalInv, PhysicalTypes
<1>4. CASE Stop(c) /\ UNCHANGED <<retirement, expected>>
  BY <1>1, <1>4, AttemptsStay, ObjectsStay, RowsStay, Stops DEF PhysicalEffects
<1>5. CASE /\ RowOf(c).state \in {"LOGICALLY_RETIRED", "PHYSICAL_DELETE_PENDING"}
           /\ op[o].state = "CLEANING_UP"
           /\ retirement' = [retirement EXCEPT ![g] = row]
           /\ expected' = [expected EXCEPT ![o] = [@ EXCEPT !.fence = work[c].fence]]
           /\ Goto(c, "delete:plan", <<>>)
  <2>1. row.op = o /\ row.state \notin {"PHYSICALLY_DELETED", "METADATA_FINALIZED"}
    OBVIOUS
  <2> HIDE DEF row
  <2>2. /\ expected' \in [Operations -> [pointer : Nat, generation : Nat, fence : Nat]]
        /\ \A p \in Operations : p # o => expected'[p] = expected[p] /\ op'[p] = op[p]
    BY <1>1, <1>2, <1>3, <1>5
  <2>3. RowEffect
    <3>1. /\ retirement' = [retirement EXCEPT ![op[o].candidate] = row] /\ attempts' = attempts
          /\ op'[o].state = "COMPLETED" => op[o].state = "COMPLETED"
          /\ op'[o].state # "RETIREMENT_WAITING_ELIGIBILITY"
          /\ retirement[op[o].candidate].state # "METADATA_FINALIZED"
      BY <1>1, <1>2, <1>5
    <3> QED
      BY <1>2, <2>1, <2>2, <3>1, CleanupRowWritten
  <2>4. "delete:plan" \in CleanupSteps /\ "delete:plan" \notin PlanSteps \cup AttemptSteps
    BY DEF CleanupSteps, PlanSteps, AttemptSteps, DeleteSteps
  <2>5. ClaimEffect
    BY <1>1, <1>5, <2>4, CleanupGoes
  <2> QED
    BY <1>1, <2>3, <2>5, AttemptsStay, ObjectsStay DEF PhysicalEffects
<1> QED
  BY <1>4, <1>5 DEF AuthorizePhysicalDeletion, Rejected, Fenced, Authorized

\* All attempts under the fence that is expected are confirmed absent.
LEMMA ConfirmPhysical ==
    ASSUME DeletionInv, PhysicalInv, Effects, NEW c \in Coordinators, ConfirmPhysicalDeletion(c)
    PROVE  PhysicalEffects
<1> DEFINE o == work[c].op
           g == Candidate(c)
           row == [op |-> o, state |-> "PHYSICALLY_DELETED"]
<1>1. /\ work[c].pc = "cleanup:confirm" /\ work[c].pc \in CleanupHandler
      /\ UNCHANGED <<op, faults, expected, attempts, cluster>>
  BY DEF ConfirmPhysicalDeletion, At, CleanupHandler, CleanupSteps, physicalVars
<1>2. /\ o \in Operations /\ g \in Generations /\ g = op[o].candidate /\ CleansUp(o) /\ CleanupRow(o)
      /\ RowOf(c) = retirement[g]
  BY <1>1, CleanupWorker
<1>3. expected \in [Operations -> [pointer : Nat, generation : Nat, fence : Nat]]
  BY DEF PhysicalInv, PhysicalTypes
<1>4. CASE Stop(c) /\ UNCHANGED retirement
  BY <1>1, <1>4, AttemptsStay, ObjectsStay, RowsStay, Stops DEF PhysicalEffects
<1>5. CASE /\ Confirmed(c)
           /\ retirement' = [retirement EXCEPT ![g] = row]
           /\ Goto(c, "cleanup:finalize", <<>>)
  <2>1. row.op = o /\ row.state = "PHYSICALLY_DELETED"
    OBVIOUS
  <2> HIDE DEF row
  <2>2. retirement[g].state = "PHYSICAL_DELETE_PENDING" /\ expected[o].fence = work[c].fence
    BY <1>2, <1>5 DEF Confirmed, HasAuthority
  <2>3. Settled(o)
    BY <1>5, <2>2 DEF Confirmed, Settled, Mine, Absent
  <2>4. op[o].state # "RETIREMENT_WAITING_ELIGIBILITY"
    BY <1>2, <2>2 DEF CleanupRow, Undecided
  <2>5. RowEffect
    BY <1>1, <1>2, <1>3, <1>5, <2>1, <2>2, <2>3, <2>4, CleanupRowWritten
  <2>6. "cleanup:finalize" \in CleanupSteps /\ "cleanup:finalize" \notin PlanSteps \cup AttemptSteps
        /\ "cleanup:finalize" \in EndSteps
    BY DEF CleanupSteps, PlanSteps, AttemptSteps, DeleteSteps, EndSteps
  <2>7. ClaimEffect
    BY <1>1, <1>5, <2>6, CleanupGoes
  <2> QED
    BY <1>1, <2>5, <2>7, AttemptsStay, ObjectsStay DEF PhysicalEffects
<1> QED
  BY <1>4, <1>5 DEF ConfirmPhysicalDeletion

LEMMA FinalizeRetirementPhysical ==
    ASSUME DeletionInv, PhysicalInv, Effects, NEW c \in Coordinators, FinalizeRetirement(c)
    PROVE  PhysicalEffects
<1> DEFINE o == work[c].op
           g == Candidate(c)
           row == [op |-> o, state |-> "METADATA_FINALIZED"]
<1>1. /\ work[c].pc = "cleanup:finalize" /\ work[c].pc \in CleanupHandler
      /\ UNCHANGED <<op, faults, expected, attempts, cluster>>
  BY DEF FinalizeRetirement, At, CleanupHandler, CleanupSteps, physicalVars
<1>2. /\ o \in Operations /\ g \in Generations /\ g = op[o].candidate /\ CleansUp(o) /\ CleanupRow(o)
      /\ RowOf(c) = retirement[g]
  BY <1>1, CleanupWorker
<1>3. /\ expected \in [Operations -> [pointer : Nat, generation : Nat, fence : Nat]]
      /\ retirement \in [Generations -> RetirementRow \cup {None}]
  BY DEF DeletionInv, Tables, PhysicalInv, PhysicalTypes
<1>4. CASE Stop(c) /\ UNCHANGED retirement
  BY <1>1, <1>4, AttemptsStay, ObjectsStay, RowsStay, Stops DEF PhysicalEffects
<1>5. CASE /\ RowOf(c).state = "PHYSICALLY_DELETED"
           /\ retirement' = [retirement EXCEPT ![g] = row]
           /\ Goto(c, "cleanup:complete", <<>>)
  <2>1. row.op = o /\ row.state = "METADATA_FINALIZED"
    OBVIOUS
  <2> HIDE DEF row
  <2>2. op[o].state # "RETIREMENT_WAITING_ELIGIBILITY" /\ retirement[g].state = "PHYSICALLY_DELETED"
    BY <1>2, <1>5 DEF CleanupRow, Undecided
  <2>3. RowEffect
    BY <1>1, <1>2, <1>3, <1>5, <2>1, <2>2, CleanupRowWritten
  <2>4. "cleanup:complete" \in CleanupSteps /\ "cleanup:complete" \notin PlanSteps \cup AttemptSteps
        /\ "cleanup:complete" \in EndSteps
    BY DEF CleanupSteps, PlanSteps, AttemptSteps, DeleteSteps, EndSteps
  <2>5. retirement'[g].state = "METADATA_FINALIZED"
    BY <1>2, <1>3, <1>5, <2>1
  <2>6. ClaimEffect
    BY <1>1, <1>5, <2>4, <2>5, CleanupGoes
  <2> QED
    BY <1>1, <2>3, <2>6, AttemptsStay, ObjectsStay DEF PhysicalEffects
<1> QED
  BY <1>4, <1>5 DEF FinalizeRetirement

LEMMA CompletePhysical ==
    ASSUME DeletionInv, PhysicalInv, Effects, NEW c \in Coordinators, CompleteCleanup(c)
    PROVE  PhysicalEffects
<1> DEFINE o == work[c].op
           g == Candidate(c)
<1>1. /\ work[c].pc = "cleanup:complete" /\ work[c].pc \in CleanupHandler
      /\ UNCHANGED <<retirement, faults, expected, attempts, cluster>> /\ Stop(c)
      /\ \/ op' = op
         \/ op' = [op EXCEPT ![o] = [@ EXCEPT !.state = "COMPLETED", !.owner = None, !.live = FALSE]]
  BY DEF CompleteCleanup, Transition, At, CleanupHandler, CleanupSteps, tableVars, physicalVars
<1>2. /\ o \in Operations /\ g = op[o].candidate /\ CleansUp(o) /\ CleanupRow(o)
      /\ Grasps(work[c])
  BY <1>1, CleanupWorker
<1>3. op \in [Operations -> RetirementOperation]
  BY DEF DeletionInv, Tables
<1>4. retirement[op[o].candidate].state = "METADATA_FINALIZED"
  BY <1>1, <1>2 DEF Grasps
<1>5. /\ \A p \in Operations : p # o => op'[p] = op[p]
      /\ op'[o].state \in {op[o].state, "COMPLETED"}
  BY <1>1, <1>2, <1>3 DEF RetirementOperation
<1>6. \A p \in Operations : CleansUp(p) => CleanupRow(p)
  BY DEF PhysicalInv
<1>7. \A p \in Operations : CleansUp(p)' => CleansUp(p)
  BY <1>2, <1>5 DEF CleansUp
<1>8. expected \in [Operations -> [pointer : Nat, generation : Nat, fence : Nat]]
  BY DEF PhysicalInv, PhysicalTypes
<1>9. RowEffect
  BY <1>1, <1>4, <1>5, <1>6, <1>7, <1>8 DEF RowEffect, CleanupRow
<1> QED
  BY <1>1, <1>9, AttemptsStay, ObjectsStay, Stops DEF PhysicalEffects

-----------------------------------------------------------------------------
(***************************************************************************)
(* The calls of a deletion.                                                *)
(***************************************************************************)

\* A deletion goes on to a call it is ready for.
LEMMA DeletionGoesOn ==
    ASSUME DeletionInv, PhysicalInv, NEW c \in Coordinators, work[c].pc \in CleanupHandler,
           UNCHANGED <<op, faults>>, NEW pc \in CleanupSteps, pc # "cleanup:complete",
           NEW mem, Goto(c, pc, mem),
           \A a \in Attempt : ~Mine(a, c) => (a \in attempts' <=> a \in attempts),
           pc \in PlanSteps \cup AttemptSteps =>
              mem[1] \in DeletionPlan /\ \A role \in RoleNames : mem[1][role].uid <= faults + 1,
           pc \notin AttemptSteps \cup EndSteps => \A a \in attempts' : ~Mine(a, c),
           pc \in AttemptSteps => \A a \in attempts' : Mine(a, c) => a.uid = mem[1][a.role].uid,
           pc = "delete:remove" =>
              \E a \in attempts' : Mine(a, c) /\ a.role = Roles[mem[2]] /\ Intended(a),
           pc = "delete:absent" =>
              cluster'[Candidate(c)][Roles[mem[2]]].uid # mem[1][Roles[mem[2]]].uid
    PROVE  ClaimEffect
<1>1. pc # "idle" /\ work[c].pc # "idle" /\ CleansUp(work[c].op) /\ Grasps(work[c])
      /\ Candidate(c) = op[work[c].op].candidate
  BY CleanupWorker DEF CleanupSteps, DeleteSteps
<1>2. ASSUME NEW w, w = [pc |-> pc, op |-> work[c].op, fence |-> work[c].fence, mem |-> mem]
      PROVE  Grasps(w)'
  <2>1. w.pc = pc /\ w.op = work[c].op /\ w.fence = work[c].fence /\ w.mem = mem
    BY <1>2
  <2>2. w.fence <= op'[w.op].fence /\ CleansUp(w.op)'
    BY <1>1, <2>1 DEF Grasps, CleansUp
  <2>3. Own(w)' = {a \in attempts' : Mine(a, c)}
    BY <2>1 DEF Own, Mine
  <2>4. Own(w)' \subseteq attempts' /\ \A a \in attempts' : a \in Own(w)' <=> Mine(a, c)
    BY <2>3
  <2>5. pc \notin AttemptSteps \cup EndSteps => Own(w)' = {}
    BY <2>4
  <2>6. op'[w.op].candidate = Candidate(c)
    BY <1>1, <2>1
  <2> HIDE DEF Own
  <2> QED
    BY <2>1, <2>2, <2>4, <2>5, <2>6 DEF Grasps, Intended
<1>3. \A a \in Attempt : ~(a.op = work[c].op /\ a.fence = work[c].fence) =>
         (a \in attempts' <=> a \in attempts)
  BY DEF Mine
<1> QED
  BY <1>1, <1>2, <1>3, GoesOn

\* What a process of a deletion has at hand.
LEMMA DeletionAtHand ==
    ASSUME DeletionInv, PhysicalInv, NEW c \in Coordinators, DeletionStep(c)
    PROVE  /\ work[c].pc \in CleanupHandler /\ work[c].pc \in DeleteSteps
           /\ UNCHANGED <<op, retirement, expected>> /\ RowEffect
           /\ work[c].op \in Operations /\ Candidate(c) \in Generations
           /\ Candidate(c) = op[work[c].op].candidate /\ Doomed(Candidate(c))
           /\ work[c].fence \in Nat /\ work[c].fence <= op[work[c].op].fence
           /\ op[work[c].op].state # "ABSENT"
           /\ work[c].pc \in PlanSteps \cup AttemptSteps =>
                 /\ Plan(c) \in DeletionPlan
                 /\ \A role \in RoleNames : Planned(c, role).uid \in 1..(faults + 1)
                 /\ work[c].mem[2] \in DOMAIN Roles /\ Role(c) \in RoleNames
           /\ work[c].pc \notin AttemptSteps => \A a \in attempts : ~Mine(a, c)
           /\ work[c].pc \in AttemptSteps => \A a \in attempts : Mine(a, c) => a.uid = Planned(c, a.role).uid
<1>1. UNCHANGED <<op, tableVars, expected>> /\ work[c].pc \in DeleteSteps
  BY DeletionGoes
<1>2. work[c].pc # "idle" /\ work[c].pc \in CleanupHandler /\ work[c].pc \notin EndSteps
  BY <1>1 DEF DeleteSteps, CleanupHandler, CleanupSteps, EndSteps
<1>3. /\ Grasps(work[c]) /\ Engaged(work[c]) /\ work[c].op \in Operations /\ work[c].fence \in Nat
      /\ op[work[c].op].state # "ABSENT"
      /\ Candidate(c) \in Generations /\ Candidate(c) = op[work[c].op].candidate
  BY <1>2, GraspAtHand
<1>4. RowEffect
  BY <1>1, RowsStay DEF tableVars
<1>5. Doomed(Candidate(c)) /\ (work[c].pc # "delete:plan" => work[c].mem[2] \in DOMAIN Roles)
  BY <1>1, <1>3 DEF Engaged, Relies
<1>6. ASSUME work[c].pc \in PlanSteps \cup AttemptSteps
      PROVE  /\ Plan(c) \in DeletionPlan
             /\ \A role \in RoleNames : Planned(c, role).uid \in 1..(faults + 1)
             /\ work[c].mem[2] \in DOMAIN Roles /\ Role(c) \in RoleNames
  <2>1. Plan(c) \in DeletionPlan /\ \A role \in RoleNames : Planned(c, role).uid <= faults + 1
    BY <1>3, <1>6 DEF Grasps, Plan, Planned
  <2>2. \A role \in RoleNames : Planned(c, role).uid \in Nat \ {0}
    BY <2>1 DEF DeletionPlan, Planned
  <2>3. faults \in Nat
    BY DEF PhysicalInv, PhysicalTypes
  <2>4. work[c].mem[2] \in DOMAIN Roles
    BY <1>5, <1>6 DEF PlanSteps, AttemptSteps
  <2> QED
    BY <2>1, <2>2, <2>3, <2>4 DEF Role, RoleNames
<1>7. work[c].pc \notin AttemptSteps => \A a \in attempts : ~Mine(a, c)
  BY <1>2, <1>3 DEF Grasps, Own, Mine
<1>8. work[c].pc \in AttemptSteps => \A a \in attempts : Mine(a, c) => a.uid = Planned(c, a.role).uid
  BY <1>3 DEF Grasps, Own, Mine, Planned, Plan
<1>9. work[c].fence <= op[work[c].op].fence
  BY <1>3 DEF Grasps
<1> QED
  BY <1>1, <1>2, <1>3, <1>4, <1>5, <1>6, <1>7, <1>8, <1>9 DEF tableVars

\* The plan names objects that are there.
LEMMA PlanPhysical ==
    ASSUME DeletionInv, PhysicalInv, Effects, NEW c \in Coordinators, PlanDeletion(c)
    PROVE  PhysicalEffects
<1>1. DeletionStep(c) /\ work[c].pc = "delete:plan" /\ UNCHANGED <<op, faults, attempts, cluster>>
  BY DEF DeletionStep, PlanDeletion, At, physicalVars
<1>2. AttemptEffect /\ ObjectEffect /\ RowEffect
  BY <1>1, AttemptsStay, ObjectsStay, DeletionAtHand
<1>3. CASE Stop(c)
  BY <1>1, <1>2, <1>3, Stops DEF PhysicalEffects
<1>4. CASE ~Stop(c)
  <2> DEFINE g == Candidate(c)
             plan == [role \in RoleNames |-> Identity(cluster[g][role])]
  <2>1. Goto(c, "delete:mark", <<plan, 1>>) /\ \A role \in RoleNames : cluster[g][role].uid # 0
    BY <1>4 DEF PlanDeletion, Exists
  <2>2. /\ cluster \in [Generations -> [RoleNames -> ClusterObject]]
        /\ \A role \in RoleNames : cluster[g][role].uid <= faults + 1
    BY <1>1, DeletionAtHand DEF PhysicalInv, PhysicalTypes, AttemptsInv
  <2>3. \A role \in RoleNames : cluster[g][role] \in ClusterObject
    BY <1>1, <2>2, DeletionAtHand
  <2>4. plan \in DeletionPlan /\ \A role \in RoleNames : plan[role].uid <= faults + 1
    BY <2>1, <2>2, <2>3 DEF DeletionPlan, Identity, ClusterObject
  <2> HIDE DEF plan
  <2>5. "delete:mark" \in CleanupSteps /\ "delete:mark" \notin AttemptSteps
    BY DEF CleanupSteps, DeleteSteps, AttemptSteps
  <2>6. work[c].pc \notin AttemptSteps
    BY <1>1 DEF AttemptSteps
  <2>7. \A a \in attempts' : ~Mine(a, c)
    BY <1>1, <2>6, DeletionAtHand
  <2>8. work[c].pc \in CleanupHandler
    BY <1>1, DeletionAtHand
  <2>9. ClaimEffect
    BY <1>1, <2>1, <2>4, <2>5, <2>7, <2>8, DeletionGoesOn
  <2> QED
    BY <1>2, <2>9 DEF PhysicalEffects
<1> QED
  BY <1>3, <1>4

LEMMA MarkDeletionPhysical ==
    ASSUME DeletionInv, PhysicalInv, Effects, NEW c \in Coordinators, MarkDeletionAuthority(c)
    PROVE  PhysicalEffects
<1> DEFINE g == Candidate(c)
           service == cluster[g]["service"]
           plan == [Plan(c) EXCEPT !["service"] = Newer(@)]
<1>1. DeletionStep(c) /\ work[c].pc = "delete:mark" /\ UNCHANGED <<op, faults, attempts>>
  BY DEF DeletionStep, MarkDeletionAuthority, At
<1>2. /\ work[c].pc \in PlanSteps \cup AttemptSteps /\ work[c].pc \notin AttemptSteps
      /\ "service" \in RoleNames
  BY <1>1 DEF PlanSteps, AttemptSteps, RoleNames, Roles
<1>3. AttemptEffect /\ RowEffect /\ work[c].pc \in CleanupHandler
  BY <1>1, AttemptsStay, DeletionAtHand
<1>4. CASE Stop(c) /\ UNCHANGED cluster
  BY <1>1, <1>3, <1>4, ObjectsStay, Stops DEF PhysicalEffects
<1>5. CASE /\ cluster' = [cluster EXCEPT ![g]["service"] = [Newer(@) EXCEPT !.marker = Marker(c)]]
           /\ Goto(c, "delete:record", <<plan, 1>>)
  <2>1. cluster \in [Generations -> [RoleNames -> ClusterObject]] /\ g \in Generations
        /\ service \in ClusterObject
    BY <1>1, <1>2, DeletionAtHand DEF PhysicalInv, PhysicalTypes
  <2> DEFINE object == [Newer(service) EXCEPT !.marker = Marker(c)]
  <2>2. object \in ClusterObject /\ object.uid = service.uid /\ object.deleting = service.deleting
    <3>1. Marker(c) \in [op : Operations, fence : Nat]
      BY <1>1, DeletionAtHand DEF Marker
    <3>2. service.rv + 1 \in Nat
      BY <2>1 DEF ClusterObject
    <3>3. Newer(service) \in ClusterObject /\ Newer(service).uid = service.uid
          /\ Newer(service).deleting = service.deleting
      BY <2>1, <3>2 DEF ClusterObject, Newer
    <3> HIDE DEF service
    <3> QED
      BY <3>1, <3>3 DEF ClusterObject
  <2>3. cluster' = [cluster EXCEPT ![g]["service"] = object]
    BY <1>5
  <2> HIDE DEF object
  <2>4. /\ cluster' \in [Generations -> [RoleNames -> ClusterObject]]
        /\ \A h \in Generations, role \in RoleNames :
              /\ cluster'[h][role].uid = cluster[h][role].uid
              /\ cluster'[h][role].deleting = cluster[h][role].deleting
    BY <1>2, <2>1, <2>2, <2>3
  <2>5. ObjectEffect
    BY <1>1, <2>4 DEF ObjectEffect
  <2>6. /\ Plan(c) \in DeletionPlan
        /\ \A role \in RoleNames : Plan(c)[role].uid \in 1..(faults + 1)
    BY <1>1, <1>2, DeletionAtHand DEF Planned
  <2>7. plan \in DeletionPlan /\ \A role \in RoleNames : plan[role].uid = Plan(c)[role].uid
    <3> DEFINE entry == Newer(Plan(c)["service"])
    <3>1. Plan(c)["service"] \in [uid : Nat \ {0}, rv : Nat]
      BY <1>2, <2>6 DEF DeletionPlan
    <3>2. Plan(c)["service"].rv + 1 \in Nat
      BY <3>1
    <3>3. entry \in [uid : Nat \ {0}, rv : Nat] /\ entry.uid = Plan(c)["service"].uid
      BY <3>1, <3>2 DEF Newer
    <3>4. plan = [Plan(c) EXCEPT !["service"] = entry]
      OBVIOUS
    <3> HIDE DEF entry, plan
    <3> QED
      BY <1>2, <2>6, <3>3, <3>4 DEF DeletionPlan
  <2>8. faults \in Nat
    BY DEF PhysicalInv, PhysicalTypes
  <2>9. \A role \in RoleNames : plan[role].uid <= faults + 1
    <3> HIDE DEF plan
    <3> QED
      BY <2>6, <2>7, <2>8
  <2>10. "delete:record" \in CleanupSteps /\ "delete:record" \notin AttemptSteps
    BY DEF CleanupSteps, DeleteSteps, AttemptSteps
  <2>11. \A a \in attempts' : ~Mine(a, c)
    BY <1>1, <1>2, DeletionAtHand
  <2> HIDE DEF plan
  <2>12. ClaimEffect
    BY <1>1, <1>3, <1>5, <2>7, <2>9, <2>10, <2>11, DeletionGoesOn
  <2> QED
    BY <1>3, <2>5, <2>12 DEF PhysicalEffects
<1> QED
  BY <1>4, <1>5 DEF MarkDeletionAuthority

\* The attempts of a claim are those of one plan.
LEMMA RecordPlanPhysical ==
    ASSUME DeletionInv, PhysicalInv, Effects, NEW c \in Coordinators, RecordDeletionPlan(c)
    PROVE  PhysicalEffects
<1>1. DeletionStep(c) /\ work[c].pc = "delete:record" /\ UNCHANGED <<op, faults, cluster>>
  BY DEF DeletionStep, RecordDeletionPlan, At
<1>2. work[c].pc \in PlanSteps \cup AttemptSteps /\ work[c].pc \notin AttemptSteps
  BY <1>1 DEF PlanSteps, AttemptSteps
<1>3. ObjectEffect /\ RowEffect /\ work[c].pc \in CleanupHandler
  BY <1>1, ObjectsStay, DeletionAtHand
<1>4. CASE Stop(c) /\ UNCHANGED attempts
  BY <1>1, <1>3, <1>4, AttemptsStay, Stops DEF PhysicalEffects
<1>5. CASE /\ HasAuthority(c)
           /\ attempts' = attempts \cup
                {[op |-> work[c].op, fence |-> work[c].fence, role |-> role,
                  uid |-> Planned(c, role).uid, state |-> "PLANNED"] : role \in RoleNames}
           /\ Continue(c, "delete:fence")
  <2> DEFINE new == {[op |-> work[c].op, fence |-> work[c].fence, role |-> role,
                      uid |-> Planned(c, role).uid, state |-> "PLANNED"] : role \in RoleNames}
  <2>1. /\ work[c].op \in Operations /\ work[c].fence \in Nat /\ faults \in Nat
        /\ work[c].fence <= op[work[c].op].fence /\ op[work[c].op].state # "ABSENT"
        /\ Candidate(c) = op[work[c].op].candidate
        /\ Plan(c) \in DeletionPlan
        /\ \A role \in RoleNames : Planned(c, role).uid \in 1..(faults + 1)
        /\ \A a \in attempts : ~Mine(a, c)
    BY <1>1, <1>2, DeletionAtHand DEF PhysicalInv, PhysicalTypes
  <2>2. retirement[Candidate(c)] # None /\ retirement[Candidate(c)].state = "PHYSICAL_DELETE_PENDING"
    BY <1>5 DEF HasAuthority, OwnRow, RowOf
  <2>3. ASSUME NEW b \in new
        PROVE  /\ b \in Attempt /\ b.op = work[c].op /\ b.fence = work[c].fence
               /\ b.role \in RoleNames /\ b.uid = Planned(c, b.role).uid /\ b.state = "PLANNED"
    <3>1. PICK role \in RoleNames :
             b = [op |-> work[c].op, fence |-> work[c].fence, role |-> role,
                  uid |-> Planned(c, role).uid, state |-> "PLANNED"]
      BY <2>3
    <3>2. Planned(c, role).uid \in Nat
      BY <2>1
    <3> QED
      BY <2>1, <3>1, <3>2 DEF Attempt, AttemptStates
  <2>4. attempts' = attempts \cup new
    BY <1>5
  <2> HIDE DEF new
  <2>5. attempts \in SUBSET Attempt
    BY DEF PhysicalInv, PhysicalTypes
  <2>6. ASSUME NEW b \in new
        PROVE  /\ ~Absent(b) /\ b.uid \in 1..(faults + 1)
               /\ b.fence <= op[b.op].fence /\ op[b.op].state # "ABSENT"
               /\ retirement[op[b.op].candidate] # None
               /\ retirement[op[b.op].candidate].state = "PHYSICAL_DELETE_PENDING"
    BY <2>1, <2>2, <2>3 DEF Absent
  <2>7. attempts' \in SUBSET Attempt
    BY <2>3, <2>4, <2>5
  <2>8. AttemptEffect
    BY <2>4, <2>6, <2>7 DEF AttemptEffect, Same
  <2>9. /\ \A a \in Attempt : ~Mine(a, c) => (a \in attempts' <=> a \in attempts)
        /\ \A a \in attempts' : Mine(a, c) => a.uid = Plan(c)[a.role].uid
    BY <2>1, <2>3, <2>4 DEF Mine, Planned
  <2>10. faults \in Nat /\ \A role \in RoleNames : Plan(c)[role].uid <= faults + 1
    BY <2>1 DEF Planned
  <2>11. /\ "delete:fence" \in CleanupSteps /\ "delete:fence" \in AttemptSteps
         /\ Goto(c, "delete:fence", work[c].mem) /\ Plan(c) = work[c].mem[1]
    BY <1>5 DEF CleanupSteps, DeleteSteps, AttemptSteps, Continue, Plan
  <2>12. ClaimEffect
    BY <1>1, <1>3, <2>1, <2>9, <2>10, <2>11, DeletionGoesOn
  <2> QED
    BY <1>3, <2>8, <2>12 DEF PhysicalEffects
<1> QED
  BY <1>4, <1>5 DEF RecordDeletionPlan

\* The calls that only read: authority, markers and absence.
LEMMA DeletionReads ==
    ASSUME DeletionInv, PhysicalInv, Effects, NEW c \in Coordinators,
           \/ AssertFirst(c) \/ VerifyAll(c) \/ AssertVolume(c) \/ VerifyVolume(c) \/ ObserveAbsence(c)
    PROVE  PhysicalEffects
<1>1. /\ DeletionStep(c) /\ UNCHANGED <<op, faults, attempts, cluster>>
      /\ work[c].pc \in AttemptSteps
  BY DEF DeletionStep, AssertFirst, AssertVolume, AssertAuthority, VerifyAll, VerifyVolume,
         ObserveAbsence, At, physicalVars, AttemptSteps, DeleteSteps
<1>2. AttemptEffect /\ ObjectEffect /\ RowEffect /\ work[c].pc \in CleanupHandler
  BY <1>1, AttemptsStay, ObjectsStay, DeletionAtHand
<1>3. CASE Stop(c)
  BY <1>1, <1>2, <1>3, Stops DEF PhysicalEffects
<1>4. ASSUME NEW pc \in {"delete:verify", "delete:reverify", "delete:intent", "delete:absent"},
             Continue(c, pc), pc = "delete:absent" => ObservedAbsent(c)
      PROVE  PhysicalEffects
  <2>1. pc \in CleanupSteps /\ pc \in AttemptSteps /\ pc \notin {"delete:remove", "cleanup:complete"}
        /\ Goto(c, pc, work[c].mem)
    BY <1>4 DEF CleanupSteps, DeleteSteps, AttemptSteps, Continue
  <2>2. /\ Plan(c) \in DeletionPlan /\ faults \in Nat
        /\ \A role \in RoleNames : Planned(c, role).uid \in 1..(faults + 1)
        /\ \A a \in attempts : Mine(a, c) => a.uid = Planned(c, a.role).uid
    BY <1>1, DeletionAtHand DEF PhysicalInv, PhysicalTypes
  <2>3. /\ work[c].mem[1] \in DeletionPlan
        /\ \A role \in RoleNames : work[c].mem[1][role].uid <= faults + 1
        /\ \A a \in attempts' : Mine(a, c) => a.uid = work[c].mem[1][a.role].uid
    BY <1>1, <2>2 DEF Plan, Planned
  <2>4. pc = "delete:absent" =>
           cluster'[Candidate(c)][Roles[work[c].mem[2]]].uid # work[c].mem[1][Roles[work[c].mem[2]]].uid
    BY <1>1, <1>4 DEF ObservedAbsent, Object_, Role, Planned, Plan
  <2>5. ClaimEffect
    BY <1>1, <1>2, <2>1, <2>3, <2>4, DeletionGoesOn
  <2> QED
    BY <1>2, <2>5 DEF PhysicalEffects
<1> QED
  BY <1>3, <1>4 DEF AssertFirst, AssertVolume, AssertAuthority, VerifyAll, VerifyVolume, ObserveAbsence

\* A statement on the attempts of one claim: each goes forward, none of
\* another claim changes.
LEMMA AttemptsAdvance ==
    ASSUME DeletionInv, PhysicalInv, NEW c \in Coordinators,
           NEW roles, NEW from, NEW to \in AttemptStates, NEW pc, NEW mem,
           AttemptState(c, roles, from, to, pc, mem),
           to \in {"PLANNED", "FENCE_MARKED"} => from \subseteq {"PLANNED", "FENCE_MARKED"},
           "ABSENT_CONFIRMED" \in from => to = "ABSENT_CONFIRMED",
           to = "ABSENT_CONFIRMED" => \A a \in Advancing(c, roles, from) : TargetUid(a) # a.uid
    PROVE  /\ AttemptEffect
           /\ \A a \in Attempt : ~Mine(a, c) => (a \in attempts' <=> a \in attempts)
           /\ \A b \in attempts' : Mine(b, c) => \E a \in attempts : Mine(a, c) /\ Same(a, b)
           /\ UNCHANGED <<op, faults, cluster>>
           /\ \/ Stop(c) /\ UNCHANGED attempts
              \/ /\ Goto(c, pc, mem)
                 /\ \E b \in attempts' : Mine(b, c) /\ b.role \in roles /\ b.state = to
<1> DEFINE moving == Advancing(c, roles, from)
           moved(a) == [a EXCEPT !.state = to]
<1>1. attempts \in SUBSET Attempt /\ UNCHANGED <<op, faults, cluster>>
  BY DEF PhysicalInv, PhysicalTypes, AttemptState
<1>2. CASE Stop(c) /\ UNCHANGED attempts
  BY <1>1, <1>2, AttemptsStay DEF Same
<1>3. CASE /\ moving # {} /\ Goto(c, pc, mem)
           /\ attempts' = (attempts \ moving) \cup {moved(a) : a \in moving}
  <2>1. ASSUME NEW a \in moving
        PROVE  /\ a \in attempts /\ Mine(a, c) /\ a.role \in roles /\ a.state \in from
               /\ moved(a) \in Attempt /\ Same(a, moved(a)) /\ moved(a).state = to
    BY <1>1 DEF Advancing, Attempt, Same
  <2>2. ASSUME NEW a \in attempts, a \notin moving
        PROVE  a \in attempts' /\ Same(a, a)
    BY <1>3, <2>2 DEF Same
  <2>3. \A b \in attempts' : (b \in attempts /\ b \notin moving) \/ \E a \in moving : b = moved(a)
    BY <1>3
  <2>4. \A a \in moving : moved(a) \in attempts'
    BY <1>3
  <2> HIDE DEF moving, moved
  <2>5. attempts' \in SUBSET Attempt
    BY <1>1, <2>1, <2>3
  <2>6. ASSUME NEW a \in attempts
        PROVE  \E b \in attempts' : Same(a, b) /\ (Intended(a) => Intended(b))
    BY <2>1, <2>2, <2>4 DEF Intended
  <2>7. ASSUME NEW a \in moving
        PROVE  /\ Absent(a) => Absent(moved(a))
               /\ Absent(moved(a)) => TargetUid(moved(a)) # moved(a).uid
    <3>1. TargetUid(moved(a)) = TargetUid(a) /\ moved(a).uid = a.uid
      BY <2>1 DEF TargetUid, Same
    <3> QED
      BY <2>1, <3>1 DEF Absent, moving
  <2>8. AttemptEffect
    BY <2>1, <2>2, <2>3, <2>5, <2>6, <2>7 DEF AttemptEffect
  <2>9. ASSUME NEW b \in attempts', Mine(b, c)
        PROVE  \E a \in attempts : Mine(a, c) /\ Same(a, b)
    BY <2>1, <2>2, <2>3, <2>9
  <2>10. ASSUME NEW a \in Attempt, ~Mine(a, c)
         PROVE  a \in attempts' <=> a \in attempts
    <3>1. a \notin moving
      BY <2>1, <2>10
    <3>2. \A m \in moving : a # moved(m)
      BY <2>1, <2>10 DEF Mine, Same
    <3> QED
      BY <2>2, <2>3, <3>1, <3>2
  <2>11. \E b \in attempts' : Mine(b, c) /\ b.role \in roles /\ b.state = to
    <3>1. PICK a \in moving : TRUE
      BY <1>3
    <3> QED
      BY <2>1, <2>4, <3>1 DEF Mine, Same
  <2> QED
    BY <1>1, <1>3, <2>8, <2>9, <2>10, <2>11
<1> QED
  BY <1>2, <1>3 DEF AttemptState

\* The process goes on with its plan.
LEMMA AttemptGoes ==
    ASSUME DeletionInv, PhysicalInv, Effects, NEW c \in Coordinators, DeletionStep(c),
           work[c].pc \in AttemptSteps,
           AttemptEffect, UNCHANGED <<op, faults, cluster>>,
           \A a \in Attempt : ~Mine(a, c) => (a \in attempts' <=> a \in attempts),
           \A b \in attempts' : Mine(b, c) => \E a \in attempts : Mine(a, c) /\ Same(a, b),
           NEW pc \in {"delete:assert", "delete:remove", "delete:observe", "delete:reassert",
                       "delete:intent", "cleanup:confirm"},
           NEW mem, Goto(c, pc, mem), mem[1] = work[c].mem[1],
           pc = "delete:remove" =>
              \E a \in attempts' : Mine(a, c) /\ a.role = Roles[mem[2]] /\ Intended(a)
    PROVE  PhysicalEffects
<1>1. /\ work[c].pc \in CleanupHandler /\ RowEffect /\ ObjectEffect
      /\ Plan(c) \in DeletionPlan /\ faults \in Nat
      /\ \A role \in RoleNames : Planned(c, role).uid \in 1..(faults + 1)
      /\ \A a \in attempts : Mine(a, c) => a.uid = Planned(c, a.role).uid
  BY DeletionAtHand, ObjectsStay DEF PhysicalInv, PhysicalTypes
<1>2. /\ mem[1] \in DeletionPlan /\ \A role \in RoleNames : mem[1][role].uid <= faults + 1
      /\ \A b \in attempts' : Mine(b, c) => b.uid = mem[1][b.role].uid
  BY <1>1 DEF Plan, Planned, Same
<1>3. /\ pc \in CleanupSteps /\ pc \in AttemptSteps \cup EndSteps
      /\ pc \notin {"cleanup:complete", "delete:absent"}
  BY DEF CleanupSteps, DeleteSteps, AttemptSteps, EndSteps
<1>4. ClaimEffect
  BY <1>1, <1>2, <1>3, DeletionGoesOn
<1> QED
  BY <1>1, <1>4 DEF PhysicalEffects

LEMMA AttemptPhysical ==
    ASSUME DeletionInv, PhysicalInv, Effects, NEW c \in Coordinators,
           MarkDeletionFence(c) \/ RecordIntent(c) \/ RecordAccepted(c)
    PROVE  PhysicalEffects
<1>1. DeletionStep(c) /\ work[c].pc \in AttemptSteps
  BY DEF DeletionStep, MarkDeletionFence, RecordIntent, RecordAccepted, At, AttemptSteps, DeleteSteps
<1>2. ASSUME NEW roles, NEW from, NEW to \in AttemptStates,
             NEW pc \in {"delete:assert", "delete:remove", "delete:observe"},
             AttemptState(c, roles, from, to, pc, work[c].mem),
             to \in {"PLANNED", "FENCE_MARKED"} => from \subseteq {"PLANNED", "FENCE_MARKED"},
             "ABSENT_CONFIRMED" \notin from, to # "ABSENT_CONFIRMED",
             pc = "delete:remove" => roles = {Role(c)} /\ to \notin {"PLANNED", "FENCE_MARKED"}
      PROVE  PhysicalEffects
  <2>1. /\ AttemptEffect
        /\ \A a \in Attempt : ~Mine(a, c) => (a \in attempts' <=> a \in attempts)
        /\ \A b \in attempts' : Mine(b, c) => \E a \in attempts : Mine(a, c) /\ Same(a, b)
        /\ UNCHANGED <<op, faults, cluster>>
        /\ \/ Stop(c) /\ UNCHANGED attempts
           \/ /\ Goto(c, pc, work[c].mem)
              /\ \E b \in attempts' : Mine(b, c) /\ b.role \in roles /\ b.state = to
    BY <1>2, AttemptsAdvance
  <2>2. CASE Stop(c) /\ UNCHANGED attempts
    BY <1>1, <2>1, <2>2, Stops, ObjectsStay, DeletionAtHand DEF PhysicalEffects
  <2>3. CASE /\ Goto(c, pc, work[c].mem)
             /\ \E b \in attempts' : Mine(b, c) /\ b.role \in roles /\ b.state = to
    <3>1. pc = "delete:remove" =>
             \E a \in attempts' : Mine(a, c) /\ a.role = Roles[work[c].mem[2]] /\ Intended(a)
      BY <1>2, <2>3 DEF Role, Intended
    <3> QED
      BY <1>1, <2>1, <2>3, <3>1, AttemptGoes
  <2> QED
    BY <2>1, <2>2, <2>3
<1>3. CASE MarkDeletionFence(c)
  BY <1>2, <1>3 DEF MarkDeletionFence, AttemptStates
<1>4. CASE RecordIntent(c)
  BY <1>2, <1>4 DEF RecordIntent, AttemptStates
<1>5. CASE RecordAccepted(c)
  BY <1>2, <1>5 DEF RecordAccepted, AttemptStates
<1> QED
  BY <1>3, <1>4, <1>5

\* What is confirmed absent was seen absent, and no uid comes back.
LEMMA AbsentPhysical ==
    ASSUME DeletionInv, PhysicalInv, Effects, NEW c \in Coordinators, RecordAbsent(c)
    PROVE  PhysicalEffects
<1> DEFINE next == CASE Role(c) = "workload" -> "delete:reassert"
                     [] Role(c) = "pvc"      -> "delete:intent"
                     [] Role(c) = "service"  -> "cleanup:confirm"
           mem == <<Plan(c), work[c].mem[2] + 1>>
           from == {"DELETE_ACCEPTED", "ABSENT_CONFIRMED"}
<1>1. /\ DeletionStep(c) /\ work[c].pc = "delete:absent" /\ work[c].pc \in AttemptSteps
      /\ AttemptState(c, {Role(c)}, from, "ABSENT_CONFIRMED", next, mem)
  BY DEF DeletionStep, RecordAbsent, At, AttemptSteps, DeleteSteps
<1>2. /\ Role(c) \in RoleNames /\ Candidate(c) = op[work[c].op].candidate
      /\ \A a \in attempts : Mine(a, c) => a.uid = Planned(c, a.role).uid
      /\ Grasps(work[c])
  <2>1. work[c].pc \in CleanupHandler /\ work[c].pc \in PlanSteps \cup AttemptSteps
    BY <1>1, DeletionAtHand
  <2> QED
    BY <1>1, <2>1, DeletionAtHand, CleanupWorker
<1>3. cluster[Candidate(c)][Role(c)].uid # Planned(c, Role(c)).uid
  BY <1>1, <1>2 DEF Grasps, Role, Planned, Plan
<1>4. \A a \in Advancing(c, {Role(c)}, from) : TargetUid(a) # a.uid
  BY <1>2, <1>3 DEF Advancing, Mine, TargetUid
<1>5. next \in {"delete:reassert", "delete:intent", "cleanup:confirm"}
  <2>1. Role(c) = "workload" \/ Role(c) = "pvc" \/ Role(c) = "service"
    BY <1>2 DEF RoleNames, Roles
  <2> QED
    BY <2>1
<1>6. mem[1] = work[c].mem[1]
  BY DEF Plan
<1> HIDE DEF next, mem
<1>7. /\ AttemptEffect
      /\ \A a \in Attempt : ~Mine(a, c) => (a \in attempts' <=> a \in attempts)
      /\ \A b \in attempts' : Mine(b, c) => \E a \in attempts : Mine(a, c) /\ Same(a, b)
      /\ UNCHANGED <<op, faults, cluster>>
      /\ \/ Stop(c) /\ UNCHANGED attempts
         \/ Goto(c, next, mem)
  BY <1>1, <1>4, AttemptsAdvance DEF AttemptStates
<1>8. CASE Stop(c) /\ UNCHANGED attempts
  BY <1>1, <1>7, <1>8, Stops, ObjectsStay, DeletionAtHand DEF PhysicalEffects
<1>9. CASE Goto(c, next, mem)
  BY <1>1, <1>5, <1>6, <1>7, <1>9, AttemptGoes
<1> QED
  BY <1>7, <1>8, <1>9

\* A DELETE hits what its attempt intends, and a generation that is doomed.
LEMMA RemovePhysical ==
    ASSUME DeletionInv, PhysicalInv, Effects, NEW c \in Coordinators, Remove(c)
    PROVE  PhysicalEffects
<1> DEFINE g == Candidate(c)
           role == Role(c)
<1>1. /\ DeletionStep(c) /\ work[c].pc = "delete:remove" /\ work[c].pc \in AttemptSteps
      /\ UNCHANGED <<op, faults, attempts>>
  BY DEF DeletionStep, Remove, At, AttemptSteps, DeleteSteps
<1>2. /\ AttemptEffect /\ RowEffect /\ work[c].pc \in CleanupHandler
      /\ role \in RoleNames /\ g \in Generations /\ g = op[work[c].op].candidate /\ Doomed(g)
      /\ Plan(c) \in DeletionPlan /\ \A r \in RoleNames : Planned(c, r).uid \in 1..(faults + 1)
      /\ \A a \in attempts : Mine(a, c) => a.uid = Planned(c, a.role).uid
  BY <1>1, AttemptsStay, DeletionAtHand
<1>3. CASE Stop(c) /\ UNCHANGED cluster
  BY <1>1, <1>2, <1>3, ObjectsStay, Stops DEF PhysicalEffects
<1>4. CASE /\ Preconditions(c)
           /\ cluster' = [cluster EXCEPT ![g][role] = [Newer(@) EXCEPT !.deleting = TRUE]]
           /\ Continue(c, "delete:accepted")
  <2>1. cluster \in [Generations -> [RoleNames -> ClusterObject]] /\ cluster[g][role] \in ClusterObject
        /\ faults \in Nat
    BY <1>2 DEF PhysicalInv, PhysicalTypes
  <2> DEFINE object == [Newer(cluster[g][role]) EXCEPT !.deleting = TRUE]
  <2>2. object \in ClusterObject /\ object.uid = cluster[g][role].uid
    <3>1. cluster[g][role].rv + 1 \in Nat
      <4>1. cluster[g][role].rv \in Nat
        BY <2>1 DEF ClusterObject
      <4> QED
        BY <4>1
    <3>2. Newer(cluster[g][role]) \in ClusterObject
          /\ Newer(cluster[g][role]).uid = cluster[g][role].uid
      BY <2>1, <3>1 DEF ClusterObject, Newer
    <3> QED
      BY <3>2 DEF ClusterObject
  <2>3. cluster' = [cluster EXCEPT ![g][role] = object]
    BY <1>4
  <2> HIDE DEF object
  <2>4. /\ cluster' \in [Generations -> [RoleNames -> ClusterObject]]
        /\ \A h \in Generations, r \in RoleNames :
              /\ cluster'[h][r].uid = cluster[h][r].uid
              /\ h # g \/ r # role => cluster'[h][r] = cluster[h][r]
    BY <1>2, <2>1, <2>2, <2>3
  <2>5. PICK a \in attempts : Mine(a, c) /\ a.role = role /\ Intended(a)
    <3>1. Grasps(work[c])
      BY <1>2, CleanupWorker
    <3> QED
      BY <1>1, <3>1 DEF Grasps, Own, Mine, Role
  <2>6. a.uid = cluster[g][role].uid /\ op[a.op].candidate = g
    <3>1. a.uid = Planned(c, role).uid
      BY <1>2, <2>5
    <3>2. Identity(cluster[g][role]) = Planned(c, role)
      BY <1>4 DEF Preconditions, Object_
    <3>3. Identity(cluster[g][role]).uid = cluster[g][role].uid
      BY DEF Identity
    <3>4. a.op = work[c].op
      BY <2>5 DEF Mine
    <3> QED
      BY <1>2, <3>1, <3>2, <3>3, <3>4
  <2>7. ObjectEffect
    BY <1>1, <1>2, <2>4, <2>5, <2>6 DEF ObjectEffect
  <2>8. /\ Goto(c, "delete:accepted", work[c].mem)
        /\ "delete:accepted" \in CleanupSteps /\ "delete:accepted" \in AttemptSteps
    BY <1>4 DEF Continue, CleanupSteps, DeleteSteps, AttemptSteps
  <2>9. /\ work[c].mem[1] \in DeletionPlan
        /\ \A r \in RoleNames : work[c].mem[1][r].uid <= faults + 1
        /\ \A b \in attempts' : Mine(b, c) => b.uid = work[c].mem[1][b.role].uid
    BY <1>1, <1>2, <2>1 DEF Plan, Planned
  <2>10. ClaimEffect
    BY <1>1, <1>2, <2>8, <2>9, DeletionGoesOn
  <2> QED
    BY <1>2, <2>7, <2>10 DEF PhysicalEffects
<1> QED
  BY <1>3, <1>4 DEF Remove

\* The cluster on its own deletes nothing, and creates under new uids.
LEMMA ClusterPhysical ==
    ASSUME DeletionInv, PhysicalInv, Effects, ClusterStep
    PROVE  PhysicalEffects
<1>1. UNCHANGED <<op, work, retirement, expected, attempts>>
  BY DEF ClusterStep, Vanish, StatusWritten, LateCreate, storeVars, tableVars
<1>2. PICK g \in Generations, role \in RoleNames :
         Vanish(g, role) \/ StatusWritten(g, role) \/ LateCreate(g, role)
  BY DEF ClusterStep
<1>3. cluster \in [Generations -> [RoleNames -> ClusterObject]] /\ cluster[g][role] \in ClusterObject
      /\ faults \in Nat
  BY DEF PhysicalInv, PhysicalTypes
<1>4. ASSUME NEW object \in ClusterObject, cluster' = [cluster EXCEPT ![g][role] = object],
             faults' \in {faults, faults + 1},
             object.deleting => object.uid = cluster[g][role].uid /\ cluster[g][role].deleting,
             \/ object.uid = cluster[g][role].uid
             \/ object.uid = 0 /\ cluster[g][role].deleting
             \/ object.uid = faults + 2 /\ faults' = faults + 1 /\ cluster[g][role].uid = 0
      PROVE  ObjectEffect
  <2>1. /\ cluster' \in [Generations -> [RoleNames -> ClusterObject]]
        /\ cluster'[g][role] = object
        /\ \A h \in Generations, r \in RoleNames : h # g \/ r # role => cluster'[h][r] = cluster[h][r]
    BY <1>3, <1>4
  <2> QED
    BY <1>4, <2>1 DEF ObjectEffect
<1>5. ASSUME Vanish(g, role)
      PROVE  ObjectEffect
  <2>1. Gone \in ClusterObject /\ Gone.uid = 0 /\ ~Gone.deleting
    BY DEF Gone, ClusterObject
  <2> QED
    BY <1>4, <1>5, <2>1, ObjectsStay DEF Vanish, storeVars
<1>6. ASSUME StatusWritten(g, role)
      PROVE  ObjectEffect
  <2>1. cluster[g][role].rv + 1 \in Nat
    BY <1>3 DEF ClusterObject
  <2>2. /\ Newer(cluster[g][role]) \in ClusterObject
        /\ Newer(cluster[g][role]).uid = cluster[g][role].uid
        /\ Newer(cluster[g][role]).deleting = cluster[g][role].deleting
    BY <1>3, <2>1 DEF ClusterObject, Newer
  <2> QED
    BY <1>4, <1>6, <2>2 DEF StatusWritten, Fault
<1>7. ASSUME LateCreate(g, role)
      PROVE  ObjectEffect
  <2>1. /\ Object(faults + 2) \in ClusterObject /\ Object(faults + 2).uid = faults + 2
        /\ ~Object(faults + 2).deleting
    BY <1>3 DEF Object, ClusterObject
  <2> QED
    BY <1>4, <1>7, <2>1 DEF LateCreate, Fault, Exists
<1>8. ObjectEffect
  BY <1>2, <1>5, <1>6, <1>7
<1> QED
  BY <1>1, <1>8, AttemptsStay, RowsStay DEF ClaimEffect, PhysicalEffects

LEMMA RetirementPhysical ==
    ASSUME DeletionInv, PhysicalInv, Effects, [RetirementNext]_allVars
    PROVE  PhysicalEffects
<1>1. CASE UNCHANGED allVars
  BY <1>1, AttemptsStay, ObjectsStay, RowsStay
  DEF allVars, vars, storeVars, tableVars, physicalVars, ClaimEffect, PhysicalEffects
<1>2. ASSUME NEW c \in Coordinators, CleanupStep(c)
      PROVE  PhysicalEffects
  BY <1>2, ReevaluatePhysical, LoadPhysical, RetirePhysical, AuthorizePhysical, PlanPhysical,
     MarkDeletionPhysical, RecordPlanPhysical, DeletionReads, AttemptPhysical, AbsentPhysical,
     RemovePhysical, ConfirmPhysical, FinalizeRetirementPhysical, CompletePhysical DEF CleanupStep
<1>3. ASSUME NEW c \in Coordinators,
             RetirementClaim(c) \/ (PromotionStep(c) /\ UNCHANGED physicalVars)
      PROVE  PhysicalEffects
  BY <1>3, ClaimPhysical, PromotionPhysical
<1> QED
  BY <1>1, <1>2, <1>3, RequestPhysical, ReleasePhysical, StorePhysical, ClusterPhysical
  DEF RetirementNext

LEMMA InitPhysicalInv == RetirementInit => PhysicalInv
<1> SUFFICES ASSUME RetirementInit PROVE PhysicalInv
  OBVIOUS
<1>1. PICK ready \in Generations \ {InitialServing}, failed \in Generations \ {InitialServing} :
        /\ op = [o \in Operations |->
                   IF \A p \in Operations : o <= p THEN Unclaimed("READY_TO_PROMOTE", ready)
                   ELSE Unclaimed("ABSENT", ready)]
        /\ generation = [g \in Generations |->
             [state |-> CASE g = InitialServing -> "SERVING" [] g = ready -> "READY"
                          [] g = failed -> "FAILED" [] OTHER -> "ABSENT",
              protection |-> IF g = InitialServing THEN "SERVING" ELSE "NONE",
              version |-> 1]]
        /\ cluster = [g \in Generations |->
             [role \in RoleNames |-> IF g \in {InitialServing, ready, failed}
                                     THEN Object(1) ELSE Gone]]
  BY DEF RetirementInit
<1>2. /\ work = [c \in Coordinators |-> Idle] /\ faults = 0 /\ attempts = {}
      /\ expected = [o \in Operations |-> Unexpected]
  BY DEF RetirementInit
<1>3. /\ Object(1) \in ClusterObject /\ Object(1).uid = 1 /\ ~Object(1).deleting
      /\ Gone \in ClusterObject /\ Gone.uid = 0 /\ ~Gone.deleting
  BY DEF Object, Gone, ClusterObject
<1>4. cluster \in [Generations -> [RoleNames -> ClusterObject]]
  BY <1>1, <1>3
<1>5. \A g \in Generations, role \in RoleNames :
         /\ cluster[g][role].uid <= 1 /\ ~cluster[g][role].deleting
         /\ g \in {InitialServing, ready, failed} => cluster[g][role].uid = 1
  BY <1>1, <1>3
<1>6. PhysicalTypes
  BY <1>2, <1>4 DEF PhysicalTypes, Unexpected
<1>7. GraspInv /\ FenceNamesOneClaim
  BY <1>2 DEF GraspInv, FenceNamesOneClaim, At, Idle
<1>8. AttemptsInv
  BY <1>2, <1>5 DEF AttemptsInv
<1>9. \A o \in Operations : ~CleansUp(o)
  BY <1>1 DEF CleansUp, Unclaimed
<1>10. IntentNamesWhatIsDeleted
  BY <1>5 DEF IntentNamesWhatIsDeleted
<1>11. ASSUME NEW g \in Generations, generation[g].state # "ABSENT"
       PROVE  g \in {InitialServing, ready, failed}
  BY <1>1, <1>11
<1>12. DamageInv
  BY <1>5, <1>11 DEF DamageInv, Damaged
<1> QED
  BY <1>6, <1>7, <1>8, <1>9, <1>10, <1>12 DEF PhysicalInv

-----------------------------------------------------------------------------
(***************************************************************************)
(* The theorems.                                                           *)
(***************************************************************************)

\* What every behaviour keeps: rows and knowledge, fences, plans, attempts
\* and objects.
LEMMA PhysicalInvHolds == RetirementSpec => [](DeletionInv /\ PhysicalInv)
<1>1. DeletionInv /\ PhysicalInv /\ [RetirementNext]_allVars => (DeletionInv /\ PhysicalInv)'
  <2> SUFFICES ASSUME DeletionInv, PhysicalInv, [RetirementNext]_allVars
               PROVE  DeletionInv' /\ PhysicalInv'
    OBVIOUS
  <2>1. Effects /\ WorkEffect
    BY RetirementWorks
  <2>2. PhysicalEffects
    BY <2>1, RetirementPhysical
  <2> QED
    BY <2>1, <2>2, DeletionInvKept, PhysicalInvKept
<1> QED
  BY InitDeletionInv, InitPhysicalInv, <1>1, PTL DEF RetirementSpec

\* A generation of which an object was deleted or replaced is out of the
\* pointer and no router accepts it, however late the deletion runs after the
\* decision (evaluateEligibility, authorizePhysicalDeletion).
THEOREM DeletedIsUnneededHolds == RetirementSpec => []DeletedIsUnneeded
<1>1. DeletionInv /\ PhysicalInv => DeletedIsUnneeded
  <2> SUFFICES ASSUME DeletionInv, PhysicalInv,
                      NEW g \in Generations, generation[g].state # "ABSENT", Damaged(g)
               PROVE  g \notin {pointer.generation, pointer.previous} /\ ~RoutableLifecycle(g)
    BY DEF DeletedIsUnneeded
  <2>1. Doomed(g)
    BY DEF PhysicalInv, DamageInv
  <2> QED
    BY <2>1 DEF DeletionInv, DoomInv, Doomed, RoutableLifecycle
<1> QED
  BY <1>1, PhysicalInvHolds, PTL

\* Every object that is deleted has its uid in an attempt with a recorded
\* intent: no DELETE of a coordinator that was taken over, or planned before a
\* replacement was created, hits what nobody meant (executeDeletePlan).
THEOREM IntentNamesWhatIsDeletedHolds == RetirementSpec => []IntentNamesWhatIsDeleted
<1>1. DeletionInv /\ PhysicalInv => IntentNamesWhatIsDeleted
  BY DEF PhysicalInv
<1> QED
  BY <1>1, PhysicalInvHolds, PTL

\* A finalized retirement has removed every object it planned to remove, from
\* the cluster and not only from the journal (confirmPhysicalDeletion,
\* finalizeRetirement).
THEOREM FinalizedMeansGoneHolds == RetirementSpec => []FinalizedMeansGone
<1>1. DeletionInv /\ PhysicalInv => FinalizedMeansGone
  <2> SUFFICES ASSUME DeletionInv, PhysicalInv,
                      NEW o \in Operations, op[o].state = "COMPLETED",
                      NEW a \in attempts, a.op = o, a.fence = expected[o].fence
               PROVE  cluster[op[o].candidate][a.role].uid # a.uid
    BY DEF FinalizedMeansGone
  <2>1. CleanupRow(o)
    BY DEF CleansUp, PhysicalInv
  <2>2. Settled(o)
    BY <2>1 DEF CleanupRow
  <2>3. Absent(a)
    BY <2>2 DEF Settled
  <2> QED
    BY <2>3 DEF PhysicalInv, AttemptsInv, TargetUid
<1> QED
  BY <1>1, PhysicalInvHolds, PTL
===============================================================================

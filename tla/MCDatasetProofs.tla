-------------------------- MODULE MCDatasetProofs --------------------------
(***************************************************************************)
(* Theorems about the parts of MCDataset: the schema migrations, for any   *)
(* set of images that a sequence of releases may have and any number of    *)
(* processes that migrate at the same time; the conformance runs of the    *)
(* SPARQL stores; the volumes and files of the standalone instance; the    *)
(* rebuild of a store while the wiki is edited; the comparison of two      *)
(* graphs by their canonical forms, for graphs of any size.                *)
(***************************************************************************)
EXTENDS MCDataset, SequenceTheorems, FiniteSetTheorems, FunctionTheorems, WellFoundedInduction, TLAPS

-----------------------------------------------------------------------------
(***************************************************************************)
(* The inductive invariant.                                                *)
(***************************************************************************)

Pcs == {"none", "lock", "table", "create", "read", "run"}
Commands == {"up", "dry-run", "status"}
Outcomes == {"none", "running", "done", "mismatch", "collided", "lost"}
Executed == [file : Nat, image : Images]
SessionRow == [pc : Pcs, command : Commands, image : Images, pending : SUBSET Nat,
               outcome : Outcomes]

\* No outcome is a conflict: no run meets another one's work.
MigrationTypeOK ==
    /\ table \in BOOLEAN
    /\ Applied \subseteq Nat /\ IsFiniteSet(Applied)
    /\ schema \in Seq(Executed)
    /\ lock \in Sessions \cup {NoSession}
    /\ session \in [Sessions -> SessionRow]
    /\ waited \subseteq Images
    /\ ups \in Nat

\* Whoever is past the lock in up or dry-run holds it.
LockHeld ==
    \A m \in Sessions :
        session[m].pc \in {"table", "create", "read", "run"} /\ session[m].command # "status"
            => lock = m

\* What a run has read about the files still is so.
RunsPending ==
    \A m \in Sessions : session[m].pc = "run" =>
        /\ session[m].command = "up"
        /\ session[m].pending = {f \in DOMAIN session[m].image : f \notin Applied}
        /\ \A f \in DOMAIN session[m].image : f \in Applied => ledger[f] = session[m].image[f]

\* A file runs when all earlier files of its image have run.
EarlierFilesRan ==
    \A i \in DOMAIN schema :
        /\ schema[i].file \in Applied /\ schema[i].file \in DOMAIN schema[i].image
        /\ ledger[schema[i].file] = schema[i].image[schema[i].file]
        /\ \A g \in DOMAIN schema[i].image : g < schema[i].file => g \in Applied

\* The order of two executed files, which is part of SchemaFollowsFiles.
InOrder(before, here) ==
    /\ before.file \in DOMAIN here.image => before.image[before.file] = here.image[before.file]
    /\ here.file \in DOMAIN before.image => before.file < here.file

SchemaIInv ==
    /\ MigrationTypeOK /\ LockHeld /\ RunsPending /\ EarlierFilesRan
    /\ Len(schema) = Cardinality(Applied)
    /\ \A i \in DOMAIN schema : \A j \in 1..(i - 1) : InOrder(schema[j], schema[i])
    /\ \A image \in waited : DOMAIN image \subseteq Applied

-----------------------------------------------------------------------------
(***************************************************************************)
(* Facts about the helpers.                                                *)
(***************************************************************************)

\* What the states that migrationStatus gives to files stand for.
LEMMA FilesByState ==
    ASSUME NEW image
    PROVE  /\ Files(image, "pending") = {f \in DOMAIN image : f \notin Applied}
           /\ Files(image, "checksum_mismatch") = {f \in DOMAIN image : f \in Applied /\ ledger[f] # image[f]}
           /\ Files(image, "applied") = {f \in DOMAIN image : f \in Applied /\ ledger[f] = image[f]}
<1>1. \A f : FileState(image, f) = IF f \notin Applied THEN "pending"
                                   ELSE IF ledger[f] = image[f] THEN "applied" ELSE "checksum_mismatch"
  BY DEF FileState
<1> QED
  BY <1>1 DEF Files

\* A number that is least among those something is not true of.
LEMMA LeastNumber ==
    ASSUME NEW S \in SUBSET Nat, S # {}
    PROVE  \E m \in S : \A k \in S : m <= k
<1>1. PICK m \in S : \A k \in S : ~(<<k, m>> \in OpToRel(<, Nat))
  BY WFMin, NatLessThanWellFounded, Zenon
<1>2. \A k \in S : ~(k < m)
  BY <1>1, Zenon DEF OpToRel
<1> QED
  BY <1>2

\* There is a first one among pending files.
LEMMA FirstIsLeast ==
    ASSUME NEW numbers \in SUBSET Nat, numbers # {}
    PROVE  First(numbers) \in numbers /\ \A g \in numbers : First(numbers) <= g
<1>1. \E f \in numbers : \A g \in numbers : f <= g
  BY LeastNumber
<1> QED
  BY <1>1 DEF First

\* A file of an image that ran says that all earlier ones of it ran.
LEMMA CompleteUpTo ==
    ASSUME EarlierFilesRan, MigrationTypeOK, NEW image \in Images, CoordinatorReady(image)
    PROVE  DOMAIN image \subseteq Applied
<1> DEFINE last == LastFile(image)
<1>1. last \in DOMAIN image /\ \A g \in DOMAIN image : g <= last
  <2>1. \E f \in DOMAIN image : \A g \in DOMAIN image : g <= f
    BY MigrationAssumption
  <2> QED
    BY <2>1 DEF LastFile
<1>2. PICK i \in DOMAIN schema : schema[i].file = last
  BY DEF CoordinatorReady
<1>3. schema[i].image \in Images
  <2>1. schema \in [1..Len(schema) -> Executed] /\ DOMAIN schema = 1..Len(schema)
    BY LenProperties DEF MigrationTypeOK
  <2> QED
    BY <2>1 DEF Executed
<1>4. last \in DOMAIN schema[i].image
  BY <1>2 DEF EarlierFilesRan
<1>5. \A g \in DOMAIN image : g < last => g \in DOMAIN schema[i].image
  BY <1>1, <1>3, <1>4, MigrationAssumption
<1>6. \A g \in DOMAIN image : g < last => g \in Applied
  BY <1>2, <1>5 DEF EarlierFilesRan
<1>7. last \in Applied
  BY <1>2 DEF EarlierFilesRan
<1>8. DOMAIN image \subseteq Nat
  BY MigrationAssumption
<1> QED
  BY <1>1, <1>6, <1>7, <1>8

\* The invariant says what SchemaFollowsFiles says.
LEMMA InvariantSuffices == SchemaIInv => SchemaFollowsFiles
<1> SUFFICES ASSUME SchemaIInv PROVE SchemaFollowsFiles
  OBVIOUS
<1>1. \A i \in DOMAIN schema :
         LET here == schema[i]
         IN  /\ here.file \in Applied /\ ledger[here.file] = here.image[here.file]
             /\ \A j \in 1..(i - 1) :
                    LET before == schema[j]
                    IN  /\ before.file \in DOMAIN here.image =>
                               before.image[before.file] = here.image[before.file]
                        /\ here.file \in DOMAIN before.image => before.file < here.file
  BY DEF SchemaIInv, EarlierFilesRan, InOrder
<1>2. \A m \in Sessions : session[m].outcome # "conflict"
  BY DEF SchemaIInv, MigrationTypeOK, SessionRow, Outcomes
<1>3. \A image \in waited \cup {i \in Images : CoordinatorReady(i)} : DOMAIN image \subseteq Applied
  BY CompleteUpTo DEF SchemaIInv
<1>4. Len(schema) = Cardinality(Applied)
  BY DEF SchemaIInv
<1> QED
  BY <1>1, <1>2, <1>3, <1>4 DEF SchemaFollowsFiles

-----------------------------------------------------------------------------
(***************************************************************************)
(* Every step keeps the invariant.                                         *)
(***************************************************************************)

\* Steps that leave the database as it is and take one session to a state from
\* where nothing runs, with the lock kept or, by its holder, given up.
LEMMA SessionMoves ==
    ASSUME SchemaIInv, NEW m \in Sessions, NEW row \in SessionRow,
           session' = [session EXCEPT ![m] = row],
           row.pc # "run",
           row.pc \in {"table", "create", "read"} /\ row.command # "status" => lock' = m,
           lock' \in Sessions \cup {NoSession},
           lock \in Sessions \ {m} => lock' = lock,
           table' \in BOOLEAN, ups' \in Nat,
           UNCHANGED <<ledger, schema>>,
           waited' \subseteq Images,
           \A image \in waited' : DOMAIN image \subseteq Applied
    PROVE  SchemaIInv'
<1>1. MigrationTypeOK'
  BY DEF SchemaIInv, MigrationTypeOK, Applied
<1>2. \A n \in Sessions : session'[n] = IF n = m THEN row ELSE session[n]
  BY DEF SchemaIInv, MigrationTypeOK
<1>3. LockHeld'
  BY <1>2 DEF SchemaIInv, LockHeld
<1>4. RunsPending'
  BY <1>2 DEF SchemaIInv, RunsPending, Applied
<1>5. EarlierFilesRan'
  BY DEF SchemaIInv, EarlierFilesRan, Applied
<1> QED
  BY <1>1, <1>3, <1>4, <1>5 DEF SchemaIInv, InOrder, Applied

\* A session that ends leaves nothing that others rely on.
LEMMA SessionEnds ==
    ASSUME SchemaIInv, NEW m \in Sessions, NEW reached \in Outcomes,
           Disconnect(m, reached), UNCHANGED <<table, ledger, schema, waited, ups>>
    PROVE  SchemaIInv'
<1> DEFINE row == Unconnected(reached)
<1>1. row \in SessionRow /\ row.pc = "none"
  BY MigrationAssumption DEF Unconnected, SessionRow, Pcs, Commands
<1>2. session' = [session EXCEPT ![m] = row]
  BY DEF Disconnect
<1>3. lock' \in Sessions \cup {NoSession} /\ (lock \in Sessions \ {m} => lock' = lock)
  BY DEF Disconnect, SchemaIInv, MigrationTypeOK
<1>4. /\ table' \in BOOLEAN /\ ups' \in Nat /\ waited' \subseteq Images
      /\ \A image \in waited' : DOMAIN image \subseteq Applied
  BY DEF SchemaIInv, MigrationTypeOK
<1> HIDE DEF row
<1> QED
  BY <1>1, <1>2, <1>3, <1>4, SessionMoves

\* A run of a file: it is new, its earlier ones have run, and the row that is
\* written is what the run read.
LEMMA FileRuns ==
    ASSUME SchemaIInv, NEW m \in Sessions, RunFile(m)
    PROVE  SchemaIInv'
<1> DEFINE image == session[m].image
           pending == session[m].pending
           f == First(pending)
           here == [file |-> f, image |-> image]
<1>1. /\ session[m] \in SessionRow /\ image \in Images /\ pending \in SUBSET Nat
      /\ session[m].pc = "run" /\ pending # {} /\ session[m].command = "up"
      /\ pending = {g \in DOMAIN image : g \notin Applied}
      /\ \A g \in DOMAIN image : g \in Applied => ledger[g] = image[g]
  BY DEF SchemaIInv, MigrationTypeOK, RunsPending, RunFile, SessionAt, SessionRow
<1>2. f \in pending /\ \A g \in pending : f <= g
  BY <1>1, FirstIsLeast
<1>3. f \in DOMAIN image /\ f \notin Applied /\ f \in Nat
  BY <1>1, <1>2
<1>4. \A g \in DOMAIN image : g < f => g \in Applied
  <2>1. DOMAIN image \subseteq Nat
    BY <1>1, MigrationAssumption
  <2> HIDE DEF f, image, pending
  <2>2. ASSUME NEW g \in DOMAIN image, g < f, g \notin Applied PROVE FALSE
    <3>1. g \in pending
      BY <1>1, <2>2
    <3>2. f <= g /\ g \in Nat
      BY <1>2, <3>1, <2>1
    <3> QED
      BY <1>3, <2>2, <3>2
  <2> QED
    BY <2>2
<1>5. /\ schema' = Append(schema, here)
      /\ ledger' = [g \in Applied \cup {f} |-> IF g = f THEN image[f] ELSE ledger[g]]
      /\ session' = [session EXCEPT ![m].pending = @ \ {f}]
      /\ UNCHANGED <<lock, table, waited, ups>>
  BY <1>3 DEF RunFile
<1>6. /\ Applied' = Applied \cup {f}
      /\ ledger'[f] = image[f] /\ \A g \in Applied : ledger'[g] = ledger[g]
  BY <1>3, <1>5 DEF Applied
<1>7. lock = m
  BY <1>1 DEF SchemaIInv, LockHeld
<1>8. /\ schema \in Seq(Executed) /\ here \in Executed /\ Len(schema) \in Nat
      /\ DOMAIN schema = 1..Len(schema)
      /\ schema' \in Seq(Executed) /\ Len(schema') = Len(schema) + 1
      /\ DOMAIN schema' = 1..(Len(schema) + 1)
      /\ \A i \in 1..Len(schema) : schema'[i] = schema[i]
      /\ schema'[Len(schema) + 1] = here
  <2>1. schema \in Seq(Executed) /\ here \in Executed
    BY <1>1, <1>3 DEF SchemaIInv, MigrationTypeOK, Executed
  <2> HIDE DEF here
  <2>2. Len(schema) \in Nat /\ DOMAIN schema = 1..Len(schema)
    BY <2>1, LenProperties
  <2>3. /\ schema' \in Seq(Executed) /\ Len(schema') = Len(schema) + 1
        /\ \A i \in 1..Len(schema) : schema'[i] = schema[i]
        /\ schema'[Len(schema) + 1] = here
    BY <1>5, <2>1, AppendProperties
  <2>4. DOMAIN schema' = 1..(Len(schema) + 1)
    BY <2>3, LenProperties
  <2> QED
    BY <2>1, <2>2, <2>3, <2>4
<1> HIDE DEF f, here, image, pending
<1>9. /\ session' \in [Sessions -> SessionRow]
      /\ \A n \in Sessions \ {m} : session'[n] = session[n]
      /\ session'[m] = [session[m] EXCEPT !.pending = pending \ {f}]
  BY <1>1, <1>5 DEF SchemaIInv, MigrationTypeOK, SessionRow, pending
<1>10. MigrationTypeOK'
  <2>1. IsFiniteSet(Applied')
    BY <1>6, FS_AddElement DEF SchemaIInv, MigrationTypeOK
  <2> QED
    BY <1>3, <1>5, <1>6, <1>8, <1>9, <2>1 DEF SchemaIInv, MigrationTypeOK
<1>11. LockHeld'
  BY <1>1, <1>5, <1>9, <1>7 DEF SchemaIInv, LockHeld, MigrationTypeOK, SessionRow
<1>12. RunsPending'
  <2> SUFFICES ASSUME NEW n \in Sessions, session'[n].pc = "run"
               PROVE  /\ session'[n].command = "up"
                      /\ session'[n].pending = {g \in DOMAIN session'[n].image : g \notin Applied'}
                      /\ \A g \in DOMAIN session'[n].image : g \in Applied' => ledger'[g] = session'[n].image[g]
    BY DEF RunsPending
  <2>1. n = m
    <3>1. session'[n].pc = "run" /\ session'[n].command # "status" => lock' = n
      BY <1>11 DEF LockHeld
    <3>2. CASE n # m
      <4>1. session[n].pc = "run" /\ session[n].command = "up"
        BY <3>2, <1>9 DEF SchemaIInv, RunsPending
      <4> QED
        BY <3>1, <3>2, <4>1, <1>9, <1>7, <1>5
    <3> QED
      BY <3>2
  <2>2. /\ session'[m].command = session[m].command /\ session'[m].image = session[m].image
        /\ session'[m].pending = pending \ {f}
    BY <1>1, <1>9 DEF SessionRow
  <2> QED
    BY <2>1, <2>2, <1>1, <1>6 DEF image
<1>13. EarlierFilesRan'
  <2> SUFFICES ASSUME NEW i \in DOMAIN schema'
               PROVE  /\ schema'[i].file \in Applied' /\ schema'[i].file \in DOMAIN schema'[i].image
                      /\ ledger'[schema'[i].file] = schema'[i].image[schema'[i].file]
                      /\ \A g \in DOMAIN schema'[i].image : g < schema'[i].file => g \in Applied'
    BY DEF EarlierFilesRan
  <2>1. CASE i \in DOMAIN schema
    BY <2>1, <1>6, <1>8 DEF SchemaIInv, EarlierFilesRan
  <2>2. CASE i = Len(schema) + 1
    BY <2>2, <1>3, <1>4, <1>6, <1>8 DEF here
  <2> QED
    BY <2>1, <2>2, <1>8
<1>14. Len(schema') = Cardinality(Applied')
  <2>1. Cardinality(Applied') = Cardinality(Applied) + 1
    <3>1. IsFiniteSet(Applied)
      BY DEF SchemaIInv, MigrationTypeOK
    <3> QED
      BY <3>1, <1>3, <1>6, FS_AddElement
  <2> QED
    BY <2>1, <1>8 DEF SchemaIInv
<1>15. \A i \in DOMAIN schema' : \A j \in 1..(i - 1) : InOrder(schema'[j], schema'[i])
  <2> SUFFICES ASSUME NEW i \in DOMAIN schema', NEW j \in 1..(i - 1)
               PROVE  InOrder(schema'[j], schema'[i])
    OBVIOUS
  <2>1. CASE i \in DOMAIN schema
    BY <2>1, <1>8 DEF SchemaIInv
  <2>2. CASE i = Len(schema) + 1
    <3>1. j \in DOMAIN schema /\ schema'[j] = schema[j] /\ schema'[i] = here
      BY <2>2, <1>8
    <3> DEFINE before == schema[j]
    <3>2. /\ before \in Executed
          /\ before.file \in Applied
          /\ ledger[before.file] = before.image[before.file]
          /\ \A g \in DOMAIN before.image : g < before.file => g \in Applied
      <4>1. schema \in [1..Len(schema) -> Executed]
        BY <1>8, LenProperties
      <4> QED
        BY <3>1, <1>8, <4>1 DEF SchemaIInv, EarlierFilesRan
    <3>3. here.file = f /\ here.image = image
      BY DEF here
    <3>4. before.file \in DOMAIN image => before.image[before.file] = image[before.file]
      BY <1>1, <3>2
    <3>5. f \in DOMAIN before.image => before.file < f
      BY <1>3, <3>2 DEF Executed
    <3> QED
      BY <3>1, <3>3, <3>4, <3>5 DEF InOrder
  <2> QED
    BY <2>1, <2>2, <1>8
<1>16. \A i \in waited' : DOMAIN i \subseteq Applied'
  BY <1>5, <1>6 DEF SchemaIInv
<1> QED
  BY <1>10, <1>11, <1>12, <1>13, <1>14, <1>15, <1>16 DEF SchemaIInv

\* Under the lock, what is pending for a run is what is not yet in the table.
LEMMA RunBegins ==
    ASSUME SchemaIInv, NEW m \in Sessions, SessionAt(m, "read"), session[m].command = "up",
           Files(session[m].image, "checksum_mismatch") = {},
           session' = [session EXCEPT ![m].pc = "run", ![m].pending = Files(session[m].image, "pending")],
           UNCHANGED <<table, ledger, schema, lock, waited, ups>>
    PROVE  SchemaIInv'
<1> DEFINE image == session[m].image
           row == [session[m] EXCEPT !.pc = "run", !.pending = Files(image, "pending")]
<1>1. /\ session[m] \in SessionRow /\ image \in Images /\ DOMAIN image \subseteq Nat
      /\ lock = m
  BY MigrationAssumption DEF SchemaIInv, MigrationTypeOK, SessionRow, LockHeld, SessionAt
<1>2. /\ Files(image, "pending") = {f \in DOMAIN image : f \notin Applied}
      /\ \A f \in DOMAIN image : f \in Applied => ledger[f] = image[f]
  BY FilesByState
<1>3. /\ row \in SessionRow /\ row.pc = "run" /\ row.command = "up" /\ row.image = image
      /\ row.pending = {f \in DOMAIN image : f \notin Applied}
  BY <1>1, <1>2 DEF SessionRow, Pcs
<1>4. session' = [session EXCEPT ![m] = row] /\ session \in [Sessions -> SessionRow]
  BY DEF SchemaIInv, MigrationTypeOK
<1> HIDE DEF row
<1>5. /\ session' \in [Sessions -> SessionRow] /\ session'[m] = row
      /\ \A n \in Sessions \ {m} : session'[n] = session[n]
  BY <1>3, <1>4
<1>6. MigrationTypeOK'
  BY <1>5 DEF SchemaIInv, MigrationTypeOK, Applied
<1>7. LockHeld'
  BY <1>1, <1>5 DEF SchemaIInv, LockHeld
<1>8. RunsPending'
  BY <1>2, <1>3, <1>5 DEF SchemaIInv, RunsPending, Applied
<1>9. EarlierFilesRan'
  BY DEF SchemaIInv, EarlierFilesRan, Applied
<1> QED
  BY <1>6, <1>7, <1>8, <1>9 DEF SchemaIInv, InOrder, Applied

\* Every other step moves or ends one session.
LEMMA NextKeepsInvariant == SchemaIInv /\ [MigrationNext]_migrationVars => SchemaIInv'
<1> SUFFICES ASSUME SchemaIInv, [MigrationNext]_migrationVars PROVE SchemaIInv'
  OBVIOUS
<1> DEFINE Now == /\ table \in BOOLEAN /\ ups \in Nat /\ waited \subseteq Images
                  /\ lock \in Sessions \cup {NoSession}
                  /\ \A image \in waited : DOMAIN image \subseteq Applied
<1>1. Now
  BY DEF SchemaIInv, MigrationTypeOK
<1>2. ASSUME NEW m \in Sessions, NEW image \in Images, NEW command \in Commands,
             Connect(m, command, image)
      PROVE  SchemaIInv'
  <2> DEFINE row == [Unconnected("running") EXCEPT !.command = command, !.image = image,
                           !.pc = IF command = "status" THEN "table" ELSE "lock"]
  <2>1. Unconnected("running") \in SessionRow
    BY MigrationAssumption DEF Unconnected, SessionRow, Pcs, Commands, Outcomes
  <2>2. /\ row \in SessionRow
        /\ row.pc # "run"
        /\ row.pc \in {"table", "create", "read"} => row.command = "status"
    BY <2>1 DEF SessionRow, Pcs, Commands, Outcomes
  <2>3. session' = [session EXCEPT ![m] = row] /\ UNCHANGED <<table, ledger, schema, lock, waited>>
    BY <1>2 DEF Connect
  <2>4. ups' \in Nat
    BY <1>1, <1>2 DEF Connect
  <2> HIDE DEF row
  <2> QED
    BY <1>1, <2>2, <2>3, <2>4, SessionMoves
<1>3. ASSUME NEW m \in Sessions, NEW pc \in {"table", "create", "read"}, Does(m, pc),
             session[m].command # "status" => lock' = m,
             lock' \in Sessions \cup {NoSession}, lock \in Sessions \ {m} => lock' = lock,
             table' \in BOOLEAN, UNCHANGED <<ledger, schema, waited, ups>>
      PROVE  SchemaIInv'
  <2> DEFINE row == [session[m] EXCEPT !.pc = pc]
  <2>1. row \in SessionRow /\ row.pc = pc /\ row.command = session[m].command
    BY DEF SchemaIInv, MigrationTypeOK, SessionRow, Pcs
  <2>2. session' = [session EXCEPT ![m] = row]
    BY <1>3 DEF Does
  <2> HIDE DEF row
  <2> QED
    BY <1>1, <1>3, <2>1, <2>2, SessionMoves
<1>4. ASSUME NEW m \in Sessions, TakeLock(m) PROVE SchemaIInv'
  BY <1>1, <1>3, <1>4, MigrationAssumption DEF TakeLock, NoSession
<1>5. ASSUME NEW m \in Sessions, LookForTable(m) PROVE SchemaIInv'
  <2>1. session[m].command # "status" => lock = m
    BY <1>5 DEF LookForTable, SessionAt, SchemaIInv, LockHeld
  <2> QED
    BY <1>1, <1>3, <1>5, <2>1 DEF LookForTable
<1>6. ASSUME NEW m \in Sessions, CreateTable(m) PROVE SchemaIInv'
  <2>1. session[m].command # "status" => lock = m
    BY <1>6 DEF CreateTable, SessionAt, SchemaIInv, LockHeld
  <2>2. CASE Does(m, "read") /\ UNCHANGED lock
    BY <1>1, <1>3, <1>6, <2>1, <2>2 DEF CreateTable
  <2>3. CASE table /\ Disconnect(m, "collided")
    <3>1. UNCHANGED <<table, ledger, schema, waited, ups>>
      BY <1>1, <1>6, <2>3 DEF CreateTable
    <3> QED
      BY <2>3, <3>1, SessionEnds DEF Outcomes
  <2> QED
    BY <1>6, <2>2, <2>3 DEF CreateTable
<1>7. ASSUME NEW m \in Sessions, ReportStatus(m) PROVE SchemaIInv'
  <2> DEFINE row == Unconnected("done")
  <2>1. row \in SessionRow /\ row.pc = "none"
    BY MigrationAssumption DEF Unconnected, SessionRow, Pcs, Commands, Outcomes
  <2>2. session[m].image \in Images
    BY DEF SchemaIInv, MigrationTypeOK, SessionRow
  <2>3. Files(session[m].image, "pending") = {} => DOMAIN session[m].image \subseteq Applied
    BY FilesByState
  <2>4. waited' \subseteq Images /\ \A image \in waited' : DOMAIN image \subseteq Applied
    BY <1>1, <1>7, <2>2, <2>3 DEF ReportStatus
  <2>5. /\ session' = [session EXCEPT ![m] = row]
        /\ lock' = IF lock = m THEN NoSession ELSE lock
        /\ UNCHANGED <<table, ledger, schema, ups>>
    BY <1>7 DEF ReportStatus, Disconnect
  <2> HIDE DEF row
  <2> QED
    BY <1>1, <2>1, <2>4, <2>5, SessionMoves
<1>8. ASSUME NEW m \in Sessions, ReadLedger(m) PROVE SchemaIInv'
  <2> DEFINE image == session[m].image
  <2>1. SessionAt(m, "read") /\ UNCHANGED <<table, ledger, schema, waited, ups>>
    BY <1>8 DEF ReadLedger
  <2>2. CASE Disconnect(m, "mismatch") \/ Disconnect(m, "done")
    BY <2>1, <2>2, SessionEnds DEF Outcomes
  <2>3. CASE /\ Files(image, "checksum_mismatch") = {}
             /\ session[m].command = "up"
             /\ session' = [session EXCEPT ![m].pc = "run", ![m].pending = Files(image, "pending")]
             /\ UNCHANGED lock
    BY <2>1, <2>3, RunBegins
  <2> QED
    BY <1>8, <2>2, <2>3 DEF ReadLedger
<1>9. ASSUME NEW m \in Sessions, Unlock(m) \/ SessionLost(m) PROVE SchemaIInv'
  BY <1>9, SessionEnds DEF Unlock, SessionLost, Outcomes
<1>10. CASE UNCHANGED migrationVars
  BY <1>10 DEF migrationVars, SchemaIInv, MigrationTypeOK, LockHeld, RunsPending, EarlierFilesRan,
               InOrder, Applied
<1> QED
  BY <1>2, <1>4, <1>5, <1>6, <1>7, <1>8, <1>9, <1>10, FileRuns DEF MigrationNext, Commands

-----------------------------------------------------------------------------
\* Every file was executed once, the table says what was executed, no file ran
\* after a later or an altered one of its image, no run met another one's work,
\* and whoever starts on an up-to-date schema finds every file of its image.
THEOREM SchemaAlwaysFollowsFiles == MigrationSpec => []SchemaFollowsFiles
<1>1. MigrationInit => SchemaIInv
  <2> SUFFICES ASSUME MigrationInit PROVE SchemaIInv
    OBVIOUS
  <2>1. Applied = {} /\ schema = <<>> /\ DOMAIN schema = {} /\ waited = {}
    BY DEF MigrationInit, Applied
  <2>2. Unconnected("none") \in SessionRow /\ Unconnected("none").pc = "none"
    BY MigrationAssumption DEF Unconnected, SessionRow, Pcs, Commands, Outcomes
  <2>3. MigrationTypeOK
    BY <2>1, <2>2, FS_EmptySet, EmptySeq DEF MigrationInit, MigrationTypeOK
  <2>4. LockHeld /\ RunsPending
    BY <2>2 DEF MigrationInit, LockHeld, RunsPending
  <2>5. Len(schema) = Cardinality(Applied)
    BY <2>1, FS_EmptySet, EmptySeq
  <2> QED
    BY <2>1, <2>3, <2>4, <2>5 DEF SchemaIInv, EarlierFilesRan
<1>2. SchemaIInv /\ [MigrationNext]_migrationVars => SchemaIInv'
  BY NextKeepsInvariant
<1>3. SchemaIInv => SchemaFollowsFiles
  BY InvariantSuffices
<1> QED
  BY <1>1, <1>2, <1>3, PTL DEF MigrationSpec

-----------------------------------------------------------------------------
(***************************************************************************)
(* jwb-rdf-test, for any snapshot and any number of its runs: a run is     *)
(* refused something only on the volume of one that was killed, and what a *)
(* rebuild leaves is the snapshot.                                         *)
(***************************************************************************)

NativeStores == {"virtuoso", "oxigraph"}
GraphFor(b) == IF b = "virtuoso" THEN DatasetGraph ELSE NoGraph

\* Steps at which the client is initialized, and those at which the snapshot is
\* in the store.
Initialized == {"load", "loading", "assert", "restarted", "replace", "export", "rebuild",
                "rebuilding", "rebuilt", "reset", "empty"}
Loaded == {"assert", "restarted", "replace", "export", "rebuilt"}

TrialShape ==
    /\ trial = [pc |-> trial.pc, runs |-> trial.runs, backend |-> trial.backend,
                result |-> trial.result, killed |-> trial.killed,
                exported |-> trial.exported, client |-> trial.client]
    /\ trial.client = [profile |-> trial.client.profile, dataset |-> trial.client.dataset,
                       password |-> trial.client.password, instance |-> trial.client.instance]
    /\ trial.pc \in {"none", "up", "healthy", "down"} \cup Initialized

VolumeShape ==
    /\ DOMAIN kept = Tested
    /\ \A b \in Tested : kept[b] = [there |-> kept[b].there, password |-> kept[b].password,
                                    db |-> kept[b].db]

\* The client is the one that backendConfig makes for the store.
ClientOfStore ==
    /\ trial.pc # "none" =>
         /\ trial.backend \in NativeStores
         /\ trial.client.dataset = GraphFor(trial.backend)
         /\ {"graphStoreProtocol", "sparql11Update"} \subseteq trial.client.profile.able
    /\ trial.pc \in Initialized => trial.client.instance # NoInstance

Killed(b) == b \in trial.killed

\* A volume that outlived its run is one a kill left behind.
LeftByKill ==
    /\ \A b \in Tested : kept[b].there /\ (trial.pc = "none" \/ b # trial.backend) => Killed(b)
    /\ trial.pc = "up" /\ Volume.there => Killed(trial.backend)
    /\ trial.pc \in {"healthy"} \cup Initialized =>
         Authorized(trial.client, Volume.password) \/ Killed(trial.backend)
    /\ trial.pc = "down" /\ trial.result = "refused" => Killed(trial.backend)

\* Every load replaces what the dataset was, and the update is outside of it.
SnapshotLoaded ==
    /\ trial.pc \in Loaded => LogicalDataset(Volume.db, trial.client) = Stored(Snapshot)
    /\ trial.pc = "export" => GraphOf(Volume.db, UpdateGraph) = Stored(Update)
    /\ trial.pc = "rebuild" => trial.exported = Stored(Snapshot)

ConfInv == TrialShape /\ VolumeShape /\ ClientOfStore /\ LeftByKill /\ SnapshotLoaded

LEMMA ConfInvSuffices == ConfInv => RefusedAfterKill /\ RebuiltIsSnapshot
BY DEF ConfInv, LeftByKill, Killed, SnapshotLoaded, Loaded, RefusedAfterKill, RebuiltIsSnapshot,
   TrialAt

\* What the store holds after a whole graph was put.
LEMMA GraphAfterPut ==
    ASSUME NEW graphs, NEW name, NEW rdf, NEW other
    PROVE  GraphOf(PutGraph(graphs, name, rdf), other) =
             IF other = name THEN Stored(rdf) ELSE GraphOf(graphs, other)
BY DEF GraphOf, PutGraph

\* The stores with a native image can be written to.
LEMMA NativeAble ==
    ASSUME NEW b \in NativeStores
    PROVE  {"graphStoreProtocol", "sparql11Update"} \subseteq Profiles[b].able
<1>1. CASE b = "virtuoso"
  BY <1>1 DEF Profiles, BaseCapabilities
<1>2. CASE b = "oxigraph"
  BY <1>2 DEF Profiles, BaseCapabilities
<1> QED
  BY <1>1, <1>2 DEF NativeStores

\* An error, whatever it is, leads to the removal of the volume.
LEMMA ThrowKeeps ==
    ASSUME ConfInv, NEW reason, Throws(reason), UNCHANGED kept, trial.pc # "none",
           reason = "refused" => Killed(trial.backend)
    PROVE  ConfInv'
<1>1. /\ trial'.pc = "down" /\ trial'.result = reason
      /\ trial'.backend = trial.backend /\ trial'.client = trial.client
      /\ trial'.killed = trial.killed
      /\ TrialShape'
  BY DEF ConfInv, TrialShape, Throws
<1> QED
  BY <1>1 DEF ConfInv, VolumeShape, ClientOfStore, LeftByKill, SnapshotLoaded, Killed, Volume,
     Initialized, Loaded, Authorized

\* A step of the run that reads or writes the store.
LEMMA StepKeeps ==
    ASSUME ConfInv, NEW pc \in Initialized, NEW next \in Initialized, NEW works, NEW graphs,
           Step(pc, next, works, graphs), next # "rebuild",
           works \/ Killed(trial.backend),
           works /\ next \in Loaded => LogicalDataset(graphs, trial.client) = Stored(Snapshot),
           works /\ next = "export" => GraphOf(graphs, UpdateGraph) = Stored(Update)
    PROVE  ConfInv'
<1>1. trial.pc = pc /\ pc # "none"
  BY DEF Step, TrialAt, Initialized
<1>2. CASE ~works
  BY <1>1, <1>2, ThrowKeeps DEF Step
<1>3. CASE works
  <2>1. trial' = [trial EXCEPT !.pc = next] /\ kept' = [kept EXCEPT ![trial.backend].db = graphs]
    BY <1>3 DEF Step, Goes
  <2>2. /\ trial'.pc = next /\ trial'.backend = trial.backend /\ trial'.client = trial.client
        /\ trial'.killed = trial.killed
        /\ TrialShape'
    BY <2>1 DEF ConfInv, TrialShape
  <2>3. trial.backend \in NativeStores /\ trial.backend \in Tested
    BY <1>1 DEF ConfInv, ClientOfStore, NativeStores, Tested
  <2>4. /\ VolumeShape'
        /\ kept'[trial.backend].db = graphs
        /\ \A b \in Tested : kept'[b].there = kept[b].there /\ kept'[b].password = kept[b].password
    BY <2>1, <2>3 DEF ConfInv, VolumeShape
  <2>5. ClientOfStore' /\ LeftByKill'
    BY <1>1, <2>2, <2>3, <2>4 DEF ConfInv, ClientOfStore, LeftByKill, Killed, Volume, Initialized,
       Authorized
  <2>6. SnapshotLoaded'
    BY <1>3, <2>2, <2>4 DEF SnapshotLoaded, Volume
  <2> QED
    BY <2>2, <2>4, <2>5, <2>6 DEF ConfInv
<1> QED
  BY <1>2, <1>3

\* reset and put are refused for one reason only.
LEMMA WritesAllowed ==
    ASSUME ConfInv, trial.pc \in Initialized
    PROVE  /\ MayClear \/ Killed(trial.backend)
           /\ MayPut(trial.client, Volume.password) \/ Killed(trial.backend)
<1>1. trial.pc # "none"
  BY DEF Initialized
<1> QED
  BY <1>1 DEF ConfInv, ClientOfStore, LeftByKill, MayClear, MayReset, MayPut, Able

LEMMA ReplaceKeeps ==
    ASSUME ConfInv, LoadSnapshot \/ RebuildStore
    PROVE  ConfInv'
<1>1. ASSUME NEW pc \in {"load", "rebuild"}, NEW between \in {"loading", "rebuilding"},
             NEW next \in {"assert", "rebuilt"}, ReplaceDataset(pc, between, next)
      PROVE  ConfInv'
  <2>1. CASE Step(pc, between, MayClear, Reset(Volume.db, trial.client))
    <3>1. trial.pc \in Initialized /\ pc \in Initialized /\ between \in Initialized
          /\ between \notin Loaded /\ between # "rebuild" /\ between # "export"
      BY <2>1 DEF Step, TrialAt, Initialized, Loaded
    <3>2. MayClear \/ Killed(trial.backend)
      BY <3>1, WritesAllowed
    <3> QED
      BY <2>1, <3>1, <3>2, StepKeeps
  <2>2. CASE Step(between, next, MayPut(trial.client, Volume.password),
                  PutGraph(Volume.db, DatasetTarget(trial.client), Snapshot))
    <3> DEFINE graphs == PutGraph(Volume.db, DatasetTarget(trial.client), Snapshot)
    <3>1. trial.pc \in Initialized /\ between \in Initialized /\ next \in Initialized
          /\ next # "rebuild" /\ next # "export"
      BY <2>2 DEF Step, TrialAt, Initialized
    <3>2. MayPut(trial.client, Volume.password) \/ Killed(trial.backend)
      BY <3>1, WritesAllowed
    <3>3. LogicalDataset(graphs, trial.client) = Stored(Snapshot)
      BY GraphAfterPut DEF LogicalDataset
    <3> QED
      BY <2>2, <3>1, <3>2, <3>3, StepKeeps
  <2> QED
    BY <1>1, <2>1, <2>2 DEF ReplaceDataset
<1> QED
  BY <1>1 DEF LoadSnapshot, RebuildStore

\* The ASK queries find the snapshot.
LEMMA AssertKeeps ==
    ASSUME ConfInv, AssertQueries
    PROVE  ConfInv'
<1>1. PICK pc \in {"assert", "restarted", "rebuilt"}, next \in {"restarted", "replace", "reset"} :
        Step(pc, next, HoldsSnapshot, Volume.db)
  BY DEF AssertQueries
<1>2. trial.pc = pc /\ pc \in Loaded /\ pc \in Initialized /\ next \in Initialized
      /\ next # "rebuild" /\ next # "export"
  BY <1>1 DEF Step, TrialAt, Loaded, Initialized
<1>3. LogicalDataset(Volume.db, trial.client) = Stored(Snapshot)
  BY <1>2 DEF ConfInv, SnapshotLoaded
<1>4. HoldsSnapshot
  BY <1>3 DEF HoldsSnapshot
<1> QED
  BY <1>1, <1>2, <1>3, <1>4, StepKeeps

LEMMA UpdateKeeps ==
    ASSUME ConfInv, ReplaceUpdateGraph
    PROVE  ConfInv'
<1> DEFINE graphs == PutGraph(Volume.db, UpdateGraph, Update)
<1>1. trial.pc = "replace" /\ trial.pc \in Loaded /\ trial.pc \in Initialized
      /\ "export" \in Initialized /\ "replace" \in Initialized /\ trial.pc # "none"
  BY DEF ReplaceUpdateGraph, Step, TrialAt, Loaded, Initialized
<1>2. MayPut(trial.client, Volume.password) \/ Killed(trial.backend)
  BY <1>1, WritesAllowed
<1>3. DatasetTarget(trial.client) # UpdateGraph
  BY <1>1, ConformanceAssumption DEF ConfInv, ClientOfStore, GraphFor, DatasetTarget
<1>4. LogicalDataset(graphs, trial.client) = Stored(Snapshot)
  BY <1>1, <1>3, GraphAfterPut DEF ConfInv, SnapshotLoaded, LogicalDataset
<1>5. GraphOf(graphs, UpdateGraph) = Stored(Update)
  BY GraphAfterPut
<1> QED
  BY <1>1, <1>2, <1>4, <1>5, StepKeeps DEF ReplaceUpdateGraph

LEMMA ExportKeeps ==
    ASSUME ConfInv, ExportStore
    PROVE  ConfInv'
<1>1. trial.pc = "export" /\ "export" \in Loaded
  BY DEF ExportStore, TrialAt, Loaded
<1>2. /\ LogicalDataset(Volume.db, trial.client) = Stored(Snapshot)
      /\ GraphOf(Volume.db, UpdateGraph) = Stored(Update)
  BY <1>1 DEF ConfInv, SnapshotLoaded
<1>3. MayExport({})
  BY FS_EmptySet DEF MayExport
<1>4. /\ trial' = [trial EXCEPT !.pc = "rebuild", !.exported = Stored(Snapshot)]
      /\ kept' = kept
  BY <1>2, <1>3 DEF ExportStore, ExportDataset
<1>5. /\ trial'.pc = "rebuild" /\ trial'.exported = Stored(Snapshot)
      /\ trial'.backend = trial.backend /\ trial'.client = trial.client
      /\ trial'.killed = trial.killed /\ TrialShape'
  BY <1>4 DEF ConfInv, TrialShape, Initialized
<1> QED
  BY <1>1, <1>4, <1>5 DEF ConfInv, VolumeShape, ClientOfStore, LeftByKill, SnapshotLoaded, Killed,
     Volume, Initialized, Loaded, Authorized

LEMMA ResetKeeps ==
    ASSUME ConfInv, ResetStore
    PROVE  ConfInv'
<1>1. trial.pc \in Initialized /\ "reset" \in Initialized /\ "empty" \in Initialized
      /\ "empty" \notin Loaded
  BY DEF ResetStore, Step, TrialAt, Loaded, Initialized
<1>2. MayClear \/ Killed(trial.backend)
  BY <1>1, WritesAllowed
<1> QED
  BY <1>1, <1>2, StepKeeps DEF ResetStore

LEMMA EndKeeps ==
    ASSUME ConfInv, AskEmpty \/ TrialFails
    PROVE  ConfInv'
<1>1. PICK reason \in {"passed", "not empty", "failed"} : Throws(reason)
  BY DEF AskEmpty, TrialFails, Throws
<1>2. kept' = kept /\ trial.pc # "none"
  BY DEF AskEmpty, TrialFails, TrialAt
<1> QED
  BY <1>1, <1>2, ThrowKeeps

LEMMA StartTrialKeeps ==
    ASSUME ConfInv, NEW b \in Tested, StartTrial(b)
    PROVE  ConfInv'
<1> DEFINE client == ConfigOf(b, trial.runs + 1)
<1>1. trial.pc = "none" /\ kept' = kept
  BY DEF StartTrial, TrialAt
<1>2. /\ trial'.backend = b /\ trial'.client = client /\ trial'.killed = trial.killed
      /\ trial'.pc = (IF b = "blazegraph" THEN "none" ELSE "up")
      /\ trial' = [pc |-> trial'.pc, runs |-> trial'.runs, backend |-> trial'.backend,
                   result |-> trial'.result, killed |-> trial'.killed,
                   exported |-> trial'.exported, client |-> trial'.client]
  BY DEF StartTrial, ConfInv, TrialShape
<1>3. /\ client = [profile |-> client.profile, dataset |-> client.dataset,
                   password |-> client.password, instance |-> client.instance]
      /\ client.dataset = GraphFor(b) /\ client.profile = Profiles[b]
  BY DEF ConfigOf, Client, GraphFor
<1>4. b # "blazegraph" => b \in NativeStores
  BY DEF Tested, NativeStores
<1> HIDE DEF client
<1>5. TrialShape'
  BY <1>2, <1>3 DEF TrialShape
<1>6. ClientOfStore'
  BY <1>2, <1>3, <1>4, NativeAble DEF ClientOfStore, Initialized
<1>7. LeftByKill'
  BY <1>1, <1>2 DEF ConfInv, LeftByKill, Killed, Volume, Initialized
<1>8. SnapshotLoaded' /\ VolumeShape'
  BY <1>1, <1>2 DEF ConfInv, SnapshotLoaded, VolumeShape, Loaded
<1> QED
  BY <1>5, <1>6, <1>7, <1>8 DEF ConfInv

LEMMA StoreComesUp ==
    ASSUME ConfInv, StartStore \/ InitializeClient
    PROVE  ConfInv'
<1>1. trial.pc # "none" /\ trial.backend \in NativeStores /\ trial.backend \in Tested
  BY DEF StartStore, InitializeClient, TrialAt, ConfInv, ClientOfStore, NativeStores, Tested
<1>2. CASE StartStore
  <2>1. /\ trial'.pc = "healthy" /\ trial'.backend = trial.backend
        /\ trial'.client = trial.client /\ trial'.killed = trial.killed /\ TrialShape'
    BY <1>2 DEF StartStore, Goes, ConfInv, TrialShape
  <2>2. /\ VolumeShape'
        /\ \A b \in Tested : b # trial.backend => kept'[b] = kept[b]
        /\ Authorized(trial.client, kept'[trial.backend].password) \/ Killed(trial.backend)
    <3>1. CASE Volume.there
      BY <1>2, <3>1 DEF StartStore, TrialAt, ConfInv, LeftByKill, VolumeShape
    <3>2. CASE ~Volume.there
      BY <1>1, <1>2, <3>2 DEF StartStore, ConfInv, VolumeShape, Authorized
    <3> QED
      BY <3>1, <3>2
  <2> QED
    BY <1>1, <2>1, <2>2 DEF ConfInv, ClientOfStore, LeftByKill, SnapshotLoaded, Killed, Volume,
       Initialized, Loaded, Authorized
<1>3. CASE InitializeClient
  <2> DEFINE client == Initialize(trial.client, <<"m2", trial.backend>>)
  <2>1. /\ client = [profile |-> client.profile, dataset |-> client.dataset,
                     password |-> client.password, instance |-> client.instance]
        /\ client.dataset = trial.client.dataset /\ client.password = trial.client.password
        /\ client.profile = trial.client.profile /\ client.instance # NoInstance
    BY DEF Initialize, NoInstance, ConfInv, TrialShape
  <2>2. trial' = [trial EXCEPT !.pc = "load", !.client = client] /\ kept' = kept
        /\ trial.pc = "healthy"
    BY <1>3 DEF InitializeClient, TrialAt
  <2> HIDE DEF client
  <2>3. /\ trial'.pc = "load" /\ trial'.backend = trial.backend
        /\ trial'.client = client /\ trial'.killed = trial.killed /\ TrialShape'
    BY <2>1, <2>2 DEF ConfInv, TrialShape, Initialized
  <2> QED
    BY <1>1, <2>1, <2>2, <2>3 DEF ConfInv, VolumeShape, ClientOfStore, LeftByKill, SnapshotLoaded,
       Killed, Volume, Initialized, Loaded, Authorized
<1> QED
  BY <1>2, <1>3

LEMMA StoreLeft ==
    ASSUME ConfInv, RemoveStore \/ TrialKilled
    PROVE  ConfInv'
<1>1. trial.backend \in NativeStores /\ trial.backend \in Tested
  BY DEF RemoveStore, TrialKilled, TrialAt, ConfInv, ClientOfStore, NativeStores, Tested
<1>2. /\ trial'.pc = "none" /\ trial'.backend = trial.backend /\ TrialShape'
      /\ \A b \in Tested : b # trial.backend /\ Killed(b) => b \in trial'.killed
      /\ TrialKilled => trial.backend \in trial'.killed
  BY DEF RemoveStore, TrialKilled, ConfInv, TrialShape, Killed
<1>3. /\ VolumeShape'
      /\ \A b \in Tested : b # trial.backend => kept'[b] = kept[b]
      /\ RemoveStore => ~kept'[trial.backend].there
  BY <1>1 DEF RemoveStore, TrialKilled, NoVolume, ConfInv, VolumeShape
<1>4. LeftByKill'
  BY <1>1, <1>2, <1>3 DEF ConfInv, LeftByKill, Killed, Initialized
<1> QED
  BY <1>2, <1>3, <1>4 DEF ConfInv, ClientOfStore, SnapshotLoaded, Initialized, Loaded

LEMMA ConfInitInv == ConformanceInit => ConfInv
<1> SUFFICES ASSUME ConformanceInit PROVE ConfInv
  OBVIOUS
<1>1. trial.client = ConfigOf("oxigraph", 0) /\ trial.pc = "none" /\ trial.result = "none"
  BY DEF ConformanceInit
<1>2. TrialShape
  BY <1>1 DEF ConformanceInit, TrialShape, ConfigOf, Client
<1>3. VolumeShape /\ \A b \in Tested : ~kept[b].there
  BY DEF ConformanceInit, VolumeShape, NoVolume
<1> QED
  BY <1>1, <1>2, <1>3 DEF ConfInv, ClientOfStore, LeftByKill, SnapshotLoaded, Initialized, Loaded

LEMMA ConfNextInv == ConfInv /\ [ConformanceNext]_conformanceVars => ConfInv'
<1> SUFFICES ASSUME ConfInv, [ConformanceNext]_conformanceVars PROVE ConfInv'
  OBVIOUS
<1>1. CASE UNCHANGED conformanceVars
  BY <1>1 DEF conformanceVars, ConfInv, TrialShape, VolumeShape, ClientOfStore, LeftByKill,
     SnapshotLoaded, Killed, Volume
<1> QED
  BY <1>1, StartTrialKeeps, StoreComesUp, ReplaceKeeps, AssertKeeps, UpdateKeeps, ExportKeeps,
     ResetKeeps, EndKeeps, StoreLeft DEF ConformanceNext

-----------------------------------------------------------------------------
(***************************************************************************)
(* The standalone instance, for any order of the backends and any number   *)
(* of commands, failures and kills: what is on the host was made with the  *)
(* secrets the files name, and destroy can remove it.                      *)
(***************************************************************************)

CommandNames == {"create", "check", "fixture", "rebuild", "stop", "start"}

FilesShape ==
    /\ files = [runtime |-> files.runtime, profile |-> files.profile, fixture |-> files.fixture,
                difference |-> files.difference]
    /\ files.runtime \in Nat /\ files.profile \in Backends \cup {""}
    /\ made \in Nat

VolumesShape ==
    /\ volumes = [v \in DOMAIN volumes |->
                    [secrets |-> volumes[v].secrets, filled |-> volumes[v].filled]]
    /\ replaced \subseteq DOMAIN volumes

NothingKept == DOMAIN volumes \subseteq replaced

\* Where a command is in its own order of steps: create writes the runtime file
\* before the profile, destroy removes the files when no volume is left.
CommandOrder ==
    /\ shell = [command |-> shell.command, pc |-> shell.pc, backend |-> shell.backend,
                result |-> shell.result]
    /\ shell.pc = "up" => StateReadable
    /\ ShellAt("create", "profile") =>
         files.runtime # 0 /\ files.profile = "" /\ shell.backend \in Backends
    /\ shell.command = "destroy" =>
         /\ shell.pc \in {"down", "volumes"} => shell.backend = files.profile
         /\ shell.pc \in {"profile", "fixture"} => NothingKept

ShellInv == FilesShape /\ VolumesShape /\ VolumesFitFiles /\ CommandOrder

\* The qualification goes through the backends, and no profile was replaced
\* since it found nothing on the host.
QualifierOrder ==
    /\ qualifier = [pc |-> qualifier.pc, todo |-> qualifier.todo, left |-> qualifier.left,
                    failed |-> qualifier.failed]
    /\ qualifier.todo \in Seq(Backends)
    /\ qualifier.left \in Seq(CommandNames)
    /\ qualifier.pc \in {"run", "ran", "destroyed"} => qualifier.todo # <<>>
    /\ qualifier.pc \in {"run", "ran"} => replaced = {}

InstanceInv == ShellInv /\ QualifierOrder

LEMMA InstanceInvSuffices == InstanceInv => VolumesFitFiles /\ QualifiesFreshInstance
BY DEF InstanceInv, ShellInv, VolumesFitFiles, QualifierOrder, QualifiesFreshInstance

\* A profile is the name of a backend, an absent one is not.
LEMMA BackendNamed == "" \notin Backends /\ ProductBackends \in Seq(Backends)
<1>1. \A i \in DOMAIN ProductBackends :
        ProductBackends[i] \in {"none", "virtuoso", "fuseki-tdb2", "oxigraph"}
  BY ProductAssumption
<1>2. "" \notin Backends
  BY <1>1 DEF Backends
<1>3. \A i \in 1..Len(ProductBackends) : ProductBackends[i] \in Backends
  BY ProductAssumption DEF Backends
<1>4. ProductBackends \in Seq(Backends)
  BY <1>3, ProductAssumption
<1> QED
  BY <1>2, <1>4

LEMMA FilesUntouched ==
    ASSUME ShellInv, files' = files
    PROVE  \E x, y : files' = [files EXCEPT !.fixture = x, !.difference = y]
<1>1. files' = [files EXCEPT !.fixture = files.fixture, !.difference = files.difference]
  BY DEF ShellInv, FilesShape
<1> QED
  BY <1>1

\* A command that ends at once, or changes no more than the files that go with
\* no volume.
LEMMA CommandEnds ==
    ASSUME ShellInv, NEW command, NEW works, Ended(command, works),
           \E x, y : files' = [files EXCEPT !.fixture = x, !.difference = y],
           UNCHANGED <<volumes, made, replaced>>
    PROVE  ShellInv'
BY DEF ShellInv, Ended, FilesShape, VolumesShape, VolumesFitFiles, CommandOrder, StateReadable,
   ShellAt

LEMMA CreateKeeps ==
    ASSUME ShellInv, NEW b \in Backends, CreateInstance(b)
    PROVE  ShellInv'
<1>1. CASE StatePresent
  BY <1>1, CommandEnds, FilesUntouched DEF CreateInstance
<1>2. CASE ~StatePresent
  <2>1. /\ made' = made + 1 /\ files' = [files EXCEPT !.runtime = made']
        /\ Begin("create", "profile", b) /\ UNCHANGED <<volumes, replaced>>
        /\ files.runtime = 0 /\ files.profile = ""
    BY <1>2 DEF CreateInstance, StatePresent
  <2>2. made' \in Nat /\ made' # 0
    <3>1. made \in Nat /\ made' = made + 1
      BY <2>1 DEF ShellInv, FilesShape
    <3> QED
      BY <3>1
  <2>3. /\ files'.runtime = made' /\ files'.profile = ""
        /\ files' = [runtime |-> files'.runtime, profile |-> files'.profile,
                     fixture |-> files'.fixture, difference |-> files'.difference]
    BY <2>1 DEF ShellInv, FilesShape
  <2>4. FilesShape'
    BY <2>2, <2>3 DEF FilesShape
  <2>5. NothingKept
    BY <2>1 DEF ShellInv, VolumesFitFiles, StateReadable, NothingKept
  <2>6. VolumesShape' /\ VolumesFitFiles'
    BY <2>1, <2>5 DEF ShellInv, VolumesShape, VolumesFitFiles, NothingKept
  <2>7. CommandOrder'
    BY <2>1, <2>2, <2>3 DEF Begin, CommandOrder, ShellAt
  <2> QED
    BY <2>4, <2>6, <2>7 DEF ShellInv
<1> QED
  BY <1>1, <1>2

LEMMA UpKeeps ==
    ASSUME ShellInv, NEW command \in {"start", "recreate-app"}, UpCommand(command)
    PROVE  ShellInv'
<1>1. CASE ~StateReadable
  BY <1>1, CommandEnds, FilesUntouched DEF UpCommand
<1>2. CASE StateReadable
  <2>1. Begin(command, "up", files.profile) /\ UNCHANGED <<files, volumes, made, replaced>>
    BY <1>2 DEF UpCommand
  <2>2. FilesShape' /\ VolumesShape' /\ VolumesFitFiles' /\ StateReadable'
    BY <1>2, <2>1 DEF ShellInv, FilesShape, VolumesShape, VolumesFitFiles, StateReadable
  <2>3. CommandOrder'
    BY <2>1, <2>2 DEF Begin, CommandOrder, ShellAt
  <2> QED
    BY <2>2, <2>3 DEF ShellInv
<1> QED
  BY <1>1, <1>2

LEMMA DestroyKeeps ==
    ASSUME ShellInv, DestroyInstance
    PROVE  ShellInv'
<1>1. CASE ~StateReadable
  BY <1>1, CommandEnds, FilesUntouched DEF DestroyInstance
<1>2. CASE StateReadable
  <2>1. Begin("destroy", "down", files.profile) /\ UNCHANGED <<files, volumes, made, replaced>>
    BY <1>2 DEF DestroyInstance
  <2>2. FilesShape' /\ VolumesShape' /\ VolumesFitFiles' /\ StateReadable'
    BY <1>2, <2>1 DEF ShellInv, FilesShape, VolumesShape, VolumesFitFiles, StateReadable
  <2>3. CommandOrder'
    BY <2>1, <2>2 DEF Begin, CommandOrder, ShellAt
  <2> QED
    BY <2>2, <2>3 DEF ShellInv
<1> QED
  BY <1>1, <1>2

LEMMA PlainKeeps ==
    ASSUME ShellInv, StopInstance \/ CheckInstance \/ WriteFixture \/ RebuildInstance
    PROVE  ShellInv'
<1>1. PICK command, works : Ended(command, works)
  BY DEF StopInstance, CheckInstance, WriteFixture, RebuildInstance
<1>2. UNCHANGED <<volumes, made, replaced>>
  BY DEF StopInstance, CheckInstance, WriteFixture, RebuildInstance
<1>3. \E x, y : files' = [files EXCEPT !.fixture = x, !.difference = y]
  <2>1. CASE files' = files
    BY <2>1, FilesUntouched
  <2>2. CASE \E x : files' = [files EXCEPT !.fixture = x]
    <3>1. PICK x : files' = [files EXCEPT !.fixture = x]
      BY <2>2
    <3>2. files' = [files EXCEPT !.fixture = x, !.difference = files.difference]
      BY <3>1 DEF ShellInv, FilesShape
    <3> QED
      BY <3>2
  <2>3. CASE \E y : files' = [files EXCEPT !.difference = y]
    <3>1. PICK y : files' = [files EXCEPT !.difference = y]
      BY <2>3
    <3>2. files' = [files EXCEPT !.fixture = files.fixture, !.difference = y]
      BY <3>1 DEF ShellInv, FilesShape
    <3> QED
      BY <3>2
  <2> QED
    BY <2>1, <2>2, <2>3 DEF StopInstance, CheckInstance, WriteFixture, RebuildInstance
<1> QED
  BY <1>1, <1>2, <1>3, CommandEnds

\* Under another profile, what only the old one declares is left behind.
LEMMA SelectKeeps ==
    ASSUME ShellInv, NEW b \in Backends, SelectProfile(b)
    PROVE  ShellInv'
<1>1. FilesShape' /\ files'.profile = b /\ files'.runtime = files.runtime /\ b # ""
  BY BackendNamed DEF SelectProfile, ShellInv, FilesShape
<1>2. volumes' = volumes /\ replaced' = replaced \cup (DOMAIN volumes \ VolumesOf(b))
  BY DEF SelectProfile
<1>3. VolumesShape'
  BY <1>2 DEF ShellInv, VolumesShape
<1>4. VolumesFitFiles'
  <2> SUFFICES ASSUME NEW v \in DOMAIN volumes \ replaced'
               PROVE  files'.runtime # 0 /\ volumes[v].secrets = files'.runtime /\ v \in VolumesOf(b)
    BY <1>1, <1>2 DEF VolumesFitFiles, StateReadable
  <2>1. v \in DOMAIN volumes \ replaced /\ v \in VolumesOf(b)
    BY <1>2
  <2> QED
    BY <1>1, <2>1 DEF ShellInv, VolumesFitFiles, StateReadable
<1>5. CommandOrder'
  BY DEF SelectProfile, Ended, CommandOrder, ShellAt
<1> QED
  BY <1>1, <1>3, <1>4, <1>5 DEF ShellInv

\* New volumes take the secrets of the runtime file.
LEMMA ComposeKeeps ==
    ASSUME ShellInv, ComposeUp
    PROVE  ShellInv' /\ replaced' = replaced
<1>1. StateReadable /\ files' = files /\ made' = made /\ replaced' = replaced
  BY DEF ComposeUp, ShellInv, CommandOrder
<1>2. volumes' = [v \in DOMAIN volumes \cup VolumesOf(files.profile) |->
                    IF v \in DOMAIN volumes THEN volumes[v]
                    ELSE [secrets |-> files.runtime, filled |-> FALSE]]
  BY DEF ComposeUp
<1>3. VolumesShape'
  BY <1>1, <1>2 DEF ShellInv, VolumesShape
<1>4. VolumesFitFiles'
  BY <1>1, <1>2 DEF ShellInv, VolumesFitFiles, VolumesShape, StateReadable
<1>5. shell' = [shell EXCEPT !.pc = "wait"]
  BY DEF ComposeUp, Proceed
<1>6. CommandOrder'
  BY <1>5 DEF ShellInv, CommandOrder, ShellAt
<1> QED
  BY <1>1, <1>3, <1>4, <1>6 DEF ShellInv, FilesShape

\* A command that ends, fails or is killed leaves what is there.
LEMMA ShellIdles ==
    ASSUME ShellInv, NEW result, shell' = [shell EXCEPT !.pc = "idle", !.result = result],
           UNCHANGED <<files, volumes, made, replaced>>
    PROVE  ShellInv'
BY DEF ShellInv, FilesShape, VolumesShape, VolumesFitFiles, CommandOrder, StateReadable, ShellAt

LEMMA RemoveKeeps ==
    ASSUME ShellInv, RemoveContainers \/ RemoveVolume
    PROVE  ShellInv' /\ replaced' \subseteq replaced
<1>1. CASE RemoveContainers
  BY <1>1 DEF RemoveContainers, Proceed, ShellInv, FilesShape, VolumesShape, VolumesFitFiles,
     CommandOrder, StateReadable, ShellAt
<1>2. CASE RemoveVolume
  <2>1. PICK v \in VolumesOf(shell.backend) \cap DOMAIN volumes :
          /\ volumes' = [w \in DOMAIN volumes \ {v} |-> volumes[w]]
          /\ replaced' = replaced \ {v}
    BY <1>2 DEF RemoveVolume
  <2>2. UNCHANGED <<files, shell, made>>
    BY <1>2 DEF RemoveVolume
  <2>3. VolumesShape'
    BY <2>1 DEF ShellInv, VolumesShape
  <2>4. VolumesFitFiles'
    BY <2>1, <2>2 DEF ShellInv, VolumesFitFiles, StateReadable
  <2>5. CommandOrder'
    BY <2>1, <2>2 DEF ShellInv, CommandOrder, NothingKept, StateReadable, ShellAt
  <2> QED
    BY <2>1, <2>2, <2>3, <2>4, <2>5 DEF ShellInv, FilesShape
<1> QED
  BY <1>1, <1>2

\* The files go when no volume of theirs is left.
LEMMA UnlinkKeeps ==
    ASSUME ShellInv, UnlinkFiles
    PROVE  ShellInv' /\ replaced' = replaced
<1>1. /\ shell.command = "destroy" /\ UNCHANGED <<volumes, made, replaced>>
      /\ shell.pc \in {"volumes", "profile", "fixture"}
  BY DEF UnlinkFiles
<1>2. NothingKept
  <2>1. CASE shell.pc = "volumes"
    BY <1>1, <2>1 DEF UnlinkFiles, ShellInv, CommandOrder, VolumesFitFiles, NothingKept
  <2>2. CASE shell.pc \in {"profile", "fixture"}
    BY <1>1, <2>2 DEF ShellInv, CommandOrder
  <2> QED
    BY <1>1, <2>1, <2>2
<1>3. NothingKept' /\ VolumesShape' /\ VolumesFitFiles'
  BY <1>1, <1>2 DEF NothingKept, ShellInv, VolumesShape, VolumesFitFiles
<1>4. FilesShape'
  <2>0. made' = made /\ FilesShape
    BY <1>1 DEF ShellInv
  <2>1. CASE files' = [files EXCEPT !.runtime = 0]
    BY <2>0, <2>1 DEF FilesShape
  <2>2. CASE files' = [files EXCEPT !.profile = ""]
    BY <2>0, <2>2 DEF FilesShape
  <2>3. CASE files' = [files EXCEPT !.fixture = FALSE]
    BY <2>0, <2>3 DEF FilesShape
  <2> QED
    BY <2>1, <2>2, <2>3 DEF UnlinkFiles
<1>5. /\ shell' = [shell EXCEPT !.pc = "profile"] \/ shell' = [shell EXCEPT !.pc = "fixture"]
         \/ shell' = [shell EXCEPT !.pc = "idle", !.result = "ok"]
  BY DEF UnlinkFiles, Proceed, End
<1>6. CommandOrder'
  BY <1>1, <1>3, <1>5 DEF ShellInv, CommandOrder, ShellAt
<1> QED
  BY <1>1, <1>3, <1>4, <1>6 DEF ShellInv

LEMMA WriteProfileKeeps ==
    ASSUME ShellInv, WriteProfile
    PROVE  ShellInv' /\ replaced' = replaced
<1>1. /\ shell.command = "create" /\ shell.backend \in Backends
      /\ files.runtime # 0 /\ files.profile = ""
      /\ files' = [files EXCEPT !.profile = shell.backend]
      /\ shell' = [shell EXCEPT !.pc = "up"]
      /\ UNCHANGED <<volumes, made, replaced>>
  BY DEF WriteProfile, ShellAt, Proceed, ShellInv, CommandOrder
<1>2. FilesShape' /\ StateReadable'
  BY <1>1, BackendNamed DEF ShellInv, FilesShape, StateReadable
<1>3. NothingKept
  BY <1>1 DEF ShellInv, VolumesFitFiles, StateReadable, NothingKept
<1>4. VolumesShape' /\ VolumesFitFiles'
  BY <1>1, <1>3 DEF ShellInv, VolumesShape, VolumesFitFiles, NothingKept
<1>5. CommandOrder'
  BY <1>1, <1>2 DEF ShellInv, CommandOrder, ShellAt
<1> QED
  BY <1>1, <1>2, <1>4, <1>5 DEF ShellInv

LEMMA CommandKeeps ==
    ASSUME ShellInv, CommandStep
    PROVE  ShellInv' /\ replaced' \subseteq replaced
<1>1. CASE UpEnds \/ CommandFails
  <2>1. PICK result : shell' = [shell EXCEPT !.pc = "idle", !.result = result]
    BY <1>1 DEF UpEnds, CommandFails, End
  <2>2. UNCHANGED <<files, volumes, made, replaced>>
    BY <1>1 DEF UpEnds, CommandFails
  <2> QED
    BY <2>1, <2>2, ShellIdles
<1> QED
  BY <1>1, WriteProfileKeeps, ComposeKeeps, RemoveKeeps, UnlinkKeeps DEF CommandStep

\* The entrypoint fills volumes; it makes none.
LEMMA ContainerKeeps ==
    ASSUME ShellInv, ContainerStep
    PROVE  ShellInv' /\ replaced' = replaced
<1>1. UNCHANGED <<files, shell, made, replaced>>
  BY DEF ContainerStep, ConnectDatabase, InstallWiki, MarkInstalled
<1>2. volumes' = volumes \/ \E w : volumes' = [volumes EXCEPT ![w].filled = TRUE]
  BY DEF ContainerStep, ConnectDatabase, InstallWiki, MarkInstalled
<1>3. /\ VolumesShape' /\ DOMAIN volumes' = DOMAIN volumes
      /\ \A v \in DOMAIN volumes : volumes'[v].secrets = volumes[v].secrets
  BY <1>1, <1>2 DEF ShellInv, VolumesShape
<1>4. VolumesFitFiles'
  BY <1>1, <1>3 DEF ShellInv, VolumesFitFiles, StateReadable
<1>5. CommandOrder'
  BY <1>1, <1>3 DEF ShellInv, CommandOrder, NothingKept, StateReadable, ShellAt
<1> QED
  BY <1>1, <1>3, <1>4, <1>5 DEF ShellInv, FilesShape

\* The commands of a profile, in order.
LEMMA PerformKeeps ==
    ASSUME InstanceInv, NEW command \in CommandNames, qualifier.todo # <<>>, Perform(command)
    PROVE  ShellInv' /\ replaced' = replaced
<1>1. Head(qualifier.todo) \in Backends
  BY HeadTailProperties DEF InstanceInv, QualifierOrder
<1>2. \/ CreateInstance(Head(qualifier.todo))
      \/ CheckInstance \/ WriteFixture \/ RebuildInstance \/ StopInstance \/ UpCommand("start")
  BY DEF Perform, CommandNames
<1>3. replaced' = replaced
  BY <1>2 DEF CreateInstance, CheckInstance, WriteFixture, RebuildInstance, StopInstance, UpCommand
<1> QED
  BY <1>1, <1>2, <1>3, CreateKeeps, UpKeeps, PlainKeeps DEF InstanceInv

LEMMA RunStepKeeps ==
    ASSUME InstanceInv, RunStep
    PROVE  InstanceInv'
<1>1. /\ qualifier.pc = "run" /\ qualifier.left # <<>> /\ qualifier.todo # <<>>
      /\ qualifier' = [qualifier EXCEPT !.pc = "ran", !.left = Tail(@)]
  BY DEF RunStep, Qualifying, InstanceInv, QualifierOrder
<1>2. Head(qualifier.left) \in CommandNames /\ Tail(qualifier.left) \in Seq(CommandNames)
  BY <1>1, HeadTailProperties DEF InstanceInv, QualifierOrder
<1>3. ShellInv' /\ replaced' = replaced
  BY <1>1, <1>2, PerformKeeps DEF RunStep
<1>4. QualifierOrder'
  BY <1>1, <1>2, <1>3 DEF InstanceInv, QualifierOrder
<1> QED
  BY <1>3, <1>4 DEF InstanceInv

\* The qualification's own steps around the commands.
LEMMA QualifierMoves ==
    ASSUME InstanceInv, \/ Qualify \/ NextProfile \/ StepEnded \/ ProfileEnded \/ Classification
    PROVE  InstanceInv'
<1>1. UNCHANGED <<files, volumes, shell, made, replaced>>
  BY DEF Qualify, NextProfile, StepEnded, ProfileEnded, Classification
<1>2. ShellInv'
  BY <1>1 DEF InstanceInv, ShellInv, FilesShape, VolumesShape, VolumesFitFiles, CommandOrder,
     NothingKept, StateReadable, ShellAt
<1>3. Clean => replaced = {}
  <2>1. Clean => DOMAIN volumes = {}
    BY DEF Clean, ResourcesPresent
  <2> QED
    BY <2>1 DEF InstanceInv, ShellInv, VolumesShape
<1>4. \A b \in Backends : Steps(b) \in Seq(CommandNames)
  <2>1. <<"create", "check", "stop", "start", "check">> \in Seq(CommandNames)
    BY DEF CommandNames
  <2>2. <<"create", "check", "fixture", "check", "rebuild", "check", "stop", "start", "check">>
          \in Seq(CommandNames)
    BY DEF CommandNames
  <2> QED
    BY <2>1, <2>2 DEF Steps
<1>5. CASE Qualify
  <2>0. /\ <<>> \in Seq(CommandNames) /\ <<>> \in Seq(Backends)
        /\ ProductBackends \in Seq(Backends)
    BY BackendNamed, EmptySeq
  <2>1. PICK todo \in Seq(Backends), steps \in Seq(CommandNames) :
          \/ qualifier' = [pc |-> "profile", todo |-> todo, left |-> steps, failed |-> FALSE]
          \/ qualifier' = [pc |-> "cleanup", todo |-> todo, left |-> steps, failed |-> TRUE]
    BY <1>5, <2>0 DEF Qualify
  <2>2. QualifierOrder'
    BY <2>1 DEF QualifierOrder
  <2> QED
    BY <1>2, <2>2 DEF InstanceInv
<1>6. CASE NextProfile
  <2>1. CASE qualifier' = [qualifier EXCEPT !.pc = "run", !.left = Steps(Head(qualifier.todo))]
             /\ qualifier.todo # <<>> /\ Clean
    <3>1. Head(qualifier.todo) \in Backends
      BY <2>1, HeadTailProperties DEF InstanceInv, QualifierOrder
    <3> QED
      BY <1>1, <1>2, <1>3, <1>4, <2>1, <3>1 DEF InstanceInv, QualifierOrder
  <2>2. CASE qualifier' = [qualifier EXCEPT !.pc = "cleanup"]
             \/ qualifier' = [qualifier EXCEPT !.pc = "cleanup", !.failed = TRUE]
    BY <1>1, <1>2, <2>2 DEF InstanceInv, QualifierOrder
  <2> QED
    BY <1>6, <2>1, <2>2 DEF NextProfile
<1>7. CASE StepEnded
  BY <1>1, <1>2, <1>7, EmptySeq DEF StepEnded, Qualifying, InstanceInv, QualifierOrder
<1>8. CASE ProfileEnded
  <2>1. qualifier.todo # <<>>
    BY <1>8 DEF ProfileEnded, Qualifying, InstanceInv, QualifierOrder
  <2>2. Tail(qualifier.todo) \in Seq(Backends)
    BY <2>1, HeadTailProperties DEF InstanceInv, QualifierOrder
  <2> QED
    BY <1>1, <1>2, <1>8, <2>2 DEF ProfileEnded, InstanceInv, QualifierOrder
<1>9. CASE Classification
  BY <1>1, <1>2, <1>9 DEF Classification, InstanceInv, QualifierOrder
<1> QED
  BY <1>5, <1>6, <1>7, <1>8, <1>9

\* Its calls of destroy, and its death.
LEMMA QualifierDestroys ==
    ASSUME InstanceInv, DestroyProfile \/ Cleanup \/ QualifierKilled
    PROVE  InstanceInv'
<1>1. ShellInv'
  <2>1. CASE DestroyInstance
    BY <2>1, DestroyKeeps DEF InstanceInv
  <2>2. CASE UNCHANGED <<files, volumes, core, shell, made, replaced>>
    BY <2>2 DEF InstanceInv, ShellInv, FilesShape, VolumesShape, VolumesFitFiles, CommandOrder,
       NothingKept, StateReadable, ShellAt
  <2>3. CASE QualifierKilled
    BY <2>3, ShellIdles DEF QualifierKilled, InstanceInv
  <2> QED
    BY <2>1, <2>2, <2>3 DEF DestroyProfile, Cleanup
<1>2. /\ qualifier'.pc \in {"destroyed", "assert", "ended"}
      /\ qualifier'.pc = "destroyed" => qualifier.pc = "run"
      /\ qualifier' = [pc |-> qualifier'.pc, todo |-> qualifier.todo, left |-> qualifier.left,
                       failed |-> qualifier'.failed]
  BY DEF DestroyProfile, Cleanup, QualifierKilled, Qualifying, InstanceInv, QualifierOrder
<1>3. QualifierOrder'
  BY <1>2 DEF InstanceInv, QualifierOrder
<1> QED
  BY <1>1, <1>3 DEF InstanceInv

LEMMA InstanceNextInv == InstanceInv /\ [ProductNext]_productVars => InstanceInv'
<1> SUFFICES ASSUME InstanceInv, [ProductNext]_productVars PROVE InstanceInv'
  OBVIOUS
<1>1. CASE UserCommand /\ commands' = commands + 1 /\ UNCHANGED qualifier
  <2>1. ShellInv'
    BY <1>1, CreateKeeps, SelectKeeps, UpKeeps, PlainKeeps, DestroyKeeps DEF UserCommand, InstanceInv
  <2>2. QualifierOrder'
    BY <1>1 DEF UserCommand, InstanceInv, QualifierOrder
  <2> QED
    BY <2>1, <2>2 DEF InstanceInv
<1>2. CASE (CommandStep \/ ContainerStep) /\ UNCHANGED <<qualifier, commands>>
  <2>1. ShellInv' /\ replaced' \subseteq replaced
    BY <1>2, CommandKeeps, ContainerKeeps DEF InstanceInv
  <2>2. QualifierOrder'
    BY <1>2, <2>1 DEF InstanceInv, QualifierOrder
  <2> QED
    BY <2>1, <2>2 DEF InstanceInv
<1>3. CASE QualifierStep
  BY <1>3, RunStepKeeps, QualifierMoves, QualifierDestroys DEF QualifierStep
<1>4. CASE UNCHANGED productVars
  BY <1>4 DEF productVars, InstanceInv, QualifierOrder, ShellInv, FilesShape, VolumesShape,
     VolumesFitFiles, CommandOrder, NothingKept, StateReadable, ShellAt
<1> QED
  BY <1>1, <1>2, <1>3, <1>4 DEF ProductNext

LEMMA InstanceInitInv == ProductInit => InstanceInv
<1> SUFFICES ASSUME ProductInit PROVE InstanceInv
  OBVIOUS
<1>1. volumes = <<>> /\ replaced = {} /\ files = NoFiles /\ made = 0
  BY DEF ProductInit
<1>2. DOMAIN volumes = {} /\ volumes = [v \in {} |-> v]
  BY <1>1
<1>3. FilesShape
  BY <1>1 DEF NoFiles, FilesShape
<1>4. VolumesShape /\ VolumesFitFiles
  BY <1>1, <1>2 DEF VolumesShape, VolumesFitFiles
<1>5. CommandOrder
  BY DEF ProductInit, CommandOrder, ShellAt
<1>6. QualifierOrder
  BY EmptySeq DEF ProductInit, QualifierOrder
<1> QED
  BY <1>3, <1>4, <1>5, <1>6 DEF InstanceInv, ShellInv

-----------------------------------------------------------------------------
\* A run of jwb-rdf-test is refused nothing by its own store unless a killed run
\* left the volume, and its rebuild restores the snapshot; the volumes of the
\* standalone instance have the secrets and the profile of the files, whatever
\* command was killed, and the qualification never meets a replaced profile.
THEOREM VolumesAlwaysFit == Spec => []VolumesHaveTheirSecrets
<1>1. Init => ConfInv /\ InstanceInv
  BY ConfInitInv, InstanceInitInv DEF Init
<1>2. [Next]_allVars => [ConformanceNext]_conformanceVars /\ [ProductNext]_productVars
  <2>1. CASE UNCHANGED allVars
    BY <2>1 DEF allVars
  <2>2. CASE Next
    BY <2>2 DEF Next
  <2> QED
    BY <2>1, <2>2
<1>3. ConfInv /\ InstanceInv /\ [Next]_allVars => (ConfInv /\ InstanceInv)'
  BY <1>2, ConfNextInv, InstanceNextInv
<1>4. ConfInv /\ InstanceInv => VolumesHaveTheirSecrets
  BY ConfInvSuffices, InstanceInvSuffices DEF VolumesHaveTheirSecrets
<1> QED
  BY <1>1, <1>3, <1>4, PTL DEF Spec

-----------------------------------------------------------------------------
(***************************************************************************)
(* The rebuild of jwb-m8-qualification.  Each store holds, from the moment *)
(* it was compared on, the whole of the dump it was loaded with, because   *)
(* the load in flight is awaited before the second dump; that dump is the  *)
(* wiki of the moment until the end, because nothing is edited after it.   *)
(***************************************************************************)

Serving == {"dump", "up", "resetA", "putA", "compareA", "edit", "resetB", "putB", "compareB", "promote"}
Promoted == {"restart", "rollback"}
Awaited == {"resetB", "putB", "compareB", "promote"} \cup Promoted

\* What queries to a store see.
Copy(store) == LogicalDataset(physical[store].db, StoreClient(store))
RolledBack == qual.pc = "down" /\ qual.pointer.version = 3

QualShape ==
    /\ qual = [pc |-> qual.pc, load |-> qual.load, edits |-> qual.edits, c0 |-> qual.c0,
               c1 |-> qual.c1, pointer |-> qual.pointer, type |-> qual.type]
    /\ qual.pointer = [gen |-> qual.pointer.gen, previous |-> qual.pointer.previous,
                       version |-> qual.pointer.version]
    /\ physical = [s \in Stores |-> [up |-> physical[s].up, db |-> physical[s].db]]
    /\ qual.pc \in Serving \cup Promoted \cup {"down", "none"}
    /\ part # "qualification" => qual.pc = "dump"

\* Where the script is, what the pointer names and whether a load is in flight.
ScriptOrder ==
    /\ qual.pc \in Serving => qual.pointer.gen = "gen-a" /\ qual.pointer.version = 1
    /\ qual.pc \in Promoted => qual.pointer.gen = "gen-b" /\ qual.pointer.version = 2
    /\ RolledBack => qual.pointer.gen = "gen-a"
    /\ qual.pc \in {"dump", "up", "resetA", "putA", "compareA"} => qual.load = "none"
    /\ qual.pc \in Awaited \/ RolledBack => qual.load = "done"

FirstCopy == qual.pc \in {"compareA", "edit"} \cup Awaited \/ RolledBack => Copy("a") = Stored(qual.c0)
SecondCopy == qual.pc \in {"compareB", "promote"} \cup Promoted => Copy("b") = Stored(qual.c1)
SecondDumpFresh == qual.pc \in Awaited => qual.c1 = Dump(Found(Entities))

QualInv == QualShape /\ ScriptOrder /\ FirstCopy /\ SecondCopy /\ SecondDumpFresh

LEMMA QualInvSuffices == QualInv => ServesWholeDataset
<1> SUFFICES ASSUME QualInv PROVE ServesWholeDataset
  OBVIOUS
<1>1. RouterAnswers = Copy(RoutedStore)
  BY DEF RouterAnswers, Copy
<1> QED
  BY <1>1 DEF QualInv, ScriptOrder, FirstCopy, SecondCopy, SecondDumpFresh, ServesWholeDataset,
     RoutedStore, RolledBack, Serving, Promoted, Awaited, QualAt

LEMMA QualInitInv == Init => QualInv
<1> SUFFICES ASSUME Init PROVE QualInv
  OBVIOUS
<1>1. /\ qual.pc = "dump" /\ qual.load = "none"
      /\ qual.pointer = [gen |-> "gen-a", previous |-> "none", version |-> 1]
      /\ qual = [pc |-> qual.pc, load |-> qual.load, edits |-> qual.edits, c0 |-> qual.c0,
                 c1 |-> qual.c1, pointer |-> qual.pointer, type |-> qual.type]
      /\ physical = [s \in Stores |-> RemovedStore]
  BY DEF Init, QualInit
<1>2. QualShape
  BY <1>1 DEF QualShape, RemovedStore, Serving
<1> QED
  BY <1>1, <1>2 DEF QualInv, ScriptOrder, RolledBack, FirstCopy, SecondCopy, SecondDumpFresh,
     Serving, Promoted, Awaited

\* A put leaves the store with a whole copy.
LEMMA PutIsWhole ==
    ASSUME NEW store \in {"a", "b"}, NEW dump, QualInv, PutStore(store, dump), qual'.type = qual.type
    PROVE  Copy(store)' = Stored(dump)
<1>1. physical'[store].db = PutGraph(physical[store].db, DatasetTarget(StoreClient(store)), dump)
  BY DEF PutStore, Fill, QualInv, QualShape, Stores
<1>2. StoreClient(store)' = StoreClient(store)
  BY DEF StoreClient
<1>3. \A d, name : GraphOf(PutGraph(d, name, dump), name) = Stored(dump)
  BY DEF GraphOf, PutGraph
<1> QED
  BY <1>1, <1>2, <1>3 DEF Copy, LogicalDataset

\* A write to a store leaves the other one alone.
LEMMA OtherStoreKept ==
    ASSUME QualInv, NEW store \in {"a", "b"}, NEW other \in {"a", "b"}, other # store, NEW data,
           Fill(store, data), qual'.type = qual.type
    PROVE  Copy(other)' = Copy(other)
<1>1. physical'[other] = physical[other]
  BY DEF Fill, QualInv, QualShape, Stores
<1> QED
  BY <1>1 DEF Copy, StoreClient

LEMMA FillShape ==
    ASSUME QualInv, NEW store \in {"a", "b"}, NEW data, Fill(store, data)
    PROVE  physical' = [s \in Stores |-> [up |-> physical'[s].up, db |-> physical'[s].db]]
<1>1. DOMAIN physical = Stores /\ physical' = [physical EXCEPT ![store].db = data]
  BY DEF Fill, QualInv, QualShape
<1>2. ASSUME NEW s \in Stores
      PROVE  physical'[s] = [up |-> physical[s].up, db |-> IF s = store THEN data ELSE physical[s].db]
  <2>1. physical[s] = [up |-> physical[s].up, db |-> physical[s].db]
    BY DEF QualInv, QualShape
  <2>2. CASE s = store
    BY <1>1, <2>1, <2>2
  <2>3. CASE s # store
    BY <1>1, <2>1, <2>3
  <2> QED
    BY <2>2, <2>3
<1>3. ASSUME NEW s \in Stores
      PROVE  physical'[s] = [up |-> physical'[s].up, db |-> physical'[s].db]
  <2>1. PICK up, graphs : physical'[s] = [up |-> up, db |-> graphs]
    BY <1>2
  <2> QED
    BY <2>1
<1>4. physical' = [s \in Stores |-> physical'[s]]
  BY <1>1
<1> QED
  BY <1>3, <1>4

\* A step that writes no store.
LEMMA StoresKept ==
    ASSUME QualInv, UNCHANGED physical, qual'.type = qual.type
    PROVE  Copy("a")' = Copy("a") /\ Copy("b")' = Copy("b")
           /\ physical' = [s \in Stores |-> [up |-> physical'[s].up, db |-> physical'[s].db]]
BY DEF Copy, StoreClient, QualInv, QualShape


\* The script goes on and writes no store.
LEMMA ScriptMoves ==
    ASSUME QualInv, part' = part, part = "qualification", UNCHANGED <<pages, contents, lastRcid, physical>>,
           NEW pc, NEW load, NEW c0, NEW c1, NEW gen_, NEW previous, NEW version,
           qual' = [pc |-> pc, load |-> load, edits |-> qual.edits, c0 |-> c0, c1 |-> c1,
                    pointer |-> [gen |-> gen_, previous |-> previous, version |-> version],
                    type |-> qual.type],
           \/ /\ qual.pc = "dump" /\ pc = "up" /\ load = qual.load
              /\ gen_ = qual.pointer.gen /\ version = qual.pointer.version
           \/ /\ qual.pc = "compareA" /\ pc = "edit" /\ c0 = qual.c0
              /\ gen_ = qual.pointer.gen /\ version = qual.pointer.version
           \/ /\ qual.pc = "edit" /\ pc = "resetB" /\ load = "done" /\ c0 = qual.c0
              /\ c1 = Dump(Found(Entities)) /\ gen_ = qual.pointer.gen /\ version = qual.pointer.version
           \/ /\ <<qual.pc, pc>> \in {<<"compareB", "promote">>, <<"restart", "rollback">>}
              /\ load = qual.load /\ c0 = qual.c0 /\ c1 = qual.c1
              /\ gen_ = qual.pointer.gen /\ version = qual.pointer.version
           \/ /\ qual.pc = "promote" /\ pc = "restart" /\ load = qual.load /\ c0 = qual.c0 /\ c1 = qual.c1
              /\ gen_ = "gen-b" /\ version = 2
           \/ /\ qual.pc = "rollback" /\ pc = "down" /\ load = qual.load /\ c0 = qual.c0 /\ c1 = qual.c1
              /\ gen_ = "gen-a" /\ version = 3
           \/ /\ qual.pc \notin {"down", "none"} /\ pc = "down"
              /\ gen_ = qual.pointer.gen /\ version = qual.pointer.version
           \/ pc = "none"
    PROVE  QualInv'
<1>1. Dump(Found(Entities))' = Dump(Found(Entities))
  BY DEF Dump, Found
<1>2. /\ qual'.pc = pc /\ qual'.load = load /\ qual'.c0 = c0 /\ qual'.c1 = c1 /\ qual'.type = qual.type
      /\ qual'.pointer.gen = gen_ /\ qual'.pointer.version = version
      /\ qual' = [pc |-> qual'.pc, load |-> qual'.load, edits |-> qual'.edits, c0 |-> qual'.c0,
                  c1 |-> qual'.c1, pointer |-> qual'.pointer, type |-> qual'.type]
  OBVIOUS
<1>3. /\ Copy("a")' = Copy("a") /\ Copy("b")' = Copy("b")
      /\ physical' = [s \in Stores |-> [up |-> physical'[s].up, db |-> physical'[s].db]]
  BY <1>2, StoresKept
<1> USE DEF Serving, Promoted, Awaited, RolledBack
<1>4. QualShape'
  BY <1>2, <1>3 DEF QualInv, QualShape
<1>5. ScriptOrder'
  BY <1>2 DEF QualInv, QualShape, ScriptOrder
<1>6. FirstCopy'
  BY <1>2, <1>3 DEF QualInv, QualShape, ScriptOrder, FirstCopy
<1>7. SecondCopy'
  BY <1>2, <1>3 DEF QualInv, SecondCopy
<1>8. SecondDumpFresh'
  BY <1>1, <1>2 DEF QualInv, SecondDumpFresh
<1> QED
  BY <1>4, <1>5, <1>6, <1>7, <1>8 DEF QualInv

\* The script, or the load it left in flight, writes one store.
LEMMA ScriptWrites ==
    ASSUME QualInv, part' = part, part = "qualification", UNCHANGED <<pages, contents, lastRcid>>,
           NEW store \in {"a", "b"}, NEW data, Fill(store, data), NEW pc, NEW load,
           qual' = [pc |-> pc, load |-> load, edits |-> qual.edits, c0 |-> qual.c0, c1 |-> qual.c1,
                    pointer |-> qual.pointer, type |-> qual.type],
           \/ store = "a" /\ qual.pc = "resetA" /\ pc = "putA" /\ load = qual.load
           \/ store = "a" /\ qual.pc = "putA" /\ pc = "compareA" /\ load = qual.load
              /\ PutStore("a", qual.c0)
           \/ store = "b" /\ qual.pc = "resetB" /\ pc = "putB" /\ load = qual.load
           \/ store = "b" /\ qual.pc = "putB" /\ pc = "compareB" /\ load = qual.load
              /\ PutStore("b", qual.c1)
           \/ store = "b" /\ pc = qual.pc /\ qual.load \in {"reset", "put"}
    PROVE  QualInv'
<1>1. Dump(Found(Entities))' = Dump(Found(Entities))
  BY DEF Dump, Found
<1>2. /\ qual'.pc = pc /\ qual'.load = load /\ qual'.c0 = qual.c0 /\ qual'.c1 = qual.c1
      /\ qual'.type = qual.type /\ qual'.pointer = qual.pointer
      /\ qual' = [pc |-> qual'.pc, load |-> qual'.load, edits |-> qual'.edits, c0 |-> qual'.c0,
                  c1 |-> qual'.c1, pointer |-> qual'.pointer, type |-> qual'.type]
  OBVIOUS
<1>3. physical' = [s \in Stores |-> [up |-> physical'[s].up, db |-> physical'[s].db]]
  BY FillShape
<1>4. /\ store # "a" => Copy("a")' = Copy("a")
      /\ store # "b" => Copy("b")' = Copy("b")
  BY <1>2, OtherStoreKept
<1>5. /\ PutStore("a", qual.c0) => Copy("a")' = Stored(qual.c0)
      /\ PutStore("b", qual.c1) => Copy("b")' = Stored(qual.c1)
  BY <1>2, PutIsWhole
<1> USE DEF Serving, Promoted, Awaited, RolledBack
<1>6. QualShape'
  BY <1>2, <1>3 DEF QualInv, QualShape
<1>7. ScriptOrder'
  BY <1>2 DEF QualInv, ScriptOrder
<1>8. FirstCopy'
  BY <1>2, <1>4, <1>5 DEF QualInv, FirstCopy
<1>9. SecondCopy'
  BY <1>2, <1>4, <1>5 DEF QualInv, ScriptOrder, SecondCopy
<1>10. SecondDumpFresh'
  BY <1>1, <1>2 DEF QualInv, ScriptOrder, SecondDumpFresh
<1> QED
  BY <1>6, <1>7, <1>8, <1>9, <1>10 DEF QualInv

LEMMA ScriptKeeps ==
    ASSUME QualInv, part = "qualification", part' = part, ScriptStep \/ CandidateLoad,
           UNCHANGED datasetVars
    PROVE  QualInv'
<1>1. UNCHANGED <<pages, contents, lastRcid>>
  BY DEF datasetVars, dataVars, wikiVars
<1>2. qual = [pc |-> qual.pc, load |-> qual.load, edits |-> qual.edits, c0 |-> qual.c0,
              c1 |-> qual.c1, pointer |-> qual.pointer, type |-> qual.type]
  BY DEF QualInv, QualShape
<1>3. ASSUME NEW store, NEW dump
      PROVE  /\ ResetStoreOf(store) => \E data : Fill(store, data)
             /\ PutStore(store, dump) => \E data : Fill(store, data)
  BY DEF ResetStoreOf, PutStore
<1>4. CASE DumpFirst \/ CompareServing \/ DumpSecond \/ CompareCandidate
           \/ PromoteCandidate \/ RestartCandidate \/ RollBack \/ QualificationFails \/ LoadRejected
  <2> DEFINE Becomes(pc, load, c0, c1, pointer) ==
               qual' = [pc |-> pc, load |-> load, edits |-> qual.edits, c0 |-> c0, c1 |-> c1,
                        pointer |-> pointer, type |-> qual.type]
  <2>1. UNCHANGED physical
    BY <1>4 DEF DumpFirst, CompareServing, DumpSecond, CompareCandidate, PromoteCandidate, Cas,
       RestartCandidate, RollBack, QualificationFails, LoadRejected
  <2>2. qual.pointer = [gen |-> qual.pointer.gen, previous |-> qual.pointer.previous,
                        version |-> qual.pointer.version]
    BY DEF QualInv, QualShape
  <2>3. CASE DumpFirst
    <3>1. qual.pc = "dump" /\ Becomes("up", qual.load, Dump(Found(Entities)), qual.c1, qual.pointer)
      BY <1>2, <2>3 DEF DumpFirst, QualAt
    <3> QED
      BY <1>1, <2>1, <2>2, <3>1, ScriptMoves
  <2>4. CASE CompareServing
    <3>1. qual.pc = "compareA" /\ Becomes("edit", "reset", qual.c0, qual.c1, qual.pointer)
      BY <1>2, <2>4 DEF CompareServing, QualAt
    <3> QED
      BY <1>1, <2>1, <2>2, <3>1, ScriptMoves
  <2>5. CASE DumpSecond
    <3>1. qual.pc = "edit" /\ Becomes("resetB", "done", qual.c0, Dump(Found(Entities)), qual.pointer)
      BY <1>2, <2>5 DEF DumpSecond, QualAt
    <3> QED
      BY <1>1, <2>1, <2>2, <3>1, ScriptMoves
  <2>6. CASE CompareCandidate
    <3>1. qual.pc = "compareB" /\ Becomes("promote", qual.load, qual.c0, qual.c1, qual.pointer)
      BY <1>2, <2>6 DEF CompareCandidate, QualAt, QualGoes
    <3> QED
      BY <1>1, <2>1, <2>2, <3>1, ScriptMoves
  <2>7. CASE PromoteCandidate
    <3>1. qual.pc = "promote"
          /\ Becomes("restart", qual.load, qual.c0, qual.c1,
                     [gen |-> "gen-b", previous |-> "gen-a", version |-> 2])
      <4>1. 1 + 1 = 2
        OBVIOUS
      <4>2. /\ QualAt("promote")
            /\ qual' = [qual EXCEPT !.pc = "restart",
                                    !.pointer = [gen |-> "gen-b", previous |-> "gen-a", version |-> 2]]
        BY <2>7, <4>1, Zenon DEF PromoteCandidate, Cas
      <4> QED
        BY <1>2, <4>2 DEF QualAt
    <3> QED
      BY <1>1, <2>1, <3>1, ScriptMoves
  <2>8. CASE RestartCandidate
    <3>1. qual.pc = "restart" /\ Becomes("rollback", qual.load, qual.c0, qual.c1, qual.pointer)
      BY <1>2, <2>8 DEF RestartCandidate, QualAt, QualGoes
    <3> QED
      BY <1>1, <2>1, <2>2, <3>1, ScriptMoves
  <2>9. CASE RollBack
    <3>1. qual.pc = "rollback"
          /\ Becomes("down", qual.load, qual.c0, qual.c1,
                     [gen |-> "gen-a", previous |-> "gen-b", version |-> 3])
      <4>1. 2 + 1 = 3
        OBVIOUS
      <4>2. /\ QualAt("rollback")
            /\ qual' = [qual EXCEPT !.pc = "down",
                                    !.pointer = [gen |-> "gen-a", previous |-> "gen-b", version |-> 3]]
        BY <2>9, <4>1, Zenon DEF RollBack, Cas
      <4> QED
        BY <1>2, <4>2 DEF QualAt
    <3> QED
      BY <1>1, <2>1, <3>1, ScriptMoves
  <2>10. CASE QualificationFails
    <3>1. qual.pc \notin {"down", "none"}
          /\ Becomes("down", qual.load, qual.c0, qual.c1, qual.pointer)
      BY <1>2, <2>10 DEF QualificationFails, QualGoes
    <3> QED
      BY <1>1, <2>1, <2>2, <3>1, ScriptMoves
  <2>11. CASE LoadRejected
    <3>1. Becomes("none", "done", qual.c0, qual.c1, qual.pointer)
      BY <1>2, <2>11 DEF LoadRejected
    <3> QED
      BY <1>1, <2>1, <2>2, <3>1, ScriptMoves
  <2> QED
    BY <1>4, <2>3, <2>4, <2>5, <2>6, <2>7, <2>8, <2>9, <2>10, <2>11
<1>5. CASE LoadServing
  <2>1. ASSUME qual.pc = "resetA", ResetStoreOf("a"), QualGoes("putA")
        PROVE  QualInv'
    <3>1. PICK data : Fill("a", data)
      BY <1>3, <2>1
    <3>2. qual' = [pc |-> "putA", load |-> qual.load, edits |-> qual.edits, c0 |-> qual.c0,
                   c1 |-> qual.c1, pointer |-> qual.pointer, type |-> qual.type]
      BY <1>2, <2>1 DEF QualGoes
    <3> QED
      BY <1>1, <2>1, <3>1, <3>2, ScriptWrites
  <2>2. ASSUME qual.pc = "putA", PutStore("a", qual.c0), QualGoes("compareA")
        PROVE  QualInv'
    <3>1. PICK data : Fill("a", data)
      BY <1>3, <2>2
    <3>2. qual' = [pc |-> "compareA", load |-> qual.load, edits |-> qual.edits, c0 |-> qual.c0,
                   c1 |-> qual.c1, pointer |-> qual.pointer, type |-> qual.type]
      BY <1>2, <2>2 DEF QualGoes
    <3> QED
      BY <1>1, <2>2, <3>1, <3>2, ScriptWrites
  <2> QED
    BY <1>5, <2>1, <2>2 DEF LoadServing, QualAt
<1>6. CASE LoadCandidate
  <2>1. ASSUME qual.pc = "resetB", ResetStoreOf("b"), QualGoes("putB")
        PROVE  QualInv'
    <3>1. PICK data : Fill("b", data)
      BY <1>3, <2>1
    <3>2. qual' = [pc |-> "putB", load |-> qual.load, edits |-> qual.edits, c0 |-> qual.c0,
                   c1 |-> qual.c1, pointer |-> qual.pointer, type |-> qual.type]
      BY <1>2, <2>1 DEF QualGoes
    <3> QED
      BY <1>1, <2>1, <3>1, <3>2, ScriptWrites
  <2>2. ASSUME qual.pc = "putB", PutStore("b", qual.c1), QualGoes("compareB")
        PROVE  QualInv'
    <3>1. PICK data : Fill("b", data)
      BY <1>3, <2>2
    <3>2. qual' = [pc |-> "compareB", load |-> qual.load, edits |-> qual.edits, c0 |-> qual.c0,
                   c1 |-> qual.c1, pointer |-> qual.pointer, type |-> qual.type]
      BY <1>2, <2>2 DEF QualGoes
    <3> QED
      BY <1>1, <2>2, <3>1, <3>2, ScriptWrites
  <2> QED
    BY <1>6, <2>1, <2>2 DEF LoadCandidate, QualAt
<1>7. CASE CandidateLoad
  <2>1. PICK data : Fill("b", data)
    BY <1>3, <1>7 DEF CandidateLoad
  <2>2. PICK load : /\ qual.load \in {"reset", "put"}
                    /\ qual' = [qual EXCEPT !.load = load]
    BY <1>7 DEF CandidateLoad
  <2>3. qual' = [pc |-> qual.pc, load |-> load, edits |-> qual.edits, c0 |-> qual.c0,
                 c1 |-> qual.c1, pointer |-> qual.pointer, type |-> qual.type]
    BY <1>2, <2>2
  <2> QED
    BY <1>1, <2>1, <2>2, <2>3, ScriptWrites
<1>8. CASE StartStores
  <2>1. qual.pc = "up"
        /\ qual' = [pc |-> "resetA", load |-> qual.load, edits |-> qual.edits, c0 |-> qual.c0,
                    c1 |-> qual.c1, pointer |-> qual.pointer, type |-> qual.type]
    BY <1>2, <1>8 DEF StartStores, QualAt, QualGoes
  <2>2. physical' = [s \in Stores |-> [up |-> physical'[s].up, db |-> physical'[s].db]]
    <3>1. PICK down, graphs : RemovedStore = [up |-> down, db |-> graphs]
      BY DEF RemovedStore
    <3>2. PICK up : physical' = [s \in Stores |-> [RemovedStore EXCEPT !.up = up]]
      BY <1>8, Zenon DEF StartStores
    <3>3. [RemovedStore EXCEPT !.up = up] = [up |-> up, db |-> graphs]
      BY <3>1
    <3> QED
      BY <3>2, <3>3
  <2> QED
    BY <2>1, <2>2 DEF QualInv, QualShape, ScriptOrder, FirstCopy, SecondCopy, SecondDumpFresh,
       Serving, Promoted, Awaited, RolledBack
<1>9. CASE RemoveStores
  <2>1. qual' = [pc |-> "none", load |-> "done", edits |-> qual.edits, c0 |-> qual.c0,
                 c1 |-> qual.c1, pointer |-> qual.pointer, type |-> qual.type]
    BY <1>2, <1>9 DEF RemoveStores
  <2>2. physical' = [s \in Stores |-> [up |-> physical'[s].up, db |-> physical'[s].db]]
    <3>1. physical = [s \in Stores |-> [up |-> physical[s].up, db |-> physical[s].db]]
      BY DEF QualInv, QualShape
    <3>2. physical' = [s \in Stores |-> physical'[s]]
      BY <1>9, <3>1 DEF RemoveStores
    <3>3. ASSUME NEW s \in Stores
          PROVE  physical'[s] = [up |-> physical'[s].up, db |-> physical'[s].db]
      <4>1. physical'[s] = physical[s] \/ physical'[s] = RemovedStore
        BY <1>9, <3>1 DEF RemoveStores, Stores
      <4> QED
        BY <3>1, <4>1 DEF RemovedStore
    <3> QED
      BY <3>2, <3>3
  <2> QED
    BY <2>1, <2>2 DEF QualInv, QualShape, ScriptOrder, FirstCopy, SecondCopy, SecondDumpFresh,
       Serving, Promoted, Awaited, RolledBack
<1> QED
  BY <1>4, <1>5, <1>6, <1>7, <1>8, <1>9 DEF ScriptStep

LEMMA EditKeeps ==
    ASSUME QualInv, part' = part, RealEdits
    PROVE  QualInv'
<1>1. qual.pc = "edit" /\ UNCHANGED physical
  BY DEF RealEdits, QualAt
<1>2. /\ qual' = [qual EXCEPT !.edits = qual'.edits]
      /\ qual = [pc |-> qual.pc, load |-> qual.load, edits |-> qual.edits, c0 |-> qual.c0,
                 c1 |-> qual.c1, pointer |-> qual.pointer, type |-> qual.type]
  BY DEF RealEdits, QualInv, QualShape
<1>3. PICK edits : qual' = [pc |-> qual.pc, load |-> qual.load, edits |-> edits, c0 |-> qual.c0,
                            c1 |-> qual.c1, pointer |-> qual.pointer, type |-> qual.type]
  BY <1>2
<1>4. /\ qual'.pc = "edit" /\ qual'.load = qual.load /\ qual'.c0 = qual.c0 /\ qual'.c1 = qual.c1
      /\ qual'.type = qual.type /\ qual'.pointer = qual.pointer
  BY <1>1, <1>3
<1>5. Copy("a")' = Copy("a")
      /\ physical' = [s \in Stores |-> [up |-> physical'[s].up, db |-> physical'[s].db]]
  BY <1>1, <1>4, StoresKept
<1> QED
  BY <1>1, <1>3, <1>4, <1>5 DEF QualInv, QualShape, ScriptOrder, FirstCopy, SecondCopy,
     SecondDumpFresh, Serving, Promoted, Awaited, RolledBack

\* No other part has a script at work, so what it does to the wiki is nothing
\* to the second dump.
LEMMA OtherPartsKeep ==
    ASSUME QualInv, part' = part, UNCHANGED qualVars,
           part # "qualification" \/ UNCHANGED <<pages, contents, lastRcid>>
    PROVE  QualInv'
<1>1. qual' = qual /\ physical' = physical
  BY DEF qualVars
<1>2. Copy("a")' = Copy("a") /\ Copy("b")' = Copy("b")
  BY <1>1 DEF Copy, StoreClient
<1>3. qual.pc \in Awaited => Dump(Found(Entities))' = Dump(Found(Entities))
  BY DEF Dump, Found, QualInv, QualShape, Awaited, Promoted
<1>4. SecondDumpFresh'
  BY <1>1, <1>3 DEF QualInv, SecondDumpFresh
<1> QED
  BY <1>1, <1>2, <1>4 DEF QualInv, QualShape, ScriptOrder, FirstCopy, SecondCopy, RolledBack

\* The rebuild under edits promotes a whole copy of the wiki as it then is, and
\* answers from a whole copy of the first dump before and after
\* (jwb-m8-qualification).
THEOREM RebuildServesWhole == Spec => []ServesWholeDataset
<1>1. QualInv /\ [Next]_allVars => QualInv'
  <2> SUFFICES ASSUME QualInv, [Next]_allVars PROVE QualInv'
    OBVIOUS
  <2>1. CASE UNCHANGED allVars
    BY <2>1, OtherPartsKeep DEF allVars, datasetVars, dataVars, wikiVars
  <2>2. CASE part = "qualification" /\ part' = part /\ QualNext
    BY <2>2, ScriptKeeps, EditKeeps DEF QualNext
  <2>3. CASE /\ part' = part /\ UNCHANGED qualVars
             /\ part # "qualification" \/ UNCHANGED <<pages, contents, lastRcid>>
    BY <2>3, OtherPartsKeep
  <2> QED
    BY <2>1, <2>2, <2>3 DEF Next
<1> QED
  BY <1>1, QualInitInv, QualInvSuffices, PTL DEF Spec

-----------------------------------------------------------------------------
(***************************************************************************)
(* The canonical form of a finite set of triples.                          *)
(***************************************************************************)

IsTriple(t) == t = <<t[1], t[2], t[3]>>

\* Triples in their normal spelling, without a label in a literal.
Settled(t) ==
    /\ IsTriple(t) /\ ~IsMention(t[1]) /\ ~IsMention(t[3])
    /\ t[3][1] = "decimal" => t[3] = Decimal(t[3][2], "canonical")
Triples(lines) == IsFiniteSet(lines) /\ \A t \in lines : Settled(t)

Moved(x, f) == IF x \in DOMAIN f THEN f[x] ELSE x
MovedLine(t, f) == <<Moved(t[1], f), t[2], Moved(t[3], f)>>
Nodes(lines) == UNION {Ends(t) : t \in lines}

LEMMA TripleParts ==
    ASSUME NEW a, NEW b, NEW c, NEW d, NEW e
    PROVE  /\ [<<a, b, c>> EXCEPT ![1] = d, ![3] = e] = <<d, b, e>>
           /\ [<<a, b, c>> EXCEPT ![3] = d] = <<a, b, d>>
           /\ <<a, b, c>>[1] = a /\ <<a, b, c>>[2] = b /\ <<a, b, c>>[3] = c
OBVIOUS

LEMMA NormalOfTriple ==
    ASSUME NEW a, NEW p, NEW b
    PROVE  NormalizeLiteral(<<a, p, b>>)
             = <<a, p, IF b[1] = "decimal" THEN Decimal(b[2], "canonical") ELSE b>>
BY TripleParts DEF NormalizeLiteral

LEMMA SettledIsNormal ==
    ASSUME NEW t, Settled(t)
    PROVE  NormalizeLiteral(t) = t
<1>1. t = <<t[1], t[2], t[3]>> /\ (t[3][1] = "decimal" => t[3] = Decimal(t[3][2], "canonical"))
  BY DEF Settled, IsTriple
<1>2. NormalizeLiteral(<<t[1], t[2], t[3]>>)
        = <<t[1], t[2], IF t[3][1] = "decimal" THEN Decimal(t[3][2], "canonical") ELSE t[3]>>
  BY NormalOfTriple
<1> QED
  BY <1>1, <1>2

LEMMA TriplesAreNormal ==
    ASSUME NEW lines, Triples(lines)
    PROVE  NormalizeLiterals(lines) = lines
<1>1. \A t \in lines : NormalizeLiteral(t) = t
  BY SettledIsNormal DEF Triples
<1> QED
  BY <1>1 DEF NormalizeLiterals

\* Where no literal holds a label, the labels are the blank nodes.
LEMMA LabelsOfTriple ==
    ASSUME NEW t, ~IsMention(t[1]), ~IsMention(t[3])
    PROVE  Labels(Ends(t)) = {n \in Ends(t) : IsBlank(n)}
BY DEF Labels, Ends

LEMMA BlankNodesAre ==
    ASSUME NEW lines, Triples(lines)
    PROVE  /\ BlankNodes(lines) = {n \in Nodes(lines) : IsBlank(n)}
           /\ BlankNodes(lines) = Anonymous(lines)
<1>1. \A n \in Nodes(lines) : ~IsMention(n)
  BY DEF Nodes, Ends, Triples, Settled
<1>2. BlankNodes(lines) = Labels(Nodes(lines))
  BY DEF BlankNodes, Nodes
<1> QED
  BY <1>1, <1>2 DEF Labels, Anonymous, Nodes

LEMMA RelabelsTriple ==
    ASSUME NEW t, Settled(t), NEW f
    PROVE  RelabelLine(t, f) = MovedLine(t, f)
<1>1. RelabelLine(t, f) = [t EXCEPT ![1] = Moved(t[1], f), ![3] = Moved(t[3], f)]
  BY DEF RelabelLine, Settled, Moved
<1>2. t = <<t[1], t[2], t[3]>>
  BY DEF Settled, IsTriple
<1> HIDE DEF Settled
<1> QED
  BY <1>1, <1>2, TripleParts DEF MovedLine

LEMMA RenamesLines ==
    ASSUME NEW lines, Triples(lines), NEW f
    PROVE  Rename(lines, f) = {MovedLine(t, f) : t \in lines}
<1>1. ASSUME NEW t \in lines
      PROVE  [t EXCEPT ![1] = IF @ \in DOMAIN f THEN f[@] ELSE @,
                       ![3] = IF @ \in DOMAIN f THEN f[@] ELSE @] = MovedLine(t, f)
  BY TripleParts DEF Triples, Settled, IsTriple, MovedLine, Moved
<1> QED
  BY <1>1 DEF Rename

SeenBy(node, lines, colour) == [n \in BlankNodes(lines) |-> Seen(n, node, colour)]
View(t, node, lines, colour) == MovedLine(t, SeenBy(node, lines, colour))
LinesAt(node, lines) == {t \in lines : node \in Ends(t)}

Views(node, lines, colour) == {View(t, node, lines, colour) : t \in LinesAt(node, lines)}
TimesSeen(v, node, lines, colour) ==
    Cardinality({t \in LinesAt(node, lines) : View(t, node, lines, colour) = v})

LEMMA SignatureCounts ==
    ASSUME NEW lines, Triples(lines), NEW node \in BlankNodes(lines), NEW colour
    PROVE  Signature(node, lines, colour) =
             [v \in Views(node, lines, colour) |-> TimesSeen(v, node, lines, colour)]
<1> DEFINE view(t) == RelabelLine(NormalizeLiteral(t), SeenBy(node, lines, colour))
           own == {t \in lines : node \in Labels(Ends(t))}
<1>1. ASSUME NEW t \in lines
      PROVE  view(t) = View(t, node, lines, colour)
  BY SettledIsNormal, RelabelsTriple DEF Triples, View
<1>2. LinesAt(node, lines) \subseteq lines
  BY DEF LinesAt
<1>3. own = LinesAt(node, lines)
  <2>1. IsBlank(node)
    BY BlankNodesAre
  <2> QED
    BY <2>1, LabelsOfTriple DEF LinesAt, Triples, Settled
<1>4. Signature(node, lines, colour) =
        [v \in {view(t) : t \in own} |-> Cardinality({t \in own : view(t) = v})]
  BY DEF Signature, SeenBy
<1> HIDE DEF view, own
<1>5. {view(t) : t \in LinesAt(node, lines)} = {View(t, node, lines, colour) : t \in LinesAt(node, lines)}
  BY <1>1, <1>2
<1>6. ASSUME NEW v
      PROVE  {t \in LinesAt(node, lines) : view(t) = v}
               = {t \in LinesAt(node, lines) : View(t, node, lines, colour) = v}
  BY <1>1, <1>2
<1> QED
  BY <1>3, <1>4, <1>5, <1>6 DEF Views, TimesSeen

\* What Isomorphic asks of a bijection h.
Maps(h, l, r) ==
    /\ Triples(l) /\ Triples(r)
    /\ h \in Bijection(BlankNodes(l), BlankNodes(r)) /\ r = {MovedLine(t, h) : t \in l}

LEMMA NodesOfLines ==
    ASSUME NEW l, NEW t \in l
    PROVE  t[1] \in Nodes(l) /\ t[3] \in Nodes(l)
BY DEF Nodes, Ends

LEMMA MovedNodes ==
    ASSUME NEW l, NEW r, NEW h, Maps(h, l, r), NEW x \in Nodes(l)
    PROVE  /\ IsBlank(Moved(x, h)) <=> IsBlank(x)
           /\ IsBlank(x) => x \in BlankNodes(l) /\ Moved(x, h) = h[x]
           /\ ~IsBlank(x) => Moved(x, h) = x
           /\ \A y \in Nodes(l) : Moved(x, h) = Moved(y, h) => x = y
<1>1. DOMAIN h = BlankNodes(l) /\ \A a, b \in BlankNodes(l) : h[a] = h[b] => a = b
  BY Fun_BijectionProperties DEF Maps
<1>2. \A a \in BlankNodes(l) : IsBlank(h[a])
  <2>1. \A a \in BlankNodes(l) : h[a] \in BlankNodes(r)
    BY Fun_BijectionProperties DEF Maps
  <2> QED
    BY <2>1, BlankNodesAre DEF Maps
<1>3. \A y \in Nodes(l) : y \in BlankNodes(l) <=> IsBlank(y)
  BY BlankNodesAre DEF Maps
<1> QED
  BY <1>1, <1>2, <1>3 DEF Moved

LEMMA LinesMove ==
    ASSUME NEW l, NEW r, NEW h, Maps(h, l, r)
    PROVE  /\ \A t \in l : /\ MovedLine(t, h) \in r /\ IsTriple(t) /\ IsTriple(MovedLine(t, h))
                           /\ MovedLine(t, h)[1] = Moved(t[1], h) /\ MovedLine(t, h)[2] = t[2]
                           /\ MovedLine(t, h)[3] = Moved(t[3], h)
           /\ \A t, u \in l : MovedLine(t, h) = MovedLine(u, h) => t = u
           /\ \A u \in r : \E t \in l : u = MovedLine(t, h)
<1>1. ASSUME NEW t \in l
      PROVE  /\ MovedLine(t, h) \in r /\ IsTriple(t) /\ IsTriple(MovedLine(t, h))
             /\ MovedLine(t, h)[1] = Moved(t[1], h) /\ MovedLine(t, h)[2] = t[2]
             /\ MovedLine(t, h)[3] = Moved(t[3], h)
  BY DEF Maps, Triples, Settled, MovedLine, IsTriple
<1>2. ASSUME NEW t \in l, NEW u \in l, MovedLine(t, h) = MovedLine(u, h)
      PROVE  t = u
  <2>1. t[1] = u[1] /\ t[2] = u[2] /\ t[3] = u[3]
    BY <1>1, <1>2, MovedNodes, NodesOfLines
  <2>2. t = <<t[1], t[2], t[3]>> /\ u = <<u[1], u[2], u[3]>>
    BY <1>1 DEF IsTriple
  <2> QED
    BY <2>1, <2>2
<1>3. \A u \in r : \E t \in l : u = MovedLine(t, h)
  BY DEF Maps
<1> QED
  BY <1>1, <1>2, <1>3

\* Corresponding nodes with corresponding colours have one signature, unless a
\* label starts another one of its line.
LEMMA SignatureMoves ==
    ASSUME NEW l, NEW r, NEW h, Maps(h, l, r), NoPrefixes(l), NoPrefixes(r),
           NEW node \in BlankNodes(l), NEW cl, NEW cr, \A n \in BlankNodes(l) : cl[n] = cr[h[n]]
    PROVE  Signature(node, l, cl) = Signature(h[node], r, cr)
<1> DEFINE L == LinesAt(node, l)
           R == LinesAt(h[node], r)
<1>1. /\ node \in Nodes(l) /\ IsBlank(node) /\ Moved(node, h) = h[node]
      /\ h[node] \in BlankNodes(r) /\ IsBlank(h[node])
  <2>1. node \in Nodes(l) /\ IsBlank(node)
    BY BlankNodesAre DEF Maps
  <2>2. h[node] \in BlankNodes(r)
    BY Fun_BijectionProperties DEF Maps
  <2>3. IsBlank(h[node])
    BY <2>2, BlankNodesAre DEF Maps
  <2> QED
    BY <2>1, <2>2, <2>3, MovedNodes
<1>2. ASSUME NEW t \in L, NEW x \in Ends(t)
      PROVE  Moved(x, SeenBy(node, l, cl)) = Moved(Moved(x, h), SeenBy(h[node], r, cr))
  <2>1. t \in l /\ node \in Ends(t) /\ x \in Nodes(l)
    BY <1>2 DEF LinesAt, Nodes
  <2>2. /\ MovedLine(t, h) \in r /\ Moved(x, h) \in Ends(MovedLine(t, h))
        /\ h[node] \in Ends(MovedLine(t, h))
    BY <1>1, <1>2, <2>1, LinesMove DEF Ends
  <2>3. CASE IsBlank(x)
    <3>1. x \in BlankNodes(l) /\ Moved(x, h) = h[x] /\ h[x] \in BlankNodes(r) /\ IsBlank(h[x])
      <4>1. x \in BlankNodes(l) /\ Moved(x, h) = h[x]
        BY <2>1, <2>3, MovedNodes
      <4>2. h[x] \in BlankNodes(r)
        BY <4>1, Fun_BijectionProperties DEF Maps
      <4>3. IsBlank(h[x])
        BY <4>2, BlankNodesAre DEF Maps
      <4> QED
        BY <4>1, <4>2, <4>3
    <3>2. Seen(x, node, cl) = IF x = node THEN <<"@SELF">> ELSE <<"@", cl[x]>>
      <4>1. {x, node} \subseteq Labels(Ends(t))
        BY <1>1, <1>2, <2>1, <2>3 DEF Labels
      <4>2. {y \in LongerLabels : y[1] = x /\ y[2] = node} = {}
        BY <2>1, <4>1 DEF NoPrefixes
      <4> QED
        BY <4>2 DEF Seen
    <3>3. Seen(h[x], h[node], cr) = IF h[x] = h[node] THEN <<"@SELF">> ELSE <<"@", cr[h[x]]>>
      <4>1. {h[x], h[node]} \subseteq Labels(Ends(MovedLine(t, h)))
        BY <1>1, <2>2, <3>1 DEF Labels
      <4>2. {y \in LongerLabels : y[1] = h[x] /\ y[2] = h[node]} = {}
        BY <2>2, <4>1 DEF NoPrefixes
      <4> QED
        BY <4>2 DEF Seen
    <3>4. x = node <=> h[x] = h[node]
      BY <1>1, <2>1, <3>1, MovedNodes
    <3>5. Seen(x, node, cl) = Seen(h[x], h[node], cr)
      BY <3>1, <3>2, <3>3, <3>4
    <3> QED
      BY <3>1, <3>5 DEF Moved, SeenBy
  <2>4. CASE ~IsBlank(x)
    <3>1. Moved(x, h) = x /\ x \notin BlankNodes(l) /\ x \notin BlankNodes(r)
      BY <2>1, <2>4, MovedNodes, BlankNodesAre DEF Maps
    <3> QED
      BY <3>1 DEF Moved, SeenBy
  <2> QED
    BY <2>3, <2>4
<1>3. ASSUME NEW t \in L
      PROVE  View(t, node, l, cl) = View(MovedLine(t, h), h[node], r, cr)
  <2>1. t \in l /\ t[1] \in Ends(t) /\ t[3] \in Ends(t)
    BY <1>3 DEF LinesAt, Ends
  <2>2. /\ MovedLine(t, h)[1] = Moved(t[1], h) /\ MovedLine(t, h)[2] = t[2]
        /\ MovedLine(t, h)[3] = Moved(t[3], h)
    BY <2>1, LinesMove
  <2>3. \A f, u : MovedLine(u, f) = <<Moved(u[1], f), u[2], Moved(u[3], f)>>
    BY DEF MovedLine
  <2> HIDE DEF L, R
  <2>4. /\ Moved(t[1], SeenBy(node, l, cl)) = Moved(Moved(t[1], h), SeenBy(h[node], r, cr))
        /\ Moved(t[3], SeenBy(node, l, cl)) = Moved(Moved(t[3], h), SeenBy(h[node], r, cr))
    BY <1>2, <1>3, <2>1
  <2> QED
    BY <2>2, <2>3, <2>4 DEF View
<1>4. ASSUME NEW t \in l
      PROVE  t \in L <=> MovedLine(t, h) \in R
  BY <1>1, LinesMove, NodesOfLines, MovedNodes DEF LinesAt, Ends
<1>5. L \subseteq l /\ R \subseteq r
  BY DEF LinesAt
<1>6. {View(t, node, l, cl) : t \in L} = {View(t, h[node], r, cr) : t \in R}
  BY <1>3, <1>4, <1>5, LinesMove
<1>7. ASSUME NEW v
      PROVE  Cardinality({t \in L : View(t, node, l, cl) = v}) = Cardinality({t \in R : View(t, h[node], r, cr) = v})
  <2> DEFINE Lv == {t \in L : View(t, node, l, cl) = v}
             Rv == {t \in R : View(t, h[node], r, cr) = v}
             move == [t \in Lv |-> MovedLine(t, h)]
  <2>1. move \in [Lv -> Rv]
    BY <1>3, <1>4, <1>5
  <2>2. \A t, u \in Lv : move[t] = move[u] => t = u
    BY <1>5, LinesMove
  <2>3. \A u \in Rv : \E t \in Lv : move[t] = u
    BY <1>3, <1>4, <1>5, LinesMove
  <2>4. IsFiniteSet(Lv)
    <3>1. Lv \in SUBSET l /\ IsFiniteSet(l)
      BY <1>5 DEF Maps, Triples
    <3> QED
      BY <3>1, FS_Subset
  <2> HIDE DEF Lv, Rv, move
  <2>5. move \in Bijection(Lv, Rv)
    BY <2>1, <2>2, <2>3, Fun_IsBij
  <2>6. Cardinality(Rv) = Cardinality(Lv)
    BY <2>4, <2>5, FS_Bijection DEF ExistsBijection
  <2> QED
    BY <2>6 DEF Lv, Rv
<1>8. /\ Views(node, l, cl) = Views(h[node], r, cr)
      /\ \A v : TimesSeen(v, node, l, cl) = TimesSeen(v, h[node], r, cr)
  BY <1>6, <1>7 DEF Views, TimesSeen
<1>9. Triples(l) /\ Triples(r)
  BY DEF Maps
<1>10. /\ Signature(node, l, cl) = [v \in Views(node, l, cl) |-> TimesSeen(v, node, l, cl)]
       /\ Signature(h[node], r, cr) = [v \in Views(h[node], r, cr) |-> TimesSeen(v, h[node], r, cr)]
  BY <1>1, <1>9, SignatureCounts
<1> QED
  BY <1>8, <1>10

-----------------------------------------------------------------------------
\* The ranks of a finite set of hashes are numbers, and depend on the set only.
LEMMA RanksAreNumbers ==
    ASSUME NEW hashes, IsFiniteSet(hashes)
    PROVE  \A hash \in hashes : Rank(hashes)[hash] \in Nat
<1> DEFINE n == Cardinality(hashes)
           order == SetToSeq(hashes)
<1>1. n \in Nat /\ ExistsBijection(1..n, hashes)
  BY FS_CardinalityType
<1>2. PICK f : f \in Bijection(1..n, hashes)
  BY <1>1 DEF ExistsBijection
<1>3. f \in [1..n -> hashes] /\ IsInjective(f)
  BY <1>2, Fun_BijectionProperties DEF Injection
<1>4. order \in [1..n -> hashes] /\ IsInjective(order)
  BY <1>3 DEF SetToSeq
<1> HIDE DEF n, order
<1>5. order \in Injection(1..n, hashes)
  BY <1>4 DEF Injection
<1>6. Cardinality(1..n) = n
  BY <1>1, FS_Interval
<1>7. order \in Surjection(1..n, hashes)
  BY <1>5, <1>6, FS_Injection DEF n
<1>8. ASSUME NEW hash \in hashes
      PROVE  Rank(hashes)[hash] \in Nat
  <2>1. \E i \in 1..n : order[i] = hash
    BY <1>7 DEF Surjection
  <2>2. Rank(hashes)[hash] = CHOOSE i \in 1..n : order[i] = hash
    BY <1>4 DEF Rank, order
  <2> QED
    BY <1>1, <2>1, <2>2
<1> QED
  BY <1>8

LEMMA RangeFinite ==
    ASSUME NEW f, IsFiniteSet(DOMAIN f)
    PROVE  IsFiniteSet(Range(f))
<1> DEFINE g == [x \in DOMAIN f |-> f[x]]
<1>1. g \in Surjection(DOMAIN f, Range(f))
  BY DEF Surjection, Range
<1> QED
  BY <1>1, FS_Surjection

\* One round of colours.
LEMMA RefineMoves ==
    ASSUME NEW l, NEW r, NEW h, Maps(h, l, r), NoPrefixes(l), NoPrefixes(r), NEW cl, NEW cr,
           DOMAIN cl = BlankNodes(l), DOMAIN cr = BlankNodes(r),
           \A n \in BlankNodes(l) : cl[n] = cr[h[n]]
    PROVE  \A n \in BlankNodes(l) : Refine(l, cl)[n] = Refine(r, cr)[h[n]]
<1> DEFINE sl == [n \in DOMAIN cl |-> Signature(n, l, cl)]
           sr == [n \in DOMAIN cr |-> Signature(n, r, cr)]
<1>1. /\ \A n \in BlankNodes(l) : h[n] \in BlankNodes(r)
      /\ \A m \in BlankNodes(r) : \E n \in BlankNodes(l) : h[n] = m
  BY Fun_BijectionProperties DEF Maps
<1>2. \A n \in BlankNodes(l) : sl[n] = sr[h[n]]
  BY <1>1, SignatureMoves
<1>3. DOMAIN sl = BlankNodes(l) /\ DOMAIN sr = BlankNodes(r)
  OBVIOUS
<1>4. /\ Refine(l, cl) = [n \in DOMAIN cl |-> Rank(Range(sl))[sl[n]]]
      /\ Refine(r, cr) = [n \in DOMAIN cr |-> Rank(Range(sr))[sr[n]]]
  BY DEF Refine
<1> HIDE DEF sl, sr
<1>5. Range(sl) = Range(sr)
  BY <1>1, <1>2, <1>3 DEF Range
<1> QED
  BY <1>1, <1>2, <1>4, <1>5

LEMMA RefineNumbers ==
    ASSUME NEW lines, NEW colour, IsFiniteSet(DOMAIN colour)
    PROVE  Refine(lines, colour) \in [DOMAIN colour -> Nat]
<1> DEFINE s == [n \in DOMAIN colour |-> Signature(n, lines, colour)]
<1>1. IsFiniteSet(Range(s)) /\ \A n \in DOMAIN colour : s[n] \in Range(s)
  BY RangeFinite DEF Range
<1>2. Refine(lines, colour) = [n \in DOMAIN colour |-> Rank(Range(s))[s[n]]]
  BY DEF Refine
<1> HIDE DEF s
<1> QED
  BY <1>1, <1>2, RanksAreNumbers

\* The colours after each round.
ColourRounds(lines) ==
    LET nodes == BlankNodes(lines)
        rounds == Cardinality(nodes) + 2
        colour[round \in 0..rounds] ==
            IF round = 0 THEN [n \in nodes |-> 0] ELSE Refine(lines, colour[round - 1])
    IN  colour

ColourStep(lines, colour, m) ==
    colour = [round \in 0..m |-> IF round = 0 THEN [n \in BlankNodes(lines) |-> 0]
                                 ELSE Refine(lines, colour[round - 1])]

LEMMA RoundsExist ==
    ASSUME NEW lines, NEW m \in Nat
    PROVE  \E colour : ColourStep(lines, colour, m)
<1> DEFINE Bad == {k \in Nat : ~\E colour : ColourStep(lines, colour, k)}
<1> SUFFICES ASSUME Bad # {} PROVE FALSE
  OBVIOUS
<1>1. PICK k \in Bad : \A j \in Bad : k <= j
  BY LeastNumber
<1>2. CASE k = 0
  <2>1. ColourStep(lines, [round \in 0..0 |-> [n \in BlankNodes(lines) |-> 0]], 0)
    BY DEF ColourStep
  <2> QED
    BY <1>1, <1>2, <2>1
<1>3. CASE k # 0
  <2>1. k - 1 \in Nat /\ k - 1 \notin Bad
    BY <1>1, <1>3
  <2>2. PICK before : ColourStep(lines, before, k - 1)
    BY <2>1
  <2> DEFINE colour == [round \in 0..k |-> IF round = k THEN Refine(lines, before[k - 1]) ELSE before[round]]
  <2>3. ASSUME NEW round \in 0..k
        PROVE  colour[round] = IF round = 0 THEN [n \in BlankNodes(lines) |-> 0]
                               ELSE Refine(lines, colour[round - 1])
    <3>1. CASE round = k
      BY <1>3, <2>1, <3>1
    <3>2. CASE round # k
      <4>1. round \in 0..(k - 1)
        BY <1>1, <3>2
      <4>2. before[round] = IF round = 0 THEN [n \in BlankNodes(lines) |-> 0]
                            ELSE Refine(lines, before[round - 1])
        BY <2>2, <4>1 DEF ColourStep
      <4>3. round # 0 => round - 1 \in 0..k /\ round - 1 # k
        BY <4>1
      <4> QED
        BY <3>2, <4>2, <4>3
    <3> QED
      BY <3>1, <3>2
  <2>4. ColourStep(lines, colour, k)
    BY <2>3 DEF ColourStep
  <2> QED
    BY <1>1, <2>4
<1> QED
  BY <1>2, <1>3

LEMMA RoundsOfColours ==
    ASSUME NEW lines, IsFiniteSet(BlankNodes(lines))
    PROVE  LET m == Cardinality(BlankNodes(lines)) + 2
               colour == ColourRounds(lines)
           IN  /\ m \in Nat /\ m # 0
               /\ Colours(lines) = colour[m]
               /\ colour[0] = [n \in BlankNodes(lines) |-> 0]
               /\ \A round \in 1..m : colour[round] = Refine(lines, colour[round - 1])
<1> DEFINE m == Cardinality(BlankNodes(lines)) + 2
           colour == ColourRounds(lines)
<1>1. m \in Nat /\ m # 0
  BY FS_CardinalityType
<1>2. colour = CHOOSE c : ColourStep(lines, c, m)
  BY DEF ColourRounds, ColourStep
<1>3. Colours(lines) = colour[m]
  BY DEF Colours, ColourRounds
<1> HIDE DEF colour, m
<1>4. ColourStep(lines, colour, m)
  BY <1>1, <1>2, RoundsExist
<1>5. /\ colour[0] = [n \in BlankNodes(lines) |-> 0]
      /\ \A round \in 1..m : colour[round] = Refine(lines, colour[round - 1])
  BY <1>1, <1>4 DEF ColourStep
<1> QED
  BY <1>1, <1>3, <1>5 DEF colour, m

LEMMA ImageFinite ==
    ASSUME NEW S, NEW T, IsFiniteSet(S), NEW f \in [S -> T], \A y \in T : \E x \in S : f[x] = y
    PROVE  IsFiniteSet(T)
BY FS_Surjection, Fun_IsSurj

LEMMA BlankNodesFinite ==
    ASSUME NEW lines, IsFiniteSet(lines)
    PROVE  IsFiniteSet(BlankNodes(lines))
<1> DEFINE ends == [t \in lines |-> Ends(t)]
           E == {Ends(t) : t \in lines}
<1>1. ends \in Surjection(lines, E)
  BY DEF Surjection
<1>2. IsFiniteSet(E)
  BY <1>1, FS_Surjection
<1>3. \A S \in E : IsFiniteSet(S)
  <2>1. ASSUME NEW t \in lines PROVE IsFiniteSet(Ends(t))
    <3>1. Ends(t) = {t[1]} \cup {t[3]}
      BY DEF Ends
    <3>2. IsFiniteSet({t[1]})
      BY FS_Singleton
    <3>3. IsFiniteSet({t[1]} \cup {t[3]})
      BY <3>2, FS_AddElement
    <3> QED
      BY <3>1, <3>3
  <2> QED
    BY <2>1
<1>4. IsFiniteSet(UNION E)
  BY <1>2, <1>3, FS_UNION
<1> DEFINE U == UNION E
           blank == {n \in U : IsBlank(n)}
           mentions == {n \in U : IsMention(n)}
           mentioned == {n[2] : n \in mentions}
           label == [n \in mentions |-> n[2]]
<1>5. BlankNodes(lines) = blank \cup mentioned
  BY DEF BlankNodes, Labels
<1>6. IsFiniteSet(U)
  BY <1>4
<1> HIDE DEF U, E
<1>7. IsFiniteSet(blank) /\ IsFiniteSet(mentions)
  <2>1. blank \in SUBSET U /\ mentions \in SUBSET U
    OBVIOUS
  <2> HIDE DEF blank, mentions
  <2> QED
    BY <1>6, <2>1, FS_Subset
<1>8. label \in [mentions -> mentioned] /\ \A y \in mentioned : \E n \in mentions : label[n] = y
  OBVIOUS
<1> HIDE DEF label, mentioned, mentions, blank
<1>9. IsFiniteSet(mentioned)
  BY <1>7, <1>8, ImageFinite
<1> QED
  BY <1>5, <1>7, <1>9, FS_Union

\* The colours are numbers, whatever the labels.
LEMMA ColoursAreNumbers ==
    ASSUME NEW lines, IsFiniteSet(lines)
    PROVE  Colours(lines) \in [BlankNodes(lines) -> Nat]
<1> DEFINE m == Cardinality(BlankNodes(lines)) + 2
           colour == ColourRounds(lines)
           Bad == {k \in 0..m : colour[k] \notin [BlankNodes(lines) -> Nat]}
<1>0. IsFiniteSet(BlankNodes(lines))
  BY BlankNodesFinite
<1>1. /\ m \in Nat /\ m # 0 /\ Colours(lines) = colour[m]
      /\ colour[0] = [n \in BlankNodes(lines) |-> 0]
      /\ \A round \in 1..m : colour[round] = Refine(lines, colour[round - 1])
  BY <1>0, RoundsOfColours
<1> HIDE DEF colour, m
<1>2. ASSUME Bad # {} PROVE FALSE
  <2>0. Bad \in SUBSET Nat
    BY <1>1
  <2> HIDE DEF Bad
  <2>1. PICK k \in Bad : \A j \in Bad : k <= j
    BY <1>2, <2>0, LeastNumber
  <2> USE DEF Bad
  <2>2. k # 0
    BY <1>1, <2>1
  <2>3. k \in 1..m /\ k - 1 \in 0..m /\ k - 1 \notin Bad
    BY <1>1, <2>1, <2>2
  <2>4. colour[k - 1] \in [BlankNodes(lines) -> Nat]
    BY <2>3
  <2>5. colour[k] \in [BlankNodes(lines) -> Nat]
    BY <1>0, <1>1, <2>3, <2>4, RefineNumbers
  <2> QED
    BY <2>1, <2>5
<1> QED
  BY <1>1, <1>2

LEMMA SameSize ==
    ASSUME NEW S, NEW T, NEW f \in Bijection(S, T), IsFiniteSet(S)
    PROVE  IsFiniteSet(T) /\ Cardinality(S) = Cardinality(T)
BY FS_Bijection DEF ExistsBijection

\* Isomorphic graphs are coloured alike, if no label starts another one of its line.
LEMMA ColoursMove ==
    ASSUME NEW l, NEW r, NEW h, Maps(h, l, r), NoPrefixes(l), NoPrefixes(r)
    PROVE  \A n \in BlankNodes(l) : Colours(l)[n] = Colours(r)[h[n]]
<1> DEFINE m == Cardinality(BlankNodes(l)) + 2
           cl == ColourRounds(l)
           cr == ColourRounds(r)
           Alike(k) == /\ DOMAIN cl[k] = BlankNodes(l) /\ DOMAIN cr[k] = BlankNodes(r)
                       /\ \A n \in BlankNodes(l) : cl[k][n] = cr[k][h[n]]
           Bad == {k \in 0..m : ~Alike(k)}
<1>0. /\ IsFiniteSet(l) /\ IsFiniteSet(r) /\ h \in Bijection(BlankNodes(l), BlankNodes(r))
      /\ \A n \in BlankNodes(l) : h[n] \in BlankNodes(r)
  BY Fun_BijectionProperties DEF Maps, Triples
<1>1. IsFiniteSet(BlankNodes(l)) /\ IsFiniteSet(BlankNodes(r))
      /\ Cardinality(BlankNodes(l)) = Cardinality(BlankNodes(r))
  BY <1>0, BlankNodesFinite, SameSize
<1>2. /\ m \in Nat /\ m # 0 /\ Colours(l) = cl[m]
      /\ cl[0] = [n \in BlankNodes(l) |-> 0]
      /\ \A round \in 1..m : cl[round] = Refine(l, cl[round - 1])
  BY <1>1, RoundsOfColours
<1>3. /\ Colours(r) = cr[m]
      /\ cr[0] = [n \in BlankNodes(r) |-> 0]
      /\ \A round \in 1..m : cr[round] = Refine(r, cr[round - 1])
  BY <1>1, RoundsOfColours
<1> HIDE DEF cl, cr, m
<1>4. ASSUME Bad # {} PROVE FALSE
  <2>0. Bad \in SUBSET Nat
    BY <1>2
  <2> HIDE DEF Bad
  <2>1. PICK k \in Bad : \A j \in Bad : k <= j
    BY <1>4, <2>0, LeastNumber
  <2> USE DEF Bad
  <2>2. k # 0
    BY <1>0, <1>2, <1>3, <2>1
  <2>3. k \in 1..m /\ k - 1 \in 0..m /\ k - 1 \notin Bad
    BY <1>2, <2>1, <2>2
  <2>4. Alike(k - 1)
    BY <2>3
  <2>5. /\ cl[k] = Refine(l, cl[k - 1]) /\ cr[k] = Refine(r, cr[k - 1])
    BY <1>2, <1>3, <2>3
  <2>6. \A n \in BlankNodes(l) : cl[k][n] = cr[k][h[n]]
    BY <2>4, <2>5, RefineMoves
  <2>7. DOMAIN cl[k] = BlankNodes(l) /\ DOMAIN cr[k] = BlankNodes(r)
    BY <2>4, <2>5 DEF Refine
  <2> QED
    BY <2>1, <2>6, <2>7
<1>5. Alike(m)
  BY <1>2, <1>4
<1> QED
  BY <1>2, <1>3, <1>5

-----------------------------------------------------------------------------
\* An isomorphism can be followed back.
LEMMA MapsBack ==
    ASSUME NEW l, NEW r, NEW h, Maps(h, l, r)
    PROVE  \E back : Maps(back, r, l) /\ \A n \in BlankNodes(l) : back[h[n]] = n
<1> DEFINE back == Inverse(h, BlankNodes(l), BlankNodes(r))
<1>1. /\ back \in Bijection(BlankNodes(r), BlankNodes(l))
      /\ \A n \in BlankNodes(l) : back[h[n]] = n
      /\ \A n \in BlankNodes(l) : h[n] \in BlankNodes(r)
  BY Fun_BijInverse, Fun_BijectionProperties DEF Maps
<1>2. DOMAIN back = BlankNodes(r)
  BY DEF Inverse
<1> HIDE DEF back
<1>3. ASSUME NEW t \in l
      PROVE  MovedLine(MovedLine(t, h), back) = t
  <2>1. ASSUME NEW x \in Nodes(l)
        PROVE  Moved(Moved(x, h), back) = x
    <3>1. CASE IsBlank(x)
      BY <1>1, <1>2, <3>1, MovedNodes DEF Moved
    <3>2. CASE ~IsBlank(x)
      <4>1. Moved(x, h) = x /\ x \notin DOMAIN back
        BY <1>2, <3>2, MovedNodes, BlankNodesAre DEF Maps
      <4> QED
        BY <4>1 DEF Moved
    <3> QED
      BY <3>1, <3>2
  <2>2. /\ IsTriple(t) /\ MovedLine(t, h)[1] = Moved(t[1], h) /\ MovedLine(t, h)[2] = t[2]
        /\ MovedLine(t, h)[3] = Moved(t[3], h)
    BY LinesMove
  <2>3. MovedLine(MovedLine(t, h), back) = <<t[1], t[2], t[3]>>
    BY <2>1, <2>2, NodesOfLines DEF MovedLine
  <2> QED
    BY <2>2, <2>3 DEF IsTriple
<1>4. l = {MovedLine(u, back) : u \in r}
  BY <1>3, LinesMove
<1>5. Maps(back, r, l)
  BY <1>1, <1>4, LinesMove DEF Maps
<1> QED
  BY <1>1, <1>5

\* The names of a serialization.
Named(f) == [n \in DOMAIN f |-> <<"c14n", f[n]>>]
Forms(lines) == {Serialize(lines, f) : f \in Numberings(Colours(lines))}

LEMMA NumberingOf ==
    ASSUME NEW lines, IsFiniteSet(lines), NEW f
    PROVE  f \in Numberings(Colours(lines)) <=>
             /\ f \in Bijection(BlankNodes(lines), 1..Cardinality(BlankNodes(lines)))
             /\ \A a, b \in BlankNodes(lines) :
                   Colours(lines)[a] < Colours(lines)[b] => f[a] < f[b]
<1>1. DOMAIN Colours(lines) = BlankNodes(lines)
  BY ColoursAreNumbers
<1> QED
  BY <1>1 DEF Numberings

LEMMA SerializedLines ==
    ASSUME NEW lines, Triples(lines), NEW f
    PROVE  Serialize(lines, f) = {MovedLine(t, Named(f)) : t \in lines}
<1>1. \A t \in lines : RelabelLine(t, Named(f)) = MovedLine(t, Named(f))
  BY RelabelsTriple DEF Triples
<1>2. Serialize(lines, f) = {RelabelLine(t, Named(f)) : t \in lines}
  BY TriplesAreNormal DEF Serialize, Named
<1> QED
  BY <1>1, <1>2

LEMMA NumberingIsFunction ==
    ASSUME NEW lines, IsFiniteSet(lines), NEW f \in Numberings(Colours(lines))
    PROVE  f \in [BlankNodes(lines) -> 1..Cardinality(BlankNodes(lines))]
<1>1. f \in Bijection(BlankNodes(lines), 1..Cardinality(BlankNodes(lines)))
  BY NumberingOf
<1> QED
  BY <1>1, Fun_BijectionProperties

\* A numbering of one graph serializes the other to the same lines.
LEMMA NumberingMoves ==
    ASSUME NEW l, NEW r, NEW h, Maps(h, l, r), NoPrefixes(l), NoPrefixes(r), NEW f \in Numberings(Colours(r))
    PROVE  LET g == [n \in BlankNodes(l) |-> f[h[n]]]
           IN  g \in Numberings(Colours(l)) /\ Serialize(l, g) = Serialize(r, f)
<1> DEFINE g == [n \in BlankNodes(l) |-> f[h[n]]]
           N == Cardinality(BlankNodes(l))
<1>1. /\ Triples(l) /\ Triples(r) /\ IsFiniteSet(l) /\ IsFiniteSet(r)
      /\ h \in Bijection(BlankNodes(l), BlankNodes(r))
      /\ \A n \in BlankNodes(l) : h[n] \in BlankNodes(r)
  BY Fun_BijectionProperties DEF Maps, Triples
<1>2. Cardinality(BlankNodes(r)) = N
  BY <1>1, BlankNodesFinite, SameSize
<1>3. /\ f \in Bijection(BlankNodes(r), 1..N)
      /\ \A a, b \in BlankNodes(r) : Colours(r)[a] < Colours(r)[b] => f[a] < f[b]
  BY <1>1, <1>2, NumberingOf
<1>4. DOMAIN f = BlankNodes(r)
  BY <1>3, Fun_BijectionProperties
<1> HIDE DEF N
<1>5. g \in Bijection(BlankNodes(l), 1..N)
  BY <1>1, <1>3, Fun_BijTransitive
<1>6. \A a, b \in BlankNodes(l) : Colours(l)[a] < Colours(l)[b] => g[a] < g[b]
  BY <1>1, <1>3, ColoursMove
<1>7. g \in Numberings(Colours(l))
  BY <1>1, <1>5, <1>6, NumberingOf DEF N
<1>8. ASSUME NEW x \in Nodes(l)
      PROVE  Moved(x, Named(g)) = Moved(Moved(x, h), Named(f))
  <2>1. CASE IsBlank(x)
    BY <1>1, <1>4, <2>1, MovedNodes DEF Moved, Named
  <2>2. CASE ~IsBlank(x)
    <3>1. Moved(x, h) = x /\ x \notin BlankNodes(l) /\ x \notin BlankNodes(r)
      BY <1>1, <2>2, MovedNodes, BlankNodesAre
    <3> QED
      BY <1>4, <3>1 DEF Moved, Named
  <2> QED
    BY <2>1, <2>2
<1> HIDE DEF g
<1>9. \A t \in l : MovedLine(t, Named(g)) = MovedLine(MovedLine(t, h), Named(f))
  BY <1>8, LinesMove, NodesOfLines DEF MovedLine
<1>10. {MovedLine(t, Named(g)) : t \in l} = {MovedLine(u, Named(f)) : u \in r}
  BY <1>9, LinesMove
<1>11. Serialize(l, g) = Serialize(r, f)
  BY <1>1, <1>10, SerializedLines
<1> QED
  BY <1>7, <1>11 DEF g

LEMMA FormsInclude ==
    ASSUME NEW l, NEW r, NEW h, Maps(h, l, r), NoPrefixes(l), NoPrefixes(r)
    PROVE  Forms(r) \subseteq Forms(l)
<1> SUFFICES ASSUME NEW f \in Numberings(Colours(r))
             PROVE  Serialize(r, f) \in Forms(l)
  BY DEF Forms
<1> DEFINE moved == [n \in BlankNodes(l) |-> f[h[n]]]
<1>1. moved \in Numberings(Colours(l)) /\ Serialize(l, moved) = Serialize(r, f)
  BY NumberingMoves
<1> HIDE DEF moved
<1> QED
  BY <1>1 DEF Forms

\* Isomorphic graphs have one canonical form.
LEMMA FormsMove ==
    ASSUME NEW l, NEW r, NEW h, Maps(h, l, r), NoPrefixes(l), NoPrefixes(r)
    PROVE  CanonicalForm(l) = CanonicalForm(r)
<1>1. PICK back : Maps(back, r, l)
  BY MapsBack
<1>2. Forms(l) = Forms(r)
  BY <1>1, FormsInclude
<1> QED
  BY <1>2, Zenon DEF CanonicalForm, Forms

\* The nodes of a finite set can be numbered in the order of their colours.
LEMMA SortedNumbering ==
    ASSUME NEW S, IsFiniteSet(S), NEW c \in [S -> Nat]
    PROVE  \E f \in Bijection(S, 1..Cardinality(S)) : \A a, b \in S : c[a] < c[b] => f[a] < f[b]
<1> DEFINE Sorts(f, T) == /\ f \in Bijection(T, 1..Cardinality(T))
                          /\ \A a, b \in T : c[a] < c[b] => f[a] < f[b]
           Sortable(T) == \E f : Sorts(f, T)
           Bad == {n \in Nat : \E T \in SUBSET S : Cardinality(T) = n /\ ~Sortable(T)}
<1>1. \A T \in SUBSET S : IsFiniteSet(T) /\ Cardinality(T) \in Nat
  BY FS_Subset, FS_CardinalityType
<1>2. ASSUME Bad # {} PROVE FALSE
  <2>0. Bad \in SUBSET Nat
    OBVIOUS
  <2> HIDE DEF Bad
  <2>1. PICK n \in Bad : \A j \in Bad : n <= j
    BY <1>2, <2>0, LeastNumber
  <2> USE DEF Bad
  <2>2. PICK T \in SUBSET S : Cardinality(T) = n /\ ~Sortable(T)
    BY <2>1
  <2>3. IsFiniteSet(T) /\ n \in Nat
    BY <1>1, <2>1
  <2>4. CASE T = {}
    <3>1. Cardinality(T) = 0
      BY <2>4, FS_EmptySet
    <3> DEFINE f == [x \in T |-> x]
    <3>2. f \in Bijection(T, 1..0)
      BY <2>4 DEF Bijection, Injection, Surjection, IsInjective
    <3>3. Sorts(f, T)
      BY <2>4, <3>1, <3>2
    <3> QED
      BY <2>2, <3>3
  <2>5. CASE T # {}
    <3> DEFINE K == {c[x] : x \in T}
    <3>1. K \in SUBSET Nat /\ K # {}
      BY <2>5
    <3> HIDE DEF K
    <3>2. PICK least \in K : \A k \in K : least <= k
      BY <3>1, LeastNumber
    <3>3. PICK x \in T : c[x] = least
      BY <3>2 DEF K
    <3>4. \A a \in T : c[x] <= c[a]
      BY <3>2, <3>3 DEF K
    <3> DEFINE R == T \ {x}
    <3>5. R \in SUBSET S /\ Cardinality(R) = n - 1 /\ n - 1 \in Nat
      <4>1. Cardinality(R) = n - 1
        BY <2>2, <2>3, <3>3, FS_RemoveElement
      <4>2. R \in SUBSET S
        BY <2>2
      <4>3. Cardinality(R) \in Nat
        BY <1>1, <4>2
      <4> QED
        BY <4>1, <4>2, <4>3
    <3>6. Sortable(R)
      <4>1. n - 1 \notin Bad
        BY <2>1, <2>3
      <4> QED
        BY <3>5, <4>1
    <3>7. PICK before : Sorts(before, R)
      BY <3>6
    <3> DEFINE f == [a \in T |-> IF a = x THEN 1 ELSE before[a] + 1]
    <3>8. /\ before \in [R -> 1..(n - 1)]
          /\ \A a, b \in R : before[a] = before[b] => a = b
          /\ \A t \in 1..(n - 1) : \E a \in R : before[a] = t
      <4>1. before \in Bijection(R, 1..(n - 1))
        BY <3>5, <3>7
      <4> HIDE DEF R
      <4> QED
        BY <4>1 DEF Bijection, Injection, Surjection, IsInjective
    <3>9. f \in [T -> 1..n]
      BY <2>3, <3>5, <3>8
    <3>10. ASSUME NEW a \in T, NEW b \in T, f[a] = f[b]
           PROVE  a = b
      <4>1. ASSUME NEW e \in R
            PROVE  before[e] \in Nat /\ before[e] >= 1 /\ f[e] = before[e] + 1
        BY <3>8, <4>1
      <4>2. f[x] = 1
        OBVIOUS
      <4> HIDE DEF f
      <4>3. CASE a \in R /\ b \in R
        <5>1. before[a] = before[b]
          BY <3>10, <4>1, <4>3
        <5> QED
          BY <3>8, <4>3, <5>1
      <4>4. CASE a = x \/ b = x
        <5>1. a \notin R /\ b \notin R
          BY <3>10, <4>1, <4>2, <4>4
        <5> QED
          BY <4>4, <5>1
      <4> QED
        BY <4>3, <4>4
    <3>11. ASSUME NEW t \in 1..n
           PROVE  \E a \in T : f[a] = t
      <4>1. CASE t = 1
        BY <4>1
      <4>2. CASE t # 1
        <5>1. t - 1 \in 1..(n - 1)
          BY <2>3, <4>2
        <5>2. PICK a \in R : before[a] = t - 1
          BY <3>8, <5>1
        <5> QED
          BY <5>2
      <4> QED
        BY <4>1, <4>2
    <3>12. f \in Bijection(T, 1..n)
      <4> HIDE DEF f
      <4> QED
        BY <3>9, <3>10, <3>11, Fun_IsBij
    <3>13. ASSUME NEW a \in T, NEW b \in T, c[a] < c[b]
           PROVE  f[a] < f[b]
      <4>1. c[a] \in Nat /\ c[b] \in Nat /\ c[x] \in Nat
        BY <2>2
      <4>2. b # x
        BY <3>4, <3>13, <4>1
      <4>3. b \in R /\ before[b] \in 1..(n - 1)
        BY <3>8, <4>2
      <4>4. CASE a = x
        BY <4>2, <4>3, <4>4
      <4>5. CASE a # x
        <5>1. a \in R /\ before[a] < before[b] /\ before[a] \in 1..(n - 1)
          BY <3>7, <3>8, <3>13, <4>3, <4>5
        <5> QED
          BY <4>2, <4>3, <4>5, <5>1
      <4> QED
        BY <4>4, <4>5
    <3> HIDE DEF f
    <3>14. Sorts(f, T)
      BY <2>2, <3>12, <3>13
    <3> QED
      BY <2>2, <3>14
  <2> QED
    BY <2>4, <2>5
<1>3. Sortable(S)
  BY <1>1, <1>2
<1> QED
  BY <1>3

LEMMA NumberingExists ==
    ASSUME NEW lines, IsFiniteSet(lines)
    PROVE  Numberings(Colours(lines)) # {}
BY BlankNodesFinite, ColoursAreNumbers, SortedNumbering, NumberingOf

LEMMA FormIsSerialized ==
    ASSUME NEW lines, IsFiniteSet(lines)
    PROVE  \E f \in Numberings(Colours(lines)) : CanonicalForm(lines) = Serialize(lines, f)
<1>1. CanonicalForm(lines) = CHOOSE least \in Forms(lines) : TRUE
  BY DEF CanonicalForm, Forms
<1>2. Forms(lines) # {}
  BY NumberingExists DEF Forms
<1>3. CanonicalForm(lines) \in Forms(lines)
  BY <1>1, <1>2
<1> QED
  BY <1>3 DEF Forms

-----------------------------------------------------------------------------
\* Isomorphic graphs have as many numberings, and so reach the limit together.
LEMMA NumberingsFinite ==
    ASSUME NEW lines, IsFiniteSet(lines)
    PROVE  IsFiniteSet(Numberings(Colours(lines)))
<1> DEFINE S == BlankNodes(lines)
           T == 1..Cardinality(S)
           Q == Numberings(Colours(lines))
           graph == [f \in Q |-> {<<a, f[a]>> : a \in S}]
<1>1. IsFiniteSet(S) /\ IsFiniteSet(T)
  <2>1. IsFiniteSet(S)
    BY BlankNodesFinite
  <2> HIDE DEF S
  <2>2. Cardinality(S) \in Nat
    BY <2>1, FS_CardinalityType
  <2> QED
    BY <2>1, <2>2, FS_Interval
<1>2. IsFiniteSet(SUBSET (S \X T))
  BY <1>1, FS_Product, FS_SUBSET
<1>3. ASSUME NEW f \in Q
      PROVE  f \in [S -> T]
  <2>1. f \in Bijection(S, T)
    BY NumberingOf
  <2> HIDE DEF S, T, Q
  <2> QED
    BY <2>1, Fun_BijectionProperties
<1> HIDE DEF S, T, Q
<1>4. graph \in [Q -> SUBSET (S \X T)]
  BY <1>3
<1>5. ASSUME NEW f \in Q, NEW g \in Q, graph[f] = graph[g]
      PROVE  f = g
  <2>1. {<<a, f[a]>> : a \in S} = {<<a, g[a]>> : a \in S}
    BY <1>5
  <2>2. ASSUME NEW a \in S PROVE f[a] = g[a]
    <3>1. <<a, f[a]>> \in {<<b, g[b]>> : b \in S}
      BY <2>1
    <3> QED
      BY <3>1
  <2> QED
    BY <1>3, <2>2
<1>6. graph \in Injection(Q, SUBSET (S \X T))
  <2> HIDE DEF graph
  <2> QED
    BY <1>4, <1>5, Fun_IsInj
<1> QED
  BY <1>2, <1>6, FS_Injection DEF Q

LEMMA NumberingsMove ==
    ASSUME NEW l, NEW r, NEW h, Maps(h, l, r), NoPrefixes(l), NoPrefixes(r)
    PROVE  Cardinality(Numberings(Colours(l))) = Cardinality(Numberings(Colours(r)))
<1> DEFINE L == Numberings(Colours(l))
           R == Numberings(Colours(r))
           after == [f \in R |-> [n \in BlankNodes(l) |-> f[h[n]]]]
<1>1. IsFiniteSet(r) /\ IsFiniteSet(l)
  BY DEF Maps, Triples
<1>2. after \in [R -> L]
  BY NumberingMoves
<1>3. /\ \A n \in BlankNodes(l) : h[n] \in BlankNodes(r)
      /\ \A m \in BlankNodes(r) : \E n \in BlankNodes(l) : h[n] = m
  BY Fun_BijectionProperties DEF Maps
<1>4. ASSUME NEW f \in R, NEW g \in R, after[f] = after[g]
      PROVE  f = g
  <2>1. \A n \in BlankNodes(l) : f[h[n]] = g[h[n]]
    BY <1>4
  <2>2. \A m \in BlankNodes(r) : f[m] = g[m]
    BY <1>3, <2>1
  <2>3. \E N : f \in [BlankNodes(r) -> N] /\ g \in [BlankNodes(r) -> N]
    BY <1>1, NumberingIsFunction
  <2> QED
    BY <2>2, <2>3
<1>5. ASSUME NEW g \in L
      PROVE  \E f \in R : after[f] = g
  <2>1. PICK back : Maps(back, r, l) /\ \A n \in BlankNodes(l) : back[h[n]] = n
    BY MapsBack
  <2> DEFINE f == [m \in BlankNodes(r) |-> g[back[m]]]
  <2>2. f \in R
    BY <2>1, NumberingMoves
  <2>3. \E N : g \in [BlankNodes(l) -> N]
    BY <1>1, NumberingIsFunction
  <2>4. after[f] = g
    BY <1>3, <2>1, <2>2, <2>3
  <2> QED
    BY <2>2, <2>4
<1>6. IsFiniteSet(R)
  BY <1>1, NumberingsFinite
<1> HIDE DEF L, R, after
<1>7. after \in Bijection(R, L)
  BY <1>2, <1>4, <1>5, Fun_IsBij
<1> QED
  BY <1>6, <1>7, SameSize DEF L, R

-----------------------------------------------------------------------------
\* One canonical form comes only from isomorphic graphs, when no node of theirs
\* has the name of a canonical one.
NoCanonicalName(lines) == \A x \in Nodes(lines) : x[1] # "c14n"

LEMMA SameFormMaps ==
    ASSUME NEW l, NEW r, Triples(l), Triples(r), NoCanonicalName(l), NoCanonicalName(r),
           NEW f \in Bijection(BlankNodes(l), 1..Cardinality(BlankNodes(l))),
           NEW g \in Bijection(BlankNodes(r), 1..Cardinality(BlankNodes(r))),
           Serialize(l, f) = Serialize(r, g)
    PROVE  \E h : Maps(h, l, r)
<1>3. /\ DOMAIN f = BlankNodes(l) /\ \A a, b \in BlankNodes(l) : f[a] = f[b] => a = b
      /\ DOMAIN g = BlankNodes(r) /\ \A a, b \in BlankNodes(r) : g[a] = g[b] => a = b
  BY Fun_BijectionProperties
<1>4. {MovedLine(t, Named(f)) : t \in l} = {MovedLine(u, Named(g)) : u \in r}
  BY SerializedLines
\* Two nodes with one name are both blank, with one number, or one node.
<1> DEFINE Twin(x, y) == /\ x \in Nodes(l) /\ y \in Nodes(r)
                         /\ Moved(x, Named(f)) = Moved(y, Named(g))
<1>5. ASSUME NEW x, NEW y, Twin(x, y)
      PROVE  \/ x \in BlankNodes(l) /\ y \in BlankNodes(r) /\ f[x] = g[y]
             \/ ~IsBlank(x) /\ ~IsBlank(y) /\ x = y
  <2>1. /\ IsBlank(x) <=> x \in BlankNodes(l)
        /\ IsBlank(y) <=> y \in BlankNodes(r)
        /\ x[1] # "c14n" /\ y[1] # "c14n"
    BY <1>5, BlankNodesAre DEF NoCanonicalName
  <2>2. /\ IsBlank(x) => Moved(x, Named(f)) = <<"c14n", f[x]>>
        /\ ~IsBlank(x) => Moved(x, Named(f)) = x
    BY <1>3, <2>1 DEF Moved, Named
  <2>3. /\ IsBlank(y) => Moved(y, Named(g)) = <<"c14n", g[y]>>
        /\ ~IsBlank(y) => Moved(y, Named(g)) = y
    BY <1>3, <2>1 DEF Moved, Named
  <2> QED
    BY <1>5, <2>1, <2>2, <2>3
<1>6. ASSUME NEW t \in l, NEW u \in r, MovedLine(t, Named(f)) = MovedLine(u, Named(g))
      PROVE  Twin(t[1], u[1]) /\ t[2] = u[2] /\ Twin(t[3], u[3])
  BY <1>6, NodesOfLines DEF MovedLine
<1>7. ASSUME NEW x \in BlankNodes(l)
      PROVE  \E y \in BlankNodes(r) : f[x] = g[y]
  <2>1. PICK t \in l : x \in Ends(t)
    BY BlankNodesAre DEF Nodes
  <2>2. PICK u \in r : MovedLine(t, Named(f)) = MovedLine(u, Named(g))
    BY <1>4
  <2>3. \E y : Twin(x, y)
    BY <1>6, <2>1, <2>2 DEF Ends
  <2> QED
    BY <1>5, <2>3, BlankNodesAre
<1>8. ASSUME NEW y \in BlankNodes(r)
      PROVE  \E x \in BlankNodes(l) : f[x] = g[y]
  <2>1. PICK u \in r : y \in Ends(u)
    BY BlankNodesAre DEF Nodes
  <2>2. PICK t \in l : MovedLine(t, Named(f)) = MovedLine(u, Named(g))
    BY <1>4
  <2>3. \E x : Twin(x, y)
    BY <1>6, <2>1, <2>2 DEF Ends
  <2> QED
    BY <1>5, <2>3, BlankNodesAre
<1> DEFINE h == [x \in BlankNodes(l) |-> CHOOSE y \in BlankNodes(r) : f[x] = g[y]]
<1>9. \A x \in BlankNodes(l) : h[x] \in BlankNodes(r) /\ f[x] = g[h[x]]
  BY <1>7
<1>10. DOMAIN h = BlankNodes(l)
  OBVIOUS
<1> HIDE DEF h
<1>11. h \in Bijection(BlankNodes(l), BlankNodes(r))
  <2>1. h \in [BlankNodes(l) -> BlankNodes(r)]
    BY <1>9 DEF h
  <2>2. \A a, b \in BlankNodes(l) : h[a] = h[b] => a = b
    BY <1>3, <1>9
  <2>3. \A y \in BlankNodes(r) : \E x \in BlankNodes(l) : h[x] = y
    BY <1>3, <1>8, <1>9
  <2> QED
    BY <2>1, <2>2, <2>3, Fun_IsBij
<1>12. ASSUME NEW t \in l, NEW u \in r, MovedLine(t, Named(f)) = MovedLine(u, Named(g))
       PROVE  MovedLine(t, h) = u
  <2>1. ASSUME NEW x, NEW y, Twin(x, y)
        PROVE  Moved(x, h) = y
    <3>1. CASE x \in BlankNodes(l) /\ y \in BlankNodes(r) /\ f[x] = g[y]
      BY <1>3, <1>9, <1>10, <3>1 DEF Moved
    <3>2. CASE ~IsBlank(x) /\ ~IsBlank(y) /\ x = y
      BY <1>10, <3>2, BlankNodesAre DEF Moved
    <3> QED
      BY <1>5, <2>1, <3>1, <3>2
  <2>2. MovedLine(t, h) = <<u[1], u[2], u[3]>>
    BY <1>6, <1>12, <2>1 DEF MovedLine
  <2> QED
    BY <2>2 DEF Triples, Settled, IsTriple
<1>13. r = {MovedLine(t, h) : t \in l}
  <2>1. \A u \in r : \E t \in l : MovedLine(t, Named(f)) = MovedLine(u, Named(g))
    BY <1>4
  <2>2. \A t \in l : \E u \in r : MovedLine(t, Named(f)) = MovedLine(u, Named(g))
    BY <1>4
  <2>3. \A u \in r : \E t \in l : MovedLine(t, h) = u
    BY <1>12, <2>1
  <2>4. \A t \in l : MovedLine(t, h) \in r
    BY <1>12, <2>2
  <2> QED
    BY <2>3, <2>4
<1> QED
  BY <1>11, <1>13 DEF Maps

-----------------------------------------------------------------------------
(***************************************************************************)
(* The comparison of graphs as they are read.                              *)
(***************************************************************************)

Plain(t) == IsTriple(t) /\ t[1][1] # "c14n" /\ t[3][1] # "c14n"
Comparable(g) == IsFiniteSet(g) /\ \A t \in g : Plain(t)

LEMMA NormalFinite ==
    ASSUME NEW lines, IsFiniteSet(lines)
    PROVE  IsFiniteSet(NormalizeLiterals(lines))
<1> DEFINE all == {NormalizeLiteral(t) : t \in lines}
           image == [t \in lines |-> NormalizeLiteral(t)]
<1>1. image \in [lines -> all] /\ \A y \in all : \E t \in lines : image[t] = y
  OBVIOUS
<1> HIDE DEF all, image
<1>2. IsFiniteSet(all)
  BY <1>1, ImageFinite
<1> QED
  BY <1>2 DEF NormalizeLiterals, all

\* Normalization changes the spelling of numbers only.
LEMMA NormalLine ==
    ASSUME NEW t, IsTriple(t)
    PROVE  LET n == NormalizeLiteral(t)
           IN  /\ IsTriple(n) /\ n[1] = t[1] /\ n[2] = t[2] /\ n[3][1] = t[3][1]
               /\ n[3][1] = "decimal" => n[3] = Decimal(n[3][2], "canonical")
               /\ NormalizeLiteral(n) = n
               /\ Labels(Ends(n)) = Labels(Ends(t))
<1> DEFINE n == NormalizeLiteral(t)
           d == IF t[3][1] = "decimal" THEN Decimal(t[3][2], "canonical") ELSE t[3]
<1>1. n = <<t[1], t[2], d>>
  BY NormalOfTriple DEF IsTriple
<1>2. d[1] = t[3][1] /\ (d[1] = "decimal" => d = Decimal(d[2], "canonical"))
  BY DEF Decimal
<1>3. d = t[3] \/ (~IsBlank(d) /\ ~IsMention(d) /\ ~IsBlank(t[3]) /\ ~IsMention(t[3]))
  BY DEF Decimal, IsBlank, IsMention
<1> HIDE DEF d, n
<1>4. IsTriple(n) /\ n[1] = t[1] /\ n[2] = t[2] /\ n[3] = d
  BY <1>1 DEF IsTriple
<1>5. NormalizeLiteral(n) = n
  BY <1>2, <1>4, NormalOfTriple DEF IsTriple
<1>6. Labels({t[1], d}) = Labels({t[1], t[3]})
  <2>1. {x \in {t[1], d} : IsBlank(x)} = {x \in {t[1], t[3]} : IsBlank(x)}
    BY <1>3
  <2>2. {x \in {t[1], d} : IsMention(x)} = {x \in {t[1], t[3]} : IsMention(x)}
    BY <1>3
  <2> QED
    BY <2>1, <2>2, Zenon DEF Labels
<1> QED
  BY <1>2, <1>4, <1>5, <1>6 DEF Ends, n

LEMMA NormalLabels ==
    ASSUME NEW g, Comparable(g)
    PROVE  BlankNodes(NormalizeLiterals(g)) = BlankNodes(g)
<1>1. ASSUME NEW n
      PROVE  n \in BlankNodes(g) <=> \E t \in g : n \in Labels(Ends(t))
  BY DEF BlankNodes, Labels
<1>2. ASSUME NEW n
      PROVE  n \in BlankNodes(NormalizeLiterals(g)) <=>
               \E u \in NormalizeLiterals(g) : n \in Labels(Ends(u))
  BY DEF BlankNodes, Labels
<1>3. \A t \in g : Labels(Ends(NormalizeLiteral(t))) = Labels(Ends(t))
  BY NormalLine DEF Comparable, Plain
<1>4. NormalizeLiterals(g) = {NormalizeLiteral(t) : t \in g}
  BY DEF NormalizeLiterals
<1> QED
  BY <1>1, <1>2, <1>3, <1>4

LEMMA NormalTwice ==
    ASSUME NEW g, Comparable(g)
    PROVE  NormalizeLiterals(NormalizeLiterals(g)) = NormalizeLiterals(g)
<1>1. \A t \in g : NormalizeLiteral(NormalizeLiteral(t)) = NormalizeLiteral(t)
  BY NormalLine DEF Comparable, Plain
<1> QED
  BY <1>1 DEF NormalizeLiterals

LEMMA NormalTriples ==
    ASSUME NEW g, Comparable(g), NoMentions(g)
    PROVE  /\ Triples(NormalizeLiterals(g)) /\ NoCanonicalName(NormalizeLiterals(g))
           /\ NoPrefixes(g) => NoPrefixes(NormalizeLiterals(g))
<1> DEFINE N == NormalizeLiterals(g)
<1>1. N = {NormalizeLiteral(t) : t \in g}
  BY DEF NormalizeLiterals
<1>2. ASSUME NEW t \in g
      PROVE  LET n == NormalizeLiteral(t)
             IN  Settled(n) /\ n[1][1] # "c14n" /\ n[3][1] # "c14n" /\ Labels(Ends(n)) = Labels(Ends(t))
  <2> DEFINE n == NormalizeLiteral(t)
  <2>1. Plain(t) /\ ~IsMention(t[1]) /\ ~IsMention(t[3])
    BY DEF Comparable, NoMentions, Ends
  <2>2. /\ IsTriple(n) /\ n[1] = t[1] /\ n[3][1] = t[3][1]
        /\ n[3][1] = "decimal" => n[3] = Decimal(n[3][2], "canonical")
        /\ Labels(Ends(n)) = Labels(Ends(t))
    BY <2>1, NormalLine DEF Plain
  <2> HIDE DEF n
  <2>3. Settled(n) /\ n[1][1] # "c14n" /\ n[3][1] # "c14n" /\ Labels(Ends(n)) = Labels(Ends(t))
    BY <2>1, <2>2 DEF Settled, IsMention, Plain
  <2> QED
    BY <2>3 DEF n
<1>3. IsFiniteSet(N)
  BY NormalFinite DEF Comparable
<1> HIDE DEF N
<1>4. Triples(N)
  BY <1>1, <1>2, <1>3 DEF Triples
<1>5. NoCanonicalName(N)
  <2>1. ASSUME NEW u \in N, NEW x \in Ends(u)
        PROVE  x[1] # "c14n"
    <3>1. u[1][1] # "c14n" /\ u[3][1] # "c14n"
      BY <1>1, <1>2
    <3> QED
      BY <2>1, <3>1 DEF Ends
  <2> QED
    BY <2>1 DEF NoCanonicalName, Nodes
<1>6. NoPrefixes(g) => NoPrefixes(N)
  BY <1>1, <1>2 DEF NoPrefixes
<1> QED
  BY <1>4, <1>5, <1>6 DEF N

\* Where normalization makes no two lines one, it can as well come first.
LEMMA NormalSignature ==
    ASSUME NEW g, Comparable(g), NoRepetitions(g), NEW node, NEW colour
    PROVE  Signature(node, g, colour) = Signature(node, NormalizeLiterals(g), colour)
<1> DEFINE N == NormalizeLiterals(g)
           view(t) == RelabelLine(NormalizeLiteral(t), SeenBy(node, g, colour))
           own == {t \in g : node \in Labels(Ends(t))}
           ownN == {t \in N : node \in Labels(Ends(t))}
<1>1. SeenBy(node, N, colour) = SeenBy(node, g, colour)
  BY NormalLabels DEF SeenBy
<1>2. Signature(node, g, colour) = [v \in {view(t) : t \in own} |-> Cardinality({t \in own : view(t) = v})]
  BY DEF Signature, SeenBy
<1>3. Signature(node, N, colour) = [v \in {view(t) : t \in ownN} |-> Cardinality({t \in ownN : view(t) = v})]
  <2> HIDE DEF N
  <2>1. Signature(node, N, colour) =
          LET seen == SeenBy(node, N, colour)
              look(t) == RelabelLine(NormalizeLiteral(t), seen)
          IN  [v \in {look(t) : t \in ownN} |-> Cardinality({t \in ownN : look(t) = v})]
    BY DEF Signature, SeenBy
  <2> QED
    BY <1>1, <2>1
<1>4. N = {NormalizeLiteral(t) : t \in g}
  BY DEF NormalizeLiterals
<1>5. ASSUME NEW t \in g
      PROVE  /\ NormalizeLiteral(t) \in ownN <=> t \in own
             /\ view(NormalizeLiteral(t)) = view(t)
  <2>1. /\ Labels(Ends(NormalizeLiteral(t))) = Labels(Ends(t))
        /\ NormalizeLiteral(NormalizeLiteral(t)) = NormalizeLiteral(t)
    BY NormalLine DEF Comparable, Plain
  <2>2. NormalizeLiteral(t) \in N
    BY <1>4
  <2> HIDE DEF N
  <2> QED
    BY <2>1, <2>2
<1>6. own \subseteq g /\ ownN \subseteq N
  OBVIOUS
<1>7. \A u \in ownN : \E t \in own : u = NormalizeLiteral(t)
  BY <1>4, <1>5
<1> HIDE DEF N, own, ownN, view
<1>8. {view(t) : t \in ownN} = {view(t) : t \in own}
  BY <1>5, <1>6, <1>7
<1>9. ASSUME NEW v
      PROVE  Cardinality({t \in ownN : view(t) = v}) = Cardinality({t \in own : view(t) = v})
  <2> DEFINE ov == {t \in own : view(t) = v}
             nv == {t \in ownN : view(t) = v}
             normal == [t \in ov |-> NormalizeLiteral(t)]
  <2>1. normal \in [ov -> nv]
    BY <1>5, <1>6
  <2>2. \A t, u \in ov : normal[t] = normal[u] => t = u
    BY <1>6 DEF NoRepetitions
  <2>3. \A u \in nv : \E t \in ov : normal[t] = u
    BY <1>5, <1>6, <1>7
  <2>4. ov \in SUBSET g
    BY <1>6
  <2> HIDE DEF ov, nv, normal
  <2>5. IsFiniteSet(ov)
    BY <2>4, FS_Subset DEF Comparable
  <2>6. normal \in Bijection(ov, nv)
    BY <2>1, <2>2, <2>3, Fun_IsBij
  <2>7. Cardinality(ov) = Cardinality(nv)
    BY <2>5, <2>6, SameSize
  <2> QED
    BY <2>7 DEF ov, nv
<1> QED
  BY <1>2, <1>3, <1>8, <1>9 DEF N

LEMMA NormalRefine ==
    ASSUME NEW g, Comparable(g), NoRepetitions(g), NEW colour
    PROVE  Refine(g, colour) = Refine(NormalizeLiterals(g), colour)
<1> DEFINE N == NormalizeLiterals(g)
<1>1. \A n : Signature(n, g, colour) = Signature(n, N, colour)
  BY NormalSignature
<1>2. [n \in DOMAIN colour |-> Signature(n, g, colour)] = [n \in DOMAIN colour |-> Signature(n, N, colour)]
  BY <1>1
<1> HIDE DEF N
<1> QED
  BY <1>2 DEF Refine, N

LEMMA NormalColours ==
    ASSUME NEW g, Comparable(g), NoRepetitions(g)
    PROVE  Colours(g) = Colours(NormalizeLiterals(g))
<1> DEFINE N == NormalizeLiterals(g)
           m == Cardinality(BlankNodes(g)) + 2
           cg == ColourRounds(g)
           cn == ColourRounds(N)
           Bad == {k \in 0..m : cg[k] # cn[k]}
<1>1. BlankNodes(N) = BlankNodes(g) /\ IsFiniteSet(BlankNodes(g))
  BY NormalLabels, BlankNodesFinite DEF Comparable
<1>2. /\ m \in Nat /\ Colours(g) = cg[m] /\ cg[0] = [n \in BlankNodes(g) |-> 0]
      /\ \A round \in 1..m : cg[round] = Refine(g, cg[round - 1])
  BY <1>1, RoundsOfColours
<1>3. /\ Colours(N) = cn[m] /\ cn[0] = [n \in BlankNodes(g) |-> 0]
      /\ \A round \in 1..m : cn[round] = Refine(N, cn[round - 1])
  <2> HIDE DEF N
  <2> QED
    BY <1>1, RoundsOfColours
<1>4. \A c : Refine(g, c) = Refine(N, c)
  BY NormalRefine
<1> HIDE DEF N, m, cg, cn
<1>5. ASSUME Bad # {} PROVE FALSE
  <2>0. Bad \in SUBSET Nat
    BY <1>2
  <2> HIDE DEF Bad
  <2>1. PICK k \in Bad : \A j \in Bad : k <= j
    BY <1>5, <2>0, LeastNumber
  <2> USE DEF Bad
  <2>2. k # 0
    BY <1>2, <1>3, <2>1
  <2>3. k \in 1..m /\ k - 1 \in 0..m /\ k - 1 \notin Bad
    BY <1>2, <2>1, <2>2
  <2>4. cg[k - 1] = cn[k - 1]
    BY <2>3
  <2>5. cg[k] = cn[k]
    BY <1>2, <1>3, <1>4, <2>3, <2>4
  <2> QED
    BY <2>1, <2>5
<1>6. cg[m] = cn[m]
  BY <1>2, <1>5
<1> QED
  BY <1>2, <1>3, <1>6 DEF N

LEMMA NormalSerialize ==
    ASSUME NEW g, Comparable(g), NEW f
    PROVE  Serialize(g, f) = Serialize(NormalizeLiterals(g), f)
BY NormalTwice DEF Serialize

LEMMA NormalForm ==
    ASSUME NEW g, Comparable(g), NoRepetitions(g)
    PROVE  /\ CanonicalForm(g) = CanonicalForm(NormalizeLiterals(g))
           /\ SearchLimit(g) <=> SearchLimit(NormalizeLiterals(g))
<1> DEFINE N == NormalizeLiterals(g)
           Q == Numberings(Colours(g))
<1>1. Colours(N) = Colours(g)
  BY NormalColours
<1>2. \A f : Serialize(g, f) = Serialize(N, f)
  BY NormalSerialize
<1> HIDE DEF N
<1>3. Forms(g) = Forms(N)
  BY <1>1, <1>2 DEF Forms
<1>4. /\ CanonicalForm(g) = CHOOSE least \in Forms(g) : TRUE
      /\ CanonicalForm(N) = CHOOSE least \in Forms(N) : TRUE
  BY DEF CanonicalForm, Forms
<1> QED
  BY <1>1, <1>3, <1>4 DEF SearchLimit, N

\* Equal graphs are isomorphic, if no literal holds a label.
LEMMA EqualIsIsomorphic ==
    ASSUME NEW a, NEW b, Comparable(a), Comparable(b), NoMentions(a), NoMentions(b),
           CanonicalForm(a) = CanonicalForm(b)
    PROVE  \E h : Maps(h, NormalizeLiterals(a), NormalizeLiterals(b))
<1> DEFINE l == NormalizeLiterals(a)
           r == NormalizeLiterals(b)
<1>1. IsFiniteSet(a) /\ IsFiniteSet(b)
  BY DEF Comparable
<1>2. PICK f \in Numberings(Colours(a)), g \in Numberings(Colours(b)) : Serialize(a, f) = Serialize(b, g)
  BY <1>1, FormIsSerialized
<1>3. BlankNodes(l) = BlankNodes(a) /\ BlankNodes(r) = BlankNodes(b)
  BY NormalLabels
<1>4. Triples(l) /\ Triples(r) /\ NoCanonicalName(l) /\ NoCanonicalName(r)
  BY NormalTriples
<1>5. Serialize(l, f) = Serialize(r, g)
  BY <1>2, NormalSerialize
<1> HIDE DEF l, r
<1>6. /\ f \in Bijection(BlankNodes(l), 1..Cardinality(BlankNodes(l)))
      /\ g \in Bijection(BlankNodes(r), 1..Cardinality(BlankNodes(r)))
  BY <1>1, <1>2, <1>3, NumberingOf
<1>7. \E h : Maps(h, l, r)
  BY <1>4, <1>5, <1>6, SameFormMaps
<1> QED
  BY <1>7 DEF l, r

LEMMA IsomorphicMaps ==
    ASSUME NEW a, NEW b, Comparable(a), Comparable(b), NoMentions(a), NoMentions(b)
    PROVE  Isomorphic(a, b) <=> \E h : Maps(h, NormalizeLiterals(a), NormalizeLiterals(b))
<1> DEFINE l == NormalizeLiterals(a)
           r == NormalizeLiterals(b)
<1>1. Isomorphic(a, b) <=> \E h \in Bijection(Anonymous(l), Anonymous(r)) : Rename(l, h) = r
  BY DEF Isomorphic
<1>2. Triples(l) /\ Triples(r)
  BY NormalTriples
<1> HIDE DEF l, r
<1>3. BlankNodes(l) = Anonymous(l) /\ BlankNodes(r) = Anonymous(r)
  BY <1>2, BlankNodesAre
<1>4. \A h : Rename(l, h) = {MovedLine(t, h) : t \in l}
  BY <1>2, RenamesLines
<1>5. Isomorphic(a, b) <=> \E h : Maps(h, l, r)
  BY <1>1, <1>2, <1>3, <1>4 DEF Maps
<1> QED
  BY <1>5 DEF l, r

\* What comparing two graphs decides.
LEMMA CompareDecides ==
    ASSUME NEW a, NEW b, Comparable(a), Comparable(b)
    PROVE  /\ Compare(a, b) = "EQUAL" /\ NoMentions(a) /\ NoMentions(b) => Isomorphic(a, b)
           /\ ComparesByStructure(a) /\ ComparesByStructure(b) =>
                /\ Compare(a, b) = "DIFFERENT" => ~Isomorphic(a, b)
                /\ Isomorphic(a, b) => (SearchLimit(a) <=> SearchLimit(b))
<1>1. /\ Compare(a, b) = "EQUAL" => CanonicalForm(a) = CanonicalForm(b)
      /\ Compare(a, b) = "DIFFERENT" => CanonicalForm(a) # CanonicalForm(b)
  <2>1. SameGraph(a, b) <=>
          CanonicalForm(a) \ CanonicalForm(b) = {} /\ CanonicalForm(b) \ CanonicalForm(a) = {}
    BY DEF SameGraph, Diff
  <2>2. SameGraph(a, b) <=> CanonicalForm(a) = CanonicalForm(b)
    BY <2>1
  <2> QED
    BY <2>2 DEF Compare
<1>2. ASSUME Compare(a, b) = "EQUAL", NoMentions(a), NoMentions(b)
      PROVE  Isomorphic(a, b)
  BY <1>1, <1>2, EqualIsIsomorphic, IsomorphicMaps
<1>3. ASSUME ComparesByStructure(a), ComparesByStructure(b), Isomorphic(a, b)
      PROVE  Compare(a, b) # "DIFFERENT" /\ (SearchLimit(a) <=> SearchLimit(b))
  <2> DEFINE l == NormalizeLiterals(a)
             r == NormalizeLiterals(b)
  <2>1. /\ NoMentions(a) /\ NoPrefixes(a) /\ NoRepetitions(a)
        /\ NoMentions(b) /\ NoPrefixes(b) /\ NoRepetitions(b)
    BY <1>3 DEF ComparesByStructure
  <2>2. PICK h : Maps(h, l, r)
    BY <1>3, <2>1, IsomorphicMaps
  <2>3. NoPrefixes(l) /\ NoPrefixes(r)
    BY <2>1, NormalTriples
  <2>4. /\ CanonicalForm(a) = CanonicalForm(l) /\ (SearchLimit(a) <=> SearchLimit(l))
        /\ CanonicalForm(b) = CanonicalForm(r) /\ (SearchLimit(b) <=> SearchLimit(r))
    BY <2>1, NormalForm
  <2> HIDE DEF l, r
  <2>5. CanonicalForm(l) = CanonicalForm(r)
    BY <2>2, <2>3, FormsMove
  <2>6. SearchLimit(l) <=> SearchLimit(r)
    BY <2>2, <2>3, NumberingsMove DEF SearchLimit
  <2> QED
    BY <1>1, <2>4, <2>5, <2>6
<1> QED
  BY <1>2, <1>3

-----------------------------------------------------------------------------
\* The graphs that are compared.
LEMMA LinesPlain ==
    ASSUME NEW labels
    PROVE  \A t \in Lines(labels) \cup SecondSpellings(labels) : Plain(t)
<1> DEFINE links == {<<Node(c[1]), "linksTo", Node(c[2])>> : c \in {d \in labels \X labels : d[1] # d[2]}}
           weights == {<<Node(a), "weighs", Decimal("one", "store")>> : a \in labels}
           says == {<<DumpNode, "says", Mention(Node(a))>> : a \in labels \cap OddLabels}
           again == {<<Node(a), "weighs", Decimal("one", "export")>> : a \in labels \cap OddLabels}
<1>1. Lines(labels) \cup SecondSpellings(labels) = (links \cup weights \cup says) \cup again
  BY DEF Lines, SecondSpellings
<1>2. /\ \A x : Node(x)[1] = "blank" /\ Mention(x)[1] = "mention"
      /\ \A x : Decimal("one", x)[1] = "decimal"
      /\ DumpNode[1] = "dump"
  BY DEF Node, Blank, Mention, Decimal, DumpNode
<1>3. \A t \in links : Plain(t)
  BY <1>2 DEF Plain, IsTriple
<1>4. \A t \in weights : Plain(t)
  BY <1>2 DEF Plain, IsTriple
<1>5. \A t \in says : Plain(t)
  BY <1>2 DEF Plain, IsTriple
<1>6. \A t \in again : Plain(t)
  BY <1>2 DEF Plain, IsTriple
<1> HIDE DEF links, weights, says, again
<1> QED
  BY <1>1, <1>3, <1>4, <1>5, <1>6

LEMMA LinesFinite ==
    ASSUME NEW labels, IsFiniteSet(labels)
    PROVE  IsFiniteSet(Lines(labels) \cup SecondSpellings(labels))
<1> DEFINE P == {d \in labels \X labels : d[1] # d[2]}
           O == labels \cap OddLabels
           links == {<<Node(c[1]), "linksTo", Node(c[2])>> : c \in P}
           weights == {<<Node(a), "weighs", Decimal("one", "store")>> : a \in labels}
           says == {<<DumpNode, "says", Mention(Node(a))>> : a \in O}
           again == {<<Node(a), "weighs", Decimal("one", "export")>> : a \in O}
           link == [c \in P |-> <<Node(c[1]), "linksTo", Node(c[2])>>]
           weight == [a \in labels |-> <<Node(a), "weighs", Decimal("one", "store")>>]
           say == [a \in O |-> <<DumpNode, "says", Mention(Node(a))>>]
           repeat == [a \in O |-> <<Node(a), "weighs", Decimal("one", "export")>>]
<1>1. Lines(labels) \cup SecondSpellings(labels) = (links \cup weights \cup says) \cup again
  BY DEF Lines, SecondSpellings
<1>2. IsFiniteSet(P) /\ IsFiniteSet(O)
  <2>1. P \in SUBSET (labels \X labels) /\ O \in SUBSET labels
    OBVIOUS
  <2>2. IsFiniteSet(labels \X labels)
    BY FS_Product
  <2> HIDE DEF P, O
  <2> QED
    BY <2>1, <2>2, FS_Subset
<1> HIDE DEF P, O
<1>3. /\ link \in [P -> links] /\ \A y \in links : \E c \in P : link[c] = y
      /\ weight \in [labels -> weights] /\ \A y \in weights : \E a \in labels : weight[a] = y
  OBVIOUS
<1>4. /\ say \in [O -> says] /\ \A y \in says : \E a \in O : say[a] = y
      /\ repeat \in [O -> again] /\ \A y \in again : \E a \in O : repeat[a] = y
  OBVIOUS
<1> HIDE DEF links, weights, says, again, link, weight, say, repeat
<1>5. IsFiniteSet(links) /\ IsFiniteSet(weights)
  BY <1>2, <1>3, ImageFinite
<1>6. IsFiniteSet(says) /\ IsFiniteSet(again)
  BY <1>2, <1>4, ImageFinite
<1>7. IsFiniteSet(links \cup weights)
  BY <1>5, FS_Union
<1>8. IsFiniteSet((links \cup weights) \cup says)
  BY <1>6, <1>7, FS_Union
<1> QED
  BY <1>1, <1>6, <1>8, FS_Union

LEMMA GraphsPlain ==
    ASSUME NEW labels, IsFiniteSet(labels), NEW lines,
           lines \subseteq Lines(labels) \cup SecondSpellings(labels), NEW g \in GraphsOf(lines)
    PROVE  Comparable(g)
<1>1. g \in SUBSET (Lines(labels) \cup SecondSpellings(labels))
  BY DEF GraphsOf, kSubset
<1>2. IsFiniteSet(Lines(labels) \cup SecondSpellings(labels))
  BY LinesFinite
<1> QED
  BY <1>1, <1>2, LinesPlain, FS_Subset DEF Comparable

LEMMA RepresentativePlain ==
    ASSUME NEW g \in Representatives(GraphsOf(Lines(LeftLabels)), LeftLabels)
    PROVE  Comparable(g)
<1> DEFINE nodes == {Node(a) : a \in LeftLabels}
           renamed(t, f) == [t EXCEPT ![1] = IF @ \in DOMAIN f THEN f[@] ELSE @,
                                      ![3] = IF @ \in DOMAIN f THEN f[@] ELSE @]
<1>1. PICK g0 \in GraphsOf(Lines(LeftLabels)) :
         g = CHOOSE h \in {Rename(g0, f) : f \in Bijection(nodes, nodes)} : TRUE
  BY DEF Representatives
<1>2. [n \in nodes |-> n] \in Bijection(nodes, nodes)
  <2> HIDE DEF nodes
  <2> QED
    BY DEF Bijection, Injection, Surjection, IsInjective
<1>3. \A n \in nodes : n[1] = "blank"
  BY DEF Node, Blank
<1> HIDE DEF nodes
<1>4. PICK f \in Bijection(nodes, nodes) : g = Rename(g0, f)
  BY <1>1, <1>2
<1>5. Comparable(g0)
  BY GraphsPlain, ComparisonAssumption
<1>6. DOMAIN f = nodes /\ \A n \in nodes : f[n] \in nodes
  BY Fun_BijectionProperties
<1>7. g = {renamed(t, f) : t \in g0}
  BY <1>4 DEF Rename
<1>8. ASSUME NEW t \in g0
      PROVE  Plain(renamed(t, f))
  <2>1. t = <<t[1], t[2], t[3]>> /\ t[1][1] # "c14n" /\ t[3][1] # "c14n"
    BY <1>5 DEF Comparable, Plain, IsTriple
  <2>2. renamed(t, f) = <<Moved(t[1], f), t[2], Moved(t[3], f)>>
    BY <2>1, TripleParts DEF Moved
  <2>3. \A x : x[1] # "c14n" => Moved(x, f)[1] # "c14n"
    BY <1>3, <1>6 DEF Moved
  <2> HIDE DEF renamed
  <2> QED
    BY <2>1, <2>2, <2>3 DEF Plain, IsTriple
<1> HIDE DEF renamed
<1>9. IsFiniteSet(g)
  <2> DEFINE image == [t \in g0 |-> renamed(t, f)]
  <2>1. image \in [g0 -> g] /\ \A y \in g : \E t \in g0 : image[t] = y
    BY <1>7
  <2> HIDE DEF image
  <2> QED
    BY <1>5, <2>1, ImageFinite DEF Comparable
<1> QED
  BY <1>7, <1>8, <1>9 DEF Comparable

\* The comparison keeps its graphs, and says what they are.
CompareInv ==
    Comparable(left) /\ Comparable(right) /\ outcome \in {"NONE", Compare(left, right)}

LEMMA CompareInvSuffices == CompareInv => ComparisonIsIsomorphism
<1> SUFFICES ASSUME CompareInv, outcome # "NONE" PROVE ComparisonIsIsomorphism
  BY DEF ComparisonIsIsomorphism
<1>1. outcome = Compare(left, right)
  BY DEF CompareInv
<1>2. /\ outcome = "EQUAL" /\ NoMentions(left) /\ NoMentions(right) => Isomorphic(left, right)
      /\ ComparesByStructure(left) /\ ComparesByStructure(right) =>
           /\ outcome = "DIFFERENT" => ~Isomorphic(left, right)
           /\ Isomorphic(left, right) => (SearchLimit(left) <=> SearchLimit(right))
  BY <1>1, CompareDecides DEF CompareInv
<1> QED
  BY <1>2 DEF ComparisonIsIsomorphism

LEMMA CompareInitInv ==
    ASSUME ComparisonInit \/ (left = {} /\ right = {} /\ outcome = "NONE")
    PROVE  CompareInv
<1>1. CASE ComparisonInit
  <2>1. Comparable(left)
    BY <1>1, RepresentativePlain DEF ComparisonInit
  <2>2. Comparable(right)
    BY <1>1, GraphsPlain, ComparisonAssumption DEF ComparisonInit
  <2> QED
    BY <1>1, <2>1, <2>2 DEF ComparisonInit, CompareInv
<1>2. CASE left = {} /\ right = {} /\ outcome = "NONE"
  BY <1>2, FS_EmptySet DEF CompareInv, Comparable
<1> QED
  BY <1>1, <1>2

LEMMA CompareNextInv == CompareInv /\ [DiffGraphs]_comparisonVars => CompareInv'
BY DEF CompareInv, DiffGraphs, comparisonVars

-----------------------------------------------------------------------------
\* Two graphs of any size and any labels with one canonical form are isomorphic,
\* unless a literal has a label in it; two isomorphic graphs have one canonical
\* form, or both reach the search limit, if in addition no label starts another
\* one of its line and normalization makes no two lines one
\* (diffCanonicalRdfGraphs, canonicalizeRdfGraph).
THEOREM CanonicalFormDecides == Spec => []CanonicalMeansIsomorphic
<1>1. Init => CompareInv
  BY CompareInitInv DEF Init
<1>2. [Next]_allVars => [DiffGraphs]_comparisonVars
  BY DEF Next, allVars
<1>3. CompareInv /\ [Next]_allVars => CompareInv'
  BY <1>2, CompareNextInv
<1>4. CompareInv => CanonicalMeansIsomorphic
  BY CompareInvSuffices DEF CanonicalMeansIsomorphic
<1> QED
  BY <1>1, <1>3, <1>4, PTL DEF Spec

=============================================================================

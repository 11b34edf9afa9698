----------------------------- MODULE RdfSyncProofs -----------------------------
(***************************************************************************)
(* A generation with one worker, whatever wiki, page size and number of    *)
(* faults: FenceCommitsVerifiedGraph, TypeOK, GapFreezesGraph,             *)
(* FenceBackedByGraph and NothingIsLost.                                   *)
(*                                                                         *)
(* FenceInv is about the shape of rows and jobs and what a worker knows    *)
(* between two calls.  The next three also need the order of the wiki's    *)
(* history: SyncInv relates the rows of RecentChanges, the page a worker   *)
(* read from them, the cursor and the revisions the fences hold.           *)
(*                                                                         *)
(* For the last, LogInv says what the rows of the wiki tell of its pages;  *)
(* LosslessInv, what the loader (BootFollows) and the worker (Following)   *)
(* still owe to an entity.  One lemma per group of calls shows that it is  *)
(* kept; for a worker's call it comes down to the entities the call leaves *)
(* alone (SameFor) and the one it writes (WriteCall) or ends with          *)
(* (EventDone).                                                            *)
(***************************************************************************)
EXTENDS RdfSync, TLAPS, FiniteSetTheorems, SequenceTheorems, WellFoundedInduction

-----------------------------------------------------------------------------
(***************************************************************************)
(* The inductive invariant.                                                *)
(***************************************************************************)

IsRow(r) == r \in [indexed : {r.indexed}, seen : {r.seen}, status : {r.status}]
IsJob(j) == j \in [pc : {j.pc}, cursor : {j.cursor}, page : {j.page}, todo : {j.todo}, row : {j.row}]

Shapes ==
    /\ rows = [e \in Entities |-> rows[e]] /\ \A e \in Entities : IsRow(rows[e])
    /\ work = [w \in Workers |-> work[w]] /\ \A w \in Workers : IsJob(work[w])

\* Where a worker holds the row of the entity it edits, or drops.
Editing == {"gap", "restoring", "fetch", "put", "register", "putSchema", "registerSchema",
            "verify", "save"}
Dropping == {"dropEntity", "unregisterEntity", "dropSchema", "unregisterSchema", "tombstone"}
Verified == {"save", "commit"}

\* r is what the row of e was when it was read, as far as the fence goes.
FenceOf(r, e) == e \in Entities => IsRow(r) /\ r.indexed = rows[e].indexed

TaskOf(w) == Head(work[w].todo)

FenceUnmoved ==
    \A w \in Workers :
        /\ work[w].pc \in Editing => FenceOf(work[w].row, TaskOf(w).entity)
        /\ work[w].pc \in Dropping => FenceOf(work[w].row, Event(w).entity)

GraphVerified ==
    \A w \in Workers : work[w].pc \in Verified => store[TaskOf(w).entity] = TaskOf(w).rev

AsleepBefore == ~Loaded => \A w \in Workers : work[w] = Asleep

FenceInv == Shapes /\ FenceUnmoved /\ GraphVerified /\ AsleepBefore

-----------------------------------------------------------------------------
\* Records keep their shape when fields of them change.
LEMMA EditedRow ==
    ASSUME NEW r, IsRow(r), NEW x, NEW k, k = [r EXCEPT !.seen = x] \/ k = [r EXCEPT !.status = x]
    PROVE  IsRow(k) /\ k.indexed = r.indexed
BY DEF IsRow

LEMMA MovedJob ==
    ASSUME NEW j, IsJob(j), NEW pc, NEW k, k = [j EXCEPT !.pc = pc]
    PROVE  IsJob(k) /\ k.pc = pc /\ k.page = j.page /\ k.todo = j.todo /\ k.row = j.row
BY DEF IsJob

LEMMA FilledJob ==
    ASSUME NEW j, IsJob(j), NEW x, NEW k, k = [j EXCEPT !.row = x] \/ k = [j EXCEPT !.todo = x]
    PROVE  /\ IsJob(k) /\ k.pc = j.pc /\ k.page = j.page
           /\ k = [j EXCEPT !.row = x] => k.row = x
BY DEF IsJob

LEMMA FreshJob ==
    ASSUME NEW pc, NEW x, NEW k,
           k = [Asleep EXCEPT !.pc = pc, !.cursor = x] \/ k = [Asleep EXCEPT !.pc = pc, !.page = x]
    PROVE  IsJob(k) /\ k.pc = pc
BY DEF IsJob, Asleep

LEMMA AsleepShape == IsJob(Asleep) /\ Asleep.pc = "poll"
BY DEF Asleep, IsJob

\* What a step of the only worker has to show about the job it leaves.
LEMMA JobStep ==
    ASSUME NEW w, Workers = {w}, FenceInv, loader' = loader, work[w].pc # "poll" \/ Loaded,
           NEW j, IsJob(j), work' = [work EXCEPT ![w] = j],
           rows' = [e \in Entities |-> rows'[e]], \A e \in Entities : IsRow(rows'[e]),
           j.pc \in Editing => FenceOf(j.row, Head(j.todo).entity)',
           j.pc \in Dropping => FenceOf(j.row, Oldest(j.page).entity)',
           j.pc \in Verified => store'[Head(j.todo).entity] = Head(j.todo).rev
    PROVE  FenceInv'
<1>1. work'[w] = j /\ work' = [v \in Workers |-> work'[v]]
  BY DEF FenceInv, Shapes
<1>2. Loaded
  BY AsleepShape DEF FenceInv, AsleepBefore
<1>3. Loaded'
  BY <1>2 DEF Loaded
<1>4. Shapes'
  BY <1>1 DEF Shapes
<1>5. FenceUnmoved'
  BY <1>1 DEF FenceUnmoved, TaskOf, Event, FenceOf
<1>6. GraphVerified'
  BY <1>1 DEF GraphVerified, TaskOf
<1> QED
  BY <1>3, <1>4, <1>5, <1>6 DEF FenceInv, AsleepBefore

\* One row is written.
LEMMA RowWritten ==
    ASSUME Shapes, NEW x, NEW r, x \in Entities => IsRow(r), rows' = [rows EXCEPT ![x] = r]
    PROVE  /\ rows' = [e \in Entities |-> rows'[e]]
           /\ \A e \in Entities : IsRow(rows'[e])
           /\ \A e \in Entities : rows'[e] = IF e = x THEN r ELSE rows[e]
<1>1. \A e \in Entities : rows'[e] = IF e = x THEN r ELSE rows[e]
  BY DEF Shapes
<1>2. rows' = [e \in Entities |-> rows'[e]]
  BY DEF Shapes
<1> QED
  BY <1>1, <1>2 DEF Shapes

\* The fence of an entity moves only to the revision in the store.
Commits == \A e \in Entities : rows'[e].indexed # rows[e].indexed => store[e] = rows'[e].indexed

\* A call that only moves the worker on.
LEMMA PlainStep ==
    ASSUME NEW w, Workers = {w}, FenceInv, UNCHANGED <<rows, store, loader>>, Loaded,
           NEW pc, Goto(w, pc),
           pc \in Editing => work[w].pc \in Editing,
           pc \in Dropping => work[w].pc \in Dropping,
           pc \in Verified => store[TaskOf(w).entity] = TaskOf(w).rev
    PROVE  FenceInv' /\ Commits
<1>1. IsJob(work[w])
  BY DEF FenceInv, Shapes
<1>2. PICK j : j = [work[w] EXCEPT !.pc = pc]
  OBVIOUS
<1>3. IsJob(j) /\ j.pc = pc /\ j.page = work[w].page /\ j.todo = work[w].todo /\ j.row = work[w].row
  BY <1>1, <1>2, MovedJob
<1>4. work' = [work EXCEPT ![w] = j]
  BY <1>2 DEF Goto
<1>5. /\ j.pc \in Editing => FenceOf(j.row, Head(j.todo).entity)'
      /\ j.pc \in Dropping => FenceOf(j.row, Oldest(j.page).entity)'
      /\ j.pc \in Verified => store'[Head(j.todo).entity] = Head(j.todo).rev
  BY <1>3 DEF FenceInv, FenceUnmoved, FenceOf, TaskOf, Event
<1>6. rows' = [e \in Entities |-> rows'[e]] /\ \A e \in Entities : IsRow(rows'[e])
  BY DEF FenceInv, Shapes
<1> QED
  BY <1>3, <1>4, <1>5, <1>6, JobStep DEF Commits

\* A call that ends in a job at rest, whatever it knew before.
LEMMA RestStep ==
    ASSUME NEW w, Workers = {w}, FenceInv, UNCHANGED <<rows, loader>>, work[w].pc # "poll" \/ Loaded,
           NEW j, IsJob(j), work' = [work EXCEPT ![w] = j],
           j.pc \notin Editing \cup Dropping \cup Verified
    PROVE  FenceInv' /\ Commits
<1>1. rows' = [e \in Entities |-> rows'[e]] /\ \A e \in Entities : IsRow(rows'[e])
  BY DEF FenceInv, Shapes
<1> QED
  BY <1>1, JobStep DEF Commits

\* What the handlers leave when they are done with a task or an event.
LEMMA NextTaskJob ==
    ASSUME NEW w, IsJob(work[w]), NextTask(w)
    PROVE  \E j : IsJob(j) /\ j.pc \in {"advance", "entity"} /\ work' = [work EXCEPT ![w] = j]
<1>1. PICK pc \in {"advance", "entity"} :
         work' = [work EXCEPT ![w] = [@ EXCEPT !.todo = Tail(work[w].todo), !.pc = pc]]
  BY DEF NextTask
<1>2. PICK k : k = [work[w] EXCEPT !.todo = Tail(work[w].todo)]
  OBVIOUS
<1>3. PICK j : j = [k EXCEPT !.pc = pc]
  OBVIOUS
<1>4. work' = [work EXCEPT ![w] = j]
  BY <1>1, <1>2, <1>3
<1>5. IsJob(k)
  BY <1>2, FilledJob
<1>6. IsJob(j) /\ j.pc = pc
  BY <1>3, <1>5, MovedJob
<1> QED
  BY <1>4, <1>6

LEMMA NextEventJob ==
    ASSUME NEW w, NextEvent(w)
    PROVE  \E j : IsJob(j) /\ j.pc \in {"event", "poll"} /\ work' = [work EXCEPT ![w] = j]
<1>1. PICK left : left = work[w].page \ {Event(w)}
  OBVIOUS
<1>2. PICK pc \in {"event", "poll"} :
         work' = [work EXCEPT ![w] = [Asleep EXCEPT !.pc = pc, !.page = left]]
  BY <1>1 DEF NextEvent
<1>3. PICK j : j = [Asleep EXCEPT !.pc = pc, !.page = left]
  OBVIOUS
<1>4. IsJob(j) /\ j.pc = pc
  BY <1>3, FreshJob
<1> QED
  BY <1>2, <1>3, <1>4

LEMMA GotoJob ==
    ASSUME NEW w, IsJob(work[w]), NEW pc, Goto(w, pc)
    PROVE  \E j : /\ IsJob(j) /\ j.pc = pc /\ j.page = work[w].page /\ j.todo = work[w].todo
                  /\ j.row = work[w].row
                  /\ work' = [work EXCEPT ![w] = j]
<1>1. PICK j : j = [work[w] EXCEPT !.pc = pc]
  OBVIOUS
<1>2. IsJob(j) /\ j.pc = pc /\ j.page = work[w].page /\ j.todo = work[w].todo /\ j.row = work[w].row
  BY <1>1, MovedJob
<1> QED
  BY <1>1, <1>2 DEF Goto

-----------------------------------------------------------------------------
(***************************************************************************)
(* The calls of the worker.                                                *)
(***************************************************************************)

\* Polling, and everything that ends a poll, an event or a task.
LEMMA RestingCalls ==
    ASSUME NEW w, Workers = {w}, FenceInv,
           \/ LoadSource(w) \/ ReadSource(w) \/ MarkHealthy(w) \/ ResolveLifecycle(w)
           \/ RebuildRequired(w) \/ AdvanceCursor(w) \/ Reject(w) \/ Crash(w)
    PROVE  FenceInv' /\ Commits
<1> DEFINE Rests(pc) == pc \notin Editing \cup Dropping \cup Verified
<1>1. IsJob(work[w])
  BY DEF FenceInv, Shapes
<1>2. /\ Rests("read") /\ Rests("quiet") /\ Rests("event") /\ Rests("poll") /\ Rests("rebuild")
      /\ Rests("entity") /\ Rests("advance")
  BY DEF Editing, Dropping, Verified
<1>3. UNCHANGED <<rows, loader>> /\ (work[w].pc # "poll" \/ Loaded)
  BY DEF LoadSource, ReadSource, MarkHealthy, ResolveLifecycle, RebuildRequired, AdvanceCursor,
     Reject, Crash, At, Loaded, dbVars
<1>4. \E j : IsJob(j) /\ Rests(j.pc) /\ work' = [work EXCEPT ![w] = j]
  <2>1. CASE Sleep(w)
    BY <1>2, <2>1, AsleepShape DEF Sleep
  <2>2. CASE Goto(w, "rebuild")
    BY <1>1, <1>2, <2>2, GotoJob
  <2>3. CASE LoadSource(w)
    <3>1. PICK j : j = [Asleep EXCEPT !.pc = "read", !.cursor = sync.cursor]
      OBVIOUS
    <3>2. IsJob(j) /\ j.pc = "read"
      BY <3>1, FreshJob
    <3> QED
      BY <1>2, <2>3, <3>1, <3>2 DEF LoadSource
  <2>4. CASE ReadSource(w)
    <3>1. PICK pc \in {"quiet", "event"} : \E events :
             work' = [work EXCEPT ![w] = [Asleep EXCEPT !.pc = pc, !.page = events]]
      BY <2>4 DEF ReadSource
    <3>2. PICK events :
             work' = [work EXCEPT ![w] = [Asleep EXCEPT !.pc = pc, !.page = events]]
      BY <3>1
    <3>3. PICK j : j = [Asleep EXCEPT !.pc = pc, !.page = events]
      OBVIOUS
    <3>4. IsJob(j) /\ j.pc = pc
      BY <3>3, FreshJob
    <3>5. pc = "quiet" \/ pc = "event"
      OBVIOUS
    <3>6. Rests(j.pc)
      BY <1>2, <3>4, <3>5
    <3>7. work' = [work EXCEPT ![w] = j]
      BY <3>2, <3>3
    <3> HIDE DEF Rests
    <3> QED
      BY <3>4, <3>6, <3>7
  <2>5. CASE NextEvent(w)
    BY <1>2, <2>5, NextEventJob
  <2>6. ASSUME NEW order, work' = [work EXCEPT ![w] = [@ EXCEPT !.pc = "entity", !.todo = order]]
        PROVE  \E j : IsJob(j) /\ Rests(j.pc) /\ work' = [work EXCEPT ![w] = j]
    <3>1. PICK j : j = [work[w] EXCEPT !.pc = "entity", !.todo = order]
      OBVIOUS
    <3>2. IsJob(j) /\ j.pc = "entity"
      <4>1. PICK k : k = [work[w] EXCEPT !.pc = "entity"]
        OBVIOUS
      <4>2. IsJob(k) /\ k.pc = "entity"
        BY <1>1, <4>1, MovedJob
      <4>3. j = [k EXCEPT !.todo = order]
        BY <3>1, <4>1
      <4> QED
        BY <4>2, <4>3, FilledJob
    <3> QED
      BY <1>2, <2>6, <3>1, <3>2
  <2> QED
    BY <2>1, <2>2, <2>3, <2>4, <2>5, <2>6 DEF MarkHealthy, RebuildRequired, Crash, Reject,
       AdvanceCursor, ResolveLifecycle
<1> HIDE DEF Rests
<1>5. PICK j : IsJob(j) /\ Rests(j.pc) /\ work' = [work EXCEPT ![w] = j]
  BY <1>4
<1> QED
  BY <1>3, <1>5, RestStep DEF Rests

\* Calls whose effect is elsewhere, in the registry of graphs or in schemas.
LEMMA PassingCalls ==
    ASSUME NEW w, Workers = {w}, FenceInv,
           \/ FetchRevision(w) \/ RegisterEntityGraph(w) \/ ReplaceSchemaGraph(w)
           \/ RegisterSchemaGraph(w) \/ VerifyGraph(w)
           \/ UnregisterEntityGraph(w) \/ DeleteSchemaGraph(w) \/ UnregisterSchemaGraph(w)
    PROVE  FenceInv' /\ Commits
<1>1. UNCHANGED <<rows, store, loader>> /\ Loaded
  BY DEF FetchRevision, RegisterEntityGraph, ReplaceSchemaGraph, RegisterSchemaGraph, VerifyGraph,
     UnregisterEntityGraph, DeleteSchemaGraph, UnregisterSchemaGraph, At, Loaded, dbVars, storeVars
<1>2. PICK pc : /\ Goto(w, pc)
                /\ pc \in Editing => work[w].pc \in Editing
                /\ pc \in Dropping => work[w].pc \in Dropping
                /\ pc \in Verified => store[TaskOf(w).entity] = TaskOf(w).rev
  <2>1. CASE FetchRevision(w) \/ RegisterEntityGraph(w) \/ ReplaceSchemaGraph(w) \/ RegisterSchemaGraph(w)
    <3>1. PICK pc \in {"put", "rebuild", "putSchema", "verify", "registerSchema"} :
             Goto(w, pc) /\ work[w].pc \in Editing
      BY <2>1 DEF FetchRevision, RegisterEntityGraph, ReplaceSchemaGraph, RegisterSchemaGraph, At, Editing
    <3> QED
      BY <3>1 DEF Editing, Dropping, Verified
  <2>2. CASE VerifyGraph(w)
    <3>1. PICK pc \in {"save", "rebuild"} :
             /\ Goto(w, pc) /\ work[w].pc \in Editing
             /\ pc = "save" => store[TaskOf(w).entity] = TaskOf(w).rev
      BY <2>2 DEF VerifyGraph, At, Editing, TaskOf
    <3> QED
      BY <3>1 DEF Editing, Dropping, Verified
  <2>3. CASE UnregisterEntityGraph(w) \/ DeleteSchemaGraph(w) \/ UnregisterSchemaGraph(w)
    <3>1. PICK pc \in {"dropSchema", "tombstone", "unregisterSchema"} :
             Goto(w, pc) /\ work[w].pc \in Dropping
      BY <2>3 DEF UnregisterEntityGraph, DeleteSchemaGraph, UnregisterSchemaGraph, At, Dropping
    <3> QED
      BY <3>1 DEF Editing, Dropping, Verified
  <2> QED
    BY <2>1, <2>2, <2>3
<1> QED
  BY <1>1, <1>2, PlainStep

\* A job that is left with the row just read in it.
LEMMA ReadingStep ==
    ASSUME NEW w, Workers = {w}, FenceInv, UNCHANGED <<rows, store, loader>>, Loaded,
           NEW pc, NEW x, NEW k, k = [work[w] EXCEPT !.pc = pc],
           work' = [work EXCEPT ![w] = [k EXCEPT !.row = rows[x]]],
           pc \in Editing => x = TaskOf(w).entity,
           pc \in Dropping => x = Event(w).entity,
           pc \notin Verified \ Editing, pc # "save"
    PROVE  FenceInv' /\ Commits
<1>1. IsJob(work[w])
  BY DEF FenceInv, Shapes
<1>2. IsJob(k) /\ k.pc = pc /\ k.page = work[w].page /\ k.todo = work[w].todo
  BY <1>1, MovedJob
<1>3. PICK j : j = [k EXCEPT !.row = rows[x]]
  OBVIOUS
<1>4. /\ IsJob(j) /\ j.pc = pc /\ j.page = work[w].page /\ j.row = rows[x]
      /\ j.todo = work[w].todo
  BY <1>2, <1>3 DEF IsJob
<1>5. work' = [work EXCEPT ![w] = j]
  BY <1>3
<1>6. \A e \in Entities : IsRow(rows[e]) /\ rows'[e] = rows[e]
  BY DEF FenceInv, Shapes
<1>7. /\ pc \in Editing => FenceOf(j.row, Head(j.todo).entity)'
      /\ pc \in Dropping => FenceOf(j.row, Oldest(j.page).entity)'
  BY <1>4, <1>6 DEF FenceOf, TaskOf, Event
<1>8. j.pc \notin Verified
  BY <1>4 DEF Verified, Editing
<1>9. rows' = [e \in Entities |-> rows'[e]] /\ \A e \in Entities : IsRow(rows'[e])
  BY DEF FenceInv, Shapes
<1> QED
  BY <1>4, <1>5, <1>7, <1>8, <1>9, JobStep DEF Commits

LEMMA DispatchCall ==
    ASSUME NEW w, Workers = {w}, FenceInv, Dispatch(w)
    PROVE  FenceInv' /\ Commits
<1>1. UNCHANGED <<rows, store, loader>> /\ Loaded /\ IsJob(work[w])
  BY DEF Dispatch, At, Loaded, dbVars, storeVars, FenceInv, Shapes
<1>2. ASSUME NEW pc \in {"advance", "rebuild", "resolve"}, Goto(w, pc)
      PROVE  FenceInv' /\ Commits
  BY <1>1, <1>2, PlainStep DEF Editing, Dropping, Verified
<1>3. CASE Action(w) = "ENTITY_DELETE"
  <2>1. PICK k : k = [work[w] EXCEPT !.pc = "dropEntity"]
    OBVIOUS
  <2>2. work' = [work EXCEPT ![w] = [k EXCEPT !.row = rows[Event(w).entity]]]
    BY <1>3, <2>1 DEF Dispatch
  <2> QED
    BY <1>1, <2>1, <2>2, ReadingStep DEF Editing, Dropping, Verified
<1>4. CASE Action(w) = "ENTITY_EDIT"
  <2>1. PICK k : k = [work[w] EXCEPT !.pc = "entity"]
    OBVIOUS
  <2>2. PICK j : j = [k EXCEPT !.todo = <<[entity |-> Event(w).entity, rev |-> Event(w).rev]>>]
    OBVIOUS
  <2>3. work' = [work EXCEPT ![w] = j]
    BY <1>4, <2>1, <2>2 DEF Dispatch
  <2>4. IsJob(k) /\ k.pc = "entity"
    BY <1>1, <2>1, MovedJob
  <2>5. IsJob(j) /\ j.pc = "entity"
    BY <2>2, <2>4, FilledJob
  <2> QED
    BY <1>1, <2>3, <2>5, RestStep DEF Editing, Dropping, Verified
<1>5. CASE Action(w) \notin {"ENTITY_DELETE", "ENTITY_EDIT"}
  <2>1. PICK pc \in {"advance", "rebuild", "resolve"} : Goto(w, pc)
    <3>1. CASE Action(w) = "NON_ENTITY_CHANGE"
      BY <1>5, <3>1 DEF Dispatch, Goto
    <3>2. CASE Action(w) = "UNKNOWN"
      BY <1>5, <3>2 DEF Dispatch, Goto
    <3>3. CASE Action(w) \notin {"NON_ENTITY_CHANGE", "UNKNOWN"}
      BY <1>5, <3>3 DEF Dispatch, Goto
    <3> QED
      BY <3>1, <3>2, <3>3
  <2> QED
    BY <1>2, <2>1
<1> QED
  BY <1>3, <1>4, <1>5

LEMMA LoadEntityCall ==
    ASSUME NEW w, Workers = {w}, FenceInv, LoadEntity(w)
    PROVE  FenceInv' /\ Commits
<1>1. UNCHANGED <<rows, store, loader>> /\ Loaded /\ IsJob(work[w])
  BY DEF LoadEntity, At, Loaded, dbVars, storeVars, FenceInv, Shapes
<1>2. CASE \E pc \in {"restoring", "rebuild", "gap", "fetch", "advance"} :
              work' = [work EXCEPT ![w] = [@ EXCEPT !.pc = pc, !.row = rows[TaskOf(w).entity]]]
  <2>1. PICK pc \in {"restoring", "rebuild", "gap", "fetch", "advance"} :
              work' = [work EXCEPT ![w] = [@ EXCEPT !.pc = pc, !.row = rows[TaskOf(w).entity]]]
    BY <1>2
  <2>2. PICK k : k = [work[w] EXCEPT !.pc = pc]
    OBVIOUS
  <2>3. work' = [work EXCEPT ![w] = [k EXCEPT !.row = rows[TaskOf(w).entity]]]
    BY <2>1, <2>2
  <2> QED
    BY <1>1, <2>2, <2>3, ReadingStep DEF Editing, Dropping, Verified
<1>3. CASE NextTask(w)
  BY <1>1, <1>3, NextTaskJob, RestStep DEF Editing, Dropping, Verified
<1> QED
  BY <1>2, <1>3 DEF LoadEntity, TaskOf

\* A call that writes the store; no row changes.
LEMMA StoreCalls ==
    ASSUME NEW w, Workers = {w}, FenceInv, ReplaceEntityGraph(w) \/ DeleteEntityGraph(w)
    PROVE  FenceInv' /\ Commits
<1>1. UNCHANGED <<rows, loader>> /\ Loaded /\ IsJob(work[w])
  BY DEF ReplaceEntityGraph, DeleteEntityGraph, At, Loaded, dbVars, FenceInv, Shapes
<1>2. PICK j : /\ IsJob(j) /\ j.page = work[w].page /\ j.todo = work[w].todo /\ j.row = work[w].row
               /\ work' = [work EXCEPT ![w] = j]
               /\ \/ j.pc = "register" /\ work[w].pc = "put"
                  \/ j.pc = "unregisterEntity" /\ work[w].pc = "dropEntity"
  <2>1. CASE ReplaceEntityGraph(w)
    BY <1>1, <2>1, GotoJob DEF ReplaceEntityGraph, At
  <2>2. CASE DeleteEntityGraph(w)
    BY <1>1, <2>2, GotoJob DEF DeleteEntityGraph, At
  <2> QED
    BY <2>1, <2>2
<1>3. \A e \in Entities : rows'[e] = rows[e]
  BY <1>1
<1>4. /\ j.pc \in Editing => FenceOf(j.row, Head(j.todo).entity)'
      /\ j.pc \in Dropping => FenceOf(j.row, Oldest(j.page).entity)'
      /\ j.pc \notin Verified
  BY <1>2, <1>3 DEF FenceInv, FenceUnmoved, FenceOf, TaskOf, Event, Editing, Dropping, Verified
<1>5. rows' = [e \in Entities |-> rows'[e]] /\ \A e \in Entities : IsRow(rows'[e])
  BY <1>1 DEF FenceInv, Shapes
<1> QED
  BY <1>1, <1>2, <1>4, <1>5, JobStep DEF Commits

\* The row just read is written back with another status: no fence moves.
LEMMA StatusCalls ==
    ASSUME NEW w, Workers = {w}, FenceInv,
           SaveGap(w) \/ SaveRestoring(w) \/ CommitTombstone(w)
    PROVE  FenceInv' /\ Commits
<1>1. loader' = loader /\ Loaded /\ IsJob(work[w]) /\ Shapes
  BY DEF SaveGap, SaveRestoring, CommitTombstone, At, Loaded, FenceInv, Shapes
<1>2. PICK x, r, j : /\ x \in Entities => IsRow(r) /\ r.indexed = rows[x].indexed
                     /\ rows' = [rows EXCEPT ![x] = r]
                     /\ IsJob(j) /\ work' = [work EXCEPT ![w] = j]
                     /\ \/ j.pc \in {"rebuild", "event", "poll"}
                        \/ /\ j.pc = "fetch" /\ work[w].pc = "restoring"
                           /\ j.todo = work[w].todo /\ j.row = work[w].row
  <2>1. CASE SaveGap(w)
    <3>1. PICK x, r : /\ x = TaskOf(w).entity
                      /\ r = [work[w].row EXCEPT !.seen = TaskOf(w).rev, !.status = "GAP"]
      OBVIOUS
    <3>2. rows' = [rows EXCEPT ![x] = r]
      BY <2>1, <3>1 DEF SaveGap, TaskOf
    <3>3. FenceOf(work[w].row, x)
      BY <2>1, <3>1 DEF SaveGap, At, FenceInv, FenceUnmoved, Editing
    <3>4. PICK k : k = [work[w].row EXCEPT !.seen = TaskOf(w).rev]
      OBVIOUS
    <3>5. r = [k EXCEPT !.status = "GAP"]
      BY <3>1, <3>4
    <3>6. x \in Entities => IsRow(k) /\ k.indexed = rows[x].indexed
      BY <3>3, <3>4, EditedRow DEF FenceOf
    <3>7. x \in Entities => IsRow(r) /\ r.indexed = rows[x].indexed
      BY <3>5, <3>6, EditedRow
    <3>8. PICK j : IsJob(j) /\ j.pc = "rebuild" /\ work' = [work EXCEPT ![w] = j]
      BY <1>1, <2>1, GotoJob DEF SaveGap
    <3> QED
      BY <3>2, <3>7, <3>8
  <2>2. CASE SaveRestoring(w)
    <3>1. PICK x, r : x = TaskOf(w).entity /\ r = [work[w].row EXCEPT !.status = "RESTORING"]
      OBVIOUS
    <3>2. rows' = [rows EXCEPT ![x] = r] /\ work[w].pc = "restoring"
      BY <2>2, <3>1 DEF SaveRestoring, TaskOf, At
    <3>3. FenceOf(work[w].row, x)
      BY <2>2, <3>1 DEF SaveRestoring, At, FenceInv, FenceUnmoved, Editing
    <3>4. x \in Entities => IsRow(r) /\ r.indexed = rows[x].indexed
      BY <3>1, <3>3, EditedRow DEF FenceOf
    <3>5. PICK j : /\ IsJob(j) /\ j.pc = "fetch" /\ work' = [work EXCEPT ![w] = j]
                   /\ j.todo = work[w].todo /\ j.row = work[w].row
      BY <1>1, <2>2, GotoJob DEF SaveRestoring
    <3> QED
      BY <3>2, <3>4, <3>5
  <2>3. CASE CommitTombstone(w)
    <3>1. PICK x, r : x = Event(w).entity /\ r = [work[w].row EXCEPT !.status = "DELETED"]
      OBVIOUS
    <3>2. rows' = [rows EXCEPT ![x] = r] /\ work[w].pc = "tombstone"
      BY <2>3, <3>1 DEF CommitTombstone, At
    <3>3. FenceOf(work[w].row, x)
      BY <3>1, <3>2 DEF FenceInv, FenceUnmoved, Dropping
    <3>4. x \in Entities => IsRow(r) /\ r.indexed = rows[x].indexed
      BY <3>1, <3>3, EditedRow DEF FenceOf
    <3>5. PICK j : IsJob(j) /\ j.pc \in {"event", "poll"} /\ work' = [work EXCEPT ![w] = j]
      BY <2>3, NextEventJob DEF CommitTombstone
    <3> QED
      BY <3>2, <3>4, <3>5
  <2> QED
    BY <2>1, <2>2, <2>3
<1>3. /\ rows' = [e \in Entities |-> rows'[e]]
      /\ \A e \in Entities : IsRow(rows'[e]) /\ rows'[e] = IF e = x THEN r ELSE rows[e]
  BY <1>1, <1>2, RowWritten
<1>4. \A e \in Entities : rows'[e].indexed = rows[e].indexed
  BY <1>2, <1>3
<1>5. j.pc \in Editing => FenceOf(j.row, Head(j.todo).entity)'
  <2>1. j.pc \in Editing => FenceOf(work[w].row, TaskOf(w).entity) /\ j.todo = work[w].todo /\ j.row = work[w].row
    BY <1>2 DEF FenceInv, FenceUnmoved, Editing
  <2> QED
    BY <1>4, <2>1 DEF FenceOf, TaskOf
<1>6. j.pc \notin Dropping \cup Verified
  BY <1>2 DEF Dropping, Verified
<1> QED
  BY <1>1, <1>2, <1>3, <1>4, <1>5, <1>6, JobStep DEF Commits

\* The fence moves to the verified revision.
LEMMA FenceCalls ==
    ASSUME NEW w, Workers = {w}, FenceInv, SaveEntity(w) \/ CommitEdit(w)
    PROVE  FenceInv' /\ Commits
<1>1. /\ UNCHANGED <<store, loader>> /\ Loaded /\ IsJob(work[w]) /\ Shapes
      /\ work[w].pc \in Verified
  BY DEF SaveEntity, CommitEdit, At, Loaded, storeVars, FenceInv, Shapes, Verified
<1>2. store[TaskOf(w).entity] = TaskOf(w).rev
  BY <1>1 DEF FenceInv, GraphVerified
<1>3. PICK r : r = Indexed(work[w].row, TaskOf(w).rev)
  OBVIOUS
<1>4. IsRow(r) /\ r.indexed = TaskOf(w).rev
  BY <1>3 DEF Indexed, IsRow
<1>5. rows' = [rows EXCEPT ![TaskOf(w).entity] = r]
  BY <1>3 DEF SaveEntity, CommitEdit, TaskOf
<1>6. /\ rows' = [e \in Entities |-> rows'[e]]
      /\ \A e \in Entities : /\ IsRow(rows'[e])
                             /\ rows'[e] = IF e = TaskOf(w).entity THEN r ELSE rows[e]
  BY <1>1, <1>4, <1>5, RowWritten
<1>7. Commits
  BY <1>2, <1>4, <1>6 DEF Commits
<1>8. PICK j : /\ IsJob(j) /\ work' = [work EXCEPT ![w] = j]
               /\ \/ j.pc \in {"advance", "entity", "event", "poll"}
                  \/ j.pc = "commit" /\ j.todo = work[w].todo
  BY <1>1, GotoJob, NextTaskJob, NextEventJob DEF SaveEntity, CommitEdit
<1>9. /\ j.pc \notin Editing \cup Dropping
      /\ j.pc \in Verified => store'[Head(j.todo).entity] = Head(j.todo).rev
  BY <1>1, <1>2, <1>8 DEF Editing, Dropping, Verified, TaskOf
<1> QED
  BY <1>1, <1>6, <1>7, <1>8, <1>9, JobStep

LEMMA WorkersCommit ==
    ASSUME NEW w, Workers = {w}, FenceInv, WorkerStep(w) \/ Reject(w) \/ Crash(w)
    PROVE  FenceInv' /\ Commits
BY RestingCalls, PassingCalls, DispatchCall, LoadEntityCall, StoreCalls, StatusCalls, FenceCalls
   DEF WorkerStep

-----------------------------------------------------------------------------
(***************************************************************************)
(* The bootstrap, and the theorem.                                         *)
(***************************************************************************)

\* While the bootstrap works the worker sleeps.
LEMMA LoaderCommits ==
    ASSUME FenceInv, LoaderNext \/ LoaderDies
    PROVE  FenceInv' /\ ~Loaded
<1>1. ~Loaded /\ work' = work
  BY DEF LoaderNext, CaptureCursor, DumpEntity, LoadGraph, ResetStore, MarkCurrent, LoaderDies, Loaded
<1>2. \A w \in Workers : work'[w] = Asleep
  BY <1>1 DEF FenceInv, AsleepBefore
<1>3. rows' = [e \in Entities |-> rows'[e]] /\ \A e \in Entities : IsRow(rows'[e])
  <2>1. Shapes
    BY DEF FenceInv
  <2>2. CASE rows' = rows
    BY <2>1, <2>2 DEF Shapes
  <2>3. ASSUME NEW e \in Entities, NEW rev,
               rows' = [rows EXCEPT ![e] = [indexed |-> rev, seen |-> rev, status |-> "CURRENT"]]
        PROVE  rows' = [f \in Entities |-> rows'[f]] /\ \A f \in Entities : IsRow(rows'[f])
    <3>1. PICK r : r = [indexed |-> rev, seen |-> rev, status |-> "CURRENT"]
      OBVIOUS
    <3>2. IsRow(r)
      BY <3>1 DEF IsRow
    <3> QED
      BY <2>1, <2>3, <3>1, <3>2, RowWritten
  <2>4. \/ rows' = rows
        \/ \E e \in Entities : \E rev :
              rows' = [rows EXCEPT ![e] = [indexed |-> rev, seen |-> rev, status |-> "CURRENT"]]
    <3>1. ASSUME NEW e \in Entities, LoadGraph(e)
          PROVE  \/ rows' = rows
                 \/ \E rev : rows' = [rows EXCEPT ![e] =
                                        [indexed |-> rev, seen |-> rev, status |-> "CURRENT"]]
      BY <3>1 DEF LoadGraph
    <3>2. \/ rows' = rows
          \/ \E e \in Entities : LoadGraph(e)
      BY DEF LoaderNext, CaptureCursor, DumpEntity, ResetStore, MarkCurrent, LoaderDies, dbVars
    <3> QED
      BY <3>1, <3>2
  <2> QED
    BY <2>2, <2>3, <2>4
<1>4. Shapes'
  BY <1>1, <1>3 DEF FenceInv, Shapes
<1>5. Asleep.pc \notin Editing \cup Dropping \cup Verified
  BY AsleepShape DEF Editing, Dropping, Verified
<1> QED
  BY <1>1, <1>2, <1>4, <1>5 DEF FenceInv, FenceUnmoved, GraphVerified, AsleepBefore

LEMMA FenceInit == Init => FenceInv
<1> SUFFICES ASSUME Init PROVE FenceInv
  OBVIOUS
<1>1. \A w \in Workers : work[w] = Asleep /\ work[w].pc = "poll"
  BY AsleepShape DEF Init
<1>2. \A e \in Entities : IsRow(rows[e])
  BY DEF Init, Unindexed, IsRow
<1>3. Shapes
  BY <1>1, <1>2, AsleepShape DEF Init, Shapes
<1> QED
  BY <1>1, <1>3 DEF FenceInv, FenceUnmoved, GraphVerified, AsleepBefore, Editing, Dropping, Verified

\* The deployment starts one worker per generation; with two of them the
\* theorem is false (one puts a graph between the other's check and its save).
OneWorker == \E w : Workers = {w}

\* A fence moves only to the revision that is in the store, for any wiki and
\* any number of crashes and rejected calls (#edit checks the graph it wrote
\* before saveEntity and commitEvent).
THEOREM FencesCommitVerifiedGraphs == OneWorker => (SyncSpec => FenceCommitsVerifiedGraph)
<1> SUFFICES ASSUME OneWorker
             PROVE  SyncSpec => FenceCommitsVerifiedGraph
  OBVIOUS
<1> PICK w : Workers = {w}
  BY DEF OneWorker
<1>1. FenceInv /\ [Next]_vars => FenceInv' /\ [FenceMovesToGraph]_vars
  <2> SUFFICES ASSUME FenceInv, [Next]_vars
               PROVE  FenceInv' /\ [FenceMovesToGraph]_vars
    OBVIOUS
  <2>1. CASE UNCHANGED <<rows, store, loader, work>>
    <3>1. FenceInv'
      BY <2>1 DEF FenceInv, Shapes, FenceUnmoved, FenceOf, GraphVerified, AsleepBefore, Loaded,
         TaskOf, Event
    <3> QED
      BY <2>1, <3>1 DEF FenceMovesToGraph
  <2>2. CASE LoaderNext \/ LoaderDies
    BY <2>2, LoaderCommits DEF FenceMovesToGraph
  <2>3. CASE WorkerStep(w) \/ Reject(w) \/ Crash(w)
    BY <2>3, WorkersCommit DEF FenceMovesToGraph, Commits
  <2> QED
    BY <2>1, <2>2, <2>3 DEF Next, vars, dbVars, storeVars
<1> QED
  BY <1>1, FenceInit, PTL DEF SyncSpec, FenceCommitsVerifiedGraph

-----------------------------------------------------------------------------
(***************************************************************************)
(* The rows of RecentChanges and the pages read from them.                 *)
(***************************************************************************)

\* The same row, but for the flag that tells what its page is now.
Like(a, b) == /\ a.rcid = b.rcid /\ a.kind = b.kind /\ a.entity = b.entity
              /\ a.rev = b.rev /\ a.old = b.old /\ a.mentions = b.mentions

LEMMA OldestOfRows ==
    ASSUME NEW S, S \subseteq Row, S # {}
    PROVE  Oldest(S) \in S /\ \A row \in S : Oldest(S).rcid <= row.rcid
<1> DEFINE Ids == {row.rcid : row \in S}
<1>1. Ids \subseteq Nat /\ Ids # {}
  BY DEF Row
<1>2. PICK n \in Ids : \A m \in Ids : ~(<<m, n>> \in OpToRel(<, Nat))
  BY <1>1, WFMin, NatLessThanWellFounded, Zenon
<1>3. \A m \in Ids : ~(m < n)
  BY <1>1, <1>2, Zenon DEF OpToRel
<1>4. PICK first \in S : first.rcid = n
  OBVIOUS
<1>5. ASSUME NEW row \in S
      PROVE  first.rcid <= row.rcid
  <2>1. row.rcid \in Nat /\ first.rcid \in Nat
    BY <1>1
  <2>2. ~(row.rcid < first.rcid)
    BY <1>3, <1>4
  <2> QED
    BY <2>1, <2>2
<1> QED
  BY <1>4, <1>5, Zenon DEF Oldest

\* A page is a beginning of the rows after the cursor.
LEMMA ReadsInOrder ==
    ASSUME IsFiniteSet(rc), rc \subseteq Row, NEW cursor \in Nat
    PROVE  /\ ReadChanges(cursor) \subseteq Row
           /\ \A x \in ReadChanges(cursor) : x.rcid > cursor /\ \E row \in rc : Like(row, x)
           /\ \A row \in rc : row.rcid > cursor =>
                 \/ \E x \in ReadChanges(cursor) : x.rcid = row.rcid
                 \/ \A x \in ReadChanges(cursor) : x.rcid < row.rcid
           /\ \A x, y \in ReadChanges(cursor) : Like(x, y) => x = y
<1> DEFINE ahead == {row \in rc : row.rcid > cursor}
           before(row) == {other \in ahead : other.rcid < row.rcid}
           flagged(row) == [row EXCEPT !.redirect = pages[row.entity].redirect # None]
<1>1. ReadChanges(cursor) = {flagged(row) : row \in {next \in ahead : Cardinality(before(next)) < PageSize}}
  BY DEF ReadChanges, NextRows
<1>2. \A row \in Row : flagged(row) \in Row /\ Like(row, flagged(row))
  BY DEF Row, Like
<1>3. IsFiniteSet(ahead)
  BY FS_Subset
<1>4. \A row \in ahead : IsFiniteSet(before(row)) /\ Cardinality(before(row)) \in Nat
  BY <1>3, FS_Subset, FS_CardinalityType
<1>5. ASSUME NEW a \in ahead, NEW b \in ahead, a.rcid <= b.rcid
      PROVE  Cardinality(before(a)) <= Cardinality(before(b))
  <2>1. before(a) \subseteq before(b)
    BY <1>5 DEF Row
  <2> QED
    BY <1>4, <2>1, FS_Subset
<1>6. PageSize \in Nat
  BY SourceAssumption
<1> HIDE DEF before, flagged
<1>7. ASSUME NEW row \in rc, row.rcid > cursor, ~ \E x \in ReadChanges(cursor) : x.rcid = row.rcid,
             NEW x \in ReadChanges(cursor)
      PROVE  x.rcid < row.rcid
  <2>1. PICK next \in ahead : x = flagged(next) /\ Cardinality(before(next)) < PageSize
    BY <1>1
  <2>2. x.rcid = next.rcid
    BY <1>2, <2>1 DEF Like
  <2>3. ~(Cardinality(before(row)) < PageSize)
    BY <1>1, <1>2, <1>7 DEF Like
  <2>4. ~(row.rcid <= next.rcid)
    BY <1>4, <1>5, <1>6, <1>7, <2>1, <2>3
  <2> QED
    BY <2>2, <2>4 DEF Row
<1>8. ASSUME NEW x \in ReadChanges(cursor)
      PROVE  x \in Row /\ x.rcid > cursor /\ \E row \in rc : Like(row, x)
  BY <1>1, <1>2 DEF Like
<1>9. ASSUME NEW x \in ReadChanges(cursor), NEW y \in ReadChanges(cursor), Like(x, y)
      PROVE  x = y
  <2>1. x.redirect = (pages[x.entity].redirect # None) /\ y.redirect = (pages[y.entity].redirect # None)
    BY <1>1 DEF flagged, Row
  <2>2. x \in Row /\ y \in Row
    BY <1>8
  <2>3. x.redirect = y.redirect
    BY <1>9, <2>1, Zenon DEF Like
  <2> QED
    BY <1>9, <2>2, <2>3 DEF Row, Like
<1> QED
  BY <1>7, <1>8, <1>9

-----------------------------------------------------------------------------
(***************************************************************************)
(* The order of the wiki's history: rows with a revision are in the order  *)
(* of their revisions, and an edit names the revision it followed.         *)
(***************************************************************************)

Follows(a, b) ==
    /\ a.rcid = b.rcid => Like(a, b)
    /\ a.rev > 0 /\ b.rev > 0 /\ a.rcid <= b.rcid => a.rev <= b.rev

\* r.old is the revision of the page before r.rev.
Successive(r) ==
    /\ r.rev \in 1..Len(revisions) /\ revisions[r.rev] = r.entity
    /\ r.old \in 1..(r.rev - 1) /\ revisions[r.old] = r.entity
    /\ \A k \in (r.old + 1)..(r.rev - 1) : revisions[k] # r.entity

Recorded(r) ==
    /\ r.rcid \in 1..lastRcid
    /\ r.rev <= Len(revisions)
    /\ r.kind = "edit" => Successive(r)
    /\ r.kind = "delete" => r.rev = 0

History(R) == (\A r \in R : Recorded(r)) /\ (\A a, b \in R : Follows(a, b))

LatestOf(e) ==
    /\ pages[e].rev \in 1..Len(revisions) /\ revisions[pages[e].rev] = e
    /\ \A k \in (pages[e].rev + 1)..Len(revisions) : revisions[k] # e

WikiInv == IsFiniteSet(rc) /\ \A e \in Entities : LatestOf(e)

\* What a change of the wiki adds, and what it keeps.
WikiGrows ==
    /\ WikiTypeOK' /\ WikiInv'
    /\ lastRcid' >= lastRcid
    /\ \A r \in rc' \ rc : /\ r.rcid > lastRcid /\ Recorded(r)'
                           /\ r.rev = 0 \/ r.rev > Len(revisions)
    /\ \A a, b \in rc' \ rc : Follows(a, b)
    /\ Len(revisions') >= Len(revisions)
    /\ \A k \in 1..Len(revisions) : revisions'[k] = revisions[k]
    /\ \A e \in Entities : /\ pages'[e].rev >= pages[e].rev
                           /\ pages[e].redirect # None => pages'[e].redirect # None
    /\ ~purged' => /\ ~purged
                   /\ \A r \in rc : r.rev = 0 => r \in rc'
                   /\ \A e \in Entities : pages[e].exists /\ ~pages'[e].exists =>
                         \E r \in rc' : r.rcid > lastRcid /\ r.kind = "delete" /\ r.entity = e

\* One row is written, without a revision.
LEMMA LogRowGrows ==
    ASSUME WikiTypeOK, WikiInv, NEW kind \in RowKinds \ {"edit"}, NEW e \in Entities,
           NEW row, row = NewRow(1, kind, e, 0, 0, {}),
           lastRcid' = lastRcid + 1, revisions' = revisions, purged' = purged,
           NEW kept, kept \subseteq rc, \A r \in rc : r.rev = 0 => r \in kept,
           rc' = kept \cup {row},
           NEW exists \in BOOLEAN,
           pages' = pages \/ pages' = [pages EXCEPT ![e].exists = exists],
           pages' # pages /\ ~exists => kind = "delete"
    PROVE  WikiGrows
<1>1. /\ pages' \in [Entities -> Page]
      /\ \A f \in Entities : pages'[f].rev = pages[f].rev /\ pages'[f].redirect = pages[f].redirect
      /\ \A f \in Entities : f # e \/ pages' = pages => pages'[f] = pages[f]
      /\ pages' # pages => pages'[e].exists = exists
  <2>1. pages \in [Entities -> Page]
    BY DEF WikiTypeOK
  <2>2. CASE pages' = pages
    BY <2>1, <2>2
  <2>3. CASE pages' = [pages EXCEPT ![e].exists = exists]
    <3>1. \A f \in Entities : f # e => pages'[f] = pages[f]
      BY <2>1, <2>3
    <3>2. pages'[e] = [pages[e] EXCEPT !.exists = exists]
      BY <2>1, <2>3
    <3>3. /\ pages'[e] \in Page /\ pages'[e].rev = pages[e].rev
          /\ pages'[e].redirect = pages[e].redirect /\ pages'[e].exists = exists
      BY <2>1, <3>2 DEF Page
    <3>4. pages' \in [Entities -> Page]
      BY <2>1, <2>3, <3>1, <3>3
    <3> QED
      BY <3>1, <3>3, <3>4
  <2> QED
    BY <2>2, <2>3
<1>2. /\ row \in Row /\ row.rcid = lastRcid + 1 /\ row.kind = kind /\ row.entity = e /\ row.rev = 0
      /\ lastRcid \in Nat
  BY DEF NewRow, Row, WikiTypeOK
<1>3. WikiTypeOK'
  BY <1>1, <1>2 DEF WikiTypeOK
<1>4. IsFiniteSet(rc')
  <2>1. IsFiniteSet(kept)
    BY FS_Subset DEF WikiInv
  <2> QED
    BY <2>1, FS_AddElement
<1>5. \A f \in Entities : LatestOf(f)'
  BY <1>1 DEF WikiInv, LatestOf
<1>6. \A r \in rc' \ rc : r = row
  OBVIOUS
<1>7. Recorded(row)' /\ Follows(row, row)
  BY <1>2 DEF Recorded, Follows, Like, WikiTypeOK
<1>8. ASSUME ~purged'
      PROVE  /\ ~purged
             /\ \A r \in rc : r.rev = 0 => r \in rc'
             /\ \A f \in Entities : pages[f].exists /\ ~pages'[f].exists =>
                   \E r \in rc' : r.rcid > lastRcid /\ r.kind = "delete" /\ r.entity = f
  <2>1. ~purged /\ \A r \in rc : r.rev = 0 => r \in rc'
    BY <1>8
  <2>2. ASSUME NEW f \in Entities, pages[f].exists, ~pages'[f].exists
        PROVE  \E r \in rc' : r.rcid > lastRcid /\ r.kind = "delete" /\ r.entity = f
    <3>1. f = e /\ pages' # pages
      BY <1>1, <2>2
    <3>2. ~exists
      BY <1>1, <2>2, <3>1
    <3> QED
      BY <1>2, <3>1, <3>2
  <2> QED
    BY <2>1, <2>2
<1>9. \A f \in Entities : /\ pages'[f].rev >= pages[f].rev
                          /\ pages[f].redirect # None => pages'[f].redirect # None
  BY <1>1 DEF WikiTypeOK, Page
<1>10. Len(revisions) \in Nat
  BY DEF WikiTypeOK
<1> QED
  BY <1>2, <1>3, <1>4, <1>5, <1>6, <1>7, <1>8, <1>9, <1>10 DEF WikiGrows, WikiInv

LEMMA LogPagesGrow ==
    ASSUME WikiTypeOK, WikiInv, NEW e \in Entities,
           DeletePage(e) \/ UndeletePage(e) \/ ProtectPage(e) \/ OtherChange
    PROVE  WikiGrows
<1>1. CASE DeletePage(e)
  <2> DEFINE kept == {row \in rc : row.entity # e \/ row.rev = 0}
  <2>1. pages' = [pages EXCEPT ![e].exists = FALSE]
    BY <1>1 DEF DeletePage
  <2>2. /\ rc' = kept \cup {NewRow(1, "delete", e, 0, 0, {})}
        /\ lastRcid' = lastRcid + 1 /\ revisions' = revisions /\ purged' = purged
    BY <1>1 DEF DeletePage
  <2>3. kept \subseteq rc /\ \A r \in rc : r.rev = 0 => r \in kept
    OBVIOUS
  <2>4. "delete" \in RowKinds \ {"edit"} /\ FALSE \in BOOLEAN
    BY DEF RowKinds
  <2> HIDE DEF kept
  <2> QED
    BY <2>1, <2>2, <2>3, <2>4, LogRowGrows
<1>2. CASE UndeletePage(e)
  <2>1. pages' = [pages EXCEPT ![e].exists = TRUE]
    BY <1>2 DEF UndeletePage
  <2>2. /\ rc' = rc \cup {NewRow(1, "restore", e, 0, 0, {})}
        /\ lastRcid' = lastRcid + 1 /\ revisions' = revisions /\ purged' = purged
    BY <1>2 DEF UndeletePage, Publish
  <2>3. "restore" \in RowKinds \ {"edit"} /\ TRUE \in BOOLEAN
    BY DEF RowKinds
  <2> QED
    BY <2>1, <2>2, <2>3, LogRowGrows
<1>3. ASSUME NEW kind \in RowKinds \ {"edit"}, NEW f \in Entities,
             Publish(1, {NewRow(1, kind, f, 0, 0, {})}), UNCHANGED <<pages, revisions, purged>>
      PROVE  WikiGrows
  <2>1. /\ rc' = rc \cup {NewRow(1, kind, f, 0, 0, {})}
        /\ lastRcid' = lastRcid + 1 /\ revisions' = revisions /\ purged' = purged /\ pages' = pages
    BY <1>3 DEF Publish
  <2>2. TRUE \in BOOLEAN
    OBVIOUS
  <2> QED
    BY <2>1, <2>2, LogRowGrows
<1>4. CASE ProtectPage(e)
  BY <1>3, <1>4 DEF ProtectPage, RowKinds
<1>5. CASE OtherChange
  BY <1>3, <1>5 DEF OtherChange, RowKinds
<1> QED
  BY <1>1, <1>2, <1>4, <1>5

LEMMA EditPageGrows ==
    ASSUME WikiTypeOK, WikiInv, NEW e \in Entities, EditPage(e)
    PROVE  WikiGrows
<1>0. PICK row : row = NewRow(1, "edit", e, NextRev, pages[e].rev, {})
  OBVIOUS
<1>1. /\ Len(revisions) \in Nat /\ NextRev = Len(revisions) + 1
      /\ revisions' \in Seq(Entities) /\ Len(revisions') = NextRev /\ revisions'[NextRev] = e
      /\ \A k \in 1..Len(revisions) : revisions'[k] = revisions[k]
  BY DEF WikiTypeOK, EditPage, NextRev
<1>2. /\ pages' \in [Entities -> Page]
      /\ pages'[e].rev = NextRev /\ pages'[e].exists /\ pages'[e].redirect = None
      /\ \A f \in Entities : f # e => pages'[f] = pages[f]
      /\ pages[e].redirect = None
  BY <1>1 DEF WikiTypeOK, EditPage, Page, Editable
<1>3. pages[e] \in Page /\ LatestOf(e)
  BY DEF WikiTypeOK, WikiInv
<1>4. /\ row \in Row /\ row.rcid = lastRcid + 1 /\ row.kind = "edit" /\ row.entity = e
      /\ row.rev = NextRev /\ row.old = pages[e].rev /\ lastRcid \in Nat
  BY <1>0, <1>1, <1>3 DEF NewRow, Row, RowKinds, WikiTypeOK, Page
<1>5. /\ rc' = rc \cup {row} /\ lastRcid' = lastRcid + 1 /\ purged' = purged
  BY <1>0 DEF EditPage, Publish
<1>6. WikiTypeOK'
  BY <1>1, <1>2, <1>4, <1>5 DEF WikiTypeOK
<1>7. IsFiniteSet(rc')
  BY <1>5, FS_AddElement DEF WikiInv
<1>8. ASSUME NEW f \in Entities
      PROVE  LatestOf(f)'
  <2>1. CASE f = e
    BY <1>1, <1>2, <2>1 DEF LatestOf
  <2>2. CASE f # e
    <3>1. LatestOf(f)
      BY DEF WikiInv
    <3>2. pages'[f].rev \in 1..Len(revisions') /\ revisions'[pages'[f].rev] = f
      BY <1>1, <1>2, <2>2, <3>1 DEF LatestOf
    <3>3. ASSUME NEW k \in (pages'[f].rev + 1)..Len(revisions')
          PROVE  revisions'[k] # f
      <4>1. CASE k = NextRev
        BY <1>1, <2>2, <4>1
      <4>2. CASE k # NextRev
        <5>1. k \in (pages[f].rev + 1)..Len(revisions)
          BY <1>1, <1>2, <2>2, <3>1, <3>3, <4>2 DEF LatestOf
        <5>2. k \in 1..Len(revisions)
          BY <1>1, <3>1, <5>1 DEF LatestOf
        <5> QED
          BY <1>1, <3>1, <5>1, <5>2 DEF LatestOf
      <4> QED
        BY <4>1, <4>2
    <3> QED
      BY <3>2, <3>3 DEF LatestOf
  <2> QED
    BY <2>1, <2>2
<1>9. Successive(row)'
  <2>1. pages[e].rev \in 1..Len(revisions) /\ revisions[pages[e].rev] = e
    BY <1>3 DEF LatestOf
  <2>2. \A k \in (pages[e].rev + 1)..Len(revisions) : k \in 1..Len(revisions) /\ revisions[k] # e
    BY <1>1, <1>3 DEF LatestOf
  <2>3. row.rev - 1 = Len(revisions)
    BY <1>1, <1>4
  <2>4. \A k \in (row.old + 1)..(row.rev - 1) : revisions'[k] # row.entity
    BY <1>1, <1>4, <2>2, <2>3
  <2>5. row.rev \in 1..Len(revisions') /\ revisions'[row.rev] = row.entity
    BY <1>1, <1>4
  <2>6. row.old \in 1..(row.rev - 1) /\ revisions'[row.old] = row.entity
    BY <1>1, <1>4, <2>1
  <2> QED
    BY <2>4, <2>5, <2>6 DEF Successive
<1>10. Recorded(row)'
  BY <1>1, <1>4, <1>5, <1>9 DEF Recorded
<1>11. Follows(row, row)
  BY <1>1, <1>4 DEF Follows, Like
<1>12. \A f \in Entities : /\ pages'[f].rev >= pages[f].rev
                           /\ pages[f].redirect # None => pages'[f].redirect # None
  BY <1>1, <1>2, <1>3 DEF WikiTypeOK, Page, LatestOf
<1>13. \A f \in Entities : ~(pages[f].exists /\ ~pages'[f].exists)
  BY <1>2
<1> QED
  BY <1>1, <1>4, <1>5, <1>6, <1>7, <1>8, <1>10, <1>11, <1>12, <1>13 DEF WikiGrows, WikiInv

LEMMA MergeItemsGrow ==
    ASSUME WikiTypeOK, WikiInv, NEW from \in Entities, NEW to \in Entities, MergeItems(from, to)
    PROVE  WikiGrows
<1>0. PICK n, one, two, three :
         /\ n = Len(revisions)
         /\ one = NewRow(1, "merge", from, n + 1, pages[from].rev, {to})
         /\ two = NewRow(2, "merge", to, n + 2, pages[to].rev, {from})
         /\ three = NewRow(3, "redirect", from, n + 3, n + 1, {})
  OBVIOUS
<1>1. n \in Nat /\ NextRev = n + 1 /\ NextRev + 1 = n + 2 /\ NextRev + 2 = n + 3
  BY <1>0 DEF WikiTypeOK, NextRev
<1>2. /\ revisions' \in Seq(Entities) /\ Len(revisions') = n + 3
      /\ revisions'[n + 1] = from /\ revisions'[n + 2] = to /\ revisions'[n + 3] = from
      /\ \A k \in 1..n : revisions'[k] = revisions[k]
  <2>1. PICK more : more = <<from, to, from>> /\ revisions' = revisions \o more
    BY DEF MergeItems
  <2>2. /\ more \in Seq(Entities) /\ Len(more) = 3
        /\ more[1] = from /\ more[2] = to /\ more[3] = from
    BY <2>1
  <2>3. revisions \in Seq(Entities)
    BY DEF WikiTypeOK
  <2>4. /\ revisions' \in Seq(Entities) /\ Len(revisions') = n + 3
        /\ \A i \in 1..(n + 3) : revisions'[i] = IF i <= n THEN revisions[i] ELSE more[i - n]
    BY <1>0, <2>1, <2>2, <2>3, ConcatProperties
  <2>5. \A i \in {n + 1, n + 2, n + 3} : revisions'[i] = more[i - n]
    BY <1>1, <2>4
  <2>6. (n + 1) - n = 1 /\ (n + 2) - n = 2 /\ (n + 3) - n = 3
    BY <1>1
  <2>7. revisions'[n + 1] = from /\ revisions'[n + 2] = to /\ revisions'[n + 3] = from
    BY <2>2, <2>5, <2>6
  <2>8. \A k \in 1..n : revisions'[k] = revisions[k]
    BY <1>1, <2>4
  <2> QED
    BY <2>4, <2>7, <2>8
<1>3. /\ pages' \in [Entities -> Page] /\ from # to
      /\ pages'[from].rev = n + 3 /\ pages'[from].exists /\ pages'[from].redirect = to
      /\ pages'[to].rev = n + 2 /\ pages'[to].exists
      /\ pages'[to].redirect = pages[to].redirect
      /\ \A f \in Entities \ {from, to} : pages'[f] = pages[f]
      /\ pages[from].exists /\ pages[to].exists
      /\ to # None
  <2>1. pages' = [pages EXCEPT ![from] = [rev |-> n + 3, exists |-> TRUE, redirect |-> to],
                               ![to] = [@ EXCEPT !.rev = n + 2]]
    BY <1>1 DEF MergeItems
  <2>2. /\ from # to /\ pages[from].exists /\ pages[to].exists /\ to # None
    BY SourceAssumption DEF MergeItems
  <2>3. pages \in [Entities -> Page] /\ pages[to] \in Page
    BY DEF WikiTypeOK
  <2>4. PICK p, q : p = [rev |-> n + 3, exists |-> TRUE, redirect |-> to] /\ q = [pages[to] EXCEPT !.rev = n + 2]
    OBVIOUS
  <2>5. p \in Page /\ p.rev = n + 3 /\ p.exists /\ p.redirect = to
    BY <1>1, <2>4 DEF Page
  <2>6. q \in Page /\ q.rev = n + 2 /\ q.exists /\ q.redirect = pages[to].redirect
    BY <1>1, <2>2, <2>3, <2>4 DEF Page
  <2>7. pages' = [pages EXCEPT ![from] = p, ![to] = q]
    BY <2>1, <2>2, <2>4
  <2>8. /\ pages' \in [Entities -> Page] /\ pages'[from] = p /\ pages'[to] = q
        /\ \A f \in Entities \ {from, to} : pages'[f] = pages[f]
    BY <2>2, <2>3, <2>5, <2>6, <2>7
  <2> QED
    BY <2>2, <2>5, <2>6, <2>8
<1>4. pages[from] \in Page /\ LatestOf(from) /\ pages[to] \in Page /\ LatestOf(to)
  BY DEF WikiTypeOK, WikiInv
<1>5. /\ lastRcid \in Nat
      /\ one \in Row /\ one.rcid = lastRcid + 1 /\ one.kind = "merge" /\ one.rev = n + 1
      /\ two \in Row /\ two.rcid = lastRcid + 2 /\ two.kind = "merge" /\ two.rev = n + 2
      /\ three \in Row /\ three.rcid = lastRcid + 3 /\ three.kind = "redirect" /\ three.rev = n + 3
  BY <1>0, <1>1, <1>4 DEF NewRow, Row, RowKinds, WikiTypeOK, Page
<1>6. rc' = rc \cup {one, two, three} /\ lastRcid' = lastRcid + 3 /\ purged' = purged
  BY <1>0, <1>1 DEF MergeItems, Publish
<1>7. WikiTypeOK'
  BY <1>2, <1>3, <1>5, <1>6 DEF WikiTypeOK
<1>8. IsFiniteSet(rc')
  <2>1. rc' = ((rc \cup {one}) \cup {two}) \cup {three}
    BY <1>6
  <2> QED
    BY <2>1, FS_AddElement DEF WikiInv
<1>9. ASSUME NEW f \in Entities
      PROVE  LatestOf(f)'
  <2>0. LatestOf(f) /\ pages[f] \in Page
    BY DEF WikiInv, WikiTypeOK
  <2>1. CASE f = from
    BY <1>1, <1>2, <1>3, <2>1 DEF LatestOf
  <2>2. CASE f = to
    <3>1. \A k \in (n + 3)..(n + 3) : revisions'[k] # to
      BY <1>1, <1>2, <1>3
    <3> QED
      BY <1>1, <1>2, <1>3, <2>2, <3>1 DEF LatestOf
  <2>3. CASE f \notin {from, to}
    <3>1. pages'[f].rev = pages[f].rev /\ pages'[f].rev \in 1..n /\ revisions'[pages'[f].rev] = f
      BY <1>0, <1>2, <1>3, <2>0, <2>3 DEF LatestOf
    <3>2. ASSUME NEW k \in (pages'[f].rev + 1)..Len(revisions')
          PROVE  revisions'[k] # f
      <4>1. CASE k \in {n + 1, n + 2, n + 3}
        BY <1>2, <2>3, <4>1
      <4>2. CASE k \notin {n + 1, n + 2, n + 3}
        <5>1. k \in (pages[f].rev + 1)..Len(revisions) /\ k \in 1..n
          BY <1>0, <1>1, <1>2, <2>0, <3>1, <3>2, <4>2 DEF LatestOf
        <5> QED
          BY <1>2, <2>0, <5>1 DEF LatestOf
      <4> QED
        BY <4>1, <4>2
    <3> QED
      BY <1>1, <1>2, <3>1, <3>2 DEF LatestOf
  <2> QED
    BY <2>1, <2>2, <2>3
<1>10. Recorded(one)' /\ Recorded(two)' /\ Recorded(three)'
  BY <1>1, <1>2, <1>5, <1>6 DEF Recorded
<1>11. \A a, b \in {one, two, three} : Follows(a, b)
  <2>1. \A a \in {one, two, three} : Follows(a, a)
    BY <1>1, <1>5 DEF Follows, Like
  <2>2. Follows(one, two) /\ Follows(two, one)
    BY <1>1, <1>5 DEF Follows
  <2>3. Follows(one, three) /\ Follows(three, one)
    BY <1>1, <1>5 DEF Follows
  <2>4. Follows(two, three) /\ Follows(three, two)
    BY <1>1, <1>5 DEF Follows
  <2> QED
    BY <2>1, <2>2, <2>3, <2>4
<1>12. ASSUME NEW f \in Entities
       PROVE  /\ pages'[f].rev >= pages[f].rev
              /\ pages[f].redirect # None => pages'[f].redirect # None
              /\ ~(pages[f].exists /\ ~pages'[f].exists)
  <2>0. LatestOf(f) /\ pages[f] \in Page
    BY DEF WikiInv, WikiTypeOK
  <2>1. pages[f].rev \in 1..n
    BY <1>0, <2>0 DEF LatestOf
  <2>2. CASE f = from
    BY <1>1, <1>3, <2>1, <2>2
  <2>3. CASE f = to
    BY <1>1, <1>3, <2>1, <2>3
  <2>4. CASE f \notin {from, to}
    BY <1>3, <2>1, <2>4
  <2> QED
    BY <2>2, <2>3, <2>4
<1>13. rc' \ rc \subseteq {one, two, three}
  BY <1>6
<1>14. \A r \in {one, two, three} : r.rcid > lastRcid /\ r.rev > Len(revisions) /\ Recorded(r)'
  BY <1>0, <1>1, <1>5, <1>10
<1>15. lastRcid' >= lastRcid /\ Len(revisions') >= Len(revisions)
  BY <1>0, <1>1, <1>2, <1>5, <1>6
<1>16. \A r \in rc : r \in rc'
  BY <1>6
<1>17. \A k \in 1..Len(revisions) : revisions'[k] = revisions[k]
  BY <1>0, <1>2
<1> QED
  BY <1>6, <1>7, <1>8, <1>9, <1>11, <1>12, <1>13, <1>14, <1>15, <1>16, <1>17 DEF WikiGrows, WikiInv

LEMMA WikiNextGrows ==
    ASSUME WikiTypeOK, WikiInv, WikiNext
    PROVE  WikiGrows
<1>1. CASE ExpireRow
  <2>1. /\ purged' /\ rc' \subseteq rc
        /\ UNCHANGED <<pages, revisions, lastRcid>>
    BY <1>1 DEF ExpireRow
  <2>2. IsFiniteSet(rc')
    BY <2>1, FS_Subset DEF WikiInv
  <2>3. WikiTypeOK' /\ \A e \in Entities : LatestOf(e)'
    BY <1>1, <2>1 DEF WikiTypeOK, WikiInv, LatestOf, ExpireRow
  <2>4. lastRcid' >= lastRcid /\ Len(revisions') >= Len(revisions)
    BY <2>1 DEF WikiTypeOK
  <2>5. \A e \in Entities : pages'[e].rev >= pages[e].rev
    BY <2>1 DEF WikiTypeOK, Page
  <2> QED
    BY <2>1, <2>2, <2>3, <2>4, <2>5 DEF WikiGrows, WikiInv
<1>2. CASE OtherChange
  BY <1>2, LogPagesGrow, SourceAssumption
<1> QED
  BY <1>1, <1>2, LogPagesGrow, EditPageGrows, MergeItemsGrow DEF WikiNext

-----------------------------------------------------------------------------
(***************************************************************************)
(* The invariant of the worker that reads this history.                    *)
(***************************************************************************)

Idle == {"poll", "read", "quiet"}
Tasking == Editing \cup {"entity", "commit"}

\* What a job holds at each call, for any worker.
EventOf(j) == Oldest(j.page)
ActionOf(j) == Classify(EventOf(j))
TaskIn(j) == Head(j.todo)

Busy(j) == /\ j.pc \in Idle <=> j.page = {}
           /\ j.pc \in Tasking => j.todo # <<>>

Typed == TypeOK /\ \A w \in Workers : Busy(work[w])

\* Rows the worker may still meet.
Seen == rc \cup UNION {work[w].page : w \in Workers}

HistoryInv == WikiInv /\ History(Seen) /\ sync.cursor <= lastRcid

\* The page is what follows the cursor, without a hole, and what has no
\* revision of its own is still in RecentChanges.
InOrder(j) ==
    /\ j.pc = "read" => j.cursor = sync.cursor
    /\ \A x \in j.page : x.rcid > sync.cursor
    /\ \A x, y \in j.page : x.rcid = y.rcid => x = y
    /\ \A row \in rc : row.rcid > sync.cursor =>
          (\E x \in j.page : x.rcid = row.rcid) \/ (\A x \in j.page : x.rcid < row.rcid)
    /\ ~purged => \A x \in j.page : x.rev = 0 => \E row \in rc : Like(row, x)

Untouched == {"fetch", "put"}
WithSchema == {"putSchema", "registerSchema"}

\* How far the event and the fence allow the worker to have come.
OnTask(j) ==
    /\ j.pc \in Tasking /\ ActionOf(j) = "ENTITY_EDIT" =>
          TaskIn(j).entity = EventOf(j).entity /\ TaskIn(j).rev = EventOf(j).rev
    /\ j.pc \in Tasking \cup {"advance", "resolve"} => ActionOf(j) # "ENTITY_DELETE"
    /\ j.pc \in {"resolve", "restoring"} => ActionOf(j) # "ENTITY_EDIT"
    /\ j.pc \in {"gap", "commit"} => ActionOf(j) = "ENTITY_EDIT"
    /\ j.pc \in Dropping => ActionOf(j) = "ENTITY_DELETE"
    /\ j.pc \in WithSchema => TaskIn(j).entity \in Properties
    /\ j.pc = "gap" =>
          Observe(rows[EventOf(j).entity].indexed, EventOf(j).rev, EventOf(j).old) = "GAP_DETECTED"
    /\ j.pc \in Untouched =>
          /\ ActionOf(j) = "ENTITY_EDIT" => rows[TaskIn(j).entity].status # "GAP"
          /\ rows[TaskIn(j).entity].status = "CURRENT" =>
                TaskIn(j).rev >= rows[TaskIn(j).entity].indexed

\* No edit of e that is still to come goes on from the indexed revision.
Holed(e) ==
    /\ rows[e].indexed # 0
    /\ pages[e].rev > rows[e].indexed
    /\ \A x \in Seen : /\ x.kind = "edit" /\ x.entity = e
                       /\ x.rcid > sync.cursor
                       /\ x.rev > rows[e].indexed
                       => x.old # rows[e].indexed

GapInv == \A e \in Entities : rows[e].status = "GAP" => Holed(e)

Backed(e) == rows[e].status = "CURRENT" =>
                \/ store[e] >= rows[e].indexed
                \/ store[e] = 0 /\ DeletionAhead(e)
                \/ pages[e].redirect # None

WorkInv == \A w \in Workers : InOrder(work[w]) /\ OnTask(work[w])

-----------------------------------------------------------------------------
\* Jobs, with their types.

LEMMA AsleepJob == Asleep \in Job /\ Busy(Asleep) /\ Asleep.pc = "poll" /\ Asleep.page = {}
BY EmptySeq DEF Asleep, Job, Busy, WorkerCalls, Idle, Tasking, Editing, EntityRow, Unindexed, EntityStates

LEMMA GotoTyped ==
    ASSUME NEW w, work[w] \in Job, Busy(work[w]), NEW pc \in WorkerCalls \ Idle, Goto(w, pc),
           work[w].pc \notin Idle, pc \in Tasking => work[w].pc \in Tasking
    PROVE  \E j \in Job : /\ Busy(j) /\ j.pc = pc
                          /\ j.page = work[w].page /\ j.todo = work[w].todo /\ j.row = work[w].row
                          /\ work' = [work EXCEPT ![w] = j]
<1>1. PICK j : j = [work[w] EXCEPT !.pc = pc]
  OBVIOUS
<1>2. /\ j \in Job /\ j.pc = pc
      /\ j.page = work[w].page /\ j.todo = work[w].todo /\ j.row = work[w].row
  BY <1>1 DEF Job
<1>3. Busy(j)
  BY <1>2 DEF Busy
<1> QED
  BY <1>1, <1>2, <1>3 DEF Goto

LEMMA EventOfJob ==
    ASSUME NEW j \in Job, Busy(j), j.pc \notin Idle
    PROVE  /\ EventOf(j) \in j.page /\ EventOf(j) \in Row
           /\ \A x \in j.page : EventOf(j).rcid <= x.rcid
<1>1. j.page \subseteq Row /\ j.page # {}
  BY DEF Job, Busy
<1> QED
  BY <1>1, OldestOfRows DEF EventOf

LEMMA TaskOfJob ==
    ASSUME NEW j \in Job, Busy(j), j.pc \in Tasking
    PROVE  TaskIn(j) \in Task /\ Tail(j.todo) \in Seq(Task)
<1>1. j.todo \in Seq(Task) /\ j.todo # <<>>
  BY DEF Job, Busy
<1> QED
  BY <1>1, HeadTailProperties DEF TaskIn

LEMMA NextEventTyped ==
    ASSUME NEW w, work[w] \in Job, Busy(work[w]), work[w].pc \notin Idle, NextEvent(w)
    PROVE  \E j \in Job : /\ Busy(j) /\ j.pc \in {"event", "poll"}
                          /\ j.page = work[w].page \ {EventOf(work[w])}
                          /\ work' = [work EXCEPT ![w] = j]
<1>1. PICK left : left = work[w].page \ {EventOf(work[w])}
  OBVIOUS
<1>2. PICK j : j = [Asleep EXCEPT !.pc = IF left = {} THEN "poll" ELSE "event", !.page = left]
  OBVIOUS
<1>3. left \subseteq Row
  BY <1>1 DEF Job
<1>4. j \in Job /\ j.page = left /\ j.pc = IF left = {} THEN "poll" ELSE "event"
  BY <1>2, <1>3, AsleepJob DEF Job, WorkerCalls
<1>5. Busy(j)
  BY <1>4 DEF Busy, Idle, Tasking, Editing
<1> QED
  BY <1>1, <1>2, <1>4, <1>5 DEF NextEvent, Event, EventOf

LEMMA NextTaskTyped ==
    ASSUME NEW w, work[w] \in Job, Busy(work[w]), work[w].pc \in Tasking, NextTask(w)
    PROVE  \E j \in Job : /\ Busy(j) /\ j.pc \in {"advance", "entity"}
                          /\ j.page = work[w].page
                          /\ work' = [work EXCEPT ![w] = j]
<1>1. PICK left : left = Tail(work[w].todo)
  OBVIOUS
<1>2. PICK j : j = [work[w] EXCEPT !.todo = left, !.pc = IF left = <<>> THEN "advance" ELSE "entity"]
  OBVIOUS
<1>3. left \in Seq(Task)
  BY <1>1, TaskOfJob
<1>4. /\ j \in Job /\ j.page = work[w].page /\ j.todo = left
      /\ j.pc = IF left = <<>> THEN "advance" ELSE "entity"
  BY <1>2, <1>3 DEF Job, WorkerCalls
<1>5. work[w].pc \notin Idle
  BY DEF Tasking, Editing, Idle
<1>6. Busy(j)
  BY <1>4, <1>5 DEF Busy, Idle, Tasking, Editing
<1> QED
  BY <1>1, <1>2, <1>4, <1>6 DEF NextTask

-----------------------------------------------------------------------------
(***************************************************************************)
(* What a call of the worker has to show.                                  *)
(***************************************************************************)

SyncInv == Typed /\ HistoryInv /\ WorkInv /\ GapInv

StateTyped ==
    /\ sync \in [registered : BOOLEAN, cursor : Nat, state : SourceStates,
                 schema : {"PENDING", "CURRENT"}]
    /\ rows \in [Entities -> EntityRow]
    /\ graphs \subseteq GraphNames
    /\ store \in [Entities -> Nat]
    /\ schemas \in [Properties -> Nat]
    /\ faults \in 0..MaxFaults

LEMMA LikeHistory ==
    ASSUME NEW R, History(R), NEW S, \A x \in S : \E y \in R : Like(y, x)
    PROVE  History(S)
<1>1. ASSUME NEW x \in S
      PROVE  Recorded(x)
  <2>1. PICK y \in R : Like(y, x)
    OBVIOUS
  <2>2. Recorded(y)
    BY DEF History
  <2> QED
    BY <2>1, <2>2 DEF Recorded, Successive, Like
<1>2. ASSUME NEW a \in S, NEW b \in S
      PROVE  Follows(a, b)
  <2>1. PICK c \in R, d \in R : Like(c, a) /\ Like(d, b)
    OBVIOUS
  <2>2. Follows(c, d)
    BY DEF History
  <2> QED
    BY <2>1, <2>2 DEF Follows, Like
<1> QED
  BY <1>1, <1>2 DEF History

LEMMA CallKeeps ==
    ASSUME NEW w, Workers = {w}, SyncInv, UNCHANGED <<wikiVars, loader>>, StateTyped',
           NEW j \in Job, Busy(j), work' = [work EXCEPT ![w] = j],
           sync.cursor <= sync'.cursor, sync'.cursor <= lastRcid,
           \A x \in j.page : \E y \in Seen : Like(y, x),
           InOrder(j)', OnTask(j)'
    PROVE  /\ Typed' /\ HistoryInv' /\ WorkInv'
           /\ \A e \in Entities : rows'[e].indexed = rows[e].indexed /\ Holed(e) => Holed(e)'
<1>1. work \in [Workers -> Job] /\ work' \in [Workers -> Job] /\ work'[w] = j
  BY DEF SyncInv, Typed, TypeOK
<1>2. Typed'
  <2>1. WikiTypeOK'
    BY DEF SyncInv, Typed, TypeOK, WikiTypeOK, wikiVars, Page
  <2>2. \E S \in SUBSET Entities : loader' \in [pc : LoaderCalls, dump : [S -> Nat]]
    BY DEF SyncInv, Typed, TypeOK
  <2>3. TypeOK'
    BY <1>1, <2>1, <2>2 DEF TypeOK, StateTyped
  <2> QED
    BY <1>1, <2>3 DEF Typed
<1>3. rc' = rc /\ pages' = pages /\ revisions' = revisions /\ lastRcid' = lastRcid
  BY DEF wikiVars
<1>4. Seen' = rc \cup j.page
  BY <1>1, <1>3 DEF Seen
<1>5. \A x \in Seen' : \E y \in Seen : Like(y, x)
  <2>1. \A x \in rc : x \in Seen /\ Like(x, x)
    BY DEF Seen, Like
  <2> QED
    BY <1>4, <2>1
<1>6. History(Seen')
  BY <1>5, LikeHistory DEF SyncInv, HistoryInv
<1>7. History(Seen)'
  <2>1. PICK S : S = Seen'
    OBVIOUS
  <2>2. History(S)' 
    BY <1>3, <1>6, <2>1 DEF History, Recorded, Successive
  <2> QED
    BY <2>1, <2>2 DEF History
<1>8. HistoryInv'
  BY <1>3, <1>7 DEF SyncInv, HistoryInv, WikiInv, LatestOf
<1>9. WorkInv'
  BY <1>1 DEF WorkInv, InOrder, OnTask
<1>10. ASSUME NEW e \in Entities, rows'[e].indexed = rows[e].indexed, Holed(e)
       PROVE  Holed(e)'
  <2>1. ASSUME NEW x \in Seen', x.kind = "edit", x.entity = e, x.rcid > sync'.cursor,
               x.rev > rows'[e].indexed
        PROVE  x.old # rows'[e].indexed
    <3>1. PICK y \in Seen : Like(y, x)
      BY <1>5, <2>1
    <3>2. Recorded(y) /\ sync.cursor \in Nat /\ sync'.cursor \in Nat
      BY DEF SyncInv, HistoryInv, History, Typed, TypeOK, StateTyped
    <3>3. y.rcid > sync.cursor
      BY <2>1, <3>1, <3>2 DEF Like, Recorded
    <3> QED
      BY <1>10, <2>1, <3>1, <3>3 DEF Holed, Like
  <2> QED
    BY <1>3, <1>10, <2>1 DEF Holed
<1> QED
  BY <1>2, <1>8, <1>9, <1>10

\* A page that was read stays in order until the cursor moves.
LEMMA PageStaysInOrder ==
    ASSUME NEW j, NEW k, InOrder(j), k.page = j.page \/ k.page = {}, k.pc # "read",
           UNCHANGED wikiVars, sync'.cursor = sync.cursor
    PROVE  InOrder(k)'
<1>1. rc' = rc /\ purged' = purged
  BY DEF wikiVars
<1>2. CASE k.page = j.page
  BY <1>1, <1>2 DEF InOrder
<1>3. CASE k.page = {}
  BY <1>1, <1>3 DEF InOrder
<1> QED
  BY <1>2, <1>3

\* A call that changes no row, graph of an entity or cursor.
LEMMA QuietCall ==
    ASSUME NEW w, Workers = {w}, SyncInv, UNCHANGED <<wikiVars, loader, rows, store>>,
           sync'.cursor = sync.cursor, StateTyped',
           NEW j \in Job, Busy(j), work' = [work EXCEPT ![w] = j],
           \A x \in j.page : \E y \in Seen : Like(y, x),
           InOrder(j)', OnTask(j)
    PROVE  SyncInv'
<1>1. sync.cursor \in Nat /\ sync.cursor <= lastRcid /\ sync.cursor <= sync'.cursor
  BY DEF SyncInv, Typed, TypeOK, HistoryInv
<1>2. OnTask(j)'
  BY DEF OnTask
<1>3. /\ Typed' /\ HistoryInv' /\ WorkInv'
      /\ \A e \in Entities : rows'[e].indexed = rows[e].indexed /\ Holed(e) => Holed(e)'
  BY <1>1, <1>2, CallKeeps
<1>4. GapInv'
  BY <1>3 DEF SyncInv, GapInv
<1> QED
  BY <1>3, <1>4 DEF SyncInv

\* The same for a call that goes on with the page, or drops it.
LEMMA SamePageCall ==
    ASSUME NEW w, Workers = {w}, SyncInv, UNCHANGED <<wikiVars, loader, rows, store>>,
           sync'.cursor = sync.cursor, StateTyped',
           NEW j \in Job, Busy(j), work' = [work EXCEPT ![w] = j],
           j.page = work[w].page \/ j.page = {}, j.pc # "read", OnTask(j)
    PROVE  SyncInv'
<1>1. \A x \in j.page : x \in Seen /\ Like(x, x)
  BY DEF Seen, Like
<1>2. InOrder(work[w])
  BY DEF SyncInv, WorkInv
<1>3. InOrder(j)'
  BY <1>2, PageStaysInOrder
<1>4. \A x \in j.page : \E y \in Seen : Like(y, x)
  BY <1>1
<1> QED
  BY <1>3, <1>4, QuietCall

LEMMA RestIsOnTask ==
    ASSUME NEW j, j.pc \in {"poll", "read", "quiet", "event", "rebuild"}
    PROVE  OnTask(j)
BY DEF OnTask, Tasking, Editing, Dropping, Untouched, WithSchema

\* Polling.
LEMMA PollCalls ==
    ASSUME NEW w, Workers = {w}, SyncInv, LoadSource(w) \/ ReadSource(w)
    PROVE  SyncInv'
<1>1. /\ UNCHANGED <<wikiVars, loader, rows, store>> /\ sync' = sync /\ StateTyped'
  BY DEF LoadSource, ReadSource, dbVars, storeVars, SyncInv, Typed, TypeOK, StateTyped
<1>2. /\ work[w] \in Job /\ Busy(work[w]) /\ InOrder(work[w]) /\ rc \subseteq Row /\ IsFiniteSet(rc)
      /\ sync.cursor \in Nat
  BY DEF SyncInv, Typed, TypeOK, WikiTypeOK, HistoryInv, WikiInv, WorkInv
<1>3. CASE LoadSource(w)
  <2>1. PICK j : j = [Asleep EXCEPT !.pc = "read", !.cursor = sync.cursor]
    OBVIOUS
  <2>2. j \in Job /\ j.pc = "read" /\ j.cursor = sync.cursor /\ j.page = {}
    BY <1>2, <2>1, AsleepJob DEF Job, WorkerCalls
  <2>3. Busy(j)
    BY <2>2 DEF Busy, Idle, Tasking, Editing
  <2>4. InOrder(j)'
    BY <1>1, <2>2 DEF InOrder
  <2>5. work' = [work EXCEPT ![w] = j]
    BY <1>3, <2>1 DEF LoadSource
  <2>6. OnTask(j)
    BY <2>2, RestIsOnTask
  <2>7. \A x \in j.page : \E y \in Seen : Like(y, x)
    BY <2>2
  <2>8. sync'.cursor = sync.cursor
    BY <1>1
  <2> QED
    BY <1>1, <2>2, <2>3, <2>4, <2>5, <2>6, <2>7, <2>8, QuietCall
<1>4. CASE ReadSource(w)
  <2>1. PICK events : events = ReadChanges(work[w].cursor)
    OBVIOUS
  <2>2. PICK j : j = [Asleep EXCEPT !.pc = IF events = {} THEN "quiet" ELSE "event", !.page = events]
    OBVIOUS
  <2>3. work[w].cursor = sync.cursor
    BY <1>2, <1>4 DEF ReadSource, At, InOrder
  <2>4. /\ events \subseteq Row
        /\ \A x \in events : x.rcid > sync.cursor /\ \E row \in rc : Like(row, x)
        /\ \A row \in rc : row.rcid > sync.cursor =>
              (\E x \in events : x.rcid = row.rcid) \/ (\A x \in events : x.rcid < row.rcid)
        /\ \A x, y \in events : Like(x, y) => x = y
    BY <1>2, <2>1, <2>3, ReadsInOrder
  <2>41. ASSUME NEW x \in events, NEW y \in events, x.rcid = y.rcid
         PROVE  x = y
    <3>1. PICK a \in rc, b \in rc : Like(a, x) /\ Like(b, y)
      BY <2>4
    <3>2. Follows(a, b)
      BY DEF SyncInv, HistoryInv, History, Seen
    <3>3. Like(x, y)
      BY <2>41, <3>1, <3>2 DEF Follows, Like
    <3> QED
      BY <2>4, <3>3
  <2>5. j \in Job /\ j.pc = (IF events = {} THEN "quiet" ELSE "event") /\ j.page = events
    BY <2>2, <2>4, AsleepJob DEF Job, WorkerCalls
  <2>6. Busy(j)
    BY <2>5 DEF Busy, Idle, Tasking, Editing
  <2>7. InOrder(j)'
    BY <1>1, <2>4, <2>41, <2>5 DEF InOrder, wikiVars
  <2>8. work' = [work EXCEPT ![w] = j]
    BY <1>4, <2>1, <2>2 DEF ReadSource
  <2>9. OnTask(j)
    BY <2>5, RestIsOnTask
  <2>10. \A x \in j.page : \E y \in Seen : Like(y, x)
    BY <2>4, <2>5 DEF Seen
  <2>11. sync'.cursor = sync.cursor
    BY <1>1
  <2> QED
    BY <1>1, <2>5, <2>6, <2>7, <2>8, <2>9, <2>10, <2>11, QuietCall
<1> QED
  BY <1>3, <1>4

\* The end of a poll, and what goes wrong.
LEMMA EndCalls ==
    ASSUME NEW w, Workers = {w}, SyncInv,
           MarkHealthy(w) \/ RebuildRequired(w) \/ Reject(w) \/ Crash(w)
    PROVE  SyncInv'
<1>1. /\ UNCHANGED <<wikiVars, loader, rows, store, schemas, graphs>>
      /\ sync' = sync \/ sync' = [sync EXCEPT !.state = "CURRENT"]
                      \/ sync' = [sync EXCEPT !.state = "STALE"]
      /\ faults' = faults \/ (faults < MaxFaults /\ faults' = faults + 1)
  BY DEF MarkHealthy, RebuildRequired, Reject, Crash, dbVars, storeVars
<1>2. sync'.cursor = sync.cursor /\ StateTyped'
  BY <1>1, SyncAssumption DEF SyncInv, Typed, TypeOK, StateTyped, SourceStates
<1>3. work[w] \in Job /\ Busy(work[w])
  BY DEF SyncInv, Typed, TypeOK
<1>4. CASE Sleep(w)
  <2>1. OnTask(Asleep)
    BY AsleepJob, RestIsOnTask
  <2>2. work' = [work EXCEPT ![w] = Asleep] /\ Asleep.page = {} /\ Asleep.pc # "read"
    BY <1>4, AsleepJob DEF Sleep
  <2> QED
    BY <1>1, <1>2, <2>1, <2>2, AsleepJob, SamePageCall
<1>5. CASE Reject(w) /\ Goto(w, "rebuild")
  <2>1. work[w].pc \notin Idle /\ "rebuild" \in WorkerCalls \ Idle /\ "rebuild" \notin Tasking
    BY <1>5 DEF Reject, Unguarded, Idle, WorkerCalls, Tasking, Editing
  <2>2. PICK j \in Job : /\ Busy(j) /\ j.pc = "rebuild" /\ j.page = work[w].page
                         /\ work' = [work EXCEPT ![w] = j]
    BY <1>3, <1>5, <2>1, GotoTyped
  <2>3. OnTask(j) /\ j.pc # "read"
    BY <2>2, RestIsOnTask
  <2> QED
    BY <1>1, <1>2, <2>2, <2>3, SamePageCall
<1> QED
  BY <1>4, <1>5 DEF MarkHealthy, RebuildRequired, Reject, Crash

LEMMA ClassesOfRows ==
    ASSUME NEW row \in Row
    PROVE  /\ Classify(row) = "ENTITY_EDIT" => row.kind = "edit" /\ ~row.redirect
           /\ Classify(row) = "ENTITY_DELETE" <=> row.kind = "delete"
<1>1. row.kind \in RowKinds /\ row.redirect \in BOOLEAN
  BY DEF Row
<1> QED
  BY <1>1 DEF Classify, RowKinds

LEMMA DispatchKeeps ==
    ASSUME NEW w, Workers = {w}, SyncInv, Dispatch(w)
    PROVE  SyncInv'
<1>1. /\ UNCHANGED <<wikiVars, loader, rows, store>> /\ sync'.cursor = sync.cursor /\ StateTyped'
  BY DEF Dispatch, dbVars, storeVars, SyncInv, Typed, TypeOK, StateTyped
<1>2. /\ work[w] \in Job /\ Busy(work[w]) /\ work[w].pc = "event" /\ work[w].pc \notin Idle
      /\ rows \in [Entities -> EntityRow]
  BY DEF SyncInv, Typed, TypeOK, Dispatch, At, Idle
<1>3. EventOf(work[w]) \in Row /\ Action(w) = ActionOf(work[w]) /\ Event(w) = EventOf(work[w])
  BY <1>2, EventOfJob DEF Action, ActionOf, Event, EventOf
<1>4. \E j \in Job : /\ Busy(j) /\ j.page = work[w].page /\ j.pc # "read" /\ OnTask(j)
                     /\ work' = [work EXCEPT ![w] = j]
  <2>1. ASSUME NEW pc \in {"advance", "rebuild", "resolve"}, Goto(w, pc),
               Action(w) # "ENTITY_DELETE", Action(w) # "ENTITY_EDIT"
        PROVE  \E j \in Job : /\ Busy(j) /\ j.page = work[w].page /\ j.pc # "read" /\ OnTask(j)
                              /\ work' = [work EXCEPT ![w] = j]
    <3>1. pc \in WorkerCalls \ Idle /\ pc \notin Tasking \cup Dropping \cup Untouched \cup WithSchema
      BY DEF WorkerCalls, Idle, Tasking, Editing, Dropping, Untouched, WithSchema
    <3>2. PICK j \in Job : /\ Busy(j) /\ j.pc = pc /\ j.page = work[w].page
                           /\ work' = [work EXCEPT ![w] = j]
      BY <1>2, <2>1, <3>1, GotoTyped
    <3>3. ActionOf(j) = Action(w)
      BY <1>3, <3>2 DEF ActionOf, EventOf
    <3>4. OnTask(j) /\ j.pc # "read"
      BY <2>1, <3>1, <3>2, <3>3 DEF OnTask
    <3> QED
      BY <3>2, <3>4
  <2>2. CASE Action(w) = "ENTITY_DELETE"
    <3>1. PICK j : j = [work[w] EXCEPT !.pc = "dropEntity", !.row = rows[Event(w).entity]]
      OBVIOUS
    <3>2. work' = [work EXCEPT ![w] = j]
      BY <2>2, <3>1 DEF Dispatch
    <3>3. rows[Event(w).entity] \in EntityRow
      BY <1>2, <1>3 DEF Row
    <3>4. j \in Job /\ j.pc = "dropEntity" /\ j.page = work[w].page
      BY <1>2, <3>1, <3>3 DEF Job, WorkerCalls
    <3>5. Busy(j)
      BY <1>2, <3>4 DEF Busy, Idle, Tasking, Editing
    <3>6. ActionOf(j) = "ENTITY_DELETE"
      BY <1>3, <2>2, <3>4 DEF ActionOf, EventOf
    <3>7. OnTask(j)
      BY <3>4, <3>6 DEF OnTask, Tasking, Editing, Dropping, Untouched, WithSchema
    <3> QED
      BY <3>2, <3>4, <3>5, <3>7
  <2>3. CASE Action(w) = "ENTITY_EDIT"
    <3>1. PICK task : task = [entity |-> Event(w).entity, rev |-> Event(w).rev]
      OBVIOUS
    <3>2. PICK todo, j : todo = <<task>> /\ j = [work[w] EXCEPT !.pc = "entity", !.todo = todo]
      OBVIOUS
    <3>3. work' = [work EXCEPT ![w] = j]
      BY <2>3, <3>1, <3>2 DEF Dispatch
    <3>4. task \in Task
      BY <1>3, <3>1 DEF Row, Task
    <3>41. todo \in Seq(Task) /\ Head(todo) = task /\ todo # <<>>
      BY <3>2, <3>4
    <3>5. j \in Job /\ j.pc = "entity" /\ j.page = work[w].page /\ j.todo = todo
      BY <1>2, <3>2, <3>41 DEF Job, WorkerCalls
    <3>6. Busy(j)
      BY <1>2, <3>41, <3>5 DEF Busy, Idle, Tasking, Editing
    <3>7. ActionOf(j) = "ENTITY_EDIT" /\ EventOf(j) = Event(w)
      BY <1>3, <2>3, <3>5 DEF ActionOf, EventOf
    <3>8. TaskIn(j) = task
      BY <3>41, <3>5 DEF TaskIn
    <3>9. OnTask(j)
      BY <3>1, <3>5, <3>7, <3>8 DEF OnTask, Tasking, Editing, Dropping, Untouched, WithSchema
    <3> QED
      BY <3>3, <3>5, <3>6, <3>9
  <2>4. CASE Action(w) = "NON_ENTITY_CHANGE"
    BY <2>1, <2>4 DEF Dispatch, Goto
  <2>5. CASE Action(w) = "UNKNOWN"
    BY <2>1, <2>5 DEF Dispatch, Goto
  <2>6. CASE Action(w) \notin {"NON_ENTITY_CHANGE", "UNKNOWN", "ENTITY_DELETE", "ENTITY_EDIT"}
    BY <2>1, <2>6 DEF Dispatch, Goto
  <2> QED
    BY <2>2, <2>3, <2>4, <2>5, <2>6
<1> QED
  BY <1>1, <1>4, SamePageCall

LEMMA ResolveKeeps ==
    ASSUME NEW w, Workers = {w}, SyncInv, ResolveLifecycle(w)
    PROVE  SyncInv'
<1>1. /\ UNCHANGED <<wikiVars, loader, rows, store>> /\ sync'.cursor = sync.cursor /\ StateTyped'
  BY DEF ResolveLifecycle, dbVars, storeVars, SyncInv, Typed, TypeOK, StateTyped
<1>2. /\ work[w] \in Job /\ Busy(work[w]) /\ work[w].pc = "resolve" /\ work[w].pc \notin Idle
      /\ OnTask(work[w]) /\ pages \in [Entities -> Page]
  BY DEF SyncInv, Typed, TypeOK, WikiTypeOK, WorkInv, ResolveLifecycle, At, Idle
<1>3. /\ EventOf(work[w]) \in Row /\ Event(w) = EventOf(work[w])
      /\ ActionOf(work[w]) \notin {"ENTITY_DELETE", "ENTITY_EDIT"}
  BY <1>2, EventOfJob DEF Event, EventOf, OnTask
<1>4. \E j \in Job : /\ Busy(j) /\ j.page = work[w].page /\ j.pc # "read" /\ OnTask(j)
                     /\ work' = [work EXCEPT ![w] = j]
  <2>1. CASE Goto(w, "rebuild")
    <3>1. "rebuild" \in WorkerCalls \ Idle /\ "rebuild" \notin Tasking
      BY DEF WorkerCalls, Idle, Tasking, Editing
    <3>2. PICK j \in Job : /\ Busy(j) /\ j.pc = "rebuild" /\ j.page = work[w].page
                           /\ work' = [work EXCEPT ![w] = j]
      BY <1>2, <2>1, <3>1, GotoTyped
    <3>3. j.pc # "read" /\ OnTask(j)
      BY <3>2, RestIsOnTask
    <3> QED
      BY <3>2, <3>3
  <2>2. ASSUME NEW order \in SetToSeqs(Resolve(Event(w))), order # <<>>,
               work' = [work EXCEPT ![w] = [@ EXCEPT !.pc = "entity", !.todo = order]]
        PROVE  \E j \in Job : /\ Busy(j) /\ j.page = work[w].page /\ j.pc # "read" /\ OnTask(j)
                              /\ work' = [work EXCEPT ![w] = j]
    <3>1. PICK j : j = [work[w] EXCEPT !.pc = "entity", !.todo = order]
      OBVIOUS
    <3>2. order \in Seq(Task)
      <4>1. Resolve(Event(w)) \subseteq Task
        <5>1. LifecycleIds(Event(w)) \subseteq Entities
          BY <1>3 DEF LifecycleIds, Row
        <5>2. ASSUME NEW e \in Entities
              PROVE  pages[Canonical(e)].rev \in Nat
          BY <1>2 DEF Canonical, Page
        <5> QED
          BY <5>1, <5>2 DEF Resolve, Task
      <4>2. IsFiniteSet(Resolve(Event(w)))
        <5>1. IsFiniteSet(LifecycleIds(Event(w)))
          <6>1. LifecycleIds(Event(w)) \in SUBSET Entities
            BY <1>3 DEF LifecycleIds, Row
          <6> QED
            BY <6>1, FS_Subset, SourceAssumption
        <5>2. CASE Resolve(Event(w)) = {}
          BY <5>2, FS_EmptySet
        <5>3. CASE Resolve(Event(w)) # {}
          <6> DEFINE S == LifecycleIds(Event(w))
                     T == Resolve(Event(w))
                     f == [e \in S |-> [entity |-> e, rev |-> pages[Canonical(e)].rev]]
          <6>1. T = {[entity |-> e, rev |-> pages[Canonical(e)].rev] : e \in S}
            BY <5>3 DEF Resolve
          <6>2. f \in Surjection(S, T)
            BY <6>1 DEF Surjection
          <6> QED
            BY <5>1, <6>2, FS_Surjection
        <5> QED
          BY <5>2, <5>3
      <4>3. /\ Cardinality(Resolve(Event(w))) \in Nat
            /\ order \in [1..Cardinality(Resolve(Event(w))) -> Resolve(Event(w))]
        BY <4>2, FS_CardinalityType DEF SetToSeqs
      <4> QED
        BY <4>1, <4>3
    <3>3. j \in Job /\ j.pc = "entity" /\ j.page = work[w].page /\ j.todo = order
      BY <1>2, <3>1, <3>2 DEF Job, WorkerCalls
    <3>4. Busy(j)
      BY <1>2, <2>2, <3>3 DEF Busy, Idle, Tasking, Editing
    <3>5. ActionOf(j) = ActionOf(work[w])
      BY <3>3 DEF ActionOf, EventOf
    <3>6. OnTask(j)
      BY <1>3, <3>3, <3>5 DEF OnTask, Tasking, Editing, Dropping, Untouched, WithSchema
    <3> QED
      BY <2>2, <3>1, <3>3, <3>4, <3>6
  <2> QED
    BY <2>1, <2>2 DEF ResolveLifecycle
<1> QED
  BY <1>1, <1>4, SamePageCall

\* The row of the task decides; an edit is never let through a hole.
LEMMA LoadEntityKeeps ==
    ASSUME NEW w, Workers = {w}, SyncInv, LoadEntity(w)
    PROVE  SyncInv'
<1>1. /\ UNCHANGED <<wikiVars, loader, rows, store>> /\ sync'.cursor = sync.cursor /\ StateTyped'
  BY DEF LoadEntity, dbVars, storeVars, SyncInv, Typed, TypeOK, StateTyped
<1>2. /\ work[w] \in Job /\ Busy(work[w]) /\ work[w].pc = "entity" /\ work[w].pc \notin Idle
      /\ work[w].pc \in Tasking
      /\ OnTask(work[w]) /\ InOrder(work[w]) /\ rows \in [Entities -> EntityRow]
  BY DEF SyncInv, Typed, TypeOK, WorkInv, LoadEntity, At, Idle, Tasking
<1>3. PICK event, task, row : /\ event = EventOf(work[w]) /\ task = TaskIn(work[w])
                              /\ row = rows[task.entity]
  OBVIOUS
<1>4. /\ event \in Row /\ event \in work[w].page /\ task \in Task /\ row \in EntityRow
      /\ task.entity \in Entities
  BY <1>2, <1>3, EventOfJob, TaskOfJob DEF Task
<1>5. /\ Event(w) = event /\ Action(w) = Classify(event) /\ ActionOf(work[w]) = Classify(event)
      /\ Head(work[w].todo) = task
  BY <1>3 DEF Event, Action, ActionOf, EventOf, TaskIn
<1>6. /\ Classify(event) # "ENTITY_DELETE"
      /\ Classify(event) = "ENTITY_EDIT" =>
            /\ task.entity = event.entity /\ task.rev = event.rev /\ event.kind = "edit"
  BY <1>2, <1>3, <1>4, <1>5, ClassesOfRows DEF OnTask
<1> DEFINE Good == \E j \in Job : /\ Busy(j) /\ j.page = work[w].page /\ j.pc # "read" /\ OnTask(j)
                                  /\ work' = [work EXCEPT ![w] = j]
<1>7. ASSUME NEW pc \in {"restoring", "rebuild", "gap", "fetch", "advance"},
             work' = [work EXCEPT ![w] = [@ EXCEPT !.pc = pc, !.row = row]],
             pc = "restoring" => Classify(event) # "ENTITY_EDIT",
             pc = "gap" => /\ Classify(event) = "ENTITY_EDIT"
                           /\ Observe(row.indexed, event.rev, event.old) = "GAP_DETECTED",
             pc = "fetch" => /\ Classify(event) = "ENTITY_EDIT" => row.status # "GAP"
                             /\ task.rev >= row.indexed
      PROVE  Good
  <2>1. PICK j : j = [work[w] EXCEPT !.pc = pc, !.row = row]
    OBVIOUS
  <2>2. /\ j \in Job /\ j.pc = pc /\ j.page = work[w].page /\ j.todo = work[w].todo
    BY <1>2, <1>4, <2>1 DEF Job, WorkerCalls
  <2>3. Busy(j)
    BY <1>2, <2>2 DEF Busy, Idle, Tasking, Editing
  <2>4. EventOf(j) = event /\ ActionOf(j) = Classify(event) /\ TaskIn(j) = task
    BY <1>3, <2>2 DEF EventOf, ActionOf, TaskIn
  <2>5. OnTask(j)
    BY <1>3, <1>6, <1>7, <2>2, <2>4 DEF OnTask, Tasking, Editing, Dropping, Untouched, WithSchema
  <2> QED
    BY <1>7, <2>1, <2>2, <2>3, <2>5
<1>8. ASSUME ForceRestore(w)
      PROVE  Good
  <2>1. Classify(event) # "ENTITY_EDIT"
    BY <1>5, <1>8 DEF ForceRestore
  <2>2. PICK pc \in {"restoring", "rebuild"} :
           work' = [work EXCEPT ![w] = [@ EXCEPT !.pc = pc, !.row = row]]
    BY <1>3, <1>5, <1>8 DEF LoadEntity
  <2> QED
    BY <1>7, <2>1, <2>2
<1> DEFINE old == IF PlainEdit(w) THEN event.old ELSE row.indexed
           decision == Observe(row.indexed, task.rev, old)
<1>9. /\ PlainEdit(w) <=> Classify(event) = "ENTITY_EDIT"
      /\ row.indexed \in Nat /\ task.rev \in Nat
  BY <1>4, <1>5 DEF PlainEdit, EntityRow, Task
<1>10. ASSUME ~ForceRestore(w) /\ decision = "GAP_DETECTED"
                             /\ work' = [work EXCEPT ![w] = [@ EXCEPT !.pc = "gap", !.row = row]]
      PROVE  Good
  <2>1. PlainEdit(w)
    BY <1>9, <1>10 DEF Observe
  <2>2. Observe(row.indexed, event.rev, event.old) = "GAP_DETECTED"
    BY <1>6, <1>9, <1>10, <2>1
  <2> QED
    BY <1>7, <1>9, <1>10, <2>1, <2>2
<1>11. ASSUME ~ForceRestore(w) /\ decision = "APPLY"
                             /\ work' = [work EXCEPT ![w] = [@ EXCEPT !.pc = "fetch", !.row = row]]
      PROVE  Good
  <2>1. task.rev > row.indexed /\ (row.indexed = 0 \/ old = row.indexed)
    BY <1>9, <1>11 DEF Observe
  <2>2. Classify(event) = "ENTITY_EDIT" => row.status # "GAP"
    <3> SUFFICES ASSUME Classify(event) = "ENTITY_EDIT", row.status = "GAP"
                 PROVE  FALSE
      OBVIOUS
    <3>1. Holed(task.entity)
      BY <1>3, <1>4 DEF SyncInv, GapInv
    <3>2. event \in Seen /\ event.rcid > sync.cursor
      BY <1>2, <1>4 DEF Seen, InOrder
    <3>3. event.old # row.indexed /\ row.indexed # 0
      BY <1>3, <1>6, <2>1, <3>1, <3>2 DEF Holed
    <3> QED
      BY <1>9, <2>1, <3>3
  <2>3. task.rev >= row.indexed
    BY <1>9, <2>1
  <2>4. work' = [work EXCEPT ![w] = [@ EXCEPT !.pc = "fetch", !.row = row]]
    BY <1>11
  <2> HIDE DEF old, decision, Good
  <2> QED
    BY <1>7, <2>2, <2>3, <2>4
<1>12. ASSUME ~ForceRestore(w) /\ PlainEdit(w)
                             /\ work' = [work EXCEPT ![w] = [@ EXCEPT !.pc = "advance", !.row = row]]
      PROVE  Good
  BY <1>7, <1>12
<1>13. ASSUME ~PlainEdit(w) /\ NextTask(w)
      PROVE  Good
  <2>1. PICK j \in Job : /\ Busy(j) /\ j.pc \in {"advance", "entity"} /\ j.page = work[w].page
                         /\ work' = [work EXCEPT ![w] = j]
    BY <1>2, <1>13, NextTaskTyped
  <2>2. ActionOf(j) = Classify(event)
    BY <1>3, <2>1 DEF EventOf, ActionOf
  <2>3. OnTask(j)
    BY <1>6, <1>9, <1>13, <2>1, <2>2 DEF OnTask, Tasking, Editing, Dropping, Untouched, WithSchema
  <2> QED
    BY <2>1, <2>3
<1>14. Good
  <2>1. \/ ForceRestore(w)
        \/ /\ ~ForceRestore(w)
           /\ \/ decision = "GAP_DETECTED" /\ work' = [work EXCEPT ![w] = [@ EXCEPT !.pc = "gap", !.row = row]]
              \/ decision = "APPLY" /\ work' = [work EXCEPT ![w] = [@ EXCEPT !.pc = "fetch", !.row = row]]
              \/ PlainEdit(w) /\ work' = [work EXCEPT ![w] = [@ EXCEPT !.pc = "advance", !.row = row]]
              \/ ~PlainEdit(w) /\ NextTask(w)
    BY <1>3, <1>5 DEF LoadEntity
  <2> QED
    BY <1>8, <1>10, <1>11, <1>12, <1>13, <2>1
<1> QED
  BY <1>1, <1>14, SamePageCall

\* The worker goes on with the same task or deletion.
LEMMA GoesOn ==
    ASSUME NEW w, work[w] \in Job, Busy(work[w]), OnTask(work[w]), work[w].pc \notin Idle,
           NEW pc \in WorkerCalls \ Idle, Goto(w, pc),
           pc \in Tasking => work[w].pc \in Tasking,
           pc \in Dropping => work[w].pc \in Dropping,
           pc \in Untouched => work[w].pc \in Untouched,
           pc \in WithSchema => TaskIn(work[w]).entity \in Properties,
           pc \notin {"gap", "commit", "restoring", "advance", "resolve"}
    PROVE  \E j \in Job : /\ Busy(j) /\ j.page = work[w].page /\ j.todo = work[w].todo
                          /\ j.pc = pc /\ OnTask(j)
                          /\ work' = [work EXCEPT ![w] = j]
<1>1. PICK j \in Job : /\ Busy(j) /\ j.pc = pc
                       /\ j.page = work[w].page /\ j.todo = work[w].todo /\ j.row = work[w].row
                       /\ work' = [work EXCEPT ![w] = j]
  BY GotoTyped
<1>2. EventOf(j) = EventOf(work[w]) /\ ActionOf(j) = ActionOf(work[w]) /\ TaskIn(j) = TaskIn(work[w])
  BY <1>1 DEF EventOf, ActionOf, TaskIn
<1>3. OnTask(j)
  BY <1>1, <1>2 DEF OnTask
<1> QED
  BY <1>1, <1>3

LEMMA PassingKeeps ==
    ASSUME NEW w, Workers = {w}, SyncInv,
           \/ FetchRevision(w) \/ RegisterEntityGraph(w) \/ ReplaceSchemaGraph(w)
           \/ RegisterSchemaGraph(w) \/ VerifyGraph(w)
           \/ UnregisterEntityGraph(w) \/ DeleteSchemaGraph(w) \/ UnregisterSchemaGraph(w)
    PROVE  SyncInv'
<1>1. /\ work[w] \in Job /\ Busy(work[w]) /\ OnTask(work[w])
      /\ sync \in [registered : BOOLEAN, cursor : Nat, state : SourceStates,
                   schema : {"PENDING", "CURRENT"}]
      /\ rows \in [Entities -> EntityRow] /\ graphs \subseteq GraphNames
      /\ store \in [Entities -> Nat] /\ schemas \in [Properties -> Nat]
      /\ faults \in 0..MaxFaults
  BY DEF SyncInv, Typed, TypeOK, WorkInv
<1>2. UNCHANGED <<wikiVars, loader, rows, store, faults>> /\ work[w].pc \notin Idle
  BY DEF FetchRevision, RegisterEntityGraph, ReplaceSchemaGraph, RegisterSchemaGraph, VerifyGraph,
     UnregisterEntityGraph, DeleteSchemaGraph, UnregisterSchemaGraph, At, Idle, dbVars, storeVars
<1>3. work[w].pc \notin Dropping => work[w].pc \in Tasking
  BY DEF FetchRevision, RegisterEntityGraph, ReplaceSchemaGraph, RegisterSchemaGraph, VerifyGraph,
     UnregisterEntityGraph, DeleteSchemaGraph, UnregisterSchemaGraph, At, Dropping, Tasking, Editing
<1>4. \E pc \in WorkerCalls \ Idle : 
         /\ Goto(w, pc)
         /\ pc \in Tasking => work[w].pc \in Tasking
         /\ pc \in Dropping => work[w].pc \in Dropping
         /\ pc \in Untouched => work[w].pc \in Untouched
         /\ pc \in WithSchema => TaskIn(work[w]).entity \in Properties
         /\ pc \notin {"gap", "commit", "restoring", "advance", "resolve", "read"}
  <2>1. CASE FetchRevision(w)
    <3>1. PICK pc \in {"put", "rebuild"} : Goto(w, pc)
      BY <2>1 DEF FetchRevision
    <3> QED
      BY <2>1, <3>1 DEF FetchRevision, At, WorkerCalls, Idle, Tasking, Editing, Dropping, Untouched, WithSchema
  <2>2. CASE RegisterEntityGraph(w) \/ ReplaceSchemaGraph(w) \/ RegisterSchemaGraph(w) \/ VerifyGraph(w)
    <3>1. PICK pc \in {"putSchema", "registerSchema", "verify", "save", "rebuild"} :
             /\ Goto(w, pc)
             /\ pc = "putSchema" => TaskIn(work[w]).entity \in Properties
             /\ pc = "registerSchema" => work[w].pc = "putSchema"
      BY <2>2 DEF RegisterEntityGraph, ReplaceSchemaGraph, RegisterSchemaGraph, VerifyGraph, At, TaskIn
    <3>2. work[w].pc \in Tasking
      BY <2>2 DEF RegisterEntityGraph, ReplaceSchemaGraph, RegisterSchemaGraph, VerifyGraph, At,
         Tasking, Editing
    <3>3. TaskIn(work[w]).entity \in Properties \/ pc \notin WithSchema
      BY <1>1, <3>1 DEF OnTask, WithSchema
    <3> QED
      BY <3>1, <3>2, <3>3 DEF WorkerCalls, Idle, Tasking, Editing, Dropping, Untouched, WithSchema
  <2>3. CASE UnregisterEntityGraph(w) \/ DeleteSchemaGraph(w) \/ UnregisterSchemaGraph(w)
    <3>1. PICK pc \in {"dropSchema", "tombstone", "unregisterSchema"} : Goto(w, pc)
      BY <2>3 DEF UnregisterEntityGraph, DeleteSchemaGraph, UnregisterSchemaGraph
    <3>2. work[w].pc \in Dropping
      BY <2>3 DEF UnregisterEntityGraph, DeleteSchemaGraph, UnregisterSchemaGraph, At, Dropping
    <3> QED
      BY <3>1, <3>2 DEF WorkerCalls, Idle, Tasking, Editing, Dropping, Untouched, WithSchema
  <2> QED
    BY <2>1, <2>2, <2>3
<1>5. PICK pc \in WorkerCalls \ Idle : 
         /\ Goto(w, pc)
         /\ pc \in Tasking => work[w].pc \in Tasking
         /\ pc \in Dropping => work[w].pc \in Dropping
         /\ pc \in Untouched => work[w].pc \in Untouched
         /\ pc \in WithSchema => TaskIn(work[w]).entity \in Properties
         /\ pc \notin {"gap", "commit", "restoring", "advance", "resolve", "read"}
  BY <1>4
<1>6. PICK j \in Job : /\ Busy(j) /\ j.page = work[w].page /\ j.pc = pc /\ OnTask(j)
                       /\ work' = [work EXCEPT ![w] = j]
  BY <1>1, <1>2, <1>5, GoesOn
<1>7. work[w].pc \in Tasking => TaskIn(work[w]).entity \in Entities
  BY <1>1, TaskOfJob DEF Task
<1>8. work[w].pc \in Dropping => EventOf(work[w]).entity \in Entities
  BY <1>1, <1>2, EventOfJob DEF Row
<1>9. sync'.cursor = sync.cursor /\ StateTyped'
  <2>1. CASE FetchRevision(w) \/ VerifyGraph(w)
    BY <1>1, <1>2, <2>1 DEF FetchRevision, VerifyGraph, dbVars, storeVars, StateTyped
  <2>2. CASE RegisterEntityGraph(w)
    BY <1>1, <1>2, <1>7, <2>2 DEF RegisterEntityGraph, At, Tasking, Editing, storeVars, StateTyped,
       EntityGraph, GraphNames, TaskIn
  <2>3. CASE ReplaceSchemaGraph(w)
    <3>1. TaskIn(work[w]).rev \in Nat
      BY <1>1, <2>3, TaskOfJob DEF ReplaceSchemaGraph, At, Task, Tasking, Editing
    <3> QED
      BY <1>1, <1>2, <2>3, <3>1 DEF ReplaceSchemaGraph, dbVars, StateTyped, TaskIn
  <2>4. CASE RegisterSchemaGraph(w)
    <3>1. TaskIn(work[w]).entity \in Properties
      BY <1>1, <2>4 DEF RegisterSchemaGraph, At, OnTask, WithSchema
    <3> QED
      BY <1>1, <1>2, <2>4, <3>1 DEF RegisterSchemaGraph, storeVars, StateTyped, SchemaGraph,
         GraphNames, TaskIn
  <2>5. CASE UnregisterEntityGraph(w) \/ UnregisterSchemaGraph(w)
    BY <1>1, <1>2, <2>5 DEF UnregisterEntityGraph, UnregisterSchemaGraph, storeVars, StateTyped
  <2>6. CASE DeleteSchemaGraph(w)
    BY <1>1, <1>2, <2>6 DEF DeleteSchemaGraph, dbVars, StateTyped
  <2> QED
    BY <2>1, <2>2, <2>3, <2>4, <2>5, <2>6
<1> QED
  BY <1>2, <1>5, <1>6, <1>9, SamePageCall

\* A hole in the edits of an entity is never closed by an edit that is still
\* to come: the one that followed the indexed revision is behind the event.
LEMMA HoleStays ==
    ASSUME NEW w, Workers = {w}, SyncInv, work[w].pc \notin Idle,
           NEW event, event = EventOf(work[w]), event.kind = "edit",
           NEW e \in Entities, e = event.entity,
           NEW i \in Nat, i # 0, event.rev > i, event.old # i
    PROVE  /\ pages[e].rev > i
           /\ \A x \in Seen : /\ x.kind = "edit" /\ x.entity = e
                              /\ x.rcid > sync.cursor /\ x.rev > i
                              => x.old # i
<1>1. work[w] \in Job /\ Busy(work[w]) /\ InOrder(work[w]) /\ pages[e] \in Page /\ LatestOf(e)
  BY DEF SyncInv, Typed, TypeOK, WikiTypeOK, WorkInv, HistoryInv, WikiInv
<1>2. /\ event \in work[w].page /\ event \in Row
      /\ \A x \in work[w].page : event.rcid <= x.rcid
  BY <1>1, EventOfJob
<1>3. event \in Seen /\ Successive(event)
  BY <1>2 DEF Seen, SyncInv, HistoryInv, History, Recorded
<1>4. Len(revisions) \in Nat
  BY DEF SyncInv, Typed, TypeOK, WikiTypeOK
<1>5. pages[e].rev > i
  <2>1. pages[e].rev \in Nat /\ event.rev \in Nat
    BY <1>1, <1>2 DEF Page, Row
  <2>2. ~(event.rev \in (pages[e].rev + 1)..Len(revisions))
    BY <1>1, <1>3 DEF LatestOf, Successive
  <2>3. event.rev <= pages[e].rev
    BY <1>3, <1>4, <2>1, <2>2 DEF Successive
  <2> QED
    BY <2>1, <2>3
<1>6. ASSUME NEW x \in Seen, x.kind = "edit", x.entity = e, x.rcid > sync.cursor, x.rev > i, x.old = i
      PROVE  FALSE
  <2>1. Successive(x) /\ Follows(event, x)
    BY <1>3, <1>6 DEF SyncInv, HistoryInv, History, Recorded
  <2>2. x \in Row
    <3>1. work[w].page \subseteq Row /\ rc \subseteq Row
      BY <1>1 DEF Job, SyncInv, Typed, TypeOK, WikiTypeOK
    <3> QED
      BY <3>1 DEF Seen
  <2>3. /\ x.rev \in Nat /\ x.old \in Nat /\ x.rcid \in Nat
        /\ event.rev \in Nat /\ event.old \in Nat /\ event.rcid \in Nat
    BY <1>2, <2>2 DEF Row
  <2>4. ~(event.rev \in (x.old + 1)..(x.rev - 1))
    BY <1>3, <1>6, <2>1 DEF Successive
  <2>5. x.rev <= event.rev
    BY <1>6, <2>3, <2>4
  <2>6. x.rev # event.rev
    <3> SUFFICES ASSUME x.rev = event.rev PROVE FALSE
      OBVIOUS
    <3>1. ~(event.old \in (x.old + 1)..(x.rev - 1))
      BY <1>3, <1>6, <2>1 DEF Successive
    <3>2. ~(x.old \in (event.old + 1)..(event.rev - 1))
      BY <1>3, <1>6, <2>1 DEF Successive
    <3>3. event.old <= event.rev - 1 /\ x.old <= x.rev - 1
      BY <1>3, <2>1, <2>3 DEF Successive
    <3> QED
      BY <1>6, <2>3, <3>1, <3>2, <3>3
  <2>7. x.rcid < event.rcid
    BY <1>6, <2>1, <2>3, <2>5, <2>6 DEF Follows
  <2>8. x \in rc
    BY <1>2, <2>3, <2>7 DEF Seen
  <2>9. (\E y \in work[w].page : y.rcid = x.rcid) \/ event.rcid < x.rcid
    BY <1>1, <1>2, <1>6, <2>8 DEF InOrder
  <2> QED
    BY <1>2, <2>3, <2>7, <2>9
<1> QED
  BY <1>5, <1>6

\* A call that writes a row, or the graph of an entity, and goes on with the page.
LEMMA WritingCall ==
    ASSUME NEW w, Workers = {w}, SyncInv, UNCHANGED <<wikiVars, loader>>,
           sync'.cursor = sync.cursor, StateTyped',
           \A e \in Entities : rows'[e].status = "GAP" => rows'[e].indexed = rows[e].indexed /\ Holed(e),
           NEW j \in Job, Busy(j), work' = [work EXCEPT ![w] = j],
           j.page = work[w].page, j.pc # "read", OnTask(j)'
    PROVE  SyncInv'
<1>1. \A x \in j.page : \E y \in Seen : Like(y, x)
  BY DEF Seen, Like
<1>2. InOrder(j)'
  BY PageStaysInOrder DEF SyncInv, WorkInv
<1>3. sync.cursor <= sync'.cursor /\ sync'.cursor <= lastRcid
  BY DEF SyncInv, Typed, TypeOK, HistoryInv
<1>4. /\ Typed' /\ HistoryInv' /\ WorkInv'
      /\ \A e \in Entities : rows'[e].indexed = rows[e].indexed /\ Holed(e) => Holed(e)'
  BY <1>1, <1>2, <1>3, CallKeeps
<1> QED
  BY <1>4 DEF SyncInv, GapInv

\* A commit: the cursor moves to the event, which leaves the page.
LEMMA CommittingCall ==
    ASSUME NEW w, Workers = {w}, SyncInv, UNCHANGED <<wikiVars, loader>>, work[w].pc \notin Idle,
           sync'.cursor = EventOf(work[w]).rcid, StateTyped', NextEvent(w),
           \A e \in Entities : rows'[e].status = "GAP" => rows'[e].indexed = rows[e].indexed /\ Holed(e)
    PROVE  SyncInv'
<1>1. work[w] \in Job /\ Busy(work[w]) /\ InOrder(work[w]) /\ sync.cursor \in Nat /\ rc \subseteq Row
  BY DEF SyncInv, Typed, TypeOK, WikiTypeOK, WorkInv
<1>2. PICK event, page : event = EventOf(work[w]) /\ page = work[w].page
  OBVIOUS
<1>3. /\ event \in page /\ event \in Row /\ page \subseteq Row
      /\ \A x \in page : event.rcid <= x.rcid
  BY <1>1, <1>2, EventOfJob DEF Job
<1>4. PICK j \in Job : /\ Busy(j) /\ j.pc \in {"event", "poll"}
                       /\ j.page = page \ {event}
                       /\ work' = [work EXCEPT ![w] = j]
  BY <1>1, <1>2, NextEventTyped
<1>5. sync.cursor < event.rcid /\ event.rcid <= lastRcid
  <2>1. event \in Seen
    BY <1>2, <1>3 DEF Seen
  <2>2. Recorded(event)
    BY <2>1 DEF SyncInv, HistoryInv, History
  <2> QED
    BY <1>1, <1>2, <1>3, <2>2 DEF InOrder, Recorded
<1>6. \A x \in j.page : x.rcid > event.rcid
  <2>1. \A x \in j.page : x \in page /\ x # event /\ x.rcid \in Nat /\ event.rcid \in Nat
    BY <1>3, <1>4 DEF Row
  <2>2. \A x \in j.page : event.rcid <= x.rcid /\ event.rcid # x.rcid
    BY <1>1, <1>2, <1>3, <2>1 DEF InOrder
  <2> QED
    BY <2>1, <2>2
<1>7. \A row \in rc : row.rcid > event.rcid =>
          (\E x \in j.page : x.rcid = row.rcid) \/ (\A x \in j.page : x.rcid < row.rcid)
  <2> SUFFICES ASSUME NEW row \in rc, row.rcid > event.rcid
               PROVE  (\E x \in j.page : x.rcid = row.rcid) \/ (\A x \in j.page : x.rcid < row.rcid)
    OBVIOUS
  <2>1. row.rcid > sync.cursor
    BY <1>1, <1>3, <1>5 DEF Row
  <2>2. CASE \E x \in page : x.rcid = row.rcid
    BY <1>1, <1>3, <1>4, <2>2 DEF Row
  <2>3. CASE \A x \in page : x.rcid < row.rcid
    BY <1>4, <2>3
  <2> QED
    BY <1>1, <1>2, <2>1, <2>2, <2>3 DEF InOrder
<1>8. InOrder(j)'
  <2>1. sync'.cursor = event.rcid /\ rc' = rc /\ purged' = purged
    BY <1>2 DEF wikiVars
  <2>2. \A x, y \in j.page : x.rcid = y.rcid => x = y
    BY <1>1, <1>2, <1>4 DEF InOrder
  <2>3. ~purged => \A x \in j.page : x.rev = 0 => \E row \in rc : Like(row, x)
    BY <1>1, <1>2, <1>4 DEF InOrder
  <2>4. j.pc # "read"
    BY <1>4
  <2> QED
    BY <1>6, <1>7, <2>1, <2>2, <2>3, <2>4 DEF InOrder
<1>9. OnTask(j)'
  BY <1>4 DEF OnTask, Tasking, Editing, Dropping, Untouched, WithSchema
<1>10. \A x \in j.page : \E y \in Seen : Like(y, x)
  BY <1>2, <1>4 DEF Seen, Like
<1>11. sync.cursor <= sync'.cursor /\ sync'.cursor <= lastRcid
  BY <1>1, <1>2, <1>3, <1>5 DEF Row
<1>12. /\ Typed' /\ HistoryInv' /\ WorkInv'
       /\ \A e \in Entities : rows'[e].indexed = rows[e].indexed /\ Holed(e) => Holed(e)'
  BY <1>4, <1>8, <1>9, <1>10, <1>11, CallKeeps
<1> QED
  BY <1>12 DEF SyncInv, GapInv

\* The row written when an edit is saved.
LEMMA IndexedRow ==
    ASSUME NEW r \in EntityRow, NEW rev \in Nat
    PROVE  Indexed(r, rev) \in EntityRow /\ Indexed(r, rev).status = "CURRENT"
<1>1. r.seen \in Nat
  BY DEF EntityRow
<1>2. PICK m \in {r.seen, rev} : \A x \in {r.seen, rev} : m >= x
  BY <1>1
<1>3. Max({r.seen, rev}) \in {r.seen, rev}
  BY <1>2, Zenon DEF Max
<1> QED
  BY <1>1, <1>3 DEF Indexed, EntityRow, EntityStates

\* saveEntity of a hole, and of a restoration that begins.
LEMMA SaveStatusKeeps ==
    ASSUME NEW w, Workers = {w}, SyncInv, FenceInv, SaveGap(w) \/ SaveRestoring(w)
    PROVE  SyncInv'
<1>1. /\ work[w] \in Job /\ Busy(work[w]) /\ OnTask(work[w])
      /\ work[w].pc \in {"gap", "restoring"} /\ work[w].pc \notin Idle /\ work[w].pc \in Tasking
      /\ work[w].pc \in Editing
      /\ rows \in [Entities -> EntityRow]
  BY DEF SyncInv, Typed, TypeOK, WorkInv, SaveGap, SaveRestoring, At, Idle, Tasking, Editing
<1>2. PICK event, task, row : event = EventOf(work[w]) /\ task = TaskIn(work[w]) /\ row = work[w].row
  OBVIOUS
<1>3. /\ event \in Row /\ task \in Task /\ row \in EntityRow /\ task.entity \in Entities
  BY <1>1, <1>2, EventOfJob, TaskOfJob DEF Task, Job
<1>4. row.indexed = rows[task.entity].indexed
  BY <1>1, <1>2, <1>3 DEF FenceInv, FenceUnmoved, FenceOf, TaskOf, TaskIn
<1>5. UNCHANGED <<wikiVars, loader, sync, store, schemas, graphs, faults>>
  BY DEF SaveGap, SaveRestoring, storeVars
<1>6. PICK pc \in {"rebuild", "fetch"} :
         /\ Goto(w, pc)
         /\ pc = "rebuild" => SaveGap(w)
         /\ pc = "fetch" => SaveRestoring(w)
  BY DEF SaveGap, SaveRestoring
<1>7. pc \in WorkerCalls \ Idle /\ (pc \in Tasking => work[w].pc \in Tasking)
  BY <1>1 DEF WorkerCalls, Idle
<1>8. PICK j \in Job : /\ Busy(j) /\ j.pc = pc /\ j.page = work[w].page /\ j.todo = work[w].todo
                       /\ work' = [work EXCEPT ![w] = j]
  BY <1>1, <1>6, <1>7, GotoTyped
<1>9. EventOf(j) = event /\ ActionOf(j) = ActionOf(work[w]) /\ TaskIn(j) = task
  BY <1>2, <1>8 DEF EventOf, ActionOf, TaskIn
<1>10. PICK new \in EntityRow :
          /\ rows' = [rows EXCEPT ![task.entity] = new]
          /\ new.indexed = rows[task.entity].indexed
          /\ new.status = IF pc = "rebuild" THEN "GAP" ELSE "RESTORING"
  <2>1. CASE pc = "rebuild"
    <3>1. PICK new : new = [row EXCEPT !.seen = task.rev, !.status = "GAP"]
      OBVIOUS
    <3>2. new \in EntityRow /\ new.indexed = row.indexed /\ new.status = "GAP"
      BY <1>3, <3>1 DEF EntityRow, EntityStates, Task
    <3>3. rows' = [rows EXCEPT ![task.entity] = new]
      BY <1>2, <1>6, <2>1, <3>1 DEF SaveGap, TaskIn
    <3> QED
      BY <1>4, <2>1, <3>2, <3>3
  <2>2. CASE pc = "fetch"
    <3>1. PICK new : new = [row EXCEPT !.status = "RESTORING"]
      OBVIOUS
    <3>2. new \in EntityRow /\ new.indexed = row.indexed /\ new.status = "RESTORING"
      BY <1>3, <3>1 DEF EntityRow, EntityStates
    <3>3. rows' = [rows EXCEPT ![task.entity] = new]
      BY <1>2, <1>6, <2>2, <3>1 DEF SaveRestoring, TaskIn
    <3> QED
      BY <1>4, <2>2, <3>2, <3>3
  <2> QED
    BY <2>1, <2>2
<1>11. \A e \in Entities : rows'[e] = IF e = task.entity THEN new ELSE rows[e]
  BY <1>1, <1>10
<1>12. StateTyped' /\ sync'.cursor = sync.cursor
  BY <1>1, <1>5, <1>10 DEF StateTyped, SyncInv, Typed, TypeOK
<1>13. pc = "rebuild" => Holed(task.entity)
  <2> SUFFICES ASSUME pc = "rebuild" PROVE Holed(task.entity)
    OBVIOUS
  <2>1. work[w].pc = "gap" /\ ActionOf(work[w]) = "ENTITY_EDIT"
    BY <1>1, <1>6 DEF SaveGap, At, OnTask
  <2>2. /\ task.entity = event.entity /\ event.kind = "edit"
        /\ Observe(rows[event.entity].indexed, event.rev, event.old) = "GAP_DETECTED"
    BY <1>1, <1>2, <1>3, <2>1, ClassesOfRows DEF OnTask, ActionOf
  <2>3. PICK i : i = rows[task.entity].indexed
    OBVIOUS
  <2>4. i \in Nat /\ event.rev \in Nat
    BY <1>1, <1>3, <2>3 DEF EntityRow, Row
  <2>5. i # 0 /\ event.rev > i /\ event.old # i
    BY <2>2, <2>3, <2>4 DEF Observe
  <2>6. /\ pages[task.entity].rev > i
        /\ \A x \in Seen : /\ x.kind = "edit" /\ x.entity = task.entity
                           /\ x.rcid > sync.cursor /\ x.rev > i
                           => x.old # i
    BY <1>1, <1>2, <1>3, <2>2, <2>4, <2>5, HoleStays
  <2> QED
    BY <2>3, <2>5, <2>6 DEF Holed
<1>14. ASSUME NEW e \in Entities, rows'[e].status = "GAP"
       PROVE  rows'[e].indexed = rows[e].indexed /\ Holed(e)
  BY <1>10, <1>11, <1>13, <1>14 DEF SyncInv, GapInv
<1>15. OnTask(j)'
  <2>1. CASE pc = "rebuild"
    BY <1>8, <2>1 DEF OnTask, Tasking, Editing, Dropping, Untouched, WithSchema
  <2>2. CASE pc = "fetch"
    <3>1. ActionOf(work[w]) \notin {"ENTITY_EDIT", "ENTITY_DELETE"}
      BY <1>1, <1>6, <2>2 DEF SaveRestoring, At, OnTask
    <3>2. rows'[task.entity].status = "RESTORING"
      BY <1>3, <1>10, <1>11, <2>2
    <3>3. ActionOf(j)' = ActionOf(j) /\ TaskIn(j)' = TaskIn(j)
      BY DEF ActionOf, TaskIn, EventOf
    <3> QED
      BY <1>8, <1>9, <2>2, <3>1, <3>2, <3>3 DEF OnTask, Tasking, Editing, Dropping, Untouched, WithSchema
  <2> QED
    BY <2>1, <2>2
<1>16. j.page = work[w].page /\ j.pc # "read"
  BY <1>8
<1> QED
  BY <1>5, <1>8, <1>12, <1>14, <1>15, <1>16, WritingCall

\* saveEntity of a revision that was verified.
LEMMA SaveEntityKeeps ==
    ASSUME NEW w, Workers = {w}, SyncInv, SaveEntity(w)
    PROVE  SyncInv'
<1>1. /\ work[w] \in Job /\ Busy(work[w]) /\ OnTask(work[w])
      /\ work[w].pc = "save" /\ work[w].pc \notin Idle /\ work[w].pc \in Tasking
      /\ rows \in [Entities -> EntityRow]
  BY DEF SyncInv, Typed, TypeOK, WorkInv, SaveEntity, At, Idle, Tasking, Editing
<1>2. PICK event, task, row : event = EventOf(work[w]) /\ task = TaskIn(work[w]) /\ row = work[w].row
  OBVIOUS
<1>3. /\ event \in Row /\ task \in Task /\ row \in EntityRow /\ task.entity \in Entities /\ task.rev \in Nat
  BY <1>1, <1>2, EventOfJob, TaskOfJob DEF Task, Job
<1>4. UNCHANGED <<wikiVars, loader, sync, store, schemas, graphs, faults>>
  BY DEF SaveEntity, storeVars
<1>5. PICK new \in EntityRow : /\ new.status = "CURRENT"
                               /\ rows' = [rows EXCEPT ![task.entity] = new]
  BY <1>2, <1>3, IndexedRow DEF SaveEntity, TaskIn
<1>6. \A e \in Entities : rows'[e] = IF e = task.entity THEN new ELSE rows[e]
  BY <1>1, <1>5
<1>7. StateTyped' /\ sync'.cursor = sync.cursor
  BY <1>1, <1>4, <1>5 DEF StateTyped, SyncInv, Typed, TypeOK
<1>8. ASSUME NEW e \in Entities, rows'[e].status = "GAP"
      PROVE  rows'[e].indexed = rows[e].indexed /\ Holed(e)
  BY <1>5, <1>6, <1>8 DEF SyncInv, GapInv
<1>9. PlainEdit(w) <=> ActionOf(work[w]) = "ENTITY_EDIT"
  BY DEF PlainEdit, Action, ActionOf, Event, EventOf
<1>10. PICK j \in Job : /\ Busy(j) /\ j.page = work[w].page /\ j.pc # "read" /\ OnTask(j)'
                        /\ work' = [work EXCEPT ![w] = j]
  <2>1. CASE PlainEdit(w)
    <3>1. Goto(w, "commit") /\ "commit" \in WorkerCalls \ Idle
      BY <2>1 DEF SaveEntity, WorkerCalls, Idle
    <3>2. PICK j \in Job : /\ Busy(j) /\ j.pc = "commit" /\ j.page = work[w].page
                           /\ j.todo = work[w].todo
                           /\ work' = [work EXCEPT ![w] = j]
      BY <1>1, <3>1, GotoTyped
    <3>3. EventOf(j) = event /\ ActionOf(j) = ActionOf(work[w]) /\ TaskIn(j) = task
      BY <1>2, <3>2 DEF EventOf, ActionOf, TaskIn
    <3>4. EventOf(j)' = EventOf(j) /\ ActionOf(j)' = ActionOf(j) /\ TaskIn(j)' = TaskIn(j)
      BY DEF ActionOf, TaskIn, EventOf
    <3>5. task.entity = event.entity /\ task.rev = event.rev
      BY <1>1, <1>2, <1>9, <2>1 DEF OnTask
    <3>6. OnTask(j)'
      BY <1>9, <2>1, <3>2, <3>3, <3>4, <3>5
         DEF OnTask, Tasking, Editing, Dropping, Untouched, WithSchema
    <3> QED
      BY <3>2, <3>6
  <2>2. CASE ~PlainEdit(w)
    <3>1. NextTask(w)
      BY <2>2 DEF SaveEntity
    <3>2. PICK j \in Job : /\ Busy(j) /\ j.pc \in {"advance", "entity"} /\ j.page = work[w].page
                           /\ work' = [work EXCEPT ![w] = j]
      BY <1>1, <3>1, NextTaskTyped
    <3>3. ActionOf(j)' = ActionOf(work[w])
      BY <3>2 DEF ActionOf, EventOf
    <3>4. ActionOf(work[w]) \notin {"ENTITY_DELETE", "ENTITY_EDIT"}
      BY <1>1, <1>9, <2>2 DEF OnTask
    <3>5. OnTask(j)'
      BY <3>2, <3>3, <3>4 DEF OnTask, Tasking, Editing, Dropping, Untouched, WithSchema
    <3> QED
      BY <3>2, <3>5
  <2> QED
    BY <2>1, <2>2
<1> QED
  BY <1>4, <1>7, <1>8, <1>10, WritingCall

\* The graph of the entity is replaced or deleted.
LEMMA StoreKeeps ==
    ASSUME NEW w, Workers = {w}, SyncInv, ReplaceEntityGraph(w) \/ DeleteEntityGraph(w)
    PROVE  SyncInv'
<1>1. /\ work[w] \in Job /\ Busy(work[w]) /\ OnTask(work[w]) /\ work[w].pc \notin Idle
  BY DEF SyncInv, Typed, TypeOK, WorkInv, ReplaceEntityGraph, DeleteEntityGraph, At, Idle
<1>2. UNCHANGED <<wikiVars, loader, sync, rows, schemas, graphs, faults>>
  BY DEF ReplaceEntityGraph, DeleteEntityGraph, dbVars
<1>3. PICK pc \in {"register", "unregisterEntity"} :
         /\ Goto(w, pc)
         /\ pc = "register" => work[w].pc \in Tasking
         /\ pc = "unregisterEntity" => work[w].pc \in Dropping
  BY DEF ReplaceEntityGraph, DeleteEntityGraph, At, Tasking, Editing, Dropping
<1>4. PICK j \in Job : /\ Busy(j) /\ j.page = work[w].page /\ j.pc = pc /\ OnTask(j)
                       /\ work' = [work EXCEPT ![w] = j]
  <2>1. /\ pc \in WorkerCalls \ Idle
        /\ pc \in Tasking => work[w].pc \in Tasking
        /\ pc \in Dropping => work[w].pc \in Dropping
        /\ pc \notin Untouched \cup WithSchema
        /\ pc \notin {"gap", "commit", "restoring", "advance", "resolve"}
    BY <1>3 DEF WorkerCalls, Idle, Tasking, Editing, Dropping, Untouched, WithSchema
  <2> QED
    BY <1>1, <1>3, <2>1, GoesOn
<1>5. OnTask(j)'
  BY <1>2, <1>4 DEF OnTask
<1>6. store' \in [Entities -> Nat]
  <2>1. work[w].pc \in Tasking => TaskIn(work[w]).rev \in Nat
    BY <1>1, TaskOfJob DEF Task
  <2>2. CASE ReplaceEntityGraph(w)
    BY <2>1, <2>2 DEF ReplaceEntityGraph, At, Tasking, Editing, TaskIn, SyncInv, Typed, TypeOK
  <2>3. CASE DeleteEntityGraph(w)
    BY <2>3 DEF DeleteEntityGraph, SyncInv, Typed, TypeOK
  <2> QED
    BY <2>2, <2>3
<1>7. StateTyped' /\ sync'.cursor = sync.cursor
  BY <1>2, <1>6 DEF StateTyped, SyncInv, Typed, TypeOK
<1>8. \A e \in Entities : rows'[e].status = "GAP" => rows'[e].indexed = rows[e].indexed /\ Holed(e)
  BY <1>2 DEF SyncInv, GapInv
<1>9. j.pc # "read"
  BY <1>3, <1>4
<1> QED
  BY <1>2, <1>4, <1>5, <1>7, <1>8, <1>9, WritingCall

LEMMA CommitKeeps ==
    ASSUME NEW w, Workers = {w}, SyncInv, CommitEdit(w) \/ AdvanceCursor(w) \/ CommitTombstone(w)
    PROVE  SyncInv'
<1>1. /\ work[w] \in Job /\ Busy(work[w]) /\ work[w].pc \notin Idle
      /\ rows \in [Entities -> EntityRow]
      /\ sync \in [registered : BOOLEAN, cursor : Nat, state : SourceStates,
                   schema : {"PENDING", "CURRENT"}]
  BY DEF SyncInv, Typed, TypeOK, CommitEdit, AdvanceCursor, CommitTombstone, At, Idle
<1>2. /\ UNCHANGED <<wikiVars, loader, store, schemas, graphs, faults>>
      /\ MoveCursor(w) /\ NextEvent(w)
  BY DEF CommitEdit, AdvanceCursor, CommitTombstone, storeVars
<1>3. PICK event, row : event = EventOf(work[w]) /\ row = work[w].row
  OBVIOUS
<1>4. event \in Row /\ row \in EntityRow /\ Event(w) = event
  BY <1>1, <1>3, EventOfJob DEF Job, Event, EventOf
<1>5. /\ sync' \in [registered : BOOLEAN, cursor : Nat, state : SourceStates,
                    schema : {"PENDING", "CURRENT"}]
      /\ sync'.cursor = event.rcid
  <2>1. event.rcid \in Nat
    BY <1>4 DEF Row
  <2> QED
    BY <1>1, <1>2, <1>4, <2>1 DEF MoveCursor, SourceStates
<1>6. \/ rows' = rows
      \/ \E e \in Entities : \E new \in EntityRow :
            /\ new.status # "GAP"
            /\ rows' = [rows EXCEPT ![e] = new]
  <2>1. CASE CommitEdit(w)
    <3>1. TaskIn(work[w]).rev \in Nat /\ TaskIn(work[w]).entity \in Entities
      BY <1>1, <2>1, TaskOfJob DEF CommitEdit, At, Tasking, Task
    <3>2. PICK new : new = Indexed(row, TaskIn(work[w]).rev)
      OBVIOUS
    <3>3. new \in EntityRow /\ new.status = "CURRENT"
      BY <1>4, <3>1, <3>2, IndexedRow
    <3>4. rows' = [rows EXCEPT ![TaskIn(work[w]).entity] = new]
      BY <1>3, <2>1, <3>2 DEF CommitEdit, TaskIn
    <3> QED
      BY <3>1, <3>3, <3>4
  <2>2. CASE AdvanceCursor(w)
    BY <2>2 DEF AdvanceCursor
  <2>3. CASE CommitTombstone(w)
    <3>1. PICK new : new = [row EXCEPT !.status = "DELETED"]
      OBVIOUS
    <3>2. new \in EntityRow /\ new.status = "DELETED"
      BY <1>4, <3>1 DEF EntityRow, EntityStates
    <3>3. rows' = [rows EXCEPT ![event.entity] = new] /\ event.entity \in Entities
      BY <1>3, <1>4, <2>3, <3>1 DEF CommitTombstone, Row
    <3> QED
      BY <3>2, <3>3
  <2> QED
    BY <2>1, <2>2, <2>3
<1>7. rows' \in [Entities -> EntityRow]
  BY <1>1, <1>6
<1>8. \A e \in Entities : rows'[e].status = "GAP" => rows'[e].indexed = rows[e].indexed /\ Holed(e)
  BY <1>1, <1>6 DEF SyncInv, GapInv
<1>9. StateTyped'
  BY <1>2, <1>5, <1>7 DEF StateTyped, SyncInv, Typed, TypeOK
<1> QED
  BY <1>1, <1>2, <1>3, <1>5, <1>8, <1>9, CommittingCall

LEMMA WorkerKeeps ==
    ASSUME NEW w, Workers = {w}, SyncInv, FenceInv, WorkerStep(w) \/ Reject(w) \/ Crash(w)
    PROVE  SyncInv'
BY PollCalls, EndCalls, DispatchKeeps, ResolveKeeps, LoadEntityKeeps, PassingKeeps, SaveStatusKeeps,
   SaveEntityKeeps, StoreKeeps, CommitKeeps
   DEF WorkerStep

-----------------------------------------------------------------------------
(***************************************************************************)
(* A change of the wiki, whatever the worker is doing.                     *)
(***************************************************************************)

LEMMA WikiKeepsHistory ==
    ASSUME SyncInv, WikiGrows, UNCHANGED <<sync, work>>
    PROVE  HistoryInv'
<1>1. /\ lastRcid \in Nat /\ lastRcid' \in Nat /\ lastRcid' >= lastRcid
      /\ Len(revisions) \in Nat /\ Len(revisions') \in Nat /\ Len(revisions') >= Len(revisions)
      /\ sync.cursor \in Nat /\ sync.cursor <= lastRcid
      /\ \A k \in 1..Len(revisions) : revisions'[k] = revisions[k]
  BY DEF SyncInv, Typed, TypeOK, WikiTypeOK, HistoryInv, WikiGrows
<1>2. Seen \subseteq Row /\ Seen' \subseteq Row
  <2>1. \A w \in Workers : work[w].page \subseteq Row
    BY DEF SyncInv, Typed, TypeOK, Job
  <2> QED
    BY <2>1 DEF SyncInv, Typed, TypeOK, WikiTypeOK, WikiGrows, Seen
<1>3. \A r \in Seen' : r \in Seen \/ r \in rc' \ rc
  BY DEF Seen
<1>4. ASSUME NEW r \in Seen
      PROVE  Recorded(r)'
  <2>1. Recorded(r) /\ r \in Row
    BY <1>2 DEF SyncInv, HistoryInv, History
  <2>2. r.rcid \in 1..lastRcid' /\ r.rev <= Len(revisions')
    BY <1>1, <1>2, <2>1 DEF Recorded, Row
  <2>3. r.kind = "edit" => Successive(r)'
    <3> SUFFICES ASSUME r.kind = "edit" PROVE Successive(r)'
      OBVIOUS
    <3>1. Successive(r) /\ r.rev \in Nat /\ r.old \in Nat
      BY <2>1 DEF Recorded, Row
    <3>2. r.rev \in 1..Len(revisions) /\ r.old \in 1..Len(revisions)
          /\ \A k \in (r.old + 1)..(r.rev - 1) : k \in 1..Len(revisions)
      BY <1>1, <3>1 DEF Successive
    <3>3. r.rev \in 1..Len(revisions')
      BY <1>1, <3>2
    <3> QED
      BY <1>1, <3>1, <3>2, <3>3 DEF Successive
  <2> QED
    BY <2>1, <2>2, <2>3 DEF Recorded
<1>5. \A r \in Seen' : Recorded(r)'
  BY <1>3, <1>4 DEF WikiGrows
<1>6. ASSUME NEW a \in Seen', NEW b \in Seen'
      PROVE  Follows(a, b)
  <2>0. /\ a.rcid \in Nat /\ b.rcid \in Nat /\ a.rev \in Nat /\ b.rev \in Nat
    BY <1>2 DEF Row
  <2>1. CASE a \in Seen /\ b \in Seen
    BY <2>1 DEF SyncInv, HistoryInv, History
  <2>2. CASE a \in rc' \ rc /\ b \in rc' \ rc
    BY <2>2 DEF WikiGrows
  <2>3. CASE a \in Seen /\ b \in rc' \ rc
    <3>1. a.rcid <= lastRcid /\ a.rev <= Len(revisions)
      BY <1>1, <2>0, <2>3 DEF SyncInv, HistoryInv, History, Recorded
    <3>2. b.rcid > lastRcid /\ (b.rev = 0 \/ b.rev > Len(revisions))
      BY <2>3 DEF WikiGrows
    <3>3. a.rcid # b.rcid /\ (a.rev > 0 /\ b.rev > 0 => a.rev <= b.rev)
      BY <1>1, <2>0, <3>1, <3>2
    <3> QED
      BY <3>3 DEF Follows
  <2>4. CASE a \in rc' \ rc /\ b \in Seen
    <3>1. b.rcid <= lastRcid
      BY <1>1, <2>0, <2>4 DEF SyncInv, HistoryInv, History, Recorded
    <3>2. a.rcid > lastRcid
      BY <2>4 DEF WikiGrows
    <3>3. ~(a.rcid <= b.rcid) /\ a.rcid # b.rcid
      BY <1>1, <2>0, <3>1, <3>2
    <3> QED
      BY <3>3 DEF Follows
  <2> QED
    BY <1>3, <2>1, <2>2, <2>3, <2>4
<1>7. History(Seen)'
  BY <1>5, <1>6 DEF History
<1>8. sync'.cursor <= lastRcid'
  BY <1>1
<1> QED
  BY <1>7, <1>8 DEF HistoryInv, WikiGrows

LEMMA WikiKeeps ==
    ASSUME SyncInv, WikiNext, UNCHANGED <<dbVars, storeVars, loader, work, faults>>
    PROVE  SyncInv' /\ WikiGrows
<1>1. WikiGrows
  BY WikiNextGrows DEF SyncInv, Typed, TypeOK, HistoryInv
<1>2. UNCHANGED <<sync, rows, graphs, store, schemas, loader, work, faults>>
  BY DEF dbVars, storeVars
<1>3. HistoryInv'
  BY <1>1, <1>2, WikiKeepsHistory
<1>4. Typed'
  BY <1>1, <1>2 DEF SyncInv, Typed, TypeOK, WikiGrows
<1>5. /\ lastRcid \in Nat /\ Len(revisions) \in Nat /\ rc' \subseteq Row /\ rc \subseteq Row
      /\ sync.cursor \in Nat
      /\ rows \in [Entities -> EntityRow] /\ pages \in [Entities -> Page]
      /\ pages' \in [Entities -> Page]
  BY <1>1 DEF SyncInv, Typed, TypeOK, WikiTypeOK, WikiGrows
<1>6. ASSUME NEW w \in Workers
      PROVE  InOrder(work[w])' /\ OnTask(work[w])'
  <2>1. InOrder(work[w]) /\ OnTask(work[w]) /\ work[w].page \subseteq Row
    BY DEF SyncInv, WorkInv, Typed, TypeOK, Job
  <2>2. OnTask(work[w])'
    BY <1>2, <2>1 DEF OnTask, ActionOf, EventOf, TaskIn
  <2>3. ASSUME NEW row \in rc', row.rcid > sync.cursor
        PROVE  \/ \E x \in work[w].page : x.rcid = row.rcid
               \/ \A x \in work[w].page : x.rcid < row.rcid
    <3>1. CASE row \in rc
      BY <2>1, <2>3, <3>1 DEF InOrder
    <3>2. CASE row \notin rc
      <4>1. row.rcid > lastRcid
        BY <1>1, <3>2 DEF WikiGrows
      <4>2. ASSUME NEW x \in work[w].page
            PROVE  x.rcid < row.rcid
        <5>1. Recorded(x) /\ x.rcid \in Nat /\ row.rcid \in Nat
          BY <1>5, <2>1 DEF SyncInv, HistoryInv, History, Seen, Row
        <5> QED
          BY <1>5, <4>1, <5>1 DEF Recorded
      <4> QED
        BY <4>2
    <3> QED
      BY <3>1, <3>2
  <2>4. ASSUME ~purged', NEW x \in work[w].page, x.rev = 0
        PROVE  \E row \in rc' : Like(row, x)
    <3>1. PICK row \in rc : Like(row, x)
      BY <1>1, <2>1, <2>4 DEF InOrder, WikiGrows
    <3>2. row \in rc'
      BY <1>1, <2>4, <3>1 DEF WikiGrows, Like
    <3> QED
      BY <3>1, <3>2
  <2>5. InOrder(work[w])'
    BY <1>2, <2>1, <2>3, <2>4 DEF InOrder
  <2> QED
    BY <2>2, <2>5
<1>7. ASSUME NEW e \in Entities, Holed(e)
      PROVE  Holed(e)'
  <2>1. PICK i \in Nat : i = rows[e].indexed
    BY <1>5 DEF EntityRow
  <2>2. rows'[e].indexed = i /\ i # 0
    BY <1>2, <1>7, <2>1 DEF Holed
  <2>3. /\ pages[e].rev \in Nat /\ pages'[e].rev \in Nat /\ pages'[e].rev >= pages[e].rev
        /\ pages[e].rev > i
    BY <1>1, <1>5, <1>7, <2>1 DEF Holed, WikiGrows, Page
  <2>4. ASSUME NEW x \in Seen', x.kind = "edit", x.entity = e, x.rcid > sync.cursor, x.rev > i
        PROVE  x.old # i
    <3>1. CASE x \in Seen
      BY <1>7, <2>1, <2>4, <3>1 DEF Holed
    <3>2. CASE x \notin Seen
      <4>1. x \in rc' \ rc
        BY <1>2, <3>2 DEF Seen
      <4>2. Recorded(x)' /\ x.rev > Len(revisions) /\ x.rev \in Nat /\ x.old \in Nat
        BY <1>1, <1>5, <2>4, <4>1 DEF WikiGrows, Row
      <4>3. /\ \A k \in (x.old + 1)..(x.rev - 1) : revisions'[k] # e
        BY <2>4, <4>2 DEF Recorded, Successive
      <4>4. pages[e].rev \in 1..Len(revisions) /\ revisions[pages[e].rev] = e
        BY DEF SyncInv, HistoryInv, WikiInv, LatestOf
      <4>5. revisions'[pages[e].rev] = e
        BY <1>1, <4>4 DEF WikiGrows
      <4>6. ~(pages[e].rev \in (x.old + 1)..(x.rev - 1))
        BY <4>3, <4>5
      <4> QED
        BY <1>5, <2>3, <4>2, <4>4, <4>6
    <3> QED
      BY <3>1, <3>2
  <2>5. \A x \in Seen' : /\ x.kind = "edit" /\ x.entity = e
                         /\ x.rcid > sync'.cursor /\ x.rev > rows'[e].indexed
                         => x.old # rows'[e].indexed
    BY <1>2, <2>2, <2>4
  <2>6. rows'[e].indexed # 0 /\ pages'[e].rev > rows'[e].indexed
    BY <2>2, <2>3
  <2> QED
    BY <2>5, <2>6 DEF Holed
<1>8. GapInv'
  BY <1>2, <1>7 DEF SyncInv, GapInv
<1>9. WorkInv'
  BY <1>2, <1>6 DEF WorkInv
<1> QED
  BY <1>1, <1>3, <1>4, <1>8, <1>9 DEF SyncInv

-----------------------------------------------------------------------------
(***************************************************************************)
(* The bootstrap.                                                          *)
(***************************************************************************)

LoaderTyped == \E S \in SUBSET Entities : loader \in [pc : LoaderCalls, dump : [S -> Nat]]

LEMMA EmptyDump == << >> \in [{} -> Nat]
OBVIOUS

LEMMA LoaderStepTyped ==
    ASSUME Typed, LoaderNext \/ LoaderDies
    PROVE  /\ LoaderTyped' /\ StateTyped' /\ UNCHANGED wikiVars /\ work' = work
           /\ sync'.cursor = sync.cursor \/ sync'.cursor = lastRcid
           /\ \A e \in Entities : rows'[e] = rows[e] \/ rows'[e].status = "CURRENT"
<1>1. /\ StateTyped /\ LoaderTyped /\ lastRcid \in Nat /\ pages \in [Entities -> Page]
  BY DEF Typed, TypeOK, WikiTypeOK, StateTyped, LoaderTyped
<1>2. PICK S \in SUBSET Entities : loader \in [pc : LoaderCalls, dump : [S -> Nat]]
  BY <1>1 DEF LoaderTyped
<1>3. CASE CaptureCursor
  <2>1. UNCHANGED <<wikiVars, rows, graphs, store, schemas, work, faults>>
    BY <1>3 DEF CaptureCursor, storeVars
  <2>2. /\ sync' \in [registered : BOOLEAN, cursor : Nat, state : SourceStates,
                      schema : {"PENDING", "CURRENT"}]
        /\ sync'.cursor = sync.cursor \/ sync'.cursor = lastRcid
    BY <1>1, <1>3 DEF CaptureCursor, StateTyped
  <2>3. loader' \in [pc : LoaderCalls, dump : [{} -> Nat]]
    BY <1>3, EmptyDump DEF CaptureCursor, LoaderCalls
  <2> QED
    BY <1>1, <2>1, <2>2, <2>3 DEF StateTyped, LoaderTyped
<1>4. ASSUME NEW e \in Entities, DumpEntity(e)
      PROVE  LoaderTyped' /\ UNCHANGED <<wikiVars, dbVars, storeVars, work, faults>>
  <2>1. PICK content : content = IF pages[e].exists /\ pages[e].redirect = None THEN pages[e].rev ELSE 0
    OBVIOUS
  <2>2. content \in Nat
    BY <1>1, <2>1 DEF Page
  <2>3. PICK seen : seen = [f \in S \cup {e} |-> IF f = e THEN content ELSE loader.dump[f]]
    OBVIOUS
  <2>4. seen \in [S \cup {e} -> Nat] /\ S \cup {e} \in SUBSET Entities
    BY <1>2, <2>2, <2>3
  <2>5. DOMAIN loader.dump = S
    BY <1>2
  <2>6. PICK pc \in {"reset", "dump"} : loader' = [pc |-> pc, dump |-> seen]
    BY <1>4, <2>1, <2>3, <2>5 DEF DumpEntity
  <2>7. loader' \in [pc : LoaderCalls, dump : [S \cup {e} -> Nat]]
    BY <2>4, <2>6 DEF LoaderCalls
  <2> QED
    BY <1>4, <2>4, <2>7 DEF DumpEntity, LoaderTyped
<1>5. CASE ResetStore
  <2>1. loader' \in [pc : LoaderCalls, dump : [S -> Nat]]
    BY <1>2, <1>5 DEF ResetStore, LoaderCalls
  <2>2. store' \in [Entities -> Nat] /\ schemas' \in [Properties -> Nat]
    BY <1>5 DEF ResetStore
  <2>3. UNCHANGED <<wikiVars, dbVars, work, faults>>
    BY <1>5 DEF ResetStore
  <2> QED
    BY <1>1, <2>1, <2>2, <2>3 DEF LoaderTyped, StateTyped, dbVars
<1>6. ASSUME NEW e \in Entities, LoadGraph(e)
      PROVE  /\ LoaderTyped' /\ UNCHANGED <<wikiVars, sync, work, faults>> /\ StateTyped'
             /\ \A f \in Entities : rows'[f] = rows[f] \/ rows'[f].status = "CURRENT"
  <2>1. e \in S /\ loader.dump[e] \in Nat
    BY <1>2, <1>6 DEF LoadGraph, IsFirst
  <2>2. loader' \in [pc : LoaderCalls, dump : [S \ {e} -> Nat]]
    <3>1. PICK left : left = [f \in S \ {e} |-> loader.dump[f]]
      OBVIOUS
    <3>2. left \in [S \ {e} -> Nat]
      BY <1>2, <3>1
    <3>3. DOMAIN loader.dump = S
      BY <1>2
    <3>4. loader' = [loader EXCEPT !.dump = left]
      BY <1>6, <3>1, <3>3 DEF LoadGraph
    <3> QED
      BY <1>2, <3>2, <3>4
  <2>3. UNCHANGED <<wikiVars, sync, work, faults>>
    BY <1>6 DEF LoadGraph
  <2>4. PICK rev \in Nat : rev = loader.dump[e]
    BY <2>1
  <2>5. CASE rev = 0
    BY <1>1, <1>6, <2>2, <2>3, <2>4, <2>5 DEF LoadGraph, storeVars, StateTyped, LoaderTyped
  <2>6. CASE rev # 0
    <3>1. PICK new : new = [indexed |-> rev, seen |-> rev, status |-> "CURRENT"]
      OBVIOUS
    <3>2. new \in EntityRow /\ new.status = "CURRENT"
      BY <3>1 DEF EntityRow, EntityStates
    <3>3. rows' = [rows EXCEPT ![e] = new] /\ store' = [store EXCEPT ![e] = rev]
      BY <1>6, <2>4, <2>6, <3>1 DEF LoadGraph
    <3>4. schemas' = IF e \in Properties THEN [schemas EXCEPT ![e] = rev] ELSE schemas
      BY <1>6, <2>4, <2>6 DEF LoadGraph
    <3>5. graphs' = graphs \cup GraphsOf(e)
      BY <1>6, <2>4, <2>6 DEF LoadGraph
    <3>6. GraphsOf(e) \subseteq GraphNames
      BY DEF GraphsOf, GraphNames, EntityGraph, SchemaGraph
    <3>7. StateTyped'
      BY <1>1, <2>3, <3>2, <3>3, <3>4, <3>5, <3>6 DEF StateTyped
    <3>8. \A f \in Entities : rows'[f] = rows[f] \/ rows'[f].status = "CURRENT"
      BY <1>1, <3>2, <3>3 DEF StateTyped
    <3> QED
      BY <2>2, <2>3, <3>7, <3>8 DEF LoaderTyped
  <2> QED
    BY <2>5, <2>6
<1>7. CASE MarkCurrent
  <2>1. loader' \in [pc : LoaderCalls, dump : [S -> Nat]]
    BY <1>2, <1>7 DEF MarkCurrent, LoaderCalls
  <2>2. /\ sync' \in [registered : BOOLEAN, cursor : Nat, state : SourceStates,
                      schema : {"PENDING", "CURRENT"}]
        /\ sync'.cursor = sync.cursor
    BY <1>1, <1>7 DEF MarkCurrent, StateTyped, SourceStates
  <2>3. UNCHANGED <<wikiVars, rows, graphs, storeVars, work, faults>>
    BY <1>7 DEF MarkCurrent
  <2> QED
    BY <1>1, <2>1, <2>2, <2>3 DEF LoaderTyped, StateTyped, storeVars
<1>8. CASE LoaderDies
  <2>1. loader' \in [pc : LoaderCalls, dump : [{} -> Nat]]
    BY <1>8, EmptyDump DEF LoaderDies, LoaderCalls
  <2>2. UNCHANGED <<wikiVars, dbVars, storeVars, work>> /\ faults' \in 0..MaxFaults
    BY <1>1, <1>8, SyncAssumption DEF LoaderDies, StateTyped
  <2> QED
    BY <1>1, <2>1, <2>2 DEF LoaderTyped, StateTyped, dbVars, storeVars
<1> QED
  BY <1>1, <1>3, <1>4, <1>5, <1>6, <1>7, <1>8 DEF LoaderNext, dbVars, storeVars, StateTyped

\* The workers sleep, so that only the rows and the cursor matter.
LEMMA LoaderKeeps ==
    ASSUME SyncInv, FenceInv, LoaderNext \/ LoaderDies
    PROVE  SyncInv'
<1>1. /\ LoaderTyped' /\ StateTyped' /\ UNCHANGED wikiVars /\ work' = work
      /\ sync'.cursor = sync.cursor \/ sync'.cursor = lastRcid
      /\ \A e \in Entities : rows'[e] = rows[e] \/ rows'[e].status = "CURRENT"
  BY LoaderStepTyped DEF SyncInv
<1>2. /\ pages' = pages /\ revisions' = revisions /\ rc' = rc /\ lastRcid' = lastRcid /\ purged' = purged
      /\ sync.cursor \in Nat /\ lastRcid \in Nat /\ sync.cursor <= lastRcid
      /\ rc \subseteq Row
  BY <1>1 DEF wikiVars, SyncInv, Typed, TypeOK, WikiTypeOK, HistoryInv
<1>3. \A w \in Workers : work[w] = Asleep
  BY LoaderCommits DEF FenceInv, AsleepBefore
<1>4. Typed'
  BY <1>1, <1>2 DEF SyncInv, Typed, TypeOK, WikiTypeOK, LoaderTyped, StateTyped
<1>5. Seen' = Seen /\ sync'.cursor <= lastRcid /\ sync'.cursor >= sync.cursor /\ sync'.cursor \in Nat
  BY <1>1, <1>2 DEF Seen
<1>6. HistoryInv'
  BY <1>2, <1>5 DEF SyncInv, HistoryInv, WikiInv, LatestOf, History, Recorded, Successive
<1>7. WorkInv'
  <2>1. \A w \in Workers : work'[w].pc = "poll" /\ work'[w].page = {}
    BY <1>1, <1>3, AsleepJob
  <2> QED
    BY <2>1 DEF WorkInv, InOrder, OnTask, Tasking, Editing, Dropping, Untouched, WithSchema
<1>8. Seen \subseteq Row
  BY <1>2, <1>3, AsleepJob DEF Seen
<1>9. ASSUME NEW e \in Entities, rows'[e] = rows[e], Holed(e)
      PROVE  Holed(e)'
  <2>1. \A x \in Seen : x.rcid > sync'.cursor => x.rcid > sync.cursor
    BY <1>2, <1>5, <1>8 DEF Row
  <2> QED
    BY <1>2, <1>5, <1>9, <2>1 DEF Holed
<1>10. GapInv'
  BY <1>1, <1>9 DEF SyncInv, GapInv
<1> QED
  BY <1>4, <1>6, <1>7, <1>10 DEF SyncInv

-----------------------------------------------------------------------------
(***************************************************************************)
(* The initial state.                                                      *)
(***************************************************************************)

LEMMA OrderOfEntities ==
    /\ Order \in Seq(Entities)
    /\ \A e \in Entities : \E i \in 1..Len(Order) : Order[i] = e
    /\ \A i, k \in 1..Len(Order) : Order[i] = Order[k] => i = k
<1>1. PICK n \in Nat : n = Cardinality(Entities) /\ ExistsBijection(1..n, Entities)
  BY SourceAssumption, FS_CardinalityType
<1>2. \E f \in [1..n -> Entities] : IsInjective(f)
  BY <1>1 DEF ExistsBijection, Bijection, Injection
<1>3. Order \in [1..n -> Entities] /\ IsInjective(Order)
  BY <1>1, <1>2, Zenon DEF Order, SetToSeq
<1>4. IsFiniteSet(1..n) /\ Cardinality(1..n) = n
  BY <1>1, FS_Interval
<1>5. Order \in Injection(1..n, Entities)
  BY <1>3 DEF Injection
<1>6. Order \in Surjection(1..n, Entities)
  BY <1>1, <1>4, <1>5, SourceAssumption, FS_Injection
<1>7. Order \in Seq(Entities) /\ Len(Order) = n
  BY <1>3
<1>8. \A e \in Entities : \E i \in 1..n : Order[i] = e
  BY <1>6 DEF Surjection
<1>9. \A i, k \in 1..n : Order[i] = Order[k] => i = k
  BY <1>3 DEF IsInjective
<1> QED
  BY <1>7, <1>8, <1>9

LEMMA SyncInvInit == Init => SyncInv
<1> SUFFICES ASSUME Init PROVE SyncInv
  OBVIOUS
<1>1. PICK n \in Nat : n = Len(Order)
  BY OrderOfEntities
<1>2. /\ revisions = Order /\ rc = {} /\ lastRcid = 0 /\ purged = FALSE
      /\ rows = [e \in Entities |-> Unindexed] /\ graphs = {}
      /\ store = [e \in Entities |-> 0] /\ schemas = [e \in Properties |-> 0]
      /\ loader = [pc |-> "capture", dump |-> << >>]
      /\ work = [w \in Workers |-> Asleep] /\ faults = 0
  BY DEF Init
<1>3. pages = [e \in Entities |-> [rev |-> CHOOSE r \in 1..n : Order[r] = e,
                                   exists |-> TRUE, redirect |-> None]]
  BY <1>1 DEF Init
<1>4. /\ sync \in [registered : BOOLEAN, cursor : Nat, state : SourceStates,
                   schema : {"PENDING", "CURRENT"}]
      /\ sync.cursor = 0
  BY DEF Init, SourceStates
<1>5. ASSUME NEW e \in Entities
      PROVE  pages[e] \in Page /\ pages[e].rev \in 1..n /\ Order[pages[e].rev] = e
  <2>1. PICK rev : rev = CHOOSE r \in 1..n : Order[r] = e
    OBVIOUS
  <2>2. rev \in 1..n /\ Order[rev] = e
    BY <1>1, <2>1, OrderOfEntities
  <2> QED
    BY <1>3, <2>1, <2>2 DEF Page
<1>6. \A e \in Entities : LatestOf(e)
  BY <1>1, <1>2, <1>5, OrderOfEntities DEF LatestOf
<1>7. pages \in [Entities -> Page]
  BY <1>3, <1>5
<1>8. WikiTypeOK
  BY <1>2, <1>7, OrderOfEntities DEF WikiTypeOK
<1>9. \A w \in Workers : work[w] = Asleep
  BY <1>2
<1>10. loader \in [pc : LoaderCalls, dump : [{} -> Nat]]
  BY <1>2, EmptyDump DEF LoaderCalls
<1>11. Unindexed \in EntityRow /\ Unindexed.status # "GAP"
  BY DEF Unindexed, EntityRow, EntityStates
<1>12. TypeOK
  <2>1. /\ rows \in [Entities -> EntityRow] /\ graphs \subseteq GraphNames
        /\ store \in [Entities -> Nat] /\ schemas \in [Properties -> Nat]
    BY <1>2, <1>11
  <2>2. work \in [Workers -> Job] /\ faults \in 0..MaxFaults
    BY <1>2, AsleepJob, SyncAssumption
  <2>3. \E S \in SUBSET Entities : loader \in [pc : LoaderCalls, dump : [S -> Nat]]
    BY <1>10
  <2> QED
    BY <1>4, <1>8, <2>1, <2>2, <2>3 DEF TypeOK
<1>13. Typed
  BY <1>9, <1>12, AsleepJob DEF Typed
<1>14. Seen = {}
  BY <1>2, <1>9, AsleepJob DEF Seen
<1>15. HistoryInv
  BY <1>2, <1>4, <1>6, <1>14, FS_EmptySet DEF HistoryInv, WikiInv, History
<1>16. WorkInv
  BY <1>2, <1>9, AsleepJob
     DEF WorkInv, InOrder, OnTask, Tasking, Editing, Dropping, Untouched, WithSchema
<1>17. GapInv
  BY <1>2, <1>11 DEF GapInv
<1> QED
  BY <1>13, <1>15, <1>16, <1>17 DEF SyncInv

-----------------------------------------------------------------------------
(***************************************************************************)
(* The theorems.                                                           *)
(***************************************************************************)

LEMMA FenceAndSyncStep ==
    ASSUME NEW w, Workers = {w}, SyncInv, FenceInv, [Next]_vars
    PROVE  SyncInv' /\ FenceInv'
<1>1. CASE UNCHANGED vars
  <2>1. UNCHANGED <<pages, revisions, rc, lastRcid, purged, sync, rows, graphs, store, schemas,
                    loader, work, faults>>
    BY <1>1 DEF vars, wikiVars, dbVars, storeVars
  <2>2. FenceInv'
    BY <2>1 DEF FenceInv, Shapes, FenceUnmoved, FenceOf, GraphVerified, AsleepBefore, Loaded,
       TaskOf, Event
  <2>3. Typed'
    BY <2>1 DEF SyncInv, Typed, TypeOK, WikiTypeOK
  <2>4. Seen' = Seen
    BY <2>1 DEF Seen
  <2>5. HistoryInv' /\ GapInv'
    BY <2>1, <2>4 DEF SyncInv, HistoryInv, WikiInv, LatestOf, History, Recorded, Successive,
       GapInv, Holed
  <2>6. WorkInv'
    BY <2>1 DEF SyncInv, WorkInv, InOrder, OnTask, ActionOf, EventOf, TaskIn
  <2> QED
    BY <2>2, <2>3, <2>5, <2>6 DEF SyncInv
<1>2. CASE WikiNext /\ UNCHANGED <<dbVars, storeVars, loader, work, faults>>
  <2>1. FenceInv'
    BY <1>2 DEF FenceInv, Shapes, FenceUnmoved, FenceOf, GraphVerified, AsleepBefore, Loaded,
       TaskOf, Event, dbVars, storeVars
  <2> QED
    BY <1>2, <2>1, WikiKeeps
<1>3. CASE LoaderNext \/ LoaderDies
  BY <1>3, LoaderKeeps, LoaderCommits
<1>4. CASE WorkerStep(w) \/ Reject(w) \/ Crash(w)
  BY <1>4, WorkerKeeps, WorkersCommit
<1> QED
  BY <1>1, <1>2, <1>3, <1>4 DEF Next

\* Every row, graph, cursor and job keeps its type: what a call leaves behind
\* is what the next one can work with (the handlers of SyncWorkerRuntime and
\* RdfSyncEngine, for one worker).
THEOREM SyncTypeCorrect == OneWorker => (SyncSpec => []TypeOK)
<1> SUFFICES ASSUME OneWorker
             PROVE  SyncSpec => []TypeOK
  OBVIOUS
<1> PICK w : Workers = {w}
  BY DEF OneWorker
<1>1. Init => SyncInv /\ FenceInv
  BY SyncInvInit, FenceInit
<1>2. SyncInv /\ FenceInv /\ [Next]_vars => (SyncInv /\ FenceInv)'
  BY FenceAndSyncStep
<1>3. SyncInv => TypeOK
  BY DEF SyncInv, Typed
<1> QED
  BY <1>1, <1>2, <1>3, PTL DEF SyncSpec

LEMMA StoreWritesSpareGaps ==
    ASSUME NEW w, Workers = {w}, SyncInv, FenceInv, [Next]_vars
    PROVE  [OnlyLifecycleWritesGaps]_vars
<1> SUFFICES ASSUME NEW e \in Entities, Loaded, rows[e].status = "GAP", store'[e] # store[e]
             PROVE  work[w].pc \in {"put", "dropEntity"} /\ ~PlainEdit(w)
  BY DEF OnlyLifecycleWritesGaps
<1>1. store' # store
  OBVIOUS
<1>2. ReplaceEntityGraph(w) \/ DeleteEntityGraph(w)
  <2>1. ~(LoaderNext \/ LoaderDies)
    BY LoaderCommits
  <2>2. CASE WorkerStep(w) \/ Reject(w) \/ Crash(w)
    BY <1>1, <2>2 DEF WorkerStep, Reject, Crash, LoadSource, ReadSource, MarkHealthy, Dispatch,
       ResolveLifecycle, LoadEntity, SaveGap, SaveRestoring, FetchRevision, RegisterEntityGraph,
       ReplaceSchemaGraph, RegisterSchemaGraph, VerifyGraph, SaveEntity, CommitEdit, AdvanceCursor,
       UnregisterEntityGraph, DeleteSchemaGraph, UnregisterSchemaGraph, CommitTombstone,
       RebuildRequired, storeVars
  <2> QED
    BY <1>1, <2>1, <2>2 DEF Next, vars, storeVars
<1>3. OnTask(work[w]) /\ (PlainEdit(w) <=> ActionOf(work[w]) = "ENTITY_EDIT")
  BY DEF SyncInv, WorkInv, PlainEdit, Action, ActionOf, Event, EventOf
<1>4. CASE ReplaceEntityGraph(w)
  <2>1. work[w].pc = "put" /\ TaskIn(work[w]).entity = e
    BY <1>4 DEF ReplaceEntityGraph, At, TaskIn, SyncInv, Typed, TypeOK
  <2>2. ActionOf(work[w]) # "ENTITY_EDIT"
    BY <1>3, <2>1 DEF OnTask, Untouched
  <2> QED
    BY <1>3, <2>1, <2>2
<1>5. CASE DeleteEntityGraph(w)
  <2>1. work[w].pc = "dropEntity"
    BY <1>5 DEF DeleteEntityGraph, At
  <2>2. ActionOf(work[w]) = "ENTITY_DELETE"
    BY <1>3, <2>1 DEF OnTask, Dropping
  <2> QED
    BY <1>3, <2>1, <2>2
<1> QED
  BY <1>2, <1>4, <1>5

\* An edit chain with a hole is never written over by an edit replayed later:
\* #edit finds the gap again at each of them, because none names the indexed
\* revision, until a lifecycle event resolves the current one.
THEOREM HolesFreezeGraphs == OneWorker => (SyncSpec => GapFreezesGraph)
<1> SUFFICES ASSUME OneWorker
             PROVE  SyncSpec => GapFreezesGraph
  OBVIOUS
<1> PICK w : Workers = {w}
  BY DEF OneWorker
<1>1. Init => SyncInv /\ FenceInv
  BY SyncInvInit, FenceInit
<1>2. SyncInv /\ FenceInv /\ [Next]_vars => (SyncInv /\ FenceInv)' /\ [OnlyLifecycleWritesGaps]_vars
  BY FenceAndSyncStep, StoreWritesSpareGaps
<1> QED
  BY <1>1, <1>2, PTL DEF SyncSpec, GapFreezesGraph

-----------------------------------------------------------------------------
(***************************************************************************)
(* What stands behind a fence.  Before the worker runs it is the dump: an  *)
(* entity with a row, or with content in the dump, exists or its deletion  *)
(* comes after the captured cursor.                                        *)
(***************************************************************************)

BootBacked(e) ==
    /\ rows[e].status = "CURRENT" \/ (e \in DOMAIN loader.dump /\ loader.dump[e] # 0) =>
          sync.registered /\ (pages[e].exists \/ DeletionAhead(e))
    /\ e \in DOMAIN loader.dump /\ loader.dump[e] = 0 /\ rows[e].status = "CURRENT" =>
          DeletionAhead(e) \/ pages[e].redirect # None
    /\ loader.pc = "load" => IF e \in DOMAIN loader.dump THEN store[e] = 0 ELSE Backed(e)

BackedInv ==
    /\ ~purged => \A e \in Entities : IF Loaded THEN Backed(e) ELSE BootBacked(e)
    /\ loader.pc = "reset" => DOMAIN loader.dump = Entities
    /\ loader.pc = "capture" => DOMAIN loader.dump = {}
    /\ sync.registered \/ loader.pc = "capture"

LEMMA WikiKeepsBacked ==
    ASSUME SyncInv, BackedInv, WikiNext, UNCHANGED <<dbVars, storeVars, loader, work, faults>>
    PROVE  BackedInv'
<1>1. WikiGrows
  BY WikiKeeps
<1>2. UNCHANGED <<sync, rows, graphs, store, schemas, loader>>
  BY DEF dbVars, storeVars
<1>3. ASSUME NEW e \in Entities, ~purged', DeletionAhead(e)
      PROVE  DeletionAhead(e)'
  <2>1. PICK row \in rc : row.rcid > sync.cursor /\ row.kind = "delete" /\ row.entity = e
    BY <1>3 DEF DeletionAhead
  <2>2. row.rev = 0
    BY <2>1 DEF SyncInv, HistoryInv, History, Seen, Recorded
  <2>3. row \in rc'
    BY <1>1, <1>3, <2>1, <2>2 DEF WikiGrows
  <2> QED
    BY <1>2, <2>1, <2>3 DEF DeletionAhead
<1>4. ASSUME NEW e \in Entities, ~purged', pages[e].exists \/ DeletionAhead(e)
      PROVE  pages'[e].exists \/ DeletionAhead(e)'
  <2>1. CASE pages[e].exists /\ ~pages'[e].exists
    <3>1. PICK row \in rc' : row.rcid > lastRcid /\ row.kind = "delete" /\ row.entity = e
      BY <1>1, <1>4, <2>1 DEF WikiGrows
    <3>2. /\ row.rcid \in Nat /\ lastRcid \in Nat /\ sync.cursor \in Nat /\ sync.cursor <= lastRcid
      BY <1>1 DEF SyncInv, Typed, TypeOK, WikiTypeOK, WikiGrows, HistoryInv, Row
    <3>3. row.rcid > sync'.cursor
      BY <1>2, <3>1, <3>2
    <3> QED
      BY <3>1, <3>3 DEF DeletionAhead
  <2> QED
    BY <1>3, <1>4, <2>1
<1>5. ASSUME NEW e \in Entities, ~purged'
      PROVE  /\ Backed(e) => Backed(e)'
             /\ BootBacked(e) => BootBacked(e)'
  <2>1. pages[e].redirect # None => pages'[e].redirect # None
    BY <1>1 DEF WikiGrows
  <2>2. Backed(e) => Backed(e)'
    BY <1>2, <1>3, <1>5, <2>1 DEF Backed
  <2> QED
    BY <1>2, <1>3, <1>4, <1>5, <2>1, <2>2 DEF BootBacked
<1>6. ~purged' => ~purged
  BY <1>1 DEF WikiGrows
<1> QED
  BY <1>2, <1>5, <1>6 DEF BackedInv, Loaded

LEMMA LoaderKeepsBacked ==
    ASSUME SyncInv, FenceInv, BackedInv, LoaderNext \/ LoaderDies
    PROVE  BackedInv'
<1>1. /\ UNCHANGED <<pages, rc, purged>> /\ ~Loaded
      /\ rows \in [Entities -> EntityRow] /\ store \in [Entities -> Nat]
      /\ pages \in [Entities -> Page]
      /\ sync \in [registered : BOOLEAN, cursor : Nat, state : SourceStates,
                   schema : {"PENDING", "CURRENT"}]
  BY LoaderStepTyped, LoaderCommits DEF SyncInv, Typed, TypeOK, WikiTypeOK, wikiVars
<1>2. PICK S \in SUBSET Entities : loader \in [pc : LoaderCalls, dump : [S -> Nat]]
  BY DEF SyncInv, Typed, TypeOK
<1>3. DOMAIN loader.dump = S
  BY <1>2
<1>4. ~purged => \A e \in Entities : BootBacked(e)
  BY <1>1 DEF BackedInv
<1>5. CASE CaptureCursor
  <2>1. PICK none : none = << >> /\ DOMAIN none = {}
    BY EmptyDump
  <2>2. loader' = [pc |-> "dump", dump |-> none] /\ UNCHANGED <<rows, store>>
    BY <1>5, <2>1 DEF CaptureCursor, storeVars
  <2>3. loader'.pc = "dump" /\ DOMAIN loader'.dump = {}
    BY <2>1, <2>2
  <2>4. sync'.registered /\ (sync.registered => sync'.cursor = sync.cursor)
    BY <1>1, <1>5 DEF CaptureCursor
  <2>5. ASSUME NEW e \in Entities, ~purged
        PROVE  BootBacked(e)'
    BY <1>1, <1>4, <2>2, <2>3, <2>4, <2>5 DEF BootBacked, DeletionAhead
  <2> QED
    BY <1>1, <2>3, <2>4, <2>5 DEF BackedInv, Loaded
<1>6. ASSUME NEW e \in Entities, DumpEntity(e)
      PROVE  BackedInv'
  <2>1. PICK content : content = IF pages[e].exists /\ pages[e].redirect = None THEN pages[e].rev ELSE 0
    OBVIOUS
  <2>2. PICK seen : seen = [f \in S \cup {e} |-> IF f = e THEN content ELSE loader.dump[f]]
    OBVIOUS
  <2>3. loader' = [pc |-> IF DOMAIN seen = Entities THEN "reset" ELSE "dump", dump |-> seen]
    BY <1>3, <1>6, <2>1, <2>2 DEF DumpEntity
  <2>4. DOMAIN seen = S \cup {e} /\ \A f \in DOMAIN seen : seen[f] = IF f = e THEN content ELSE loader.dump[f]
    BY <2>2
  <2>5. loader'.dump = seen /\ loader'.pc = IF DOMAIN seen = Entities THEN "reset" ELSE "dump"
    BY <2>3
  <2>6. UNCHANGED <<rows, store, sync>> /\ loader.pc = "dump" /\ e \notin S
    BY <1>3, <1>6 DEF DumpEntity, dbVars, storeVars, IsFirst
  <2>7. sync.registered
    BY <2>6 DEF BackedInv
  <2>8. content # 0 <=> pages[e].exists /\ pages[e].redirect = None
    <3>1. pages[e].rev # 0
      BY <1>1 DEF SyncInv, HistoryInv, WikiInv, LatestOf, Page
    <3> QED
      BY <2>1, <3>1
  <2>9. ASSUME NEW f \in Entities, ~purged
        PROVE  BootBacked(f)'
    <3>1. BootBacked(f)
      BY <1>4, <2>9
    <3>2. DeletionAhead(f)' = DeletionAhead(f)
      BY <1>1, <2>6, Zenon DEF DeletionAhead
    <3>3. loader'.pc # "load"
      BY <2>5
    <3>4. CASE f = e
      BY <1>1, <2>4, <2>5, <2>6, <2>7, <2>8, <3>1, <3>2, <3>3, <3>4 DEF BootBacked
    <3>5. CASE f # e
      <4>1. f \in DOMAIN loader'.dump <=> f \in DOMAIN loader.dump
        BY <1>3, <2>4, <2>5, <3>5
      <4>2. f \in DOMAIN loader.dump => loader'.dump[f] = loader.dump[f]
        BY <1>3, <2>4, <2>5, <3>5
      <4> QED
        BY <1>1, <2>6, <2>7, <3>1, <3>2, <3>3, <4>1, <4>2 DEF BootBacked
    <3> QED
      BY <3>4, <3>5
  <2>10. ~Loaded'
    BY <2>5 DEF Loaded
  <2> QED
    BY <1>1, <2>4, <2>5, <2>6, <2>7, <2>9, <2>10 DEF BackedInv
<1>7. CASE ResetStore
  <2>1. /\ UNCHANGED <<rows, sync>> /\ loader'.pc = "load" /\ loader'.dump = loader.dump
        /\ store' = [e \in Entities |-> 0] /\ loader.pc = "reset"
    BY <1>2, <1>7 DEF ResetStore, dbVars
  <2>2. ASSUME NEW e \in Entities, ~purged
        PROVE  BootBacked(e)'
    <3>1. BootBacked(e) /\ e \in DOMAIN loader.dump
      BY <1>4, <2>1, <2>2 DEF BackedInv
    <3>2. DeletionAhead(e)' = DeletionAhead(e)
      BY <1>1, <2>1, Zenon DEF DeletionAhead
    <3> QED
      BY <1>1, <2>1, <3>1, <3>2 DEF BootBacked
  <2> QED
    BY <1>1, <2>1, <2>2 DEF BackedInv, Loaded
<1>8. ASSUME NEW e \in Entities, LoadGraph(e)
      PROVE  BackedInv'
  <2>1. PICK rev \in Nat : rev = loader.dump[e] /\ e \in S
    BY <1>2, <1>3, <1>8 DEF LoadGraph, IsFirst
  <2>2. PICK left : left = [f \in S \ {e} |-> loader.dump[f]]
    OBVIOUS
  <2>3. loader' = [loader EXCEPT !.dump = left]
    BY <1>3, <1>8, <2>2 DEF LoadGraph
  <2>4. /\ loader'.pc = "load" /\ loader.pc = "load" /\ DOMAIN loader'.dump = S \ {e}
        /\ \A f \in S \ {e} : loader'.dump[f] = loader.dump[f]
    BY <1>2, <1>8, <2>2, <2>3 DEF LoadGraph
  <2>5. sync' = sync /\ sync.registered
    BY <1>8, <2>4 DEF LoadGraph, BackedInv
  <2>6. /\ rev = 0 => UNCHANGED <<rows, store>>
        /\ rev # 0 => /\ store' = [store EXCEPT ![e] = rev]
                      /\ rows' = [rows EXCEPT ![e] = [indexed |-> rev, seen |-> rev, status |-> "CURRENT"]]
    BY <1>8, <2>1 DEF LoadGraph, storeVars
  <2>7. /\ \A f \in Entities \ {e} : rows'[f] = rows[f] /\ store'[f] = store[f]
        /\ rev # 0 => store'[e] = rev /\ rows'[e].indexed = rev
    BY <1>1, <2>6
  <2>8. ASSUME NEW f \in Entities, ~purged
        PROVE  BootBacked(f)'
    <3>1. BootBacked(f)
      BY <1>4, <2>8
    <3>2. DeletionAhead(f)' = DeletionAhead(f)
      BY <1>1, <2>5, Zenon DEF DeletionAhead
    <3>3. CASE f # e
      <4>1. f \in DOMAIN loader'.dump <=> f \in DOMAIN loader.dump
        BY <1>3, <2>4, <3>3
      <4>2. f \in DOMAIN loader.dump => loader'.dump[f] = loader.dump[f]
        BY <1>3, <2>4, <3>3
      <4>3. rows'[f] = rows[f] /\ store'[f] = store[f]
        BY <2>7, <3>3
      <4>4. Backed(f) => Backed(f)'
        BY <1>1, <3>2, <4>3 DEF Backed
      <4> QED
        BY <1>1, <2>4, <2>5, <3>1, <3>2, <4>1, <4>2, <4>3, <4>4 DEF BootBacked
    <3>4. CASE f = e
      <4>1. e \in DOMAIN loader.dump /\ e \notin DOMAIN loader'.dump /\ store[e] = 0
        BY <1>3, <2>1, <2>4, <3>1, <3>4 DEF BootBacked
      <4>2. Backed(e)'
        <5>1. CASE rev = 0
          BY <1>1, <2>1, <2>6, <3>1, <3>2, <3>4, <4>1, <5>1 DEF BootBacked, Backed
        <5>2. CASE rev # 0
          BY <2>7, <5>2 DEF Backed
        <5> QED
          BY <5>1, <5>2
      <4>3. rows'[e].status = "CURRENT" => pages[e].exists \/ DeletionAhead(e)
        BY <2>1, <2>6, <3>1, <3>4, <4>1 DEF BootBacked
      <4> QED
        BY <1>1, <2>5, <3>2, <3>4, <4>1, <4>2, <4>3 DEF BootBacked
    <3> QED
      BY <3>3, <3>4
  <2> QED
    BY <1>1, <2>4, <2>5, <2>8 DEF BackedInv, Loaded
<1>9. CASE MarkCurrent
  <2>1. loader.dump = << >> /\ loader.pc = "load" /\ UNCHANGED <<rows, store>>
    BY <1>9 DEF MarkCurrent, storeVars
  <2>2. DOMAIN loader.dump = {}
    BY <2>1, EmptyDump
  <2>3. loader'.pc = "done" /\ sync'.cursor = sync.cursor /\ sync'.registered = sync.registered
    BY <1>1, <1>2, <1>9 DEF MarkCurrent
  <2>4. ASSUME NEW e \in Entities, ~purged
        PROVE  Backed(e)'
    <3>1. BootBacked(e)
      BY <1>4, <2>4
    <3>2. Backed(e)
      BY <2>1, <2>2, <3>1 DEF BootBacked
    <3> QED
      BY <1>1, <2>1, <2>3, <3>2 DEF Backed, DeletionAhead
  <2> QED
    BY <1>1, <2>1, <2>3, <2>4 DEF BackedInv, Loaded
<1>10. CASE LoaderDies
  <2>1. PICK none : none = << >> /\ DOMAIN none = {}
    BY EmptyDump
  <2>2. loader' = [pc |-> "capture", dump |-> none] /\ UNCHANGED <<rows, store, sync>>
    BY <1>10, <2>1 DEF LoaderDies, storeVars, dbVars
  <2>3. loader'.pc = "capture" /\ DOMAIN loader'.dump = {}
    BY <2>1, <2>2
  <2>4. ASSUME NEW e \in Entities, ~purged
        PROVE  BootBacked(e)'
    BY <1>1, <1>4, <2>2, <2>3, <2>4 DEF BootBacked, DeletionAhead
  <2> QED
    BY <1>1, <2>2, <2>3, <2>4 DEF BackedInv, Loaded
<1> QED
  BY <1>5, <1>6, <1>7, <1>8, <1>9, <1>10 DEF LoaderNext

\* The cursor never passes the deletion of an entity but by its tombstone.
LEMMA DeletionStaysAhead ==
    ASSUME NEW w, Workers = {w}, SyncInv, work[w].pc \notin Idle,
           rc' = rc, sync'.cursor = EventOf(work[w]).rcid,
           NEW e \in Entities, DeletionAhead(e),
           ActionOf(work[w]) # "ENTITY_DELETE" \/ EventOf(work[w]).entity # e
    PROVE  DeletionAhead(e)'
<1>1. work[w] \in Job /\ Busy(work[w]) /\ InOrder(work[w]) /\ rc \subseteq Row
  BY DEF SyncInv, Typed, TypeOK, WikiTypeOK, WorkInv
<1>2. PICK event : event = EventOf(work[w])
  OBVIOUS
<1>3. /\ event \in work[w].page /\ event \in Row
      /\ \A x \in work[w].page : event.rcid <= x.rcid
  BY <1>1, <1>2, EventOfJob
<1>4. PICK row \in rc : row.rcid > sync.cursor /\ row.kind = "delete" /\ row.entity = e
  BY DEF DeletionAhead
<1>5. row.rcid # event.rcid
  <2>1. Follows(row, event)
    BY <1>3 DEF SyncInv, HistoryInv, History, Seen
  <2>2. event.kind # "delete" \/ event.entity # e
    BY <1>2, <1>3, ClassesOfRows DEF ActionOf
  <2> QED
    BY <1>4, <2>1, <2>2 DEF Follows, Like
<1>6. (\E x \in work[w].page : x.rcid = row.rcid) \/ (\A x \in work[w].page : x.rcid < row.rcid)
  BY <1>1, <1>4 DEF InOrder
<1>7. event.rcid \in Nat /\ row.rcid \in Nat
  BY <1>1, <1>3 DEF Row
<1>8. row.rcid > event.rcid
  BY <1>3, <1>5, <1>6, <1>7
<1> QED
  BY <1>2, <1>4, <1>8 DEF DeletionAhead

\* What a call of the worker has to show.
LEMMA BackedCall ==
    ASSUME BackedInv, Loaded, UNCHANGED <<pages, rc, purged, loader>>,
           sync'.registered = sync.registered,
           ~purged => \A e \in Entities : Backed(e) => Backed(e)'
    PROVE  BackedInv'
BY DEF BackedInv, Loaded

LEMMA SameBacked ==
    ASSUME BackedInv, UNCHANGED <<pages, rc, purged, loader, rows, store>>,
           sync'.registered = sync.registered, sync'.cursor = sync.cursor
    PROVE  BackedInv'
<1>1. \A e \in Entities : DeletionAhead(e)' = DeletionAhead(e)
  BY Zenon DEF DeletionAhead
<1>2. \A e \in Entities : Backed(e) => Backed(e)'
  BY <1>1 DEF Backed
<1>3. \A e \in Entities : BootBacked(e) => BootBacked(e)'
  BY <1>1, <1>2 DEF BootBacked
<1> QED
  BY <1>2, <1>3 DEF BackedInv, Loaded

LEMMA WorkerKeepsBacked ==
    ASSUME NEW w, Workers = {w}, SyncInv, FenceInv, BackedInv, WorkerStep(w) \/ Reject(w) \/ Crash(w)
    PROVE  BackedInv'
<1>1. /\ work[w] \in Job /\ Busy(work[w]) /\ OnTask(work[w]) /\ InOrder(work[w])
      /\ rows \in [Entities -> EntityRow] /\ store \in [Entities -> Nat]
      /\ sync \in [registered : BOOLEAN, cursor : Nat, state : SourceStates,
                   schema : {"PENDING", "CURRENT"}]
  BY DEF SyncInv, Typed, TypeOK, WorkInv
<1>2. UNCHANGED <<pages, rc, purged, loader>>
  BY DEF WorkerStep, Reject, Crash, LoadSource, ReadSource, MarkHealthy, Dispatch,
       ResolveLifecycle, LoadEntity, SaveGap, SaveRestoring, FetchRevision, ReplaceEntityGraph,
       RegisterEntityGraph, ReplaceSchemaGraph, RegisterSchemaGraph, VerifyGraph, SaveEntity,
       CommitEdit, AdvanceCursor, DeleteEntityGraph, UnregisterEntityGraph, DeleteSchemaGraph,
       UnregisterSchemaGraph, CommitTombstone, RebuildRequired, wikiVars
<1>3. ASSUME UNCHANGED sync, NEW e \in Entities
      PROVE  DeletionAhead(e)' = DeletionAhead(e)
  BY <1>2, <1>3, Zenon DEF DeletionAhead
<1>4. CASE \/ LoadSource(w) \/ ReadSource(w) \/ MarkHealthy(w) \/ Dispatch(w)
           \/ ResolveLifecycle(w) \/ LoadEntity(w) \/ FetchRevision(w) \/ RegisterEntityGraph(w)
           \/ ReplaceSchemaGraph(w) \/ RegisterSchemaGraph(w) \/ VerifyGraph(w)
           \/ UnregisterEntityGraph(w) \/ DeleteSchemaGraph(w) \/ UnregisterSchemaGraph(w)
           \/ RebuildRequired(w) \/ Reject(w) \/ Crash(w)
  <2>1. /\ UNCHANGED <<rows, store>>
        /\ \/ sync' = sync \/ sync' = [sync EXCEPT !.state = "CURRENT"]
           \/ sync' = [sync EXCEPT !.state = "STALE"] \/ sync' = [sync EXCEPT !.schema = "CURRENT"]
    BY <1>4 DEF Reject, Crash, LoadSource, ReadSource, MarkHealthy, Dispatch,
       ResolveLifecycle, LoadEntity, FetchRevision, RegisterEntityGraph, ReplaceSchemaGraph,
       RegisterSchemaGraph, VerifyGraph, UnregisterEntityGraph,
       DeleteSchemaGraph, UnregisterSchemaGraph, RebuildRequired, dbVars, storeVars
  <2>2. sync'.registered = sync.registered /\ sync'.cursor = sync.cursor
    BY <1>1, <2>1
  <2> QED
    BY <1>2, <2>1, <2>2, SameBacked
<1>5. CASE SaveGap(w) \/ SaveRestoring(w)
  <2>1. Loaded /\ UNCHANGED <<sync, store>> /\ work[w].pc \in Tasking
    BY <1>5 DEF SaveGap, SaveRestoring, At, Loaded, storeVars, Tasking, Editing
  <2>2. PICK row : row = work[w].row /\ row \in EntityRow
    BY <1>1 DEF Job
  <2>3. \E new : new.status # "CURRENT" /\ rows' = [rows EXCEPT ![TaskIn(work[w]).entity] = new]
    <3>1. CASE SaveGap(w)
      <4>1. PICK new : new = [row EXCEPT !.seen = TaskIn(work[w]).rev, !.status = "GAP"]
        OBVIOUS
      <4>2. new.status = "GAP"
        BY <2>2, <4>1 DEF EntityRow
      <4> QED
        BY <2>2, <3>1, <4>1, <4>2 DEF SaveGap, TaskIn
    <3>2. CASE SaveRestoring(w)
      <4>1. PICK new : new = [row EXCEPT !.status = "RESTORING"]
        OBVIOUS
      <4>2. new.status = "RESTORING"
        BY <2>2, <4>1 DEF EntityRow
      <4> QED
        BY <2>2, <3>2, <4>1, <4>2 DEF SaveRestoring, TaskIn
    <3> QED
      BY <1>5, <3>1, <3>2
  <2>4. \A e \in Entities : rows'[e].status = "CURRENT" => rows'[e] = rows[e]
    BY <1>1, <2>3
  <2>5. \A e \in Entities : Backed(e) => Backed(e)'
    BY <1>2, <1>3, <2>1, <2>4 DEF Backed
  <2> QED
    BY <1>2, <2>1, <2>5, BackedCall
<1>6. CASE ReplaceEntityGraph(w)
  <2>1. /\ Loaded /\ UNCHANGED <<sync, rows>> /\ work[w].pc = "put"
        /\ store' = [store EXCEPT ![TaskIn(work[w]).entity] = TaskIn(work[w]).rev]
    BY <1>6 DEF ReplaceEntityGraph, At, Loaded, dbVars, TaskIn
  <2>2. rows[TaskIn(work[w]).entity].status = "CURRENT" =>
           TaskIn(work[w]).rev >= rows[TaskIn(work[w]).entity].indexed
    BY <1>1, <2>1 DEF OnTask, Untouched
  <2>3. \A e \in Entities : Backed(e) => Backed(e)'
    BY <1>1, <1>2, <1>3, <2>1, <2>2 DEF Backed
  <2> QED
    BY <1>2, <2>1, <2>3, BackedCall
<1>7. ASSUME NEW e \in Entities, rows' = [rows EXCEPT ![TaskIn(work[w]).entity] =
                                            Indexed(work[w].row, TaskIn(work[w]).rev)],
             UNCHANGED store, work[w].pc \in Verified, DeletionAhead(e) => DeletionAhead(e)',
             Backed(e)
      PROVE  Backed(e)'
  <2>1. store[TaskIn(work[w]).entity] = TaskIn(work[w]).rev
    BY <1>7 DEF FenceInv, GraphVerified, TaskOf, TaskIn
  <2>2. CASE e = TaskIn(work[w]).entity
    <3>1. rows'[e].indexed = TaskIn(work[w]).rev
      BY <1>1, <1>7, <2>2 DEF Indexed
    <3>2. store'[e] = TaskIn(work[w]).rev /\ store[e] \in Nat
      BY <1>1, <1>7, <2>1, <2>2
    <3> QED
      BY <2>1, <2>2, <3>1, <3>2 DEF Backed
  <2>3. CASE e # TaskIn(work[w]).entity
    <3>1. rows'[e] = rows[e]
      BY <1>1, <1>7, <2>3
    <3> QED
      BY <1>2, <1>7, <3>1 DEF Backed
  <2> QED
    BY <2>2, <2>3
<1>8. CASE SaveEntity(w)
  <2>1. /\ Loaded /\ UNCHANGED <<sync, store>> /\ work[w].pc \in Verified
        /\ rows' = [rows EXCEPT ![TaskIn(work[w]).entity] = Indexed(work[w].row, TaskIn(work[w]).rev)]
    BY <1>8 DEF SaveEntity, At, Loaded, storeVars, TaskIn, Verified
  <2>2. \A e \in Entities : Backed(e) => Backed(e)'
    BY <1>3, <1>7, <2>1
  <2> QED
    BY <1>2, <2>1, <2>2, BackedCall
<1>9. ASSUME At(w, "commit") \/ At(w, "advance") \/ At(w, "tombstone"), MoveCursor(w)
      PROVE  /\ Loaded /\ sync'.registered = sync.registered
             /\ \A e \in Entities :
                   /\ DeletionAhead(e)
                   /\ work[w].pc = "tombstone" => EventOf(work[w]).entity # e
                   => DeletionAhead(e)'
  <2>1. sync'.registered = sync.registered /\ sync'.cursor = EventOf(work[w]).rcid
    BY <1>1, <1>9 DEF MoveCursor, Event, EventOf
  <2>2. Loaded /\ work[w].pc \notin Idle /\ work[w].pc \in {"commit", "advance", "tombstone"}
    BY <1>9 DEF At, Loaded, Idle
  <2>3. work[w].pc # "tombstone" => ActionOf(work[w]) # "ENTITY_DELETE"
    BY <1>1, <2>2 DEF OnTask, Tasking
  <2> QED
    BY <1>2, <2>1, <2>2, <2>3, DeletionStaysAhead
<1>10. CASE CommitEdit(w)
  <2>1. /\ UNCHANGED store /\ work[w].pc \in Verified /\ work[w].pc # "tombstone"
        /\ rows' = [rows EXCEPT ![TaskIn(work[w]).entity] = Indexed(work[w].row, TaskIn(work[w]).rev)]
        /\ At(w, "commit") /\ MoveCursor(w)
    BY <1>10 DEF CommitEdit, At, storeVars, TaskIn, Verified
  <2>2. \A e \in Entities : Backed(e) => Backed(e)'
    BY <1>7, <1>9, <2>1
  <2> QED
    BY <1>2, <1>9, <2>1, <2>2, BackedCall
<1>11. CASE AdvanceCursor(w)
  <2>1. /\ UNCHANGED <<store, rows>> /\ work[w].pc # "tombstone"
        /\ At(w, "advance") /\ MoveCursor(w)
    BY <1>11 DEF AdvanceCursor, At, storeVars
  <2>2. \A e \in Entities : DeletionAhead(e) => DeletionAhead(e)'
    BY <1>9, <2>1
  <2>3. \A e \in Entities : Backed(e) => Backed(e)'
    BY <1>2, <2>1, <2>2 DEF Backed
  <2> QED
    BY <1>2, <1>9, <2>1, <2>3, BackedCall
<1>12. CASE CommitTombstone(w)
  <2>1. /\ UNCHANGED store /\ At(w, "tombstone") /\ MoveCursor(w)
    BY <1>12 DEF CommitTombstone, At, storeVars
  <2>2. PICK row : row = work[w].row /\ row \in EntityRow
    BY <1>1 DEF Job
  <2>3. PICK new : new = [row EXCEPT !.status = "DELETED"]
    OBVIOUS
  <2>4. new.status = "DELETED" /\ rows' = [rows EXCEPT ![EventOf(work[w]).entity] = new]
    BY <1>12, <2>2, <2>3 DEF CommitTombstone, EntityRow, Event, EventOf
  <2>5. ASSUME NEW e \in Entities, Backed(e)
        PROVE  Backed(e)'
    <3>1. CASE e = EventOf(work[w]).entity
      BY <1>1, <2>4, <3>1 DEF Backed
    <3>2. CASE e # EventOf(work[w]).entity
      <4>1. DeletionAhead(e) => DeletionAhead(e)'
        BY <1>9, <2>1, <3>2
      <4>2. rows'[e] = rows[e]
        BY <1>1, <2>4, <3>2
      <4> QED
        BY <1>2, <2>1, <2>5, <4>1, <4>2 DEF Backed
    <3> QED
      BY <3>1, <3>2
  <2> QED
    BY <1>2, <1>9, <2>1, <2>5, BackedCall
<1>13. CASE DeleteEntityGraph(w)
  <2>1. /\ Loaded /\ UNCHANGED <<sync, rows>> /\ work[w].pc \in Dropping /\ work[w].pc \notin Idle
        /\ store' = [store EXCEPT ![EventOf(work[w]).entity] = 0]
    BY <1>13 DEF DeleteEntityGraph, At, Loaded, dbVars, Event, EventOf, Dropping, Idle
  <2>2. PICK event : event = EventOf(work[w])
    OBVIOUS
  <2>3. event \in work[w].page /\ event \in Row /\ event.kind = "delete"
    BY <1>1, <2>1, <2>2, EventOfJob, ClassesOfRows DEF OnTask, ActionOf
  <2>4. event.rev = 0 /\ event.rcid > sync.cursor
    BY <1>1, <2>3 DEF SyncInv, HistoryInv, History, Recorded, Seen, InOrder
  <2>5. ~purged => DeletionAhead(event.entity)
    BY <1>1, <2>3, <2>4 DEF InOrder, Like, DeletionAhead
  <2>6. ASSUME ~purged, NEW e \in Entities, Backed(e)
        PROVE  Backed(e)'
    <3>1. DeletionAhead(e)' = DeletionAhead(e)
      BY <1>3, <2>1
    <3>2. CASE e = event.entity
      <4>1. store'[e] = 0 /\ DeletionAhead(e)'
        BY <1>1, <2>1, <2>2, <2>5, <2>6, <3>1, <3>2
      <4> QED
        BY <4>1 DEF Backed
    <3>3. CASE e # event.entity
      <4>1. store'[e] = store[e]
        BY <1>1, <2>1, <2>2, <3>3
      <4> QED
        BY <1>2, <2>1, <2>6, <3>1, <4>1 DEF Backed
    <3> QED
      BY <3>2, <3>3
  <2>7. sync'.registered = sync.registered
    BY <2>1
  <2> QED
    BY <1>2, <2>1, <2>6, <2>7, BackedCall
<1> QED
  BY <1>4, <1>5, <1>6, <1>8, <1>10, <1>11, <1>12, <1>13 DEF WorkerStep

LEMMA BackedInit == Init => BackedInv
<1> SUFFICES ASSUME Init PROVE BackedInv
  OBVIOUS
<1>1. PICK none : none = << >> /\ DOMAIN none = {}
  BY EmptyDump
<1>2. loader = [pc |-> "capture", dump |-> none] /\ rows = [e \in Entities |-> Unindexed]
  BY <1>1 DEF Init
<1>3. loader.pc = "capture" /\ DOMAIN loader.dump = {}
  BY <1>1, <1>2
<1>4. \A e \in Entities : rows[e].status # "CURRENT"
  BY <1>2 DEF Unindexed
<1> QED
  BY <1>3, <1>4 DEF BackedInv, BootBacked, Loaded

LEMMA BackedStep ==
    ASSUME NEW w, Workers = {w}, SyncInv, FenceInv, BackedInv, [Next]_vars
    PROVE  BackedInv'
<1>1. CASE UNCHANGED vars
  BY <1>1, SameBacked DEF vars, wikiVars, dbVars, storeVars
<1>2. CASE WikiNext /\ UNCHANGED <<dbVars, storeVars, loader, work, faults>>
  BY <1>2, WikiKeepsBacked
<1>3. CASE LoaderNext \/ LoaderDies
  BY <1>3, LoaderKeepsBacked
<1>4. CASE WorkerStep(w) \/ Reject(w) \/ Crash(w)
  BY <1>4, WorkerKeepsBacked
<1> QED
  BY <1>1, <1>2, <1>3, <1>4 DEF Next

\* An entity whose row is CURRENT has a graph of at least the indexed revision,
\* unless its deletion is being replayed or it became a redirect: the order of
\* the calls in #edit and #delete, through every crash, retry and rejected call,
\* and the dump that overlaps with edits (sync-engine.js, SyncWorkerRuntime).
THEOREM FencesHaveGraphs == OneWorker => (SyncSpec => []FenceBackedByGraph)
<1> SUFFICES ASSUME OneWorker
             PROVE  SyncSpec => []FenceBackedByGraph
  OBVIOUS
<1> PICK w : Workers = {w}
  BY DEF OneWorker
<1>1. Init => SyncInv /\ FenceInv /\ BackedInv
  BY SyncInvInit, FenceInit, BackedInit
<1>2. SyncInv /\ FenceInv /\ BackedInv /\ [Next]_vars => (SyncInv /\ FenceInv /\ BackedInv)'
  BY FenceAndSyncStep, BackedStep
<1>3. BackedInv => FenceBackedByGraph
  BY DEF BackedInv, FenceBackedByGraph, Backed
<1> QED
  BY <1>1, <1>2, <1>3, PTL DEF SyncSpec

-----------------------------------------------------------------------------
(***************************************************************************)
(* No event is lost.  What the wiki's log says of a page: the newest row   *)
(* about an entity tells its present state, and a deletion that is over    *)
(* was ended by a restoration.                                             *)
(***************************************************************************)

About(row, e) == row.entity = e /\ row.kind # "other"

Later(e, n) == \E row \in rc : row.rcid > n /\ About(row, e)

\* A row tells what its page is, until a later one does.
Tells(x) ==
    x.kind # "other" =>
        \/ Later(x.entity, x.rcid)
        \/ /\ \E row \in rc : row.rcid = x.rcid
           /\ IF x.kind = "delete" THEN ~pages[x.entity].exists ELSE pages[x.entity].exists
           /\ x.rev > 0 => pages[x.entity].rev = x.rev

\* The other side of a merge has a row of its own.
Mentions(x) ==
    /\ x.mentions # {} => x.kind = "merge"
    /\ \A f \in x.mentions : pages[f].redirect # None \/ Later(f, x.rcid)

HasRevision(x) == IF x.kind \in {"edit", "merge", "redirect"} THEN x.rev > 0 ELSE x.rev = 0

RestoredAfter(x) == \E y \in rc : y.kind = "restore" /\ y.entity = x.entity /\ y.rcid > x.rcid
RestoredBetween(x, z) ==
    \E y \in rc : y.kind = "restore" /\ y.entity = x.entity /\ y.rcid > x.rcid /\ y.rcid < z.rcid

Told(x) ==
    /\ HasRevision(x) /\ Mentions(x) /\ Tells(x)
    /\ x.kind = "delete" /\ pages[x.entity].exists => RestoredAfter(x)

\* A revision after a deletion takes a restoration.
Revives(x, z) ==
    x.kind = "delete" /\ z.entity = x.entity /\ z.rcid > x.rcid /\ z.rev > 0 => RestoredBetween(x, z)

LogInv ==
    /\ \A x \in Seen : Told(x)
    /\ \A x, z \in Seen : Revives(x, z)
    /\ \A row \in rc : row.rev > 0 => pages[row.entity].exists

\* A row about e that was not there before the step.
Newly(e) == \E row \in rc' : row.rcid > lastRcid /\ About(row, e)

\* What a change of the wiki says of the pages it changes.
WikiTells ==
    /\ \A e \in Entities :
          \/ pages'[e] = pages[e] /\ \A row \in rc : About(row, e) => row \in rc'
          \/ Newly(e)
    /\ \A e \in Entities : pages'[e].exists /\ ~pages[e].exists =>
          \E y \in rc' : y.rcid > lastRcid /\ y.kind = "restore" /\ y.entity = e
    /\ \A row \in rc' : row.rev > 0 => pages'[row.entity].exists
    /\ \A x \in rc' \ rc :
          /\ HasRevision(x) /\ Mentions(x)' /\ Tells(x)'
          /\ x.kind = "delete" => ~pages'[x.entity].exists
          /\ x.rev > 0 => pages[x.entity].exists

LEMMA LogRowTells ==
    ASSUME WikiTypeOK, LogInv, NEW kind \in RowKinds \ {"edit", "merge", "redirect"},
           NEW e \in Entities, NEW row, row = NewRow(1, kind, e, 0, 0, {}),
           NEW kept, kept \subseteq rc, rc' = kept \cup {row},
           \A r \in rc : r.entity # e \/ r.rev = 0 => r \in kept,
           kind \notin {"delete"} => kept = rc,
           \A r \in kept : kind = "delete" /\ r.entity = e => r.rev = 0,
           \A f \in Entities : kind = "other" \/ f # e => pages'[f] = pages[f],
           kind # "other" => pages'[e].exists = (kind # "delete"),
           kind \in {"delete", "restore", "other"} \/ pages' = pages
    PROVE  WikiTells
<1>1. /\ row.rcid = lastRcid + 1 /\ row.kind = kind /\ row.entity = e /\ row.rev = 0
      /\ row.mentions = {} /\ lastRcid \in Nat /\ row.rcid > lastRcid
  BY DEF NewRow, WikiTypeOK
<1>2. row \in rc'
  OBVIOUS
<1>3. ASSUME NEW f \in Entities
      PROVE  \/ pages'[f] = pages[f] /\ \A r \in rc : About(r, f) => r \in rc'
             \/ Newly(f)
  <2>1. CASE f = e /\ kind # "other"
    BY <1>1, <1>2, <2>1 DEF Newly, About
  <2>2. CASE f # e \/ kind = "other"
    <3>1. \A r \in rc : About(r, f) => r \in rc'
      BY <2>2 DEF About
    <3> QED
      BY <2>2, <3>1
  <2> QED
    BY <2>1, <2>2
<1>4. ASSUME NEW f \in Entities, pages'[f].exists, ~pages[f].exists
      PROVE  \E y \in rc' : y.rcid > lastRcid /\ y.kind = "restore" /\ y.entity = f
  <2>1. f = e /\ kind # "other" /\ kind # "delete"
    BY <1>4
  <2>2. kind = "restore"
    BY <1>4, <2>1
  <2> QED
    BY <1>1, <1>2, <2>1, <2>2
<1>5. ASSUME NEW r \in rc', r.rev > 0
      PROVE  pages'[r.entity].exists
  <2>1. r \in kept /\ r \in rc
    BY <1>1, <1>5
  <2>2. pages[r.entity].exists /\ r.entity \in Entities
    BY <1>5, <2>1 DEF LogInv, WikiTypeOK, Row
  <2>3. CASE kind = "other" \/ r.entity # e
    BY <2>2, <2>3
  <2>4. CASE kind # "other" /\ r.entity = e
    <3>1. kind # "delete"
      BY <1>5, <2>1, <2>4
    <3> QED
      BY <2>4, <3>1
  <2> QED
    BY <2>3, <2>4
<1>6. Mentions(row)'
  BY <1>1 DEF Mentions
<1>7. Tells(row)'
  <2>1. kind # "other" => IF kind = "delete" THEN ~pages'[e].exists ELSE pages'[e].exists
    BY Zenon
  <2> QED
    BY <1>1, <1>2, <2>1 DEF Tells
<1>8. HasRevision(row)
  BY <1>1 DEF HasRevision
<1>9. row.kind = "delete" => ~pages'[row.entity].exists
  BY <1>1
<1>10. \A x \in rc' \ rc : x = row
  OBVIOUS
<1> QED
  BY <1>1, <1>3, <1>4, <1>5, <1>6, <1>7, <1>8, <1>9, <1>10 DEF WikiTells

LEMMA LogPagesTell ==
    ASSUME WikiTypeOK, LogInv, NEW e \in Entities,
           DeletePage(e) \/ UndeletePage(e) \/ ProtectPage(e) \/ OtherChange
    PROVE  WikiTells
<1>1. CASE DeletePage(e)
  <2> DEFINE kept == {row \in rc : row.entity # e \/ row.rev = 0}
  <2>1. pages' = [pages EXCEPT ![e].exists = FALSE]
    BY <1>1 DEF DeletePage
  <2>2. pages'[e].exists = FALSE /\ \A f \in Entities : f # e => pages'[f] = pages[f]
    BY <2>1 DEF WikiTypeOK, Page
  <2>3. rc' = kept \cup {NewRow(1, "delete", e, 0, 0, {})}
    BY <1>1 DEF DeletePage
  <2>4. /\ kept \subseteq rc /\ \A r \in rc : r.entity # e \/ r.rev = 0 => r \in kept
        /\ \A r \in kept : r.entity = e => r.rev = 0
    OBVIOUS
  <2>5. "delete" \in RowKinds \ {"edit", "merge", "redirect"}
    BY DEF RowKinds
  <2>6. PICK K, kind, row : K = kept /\ kind = "delete" /\ row = NewRow(1, kind, e, 0, 0, {})
    OBVIOUS
  <2>7. /\ kind \in RowKinds \ {"edit", "merge", "redirect"} /\ K \subseteq rc /\ rc' = K \cup {row}
        /\ \A r \in rc : r.entity # e \/ r.rev = 0 => r \in K
        /\ kind \notin {"delete"} => K = rc
        /\ \A r \in K : kind = "delete" /\ r.entity = e => r.rev = 0
    BY <2>3, <2>4, <2>5, <2>6
  <2>8. /\ \A f \in Entities : kind = "other" \/ f # e => pages'[f] = pages[f]
        /\ kind # "other" => pages'[e].exists = (kind # "delete")
        /\ kind \in {"delete", "restore", "other"} \/ pages' = pages
    BY <2>2, <2>6
  <2> HIDE DEF kept
  <2> QED
    BY <2>6, <2>7, <2>8, LogRowTells
<1>2. CASE UndeletePage(e)
  <2>1. pages' = [pages EXCEPT ![e].exists = TRUE]
    BY <1>2 DEF UndeletePage
  <2>2. pages'[e].exists = TRUE /\ \A f \in Entities : f # e => pages'[f] = pages[f]
    BY <2>1 DEF WikiTypeOK, Page
  <2>3. rc' = rc \cup {NewRow(1, "restore", e, 0, 0, {})}
    BY <1>2 DEF UndeletePage, Publish
  <2>4. "restore" \in RowKinds \ {"edit", "merge", "redirect"}
    BY DEF RowKinds
  <2> QED
    BY <2>2, <2>3, <2>4, LogRowTells
<1>3. CASE ProtectPage(e)
  <2>1. rc' = rc \cup {NewRow(1, "protect", e, 0, 0, {})} /\ pages' = pages /\ pages[e].exists
    BY <1>3 DEF ProtectPage, Publish
  <2>2. pages[e].exists = TRUE
    BY <2>1 DEF WikiTypeOK, Page
  <2>3. "protect" \in RowKinds \ {"edit", "merge", "redirect"}
    BY DEF RowKinds
  <2> QED
    BY <2>1, <2>2, <2>3, LogRowTells
<1>4. CASE OtherChange
  <2>1. PICK f \in Entities : rc' = rc \cup {NewRow(1, "other", f, 0, 0, {})}
    BY <1>4, SourceAssumption DEF OtherChange, Publish
  <2>2. pages' = pages
    BY <1>4 DEF OtherChange
  <2>3. "other" \in RowKinds \ {"edit", "merge", "redirect"}
    BY DEF RowKinds
  <2> QED
    BY <2>1, <2>2, <2>3, LogRowTells
<1> QED
  BY <1>1, <1>2, <1>3, <1>4

LEMMA EditTells ==
    ASSUME WikiTypeOK, WikiInv, LogInv, NEW e \in Entities, EditPage(e)
    PROVE  WikiTells
<1>1. PICK row : row = NewRow(1, "edit", e, NextRev, pages[e].rev, {})
  OBVIOUS
<1>2. /\ row.rcid = lastRcid + 1 /\ row.kind = "edit" /\ row.entity = e /\ row.rev = NextRev
      /\ row.mentions = {} /\ lastRcid \in Nat /\ NextRev > 0
  BY <1>1 DEF NewRow, WikiTypeOK, NextRev
<1>3. /\ rc' = rc \cup {row}
      /\ pages' = [pages EXCEPT ![e] = [rev |-> NextRev, exists |-> TRUE, redirect |-> None]]
      /\ pages[e].exists \/ pages[e].rev = 0
  BY <1>1 DEF EditPage, Publish, Editable
<1>4. pages[e].exists
  BY <1>3 DEF WikiInv, LatestOf, WikiTypeOK, Page
<1>5. /\ pages'[e].exists /\ pages'[e].rev = NextRev
      /\ \A f \in Entities : f # e => pages'[f] = pages[f]
  BY <1>3 DEF WikiTypeOK, Page
<1>6. row \in rc' /\ \A r \in rc : r \in rc'
  BY <1>3
<1>7. ASSUME NEW r \in rc', r.rev > 0
      PROVE  pages'[r.entity].exists
  <2>1. CASE r.entity = e
    BY <1>5, <2>1
  <2>2. CASE r.entity # e
    <3>1. r \in rc
      BY <1>2, <1>3, <2>2
    <3> QED
      BY <1>5, <1>7, <2>2, <3>1 DEF LogInv, WikiTypeOK, Row
  <2> QED
    BY <2>1, <2>2
<1>8. Newly(e)
  BY <1>2, <1>6 DEF Newly, About
<1>9. Mentions(row)' /\ HasRevision(row) /\ Tells(row)'
  BY <1>2, <1>5, <1>6 DEF Mentions, HasRevision, Tells
<1>10. \A x \in rc' \ rc : x = row
  BY <1>3
<1> QED
  BY <1>2, <1>4, <1>5, <1>6, <1>7, <1>8, <1>9, <1>10 DEF WikiTells

LEMMA MergeTells ==
    ASSUME WikiTypeOK, WikiInv, LogInv, NEW from \in Entities, NEW to \in Entities,
           MergeItems(from, to)
    PROVE  WikiTells
<1>1. PICK n, one, two, three :
         /\ n = NextRev
         /\ one = NewRow(1, "merge", from, n, pages[from].rev, {to})
         /\ two = NewRow(2, "merge", to, n + 1, pages[to].rev, {from})
         /\ three = NewRow(3, "redirect", from, n + 2, n, {})
  OBVIOUS
<1>2. n \in Nat /\ n > 0 /\ lastRcid \in Nat
  BY <1>1 DEF WikiTypeOK, NextRev
<1>3. /\ one.rcid = lastRcid + 1 /\ one.kind = "merge" /\ one.entity = from /\ one.rev = n
      /\ one.mentions = {to}
      /\ two.rcid = lastRcid + 2 /\ two.kind = "merge" /\ two.entity = to /\ two.rev = n + 1
      /\ two.mentions = {from}
      /\ three.rcid = lastRcid + 3 /\ three.kind = "redirect" /\ three.entity = from
      /\ three.rev = n + 2 /\ three.mentions = {}
  BY <1>1 DEF NewRow
<1>4. /\ rc' = rc \cup {one, two, three}
      /\ pages' = [pages EXCEPT ![from] = [rev |-> n + 2, exists |-> TRUE, redirect |-> to],
                                ![to] = [@ EXCEPT !.rev = n + 1]]
      /\ from # to /\ pages[from].exists /\ pages[to].exists /\ to # None
  BY <1>1, SourceAssumption DEF MergeItems, Publish
<1>5. PICK p, q : p = [rev |-> n + 2, exists |-> TRUE, redirect |-> to] /\ q = [pages[to] EXCEPT !.rev = n + 1]
  OBVIOUS
<1>6. pages \in [Entities -> Page] /\ pages[to] \in Page
  BY DEF WikiTypeOK
<1>7. p.exists /\ p.rev = n + 2 /\ p.redirect = to
  BY <1>5
<1>8. q.exists /\ q.rev = n + 1
  BY <1>4, <1>5, <1>6 DEF Page
<1>9. pages' = [pages EXCEPT ![from] = p, ![to] = q]
  BY <1>4, <1>5
<1>10. /\ pages'[from] = p /\ pages'[to] = q
       /\ \A f \in Entities \ {from, to} : pages'[f] = pages[f]
  BY <1>4, <1>6, <1>9
<1>11. /\ pages'[from].exists /\ pages'[from].rev = n + 2 /\ pages'[from].redirect # None
       /\ pages'[to].exists /\ pages'[to].rev = n + 1
  BY <1>4, <1>7, <1>8, <1>10
<1>12. {one, two, three} \subseteq rc' /\ \A r \in rc : r \in rc'
  BY <1>4
<1>13. Newly(from) /\ Newly(to)
  <2>1. About(three, from) /\ three.rcid > lastRcid
    BY <1>2, <1>3 DEF About
  <2>2. About(two, to) /\ two.rcid > lastRcid
    BY <1>2, <1>3 DEF About
  <2> QED
    BY <1>12, <2>1, <2>2 DEF Newly
<1>14. ASSUME NEW r \in rc', r.rev > 0
       PROVE  pages'[r.entity].exists
  <2>1. CASE r.entity \in {from, to}
    BY <1>11, <2>1
  <2>2. CASE r.entity \notin {from, to}
    <3>1. r \in rc
      BY <1>3, <1>4, <2>2
    <3> QED
      BY <1>10, <1>14, <2>2, <3>1 DEF LogInv, WikiTypeOK, Row
  <2> QED
    BY <2>1, <2>2
<1>15. Later(from, one.rcid)' /\ Later(to, one.rcid)'
  <2>1. About(three, from) /\ three.rcid > one.rcid /\ About(two, to) /\ two.rcid > one.rcid
    BY <1>2, <1>3 DEF About
  <2> QED
    BY <1>12, <2>1 DEF Later
<1>16. HasRevision(one) /\ Mentions(one)' /\ Tells(one)'
  BY <1>2, <1>3, <1>15 DEF HasRevision, Mentions, Tells
<1>17. HasRevision(two) /\ Mentions(two)' /\ Tells(two)'
  <2>1. HasRevision(two) /\ Mentions(two)'
    BY <1>2, <1>3, <1>11 DEF HasRevision, Mentions
  <2>2. Tells(two)'
    BY <1>3, <1>11, <1>12 DEF Tells
  <2> QED
    BY <2>1, <2>2
<1>18. HasRevision(three) /\ Mentions(three)' /\ Tells(three)'
  <2>1. HasRevision(three) /\ Mentions(three)'
    BY <1>2, <1>3 DEF HasRevision, Mentions
  <2>2. Tells(three)'
    BY <1>3, <1>11, <1>12 DEF Tells
  <2> QED
    BY <2>1, <2>2
<1>19. \A x \in rc' \ rc : x \in {one, two, three}
  BY <1>4
<1>20. \A x \in {one, two, three} : x.kind # "delete" /\ pages[x.entity].exists
  BY <1>3, <1>4
<1>21. \A x \in {one, two, three} : HasRevision(x) /\ Mentions(x)' /\ Tells(x)'
  BY <1>16, <1>17, <1>18
<1>22. \A f \in Entities : f \in {from, to} \/ pages'[f] = pages[f]
  BY <1>10
<1> HIDE DEF Mentions, Tells, HasRevision, Newly
<1> QED
  BY <1>4, <1>12, <1>13, <1>14, <1>19, <1>20, <1>21, <1>22 DEF WikiTells

LEMMA WikiNextTells ==
    ASSUME WikiTypeOK, WikiInv, LogInv, WikiNext, ~purged'
    PROVE  WikiTells
<1>1. ~ExpireRow
  BY DEF ExpireRow
<1>2. CASE OtherChange
  BY <1>2, LogPagesTell, SourceAssumption
<1> QED
  BY <1>1, <1>2, LogPagesTell, EditTells, MergeTells DEF WikiNext

-----------------------------------------------------------------------------
(***************************************************************************)
(* What the worker owes to an entity.                                      *)
(***************************************************************************)

\* The generation holds the revision the fence of e names.
Clean(e) ==
    /\ rows[e].status = "CURRENT"
    /\ store[e] = rows[e].indexed
    /\ e \in Properties => schemas[e] = store[e]
    /\ GraphsOf(e) \subseteq graphs

\* All that the rows up to n tell of e has arrived.
Passed(e, n) == Later(e, n) \/ pages[e].redirect # None \/ Mirrored(e)

\* A fence that is at the revision of the page, with its row still to come, has
\* the graphs of that revision, or a row before that one drops or writes them.
Caught(e) ==
    \A x \in Seen :
        /\ x.entity = e /\ x.rcid > sync.cursor
        /\ x.rev > 0 /\ x.rev = pages[e].rev /\ x.rev = rows[e].indexed
        /\ pages[e].redirect = None
        => \/ Clean(e)
           \/ \E y \in rc : /\ y.kind \in {"delete", "restore"} /\ y.entity = e
                            /\ y.rcid > sync.cursor /\ y.rcid < x.rcid

OwnRevision(e, r) == r # 0 => r \in 1..Len(revisions) /\ revisions[r] = e

Handled(x) == Passed(x.entity, x.rcid) /\ (x.kind = "restore" => Clean(x.entity))

\* A task of the event x, and for the entity of x itself the revision of its page.
UpToDate(t, x) ==
    /\ t.entity \in LifecycleIds(x)
    /\ t.entity = x.entity =>
          \/ Later(x.entity, x.rcid)
          \/ pages[x.entity].redirect # None
          \/ t.rev = pages[x.entity].rev

Aims(j) ==
    /\ j.pc \in Tasking \cup {"resolve"} => EventOf(j).kind \notin {"other", "protect"}
    /\ j.pc = "restoring" => EventOf(j).kind = "restore"
    /\ j.pc \in Tasking =>
          /\ \A i \in DOMAIN j.todo : UpToDate(j.todo[i], EventOf(j))
          /\ TaskIn(j).entity = EventOf(j).entity \/ Handled(EventOf(j))
    /\ j.pc = "advance" => EventOf(j).kind = "other" \/ Handled(EventOf(j))

\* How much of the task has been written.
Fetched == {"put", "register", "putSchema", "registerSchema", "verify", "save", "commit"}
Registered == {"putSchema", "registerSchema", "verify", "save", "commit"}
Complete == {"verify", "save", "commit"}

WritesTask(pc, x, t) ==
    /\ pc \in {"fetch"} \cup (Fetched \ {"commit"}) => x.kind = "restore" \/ t.rev > rows[t.entity].indexed
    /\ pc \in Fetched => t.rev # 0 /\ OwnRevision(t.entity, t.rev)
    /\ pc \in Registered => EntityGraph(t.entity) \in graphs
    /\ pc \in {"registerSchema"} \cup Complete /\ t.entity \in Properties => schemas[t.entity] = t.rev
    /\ pc \in Complete /\ t.entity \in Properties => SchemaGraph(t.entity) \in graphs

\* How much of the entity has been dropped.
Drops(pc, e) ==
    /\ pc \in {"unregisterEntity", "dropSchema", "unregisterSchema", "tombstone"} => store[e] = 0
    /\ pc \in {"dropSchema", "unregisterSchema", "tombstone"} => EntityGraph(e) \notin graphs
    /\ pc \in {"dropSchema", "unregisterSchema"} => e \in Properties
    /\ pc \in {"unregisterSchema", "tombstone"} /\ e \in Properties => schemas[e] = 0
    /\ pc = "tombstone" /\ e \in Properties => SchemaGraph(e) \notin graphs

OnTrack(j) ==
    /\ Aims(j)
    /\ j.pc \in Tasking => WritesTask(j.pc, EventOf(j), TaskIn(j))
    /\ j.pc \in Dropping => Drops(j.pc, EventOf(j).entity)

Following ==
    /\ \A e \in Entities : Passed(e, sync.cursor) /\ Caught(e)
    /\ \A w \in Workers : OnTrack(work[w])

\* Before the worker runs: what was dumped is what the page has, or a row after
\* the cursor tells more; and so are the rows an earlier load left.
BootFollows(e) ==
    /\ e \in DOMAIN loader.dump =>
          /\ OwnRevision(e, loader.dump[e])
          /\ \/ Later(e, sync.cursor)
             \/ pages[e].redirect # None
             \/ loader.dump[e] = IF pages[e].exists THEN pages[e].rev ELSE 0
          /\ loader.dump[e] = 0 =>
                \/ pages[e].redirect # None
                \/ \A x \in rc : x.entity = e /\ x.rev > 0 => x.rev # rows[e].indexed
    /\ IF rows[e].status = "CURRENT"
       THEN /\ GraphsOf(e) \subseteq graphs
            /\ \/ Later(e, sync.cursor)
               \/ pages[e].redirect # None
               \/ pages[e].exists /\ rows[e].indexed = pages[e].rev
       ELSE rows[e].indexed = 0 /\ GraphsOf(e) \cap graphs = {}
    /\ loader.pc = "load" =>
          IF e \in DOMAIN loader.dump
          THEN store[e] = 0 /\ (e \in Properties => schemas[e] = 0)
          ELSE Passed(e, sync.cursor) /\ Caught(e)

LosslessInv ==
    ~purged =>
        /\ LogInv
        /\ \A e \in Entities : OwnRevision(e, rows[e].indexed)
        /\ IF Loaded THEN Following ELSE \A e \in Entities : BootFollows(e)

-----------------------------------------------------------------------------
(***************************************************************************)
(* The wiki changes.                                                       *)
(***************************************************************************)

LEMMA SeenRows ==
    ASSUME SyncInv
    PROVE  \A x \in Seen : /\ x \in Row /\ x.rcid \in Nat /\ x.rev \in Nat /\ x.entity \in Entities
                           /\ Recorded(x) /\ x.rcid <= lastRcid
                           /\ \A y \in Seen : Follows(x, y)
<1>1. Seen \subseteq Row
  BY DEF SyncInv, Typed, TypeOK, WikiTypeOK, Seen, Job
<1>2. \A x \in Seen : Recorded(x) /\ \A y \in Seen : Follows(x, y)
  BY DEF SyncInv, HistoryInv, History
<1>3. \A x \in Seen : x.rcid <= lastRcid
  BY <1>1, <1>2 DEF Recorded, Row, SyncInv, Typed, TypeOK, WikiTypeOK
<1> QED
  BY <1>1, <1>2, <1>3 DEF Row

\* The wiki changes, and rows are not lost.
WikiStep ==
    /\ SyncInv /\ WikiGrows /\ WikiTells /\ ~purged'
    /\ UNCHANGED <<sync, rows, graphs, store, schemas, loader, work>>

LEMMA LaterStays ==
    ASSUME WikiStep, NEW e \in Entities, NEW n \in Nat, n <= lastRcid
    PROVE  /\ Later(e, n) \/ Newly(e) => Later(e, n)'
           /\ Newly(e) \/ pages'[e] = pages[e]
<1>1. lastRcid \in Nat
  BY DEF WikiStep, SyncInv, Typed, TypeOK, WikiTypeOK
<1>2. ASSUME Newly(e)
      PROVE  Later(e, n)'
  <2>1. PICK row \in rc' : row.rcid > lastRcid /\ About(row, e)
    BY <1>2 DEF Newly
  <2>2. row.rcid \in Nat
    BY <2>1 DEF WikiStep, WikiGrows, WikiTypeOK, Row
  <2> QED
    BY <1>1, <2>1, <2>2 DEF Later
<1>3. ASSUME Later(e, n), ~Newly(e)
      PROVE  Later(e, n)'
  <2>1. PICK row \in rc : row.rcid > n /\ About(row, e)
    BY <1>3 DEF Later
  <2>2. row \in rc'
    BY <1>3, <2>1 DEF WikiStep, WikiTells
  <2> QED
    BY <2>1, <2>2 DEF Later
<1> QED
  BY <1>2, <1>3 DEF WikiStep, WikiTells

\* Rows without a revision are kept.
LEMMA LogRowsStay ==
    ASSUME WikiStep, LogInv
    PROVE  /\ \A y \in rc : y.kind \in {"delete", "restore"} => y \in rc'
           /\ \A f \in Entities : pages[f].redirect # None => pages'[f].redirect # None
           /\ Seen' \subseteq Seen \cup (rc' \ rc)
<1>1. \A y \in rc : y.kind \in {"delete", "restore"} => y.rev = 0
  BY DEF LogInv, Told, HasRevision, Seen
<1>2. Seen' \subseteq Seen \cup (rc' \ rc)
  BY DEF Seen, WikiStep
<1> QED
  BY <1>1, <1>2 DEF WikiStep, WikiGrows

LEMMA NewRows ==
    ASSUME WikiStep, NEW x \in rc' \ rc
    PROVE  /\ x \in Row /\ x.rcid > lastRcid /\ x.rcid \in Nat /\ lastRcid \in Nat
           /\ x.rev = 0 \/ x.rev > Len(revisions)
BY DEF WikiStep, WikiGrows, WikiTypeOK, Row, SyncInv, Typed, TypeOK

LEMMA WikiKeepsTold ==
    ASSUME WikiStep, LogInv, NEW x \in Seen
    PROVE  Told(x)'
<1>1. /\ x \in Row /\ x.rcid \in Nat /\ x.rcid <= lastRcid /\ x.entity \in Entities
      /\ \A y \in Seen : Follows(x, y) /\ Follows(y, x)
  BY SeenRows DEF WikiStep
<1>2. Told(x)
  BY DEF LogInv
<1>3. Mentions(x)'
  <2>1. \A f \in x.mentions : f \in Entities
    BY <1>1 DEF Row
  <2>2. ASSUME NEW f \in x.mentions
        PROVE  pages'[f].redirect # None \/ Later(f, x.rcid)'
    <3>1. pages[f].redirect # None \/ Later(f, x.rcid)
      BY <1>2 DEF Told, Mentions
    <3> QED
      BY <1>1, <2>1, <3>1, LaterStays, LogRowsStay
  <2> QED
    BY <1>2, <2>2 DEF Told, Mentions
<1>4. Tells(x)'
  <2>1. SUFFICES ASSUME x.kind # "other", ~Later(x.entity, x.rcid)'
                 PROVE  /\ \E row \in rc' : row.rcid = x.rcid
                        /\ IF x.kind = "delete" THEN ~pages'[x.entity].exists ELSE pages'[x.entity].exists
                        /\ x.rev > 0 => pages'[x.entity].rev = x.rev
    BY DEF Tells
  <2>2. ~Later(x.entity, x.rcid) /\ ~Newly(x.entity) /\ pages'[x.entity] = pages[x.entity]
    BY <1>1, <2>1, LaterStays
  <2>3. PICK row \in rc : row.rcid = x.rcid
    BY <1>2, <2>1, <2>2 DEF Told, Tells
  <2>4. About(row, x.entity)
    <3>1. Follows(row, x)
      BY <1>1, <2>3 DEF Seen
    <3> QED
      BY <2>1, <2>3, <3>1 DEF Follows, Like, About
  <2>5. row \in rc'
    BY <1>1, <2>2, <2>4 DEF WikiStep, WikiTells
  <2> QED
    BY <1>2, <2>1, <2>2, <2>3, <2>5 DEF Told, Tells
<1>5. ASSUME x.kind = "delete", pages'[x.entity].exists
      PROVE  RestoredAfter(x)'
  <2>1. CASE pages[x.entity].exists
    BY <1>2, <1>5, <2>1, LogRowsStay DEF Told, RestoredAfter
  <2>2. CASE ~pages[x.entity].exists
    <3>1. PICK y \in rc' : y.rcid > lastRcid /\ y.kind = "restore" /\ y.entity = x.entity
      BY <1>1, <1>5, <2>2 DEF WikiStep, WikiTells
    <3>2. y.rcid \in Nat /\ lastRcid \in Nat
      BY <3>1 DEF WikiStep, WikiGrows, WikiTypeOK, Row, SyncInv, Typed, TypeOK
    <3>3. y.rcid > x.rcid
      BY <1>1, <3>1, <3>2
    <3> QED
      BY <3>1, <3>3 DEF RestoredAfter
  <2> QED
    BY <2>1, <2>2
<1>6. HasRevision(x)'
  BY <1>2 DEF Told, HasRevision
<1> QED
  BY <1>3, <1>4, <1>5, <1>6 DEF Told

LEMMA WikiKeepsLog ==
    ASSUME WikiStep, LogInv
    PROVE  LogInv'
<1>1. ASSUME NEW x \in Seen'
      PROVE  Told(x)'
  <2>1. CASE x \in Seen
    BY <2>1, WikiKeepsTold
  <2>2. CASE x \in rc' \ rc
    BY <2>2 DEF WikiStep, WikiTells, Told, HasRevision
  <2> QED
    BY <2>1, <2>2, LogRowsStay
<1>2. ASSUME NEW x \in Seen', NEW z \in Seen'
      PROVE  Revives(x, z)'
  <2> SUFFICES ASSUME x.kind = "delete", z.entity = x.entity, z.rcid > x.rcid, z.rev > 0
               PROVE  RestoredBetween(x, z)'
    BY DEF Revives
  <2>1. CASE x \in Seen /\ z \in Seen
    <3>1. RestoredBetween(x, z)
      BY <2>1 DEF LogInv, Revives
    <3> QED
      BY <3>1, LogRowsStay DEF RestoredBetween
  <2>2. CASE x \in Seen /\ z \in rc' \ rc
    <3>1. pages[x.entity].exists
      BY <2>2 DEF WikiStep, WikiTells
    <3>2. PICK y \in rc : y.kind = "restore" /\ y.entity = x.entity /\ y.rcid > x.rcid
      BY <2>2, <3>1 DEF LogInv, Told, RestoredAfter
    <3>3. y.rcid <= lastRcid /\ y.rcid \in Nat
      BY SeenRows DEF WikiStep, Seen
    <3>4. y.rcid < z.rcid
      BY <2>2, <3>3, NewRows
    <3> QED
      BY <3>2, <3>4, LogRowsStay DEF RestoredBetween
  <2>3. CASE x \in rc' \ rc /\ z \in Seen
    <3>1. z.rcid <= lastRcid /\ z.rcid \in Nat
      BY <2>3, SeenRows DEF WikiStep
    <3> QED
      BY <2>3, <3>1, NewRows
  <2>4. CASE x \in rc' \ rc /\ z \in rc' \ rc
    BY <2>4 DEF WikiStep, WikiTells
  <2> QED
    BY <2>1, <2>2, <2>3, <2>4, LogRowsStay
<1>3. \A row \in rc' : row.rev > 0 => pages'[row.entity].exists
  BY DEF WikiStep, WikiTells
<1> QED
  BY <1>1, <1>2, <1>3 DEF LogInv

LEMMA PassedStays ==
    ASSUME WikiStep, LogInv, NEW e \in Entities, NEW n \in Nat, n <= lastRcid, Passed(e, n)
    PROVE  Passed(e, n)'
<1>1. CASE Later(e, n) \/ Newly(e)
  BY <1>1, LaterStays DEF Passed
<1>2. CASE pages[e].redirect # None
  BY <1>2, LogRowsStay DEF Passed
<1>3. CASE Mirrored(e) /\ ~Newly(e)
  <2>1. pages'[e] = pages[e] /\ UNCHANGED <<rows, graphs, store, schemas>>
    BY <1>3, LaterStays DEF WikiStep
  <2> QED
    BY <1>3, <2>1 DEF Passed, Mirrored
<1> QED
  BY <1>1, <1>2, <1>3 DEF Passed

\* A page moves only to a new revision.
LEMMA RevisionOfPage ==
    ASSUME WikiStep, NEW e \in Entities
    PROVE  /\ pages'[e].rev = pages[e].rev \/ pages'[e].rev > Len(revisions)
           /\ pages'[e].rev \in Nat /\ pages[e].rev \in 1..Len(revisions) /\ Len(revisions) \in Nat
           /\ \A r : OwnRevision(e, r) => OwnRevision(e, r)'
<1>1. LatestOf(e) /\ LatestOf(e)' /\ pages[e] \in Page /\ pages'[e] \in Page
  BY DEF WikiStep, WikiGrows, WikiInv, SyncInv, HistoryInv, Typed, TypeOK, WikiTypeOK
<1>2. Len(revisions) \in Nat /\ Len(revisions') \in Nat /\ Len(revisions') >= Len(revisions)
  BY DEF WikiStep, WikiGrows, SyncInv, Typed, TypeOK, WikiTypeOK
<1>3. \A k \in 1..Len(revisions) : revisions'[k] = revisions[k]
  BY DEF WikiStep, WikiGrows
<1>4. ASSUME ~(pages'[e].rev > Len(revisions))
      PROVE  pages'[e].rev = pages[e].rev
  <2>1. pages'[e].rev \in 1..Len(revisions) /\ revisions[pages'[e].rev] = e
    BY <1>1, <1>2, <1>3, <1>4 DEF LatestOf
  <2>2. pages'[e].rev <= pages[e].rev
    BY <1>1, <1>2, <2>1 DEF LatestOf, Page
  <2>3. pages'[e].rev >= pages[e].rev
    BY DEF WikiStep, WikiGrows
  <2> QED
    BY <1>1, <2>2, <2>3 DEF Page
<1>5. ASSUME NEW r, OwnRevision(e, r)
      PROVE  OwnRevision(e, r)'
  BY <1>2, <1>3, <1>5 DEF OwnRevision
<1> QED
  BY <1>1, <1>2, <1>4, <1>5 DEF LatestOf, Page

LEMMA CaughtStays ==
    ASSUME WikiStep, LogInv, NEW e \in Entities, OwnRevision(e, rows[e].indexed), Caught(e)
    PROVE  Caught(e)'
<1> SUFFICES ASSUME NEW x \in Seen', x.entity = e, x.rcid > sync.cursor, x.rev > 0,
                    x.rev = pages'[e].rev, x.rev = rows[e].indexed, pages'[e].redirect = None
             PROVE  \/ Clean(e)'
                    \/ \E y \in rc' : /\ y.kind \in {"delete", "restore"} /\ y.entity = e
                                      /\ y.rcid > sync.cursor /\ y.rcid < x.rcid
  BY DEF Caught, WikiStep
<1>1. x.rev \in 1..Len(revisions)
  BY DEF OwnRevision
<1>2. x \in Seen
  <2>1. x \notin rc' \ rc
    BY <1>1, NewRows, RevisionOfPage
  <2> QED
    BY <2>1, LogRowsStay
<1>3. pages[e].rev = x.rev /\ pages[e].redirect = None
  <2>1. pages[e].redirect = None
    BY LogRowsStay
  <2>2. pages'[e].rev = pages[e].rev
    <3>1. ~(pages'[e].rev > Len(revisions))
      <4>1. Len(revisions) \in Nat
        BY RevisionOfPage
      <4> QED
        BY <1>1, <4>1
    <3> QED
      BY <3>1, RevisionOfPage
  <2> QED
    BY <2>1, <2>2
<1>4. CASE Clean(e)
  BY <1>4 DEF Clean, WikiStep
<1>5. CASE \E y \in rc : /\ y.kind \in {"delete", "restore"} /\ y.entity = e
                         /\ y.rcid > sync.cursor /\ y.rcid < x.rcid
  BY <1>5, LogRowsStay
<1> QED
  BY <1>2, <1>3, <1>4, <1>5 DEF Caught

LEMMA EventRow ==
    ASSUME SyncInv, NEW w \in Workers, work[w].pc \notin Idle
    PROVE  /\ EventOf(work[w]) \in Seen /\ EventOf(work[w]) \in work[w].page
           /\ EventOf(work[w]) \in Row
           /\ EventOf(work[w]).rcid \in Nat /\ EventOf(work[w]).rcid <= lastRcid
           /\ EventOf(work[w]).entity \in Entities
           /\ EventOf(work[w]).rcid > sync.cursor
           /\ \A x \in work[w].page : EventOf(work[w]).rcid <= x.rcid
<1>1. work[w] \in Job /\ Busy(work[w]) /\ InOrder(work[w])
  BY DEF SyncInv, Typed, TypeOK, WorkInv
<1>2. PICK x : x = EventOf(work[w])
  OBVIOUS
<1>3. x \in work[w].page /\ \A y \in work[w].page : x.rcid <= y.rcid
  BY <1>1, <1>2, EventOfJob
<1>4. x \in Seen
  BY <1>3 DEF Seen
<1>5. x.rcid > sync.cursor
  BY <1>1, <1>3 DEF InOrder
<1> QED
  BY <1>2, <1>3, <1>4, <1>5, SeenRows

LEMMA OnTrackStays ==
    ASSUME WikiStep, LogInv, NEW w \in Workers, OnTrack(work[w])
    PROVE  OnTrack(work[w])'
<1>1. CASE work[w].pc \in Idle
  BY <1>1 DEF WikiStep, OnTrack, Aims, Idle, Tasking, Editing, Dropping
<1>2. CASE work[w].pc \notin Idle
  <2>1. PICK j, x, t : j = work[w] /\ x = EventOf(j) /\ t = TaskIn(j)
    OBVIOUS
  <2>2. /\ x \in Row /\ x.rcid \in Nat /\ x.rcid <= lastRcid /\ x.entity \in Entities
    BY <1>2, <2>1, EventRow DEF WikiStep
  <2>3. ASSUME Handled(x)
        PROVE  Handled(x)'
    BY <2>2, <2>3, PassedStays DEF Handled, Clean, WikiStep
  <2>4. ASSUME NEW s, UpToDate(s, x)
        PROVE  UpToDate(s, x)'
    <3>1. \/ pages'[x.entity] = pages[x.entity]
          \/ Later(x.entity, x.rcid)'
      BY <2>2, LaterStays
    <3>2. Later(x.entity, x.rcid) => Later(x.entity, x.rcid)'
      BY <2>2, LaterStays
    <3> QED
      BY <2>4, <3>1, <3>2 DEF UpToDate
  <2>5. ASSUME j.pc \in Tasking, WritesTask(j.pc, x, t)
        PROVE  WritesTask(j.pc, x, t)'
    <3>1. t \in Task
      BY <2>1, <2>5, TaskOfJob DEF WikiStep, SyncInv, Typed, TypeOK
    <3>2. OwnRevision(t.entity, t.rev) => OwnRevision(t.entity, t.rev)'
      BY <3>1, RevisionOfPage DEF Task
    <3>3. UNCHANGED <<rows, graphs, store, schemas>>
      BY DEF WikiStep
    <3> QED
      BY <2>5, <3>2, <3>3 DEF WritesTask
  <2>6. Drops(j.pc, x.entity) => Drops(j.pc, x.entity)'
    BY DEF Drops, WikiStep
  <2>7. Aims(j) => Aims(j)'
    BY <2>1, <2>3, <2>4 DEF Aims
  <2>8. work' = work /\ EventOf(j)' = EventOf(j) /\ TaskIn(j)' = TaskIn(j)
    BY DEF WikiStep, EventOf, TaskIn
  <2>9. OnTrack(j)'
    BY <2>1, <2>5, <2>6, <2>7, <2>8 DEF OnTrack
  <2> QED
    BY <2>1, <2>8, <2>9
<1> QED
  BY <1>1, <1>2

LEMMA BootFollowsStays ==
    ASSUME WikiStep, LogInv, NEW e \in Entities, OwnRevision(e, rows[e].indexed), BootFollows(e)
    PROVE  BootFollows(e)'
<1>1. UNCHANGED <<sync, rows, graphs, store, schemas, loader>>
  BY DEF WikiStep
<1>2. sync.cursor \in Nat /\ sync.cursor <= lastRcid
  BY DEF WikiStep, SyncInv, HistoryInv, Typed, TypeOK
<1>3. /\ Later(e, sync.cursor) => Later(e, sync.cursor)'
      /\ Later(e, sync.cursor)' \/ pages'[e] = pages[e]
      /\ pages[e].redirect # None => pages'[e].redirect # None
  <2>1. PICK n \in Nat : n = sync.cursor
    BY <1>2
  <2>2. /\ Later(e, n) => Later(e, n)'
        /\ Later(e, n)' \/ pages'[e] = pages[e]
    BY <1>2, <2>1, LaterStays
  <2>3. Later(e, sync.cursor)' <=> Later(e, n)'
    BY <1>1, <2>1 DEF Later
  <2> QED
    BY <2>1, <2>2, <2>3, LogRowsStay
<1>4. Passed(e, sync.cursor) => Passed(e, sync.cursor)'
  <2>1. PICK n \in Nat : n = sync.cursor
    BY <1>2
  <2>2. Passed(e, n) => Passed(e, n)'
    BY <1>2, <2>1, PassedStays
  <2>3. Passed(e, sync.cursor)' <=> Passed(e, n)'
    BY <1>1, <2>1 DEF Passed, Later
  <2> QED
    BY <2>1, <2>2, <2>3
<1>5. Caught(e) => Caught(e)'
  BY CaughtStays
<1>6. ASSUME e \in DOMAIN loader.dump
      PROVE  /\ OwnRevision(e, loader.dump[e])'
             /\ \/ Later(e, sync.cursor)'
                \/ pages'[e].redirect # None
                \/ loader.dump[e] = IF pages'[e].exists THEN pages'[e].rev ELSE 0
  <2>1. OwnRevision(e, loader.dump[e])
    BY <1>6 DEF BootFollows
  <2>2. OwnRevision(e, loader.dump[e])'
    <3>1. PICK r : r = loader.dump[e]
      OBVIOUS
    <3>2. OwnRevision(e, r)'
      BY <2>1, <3>1, RevisionOfPage
    <3> QED
      BY <1>1, <3>1, <3>2 DEF OwnRevision
  <2> QED
    BY <1>1, <1>3, <1>6, <2>2 DEF BootFollows
<1>7. ASSUME e \in DOMAIN loader.dump, loader.dump[e] = 0, pages'[e].redirect = None,
             NEW x \in rc', x.entity = e, x.rev > 0
      PROVE  x.rev # rows[e].indexed
  <2>1. CASE x \in rc
    BY <1>3, <1>7, <2>1 DEF BootFollows
  <2>2. CASE x \in rc' \ rc
    <3>1. rows[e].indexed = 0 \/ rows[e].indexed \in 1..Len(revisions)
      BY DEF OwnRevision
    <3>2. x.rev > Len(revisions) /\ Len(revisions) \in Nat
      BY <1>7, <2>2, NewRows, RevisionOfPage
    <3> QED
      BY <1>7, <3>1, <3>2
  <2> QED
    BY <2>1, <2>2
<1>8. IF rows[e].status = "CURRENT"
      THEN /\ GraphsOf(e) \subseteq graphs
           /\ \/ Later(e, sync.cursor)'
              \/ pages'[e].redirect # None
              \/ pages'[e].exists /\ rows[e].indexed = pages'[e].rev
      ELSE rows[e].indexed = 0 /\ GraphsOf(e) \cap graphs = {}
  BY <1>3 DEF BootFollows
<1>9. loader.pc = "load" =>
          IF e \in DOMAIN loader.dump
          THEN store[e] = 0 /\ (e \in Properties => schemas[e] = 0)
          ELSE Passed(e, sync.cursor)' /\ Caught(e)'
  BY <1>4, <1>5 DEF BootFollows
<1> HIDE DEF Later, Passed, Caught, OwnRevision
<1> QED
  BY <1>1, <1>6, <1>7, <1>8, <1>9 DEF BootFollows

LEMMA WikiKeepsLossless ==
    ASSUME SyncInv, LosslessInv, WikiNext, UNCHANGED <<dbVars, storeVars, loader, work, faults>>
    PROVE  LosslessInv'
<1>1. SUFFICES ASSUME ~purged'
               PROVE  /\ LogInv'
                      /\ \A e \in Entities : OwnRevision(e, rows[e].indexed)'
                      /\ IF Loaded' THEN Following' ELSE \A e \in Entities : BootFollows(e)'
  BY DEF LosslessInv
<1>2. WikiGrows /\ ~purged
  BY <1>1, WikiKeeps DEF WikiGrows
<1>3. LogInv
  BY <1>2 DEF LosslessInv
<1>4. WikiStep
  BY <1>1, <1>2, <1>3, WikiNextTells DEF WikiStep, dbVars, storeVars, SyncInv, Typed, TypeOK, HistoryInv
<1>5. \A e \in Entities : OwnRevision(e, rows[e].indexed)
  BY <1>2 DEF LosslessInv
<1>6. ASSUME NEW e \in Entities
      PROVE  OwnRevision(e, rows[e].indexed)'
  <2>1. PICK r : r = rows[e].indexed
    OBVIOUS
  <2>2. OwnRevision(e, r)'
    BY <1>4, <1>5, <2>1, RevisionOfPage
  <2> QED
    BY <1>4, <2>1, <2>2 DEF WikiStep
<1>7. LogInv'
  BY <1>3, <1>4, WikiKeepsLog
<1>8. sync.cursor \in Nat /\ sync.cursor <= lastRcid
  BY DEF SyncInv, HistoryInv, Typed, TypeOK
<1>9. CASE Loaded
  <2>1. Following
    BY <1>2, <1>9 DEF LosslessInv
  <2>2. ASSUME NEW e \in Entities
        PROVE  Passed(e, sync.cursor)' /\ Caught(e)'
    <3>1. PICK n \in Nat : n = sync.cursor
      BY <1>8
    <3>2. Passed(e, n)'
      BY <1>3, <1>4, <1>8, <2>1, <3>1, PassedStays DEF Following
    <3>3. Passed(e, sync.cursor)'
      BY <1>4, <3>1, <3>2 DEF WikiStep
    <3> QED
      BY <1>3, <1>4, <1>5, <2>1, <3>3, CaughtStays DEF Following
  <2>3. \A w \in Workers : OnTrack(work[w])'
    BY <1>3, <1>4, <2>1, OnTrackStays DEF Following
  <2>4. Following'
    BY <2>2, <2>3 DEF Following
  <2> QED
    BY <1>4, <1>6, <1>7, <1>9, <2>4 DEF Loaded, WikiStep
<1>10. CASE ~Loaded
  <2>1. \A e \in Entities : BootFollows(e)
    BY <1>2, <1>10 DEF LosslessInv
  <2>2. \A e \in Entities : BootFollows(e)'
    BY <1>3, <1>4, <1>5, <2>1, BootFollowsStays
  <2> QED
    BY <1>4, <1>6, <1>7, <1>10, <2>2 DEF Loaded, WikiStep
<1> QED
  BY <1>9, <1>10

-----------------------------------------------------------------------------
(***************************************************************************)
(* Entities a step leaves alone.                                           *)
(***************************************************************************)

SameFor(e) ==
    /\ rows'[e] = rows[e] /\ store'[e] = store[e]
    /\ e \in Properties => schemas'[e] = schemas[e]
    /\ \A g \in GraphsOf(e) : (g \in graphs') <=> (g \in graphs)

LEMMA LeftAlone ==
    ASSUME NEW e \in Entities, SameFor(e), UNCHANGED <<pages, rc>>
    PROVE  /\ Clean(e) => Clean(e)'
           /\ Mirrored(e) => Mirrored(e)'
           /\ \A n : Passed(e, n) => Passed(e, n)'
<1>1. Clean(e) => Clean(e)'
  BY DEF SameFor, Clean
<1>2. graphs' \cap GraphsOf(e) = graphs \cap GraphsOf(e)
  BY DEF SameFor
<1>3. Mirrored(e) => Mirrored(e)'
  BY <1>2 DEF SameFor, Mirrored
<1>4. ASSUME NEW n, Passed(e, n)
      PROVE  Passed(e, n)'
  BY <1>3, <1>4 DEF Passed, Later
<1> QED
  BY <1>1, <1>3, <1>4

LEMMA CaughtLeft ==
    ASSUME NEW e \in Entities, Clean(e) => Clean(e)', UNCHANGED <<pages, rc>>,
           rows'[e].indexed = rows[e].indexed,
           sync'.cursor = sync.cursor, \A x \in Seen' : \E y \in Seen : Like(y, x), Caught(e)
    PROVE  Caught(e)'
<1> SUFFICES ASSUME NEW x \in Seen', x.entity = e, x.rcid > sync.cursor, x.rev > 0,
                    x.rev = pages[e].rev, x.rev = rows[e].indexed, pages[e].redirect = None
             PROVE  \/ Clean(e)'
                    \/ \E y \in rc : /\ y.kind \in {"delete", "restore"} /\ y.entity = e
                                     /\ y.rcid > sync.cursor /\ y.rcid < x.rcid
  BY DEF Caught
<1>1. PICK z \in Seen : Like(z, x)
  OBVIOUS
<1>2. z.entity = x.entity /\ z.rcid = x.rcid /\ z.rev = x.rev
  BY <1>1 DEF Like
<1> QED
  BY <1>2 DEF Caught

\* An entity whose graphs are those of its fence, with the page at that fence.
LEMMA CleanMirrors ==
    ASSUME NEW e \in Entities, Clean(e), pages[e].exists, rows[e].indexed = pages[e].rev
    PROVE  Mirrored(e)
<1>1. graphs \cap GraphsOf(e) = GraphsOf(e)
  BY DEF Clean
<1> QED
  BY <1>1 DEF Clean, Mirrored

LEMMA GraphsApart ==
    ASSUME NEW e \in Entities, NEW f \in Entities, e # f
    PROVE  GraphsOf(e) \cap GraphsOf(f) = {}
BY DEF GraphsOf, EntityGraph, SchemaGraph

-----------------------------------------------------------------------------
(***************************************************************************)
(* The loader.                                                             *)
(***************************************************************************)

LEMMA CaptureKeepsLossless ==
    ASSUME SyncInv, FenceInv, BackedInv, LosslessInv, CaptureCursor
    PROVE  LosslessInv'
<1>1. /\ UNCHANGED <<pages, revisions, rc, lastRcid, purged, rows, graphs, store, schemas, work>>
      /\ ~Loaded
  BY DEF CaptureCursor, storeVars, wikiVars, Loaded
<1>2. PICK none : none = << >> /\ DOMAIN none = {}
  BY EmptyDump
<1>3. loader'.pc = "dump" /\ DOMAIN loader'.dump = {}
  BY <1>2 DEF CaptureCursor
<1>4. sync.registered => sync'.cursor = sync.cursor
  BY DEF CaptureCursor, SyncInv, Typed, TypeOK
<1>5. SUFFICES ASSUME ~purged
               PROVE  /\ LogInv'
                      /\ \A e \in Entities : OwnRevision(e, rows[e].indexed)'
                      /\ \A e \in Entities : BootFollows(e)'
  BY <1>1, <1>3 DEF LosslessInv, Loaded
<1>6. Seen' = Seen
  BY <1>1 DEF Seen
<1>7. LogInv'
  BY <1>1, <1>5, <1>6 DEF LosslessInv, LogInv, Told, HasRevision, Mentions, Tells, Later,
     RestoredAfter, Revives, RestoredBetween
<1>8. \A e \in Entities : OwnRevision(e, rows[e].indexed)'
  BY <1>1, <1>5 DEF LosslessInv, OwnRevision
<1>9. ASSUME NEW e \in Entities
      PROVE  BootFollows(e)'
  <2>1. rows[e].status = "CURRENT" => sync.registered
    BY <1>1, <1>5 DEF BackedInv, BootBacked
  <2>2. rows[e].status = "CURRENT" => (Later(e, sync.cursor) => Later(e, sync.cursor)')
    BY <1>1, <1>4, <2>1 DEF Later
  <2>3. BootFollows(e)
    BY <1>1, <1>5 DEF LosslessInv
  <2> QED
    BY <1>1, <1>3, <2>2, <2>3 DEF BootFollows
<1> QED
  BY <1>7, <1>8, <1>9

\* A step of the loader that changes neither wiki, cursor nor workers.
LoaderStep ==
    /\ SyncInv /\ FenceInv /\ BackedInv /\ LosslessInv /\ ~purged /\ ~Loaded
    /\ UNCHANGED <<pages, revisions, rc, lastRcid, purged, work>>
    /\ sync'.cursor = sync.cursor

LEMMA LoaderStepKeeps ==
    ASSUME LoaderStep
    PROVE  /\ LogInv /\ LogInv' /\ Seen' = Seen
           /\ \A e \in Entities : /\ OwnRevision(e, rows[e].indexed) /\ BootFollows(e)
                                  /\ Later(e, sync.cursor)' <=> Later(e, sync.cursor)
                                  /\ \A r : OwnRevision(e, r)' <=> OwnRevision(e, r)
<1>1. LogInv /\ \A e \in Entities : OwnRevision(e, rows[e].indexed) /\ BootFollows(e)
  BY DEF LoaderStep, LosslessInv
<1>2. Seen' = Seen
  BY DEF LoaderStep, Seen
<1>3. LogInv'
  BY <1>1, <1>2 DEF LoaderStep, LogInv, Told, HasRevision, Mentions, Tells, Later,
     RestoredAfter, Revives, RestoredBetween
<1>4. \A e \in Entities : \A r : OwnRevision(e, r)' <=> OwnRevision(e, r)
  BY DEF LoaderStep, OwnRevision
<1>5. \A e \in Entities : Later(e, sync.cursor)' <=> Later(e, sync.cursor)
  BY DEF LoaderStep, Later
<1> QED
  BY <1>1, <1>2, <1>3, <1>4, <1>5

LEMMA DumpKeepsLossless ==
    ASSUME LoaderStep, NEW e \in Entities, DumpEntity(e)
    PROVE  LosslessInv'
<1>1. PICK S \in SUBSET Entities : loader \in [pc : LoaderCalls, dump : [S -> Nat]]
  BY DEF LoaderStep, SyncInv, Typed, TypeOK
<1>2. DOMAIN loader.dump = S
  BY <1>1
<1>3. PICK content : content = IF pages[e].exists /\ pages[e].redirect = None THEN pages[e].rev ELSE 0
  OBVIOUS
<1>4. PICK seen : seen = [f \in S \cup {e} |-> IF f = e THEN content ELSE loader.dump[f]]
  OBVIOUS
<1>5. loader' = [pc |-> IF DOMAIN seen = Entities THEN "reset" ELSE "dump", dump |-> seen]
  BY <1>2, <1>3, <1>4 DEF DumpEntity
<1>6. /\ loader'.dump = seen /\ loader'.pc \in {"reset", "dump"} /\ loader.pc = "dump"
      /\ UNCHANGED <<rows, graphs, store, schemas>>
  BY <1>5 DEF DumpEntity, dbVars, storeVars
<1>7. DOMAIN seen = S \cup {e} /\ seen[e] = content /\ \A f \in S : f # e => seen[f] = loader.dump[f]
  BY <1>4
<1>8. LatestOf(e) /\ pages[e].rev # 0
  BY DEF LoaderStep, SyncInv, HistoryInv, WikiInv, LatestOf
<1>9. OwnRevision(e, content)
  BY <1>3, <1>8 DEF OwnRevision, LatestOf
<1>10. ASSUME content = 0, pages[e].redirect = None, NEW x \in rc, x.entity = e, x.rev > 0
       PROVE  x.rev # rows[e].indexed
  <2>1. ~pages[e].exists
    BY <1>3, <1>8, <1>10
  <2> QED
    BY <1>10, <2>1, LoaderStepKeeps DEF LogInv
<1>11. ASSUME NEW f \in Entities
       PROVE  BootFollows(f)'
  <2>1. BootFollows(f) /\ OwnRevision(f, rows[f].indexed)
    BY LoaderStepKeeps
  <2>2. Later(f, sync.cursor)' <=> Later(f, sync.cursor)
    BY LoaderStepKeeps
  <2>3. \A r : OwnRevision(f, r)' <=> OwnRevision(f, r)
    BY LoaderStepKeeps
  <2>4. UNCHANGED <<pages, rc, rows, graphs>> /\ loader'.pc # "load"
    BY <1>6 DEF LoaderStep
  <2>5. IF rows[f].status = "CURRENT"
        THEN /\ GraphsOf(f) \subseteq graphs
             /\ \/ Later(f, sync.cursor)'
                \/ pages[f].redirect # None
                \/ pages[f].exists /\ rows[f].indexed = pages[f].rev
        ELSE rows[f].indexed = 0 /\ GraphsOf(f) \cap graphs = {}
    BY <2>1, <2>2 DEF BootFollows
  <2>6. ASSUME f \in DOMAIN seen
        PROVE  /\ OwnRevision(f, seen[f])'
               /\ \/ Later(f, sync.cursor)'
                  \/ pages[f].redirect # None
                  \/ seen[f] = IF pages[f].exists THEN pages[f].rev ELSE 0
               /\ seen[f] = 0 =>
                     \/ pages[f].redirect # None
                     \/ \A x \in rc : x.entity = f /\ x.rev > 0 => x.rev # rows[f].indexed
    <3>1. CASE f = e
      BY <1>3, <1>4, <1>7, <1>9, <1>10, <2>3, <3>1, Zenon
    <3>2. CASE f # e
      <4>1. f \in DOMAIN loader.dump /\ seen[f] = loader.dump[f]
        BY <1>2, <1>7, <2>6, <3>2
      <4> QED
        BY <2>1, <2>2, <2>3, <4>1 DEF BootFollows
    <3> QED
      BY <3>1, <3>2
  <2>7. OwnRevision(f, loader.dump[f])' <=> OwnRevision(f, seen[f])'
    BY <1>6 DEF OwnRevision
  <2> HIDE DEF Later, OwnRevision, Caught, Passed
  <2> QED
    BY <1>6, <2>4, <2>5, <2>6, <2>7 DEF BootFollows
<1>12. \A f \in Entities : OwnRevision(f, rows[f].indexed)'
  BY <1>6, LoaderStepKeeps DEF OwnRevision
<1>13. ~Loaded'
  BY <1>6 DEF Loaded
<1> QED
  BY <1>11, <1>12, <1>13, LoaderStepKeeps DEF LosslessInv

LEMMA ResetKeepsLossless ==
    ASSUME LoaderStep, ResetStore
    PROVE  LosslessInv'
<1>1. /\ UNCHANGED <<rows, graphs, sync>> /\ loader'.pc = "load" /\ loader'.dump = loader.dump
      /\ store' = [e \in Entities |-> 0] /\ schemas' = [e \in Properties |-> 0] /\ loader.pc = "reset"
  BY DEF ResetStore, dbVars, LoaderStep, SyncInv, Typed, TypeOK
<1>2. DOMAIN loader.dump = Entities
  BY <1>1 DEF LoaderStep, BackedInv
<1>3. ASSUME NEW e \in Entities
      PROVE  BootFollows(e)'
  <2>1. BootFollows(e)
    BY LoaderStepKeeps
  <2>2. Later(e, sync.cursor)' <=> Later(e, sync.cursor)
    BY LoaderStepKeeps
  <2>3. OwnRevision(e, loader.dump[e])' <=> OwnRevision(e, loader.dump[e])
    BY <1>1 DEF OwnRevision, LoaderStep
  <2>4. store'[e] = 0 /\ (e \in Properties => schemas'[e] = 0) /\ UNCHANGED <<pages, rc>>
    BY <1>1 DEF LoaderStep
  <2> HIDE DEF Later, OwnRevision, Caught, Passed
  <2> QED
    BY <1>1, <1>2, <2>1, <2>2, <2>3, <2>4 DEF BootFollows
<1>4. \A f \in Entities : OwnRevision(f, rows[f].indexed)'
  BY <1>1, LoaderStepKeeps DEF OwnRevision
<1>5. ~Loaded'
  BY <1>1 DEF Loaded
<1> QED
  BY <1>3, <1>4, <1>5, LoaderStepKeeps DEF LosslessInv

LEMMA LoadKeepsLossless ==
    ASSUME LoaderStep, NEW e \in Entities, LoadGraph(e)
    PROVE  LosslessInv'
<1>1. PICK S \in SUBSET Entities : loader \in [pc : LoaderCalls, dump : [S -> Nat]]
  BY DEF LoaderStep, SyncInv, Typed, TypeOK
<1>2. DOMAIN loader.dump = S
  BY <1>1
<1>3. PICK rev \in Nat : rev = loader.dump[e] /\ e \in S
  BY <1>1, <1>2 DEF LoadGraph, IsFirst
<1>4. PICK left : left = [f \in S \ {e} |-> loader.dump[f]]
  OBVIOUS
<1>5. loader' = [loader EXCEPT !.dump = left]
  BY <1>2, <1>4 DEF LoadGraph
<1>6. /\ loader'.pc = "load" /\ loader.pc = "load" /\ DOMAIN loader'.dump = S \ {e}
      /\ \A f \in S \ {e} : loader'.dump[f] = loader.dump[f]
  BY <1>1, <1>4, <1>5 DEF LoadGraph
<1>7. rev = 0 => UNCHANGED <<rows, graphs, store, schemas>>
  BY <1>3 DEF LoadGraph, storeVars
<1>8. rev # 0 => /\ store' = [store EXCEPT ![e] = rev]
                 /\ schemas' = IF e \in Properties THEN [schemas EXCEPT ![e] = rev] ELSE schemas
                 /\ graphs' = graphs \cup GraphsOf(e)
                 /\ rows' = [rows EXCEPT ![e] = [indexed |-> rev, seen |-> rev, status |-> "CURRENT"]]
  BY <1>3 DEF LoadGraph
<1>9. /\ rows \in [Entities -> EntityRow] /\ store \in [Entities -> Nat] /\ schemas \in [Properties -> Nat]
      /\ UNCHANGED <<pages, rc>>
  BY DEF LoaderStep, SyncInv, Typed, TypeOK
<1>10. ASSUME NEW f \in Entities \ {e}
       PROVE  SameFor(f)
  <2>1. CASE rev = 0
    BY <1>7, <2>1 DEF SameFor
  <2>2. CASE rev # 0
    <3>1. rows'[f] = rows[f] /\ store'[f] = store[f] /\ (f \in Properties => schemas'[f] = schemas[f])
      BY <1>8, <1>9, <2>2
    <3>2. \A g \in GraphsOf(f) : (g \in graphs') <=> (g \in graphs)
      BY <1>8, <2>2, GraphsApart
    <3> QED
      BY <3>1, <3>2 DEF SameFor
  <2> QED
    BY <2>1, <2>2
<1>11. ASSUME NEW f \in Entities
       PROVE  /\ BootFollows(f) /\ OwnRevision(f, rows[f].indexed)
              /\ Later(f, sync.cursor)' <=> Later(f, sync.cursor)
              /\ \A r : OwnRevision(f, r)' <=> OwnRevision(f, r)
  BY LoaderStepKeeps
<1>12. rev # 0 => /\ rows'[e].indexed = rev /\ rows'[e].status = "CURRENT" /\ store'[e] = rev
                  /\ e \in Properties => schemas'[e] = rev
                  /\ GraphsOf(e) \subseteq graphs'
  BY <1>8, <1>9
<1>13. \A x \in Seen' : \E y \in Seen : Like(y, x)
  BY LoaderStepKeeps DEF Like
<1>14. sync'.cursor = sync.cursor
  BY DEF LoaderStep
<1>15. ASSUME NEW f \in Entities \ {e}
       PROVE  BootFollows(f)'
  <2>1. f \in DOMAIN loader'.dump <=> f \in DOMAIN loader.dump
    BY <1>2, <1>6
  <2>2. f \in DOMAIN loader.dump => loader'.dump[f] = loader.dump[f]
    BY <1>2, <1>6
  <2>3. SameFor(f)
    BY <1>10
  <2>4. \A n : Passed(f, n) => Passed(f, n)'
    BY <1>9, <2>3, LeftAlone
  <2>5. Passed(f, sync.cursor) => Passed(f, sync.cursor)'
    <3>1. PICK n : n = sync.cursor
      OBVIOUS
    <3>2. Passed(f, sync.cursor)' <=> Passed(f, n)'
      BY <1>14, <3>1 DEF Passed, Later
    <3> QED
      BY <2>4, <3>1, <3>2
  <2>6. Caught(f) => Caught(f)'
    BY <1>9, <1>13, <1>14, <2>3, LeftAlone, CaughtLeft DEF SameFor
  <2>7. (GraphsOf(f) \subseteq graphs' <=> GraphsOf(f) \subseteq graphs)
        /\ (GraphsOf(f) \cap graphs' = {} <=> GraphsOf(f) \cap graphs = {})
    BY <2>3 DEF SameFor
  <2>8. f \in DOMAIN loader.dump => (OwnRevision(f, loader.dump[f])' <=> OwnRevision(f, loader.dump[f]))
    BY <2>2 DEF OwnRevision, LoaderStep
  <2>9. rows'[f] = rows[f] /\ store'[f] = store[f] /\ (f \in Properties => schemas'[f] = schemas[f])
    BY <2>3 DEF SameFor
  <2> HIDE DEF Later, OwnRevision, Caught, Passed
  <2> QED
    BY <1>6, <1>9, <1>11, <2>1, <2>2, <2>5, <2>6, <2>7, <2>8, <2>9 DEF BootFollows
<1>16. BootFollows(e)'
  <2>1. /\ OwnRevision(e, rev)
        /\ Later(e, sync.cursor) \/ pages[e].redirect # None \/ rev = IF pages[e].exists THEN pages[e].rev ELSE 0
        /\ rev = 0 => \/ pages[e].redirect # None
                      \/ \A x \in rc : x.entity = e /\ x.rev > 0 => x.rev # rows[e].indexed
        /\ store[e] = 0 /\ (e \in Properties => schemas[e] = 0)
    BY <1>2, <1>3, <1>6, <1>11 DEF BootFollows
  <2>2. pages[e].rev # 0
    BY DEF LoaderStep, SyncInv, HistoryInv, WikiInv, LatestOf
  <2>3. ~(e \in DOMAIN loader'.dump)
    BY <1>6
  <2>4. ASSUME rev # 0
        PROVE  BootFollows(e)'
    <3>1. Clean(e)'
      BY <1>12, <2>4 DEF Clean
    <3>2. \/ Later(e, sync.cursor)'
          \/ pages[e].redirect # None
          \/ pages[e].exists /\ rev = pages[e].rev
      BY <1>11, <2>1, <2>4
    <3>3. Passed(e, sync.cursor)'
      <4>1. CASE pages[e].exists /\ rev = pages[e].rev
        <5>1. pages'[e].exists /\ rows'[e].indexed = pages'[e].rev
          BY <1>9, <1>12, <2>4, <4>1
        <5>2. graphs' \cap GraphsOf(e) = GraphsOf(e)
          BY <1>12, <2>4
        <5>3. Mirrored(e)'
          BY <3>1, <5>1, <5>2 DEF Clean, Mirrored
        <5> QED
          BY <5>3 DEF Passed
      <4> QED
        BY <1>9, <3>2, <4>1 DEF Passed
    <3>4. Caught(e)'
      BY <3>1 DEF Caught
    <3>5. rows'[e].status = "CURRENT" /\ rows'[e].indexed = rev /\ GraphsOf(e) \subseteq graphs'
      BY <1>12, <2>4
    <3> HIDE DEF Later, OwnRevision, Caught, Passed
    <3> QED
      BY <1>9, <2>3, <3>2, <3>3, <3>4, <3>5 DEF BootFollows
  <2>5. ASSUME rev = 0
        PROVE  BootFollows(e)'
    <3>1. UNCHANGED <<rows, graphs, store, schemas, pages, rc>>
      BY <1>7, <1>9, <2>5
    <3>2. Later(e, sync.cursor) \/ pages[e].redirect # None \/ ~pages[e].exists
      BY <2>1, <2>2, <2>5
    <3>3. Passed(e, sync.cursor)'
      <4>1. CASE ~pages[e].exists /\ ~Later(e, sync.cursor) /\ pages[e].redirect = None
        <5>1. rows[e].status # "CURRENT" /\ GraphsOf(e) \cap graphs = {}
          BY <1>11, <4>1 DEF BootFollows
        <5>2. graphs \cap GraphsOf(e) = {}
          BY <5>1
        <5>3. Mirrored(e)
          BY <2>1, <4>1, <5>1, <5>2 DEF Mirrored
        <5>4. Mirrored(e)'
          BY <3>1, <5>3 DEF Mirrored
        <5> QED
          BY <5>4 DEF Passed
      <4> QED
        BY <1>11, <3>1, <3>2, <4>1 DEF Passed
    <3>4. Caught(e)'
      <4> SUFFICES ASSUME NEW x \in Seen', x.entity = e, x.rev > 0, x.rev = rows[e].indexed,
                          pages[e].redirect = None
                   PROVE  FALSE
        BY <3>1 DEF Caught
      <4>1. x \in rc
        <5>1. \A w \in Workers : work[w].page = {}
          <6>1. \A w \in Workers : work[w] = Asleep
            BY DEF LoaderStep, FenceInv, AsleepBefore
          <6> QED
            BY <6>1, AsleepJob
        <5> QED
          BY <5>1, LoaderStepKeeps DEF Seen
      <4> QED
        BY <2>1, <2>5, <4>1
    <3>5. IF rows[e].status = "CURRENT"
          THEN /\ GraphsOf(e) \subseteq graphs
               /\ \/ Later(e, sync.cursor)'
                  \/ pages[e].redirect # None
                  \/ pages[e].exists /\ rows[e].indexed = pages[e].rev
          ELSE rows[e].indexed = 0 /\ GraphsOf(e) \cap graphs = {}
      BY <1>11 DEF BootFollows
    <3> HIDE DEF Later, OwnRevision, Caught, Passed
    <3> QED
      BY <2>3, <3>1, <3>3, <3>4, <3>5 DEF BootFollows
  <2> QED
    BY <2>4, <2>5
<1>17. ASSUME NEW f \in Entities
       PROVE  OwnRevision(f, rows[f].indexed)'
  <2>1. CASE f # e \/ rev = 0
    <3>1. rows'[f] = rows[f]
      BY <1>7, <1>10, <2>1 DEF SameFor
    <3> QED
      BY <1>11, <3>1 DEF OwnRevision, LoaderStep
  <2>2. CASE f = e /\ rev # 0
    <3>1. OwnRevision(e, rev)
      BY <1>2, <1>3, <1>11 DEF BootFollows
    <3> QED
      BY <1>12, <2>2, <3>1 DEF OwnRevision, LoaderStep
  <2> QED
    BY <2>1, <2>2
<1>18. ~Loaded'
  BY <1>6 DEF Loaded
<1>19. \A f \in Entities : BootFollows(f)'
  BY <1>15, <1>16
<1> QED
  BY <1>17, <1>18, <1>19, LoaderStepKeeps DEF LosslessInv

LEMMA IdleOnTrack ==
    ASSUME NEW j, j.pc \in Idle \cup {"event", "rebuild"}
    PROVE  OnTrack(j) /\ OnTrack(j)'
BY DEF OnTrack, Aims, Idle, Tasking, Editing, Dropping

LEMMA MarkKeepsLossless ==
    ASSUME LoaderStep, MarkCurrent
    PROVE  LosslessInv'
<1>1. /\ UNCHANGED <<rows, graphs, store, schemas, pages, rc>> /\ loader.pc = "load" /\ DOMAIN loader.dump = {}
      /\ sync'.cursor = sync.cursor
  BY EmptyDump DEF MarkCurrent, storeVars, LoaderStep
<1>2. ASSUME NEW e \in Entities
      PROVE  Passed(e, sync.cursor)' /\ Caught(e)' /\ OwnRevision(e, rows[e].indexed)'
  <2>1. Passed(e, sync.cursor) /\ Caught(e)
    BY <1>1, LoaderStepKeeps DEF BootFollows
  <2>2. SameFor(e)
    BY <1>1 DEF SameFor
  <2>3. \A x \in Seen' : \E y \in Seen : Like(y, x)
    BY LoaderStepKeeps DEF Like
  <2>4. Caught(e)'
    BY <1>1, <2>1, <2>2, <2>3, LeftAlone, CaughtLeft
  <2>5. PICK n : n = sync.cursor
    OBVIOUS
  <2>6. Passed(e, n)'
    BY <1>1, <2>1, <2>2, <2>5, LeftAlone
  <2>7. Passed(e, sync.cursor)'
    BY <1>1, <2>5, <2>6 DEF Passed, Later
  <2> QED
    BY <1>1, <2>4, <2>7, LoaderStepKeeps DEF OwnRevision
<1>3. ASSUME NEW w \in Workers
      PROVE  OnTrack(work[w])'
  <2>1. work[w] = Asleep /\ work' = work
    BY DEF LoaderStep, FenceInv, AsleepBefore
  <2>2. work'[w].pc \in Idle
    BY <2>1, AsleepJob DEF Idle
  <2>3. PICK j : j = work'[w]
    OBVIOUS
  <2>4. OnTrack(j)'
    BY <2>2, <2>3, IdleOnTrack
  <2> QED
    BY <2>3, <2>4
<1>4. Following'
  BY <1>2, <1>3 DEF Following
<1>5. Loaded'
  BY DEF MarkCurrent, LoaderStep, SyncInv, Typed, TypeOK, Loaded
<1>6. \A e \in Entities : OwnRevision(e, rows[e].indexed)'
  BY <1>2
<1> HIDE DEF Following, LogInv, OwnRevision
<1> QED
  BY <1>4, <1>5, <1>6, LoaderStepKeeps DEF LosslessInv

LEMMA DyingKeepsLossless ==
    ASSUME LoaderStep, LoaderDies
    PROVE  LosslessInv'
<1>1. /\ UNCHANGED <<sync, rows, graphs, store, schemas, pages, rc>>
      /\ loader'.pc = "capture" /\ DOMAIN loader'.dump = {}
  BY EmptyDump DEF LoaderDies, dbVars, storeVars, LoaderStep
<1>2. ASSUME NEW e \in Entities
      PROVE  BootFollows(e)'
  <2>1. BootFollows(e) /\ (Later(e, sync.cursor)' <=> Later(e, sync.cursor))
    BY LoaderStepKeeps
  <2> HIDE DEF Later
  <2> QED
    BY <1>1, <2>1 DEF BootFollows
<1>3. \A e \in Entities : OwnRevision(e, rows[e].indexed)'
  BY <1>1, LoaderStepKeeps DEF OwnRevision
<1>4. ~Loaded'
  BY <1>1 DEF Loaded
<1> QED
  BY <1>2, <1>3, <1>4, LoaderStepKeeps DEF LosslessInv

LEMMA LoaderKeepsLossless ==
    ASSUME SyncInv, FenceInv, BackedInv, LosslessInv, LoaderNext \/ LoaderDies
    PROVE  LosslessInv'
<1>1. UNCHANGED wikiVars /\ work' = work
  BY LoaderStepTyped DEF SyncInv
<1>2. ~Loaded
  BY DEF LoaderNext, LoaderDies, CaptureCursor, DumpEntity, LoadGraph, ResetStore, MarkCurrent, Loaded
<1>3. CASE purged
  BY <1>1, <1>3 DEF wikiVars, LosslessInv
<1>4. CASE CaptureCursor
  BY <1>4, CaptureKeepsLossless
<1>5. CASE ~purged /\ ~CaptureCursor
  <2>1. sync'.cursor = sync.cursor
    BY <1>5 DEF LoaderNext, LoaderDies, DumpEntity, LoadGraph, ResetStore, MarkCurrent, dbVars,
       SyncInv, Typed, TypeOK
  <2>2. LoaderStep
    BY <1>1, <1>2, <1>5, <2>1 DEF LoaderStep, wikiVars
  <2> QED
    BY <1>5, <2>2, DumpKeepsLossless, ResetKeepsLossless, LoadKeepsLossless, MarkKeepsLossless,
       DyingKeepsLossless DEF LoaderNext
<1> QED
  BY <1>3, <1>4, <1>5

-----------------------------------------------------------------------------
(***************************************************************************)
(* The worker.                                                             *)
(***************************************************************************)

\* A step of the only worker; it changes nothing of the wiki or the loader.
WorkerMoves(w) ==
    /\ Workers = {w} /\ SyncInv /\ SyncInv' /\ FenceInv /\ LosslessInv /\ ~purged /\ Loaded
    /\ UNCHANGED <<pages, revisions, rc, lastRcid, purged, loader>>

LEMMA LogKept ==
    ASSUME LogInv, UNCHANGED <<pages, rc>>, \A x \in Seen' : \E y \in Seen : Like(y, x)
    PROVE  LogInv'
<1>1. ASSUME NEW x \in Seen', NEW y \in Seen, Like(y, x)
      PROVE  Told(x)'
  BY <1>1 DEF LogInv, Like, Told, HasRevision, Mentions, Tells, Later, RestoredAfter
<1>2. ASSUME NEW x \in Seen', NEW z \in Seen'
      PROVE  Revives(x, z)'
  <2>1. PICK a \in Seen, b \in Seen : Like(a, x) /\ Like(b, z)
    OBVIOUS
  <2>2. Revives(a, b)
    BY DEF LogInv
  <2> QED
    BY <2>1, <2>2 DEF Like, Revives, RestoredBetween
<1> QED
  BY <1>1, <1>2 DEF LogInv

LEMMA WorkerCall ==
    ASSUME NEW w, WorkerMoves(w),
           \A x \in work'[w].page : \E y \in Seen : Like(y, x),
           OnTrack(work[w])',
           \A e \in Entities : (Passed(e, sync.cursor) /\ Caught(e) /\ OwnRevision(e, rows[e].indexed))'
    PROVE  LosslessInv'
<1>1. LogInv
  BY DEF WorkerMoves, LosslessInv
<1>2. \A x \in Seen' : \E y \in Seen : Like(y, x)
  <2>1. Seen' = rc \cup work'[w].page
    BY DEF WorkerMoves, Seen
  <2>2. \A x \in rc : x \in Seen /\ Like(x, x)
    BY DEF Seen, Like
  <2> QED
    BY <2>1, <2>2
<1>3. LogInv'
  BY <1>1, <1>2, LogKept DEF WorkerMoves
<1>4. Loaded'
  BY DEF WorkerMoves, Loaded
<1>5. \A v \in Workers : OnTrack(work[v])'
  BY DEF WorkerMoves
<1>6. Following'
  BY <1>5 DEF Following
<1>7. \A e \in Entities : OwnRevision(e, rows[e].indexed)'
  OBVIOUS
<1> HIDE DEF LogInv, Following, OwnRevision
<1> QED
  BY <1>3, <1>4, <1>6, <1>7 DEF LosslessInv

\* A call that leaves the entities alone, and the cursor.
LEMMA QuietTrack ==
    ASSUME NEW w, WorkerMoves(w), UNCHANGED <<rows, graphs, store, schemas>>, sync'.cursor = sync.cursor,
           \A x \in work'[w].page : \E y \in Seen : Like(y, x),
           OnTrack(work[w])'
    PROVE  LosslessInv'
<1>1. \A x \in Seen' : \E y \in Seen : Like(y, x)
  <2>1. Seen' = rc \cup work'[w].page
    BY DEF WorkerMoves, Seen
  <2>2. \A x \in rc : x \in Seen /\ Like(x, x)
    BY DEF Seen, Like
  <2> QED
    BY <2>1, <2>2
<1>2. ASSUME NEW e \in Entities
      PROVE  (Passed(e, sync.cursor) /\ Caught(e) /\ OwnRevision(e, rows[e].indexed))'
  <2>1. Passed(e, sync.cursor) /\ Caught(e) /\ OwnRevision(e, rows[e].indexed)
    BY DEF WorkerMoves, LosslessInv, Following
  <2>2. SameFor(e) /\ UNCHANGED <<pages, rc>>
    BY DEF SameFor, WorkerMoves
  <2>3. Caught(e)'
    BY <1>1, <2>1, <2>2, LeftAlone, CaughtLeft
  <2>4. PICK n : n = sync.cursor
    OBVIOUS
  <2>5. Passed(e, n)'
    BY <2>1, <2>2, <2>4, LeftAlone
  <2>6. Passed(e, sync.cursor)'
    BY <2>4, <2>5 DEF Passed, Later
  <2>7. OwnRevision(e, rows[e].indexed)'
    BY <2>1 DEF OwnRevision, WorkerMoves
  <2> QED
    BY <2>3, <2>6, <2>7
<1> QED
  BY <1>2, WorkerCall

\* What is known of the event a worker has in hand, of its page and its task.
LEMMA InHand ==
    ASSUME NEW w, WorkerMoves(w), work[w].pc \notin Idle, NEW x, x = EventOf(work[w])
    PROVE  /\ Event(w) = x /\ x \in Seen /\ x \in work[w].page /\ x \in Row /\ x.rcid \in Nat
           /\ x.rev \in Nat /\ x.entity \in Entities /\ x.rcid > sync.cursor /\ sync.cursor \in Nat
           /\ LifecycleIds(x) \subseteq Entities /\ x.entity \in LifecycleIds(x)
           /\ LogInv /\ Told(x) /\ Recorded(x) /\ OnTrack(work[w]) /\ OnTask(work[w])
           /\ work[w] \in Job /\ Busy(work[w]) /\ w \in Workers
           /\ work[w].pc \in Tasking =>
                 /\ TaskIn(work[w]) \in Task /\ TaskIn(work[w]).entity \in Entities
                 /\ TaskIn(work[w]).rev \in Nat /\ TaskIn(work[w]) = Head(work[w].todo)
                 /\ Tail(work[w].todo) \in Seq(Task)
<1>1. w \in Workers /\ work[w] \in Job /\ Busy(work[w]) /\ OnTask(work[w])
  BY DEF WorkerMoves, SyncInv, Typed, TypeOK, WorkInv
<1>2. LogInv /\ OnTrack(work[w])
  BY <1>1 DEF WorkerMoves, LosslessInv, Following
<1>3. /\ x \in Seen /\ x \in work[w].page /\ x \in Row /\ x.rcid \in Nat /\ x.entity \in Entities
      /\ x.rcid > sync.cursor
  BY <1>1, EventRow DEF WorkerMoves
<1>4. Told(x) /\ Recorded(x)
  BY <1>2, <1>3, SeenRows DEF LogInv, WorkerMoves
<1>5. LifecycleIds(x) \subseteq Entities /\ x.entity \in LifecycleIds(x) /\ x.rev \in Nat
  BY <1>3 DEF LifecycleIds, Row
<1>6. work[w].pc \in Tasking =>
         /\ TaskIn(work[w]) \in Task /\ TaskIn(work[w]).entity \in Entities
         /\ TaskIn(work[w]).rev \in Nat /\ TaskIn(work[w]) = Head(work[w].todo)
         /\ Tail(work[w].todo) \in Seq(Task)
  BY <1>1, TaskOfJob DEF Task, TaskIn
<1>7. Event(w) = x
  BY DEF Event, EventOf
<1>8. sync.cursor \in Nat
  BY DEF WorkerMoves, SyncInv, Typed, TypeOK
<1> QED
  BY <1>1, <1>2, <1>3, <1>4, <1>5, <1>6, <1>7, <1>8

\* The event in hand is the first row after the cursor.
LEMMA EventFirst ==
    ASSUME NEW w, WorkerMoves(w), work[w].pc \notin Idle, NEW x, x = EventOf(work[w])
    PROVE  /\ \A z \in Seen : z.rcid > sync.cursor => x.rcid < z.rcid \/ Like(x, z)
           /\ \A z \in Seen : z.rcid \in Nat
<1>1. x \in Seen /\ x.rcid \in Nat /\ \A y \in work[w].page : x.rcid <= y.rcid
  BY EventRow DEF WorkerMoves
<1>2. x \in work[w].page /\ w \in Workers
  BY InHand
<1>3. \A z \in Seen : z.rcid \in Nat /\ Follows(x, z)
  BY <1>1, SeenRows DEF WorkerMoves
<1>4. ASSUME NEW z \in Seen, z.rcid > sync.cursor
      PROVE  x.rcid <= z.rcid
  <2>1. CASE z \in rc
    <3>1. (\E y \in work[w].page : y.rcid = z.rcid) \/ (\A y \in work[w].page : y.rcid < z.rcid)
      BY <1>2, <1>4, <2>1 DEF WorkerMoves, SyncInv, WorkInv, InOrder
    <3> QED
      BY <1>1, <1>2, <1>3, <3>1
  <2>2. CASE z \in work[w].page
    BY <1>1, <2>2
  <2> QED
    BY <2>1, <2>2 DEF Seen, WorkerMoves
<1>5. ASSUME NEW z \in Seen, z.rcid > sync.cursor
      PROVE  x.rcid < z.rcid \/ Like(x, z)
  <2>1. x.rcid <= z.rcid /\ Follows(x, z) /\ z.rcid \in Nat
    BY <1>3, <1>4, <1>5
  <2> QED
    BY <1>1, <2>1 DEF Follows
<1> QED
  BY <1>3, <1>5

\* Nothing is in hand after these.
LEMMA RestLossless ==
    ASSUME NEW w, WorkerMoves(w),
           \/ LoadSource(w) \/ ReadSource(w) \/ MarkHealthy(w) \/ RebuildRequired(w)
           \/ Reject(w) \/ Crash(w)
    PROVE  LosslessInv'
<1>1. /\ work[w] \in Job /\ InOrder(work[w]) /\ w \in Workers /\ sync.cursor \in Nat
      /\ rc \subseteq Row /\ IsFiniteSet(rc)
  BY DEF WorkerMoves, SyncInv, Typed, TypeOK, WikiTypeOK, WorkInv, HistoryInv, WikiInv
<1>2. /\ UNCHANGED <<rows, graphs, store, schemas>> /\ sync'.cursor = sync.cursor
  BY DEF WorkerMoves, SyncInv, Typed, TypeOK, LoadSource, ReadSource, MarkHealthy, RebuildRequired,
     Reject, Crash, dbVars, storeVars
<1>3. PICK j : j = work'[w]
  OBVIOUS
<1>4. j.pc \in Idle \cup {"event", "rebuild"} /\ \A x \in j.page : \E y \in Seen : Like(y, x)
  <2>1. CASE LoadSource(w)
    <3>1. j = [Asleep EXCEPT !.pc = "read", !.cursor = sync.cursor]
      BY <1>3, <2>1 DEF LoadSource, WorkerMoves, SyncInv, Typed, TypeOK
    <3>2. j.pc = "read" /\ j.page = {}
      BY <3>1 DEF Asleep
    <3> QED
      BY <3>2 DEF Idle
  <2>2. CASE ReadSource(w)
    <3>1. PICK events : events = ReadChanges(work[w].cursor)
      OBVIOUS
    <3>2. j = [Asleep EXCEPT !.pc = IF events = {} THEN "quiet" ELSE "event", !.page = events]
      BY <1>3, <2>2, <3>1 DEF ReadSource, WorkerMoves, SyncInv, Typed, TypeOK
    <3>3. j.pc \in {"quiet", "event"} /\ j.page = events
      BY <3>2 DEF Asleep
    <3>4. \A x \in events : \E y \in rc : Like(y, x)
      <4>1. work[w].cursor = sync.cursor
        BY <1>1, <2>2 DEF ReadSource, At, InOrder
      <4> QED
        BY <1>1, <3>1, <4>1, ReadsInOrder
    <3> QED
      BY <3>3, <3>4 DEF Idle, Seen
  <2>3. CASE Sleep(w)
    <3>1. j = Asleep
      BY <1>3, <2>3 DEF Sleep, WorkerMoves, SyncInv, Typed, TypeOK
    <3> QED
      BY <3>1, AsleepJob DEF Idle
  <2>4. CASE Goto(w, "rebuild")
    <3>1. j = [work[w] EXCEPT !.pc = "rebuild"]
      BY <1>3, <2>4 DEF Goto, WorkerMoves, SyncInv, Typed, TypeOK
    <3>2. j.pc = "rebuild" /\ j.page = work[w].page
      BY <1>1, <3>1 DEF Job
    <3> QED
      BY <1>1, <3>2 DEF Seen, Like
  <2> QED
    BY <2>1, <2>2, <2>3, <2>4 DEF MarkHealthy, RebuildRequired, Reject, Crash
<1>5. OnTrack(j)'
  BY <1>4, IdleOnTrack
<1> QED
  BY <1>2, <1>3, <1>4, <1>5, QuietTrack

\* The page in hand stays, or what is left of it.
LEMMA PageKept ==
    ASSUME NEW w, WorkerMoves(w), NEW P, P \subseteq work[w].page
    PROVE  \A x \in P : \E y \in Seen : Like(y, x)
<1>1. w \in Workers
  BY DEF WorkerMoves
<1> QED
  BY <1>1 DEF Seen, Like

LEMMA AllClasses ==
    ASSUME NEW row \in Row
    PROVE  /\ Classify(row) = "NON_ENTITY_CHANGE" <=> row.kind = "other"
           /\ Classify(row) = "ENTITY_UNDELETE" <=> row.kind = "restore"
           /\ Classify(row) = "ENTITY_DELETE" <=> row.kind = "delete"
           /\ Classify(row) = "ENTITY_EDIT" => row.kind = "edit"
           /\ row.kind = "protect" => Classify(row) = "UNKNOWN"
<1>1. row.kind \in RowKinds /\ row.redirect \in BOOLEAN
  BY DEF Row
<1> QED
  BY <1>1 DEF Classify, RowKinds

LEMMA DispatchLossless ==
    ASSUME NEW w, WorkerMoves(w), Dispatch(w)
    PROVE  LosslessInv'
<1>1. /\ UNCHANGED <<rows, graphs, store, schemas>> /\ sync'.cursor = sync.cursor /\ rc' = rc /\ pages' = pages
      /\ work[w].pc = "event" /\ work[w].pc \notin Idle
  BY DEF Dispatch, dbVars, storeVars, At, Idle, WorkerMoves
<1>2. PICK i, x, e : i = work[w] /\ x = EventOf(i) /\ e = x.entity
  OBVIOUS
<1>3. /\ Event(w) = x /\ x \in Row /\ Told(x) /\ i \in Job /\ x.entity \in LifecycleIds(x) /\ x.rev \in Nat
  BY <1>1, <1>2, InHand
<1>4. PICK j : j = work'[w]
  OBVIOUS
<1>5. j = CASE Classify(x) = "NON_ENTITY_CHANGE" -> [i EXCEPT !.pc = "advance"]
            [] Classify(x) = "UNKNOWN" -> [i EXCEPT !.pc = "rebuild"]
            [] Classify(x) = "ENTITY_DELETE" -> [[i EXCEPT !.pc = "dropEntity"] EXCEPT !.row = rows[e]]
            [] Classify(x) = "ENTITY_EDIT" ->
                 [[i EXCEPT !.pc = "entity"] EXCEPT !.todo = <<[entity |-> e, rev |-> x.rev]>>]
            [] OTHER -> [i EXCEPT !.pc = "resolve"]
  BY <1>2, <1>3, <1>4, Zenon DEF Dispatch, Action, WorkerMoves, SyncInv, Typed, TypeOK
<1>6. /\ j.page = i.page
      /\ \/ j.pc = "advance" /\ x.kind = "other"
         \/ j.pc = "rebuild"
         \/ j.pc = "dropEntity"
         \/ j.pc = "entity" /\ x.kind = "edit" /\ j.todo = <<[entity |-> e, rev |-> x.rev]>>
         \/ j.pc = "resolve" /\ x.kind \notin {"other", "protect"}
  <2>1. CASE Classify(x) = "NON_ENTITY_CHANGE"
    BY <1>3, <1>5, <2>1, AllClasses DEF Job
  <2>2. CASE Classify(x) = "UNKNOWN"
    BY <1>3, <1>5, <2>2 DEF Job
  <2>3. CASE Classify(x) = "ENTITY_DELETE"
    BY <1>3, <1>5, <2>3 DEF Job
  <2>4. CASE Classify(x) = "ENTITY_EDIT"
    BY <1>3, <1>5, <2>4, AllClasses DEF Job
  <2>5. CASE Classify(x) \notin {"NON_ENTITY_CHANGE", "UNKNOWN", "ENTITY_DELETE", "ENTITY_EDIT"}
    <3>1. j = [i EXCEPT !.pc = "resolve"]
      BY <1>5, <2>5
    <3> QED
      BY <1>3, <2>5, <3>1, AllClasses DEF Job
  <2> QED
    BY <2>1, <2>2, <2>3, <2>4, <2>5
<1>7. EventOf(j) = x
  BY <1>2, <1>6 DEF EventOf
<1>8. OnTrack(j)'
  <2>1. CASE j.pc = "advance" /\ x.kind = "other"
    BY <1>7, <2>1 DEF OnTrack, Aims, Tasking, Editing, Dropping
  <2>2. CASE j.pc = "rebuild"
    BY <2>2, IdleOnTrack
  <2>3. CASE j.pc = "dropEntity"
    BY <2>3 DEF OnTrack, Aims, Tasking, Editing, Dropping, Drops
  <2>4. CASE j.pc = "entity" /\ x.kind = "edit" /\ j.todo = <<[entity |-> e, rev |-> x.rev]>>
    <3>1. PICK t : t = [entity |-> e, rev |-> x.rev]
      OBVIOUS
    <3>2. TaskIn(j) = t /\ \A k \in DOMAIN j.todo : j.todo[k] = t
      BY <2>4, <3>1 DEF TaskIn
    <3>3. x.rev > 0
      BY <1>3, <2>4 DEF Told, HasRevision
    <3>4. Later(x.entity, x.rcid) \/ x.rev = pages[x.entity].rev
      BY <1>3, <2>4, <3>3 DEF Told, Tells
    <3>5. UpToDate(t, x)'
      BY <1>1, <1>2, <1>3, <3>1, <3>4 DEF UpToDate, Later
    <3>6. Aims(j)'
      BY <1>2, <1>7, <2>4, <3>1, <3>2, <3>5 DEF Aims
    <3> QED
      BY <2>4, <3>6 DEF OnTrack, Dropping, WritesTask, Fetched, Registered, Complete
  <2>5. CASE j.pc = "resolve" /\ x.kind \notin {"other", "protect"}
    BY <1>7, <2>5 DEF OnTrack, Aims, Tasking, Editing, Dropping
  <2> QED
    BY <1>6, <2>1, <2>2, <2>3, <2>4, <2>5
<1>9. \A y \in j.page : \E z \in Seen : Like(z, y)
  BY <1>2, <1>6, PageKept
<1> QED
  BY <1>1, <1>4, <1>8, <1>9, QuietTrack

LEMMA ResolveLossless ==
    ASSUME NEW w, WorkerMoves(w), ResolveLifecycle(w)
    PROVE  LosslessInv'
<1>1. /\ UNCHANGED <<rows, graphs, store, schemas>> /\ sync'.cursor = sync.cursor /\ pages' = pages
      /\ work[w].pc = "resolve" /\ work[w].pc \notin Idle
  BY DEF ResolveLifecycle, dbVars, storeVars, At, Idle, WorkerMoves
<1>2. PICK i, x : i = work[w] /\ x = EventOf(i)
  OBVIOUS
<1>3. /\ Event(w) = x /\ x \in Row /\ i \in Job /\ OnTrack(i) /\ x.entity \in LifecycleIds(x)
      /\ x.entity \in Entities /\ LifecycleIds(x) \subseteq Entities
  BY <1>1, <1>2, InHand
<1>4. x.kind \notin {"other", "protect"}
  BY <1>1, <1>2, <1>3 DEF OnTrack, Aims
<1>5. PICK j : j = work'[w]
  OBVIOUS
<1>6. CASE Goto(w, "rebuild")
  <2>1. j = [i EXCEPT !.pc = "rebuild"]
    BY <1>2, <1>5, <1>6 DEF Goto, WorkerMoves, SyncInv, Typed, TypeOK
  <2>2. j.pc = "rebuild" /\ j.page = i.page
    BY <1>3, <2>1 DEF Job
  <2>3. OnTrack(j)'
    BY <2>2, IdleOnTrack
  <2>4. \A y \in j.page : \E z \in Seen : Like(z, y)
    BY <1>2, <2>2, PageKept
  <2> QED
    BY <1>1, <1>5, <2>3, <2>4, QuietTrack
<1>7. ASSUME NEW order \in SetToSeqs(Resolve(x)), order # <<>>, order[1].entity = x.entity,
             work' = [work EXCEPT ![w] = [@ EXCEPT !.pc = "entity", !.todo = order]]
      PROVE  LosslessInv'
  <2>1. j = [i EXCEPT !.pc = "entity", !.todo = order]
    BY <1>2, <1>5, <1>7 DEF WorkerMoves, SyncInv, Typed, TypeOK
  <2>2. j.pc = "entity" /\ j.page = i.page /\ j.todo = order
    BY <1>3, <2>1 DEF Job
  <2>3. EventOf(j) = x /\ TaskIn(j).entity = x.entity
    <3>1. TaskIn(j) = order[1]
      BY <2>2 DEF TaskIn
    <3> QED
      BY <1>2, <1>7, <2>2, <3>1 DEF EventOf
  <2>4. ASSUME NEW k \in DOMAIN order
        PROVE  UpToDate(order[k], x)'
    <3>1. order[k] \in Resolve(x)
      BY <1>7 DEF SetToSeqs
    <3>2. PICK f \in LifecycleIds(x) : order[k] = [entity |-> f, rev |-> pages[Canonical(f)].rev]
      BY <3>1 DEF Resolve
    <3>3. order[k].entity = f /\ order[k].rev = pages[Canonical(f)].rev
      BY <3>2
    <3>4. f = x.entity => pages[x.entity].redirect # None \/ order[k].rev = pages[x.entity].rev
      BY <3>3 DEF Canonical
    <3> QED
      BY <1>1, <3>3, <3>4 DEF UpToDate
  <2>5. Aims(j)'
    BY <1>4, <2>2, <2>3, <2>4 DEF Aims
  <2>6. OnTrack(j)'
    BY <2>2, <2>5 DEF OnTrack, Dropping, WritesTask, Fetched, Registered, Complete
  <2>7. \A y \in j.page : \E z \in Seen : Like(z, y)
    BY <1>2, <2>2, PageKept
  <2> QED
    BY <1>1, <1>5, <2>6, <2>7, QuietTrack
<1> QED
  BY <1>3, <1>6, <1>7 DEF ResolveLifecycle

\* A revision of an entity is not newer than its page.
LEMMA NotNewer ==
    ASSUME NEW w, WorkerMoves(w), NEW e \in Entities, NEW r \in Nat, OwnRevision(e, r)
    PROVE  r <= pages[e].rev /\ pages[e].rev \in Nat /\ pages[e].rev # 0
<1>1. LatestOf(e) /\ pages[e] \in Page /\ Len(revisions) \in Nat
  BY DEF WorkerMoves, SyncInv, HistoryInv, WikiInv, Typed, TypeOK, WikiTypeOK
<1>2. pages[e].rev \in Nat /\ pages[e].rev # 0
  BY <1>1 DEF LatestOf
<1>3. r # 0 => r \in 1..Len(revisions) /\ revisions[r] = e
  BY DEF OwnRevision
<1>4. ~(r > pages[e].rev)
  BY <1>1, <1>2, <1>3 DEF LatestOf
<1> QED
  BY <1>2, <1>4

\* A fence at the revision of the page, or one the page has not left: what the
\* event tells has arrived already.
LEMMA DuplicateHandled ==
    ASSUME NEW w, WorkerMoves(w), work[w].pc = "entity", NEW x, x = EventOf(work[w]),
           x.kind # "restore", TaskIn(work[w]).rev <= rows[TaskIn(work[w]).entity].indexed
    PROVE  Handled(x)
<1>1. work[w].pc \notin Idle /\ work[w].pc \in Tasking
  BY DEF Idle, Tasking
<1>2. PICK i, t, e : i = work[w] /\ t = TaskIn(i) /\ e = x.entity
  OBVIOUS
<1>3. /\ x \in Seen /\ x \in Row /\ e \in Entities /\ Told(x) /\ OnTrack(i) /\ OnTask(i)
      /\ t \in Task /\ t = Head(i.todo) /\ x.rcid > sync.cursor /\ x.rev \in Nat /\ i \in Job /\ Busy(i)
      /\ t.rev \in Nat /\ w \in Workers /\ x.rcid \in Nat
  BY <1>1, <1>2, InHand
<1>4. x.kind \notin {"other", "protect", "delete", "restore"}
  <2>1. Classify(x) # "ENTITY_DELETE"
    BY <1>1, <1>2, <1>3 DEF OnTask, ActionOf
  <2>2. x.kind # "delete"
    BY <1>3, <2>1, AllClasses
  <2> QED
    BY <1>1, <1>2, <1>3, <2>2 DEF OnTrack, Aims
<1>5. x.rev > 0
  BY <1>3, <1>4 DEF Told, HasRevision, Row, RowKinds
<1>6. UpToDate(t, x) /\ (t.entity = e \/ Handled(x))
  <2>1. 1 \in DOMAIN i.todo
    <3>1. i.todo \in Seq(Task) /\ i.todo # <<>>
      BY <1>1, <1>2, <1>3 DEF Busy, Job
    <3> QED
      BY <3>1
  <2>2. t = i.todo[1]
    BY <1>3
  <2> QED
    BY <1>1, <1>2, <1>3, <2>1, <2>2 DEF OnTrack, Aims
<1>7. CASE t.entity = e
  <2>1. SUFFICES ASSUME ~Later(e, x.rcid), pages[e].redirect = None
                 PROVE  Mirrored(e)
    BY <1>2, <1>4 DEF Handled, Passed
  <2>2. t.rev = pages[e].rev
    BY <1>2, <1>6, <1>7, <2>1 DEF UpToDate
  <2>3. pages[e].exists /\ pages[e].rev = x.rev
    BY <1>2, <1>3, <1>4, <1>5, <2>1 DEF Told, Tells
  <2>4. rows[e].indexed \in Nat /\ OwnRevision(e, rows[e].indexed) /\ Caught(e)
    BY <1>3 DEF WorkerMoves, SyncInv, Typed, TypeOK, EntityRow, LosslessInv, Following
  <2>5. rows[e].indexed = pages[e].rev
    <3>1. rows[e].indexed <= pages[e].rev /\ pages[e].rev \in Nat
      BY <1>3, <2>4, NotNewer
    <3>2. pages[e].rev <= rows[e].indexed
      BY <1>2, <1>7, <2>2
    <3> QED
      BY <2>4, <3>1, <3>2
  <2>6. Clean(e)
    <3>1. \/ Clean(e)
          \/ \E y \in rc : /\ y.kind \in {"delete", "restore"} /\ y.entity = e
                           /\ y.rcid > sync.cursor /\ y.rcid < x.rcid
      BY <1>2, <1>3, <1>5, <2>1, <2>3, <2>4, <2>5 DEF Caught
    <3>2. \A y \in rc : ~(y.rcid > sync.cursor /\ y.rcid < x.rcid)
      <4>1. \A y \in rc : y.rcid > sync.cursor => x.rcid < y.rcid \/ x.rcid = y.rcid
        BY <1>1, EventFirst DEF Seen, Like
      <4>2. \A y \in rc : y.rcid \in Nat
        BY <1>1, EventFirst DEF Seen
      <4> QED
        BY <1>3, <4>1, <4>2
    <3> QED
      BY <3>1, <3>2
  <2> QED
    BY <1>3, <2>3, <2>5, <2>6, CleanMirrors
<1> QED
  BY <1>6, <1>7

\* One entity of a lifecycle event is done.
LEMMA NextTaskTrack ==
    ASSUME NEW w, WorkerMoves(w), work[w].pc \in Tasking, NextTask(w),
           NEW x, x = EventOf(work[w]), Handled(x)'
    PROVE  OnTrack(work[w])' /\ work'[w].page = work[w].page
<1>1. work[w].pc \notin Idle
  BY DEF Idle, Tasking, Editing
<1>2. PICK i, j, left : i = work[w] /\ x = EventOf(i) /\ j = work'[w] /\ left = Tail(i.todo)
  OBVIOUS
<1>3. i \in Job /\ Busy(i) /\ OnTrack(i) /\ left \in Seq(Task)
  BY <1>1, <1>2, InHand
<1>4. j = [i EXCEPT !.todo = left, !.pc = IF left = <<>> THEN "advance" ELSE "entity"]
  BY <1>2 DEF NextTask, WorkerMoves, SyncInv, Typed, TypeOK
<1>5. /\ j.page = i.page /\ j.todo = left
      /\ j.pc = "advance" \/ j.pc = "entity"
  BY <1>3, <1>4 DEF Job
<1>6. Handled(x)' /\ EventOf(j) = x
  BY <1>2, <1>5 DEF EventOf
<1>7. \A k \in DOMAIN left : UpToDate(left[k], x)'
  <2>1. i.todo \in Seq(Task) /\ i.todo # <<>>
    BY <1>2, <1>3 DEF Job, Busy
  <2>2. \A k \in DOMAIN left : k + 1 \in DOMAIN i.todo /\ left[k] = i.todo[k + 1]
    BY <1>2, <2>1
  <2>3. \A k \in DOMAIN left : UpToDate(left[k], x)
    BY <1>2, <1>3, <2>2 DEF OnTrack, Aims
  <2> QED
    BY <2>3 DEF UpToDate, Later, WorkerMoves
<1>8. x.kind \notin {"other", "protect"}
  BY <1>2, <1>3 DEF OnTrack, Aims
<1>9. Aims(j)'
  BY <1>5, <1>6, <1>7, <1>8 DEF Aims
<1>10. OnTrack(j)'
  BY <1>5, <1>9 DEF OnTrack, Dropping, WritesTask, Fetched, Registered, Complete
<1> QED
  BY <1>2, <1>5, <1>10

\* The worker goes on with the task it has.
LEMMA OnWithTask ==
    ASSUME NEW w, WorkerMoves(w), work[w].pc \in Tasking, NEW j, j = work'[w],
           j.page = work[w].page, j.todo = work[w].todo, j.pc \in Tasking,
           NEW x, x = EventOf(work[w]), NEW t, t = TaskIn(work[w]),
           j.pc = "restoring" => x.kind = "restore",
           t.entity = x.entity \/ Handled(x)', WritesTask(j.pc, x, t)'
    PROVE  OnTrack(work[w])'
<1>1. work[w].pc \notin Idle
  BY DEF Idle, Tasking, Editing
<1>2. PICK i : i = work[w] /\ x = EventOf(i) /\ t = TaskIn(i) /\ OnTrack(i)
  BY <1>1, InHand
<1>3. EventOf(j) = x /\ TaskIn(j) = t
  BY <1>2 DEF EventOf, TaskIn
<1>4. \A k \in DOMAIN j.todo : UpToDate(j.todo[k], x)'
  <2>1. \A k \in DOMAIN i.todo : UpToDate(i.todo[k], x)
    BY <1>2 DEF OnTrack, Aims
  <2> QED
    BY <1>2, <2>1 DEF UpToDate, Later, WorkerMoves
<1>5. x.kind \notin {"other", "protect"}
  BY <1>2 DEF OnTrack, Aims
<1>6. j.pc \notin {"advance"} \cup Dropping
  BY DEF Tasking, Editing, Dropping
<1>7. Aims(j)'
  BY <1>3, <1>4, <1>5, <1>6 DEF Aims
<1>8. OnTrack(j)'
  BY <1>3, <1>6, <1>7 DEF OnTrack
<1> QED
  BY <1>8

LEMMA LoadEntityLossless ==
    ASSUME NEW w, WorkerMoves(w), LoadEntity(w)
    PROVE  LosslessInv'
<1>1. /\ UNCHANGED <<rows, graphs, store, schemas>> /\ sync'.cursor = sync.cursor /\ UNCHANGED <<pages, rc>>
      /\ work[w].pc = "entity" /\ work[w].pc \notin Idle /\ work[w].pc \in Tasking
  BY DEF LoadEntity, dbVars, storeVars, At, Idle, Tasking, WorkerMoves
<1>2. PICK i, x, t, row : i = work[w] /\ x = EventOf(i) /\ t = TaskIn(i) /\ row = rows[t.entity]
  OBVIOUS
<1>3. /\ Event(w) = x /\ x \in Row /\ i \in Job /\ OnTrack(i) /\ t = Head(i.todo) /\ t \in Task
      /\ t.entity \in Entities /\ t.rev \in Nat /\ x.entity \in Entities
  BY <1>1, <1>2, InHand
<1>4. row.indexed \in Nat
  BY <1>2, <1>3 DEF WorkerMoves, SyncInv, Typed, TypeOK, EntityRow
<1>5. t.entity = x.entity \/ Handled(x)
  BY <1>1, <1>2, <1>3 DEF OnTrack, Aims
<1>6. Handled(x) => Handled(x)'
  <2>1. SameFor(x.entity)
    BY <1>1 DEF SameFor
  <2> QED
    BY <1>1, <1>3, <2>1, LeftAlone DEF Handled
<1>7. PICK j : j = work'[w]
  OBVIOUS
<1>8. ASSUME NEW pc \in {"restoring", "rebuild", "gap", "fetch", "advance"},
             work' = [work EXCEPT ![w] = [@ EXCEPT !.pc = pc, !.row = row]],
             pc = "restoring" => x.kind = "restore",
             pc = "fetch" => t.rev > row.indexed,
             pc = "advance" => Handled(x)
      PROVE  LosslessInv'
  <2>1. j = [i EXCEPT !.pc = pc, !.row = row]
    BY <1>2, <1>7, <1>8 DEF WorkerMoves, SyncInv, Typed, TypeOK
  <2>2. j.pc = pc /\ j.page = i.page /\ j.todo = i.todo
    BY <1>3, <2>1 DEF Job
  <2>3. \A y \in j.page : \E z \in Seen : Like(z, y)
    BY <1>2, <2>2, PageKept
  <2>4. OnTrack(work[w])'
    <3>1. CASE pc \in {"restoring", "gap", "fetch"}
      <4>1. j.pc \in Tasking
        BY <2>2, <3>1 DEF Tasking, Editing
      <4>2. WritesTask(j.pc, x, t)'
        BY <1>1, <1>2, <1>8, <2>2, <3>1 DEF WritesTask, Fetched, Registered, Complete
      <4>3. t.entity = x.entity \/ Handled(x)'
        BY <1>5, <1>6
      <4> HIDE DEF Handled, WritesTask
      <4> QED
        BY <1>1, <1>2, <1>7, <1>8, <2>2, <4>1, <4>2, <4>3, OnWithTask
    <3>2. CASE pc = "rebuild"
      <4>1. OnTrack(j)'
        BY <2>2, <3>2, IdleOnTrack
      <4> QED
        BY <1>7, <4>1
    <3>3. CASE pc = "advance"
      <4>1. Handled(x)' /\ EventOf(j) = x
        BY <1>2, <1>6, <1>8, <2>2, <3>3 DEF EventOf
      <4>2. OnTrack(j)'
        BY <2>2, <3>3, <4>1 DEF OnTrack, Aims, Tasking, Editing, Dropping
      <4> QED
        BY <1>7, <4>2
    <3> QED
      BY <3>1, <3>2, <3>3
  <2> QED
    BY <1>1, <1>7, <2>3, <2>4, QuietTrack
<1>9. CASE ForceRestore(w)
  <2>1. x.kind = "restore"
    BY <1>3, <1>9, AllClasses DEF ForceRestore, Action
  <2>2. PICK pc \in {"restoring", "rebuild"} :
           work' = [work EXCEPT ![w] = [@ EXCEPT !.pc = pc, !.row = row]]
    BY <1>2, <1>3, <1>9 DEF LoadEntity
  <2> QED
    BY <1>8, <2>1, <2>2
<1>10. CASE ~ForceRestore(w)
  <2>1. x.kind # "restore"
    BY <1>3, <1>10, AllClasses DEF ForceRestore, Action
  <2>2. t.rev <= row.indexed => Handled(x)
    BY <1>1, <1>2, <2>1, DuplicateHandled
  <2> DEFINE old == IF PlainEdit(w) THEN x.old ELSE row.indexed
             decision == Observe(row.indexed, t.rev, old)
             go(pc) == work' = [work EXCEPT ![w] = [@ EXCEPT !.pc = pc, !.row = row]]
  <2>3. \/ decision = "GAP_DETECTED" /\ go("gap")
        \/ decision = "APPLY" /\ go("fetch")
        \/ decision = "DUPLICATE_OR_OLDER" /\ PlainEdit(w) /\ go("advance")
        \/ decision = "DUPLICATE_OR_OLDER" /\ ~PlainEdit(w) /\ NextTask(w)
    BY <1>2, <1>3, <1>10 DEF LoadEntity
  <2>4. /\ decision = "APPLY" => t.rev > row.indexed
        /\ decision = "DUPLICATE_OR_OLDER" => t.rev <= row.indexed
    BY <1>3, <1>4 DEF Observe
  <2>5. CASE decision = "GAP_DETECTED" /\ go("gap")
    BY <1>8, <2>5
  <2>6. CASE decision = "APPLY" /\ go("fetch")
    BY <1>8, <2>4, <2>6
  <2>7. CASE decision = "DUPLICATE_OR_OLDER" /\ PlainEdit(w) /\ go("advance")
    BY <1>8, <2>2, <2>4, <2>7
  <2>8. CASE decision = "DUPLICATE_OR_OLDER" /\ ~PlainEdit(w) /\ NextTask(w)
    <3>1. Handled(x)'
      BY <1>6, <2>2, <2>4, <2>8
    <3>2. OnTrack(work[w])' /\ j.page = i.page
      BY <1>1, <1>2, <1>7, <2>8, <3>1, NextTaskTrack
    <3>3. \A y \in j.page : \E z \in Seen : Like(z, y)
      BY <1>2, <3>2, PageKept
    <3> QED
      BY <1>1, <1>7, <3>2, <3>3, QuietTrack
  <2> HIDE DEF old, decision, go
  <2> QED
    BY <2>3, <2>5, <2>6, <2>7, <2>8
<1> QED
  BY <1>9, <1>10

\* What a step to another call leaves of a job.
LEMMA Went ==
    ASSUME NEW w, WorkerMoves(w), work[w].pc \notin Idle, NEW pc, Goto(w, pc), NEW j, j = work'[w]
    PROVE  /\ j.pc = pc /\ j.page = work[w].page /\ j.todo = work[w].todo /\ j.row = work[w].row
           /\ \A y \in j.page : \E z \in Seen : Like(z, y)
           /\ EventOf(j) = EventOf(work[w]) /\ TaskIn(j) = TaskIn(work[w])
<1>1. work[w] \in Job
  BY DEF WorkerMoves, SyncInv, Typed, TypeOK
<1>2. j = [work[w] EXCEPT !.pc = pc]
  BY DEF Goto, WorkerMoves, SyncInv, Typed, TypeOK
<1>3. j.pc = pc /\ j.page = work[w].page /\ j.todo = work[w].todo /\ j.row = work[w].row
  BY <1>1, <1>2 DEF Job
<1>4. \A y \in j.page : \E z \in Seen : Like(z, y)
  BY <1>3, PageKept
<1> QED
  BY <1>3, <1>4 DEF EventOf, TaskIn

LEMMA CheckLossless ==
    ASSUME NEW w, WorkerMoves(w), FetchRevision(w) \/ VerifyGraph(w)
    PROVE  LosslessInv'
<1>1. /\ UNCHANGED <<rows, graphs, store, schemas>> /\ sync'.cursor = sync.cursor
      /\ UNCHANGED <<pages, rc, revisions>>
      /\ work[w].pc \in {"fetch", "verify"} /\ work[w].pc \notin Idle /\ work[w].pc \in Tasking
  BY DEF FetchRevision, VerifyGraph, dbVars, storeVars, At, Idle, Tasking, Editing, WorkerMoves
<1>2. PICK i, x, t, j : i = work[w] /\ x = EventOf(i) /\ t = TaskIn(i) /\ j = work'[w]
  OBVIOUS
<1>3. /\ Event(w) = x /\ x \in Row /\ i \in Job /\ OnTrack(i) /\ t = Head(i.todo) /\ t \in Task
      /\ x.entity \in Entities /\ t.rev \in Nat
  BY <1>1, <1>2, InHand
<1>4. PICK pc : /\ Goto(w, pc)
                /\ \/ pc = "put" /\ i.pc = "fetch" /\ Fetchable(t.entity, t.rev)
                   \/ pc = "save" /\ i.pc = "verify"
                   \/ pc = "rebuild"
  BY <1>2, <1>3, Zenon DEF FetchRevision, VerifyGraph, At
<1>5. /\ j.pc = pc /\ j.page = i.page /\ j.todo = i.todo
      /\ \A y \in j.page : \E z \in Seen : Like(z, y)
  BY <1>1, <1>2, <1>4, Went
<1>6. WritesTask(i.pc, x, t) /\ (t.entity = x.entity \/ Handled(x))
  BY <1>1, <1>2, <1>3 DEF OnTrack, Aims
<1>7. Handled(x) => Handled(x)'
  <2>1. SameFor(x.entity)
    BY <1>1 DEF SameFor
  <2> QED
    BY <1>1, <1>3, <2>1, LeftAlone DEF Handled
<1>8. CASE pc = "rebuild"
  <2>1. OnTrack(j)'
    BY <1>5, <1>8, IdleOnTrack
  <2> QED
    BY <1>1, <1>2, <1>5, <2>1, QuietTrack
<1>9. CASE pc = "put" /\ i.pc = "fetch" /\ Fetchable(t.entity, t.rev)
  <2>1. t.rev # 0 /\ OwnRevision(t.entity, t.rev)'
    BY <1>1, <1>3, <1>9 DEF Fetchable, OwnRevision
  <2>2. WritesTask("put", x, t)'
    BY <1>1, <1>6, <1>9, <2>1 DEF WritesTask, Fetched, Registered, Complete
  <2>3. j.pc \in Tasking /\ j.pc # "restoring"
    BY <1>5, <1>9 DEF Tasking, Editing
  <2>4. t.entity = x.entity \/ Handled(x)'
    BY <1>6, <1>7
  <2>5. OnTrack(work[w])'
    BY <1>1, <1>2, <1>5, <1>9, <2>2, <2>3, <2>4, OnWithTask
  <2> QED
    BY <1>1, <1>2, <1>5, <2>5, QuietTrack
<1>10. CASE pc = "save" /\ i.pc = "verify"
  <2>1. WritesTask("save", x, t)'
    BY <1>1, <1>6, <1>10 DEF WritesTask, Fetched, Registered, Complete, OwnRevision
  <2>2. j.pc \in Tasking /\ j.pc # "restoring"
    BY <1>5, <1>10 DEF Tasking, Editing
  <2>3. t.entity = x.entity \/ Handled(x)'
    BY <1>6, <1>7
  <2>4. OnTrack(work[w])'
    BY <1>1, <1>2, <1>5, <1>10, <2>1, <2>2, <2>3, OnWithTask
  <2> QED
    BY <1>1, <1>2, <1>5, <2>4, QuietTrack
<1> QED
  BY <1>4, <1>8, <1>9, <1>10

\* While a worker has an event in hand, the rows of its entities are ahead.
LEMMA TaskAhead ==
    ASSUME NEW w, WorkerMoves(w), work[w].pc \notin Idle, NEW x, x = EventOf(work[w]),
           x.kind # "other", NEW f \in LifecycleIds(x)
    PROVE  Later(f, sync.cursor) \/ pages[f].redirect # None
<1>1. /\ x \in Seen /\ x.rcid \in Nat /\ Told(x) /\ x.rcid > sync.cursor /\ sync.cursor \in Nat
  BY InHand
<1>2. \A row \in rc : row.rcid \in Nat /\ (row.rcid = x.rcid => Like(row, x))
  <2>1. \A row \in rc : row \in Seen
    BY DEF Seen
  <2>2. \A row \in Seen : row.rcid \in Nat /\ Follows(row, x)
    BY <1>1, SeenRows DEF WorkerMoves
  <2> QED
    BY <2>1, <2>2 DEF Follows
<1>3. Later(f, x.rcid) => Later(f, sync.cursor)
  BY <1>1, <1>2 DEF Later
<1>4. CASE f = x.entity
  <2>1. CASE Later(f, x.rcid)
    BY <1>3, <2>1
  <2>2. CASE ~Later(f, x.rcid)
    <3>1. PICK row \in rc : row.rcid = x.rcid
      BY <1>1, <1>4, <2>2 DEF Told, Tells
    <3>2. About(row, f) /\ row.rcid > sync.cursor
      BY <1>1, <1>2, <1>4, <3>1 DEF Like, About
    <3> QED
      BY <3>1, <3>2 DEF Later
  <2> QED
    BY <2>1, <2>2
<1>5. CASE f \in x.mentions
  BY <1>1, <1>3, <1>5 DEF Told, Mentions
<1> QED
  BY <1>4, <1>5 DEF LifecycleIds

\* A fence behind the page, or one that a deletion or a restoration in hand
\* will overwrite, needs no graphs yet.
LEMMA CaughtMeanwhile ==
    ASSUME NEW w, WorkerMoves(w), work[w].pc \notin Idle, NEW x, x = EventOf(work[w]),
           NEW f \in Entities, rows'[f].indexed = rows[f].indexed, sync'.cursor = sync.cursor,
           \A y \in work'[w].page : \E z \in Seen : Like(z, y),
           \/ x.kind \in {"delete", "restore"} /\ x.entity = f
           \/ \E r \in Nat : r > rows[f].indexed /\ r # 0 /\ OwnRevision(f, r)
    PROVE  Caught(f)'
<1> SUFFICES ASSUME NEW v \in Seen', v.entity = f, v.rcid > sync.cursor, v.rev > 0,
                    v.rev = pages[f].rev, v.rev = rows[f].indexed
             PROVE  \E y \in rc : /\ y.kind \in {"delete", "restore"} /\ y.entity = f
                                  /\ y.rcid > sync.cursor /\ y.rcid < v.rcid
  BY DEF Caught, WorkerMoves
<1>1. PICK z \in Seen : Like(z, v)
  BY DEF Seen, Like, WorkerMoves
<1>2. ASSUME NEW r \in Nat, r > rows[f].indexed, OwnRevision(f, r)
      PROVE  FALSE
  <2>1. r <= pages[f].rev /\ pages[f].rev \in Nat
    BY <1>2, NotNewer
  <2> QED
    BY <1>2, <2>1
<1>3. CASE x.kind \in {"delete", "restore"} /\ x.entity = f
  <2>1. x \in work[w].page /\ w \in Workers /\ Told(x) /\ x.rcid > sync.cursor
    BY InHand
  <2>2. x.rev = 0
    BY <1>3, <2>1 DEF Told, HasRevision
  <2>3. PICK y \in rc : Like(y, x)
    BY <2>1, <2>2 DEF WorkerMoves, SyncInv, WorkInv, InOrder
  <2>4. x.rcid < z.rcid \/ Like(x, z)
    BY <1>1, EventFirst DEF Like
  <2>5. ~Like(x, z)
    BY <1>1, <2>2 DEF Like
  <2>6. /\ y.kind \in {"delete", "restore"} /\ y.entity = f
        /\ y.rcid > sync.cursor /\ y.rcid < v.rcid
    BY <1>1, <1>3, <2>1, <2>3, <2>4, <2>5 DEF Like
  <2> QED
    BY <2>6
<1> QED
  BY <1>2, <1>3

\* A call that writes what the generation has of one entity of the event.
LEMMA WriteCall ==
    ASSUME NEW w, WorkerMoves(w), work[w].pc \notin Idle, NEW x, x = EventOf(work[w]),
           x.kind # "other", NEW f \in LifecycleIds(x),
           \A e \in Entities \ {f} : SameFor(e), sync'.cursor = sync.cursor,
           \A y \in work'[w].page : \E z \in Seen : Like(z, y),
           OnTrack(work[w])', Caught(f)', OwnRevision(f, rows[f].indexed)'
    PROVE  LosslessInv'
<1>1. \A y \in Seen' : \E z \in Seen : Like(z, y)
  <2>1. Seen' = rc \cup work'[w].page
    BY DEF WorkerMoves, Seen
  <2>2. \A y \in rc : y \in Seen /\ Like(y, y)
    BY DEF Seen, Like
  <2> QED
    BY <2>1, <2>2
<1>2. ASSUME NEW e \in Entities
      PROVE  (Passed(e, sync.cursor) /\ Caught(e) /\ OwnRevision(e, rows[e].indexed))'
  <2>1. CASE e = f
    <3>1. Later(f, sync.cursor) \/ pages[f].redirect # None
      BY TaskAhead
    <3>2. Passed(f, sync.cursor)'
      BY <3>1 DEF Passed, Later, WorkerMoves
    <3> QED
      BY <2>1, <3>2
  <2>2. CASE e # f
    <3>1. Passed(e, sync.cursor) /\ Caught(e) /\ OwnRevision(e, rows[e].indexed)
      BY DEF WorkerMoves, LosslessInv, Following
    <3>2. SameFor(e) /\ UNCHANGED <<pages, rc>>
      BY <2>2 DEF WorkerMoves
    <3>3. Caught(e)'
      BY <1>1, <3>1, <3>2, LeftAlone, CaughtLeft DEF SameFor
    <3>4. PICK n : n = sync.cursor
      OBVIOUS
    <3>5. Passed(e, n)'
      BY <3>1, <3>2, <3>4, LeftAlone
    <3>6. Passed(e, sync.cursor)'
      BY <3>4, <3>5 DEF Passed, Later
    <3>7. OwnRevision(e, rows[e].indexed)'
      BY <3>1, <3>2 DEF SameFor, OwnRevision, WorkerMoves
    <3> QED
      BY <3>3, <3>6, <3>7
  <2> QED
    BY <2>1, <2>2
<1> QED
  BY <1>2, WorkerCall

\* The task in hand, and what of it is written.
LEMMA TaskInHand ==
    ASSUME NEW w, WorkerMoves(w), work[w].pc \in Tasking, NEW x, x = EventOf(work[w]),
           NEW t, t = TaskIn(work[w])
    PROVE  /\ work[w].pc \notin Idle /\ x.kind \notin {"other", "protect", "delete"}
           /\ t \in Task /\ t.entity \in Entities /\ t.rev \in Nat /\ t = Head(work[w].todo)
           /\ t.entity \in LifecycleIds(x) /\ UpToDate(t, x)
           /\ x.kind = "restore" => t.entity = x.entity
           /\ WritesTask(work[w].pc, x, t)
           /\ t.entity = x.entity \/ Handled(x)
<1>1. work[w].pc \notin Idle
  BY DEF Idle, Tasking, Editing
<1>2. PICK i : i = work[w]
  OBVIOUS
<1>3. /\ OnTrack(i) /\ OnTask(i) /\ t = Head(i.todo) /\ t \in Task /\ i \in Job /\ Busy(i) /\ x \in Row
      /\ Told(x) /\ t.entity \in Entities /\ t.rev \in Nat
  BY <1>1, <1>2, InHand
<1>4. x.kind \notin {"other", "protect", "delete"}
  <2>1. Classify(x) # "ENTITY_DELETE"
    BY <1>2, <1>3 DEF OnTask, ActionOf
  <2>2. x.kind # "delete"
    BY <1>3, <2>1, AllClasses
  <2> QED
    BY <1>2, <1>3, <2>2 DEF OnTrack, Aims
<1>5. UpToDate(t, x) /\ (t.entity = x.entity \/ Handled(x)) /\ WritesTask(i.pc, x, t)
  <2>1. 1 \in DOMAIN i.todo
    <3>1. i.todo \in Seq(Task) /\ i.todo # <<>>
      BY <1>2, <1>3 DEF Busy, Job
    <3> QED
      BY <3>1
  <2>2. t = i.todo[1]
    BY <1>3
  <2> QED
    BY <1>2, <1>3, <2>1, <2>2 DEF OnTrack, Aims
<1>6. t.entity \in LifecycleIds(x)
  BY <1>5 DEF UpToDate
<1>7. x.kind = "restore" => t.entity = x.entity
  BY <1>3, <1>6 DEF Told, Mentions, LifecycleIds
<1> QED
  BY <1>1, <1>2, <1>3, <1>4, <1>5, <1>6, <1>7

\* Handled stays while another entity is written.
LEMMA StillHandled ==
    ASSUME NEW w, WorkerMoves(w), NEW x, x.entity \in Entities, NEW f, \A e \in Entities \ {f} : SameFor(e),
           f = x.entity \/ Handled(x)
    PROVE  f = x.entity \/ Handled(x)'
<1> SUFFICES ASSUME f # x.entity
             PROVE  Handled(x)'
  OBVIOUS
<1>1. SameFor(x.entity) /\ UNCHANGED <<pages, rc>>
  BY DEF WorkerMoves
<1> QED
  BY <1>1, LeftAlone DEF Handled

\* A call of #edit before the fence moves.
LEMMA TaskWrite ==
    ASSUME NEW w, WorkerMoves(w), work[w].pc \in Tasking, NEW x, x = EventOf(work[w]),
           NEW t, t = TaskIn(work[w]), NEW pc, Goto(w, pc),
           \A e \in Entities \ {t.entity} : SameFor(e), sync'.cursor = sync.cursor,
           rows'[t.entity].indexed = rows[t.entity].indexed,
           \/ pc = "rebuild"
           \/ pc \in Tasking /\ pc # "restoring" /\ WritesTask(pc, x, t)',
           \/ x.kind = "restore"
           \/ \E r \in Nat : r > rows[t.entity].indexed /\ r # 0 /\ OwnRevision(t.entity, r)
    PROVE  LosslessInv'
<1>1. /\ work[w].pc \notin Idle /\ x.kind # "other" /\ t.entity \in LifecycleIds(x) /\ t.entity \in Entities
      /\ x.kind = "restore" => t.entity = x.entity
      /\ t.entity = x.entity \/ Handled(x)
  BY TaskInHand
<1>2. x.entity \in Entities
  BY <1>1, InHand
<1>3. PICK j : j = work'[w]
  OBVIOUS
<1>4. /\ j.pc = pc /\ j.page = work[w].page /\ j.todo = work[w].todo
      /\ \A y \in j.page : \E z \in Seen : Like(z, y)
  BY <1>1, <1>3, Went
<1>5. t.entity = x.entity \/ Handled(x)'
  BY <1>1, <1>2, StillHandled
<1>6. OnTrack(work[w])'
  <2>1. CASE pc = "rebuild"
    <3>1. OnTrack(j)'
      BY <1>4, <2>1, IdleOnTrack
    <3> QED
      BY <1>3, <3>1
  <2>2. CASE pc \in Tasking /\ pc # "restoring" /\ WritesTask(pc, x, t)'
    BY <1>3, <1>4, <1>5, <2>2, OnWithTask
  <2> QED
    BY <2>1, <2>2
<1>7. Caught(t.entity)'
  <2>1. PICK f \in Entities : f = t.entity
    BY <1>1
  <2>2. \/ x.kind \in {"delete", "restore"} /\ x.entity = f
        \/ \E r \in Nat : r > rows[f].indexed /\ r # 0 /\ OwnRevision(f, r)
    BY <1>1, <2>1
  <2>3. rows'[f].indexed = rows[f].indexed
    BY <2>1
  <2>4. Caught(f)'
    BY <1>1, <1>3, <1>4, <2>2, <2>3, CaughtMeanwhile
  <2> QED
    BY <2>1, <2>4
<1>8. OwnRevision(t.entity, rows[t.entity].indexed)'
  <2>1. OwnRevision(t.entity, rows[t.entity].indexed)
    BY <1>1 DEF WorkerMoves, LosslessInv
  <2> QED
    BY <2>1 DEF OwnRevision, WorkerMoves
<1> QED
  BY <1>1, <1>3, <1>4, <1>6, <1>7, <1>8, WriteCall

LEMMA StatusLossless ==
    ASSUME NEW w, WorkerMoves(w), SaveGap(w) \/ SaveRestoring(w)
    PROVE  LosslessInv'
<1>1. /\ UNCHANGED <<graphs, store, schemas, pages, rc, revisions>> /\ sync'.cursor = sync.cursor
      /\ work[w].pc \in {"gap", "restoring"} /\ work[w].pc \in Tasking /\ work[w].pc \in Editing
      /\ rows \in [Entities -> EntityRow]
  BY DEF SaveGap, SaveRestoring, storeVars, At, Tasking, Editing, WorkerMoves, SyncInv, Typed, TypeOK
<1>2. PICK i, x, t : i = work[w] /\ x = EventOf(i) /\ t = TaskIn(i)
  OBVIOUS
<1>3. /\ i.pc \notin Idle /\ t.entity \in Entities /\ t = Head(i.todo) /\ t.rev \in Nat
      /\ WritesTask(i.pc, x, t)
  BY <1>1, <1>2, TaskInHand
<1>4. i \in Job /\ OnTask(i) /\ OnTrack(i) /\ w \in Workers /\ Recorded(x) /\ x.rev \in Nat /\ x \in Row
  BY <1>2, <1>3, InHand
<1>5. i.row.indexed = rows[t.entity].indexed
  BY <1>1, <1>2, <1>3, <1>4 DEF WorkerMoves, FenceInv, FenceUnmoved, FenceOf, TaskOf
<1>6. PICK r : rows' = [rows EXCEPT ![t.entity] = r] /\ r.indexed = i.row.indexed
  <2>1. i.row \in EntityRow
    BY <1>4 DEF Job
  <2>2. CASE SaveGap(w)
    <3>1. PICK r : r = [i.row EXCEPT !.seen = t.rev, !.status = "GAP"]
      OBVIOUS
    <3>2. rows' = [rows EXCEPT ![t.entity] = r]
      BY <1>2, <1>3, <2>2, <3>1 DEF SaveGap
    <3>3. r.indexed = i.row.indexed
      BY <2>1, <3>1 DEF EntityRow
    <3> QED
      BY <3>2, <3>3
  <2>3. CASE SaveRestoring(w)
    <3>1. PICK r : r = [i.row EXCEPT !.status = "RESTORING"]
      OBVIOUS
    <3>2. rows' = [rows EXCEPT ![t.entity] = r]
      BY <1>2, <1>3, <2>3, <3>1 DEF SaveRestoring
    <3>3. r.indexed = i.row.indexed
      BY <2>1, <3>1 DEF EntityRow
    <3> QED
      BY <3>2, <3>3
  <2> QED
    BY <2>2, <2>3
<1>7. /\ rows'[t.entity].indexed = rows[t.entity].indexed
      /\ \A e \in Entities \ {t.entity} : SameFor(e)
  BY <1>1, <1>3, <1>5, <1>6 DEF SameFor
<1>8. CASE SaveGap(w)
  <2>1. i.pc = "gap" /\ Goto(w, "rebuild")
    BY <1>2, <1>8 DEF SaveGap, At
  <2>2. Classify(x) = "ENTITY_EDIT" /\ t.entity = x.entity
    BY <1>2, <1>4, <2>1 DEF OnTask, ActionOf, Tasking, Editing
  <2>3. x.rev > rows[t.entity].indexed
    <3>1. Observe(rows[x.entity].indexed, x.rev, x.old) = "GAP_DETECTED"
      BY <1>2, <1>4, <2>1 DEF OnTask
    <3>2. ~(x.rev <= rows[x.entity].indexed) /\ rows[x.entity].indexed \in Nat
      BY <1>1, <1>3, <2>2, <3>1 DEF Observe, EntityRow
    <3> QED
      BY <1>4, <2>2, <3>2
  <2>4. OwnRevision(t.entity, x.rev) /\ x.rev # 0
    <3>1. x.kind = "edit"
      BY <1>4, <2>2, AllClasses
    <3> QED
      BY <1>4, <2>2, <3>1 DEF Recorded, Successive, OwnRevision
  <2>5. \E n \in Nat : n > rows[t.entity].indexed /\ n # 0 /\ OwnRevision(t.entity, n)
    BY <1>4, <2>3, <2>4
  <2> QED
    BY <1>1, <1>2, <1>7, <2>1, <2>5, TaskWrite
<1>9. CASE SaveRestoring(w)
  <2>1. i.pc = "restoring" /\ Goto(w, "fetch")
    BY <1>2, <1>9 DEF SaveRestoring, At
  <2>2. x.kind = "restore"
    BY <1>2, <1>4, <2>1 DEF OnTrack, Aims
  <2>3. WritesTask("fetch", x, t)'
    BY <2>2 DEF WritesTask, Fetched, Registered, Complete
  <2>4. "fetch" \in Tasking
    BY DEF Tasking, Editing
  <2> QED
    BY <1>1, <1>2, <1>7, <2>1, <2>2, <2>3, <2>4, TaskWrite
<1> QED
  BY <1>8, <1>9

LEMMA GraphLossless ==
    ASSUME NEW w, WorkerMoves(w),
           \/ ReplaceEntityGraph(w) \/ RegisterEntityGraph(w)
           \/ ReplaceSchemaGraph(w) \/ RegisterSchemaGraph(w)
    PROVE  LosslessInv'
<1>1. /\ UNCHANGED <<rows, pages, rc, revisions>> /\ sync'.cursor = sync.cursor
      /\ work[w].pc \in {"put", "register", "putSchema", "registerSchema"} /\ work[w].pc \in Tasking
      /\ store \in [Entities -> Nat] /\ schemas \in [Properties -> Nat]
  BY DEF ReplaceEntityGraph, RegisterEntityGraph, ReplaceSchemaGraph, RegisterSchemaGraph, dbVars,
     storeVars, At, Tasking, Editing, WorkerMoves, SyncInv, Typed, TypeOK
<1>2. PICK i, x, t : i = work[w] /\ x = EventOf(i) /\ t = TaskIn(i)
  OBVIOUS
<1>3. /\ i.pc \notin Idle /\ t.entity \in Entities /\ t = Head(i.todo) /\ t.rev \in Nat
      /\ WritesTask(i.pc, x, t)
  BY <1>1, <1>2, TaskInHand
<1>4. /\ x.kind = "restore" \/ t.rev > rows[t.entity].indexed
      /\ t.rev # 0 /\ OwnRevision(t.entity, t.rev)
  BY <1>1, <1>2, <1>3 DEF WritesTask, Fetched
<1>5. \/ x.kind = "restore"
      \/ \E r \in Nat : r > rows[t.entity].indexed /\ r # 0 /\ OwnRevision(t.entity, r)
  BY <1>3, <1>4
<1>6. OwnRevision(t.entity, t.rev)'
  BY <1>1, <1>4 DEF OwnRevision
<1>7. rows'[t.entity].indexed = rows[t.entity].indexed
  BY <1>1
<1>8. CASE ReplaceEntityGraph(w)
  <2>1. Goto(w, "register") /\ store' = [store EXCEPT ![t.entity] = t.rev] /\ UNCHANGED <<graphs, schemas>>
    BY <1>2, <1>3, <1>8 DEF ReplaceEntityGraph, dbVars
  <2>2. \A e \in Entities \ {t.entity} : SameFor(e)
    BY <1>1, <2>1 DEF SameFor
  <2>3. WritesTask("register", x, t)' /\ "register" \in Tasking
    BY <1>1, <1>4, <1>6 DEF WritesTask, Fetched, Registered, Complete, Tasking, Editing
  <2> QED
    BY <1>1, <1>2, <1>5, <1>7, <2>1, <2>2, <2>3, TaskWrite
<1>9. CASE RegisterEntityGraph(w)
  <2>1. /\ graphs' = graphs \cup {EntityGraph(t.entity)} /\ UNCHANGED <<store, schemas>>
        /\ Goto(w, IF t.entity \in Properties THEN "putSchema" ELSE "verify")
    BY <1>2, <1>3, <1>9 DEF RegisterEntityGraph, storeVars
  <2>2. PICK pc : /\ Goto(w, pc) /\ pc \in {"putSchema", "verify"}
                  /\ pc = "verify" => t.entity \notin Properties
    BY <2>1
  <2>3. \A e \in Entities \ {t.entity} : SameFor(e)
    <3>1. \A e \in Entities \ {t.entity} : EntityGraph(t.entity) \notin GraphsOf(e)
      BY DEF GraphsOf, EntityGraph, SchemaGraph
    <3> QED
      BY <1>1, <2>1, <3>1 DEF SameFor
  <2>4. WritesTask(pc, x, t)' /\ pc \in Tasking /\ pc # "restoring"
    BY <1>1, <1>4, <1>6, <2>1, <2>2 DEF WritesTask, Fetched, Registered, Complete, Tasking, Editing
  <2> QED
    BY <1>1, <1>2, <1>5, <1>7, <2>2, <2>3, <2>4, TaskWrite
<1>10. CASE ReplaceSchemaGraph(w)
  <2>1. /\ Goto(w, "registerSchema") /\ schemas' = [schemas EXCEPT ![t.entity] = t.rev]
        /\ UNCHANGED <<graphs, store>> /\ i.pc = "putSchema"
    BY <1>2, <1>3, <1>10 DEF ReplaceSchemaGraph, dbVars, At
  <2>2. \A e \in Entities \ {t.entity} : SameFor(e)
    BY <1>1, <2>1 DEF SameFor
  <2>3. EntityGraph(t.entity) \in graphs' /\ (t.entity \in Properties => schemas'[t.entity] = t.rev)
    BY <1>1, <1>3, <2>1 DEF WritesTask, Registered
  <2>4. WritesTask("registerSchema", x, t)' /\ "registerSchema" \in Tasking
    BY <1>1, <1>4, <1>6, <2>3 DEF WritesTask, Fetched, Registered, Complete, Tasking, Editing
  <2> QED
    BY <1>1, <1>2, <1>5, <1>7, <2>1, <2>2, <2>4, TaskWrite
<1>11. CASE RegisterSchemaGraph(w)
  <2>1. /\ Goto(w, "verify") /\ graphs' = graphs \cup {SchemaGraph(t.entity)}
        /\ UNCHANGED <<store, schemas>> /\ i.pc = "registerSchema"
    BY <1>2, <1>3, <1>11 DEF RegisterSchemaGraph, storeVars, At
  <2>2. \A e \in Entities \ {t.entity} : SameFor(e)
    <3>1. \A e \in Entities \ {t.entity} : SchemaGraph(t.entity) \notin GraphsOf(e)
      BY DEF GraphsOf, EntityGraph, SchemaGraph
    <3> QED
      BY <1>1, <2>1, <3>1 DEF SameFor
  <2>3. /\ EntityGraph(t.entity) \in graphs' /\ SchemaGraph(t.entity) \in graphs'
        /\ t.entity \in Properties => schemas'[t.entity] = t.rev
    BY <1>3, <2>1 DEF WritesTask, Registered
  <2>4. WritesTask("verify", x, t)' /\ "verify" \in Tasking
    BY <1>1, <1>4, <1>6, <2>3 DEF WritesTask, Fetched, Registered, Complete, Tasking, Editing
  <2> QED
    BY <1>1, <1>2, <1>5, <1>7, <2>1, <2>2, <2>4, TaskWrite
<1> QED
  BY <1>8, <1>9, <1>10, <1>11

\* The fence moves to what has been verified.
LEMMA FenceClean ==
    ASSUME NEW w, WorkerMoves(w), work[w].pc \in {"save", "commit"}, NEW x, x = EventOf(work[w]),
           NEW t, t = TaskIn(work[w]), rows' = [rows EXCEPT ![t.entity] = Indexed(work[w].row, t.rev)],
           UNCHANGED <<graphs, store, schemas>>
    PROVE  /\ Clean(t.entity)' /\ Caught(t.entity)' /\ OwnRevision(t.entity, rows[t.entity].indexed)'
           /\ \A e \in Entities \ {t.entity} : SameFor(e)
           /\ t.entity = x.entity => Handled(x)'
<1>1. work[w].pc \in Tasking /\ work[w].pc \in Verified
  BY DEF Tasking, Editing, Verified
<1>2. /\ work[w].pc \notin Idle /\ x.kind \notin {"other", "protect", "delete"}
      /\ t.entity \in Entities /\ t = Head(work[w].todo) /\ UpToDate(t, x)
      /\ WritesTask(work[w].pc, x, t)
  BY <1>1, TaskInHand
<1>3. PICK f \in Entities : f = t.entity
  BY <1>2
<1>4. w \in Workers /\ Told(x)
  BY <1>2, InHand
<1>5. rows'[f].indexed = t.rev /\ rows'[f].status = "CURRENT"
  BY <1>3 DEF WorkerMoves, SyncInv, Typed, TypeOK, Indexed
<1>6. store'[f] = t.rev
  BY <1>1, <1>2, <1>3, <1>4 DEF WorkerMoves, FenceInv, GraphVerified, TaskOf
<1>7. f \in Properties => schemas'[f] = t.rev
  BY <1>2, <1>3 DEF WritesTask, Complete
<1>8. GraphsOf(f) \subseteq graphs'
  <2>1. EntityGraph(f) \in graphs
    BY <1>2, <1>3 DEF WritesTask, Registered
  <2>2. f \in Properties => SchemaGraph(f) \in graphs
    BY <1>2, <1>3 DEF WritesTask, Complete
  <2> QED
    BY <2>1, <2>2 DEF GraphsOf
<1>9. Clean(f)'
  BY <1>5, <1>6, <1>7, <1>8 DEF Clean
<1>10. Caught(f)'
  BY <1>9 DEF Caught
<1>11. OwnRevision(f, rows[f].indexed)'
  <2>1. OwnRevision(f, t.rev)
    BY <1>2, <1>3 DEF WritesTask, Fetched
  <2> QED
    BY <1>5, <2>1 DEF OwnRevision, WorkerMoves
<1>12. \A e \in Entities \ {f} : SameFor(e)
  BY <1>3 DEF SameFor, WorkerMoves, SyncInv, Typed, TypeOK
<1>13. ASSUME f = x.entity
       PROVE  Passed(f, x.rcid)'
  <2>1. CASE Later(f, x.rcid) \/ pages[f].redirect # None
    BY <2>1 DEF Passed, Later, WorkerMoves
  <2>2. CASE ~Later(f, x.rcid) /\ pages[f].redirect = None
    <3>1. t.rev = pages[f].rev
      BY <1>2, <1>3, <1>13, <2>2 DEF UpToDate
    <3>2. pages[f].exists
      BY <1>2, <1>4, <1>13, <2>2 DEF Told, Tells
    <3>3. pages' = pages
      BY DEF WorkerMoves
    <3>4. pages'[f].exists /\ rows'[f].indexed = pages'[f].rev
      BY <1>5, <3>1, <3>2, <3>3
    <3>5. graphs' \cap GraphsOf(f) = GraphsOf(f)
      BY <1>8
    <3>6. Mirrored(f)'
      BY <1>9, <3>4, <3>5 DEF Clean, Mirrored
    <3> QED
      BY <3>6 DEF Passed
  <2> QED
    BY <2>1, <2>2
<1>14. f = x.entity => Handled(x)'
  BY <1>9, <1>13 DEF Handled
<1> QED
  BY <1>3, <1>9, <1>10, <1>11, <1>12, <1>14

LEMMA SaveEntityLossless ==
    ASSUME NEW w, WorkerMoves(w), SaveEntity(w)
    PROVE  LosslessInv'
<1>1. /\ UNCHANGED <<graphs, store, schemas, pages, rc, revisions>> /\ sync'.cursor = sync.cursor
      /\ work[w].pc = "save" /\ work[w].pc \in Tasking /\ work[w].pc \in {"save", "commit"}
  BY DEF SaveEntity, storeVars, At, Tasking, Editing, WorkerMoves
<1>2. PICK i, x, t, j : i = work[w] /\ x = EventOf(i) /\ t = TaskIn(i) /\ j = work'[w]
  OBVIOUS
<1>3. /\ i.pc \notin Idle /\ x.kind # "other" /\ t.entity \in LifecycleIds(x) /\ t.entity \in Entities
      /\ t = Head(i.todo) /\ WritesTask(i.pc, x, t)
      /\ t.entity = x.entity \/ Handled(x)
  BY <1>1, <1>2, TaskInHand
<1>4. x.entity \in Entities
  BY <1>2, <1>3, InHand
<1>5. rows' = [rows EXCEPT ![t.entity] = Indexed(work[w].row, t.rev)]
  BY <1>2, <1>3 DEF SaveEntity
<1>6. /\ Clean(t.entity)' /\ Caught(t.entity)' /\ OwnRevision(t.entity, rows[t.entity].indexed)'
      /\ \A e \in Entities \ {t.entity} : SameFor(e)
      /\ t.entity = x.entity => Handled(x)'
  BY <1>1, <1>2, <1>5, FenceClean
<1>7. Handled(x)'
  BY <1>2, <1>3, <1>4, <1>6, StillHandled
<1>8. OnTrack(work[w])' /\ \A y \in j.page : \E z \in Seen : Like(z, y)
  <2>1. CASE Goto(w, "commit")
    <3>1. /\ j.pc = "commit" /\ j.page = work[w].page /\ j.todo = work[w].todo
          /\ \A y \in j.page : \E z \in Seen : Like(z, y)
      BY <1>2, <1>3, <2>1, Went
    <3>2. WritesTask(j.pc, x, t)'
      BY <1>1, <1>2, <1>3, <3>1 DEF WritesTask, Fetched, Registered, Complete, OwnRevision
    <3>3. j.pc \in Tasking
      BY <3>1 DEF Tasking
    <3>4. OnTrack(work[w])'
      BY <1>1, <1>2, <1>7, <3>1, <3>2, <3>3, OnWithTask
    <3> QED
      BY <3>1, <3>4
  <2>2. CASE NextTask(w)
    <3>1. OnTrack(work[w])' /\ j.page = i.page
      BY <1>1, <1>2, <1>7, <2>2, NextTaskTrack
    <3> QED
      BY <1>2, <3>1, PageKept
  <2> QED
    BY <2>1, <2>2 DEF SaveEntity
<1> QED
  BY <1>1, <1>2, <1>3, <1>6, <1>8, WriteCall

\* The cursor moves to the event: nothing of another entity is passed over.
LEMMA CursorMoves ==
    ASSUME NEW w, WorkerMoves(w), work[w].pc \notin Idle, NEW x, x = EventOf(work[w]),
           sync'.cursor = x.rcid, NextEvent(w),
           NEW e \in Entities, SameFor(e), e # x.entity \/ x.kind = "other"
    PROVE  (Passed(e, sync.cursor) /\ Caught(e) /\ OwnRevision(e, rows[e].indexed))'
<1>1. Passed(e, sync.cursor) /\ Caught(e) /\ OwnRevision(e, rows[e].indexed)
  BY DEF WorkerMoves, LosslessInv, Following
<1>2. UNCHANGED <<pages, rc, revisions>>
  BY DEF WorkerMoves
<1>3. \A z \in Seen : z.rcid > sync.cursor => x.rcid < z.rcid \/ Like(x, z)
  BY EventFirst
<1>4. x.rcid > sync.cursor /\ x.rcid \in Nat /\ sync.cursor \in Nat
  BY InHand
<1>5. \A z \in rc : z \in Seen /\ z.rcid \in Nat
  BY EventFirst DEF Seen
<1>6. Later(e, sync.cursor) => Later(e, x.rcid)
  <2> SUFFICES ASSUME NEW z \in rc, z.rcid > sync.cursor, About(z, e)
               PROVE  Later(e, x.rcid)
    BY DEF Later
  <2>1. ~Like(x, z)
    BY DEF Like, About
  <2>2. z.rcid > x.rcid
    BY <1>3, <1>4, <1>5, <2>1
  <2> QED
    BY <2>2 DEF Later
<1>7. Passed(e, x.rcid)
  BY <1>1, <1>6 DEF Passed
<1>8. Passed(e, x.rcid)'
  BY <1>2, <1>7, LeftAlone
<1>9. Passed(e, sync.cursor)'
  BY <1>8 DEF Passed, Later
<1>10. Caught(e)'
  <2> SUFFICES ASSUME NEW v \in Seen', v.entity = e, v.rcid > x.rcid, v.rev > 0,
                      v.rev = pages[e].rev, v.rev = rows[e].indexed, pages[e].redirect = None
               PROVE  \/ Clean(e)'
                      \/ \E y \in rc : /\ y.kind \in {"delete", "restore"} /\ y.entity = e
                                       /\ y.rcid > x.rcid /\ y.rcid < v.rcid
    BY <1>2 DEF Caught, SameFor
  <2>1. v \in Seen
    <3>1. work'[w].page \subseteq work[w].page
      <4>1. work'[w] = [Asleep EXCEPT !.pc = IF work[w].page \ {Event(w)} = {} THEN "poll" ELSE "event",
                                      !.page = work[w].page \ {Event(w)}]
        BY DEF NextEvent, WorkerMoves, SyncInv, Typed, TypeOK
      <4>2. work'[w].page = work[w].page \ {Event(w)}
        BY <4>1 DEF Asleep
      <4> QED
        BY <4>2
    <3> QED
      BY <1>2, <3>1 DEF Seen, WorkerMoves
  <2>2. v.rcid \in Nat
    BY <2>1, EventFirst
  <2>3. \/ Clean(e)
        \/ \E y \in rc : /\ y.kind \in {"delete", "restore"} /\ y.entity = e
                         /\ y.rcid > sync.cursor /\ y.rcid < v.rcid
    <3>1. v.rcid > sync.cursor
      BY <1>4, <2>2
    <3> QED
      BY <1>1, <2>1, <3>1 DEF Caught
  <2>4. CASE Clean(e)
    BY <1>2, <2>4, LeftAlone
  <2>5. ASSUME NEW y \in rc, y.kind \in {"delete", "restore"}, y.entity = e, y.rcid > sync.cursor,
               y.rcid < v.rcid
        PROVE  y.rcid > x.rcid
    <3>1. ~Like(x, y)
      BY <2>5 DEF Like
    <3> QED
      BY <1>3, <1>4, <1>5, <2>5, <3>1
  <2> QED
    BY <2>3, <2>4, <2>5
<1>11. OwnRevision(e, rows[e].indexed)'
  BY <1>1, <1>2 DEF SameFor, OwnRevision
<1> QED
  BY <1>9, <1>10, <1>11

\* What the end of an event has to show of its own entity.
LEMMA EventDone ==
    ASSUME NEW w, WorkerMoves(w), work[w].pc \notin Idle, NEW x, x = EventOf(work[w]),
           sync'.cursor = x.rcid, NextEvent(w),
           \A e \in Entities \ {x.entity} : SameFor(e),
           IF x.kind = "other" THEN SameFor(x.entity)
           ELSE (Passed(x.entity, x.rcid) /\ Caught(x.entity) /\ OwnRevision(x.entity, rows[x.entity].indexed))'
    PROVE  LosslessInv'
<1>1. ASSUME NEW e \in Entities
      PROVE  (Passed(e, sync.cursor) /\ Caught(e) /\ OwnRevision(e, rows[e].indexed))'
  <2>1. CASE e # x.entity \/ x.kind = "other"
    <3>1. SameFor(e)
      BY <2>1
    <3> QED
      BY <2>1, <3>1, CursorMoves
  <2>2. CASE e = x.entity /\ x.kind # "other"
    <3>1. Passed(e, x.rcid)' /\ Caught(e)' /\ OwnRevision(e, rows[e].indexed)'
      BY <2>2
    <3>2. Passed(e, sync.cursor)'
      BY <3>1 DEF Passed, Later
    <3> QED
      BY <3>1, <3>2
  <2> QED
    BY <2>1, <2>2
<1>2. PICK j : j = work'[w]
  OBVIOUS
<1>3. /\ j.pc \in Idle \cup {"event", "rebuild"} /\ j.page \subseteq work[w].page
  <2>1. j = [Asleep EXCEPT !.pc = IF work[w].page \ {Event(w)} = {} THEN "poll" ELSE "event",
                           !.page = work[w].page \ {Event(w)}]
    BY <1>2 DEF NextEvent, WorkerMoves, SyncInv, Typed, TypeOK
  <2>2. j.page = work[w].page \ {Event(w)} /\ j.pc \in {"poll", "event"}
    BY <2>1 DEF Asleep
  <2> QED
    BY <2>2 DEF Idle
<1>4. OnTrack(j)'
  BY <1>3, IdleOnTrack
<1>5. \A y \in j.page : \E z \in Seen : Like(z, y)
  BY <1>3, PageKept
<1> QED
  BY <1>1, <1>2, <1>4, <1>5, WorkerCall

LEMMA CommitLossless ==
    ASSUME NEW w, WorkerMoves(w), CommitEdit(w) \/ AdvanceCursor(w)
    PROVE  LosslessInv'
<1>1. PICK i, x, t : i = work[w] /\ x = EventOf(i) /\ t = TaskIn(i)
  OBVIOUS
<1>2. work[w].pc \in {"commit", "advance"} /\ work[w].pc \notin Idle
  BY DEF CommitEdit, AdvanceCursor, At, Idle
<1>3. /\ Event(w) = x /\ x \in Seen /\ x \in Row /\ OnTrack(i) /\ OnTask(i) /\ x.entity \in Entities
      /\ x.rcid \in Nat /\ x.rcid > sync.cursor
  BY <1>1, <1>2, InHand
<1>4. sync'.cursor = x.rcid /\ NextEvent(w) /\ UNCHANGED <<graphs, store, schemas, pages, rc, revisions>>
  BY <1>3 DEF CommitEdit, AdvanceCursor, MoveCursor, storeVars, WorkerMoves, SyncInv, Typed, TypeOK
<1>5. CASE CommitEdit(w)
  <2>1. i.pc = "commit" /\ i.pc \in Tasking /\ i.pc \in {"save", "commit"}
    BY <1>1, <1>5 DEF CommitEdit, At, Tasking
  <2>2. t = Head(i.todo) /\ x.kind # "other"
    BY <1>1, <2>1, TaskInHand
  <2>3. t.entity = x.entity
    BY <1>1, <1>3, <2>1 DEF OnTask
  <2>4. rows' = [rows EXCEPT ![t.entity] = Indexed(work[w].row, t.rev)]
    BY <1>1, <1>5, <2>2 DEF CommitEdit
  <2>5. /\ Caught(x.entity)' /\ OwnRevision(x.entity, rows[x.entity].indexed)'
        /\ \A e \in Entities \ {x.entity} : SameFor(e)
        /\ Handled(x)'
    <3>1. /\ Caught(t.entity)' /\ OwnRevision(t.entity, rows[t.entity].indexed)'
          /\ \A e \in Entities \ {t.entity} : SameFor(e)
          /\ t.entity = x.entity => Handled(x)'
      BY <1>1, <1>4, <2>1, <2>4, FenceClean
    <3> QED
      BY <2>3, <3>1
  <2>6. Passed(x.entity, x.rcid)'
    BY <2>5 DEF Handled
  <2> QED
    BY <1>1, <1>2, <1>4, <2>2, <2>5, <2>6, EventDone
<1>6. CASE AdvanceCursor(w)
  <2>1. i.pc = "advance" /\ UNCHANGED rows
    BY <1>1, <1>6 DEF AdvanceCursor, At
  <2>2. \A e \in Entities : SameFor(e)
    BY <1>4, <2>1 DEF SameFor
  <2>3. x.kind = "other" \/ Handled(x)
    BY <1>1, <1>3, <2>1 DEF OnTrack, Aims
  <2>4. ASSUME Handled(x), x.kind # "other"
        PROVE  (Passed(x.entity, x.rcid) /\ Caught(x.entity) /\ OwnRevision(x.entity, rows[x.entity].indexed))'
    <3>1. PICK e \in Entities : e = x.entity
      BY <1>3
    <3>2. SameFor(e) /\ UNCHANGED <<pages, rc>>
      BY <1>4, <2>2
    <3>3. Passed(e, x.rcid)'
      BY <2>4, <3>1, <3>2, LeftAlone DEF Handled
    <3>4. Caught(e) /\ OwnRevision(e, rows[e].indexed)
      BY DEF WorkerMoves, LosslessInv, Following
    <3>5. OwnRevision(e, rows[e].indexed)'
      BY <1>4, <2>1, <3>4 DEF OwnRevision
    <3>6. x.kind # "delete"
      <4>1. Classify(x) # "ENTITY_DELETE"
        BY <1>1, <1>3, <2>1 DEF OnTask, ActionOf
      <4> QED
        BY <1>3, <4>1, AllClasses
    <3>7. CASE x.kind = "restore"
      <4>1. Clean(e)'
        BY <2>4, <3>1, <3>2, <3>7, LeftAlone DEF Handled
      <4>2. Caught(e)'
        BY <4>1 DEF Caught
      <4> QED
        BY <3>1, <3>3, <3>5, <4>2
    <3>8. CASE x.kind # "restore"
      <4> SUFFICES ASSUME NEW v \in Seen', v.entity = e, v.rcid > x.rcid, v.rev > 0,
                          v.rev = pages[e].rev, v.rev = rows[e].indexed, pages[e].redirect = None
                   PROVE  \/ Clean(e)'
                          \/ \E y \in rc : /\ y.kind \in {"delete", "restore"} /\ y.entity = e
                                           /\ y.rcid > x.rcid /\ y.rcid < v.rcid
        BY <1>4, <2>1, <3>1, <3>3, <3>5 DEF Caught
      <4>1. v \in Seen
        <5>1. work'[w] = [Asleep EXCEPT !.pc = IF work[w].page \ {Event(w)} = {} THEN "poll" ELSE "event",
                                        !.page = work[w].page \ {Event(w)}]
          BY <1>4 DEF NextEvent, WorkerMoves, SyncInv, Typed, TypeOK
        <5>2. work'[w].page = work[w].page \ {Event(w)}
          BY <5>1 DEF Asleep
        <5> QED
          BY <1>4, <5>2 DEF Seen, WorkerMoves
      <4>2. \A z \in Seen : (z.rcid > sync.cursor => x.rcid < z.rcid \/ Like(x, z)) /\ z.rcid \in Nat
        BY <1>1, <1>2, EventFirst
      <4>3. v.rcid > sync.cursor
        <5>1. v.rcid \in Nat /\ sync.cursor \in Nat
          BY <4>1, <4>2 DEF WorkerMoves, SyncInv, Typed, TypeOK
        <5> QED
          BY <1>3, <5>1
      <4>4. \/ Clean(e)
            \/ \E y \in rc : /\ y.kind \in {"delete", "restore"} /\ y.entity = e
                             /\ y.rcid > sync.cursor /\ y.rcid < v.rcid
        BY <3>4, <4>1, <4>3 DEF Caught
      <4>5. CASE Clean(e)
        BY <3>2, <4>5, LeftAlone
      <4>6. ASSUME NEW y \in rc, y.kind \in {"delete", "restore"}, y.entity = e, y.rcid > sync.cursor
            PROVE  y.rcid > x.rcid
        <5>1. ~Like(x, y)
          BY <3>6, <3>8, <4>6 DEF Like
        <5>2. y \in Seen
          BY DEF Seen
        <5> QED
          BY <1>3, <4>2, <4>6, <5>1, <5>2
      <4> QED
        BY <4>4, <4>5, <4>6
    <3> QED
      BY <3>7, <3>8
  <2>5. \A e \in Entities \ {x.entity} : SameFor(e)
    BY <2>2
  <2> QED
    BY <1>1, <1>2, <1>3, <1>4, <2>2, <2>3, <2>4, <2>5, EventDone
<1> QED
  BY <1>5, <1>6

\* The deletion in hand, and what of it is done.
LEMMA DropInHand ==
    ASSUME NEW w, WorkerMoves(w), work[w].pc \in Dropping, NEW x, x = EventOf(work[w])
    PROVE  /\ work[w].pc \notin Idle /\ x.kind = "delete" /\ x.entity \in Entities
           /\ x.entity \in LifecycleIds(x) /\ Event(w) = x /\ Drops(work[w].pc, x.entity)
<1>1. work[w].pc \notin Idle
  BY DEF Idle, Dropping
<1>2. PICK i : i = work[w]
  OBVIOUS
<1>3. /\ OnTrack(i) /\ OnTask(i) /\ x \in Row /\ Event(w) = x /\ x.entity \in Entities
      /\ x.entity \in LifecycleIds(x)
  BY <1>1, <1>2, InHand
<1>4. x.kind = "delete"
  <2>1. Classify(x) = "ENTITY_DELETE"
    BY <1>2, <1>3 DEF OnTask, ActionOf
  <2> QED
    BY <1>3, <2>1, AllClasses
<1> QED
  BY <1>1, <1>2, <1>3, <1>4 DEF OnTrack

LEMMA DropLossless ==
    ASSUME NEW w, WorkerMoves(w),
           \/ DeleteEntityGraph(w) \/ UnregisterEntityGraph(w)
           \/ DeleteSchemaGraph(w) \/ UnregisterSchemaGraph(w)
    PROVE  LosslessInv'
<1>1. /\ UNCHANGED <<rows, pages, rc, revisions>> /\ sync'.cursor = sync.cursor
      /\ work[w].pc \in Dropping
      /\ store \in [Entities -> Nat] /\ schemas \in [Properties -> Nat]
  BY DEF DeleteEntityGraph, UnregisterEntityGraph, DeleteSchemaGraph, UnregisterSchemaGraph, dbVars,
     storeVars, At, Dropping, WorkerMoves, SyncInv, Typed, TypeOK
<1>2. PICK i, x, e, j : i = work[w] /\ x = EventOf(i) /\ e = x.entity /\ j = work'[w]
  OBVIOUS
<1>3. /\ i.pc \notin Idle /\ x.kind = "delete" /\ e \in Entities /\ e \in LifecycleIds(x)
      /\ Event(w) = x /\ Drops(i.pc, e)
  BY <1>1, <1>2, DropInHand
<1>4. ASSUME NEW pc \in Dropping, Goto(w, pc), Drops(pc, e)', \A f \in Entities \ {e} : SameFor(f)
      PROVE  LosslessInv'
  <2>1. j.pc = pc /\ EventOf(j) = x /\ \A y \in j.page : \E z \in Seen : Like(z, y)
    BY <1>2, <1>3, <1>4, Went
  <2>2. OnTrack(j)'
    <3>1. pc \notin Tasking \cup {"resolve", "advance"}
      BY <1>4 DEF Dropping, Tasking, Editing
    <3> QED
      BY <1>2, <1>4, <2>1, <3>1 DEF OnTrack, Aims, Tasking, Editing
  <2>3. Caught(e)'
    BY <1>1, <1>2, <1>3, <2>1, CaughtMeanwhile
  <2>4. OwnRevision(e, rows[e].indexed)'
    <3>1. OwnRevision(e, rows[e].indexed)
      BY <1>3 DEF WorkerMoves, LosslessInv
    <3> QED
      BY <1>1, <3>1 DEF OwnRevision
  <2>5. OnTrack(work[w])'
    BY <1>2, <2>2
  <2>6. x.kind # "other"
    BY <1>3
  <2> HIDE DEF OnTrack, Caught, OwnRevision
  <2> QED
    BY <1>1, <1>2, <1>3, <1>4, <2>1, <2>3, <2>4, <2>5, <2>6, WriteCall
<1>5. CASE DeleteEntityGraph(w)
  <2>1. Goto(w, "unregisterEntity") /\ store' = [store EXCEPT ![e] = 0] /\ UNCHANGED <<graphs, schemas>>
    BY <1>2, <1>3, <1>5 DEF DeleteEntityGraph, dbVars
  <2>2. \A f \in Entities \ {e} : SameFor(f)
    BY <1>1, <2>1 DEF SameFor
  <2>3. Drops("unregisterEntity", e)' /\ "unregisterEntity" \in Dropping
    BY <1>1, <1>3, <2>1 DEF Drops, Dropping
  <2> QED
    BY <1>4, <2>1, <2>2, <2>3
<1>6. CASE UnregisterEntityGraph(w)
  <2>1. /\ graphs' = graphs \ {EntityGraph(e)} /\ UNCHANGED <<store, schemas>> /\ i.pc = "unregisterEntity"
        /\ Goto(w, IF e \in Properties THEN "dropSchema" ELSE "tombstone")
    BY <1>2, <1>3, <1>6 DEF UnregisterEntityGraph, storeVars, At
  <2>2. PICK pc \in {"dropSchema", "tombstone"} : Goto(w, pc) /\ (pc = "dropSchema" <=> e \in Properties)
    BY <2>1
  <2>3. \A f \in Entities \ {e} : SameFor(f)
    <3>1. \A f \in Entities \ {e} : EntityGraph(e) \notin GraphsOf(f)
      BY DEF GraphsOf, EntityGraph, SchemaGraph
    <3> QED
      BY <1>1, <2>1, <3>1 DEF SameFor
  <2>4. store[e] = 0
    BY <1>3, <2>1 DEF Drops
  <2>5. Drops(pc, e)' /\ pc \in Dropping
    BY <2>1, <2>2, <2>4 DEF Drops, Dropping
  <2> QED
    BY <1>4, <2>2, <2>3, <2>5
<1>7. CASE DeleteSchemaGraph(w)
  <2>1. /\ Goto(w, "unregisterSchema") /\ schemas' = [schemas EXCEPT ![e] = 0]
        /\ UNCHANGED <<graphs, store>> /\ i.pc = "dropSchema"
    BY <1>2, <1>3, <1>7 DEF DeleteSchemaGraph, dbVars, At
  <2>2. \A f \in Entities \ {e} : SameFor(f)
    BY <1>1, <2>1 DEF SameFor
  <2>3. store[e] = 0 /\ EntityGraph(e) \notin graphs /\ e \in Properties
    BY <1>3, <2>1 DEF Drops
  <2>4. schemas'[e] = 0
    BY <1>1, <2>1, <2>3
  <2>5. Drops("unregisterSchema", e)' /\ "unregisterSchema" \in Dropping
    BY <2>1, <2>3, <2>4 DEF Drops, Dropping
  <2> QED
    BY <1>4, <2>1, <2>2, <2>5
<1>8. CASE UnregisterSchemaGraph(w)
  <2>1. /\ Goto(w, "tombstone") /\ graphs' = graphs \ {SchemaGraph(e)}
        /\ UNCHANGED <<store, schemas>> /\ i.pc = "unregisterSchema"
    BY <1>2, <1>3, <1>8 DEF UnregisterSchemaGraph, storeVars, At
  <2>2. \A f \in Entities \ {e} : SameFor(f)
    <3>1. \A f \in Entities \ {e} : SchemaGraph(e) \notin GraphsOf(f)
      BY DEF GraphsOf, EntityGraph, SchemaGraph
    <3> QED
      BY <1>1, <2>1, <3>1 DEF SameFor
  <2>3. store[e] = 0 /\ EntityGraph(e) \notin graphs /\ e \in Properties /\ schemas[e] = 0
    BY <1>3, <2>1 DEF Drops
  <2>4. Drops("tombstone", e)' /\ "tombstone" \in Dropping
    BY <2>1, <2>3 DEF Drops, Dropping
  <2> QED
    BY <1>4, <2>1, <2>2, <2>4
<1> QED
  BY <1>5, <1>6, <1>7, <1>8

LEMMA TombstoneLossless ==
    ASSUME NEW w, WorkerMoves(w), CommitTombstone(w)
    PROVE  LosslessInv'
<1>1. PICK i, x, e : i = work[w] /\ x = EventOf(i) /\ e = x.entity
  OBVIOUS
<1>2. work[w].pc = "tombstone" /\ work[w].pc \in Dropping
  BY DEF CommitTombstone, At, Dropping
<1>3. /\ work[w].pc \notin Idle /\ x.kind = "delete" /\ e \in Entities /\ Event(w) = x
      /\ Drops("tombstone", e)
  BY <1>1, <1>2, DropInHand
<1>4. /\ x \in Seen /\ x.rcid \in Nat /\ LogInv /\ Told(x) /\ w \in Workers
  BY <1>1, <1>3, InHand
<1>5. /\ sync'.cursor = x.rcid /\ NextEvent(w)
      /\ UNCHANGED <<graphs, store, schemas, pages, rc, revisions>>
      /\ rows' = [rows EXCEPT ![e] = [work[w].row EXCEPT !.status = "DELETED"]]
  BY <1>1, <1>3 DEF CommitTombstone, MoveCursor, storeVars, WorkerMoves, SyncInv, Typed, TypeOK
<1>6. rows'[e].status = "DELETED" /\ rows'[e].indexed = rows[e].indexed
  <2>1. rows'[e] = [work[w].row EXCEPT !.status = "DELETED"] /\ work[w].row \in EntityRow
    BY <1>3, <1>4, <1>5 DEF WorkerMoves, SyncInv, Typed, TypeOK, Job
  <2>2. work[w].row.indexed = rows[e].indexed
    BY <1>1, <1>2, <1>3, <1>4 DEF WorkerMoves, FenceInv, FenceUnmoved, FenceOf
  <2> QED
    BY <2>1, <2>2 DEF EntityRow
<1>7. \A f \in Entities \ {e} : SameFor(f)
  BY <1>5 DEF SameFor, WorkerMoves, SyncInv, Typed, TypeOK
<1>8. Passed(e, x.rcid)'
  <2>1. CASE Later(e, x.rcid)
    BY <1>5, <2>1 DEF Passed, Later
  <2>2. CASE ~Later(e, x.rcid)
    <3>1. ~pages[e].exists
      BY <1>1, <1>3, <1>4, <2>2 DEF Told, Tells
    <3>2. store[e] = 0 /\ (e \in Properties => schemas[e] = 0) /\ graphs \cap GraphsOf(e) = {}
      BY <1>3 DEF Drops, GraphsOf
    <3>3. Mirrored(e)'
      BY <1>5, <1>6, <3>1, <3>2 DEF Mirrored
    <3> QED
      BY <3>3 DEF Passed
  <2> QED
    BY <2>1, <2>2
<1>9. Caught(e)'
  <2> SUFFICES ASSUME NEW v \in Seen', v.entity = e, v.rcid > x.rcid, v.rev > 0
               PROVE  \E y \in rc : /\ y.kind \in {"delete", "restore"} /\ y.entity = e
                                    /\ y.rcid > x.rcid /\ y.rcid < v.rcid
    BY <1>5 DEF Caught
  <2>1. v \in Seen
    <3>1. work'[w] = [Asleep EXCEPT !.pc = IF work[w].page \ {Event(w)} = {} THEN "poll" ELSE "event",
                                    !.page = work[w].page \ {Event(w)}]
      BY <1>5 DEF NextEvent, WorkerMoves, SyncInv, Typed, TypeOK
    <3>2. work'[w].page = work[w].page \ {Event(w)}
      BY <3>1 DEF Asleep
    <3> QED
      BY <1>5, <3>2 DEF Seen, WorkerMoves
  <2>2. Revives(x, v)
    BY <1>4, <2>1 DEF LogInv
  <2>3. RestoredBetween(x, v)
    BY <1>1, <1>3, <2>2 DEF Revives
  <2> QED
    BY <1>1, <2>3 DEF RestoredBetween
<1>10. OwnRevision(e, rows[e].indexed)'
  <2>1. OwnRevision(e, rows[e].indexed)
    BY <1>3 DEF WorkerMoves, LosslessInv
  <2> QED
    BY <1>5, <1>6, <2>1 DEF OwnRevision
<1>11. x.kind # "other"
  BY <1>3
<1> HIDE DEF Passed, Caught, OwnRevision, SameFor
<1> QED
  BY <1>1, <1>3, <1>5, <1>7, <1>8, <1>9, <1>10, <1>11, EventDone

LEMMA WorkerKeepsLossless ==
    ASSUME NEW w, Workers = {w}, SyncInv, FenceInv, LosslessInv, WorkerStep(w) \/ Reject(w) \/ Crash(w)
    PROVE  LosslessInv'
<1>1. UNCHANGED <<pages, revisions, rc, lastRcid, purged, loader>>
  BY DEF WorkerStep, Reject, Crash, LoadSource, ReadSource, MarkHealthy, Dispatch,
       ResolveLifecycle, LoadEntity, SaveGap, SaveRestoring, FetchRevision, ReplaceEntityGraph,
       RegisterEntityGraph, ReplaceSchemaGraph, RegisterSchemaGraph, VerifyGraph, SaveEntity,
       CommitEdit, AdvanceCursor, DeleteEntityGraph, UnregisterEntityGraph, DeleteSchemaGraph,
       UnregisterSchemaGraph, CommitTombstone, RebuildRequired, wikiVars
<1>2. Loaded
  <2>1. ~Crash(w) => Loaded
    BY DEF WorkerStep, Reject, LoadSource, ReadSource, MarkHealthy, Dispatch, At, Loaded,
       ResolveLifecycle, LoadEntity, SaveGap, SaveRestoring, FetchRevision, ReplaceEntityGraph,
       RegisterEntityGraph, ReplaceSchemaGraph, RegisterSchemaGraph, VerifyGraph, SaveEntity,
       CommitEdit, AdvanceCursor, DeleteEntityGraph, UnregisterEntityGraph, DeleteSchemaGraph,
       UnregisterSchemaGraph, CommitTombstone, RebuildRequired
  <2>2. Crash(w) => Loaded
    BY AsleepJob DEF Crash, FenceInv, AsleepBefore
  <2> QED
    BY <2>1, <2>2
<1>3. SyncInv'
  BY WorkerKeeps
<1>4. CASE purged
  BY <1>1, <1>4 DEF LosslessInv
<1>5. CASE ~purged
  <2>1. WorkerMoves(w)
    BY <1>1, <1>2, <1>3, <1>5 DEF WorkerMoves
  <2> QED
    BY <2>1, RestLossless, DispatchLossless, ResolveLossless, LoadEntityLossless, CheckLossless,
       StatusLossless, GraphLossless, SaveEntityLossless, CommitLossless, DropLossless,
       TombstoneLossless DEF WorkerStep
<1> QED
  BY <1>4, <1>5

LEMMA SameLossless ==
    ASSUME LosslessInv, UNCHANGED vars
    PROVE  LosslessInv'
<1>1. UNCHANGED <<pages, revisions, rc, lastRcid, purged, sync, rows, graphs, store, schemas, loader, work>>
  BY DEF vars, wikiVars, dbVars, storeVars
<1>2. Seen' = Seen
  BY <1>1 DEF Seen
<1>3. ASSUME NEW e \in Entities, UNCHANGED Seen
      PROVE  /\ Passed(e, sync.cursor)' = Passed(e, sync.cursor) /\ Caught(e)' = Caught(e)
             /\ OwnRevision(e, rows[e].indexed)' = OwnRevision(e, rows[e].indexed)
             /\ BootFollows(e)' = BootFollows(e)
  <2>1. /\ \A n : Later(e, n)' = Later(e, n)
        /\ Mirrored(e)' = Mirrored(e) /\ Clean(e)' = Clean(e)
    BY <1>1, Zenon DEF Later, Mirrored, Clean
  <2>2. /\ Passed(e, sync.cursor)' = Passed(e, sync.cursor) /\ Caught(e)' = Caught(e)
        /\ OwnRevision(e, rows[e].indexed)' = OwnRevision(e, rows[e].indexed)
    BY <1>1, <1>3, Zenon DEF Passed, Caught, OwnRevision, Later, Mirrored, Clean
  <2>3. BootFollows(e)' = BootFollows(e)
    BY <1>1, <1>3, Zenon DEF BootFollows, Later, OwnRevision, Passed, Caught, Mirrored, Clean
  <2> QED
    BY <2>2, <2>3
<1>4. LogInv => LogInv'
  <2>1. \A x \in Seen' : \E y \in Seen : Like(y, x)
    BY <1>2 DEF Like
  <2> QED
    BY <1>1, <2>1, LogKept
<1>5. \A w \in Workers : OnTrack(work[w]) => OnTrack(work[w])'
  <2> SUFFICES ASSUME NEW w \in Workers, OnTrack(work[w])
               PROVE  OnTrack(work[w])'
    OBVIOUS
  <2>1. PICK j : j = work[w]
    OBVIOUS
  <2>2. ASSUME NEW x, Handled(x)
        PROVE  Handled(x)'
    BY <1>1, <2>2 DEF Handled, Passed, Later, Mirrored, Clean
  <2>3. ASSUME NEW t, NEW x, UpToDate(t, x)
        PROVE  UpToDate(t, x)'
    BY <1>1, <2>3 DEF UpToDate, Later
  <2>4. Aims(j) => Aims(j)'
    BY <2>2, <2>3 DEF Aims
  <2>5. /\ \A pc, x, t : WritesTask(pc, x, t) => WritesTask(pc, x, t)'
        /\ \A pc, e : Drops(pc, e) => Drops(pc, e)'
    BY <1>1 DEF WritesTask, OwnRevision, Drops
  <2>6. OnTrack(j)'
    BY <2>1, <2>4, <2>5 DEF OnTrack
  <2> QED
    BY <1>1, <2>1, <2>6
<1>6. Loaded' = Loaded
  BY <1>1 DEF Loaded
<1> HIDE DEF LogInv, Passed, Caught, OwnRevision, BootFollows, OnTrack
<1> QED
  BY <1>1, <1>2, <1>3, <1>4, <1>5, <1>6 DEF LosslessInv, Following

LEMMA LosslessInit == Init => LosslessInv
<1> SUFFICES ASSUME Init PROVE LosslessInv
  OBVIOUS
<1>1. PICK none : none = << >> /\ DOMAIN none = {}
  BY EmptyDump
<1>2. /\ loader = [pc |-> "capture", dump |-> none] /\ rows = [e \in Entities |-> Unindexed]
      /\ graphs = {} /\ rc = {} /\ work = [w \in Workers |-> Asleep]
  BY <1>1 DEF Init
<1>3. loader.pc = "capture" /\ DOMAIN loader.dump = {} /\ ~Loaded
  BY <1>1, <1>2 DEF Loaded
<1>4. \A e \in Entities : rows[e].status # "CURRENT" /\ rows[e].indexed = 0
  BY <1>2 DEF Unindexed
<1>5. Seen = {}
  BY <1>2, AsleepJob DEF Seen
<1>6. LogInv
  BY <1>2, <1>5 DEF LogInv
<1>7. \A e \in Entities : OwnRevision(e, rows[e].indexed)
  BY <1>4 DEF OwnRevision
<1>8. \A e \in Entities : BootFollows(e)
  BY <1>2, <1>3, <1>4 DEF BootFollows
<1> QED
  BY <1>3, <1>6, <1>7, <1>8 DEF LosslessInv

LEMMA LosslessStep ==
    ASSUME NEW w, Workers = {w}, SyncInv, FenceInv, BackedInv, LosslessInv, [Next]_vars
    PROVE  LosslessInv'
<1>1. CASE UNCHANGED vars
  BY <1>1, SameLossless
<1>2. CASE WikiNext /\ UNCHANGED <<dbVars, storeVars, loader, work, faults>>
  BY <1>2, WikiKeepsLossless
<1>3. CASE LoaderNext \/ LoaderDies
  BY <1>3, LoaderKeepsLossless
<1>4. CASE WorkerStep(w) \/ Reject(w) \/ Crash(w)
  BY <1>4, WorkerKeepsLossless
<1> QED
  BY <1>1, <1>2, <1>3, <1>4 DEF Next

\* No event is lost: an entity with no row ahead of the cursor has exactly the
\* graph, the schema, the registry entries and the fence its page calls for, as
\* long as the wiki keeps its change rows.  From the cursor captured before the
\* dump to the calls of pollOnce, processEvent, #edit, #lifecycle and #delete and
\* the commits of commitEvent, through every crash, rejected call and retry, for
\* one worker (sync-engine.js, rdf-sync-worker/src/runtime.js).
THEOREM NoEventIsLost == OneWorker => (SyncSpec => []NothingIsLost)
<1> SUFFICES ASSUME OneWorker
             PROVE  SyncSpec => []NothingIsLost
  OBVIOUS
<1> PICK w : Workers = {w}
  BY DEF OneWorker
<1>1. Init => SyncInv /\ FenceInv /\ BackedInv /\ LosslessInv
  BY SyncInvInit, FenceInit, BackedInit, LosslessInit
<1>2. SyncInv /\ FenceInv /\ BackedInv /\ LosslessInv /\ [Next]_vars
         => (SyncInv /\ FenceInv /\ BackedInv /\ LosslessInv)'
  BY FenceAndSyncStep, BackedStep, LosslessStep
<1>3. LosslessInv => NothingIsLost
  <2> SUFFICES ASSUME LosslessInv, Loaded, ~purged, NEW e \in Entities
               PROVE  Ahead(e) \/ pages[e].redirect # None \/ Mirrored(e)
    BY DEF NothingIsLost
  <2>1. Passed(e, sync.cursor)
    BY DEF LosslessInv, Following
  <2>2. Later(e, sync.cursor) => Ahead(e)
    BY DEF Later, About, Ahead, LifecycleIds
  <2> QED
    BY <2>1, <2>2 DEF Passed
<1> QED
  BY <1>1, <1>2, <1>3, PTL DEF SyncSpec

=============================================================================

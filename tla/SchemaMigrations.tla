-------------------------- MODULE SchemaMigrations --------------------------
(***************************************************************************)
(* The database schema: jwb-migrate-cli runs the migration files of its    *)
(* image, in the order of their numbers, under a session's advisory lock;  *)
(* the status command, which takes no lock, is what a bootstrap waits for, *)
(* and the row of the last file what a coordinator waits for.              *)
(*                                                                         *)
(* An image is a function from file numbers to the files' checksums.       *)
(* Images of several releases meet one database.                           *)
(***************************************************************************)
EXTENDS Integers, Sequences, FiniteSets

CONSTANTS Images,     \* those that are deployed
          Sessions,   \* processes that can be connected at the same time
          MaxUps      \* bound on the runs of up and dry-run

\* An image has a last file; a release numbers its new files after the last one
\* of the release before, and may drop no file.
ASSUME MigrationAssumption ==
    /\ Images # {}
    /\ \A image \in Images : /\ DOMAIN image \subseteq Nat
                             /\ \E f \in DOMAIN image : \A g \in DOMAIN image : g <= f
    /\ \A image, other \in Images : \A f \in DOMAIN image \cap DOMAIN other :
           \A g \in DOMAIN image : g < f => g \in DOMAIN other
    /\ "none" \notin Sessions
    /\ MaxUps \in Nat

VARIABLES table,    \* whether there is a table schema_migrations
          ledger,   \* its rows: file -> checksum
          schema,   \* the files that were executed, with the image they came from
          lock,     \* the session that holds the advisory lock
          session,  \* what each process is doing
          waited,   \* images whose bootstrap found nothing pending
          ups       \* runs of up and dry-run so far

migrationVars == <<table, ledger, schema, lock, session, waited, ups>>

NoSession == "none"
Applied == DOMAIN ledger

Unconnected(outcome) ==
    [pc |-> "none", command |-> "status", image |-> CHOOSE i \in Images : TRUE,
     pending |-> {}, outcome |-> outcome]

SessionAt(m, pc) == session[m].pc = pc
Does(m, pc) == session' = [session EXCEPT ![m].pc = pc]
First(files) == CHOOSE f \in files : \A g \in files : f <= g
LastFile(image) == CHOOSE f \in DOMAIN image : \A g \in DOMAIN image : g <= f

\* migrationStatus of one file.
FileState(image, f) ==
    CASE f \notin Applied -> "pending"
      [] f \in Applied /\ ledger[f] = image[f] -> "applied"
      [] f \in Applied /\ ledger[f] # image[f] -> "checksum_mismatch"

Files(image, state) == {f \in DOMAIN image : FileState(image, f) = state}

\* The session ends, and its lock with it.
Disconnect(m, outcome) ==
    /\ session' = [session EXCEPT ![m] = Unconnected(outcome)]
    /\ lock' = IF lock = m THEN NoSession ELSE lock

-----------------------------------------------------------------------------
\* up and dry-run take the lock first; status, run again and again by the
\* bootstrap of the image, does not.
Connect(m, command, image) ==
    /\ SessionAt(m, "none")
    /\ command # "status" => ups < MaxUps
    /\ ups' = IF command = "status" THEN ups ELSE ups + 1
    /\ session' = [session EXCEPT ![m] =
                      [Unconnected("running") EXCEPT !.command = command, !.image = image,
                           !.pc = IF command = "status" THEN "table" ELSE "lock"]]
    /\ UNCHANGED <<table, ledger, schema, lock, waited>>

\* Mutant: the lock is not waited for.
TakeLock_Shared(m) ==
    /\ SessionAt(m, "lock")
    /\ lock' = m
    /\ Does(m, "table")
    /\ UNCHANGED <<table, ledger, schema, waited, ups>>

TakeLock(m) ==
    /\ SessionAt(m, "lock") /\ lock = NoSession
    /\ lock' = m
    /\ Does(m, "table")
    /\ UNCHANGED <<table, ledger, schema, waited, ups>>

\* CREATE TABLE IF NOT EXISTS: two sessions that both found no table collide in
\* the catalog, and the one that comes second may fail.
LookForTable(m) ==
    /\ SessionAt(m, "table")
    /\ Does(m, IF table THEN "read" ELSE "create")
    /\ UNCHANGED <<table, ledger, schema, lock, waited, ups>>

CreateTable(m) ==
    /\ SessionAt(m, "create")
    /\ table' = TRUE
    /\ \/ Does(m, "read") /\ UNCHANGED lock
       \/ table /\ Disconnect(m, "collided")
    /\ UNCHANGED <<ledger, schema, waited, ups>>

\* status: the bootstrap goes on as soon as no file is pending.
ReportStatus(m) ==
    /\ SessionAt(m, "read") /\ session[m].command = "status"
    /\ waited' = IF Files(session[m].image, "pending") = {}
                 THEN waited \cup {session[m].image} ELSE waited
    /\ Disconnect(m, "done")
    /\ UNCHANGED <<table, ledger, schema, ups>>

\* All checksums are compared before the first file runs; a dry run stops here.
ReadLedger(m) ==
    /\ SessionAt(m, "read") /\ session[m].command # "status"
    /\ LET image == session[m].image
       IN  \/ /\ Files(image, "checksum_mismatch") # {}
              /\ Disconnect(m, "mismatch")
           \/ /\ Files(image, "checksum_mismatch") = {}
              /\ session[m].command = "dry-run"
              /\ Disconnect(m, "done")
           \/ /\ Files(image, "checksum_mismatch") = {}
              /\ session[m].command = "up"
              /\ session' = [session EXCEPT ![m].pc = "run", ![m].pending = Files(image, "pending")]
              /\ UNCHANGED lock
    /\ UNCHANGED <<table, ledger, schema, waited, ups>>

\* One transaction for the file's statements and its row.  What another session
\* has executed meanwhile makes it fail, and the whole run with it.
RunFile(m) ==
    /\ SessionAt(m, "run") /\ session[m].pending # {}
    /\ LET f == First(session[m].pending)
           image == session[m].image
       IN  IF f \in Applied
           THEN Disconnect(m, "conflict") /\ UNCHANGED <<ledger, schema>>
           ELSE /\ schema' = Append(schema, [file |-> f, image |-> image])
                /\ ledger' = [g \in Applied \cup {f} |-> IF g = f THEN image[f] ELSE ledger[g]]
                /\ session' = [session EXCEPT ![m].pending = @ \ {f}]
                /\ UNCHANGED lock
    /\ UNCHANGED <<table, waited, ups>>

Unlock(m) ==
    /\ SessionAt(m, "run") /\ session[m].pending = {}
    /\ Disconnect(m, "done")
    /\ UNCHANGED <<table, ledger, schema, waited, ups>>

\* The process is killed or loses its connection; an open transaction is rolled
\* back before the lock is free.
SessionLost(m) ==
    /\ ~SessionAt(m, "none")
    /\ Disconnect(m, "lost")
    /\ UNCHANGED <<table, ledger, schema, waited, ups>>

-----------------------------------------------------------------------------
\* verifyCoordinatorSchema: the last file's row with this image's checksum, and
\* what that file creates.
CoordinatorReady(image) ==
    /\ LastFile(image) \in Files(image, "applied")
    /\ \E i \in DOMAIN schema : schema[i].file = LastFile(image)

MigrationInit ==
    /\ table = FALSE /\ ledger = << >> /\ schema = <<>> /\ lock = NoSession
    /\ session = [m \in Sessions |-> Unconnected("none")]
    /\ waited = {} /\ ups = 0

MigrationNext ==
    \E m \in Sessions :
        \/ \E image \in Images : \E command \in {"up", "dry-run", "status"} : Connect(m, command, image)
        \/ TakeLock(m) \/ LookForTable(m) \/ CreateTable(m) \/ ReportStatus(m)
        \/ ReadLedger(m) \/ RunFile(m) \/ Unlock(m) \/ SessionLost(m)

MigrationSpec == MigrationInit /\ [][MigrationNext]_migrationVars

-----------------------------------------------------------------------------
\* Every file was executed once, the table says what was executed, no file ran
\* after a file of a higher number or an altered one that its own image has, no
\* run ever meets another one's work, and whoever starts because nothing is
\* pending or because the last file is there finds every file of its image
\* (migrate, migrationStatus, verifyCoordinatorSchema).
SchemaFollowsFiles ==
    /\ Len(schema) = Cardinality(Applied)
    /\ \A i \in DOMAIN schema :
           LET here == schema[i]
           IN  /\ here.file \in Applied /\ ledger[here.file] = here.image[here.file]
               /\ \A j \in 1..(i - 1) :
                      LET before == schema[j]
                      IN  /\ before.file \in DOMAIN here.image =>
                                 before.image[before.file] = here.image[before.file]
                          /\ here.file \in DOMAIN before.image => before.file < here.file
    /\ \A m \in Sessions : session[m].outcome # "conflict"
    /\ \A image \in waited \cup {i \in Images : CoordinatorReady(i)} : DOMAIN image \subseteq Applied

=============================================================================

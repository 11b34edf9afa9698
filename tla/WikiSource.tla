----------------------------- MODULE WikiSource -----------------------------
(***************************************************************************)
(* The wiki a sync worker follows, as far as the code in src/ can see it:  *)
(* current pages, revision ids and the RecentChanges table.  MediaWiki is  *)
(* not under src/; its behaviour is taken from how the code uses it and    *)
(* from what docs/operations/japan-wikibase-m4.md observed of it (deleting *)
(* a page removes its edit rows; the redirect flag is the current state).  *)
(*                                                                         *)
(* The operators below the external actions are the code's own: the reader *)
(* of the change stream, the classification of its rows, the exact         *)
(* revision fetch and the lifecycle resolver.                              *)
(***************************************************************************)
EXTENDS Integers, Sequences, FiniteSets, SequencesExt, FiniteSetsExt

CONSTANTS Entities,     \* Item and Property ids
          Properties,   \* those that are Properties
          None,         \* null
          PageSize,     \* rclimit and batchSize
          WikiOps,      \* what users and administrators of the wiki do
          MaxRows       \* bound on the rows RecentChanges ever held

ASSUME SourceAssumption ==
    /\ Properties \subseteq Entities
    /\ IsFiniteSet(Entities) /\ Entities # {}
    /\ None \notin Entities
    /\ PageSize \in Nat \ {0}
    /\ MaxRows \in Nat

VARIABLES pages,     \* entity -> current page
          revisions, \* revisions[r] is the entity that owns revision r
          rc,        \* the rows of RecentChanges, ordered by their rcid
          lastRcid,  \* rcid of the newest row ever written
          purged     \* whether the retention boundary has passed some row

wikiVars == <<pages, revisions, rc, lastRcid, purged>>

RowKinds == {"edit", "delete", "restore", "merge", "redirect", "protect", "other"}

Row == [rcid : Nat, kind : RowKinds, entity : Entities, rev : Nat, old : Nat,
        mentions : SUBSET Entities, redirect : BOOLEAN]

Page == [rev : Nat, exists : BOOLEAN, redirect : Entities \cup {None}]

WikiTypeOK ==
    /\ pages \in [Entities -> Page]
    /\ revisions \in Seq(Entities)
    /\ rc \subseteq Row
    /\ lastRcid \in Nat
    /\ purged \in BOOLEAN

-----------------------------------------------------------------------------
\* External: the wiki.

Editable(e) == pages[e].redirect = None /\ (pages[e].exists \/ pages[e].rev = 0)

NewRow(n, kind, e, rev, old, mentions) ==
    [rcid |-> lastRcid + n, kind |-> kind, entity |-> e, rev |-> rev, old |-> old,
     mentions |-> mentions, redirect |-> FALSE]

\* The n new rows appear together.
Publish(n, rows) == /\ lastRcid + n <= MaxRows
                    /\ rc' = rc \cup rows
                    /\ lastRcid' = lastRcid + n

Oldest(rows) == CHOOSE row \in rows : \A other \in rows : row.rcid <= other.rcid

NextRev == Len(revisions) + 1

\* A new revision of e, creating the page if it never existed.
EditPage(e) ==
    /\ "edit" \in WikiOps
    /\ Editable(e)
    /\ Publish(1, {NewRow(1, "edit", e, NextRev, pages[e].rev, {})})
    /\ revisions' = Append(revisions, e)
    /\ pages' = [pages EXCEPT ![e] = [rev |-> NextRev, exists |-> TRUE, redirect |-> None]]
    /\ UNCHANGED purged

\* Deleting a page removes its revision rows from RecentChanges; the log row
\* (with revid 0) stays.
DeletePage(e) ==
    /\ "delete" \in WikiOps
    /\ pages[e].exists
    /\ lastRcid < MaxRows
    /\ lastRcid' = lastRcid + 1
    /\ rc' = {row \in rc : row.entity # e \/ row.rev = 0} \cup {NewRow(1, "delete", e, 0, 0, {})}
    /\ pages' = [pages EXCEPT ![e] = [@ EXCEPT !.exists = FALSE]]
    /\ UNCHANGED <<revisions, purged>>

\* Restoring it brings back its revisions, not their rows.
UndeletePage(e) ==
    /\ "undelete" \in WikiOps
    /\ pages[e].rev > 0
    /\ ~pages[e].exists
    /\ Publish(1, {NewRow(1, "restore", e, 0, 0, {})})
    /\ pages' = [pages EXCEPT ![e] = [@ EXCEPT !.exists = TRUE]]
    /\ UNCHANGED <<revisions, purged>>

\* wbmergeitems: both items get a revision, then the source becomes a redirect.
MergeItems(from, to) ==
    /\ "merge" \in WikiOps
    /\ from # to
    /\ {from, to} \cap Properties = {}
    /\ \A e \in {from, to} : pages[e].exists /\ pages[e].redirect = None
    /\ Publish(3, {NewRow(1, "merge", from, NextRev, pages[from].rev, {to}),
                   NewRow(2, "merge", to, NextRev + 1, pages[to].rev, {from}),
                   NewRow(3, "redirect", from, NextRev + 2, NextRev, {})})
    /\ revisions' = revisions \o <<from, to, from>>
    /\ pages' = [pages EXCEPT ![from] = [rev |-> NextRev + 2, exists |-> TRUE, redirect |-> to],
                              ![to] = [@ EXCEPT !.rev = NextRev + 1]]
    /\ UNCHANGED purged

\* A log entry about an entity's page that is none of delete, restore, merge.
ProtectPage(e) ==
    /\ "protect" \in WikiOps
    /\ pages[e].exists
    /\ Publish(1, {NewRow(1, "protect", e, 0, 0, {})})
    /\ UNCHANGED <<pages, revisions, purged>>

\* A row that names no entity (its field entity stands for nothing).
OtherChange ==
    /\ "other" \in WikiOps
    /\ Publish(1, {NewRow(1, "other", CHOOSE e \in Entities : TRUE, 0, 0, {})})
    /\ UNCHANGED <<pages, revisions, purged>>

\* The retention job removes the oldest row (bounded to once).
ExpireRow ==
    /\ "expire" \in WikiOps
    /\ ~purged
    /\ rc # {}
    /\ rc' = rc \ {Oldest(rc)}
    /\ purged' = TRUE
    /\ UNCHANGED <<pages, revisions, lastRcid>>

WikiNext ==
    \/ \E e \in Entities : EditPage(e) \/ DeletePage(e) \/ UndeletePage(e) \/ ProtectPage(e)
    \/ \E from, to \in Entities : MergeItems(from, to)
    \/ OtherChange
    \/ ExpireRow

-----------------------------------------------------------------------------
\* The change source, fetcher and resolver.

\* read: the next rows strictly after the cursor, at most PageSize of them.
\* The flag redirect tells what the page is now, not what the row did.
NextRows(ahead) ==
    {[row EXCEPT !.redirect = pages[row.entity].redirect # None] :
        row \in {next \in ahead :
                    Cardinality({other \in ahead : other.rcid < next.rcid}) < PageSize}}

\* Mutant: the filter compares with the row after the cursor.
ReadChanges_SkipsOne(cursor) == NextRows({row \in rc : row.rcid > cursor + 1})

ReadChanges(cursor) == NextRows({row \in rc : row.rcid > cursor})

\* classifyChange.  A plain edit row of what is a redirect now is ambiguous.
Classify(row) ==
    CASE row.kind = "other"    -> "NON_ENTITY_CHANGE"
      [] row.kind = "delete"   -> "ENTITY_DELETE"
      [] row.kind = "restore"  -> "ENTITY_UNDELETE"
      [] row.kind = "redirect" -> "ENTITY_REDIRECT"
      [] row.kind = "merge"    -> "ENTITY_MERGE"
      [] row.kind = "protect" \/ (row.kind = "edit" /\ row.redirect)  -> "UNKNOWN"
      [] row.kind = "edit" /\ ~row.redirect -> "ENTITY_EDIT"

\* fetch: the exact revision is served when it belongs to this entity's page,
\* the page exists and is not behind it, and the revision has content of its own.
Fetchable(e, r) ==
    /\ r \in 1..Len(revisions)
    /\ revisions[r] = e
    /\ pages[e].exists
    /\ pages[e].rev >= r
    /\ ~(pages[e].redirect # None /\ r = pages[e].rev)

\* resolve: the entities a lifecycle row is about, each with the latest
\* revision of the page it resolves to; {} when the code calls it ambiguous.
Canonical(e) == IF pages[e].redirect = None THEN e ELSE pages[e].redirect

LifecycleIds(row) == {row.entity} \cup row.mentions

Resolve(row) ==
    IF /\ row.kind = "merge" => Cardinality(LifecycleIds(row)) = 2
       /\ \A e \in LifecycleIds(row) : pages[e].exists /\ pages[Canonical(e)].exists
    THEN {[entity |-> e, rev |-> pages[Canonical(e)].rev] : e \in LifecycleIds(row)}
    ELSE {}

=============================================================================

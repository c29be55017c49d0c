------------------------------ MODULE FileStore ------------------------------
(***************************************************************************)
(* Deduplicated storage of one user's files: the storage objects, file     *)
(* records and deletions of app/services/file_service.py, as the merge and *)
(* replacement handlers of app/api/v1 and the workers' _register_result    *)
(* use them, and _cleanup_orphan_objects of app/tasks/cleanup_tasks.py.    *)
(*                                                                         *)
(* Two stores have to agree: rows in PostgreSQL, changed by transactions   *)
(* (READ COMMITTED; row locks from a flush to the commit), and blobs in    *)
(* MinIO, changed at once and for good.  A transaction here is a sequence  *)
(* of steps: what it read, its blob operations, its flush (Record, with    *)
(* the locks and the checks of the foreign keys) and its commit.           *)
(*                                                                         *)
(* A content stands for a (SHA-256, size) pair.  storage_used, chunks,     *)
(* links to tasks and thumbnails are left out.                             *)
(***************************************************************************)
EXTENDS Integers, FiniteSets

CONSTANTS
  Content,   \* different file contents
  File,      \* ids of rows of table files; each is given once
  Client,    \* concurrent API requests: merge, replace/complete, delete
  Worker,    \* workers that register the files a run produced
  Quiet,     \* TRUE: _cleanup_orphan_objects runs while nobody else is at work
  MaxIds,    \* bound: storage object rows ever inserted
  MaxAborts, \* bound: transactions that fail, or whose process dies
  None

\* What a session may have in memory.
Memory ==
  [path: {"upload", "register", "replace", "delete"}, content: Content, id: 0..MaxIds,
   seen: BOOLEAN, created: BOOLEAN, file: File \cup {None}, old: Content \cup {None},
   oldId: 0..MaxIds, marks: SUBSET [content: Content, pending: BOOLEAN], adds: BOOLEAN]

ASSUME StoreAssumption ==
  /\ Quiet \in BOOLEAN /\ MaxIds \in Nat /\ MaxAborts \in Nat
  /\ Client \cap Worker = {}
  /\ None \notin Content \cup File \cup Memory

VARIABLES
  object,  \* table storage_objects, by content (its unique index)
  ids,     \* the last id given to a storage object
  file,    \* table files
  blob,    \* contents whose object key exists in MinIO
  pc, mem, \* requests and workers: next step, what the session has in memory
  cpc, cur, todo, kept, gone, \* the cleanup: next step, object at hand, objects
           \* to look at, flushed changes: objects taken off the list and deleted
  aborts

tables  == <<object, ids, file>>
users   == <<pc, mem>>
cleanup == <<cpc, cur, todo, kept, gone>>
vars    == <<tables, blob, users, cleanup, aborts>>

User == Client \cup Worker

NoRow == [id |-> 0, pending |-> FALSE]
NoFile == [content |-> None, id |-> 0, state |-> "none", uploaded |-> FALSE]

Init ==
  /\ object = [c \in Content |-> NoRow] /\ ids = 0
  /\ file = [f \in File |-> NoFile]
  /\ blob = {}
  /\ pc = [u \in User |-> "idle"] /\ mem = [u \in User |-> None]
  /\ cpc = "idle" /\ cur = None /\ todo = {} /\ kept = {} /\ gone = {}
  /\ aborts = 0

-----------------------------------------------------------------------------
(* Rows and locks *)

\* Mutant: deleted records count as references, too.
Others_AnyState(f, id) == {g \in File \ {f} : file[g].state # "none" /\ file[g].id = id}

\* References to an object, those of record f aside.
Others(f, id) == {g \in File \ {f} : file[g].state = "live" /\ file[g].id = id}

Live(c) == {f \in File : file[f].state = "live" /\ file[f].content = c}

\* The transactions that are flushed and not committed.
Flushed == {u \in User : pc[u] = "commit"}

\* Who has a lock on the object row of c for an UPDATE, and for a reference to it
\* (the foreign key of an inserted or changed file; compatible with an UPDATE).
Updates(c) == {u \in Flushed : \E p \in mem[u].marks : p.content = c}
Refers(c)  == {u \in Flushed : mem[u].content = c /\ (mem[u].adds \/ mem[u].path = "replace")}

\* Who has a lock on the row of file f: against its deletion, and for an UPDATE.
Holds(f)   == {u \in Flushed : mem[u].file = f}
Changes(f) == {u \in Holds(f) : mem[u].path \in {"replace", "delete"}}

\* The uncommitted row of a storage object blocks another one with its key.
Inserts(c) == {u \in User : mem[u] # None /\ mem[u].content = c /\ mem[u].created}

May == Quiet => cpc = "idle"

When(b, S) == IF b THEN S ELSE {}

Goes(u, step, m) ==
  /\ pc'  = [pc EXCEPT ![u] = step]
  /\ mem' = [mem EXCEPT ![u] = m]

Ends(u) == Goes(u, "idle", None)

Mark(c, p) == [content |-> c, pending |-> p]

-----------------------------------------------------------------------------
(* Storing a content: merge_chunks, create_record_from_path *)

\* What a session keeps of content c and, if it changes a record, of that one.
Session(path, c, f, old) ==
  [path |-> path, content |-> c, id |-> object[c].id, seen |-> object[c].pending,
   created |-> FALSE, file |-> f, old |-> old,
   oldId |-> IF old = None THEN 0 ELSE object[old].id, marks |-> {}, adds |-> FALSE]

\* find_storage_object: an object that exists is reused.
Begins(u, m) ==
  /\ object[m.content] = NoRow => ids + Cardinality({v \in User : pc[v] = "insert"}) < MaxIds
  /\ Goes(u, IF object[m.content] = NoRow THEN "insert" ELSE "check", m)

\* A request merges an upload; a worker registers a result.
Store(u, c) ==
  /\ pc[u] = "idle" /\ May
  /\ Cardinality({f \in File : file[f].state = "none"}) >
       Cardinality({v \in User : mem[v] # None /\ mem[v].path \in {"upload", "register"}})
  /\ Begins(u, Session(IF u \in Client THEN "upload" ELSE "register", c, None, None))
  /\ UNCHANGED <<tables, blob, cleanup, aborts>>

\* A request replaces the content of a result; the upload has referred to the
\* result since its init.
Replace(u, c, f) ==
  /\ u \in Client /\ pc[u] = "idle" /\ May
  /\ file[f].state = "live"
  /\ file' = [file EXCEPT ![f].uploaded = TRUE]
  /\ Begins(u, Session("replace", c, f, file[f].content))
  /\ UNCHANGED <<object, ids, blob, cleanup, aborts>>

\* get_or_create_storage_object inserts a row, unless somebody else did meanwhile:
\* then the unique index makes the transaction fail.
Insert(u) ==
  /\ pc[u] = "insert"
  /\ LET c == mem[u].content
     IN  /\ Inserts(c) = {} /\ c \notin gone
         /\ IF object[c] # NoRow
              THEN Ends(u) /\ UNCHANGED ids
              ELSE /\ ids' = ids + 1
                   /\ Goes(u, "put", [mem[u] EXCEPT !.created = TRUE, !.id = ids'])
  /\ UNCHANGED <<object, file, blob, cleanup, aborts>>

\* Mutant: an object that has a row is taken to have a blob.
Check_TrustsRow(u) ==
  /\ pc[u] = "check"
  /\ pc' = [pc EXCEPT ![u] = "record"]
  /\ UNCHANGED <<tables, blob, mem, cleanup, aborts>>

\* storage.exists
Check(u) ==
  /\ pc[u] = "check"
  /\ pc' = [pc EXCEPT ![u] = IF mem[u].content \in blob THEN "record" ELSE "put"]
  /\ UNCHANGED <<tables, blob, mem, cleanup, aborts>>

\* storage.upload_file
Put(u) ==
  /\ pc[u] = "put"
  /\ blob' = blob \cup {mem[u].content}
  /\ pc' = [pc EXCEPT ![u] = "record"]
  /\ UNCHANGED <<tables, mem, cleanup, aborts>>

-----------------------------------------------------------------------------
(* The flush and the commit *)

\* delete_file of a record, loaded together with its object.
Delete(u, f) ==
  /\ u \in Client /\ pc[u] = "idle" /\ May
  /\ file[f].state = "live"
  /\ Goes(u, "record", Session("delete", file[f].content, f, None))
  /\ UNCHANGED <<tables, blob, cleanup, aborts>>

\* Changes of pending_delete: set on an object that no other record refers to,
\* cleared on one that is reused.  The ORM writes a flag only if it differs from the
\* one it loaded; a replaced result's old object is loaded only now.
MarksOf(m) ==
  IF m.path = "delete"
    THEN When(~m.seen /\ Others(m.file, m.id) = {}, {Mark(m.content, TRUE)})
    ELSE When(m.seen, {Mark(m.content, FALSE)}) \cup
         When(/\ m.path = "replace" /\ m.oldId # m.id
              /\ object[m.old] = [id |-> m.oldId, pending |-> FALSE]
              /\ Others(m.file, m.oldId) = {}, {Mark(m.old, TRUE)})

\* What is flushed: a merge whose content a live record has already is attached to
\* that record, the others insert a record of their own, or change one.
Flushes(m) ==
  LET marked == [m EXCEPT !.marks = MarksOf(m)]
  IN  CASE m.path \in {"delete", "replace"}                    -> {marked}
        [] m.path = "upload" /\ Live(m.content) # {}           ->
             {[marked EXCEPT !.file = f] : f \in Live(m.content)}
        [] OTHER                                               -> {[marked EXCEPT !.adds = TRUE]}

NeedsObject(m) == m.adds \/ m.path = "replace"
ChangesFile(m) == m.path \in {"replace", "delete"}

\* Locks the flush of m waits for.
Waits(m) ==
  \/ \E p \in m.marks : Updates(p.content) # {} \/ p.content \in kept \cup gone
  \/ NeedsObject(m) /\ m.content \in gone
  \/ ChangesFile(m) /\ (Changes(m.file) # {} \/
                        (file[m.file].state = "deleted" /\ file[m.file].content \in gone))

\* A row it updates or refers to is there no more.
Stale(m) ==
  \/ ~m.created /\ object[m.content].id # m.id
       /\ (NeedsObject(m) \/ \E p \in m.marks : p.content = m.content)
  \/ ChangesFile(m) /\ file[m.file].state = "gone"

\* db.flush
Record(u) ==
  /\ pc[u] = "record"
  /\ \E m \in Flushes(mem[u]) :
       /\ ~Waits(m)
       /\ IF Stale(m) THEN Ends(u) ELSE Goes(u, "commit", m)
  /\ UNCHANGED <<tables, blob, cleanup, aborts>>

\* db.commit
Commit(u) ==
  /\ pc[u] = "commit"
  /\ LET m == mem[u]
     IN  /\ object' = [c \in Content |->
               IF c = m.content /\ m.created THEN [id |-> m.id, pending |-> FALSE]
               ELSE IF \E p \in m.marks : p.content = c
                 THEN [object[c] EXCEPT !.pending = Mark(c, TRUE) \in m.marks]
               ELSE object[c]]
         /\ \E f \in IF m.adds THEN {g \in File : file[g].state = "none"} ELSE {m.file} :
              file' = [file EXCEPT ![f] =
                CASE m.path = "delete"  -> [@ EXCEPT !.state = "deleted"]
                  [] m.path = "replace" -> [@ EXCEPT !.content = m.content, !.id = m.id]
                  [] m.adds             -> [content |-> m.content, id |-> m.id, state |-> "live",
                                            uploaded |-> m.path = "upload"]
                  [] OTHER              -> [@ EXCEPT !.uploaded = TRUE]]
  /\ Ends(u)
  /\ UNCHANGED <<ids, blob, cleanup, aborts>>

\* The transaction fails or its process dies: rolled back, except for the blobs.
Abort(u) ==
  /\ pc[u] # "idle"
  /\ aborts < MaxAborts /\ aborts' = aborts + 1
  /\ Ends(u)
  /\ UNCHANGED <<tables, blob, cleanup>>

-----------------------------------------------------------------------------
(* _cleanup_orphan_objects: one transaction for all the objects on the list *)

CleanEnds == cpc' = "idle" /\ cur' = None /\ todo' = {} /\ kept' = {} /\ gone' = {}

CleanLoad ==
  /\ cpc = "idle"
  /\ Quiet => \A u \in User : pc[u] = "idle"
  /\ \E c \in Content : object[c].pending
  /\ todo' = {c \in Content : object[c].pending}
  /\ cpc' = "count"
  /\ UNCHANGED <<tables, blob, users, cur, kept, gone, aborts>>

\* The references that are committed by now decide.
CleanCount(c) ==
  /\ cpc = "count" /\ c \in todo
  /\ cur' = c /\ todo' = todo \ {c}
  /\ cpc' = IF Others(None, object[c].id) = {} THEN "delete" ELSE "keep"
  /\ UNCHANGED <<tables, blob, users, kept, gone, aborts>>

\* pending_delete = False
CleanKeep ==
  /\ cpc = "keep"
  /\ Updates(cur) = {}
  /\ kept' = kept \cup {cur}
  /\ cpc' = "count"
  /\ UNCHANGED <<tables, blob, users, cur, todo, gone, aborts>>

\* storage.delete
CleanBlob ==
  /\ cpc = "delete"
  /\ blob' = blob \ {cur}
  /\ cpc' = "drop"
  /\ UNCHANGED <<tables, users, cur, todo, kept, gone, aborts>>

FilesOf(c) == {f \in File : file[f].state \in {"live", "deleted"} /\ file[f].id = object[c].id}

\* The deleted records and the object are deleted.  A record of the object that is
\* live by now, or one an upload refers to, makes that fail, and all is rolled back.
CleanDrop ==
  /\ cpc = "drop"
  /\ Updates(cur) = {} /\ Refers(cur) = {}
  /\ \A f \in FilesOf(cur) : Holds(f) = {}
  /\ IF \E f \in FilesOf(cur) : file[f].state = "live" \/ file[f].uploaded
       THEN CleanEnds
       ELSE cpc' = "count" /\ gone' = gone \cup {cur} /\ UNCHANGED <<cur, todo, kept>>
  /\ UNCHANGED <<tables, blob, users, aborts>>

\* Mutant: a row that is gone stays on the list.
CleanCommit_KeepsFlag ==
  /\ cpc = "count" /\ todo = {}
  /\ object' = [c \in Content |->
       IF c \in gone THEN [object[c] EXCEPT !.id = 0]
       ELSE [object[c] EXCEPT !.pending = @ /\ c \notin kept]]
  /\ file' = [f \in File |-> IF \E c \in gone : f \in FilesOf(c)
                               THEN [file[f] EXCEPT !.state = "gone"] ELSE file[f]]
  /\ CleanEnds
  /\ UNCHANGED <<ids, blob, users, aborts>>

CleanCommit ==
  /\ cpc = "count" /\ todo = {}
  /\ object' = [c \in Content |->
       IF c \in gone THEN NoRow ELSE [object[c] EXCEPT !.pending = @ /\ c \notin kept]]
  /\ file' = [f \in File |-> IF \E c \in gone : f \in FilesOf(c)
                               THEN [file[f] EXCEPT !.state = "gone"] ELSE file[f]]
  /\ CleanEnds
  /\ UNCHANGED <<ids, blob, users, aborts>>

\* MinIO or the database fails, or the maintenance worker dies.
CleanAborts ==
  /\ cpc # "idle"
  /\ aborts < MaxAborts /\ aborts' = aborts + 1
  /\ CleanEnds
  /\ UNCHANGED <<tables, blob, users>>

-----------------------------------------------------------------------------

Continue(u) == Insert(u) \/ Check(u) \/ Put(u) \/ Record(u) \/ Commit(u)

Clean ==
  \/ CleanLoad \/ CleanKeep \/ CleanBlob \/ CleanDrop \/ CleanCommit
  \/ \E c \in Content : CleanCount(c)

Next ==
  \/ \E u \in User :
       \/ \E c \in Content : Store(u, c)
       \/ \E c \in Content, f \in File : Replace(u, c, f)
       \/ \E f \in File : Delete(u, f)
       \/ Continue(u) \/ Abort(u)
  \/ Clean \/ CleanAborts

Spec == Init /\ [][Next]_vars

-----------------------------------------------------------------------------
(* Properties *)

\* Types; only a row that exists is on the list of the cleanup.
TypeOK ==
  /\ object \in [Content -> [id: 0..MaxIds, pending: BOOLEAN]]
  /\ \A c \in Content : object[c].id = 0 => object[c] = NoRow
  /\ ids \in 0..MaxIds
  /\ file \in [File -> [content: Content \cup {None}, id: 0..MaxIds,
                        state: {"none", "live", "deleted", "gone"}, uploaded: BOOLEAN]]
  /\ {blob, todo, kept, gone} \subseteq SUBSET Content
  /\ pc \in [User -> {"idle", "insert", "check", "put", "record", "commit"}]
  /\ \A u \in User : mem[u] \in IF pc[u] = "idle" THEN {None} ELSE Memory
  /\ cpc \in {"idle", "count", "keep", "delete", "drop"}
  /\ cur \in Content \cup {None}
  /\ aborts \in 0..MaxAborts

\* A record that is not deleted can be downloaded: its blob is in MinIO.
LiveHasBlob == \A f \in File : file[f].state = "live" => file[f].content \in blob

Orphan(c) ==
  /\ object[c] # NoRow
  /\ \A f \in File : file[f].state = "live" => file[f].id # object[c].id

\* No object is forgotten: one without a live record is on the cleanup's list.
OrphanListed == \A c \in Content : Orphan(c) => object[c].pending
=============================================================================

-------------------------- MODULE FileStore_proofs --------------------------
(***************************************************************************)
(* Proofs about FileStore, for every number of contents, records, requests *)
(* and workers.                                                            *)
(***************************************************************************)
EXTENDS FileStore, FiniteSetTheorems, TLAPS

-----------------------------------------------------------------------------
(* The invariant *)

\* A session's steps.
Step == {"idle", "insert", "check", "put", "record", "commit"}

\* Sessions that may get a new id.
Inserting == {u \in User : pc[u] = "insert"}

\* The type of a row of table files.
FileRow == [content: Content \cup {None}, id: 0..MaxIds,
            state: {"none", "live", "deleted", "gone"}, uploaded: BOOLEAN]

\* Tables, blobs and the clean-up.
Plain ==
  /\ object \in [Content -> [id: 0..MaxIds, pending: BOOLEAN]]
  /\ \A c \in Content : object[c].id = 0 => object[c] = NoRow
  /\ file \in [File -> FileRow]
  /\ blob \subseteq Content /\ todo \subseteq Content /\ kept \subseteq Content
  /\ gone \subseteq Content
  /\ cpc \in {"idle", "count", "keep", "delete", "drop"}
  /\ cur \in Content \cup {None} /\ (cpc \in {"keep", "delete", "drop"} => cur \in Content)
  /\ aborts \in 0..MaxAborts

\* What a session at a step has in memory.
Fits(step, m) ==
  IF step = "idle" THEN m = None
  ELSE /\ m \in Memory
       /\ step = "insert" => ~m.created /\ ~m.seen /\ m.path # "delete"
       /\ step # "insert" => m.id # 0
       /\ m.created => ~m.seen /\ m.path # "delete"
       /\ m.adds => m.path \notin {"replace", "delete"}
       /\ m.path = "replace" => m.oldId # 0 /\ m.old \in Content

\* What all sessions have in memory.
Held ==
  /\ pc \in [User -> Step] /\ mem = [u \in User |-> mem[u]]
  /\ \A u \in User : Fits(pc[u], mem[u])

\* There are ids left for those who are about to take one.
Counted ==
  /\ ids \in Nat /\ IsFiniteSet(Inserting)
  /\ ids + Cardinality(Inserting) <= MaxIds

\* The inductive form of TypeOK.
Types == Plain /\ Held /\ Counted

\* A live record refers to the object row of its content.
Linked ==
  \A f \in File : file[f].state = "live" =>
    /\ file[f].content \in Content /\ file[f].id # 0
    /\ object[file[f].content].id = file[f].id

\* Whoever inserts an object row is the only one, and there was none.
Creating ==
  \A u \in User : pc[u] # "idle" /\ mem[u].created =>
    /\ object[mem[u].content].id = 0
    /\ \A v \in User :
         pc[v] # "idle" /\ mem[v].created /\ mem[v].content = mem[u].content => v = u

\* What a flushed session refers to or changes is there until it commits.
Locked ==
  \A u \in Flushed :
    /\ NeedsObject(mem[u]) =>
         mem[u].content \notin gone /\ (mem[u].created \/ object[mem[u].content].id = mem[u].id)
    /\ \A p \in mem[u].marks : p.content \notin gone /\ object[p.content].id # 0

\* The clean-up drops no object that has a live record.
Unused == \A f \in File : file[f].state = "live" => file[f].content \notin gone

\* Foreign keys and locks: the rows that records, sessions and the clean-up rely on.
Rows == Linked /\ Creating /\ Locked /\ Unused

\* The type invariant follows.
LEMMA TypesOK == Types => TypeOK
<1> SUFFICES ASSUME Types PROVE TypeOK
  OBVIOUS
<1>1. ids \in 0..MaxIds
  <2>1. Cardinality(Inserting) \in Nat
    BY FS_CardinalityType DEF Types, Counted
  <2>2. QED BY <2>1, StoreAssumption DEF Types, Counted
<1>2. \A u \in User : mem[u] \in IF pc[u] = "idle" THEN {None} ELSE Memory
  BY DEF Types, Held, Fits
<1>3. QED BY <1>1, <1>2 DEF Types, Plain, Held, TypeOK, Step, FileRow

\* A session at a step has what fits it.
LEMMA HeldFits == ASSUME Held, NEW u \in User PROVE Fits(pc[u], mem[u])
BY DEF Held

\* No rows, no blobs, and nobody at work.
LEMMA InitInv == Init => Types /\ Rows
<1> SUFFICES ASSUME Init PROVE Types /\ Rows
  OBVIOUS
<1>1. Plain
  BY StoreAssumption DEF Init, Plain, NoRow, NoFile, FileRow
<1>2. Held
  BY DEF Init, Held, Fits, Step
<1>3. Counted
  <2>1. Inserting = {}
    BY DEF Init, Inserting
  <2>2. QED BY <2>1, FS_EmptySet, StoreAssumption DEF Init, Counted
<1>4. Rows
  BY DEF Init, Rows, Linked, Creating, Locked, Unused, Flushed, NoFile
<1>5. QED BY <1>1, <1>2, <1>3, <1>4 DEF Types

-----------------------------------------------------------------------------
(* One session goes on *)

\* The sessions after a step of one of them.
LEMMA GoesTo ==
  ASSUME Held, NEW u \in User, NEW step, NEW m, Goes(u, step, m)
  PROVE  \A v \in User : /\ pc'[v]  = IF v = u THEN step ELSE pc[v]
                         /\ mem'[v] = IF v = u THEN m ELSE mem[v]
BY DEF Goes, Held

\* It may go on with what fits.
LEMMA GoesHeld ==
  ASSUME Held, NEW u \in User, NEW step \in Step, NEW m, Goes(u, step, m), Fits(step, m)
  PROVE  Held'
<1>1. \A v \in User : Fits(pc'[v], mem'[v])
  BY GoesTo DEF Held
<1>2. pc' \in [User -> Step] /\ mem' = [v \in User |-> mem'[v]]
  BY DEF Goes, Held
<1>3. QED BY <1>1, <1>2 DEF Held

\* A session that goes anywhere but to an insertion.
LEMMA GoesCounted ==
  ASSUME Held, Counted, NEW u \in User, NEW step, NEW m, Goes(u, step, m),
         \/ step # "insert" /\ ids' = ids
         \/ step # "insert" /\ ids' = ids + 1 /\ pc[u] = "insert"
         \/ step = "insert" /\ ids' = ids /\ ids + Cardinality(Inserting) < MaxIds
              /\ pc[u] = "idle"
  PROVE  Counted'
<1> DEFINE n == Cardinality(Inserting)
<1>a. n \in Nat /\ ids \in Nat /\ IsFiniteSet(Inserting) /\ ids + n <= MaxIds
  BY FS_CardinalityType DEF Counted
<1>1. CASE step # "insert"
  <2>1. Inserting' = Inserting \ {u}
    BY <1>1, GoesTo DEF Inserting
  <2>2. /\ IsFiniteSet(Inserting')
        /\ Cardinality(Inserting') = IF u \in Inserting THEN n - 1 ELSE n
    BY <1>a, <2>1, FS_RemoveElement
  <2>3. pc[u] = "insert" => u \in Inserting
    BY DEF Inserting
  <2>4. QED BY <1>1, <1>a, <2>2, <2>3, StoreAssumption DEF Counted
<1>2. CASE step = "insert" /\ ids' = ids /\ ids + Cardinality(Inserting) < MaxIds
             /\ pc[u] = "idle"
  <2>1. Inserting' = Inserting \cup {u} /\ u \notin Inserting
    BY <1>2, GoesTo DEF Inserting
  <2>2. IsFiniteSet(Inserting') /\ Cardinality(Inserting') = n + 1
    BY <1>a, <2>1, FS_AddElement
  <2>3. QED BY <1>2, <1>a, <2>2, StoreAssumption DEF Counted
<1>3. QED BY <1>1, <1>2

\* A session that neither inserts nor flushes.
LEMMA GoesRows ==
  ASSUME Held, Rows, NEW u \in User, NEW step, NEW m, Goes(u, step, m),
         step # "commit", UNCHANGED <<object, gone>>,
         \A f \in File : file'[f].state = "live" =>
           file[f].state = "live" /\ file'[f].content = file[f].content /\ file'[f].id = file[f].id,
         \/ step = "idle" \/ ~m.created
         \/ pc[u] # "idle" /\ mem[u].created /\ mem[u].content = m.content
  PROVE  Rows'
<1>1. Linked' /\ Unused'
  BY DEF Rows, Linked, Unused
<1>2. \A v \in User : pc'[v] # "idle" /\ mem'[v].created =>
        pc[v] # "idle" /\ mem[v].created /\ mem[v].content = mem'[v].content
  BY GoesTo
<1>3. Creating'
  BY <1>2 DEF Rows, Creating
<1>4. Flushed' \subseteq Flushed /\ \A v \in Flushed' : mem'[v] = mem[v]
  BY GoesTo DEF Flushed
<1>5. Locked'
  BY <1>4 DEF Rows, Locked, NeedsObject
<1>6. QED BY <1>1, <1>3, <1>5 DEF Rows

\* A session that ends has changed nothing.
LEMMA EndsInv ==
  ASSUME Types, Rows, NEW u \in User, Ends(u), UNCHANGED <<tables, blob, cleanup>>,
         aborts' \in 0..MaxAborts
  PROVE  Types' /\ Rows'
<1>1. Fits("idle", None)
  BY DEF Fits
<1>2. Held'
  BY <1>1, GoesHeld DEF Types, Ends, Step
<1>3. Counted' /\ Rows'
  BY GoesCounted, GoesRows DEF Types, Ends, tables, cleanup
<1>4. Plain'
  BY DEF Types, Plain, tables, cleanup
<1>5. QED BY <1>2, <1>3, <1>4 DEF Types

-----------------------------------------------------------------------------
(* What sessions load and look up *)

\* What a session has loaded fits a session.
LEMMA SessionFits ==
  ASSUME Types, NEW path \in {"upload", "register", "replace", "delete"}, NEW c \in Content,
         NEW f \in File \cup {None}, NEW old \in Content \cup {None}
  PROVE  /\ Session(path, c, f, old) \in Memory
         /\ Session(path, c, f, old).path = path
         /\ Session(path, c, f, old).content = c
         /\ ~Session(path, c, f, old).created /\ ~Session(path, c, f, old).adds
         /\ Session(path, c, f, old).marks = {}
         /\ Session(path, c, f, old).id = object[c].id
         /\ Session(path, c, f, old).seen = object[c].pending
         /\ Session(path, c, f, old).old = old
         /\ old # None => Session(path, c, f, old).oldId = object[old].id
<1>1. \A d \in Content : object[d].id \in 0..MaxIds /\ object[d].pending \in BOOLEAN
  BY DEF Types, Plain
<1>2. old # None => old \in Content
  OBVIOUS
<1>3. 0 \in 0..MaxIds
  BY StoreAssumption
<1>4. (IF old = None THEN 0 ELSE object[old].id) \in 0..MaxIds
  BY <1>1, <1>2, <1>3
<1>5. QED BY <1>1, <1>4 DEF Session, Memory

\* A session that stores a content begins.
LEMMA BeginsInv ==
  ASSUME Types, Rows, NEW u \in User, NEW m \in Memory, pc[u] = "idle", Begins(u, m),
         ~m.created, ~m.adds, m.id = object[m.content].id, m.seen = object[m.content].pending,
         m.path # "delete", m.path = "replace" => m.oldId # 0 /\ m.old \in Content,
         UNCHANGED <<object, ids, blob, cleanup, aborts>>, file' \in [File -> FileRow],
         \A f \in File : file'[f].state = "live" =>
           file[f].state = "live" /\ file'[f].content = file[f].content /\ file'[f].id = file[f].id
  PROVE  Types' /\ Rows'
<1> DEFINE step == IF object[m.content] = NoRow THEN "insert" ELSE "check"
<1>1. Goes(u, step, m) /\ (step = "insert" => ids + Cardinality(Inserting) < MaxIds)
  BY DEF Begins, Inserting
<1>2. m.content \in Content
  BY DEF Memory
<1>3. step # "insert" => m.id # 0
  BY <1>2 DEF Types, Plain
<1>4. step \in {"insert", "check"} /\ (step = "insert" => ~m.seen)
  BY DEF NoRow
<1> HIDE DEF step
<1>5. Fits(step, m)
  BY <1>3, <1>4 DEF Fits
<1>6. Held'
  BY <1>1, <1>4, <1>5, GoesHeld DEF Types, Step
<1>7. Counted'
  BY <1>1, <1>4, GoesCounted DEF Types
<1>8. Rows'
  BY <1>1, <1>4, GoesRows DEF Types, cleanup
<1>9. Plain'
  BY DEF Types, Plain, cleanup
<1>10. QED BY <1>6, <1>7, <1>8, <1>9 DEF Types

\* An upload or a result.
LEMMA StoreInv ==
  ASSUME Types, Rows, NEW u \in User, NEW c \in Content, Store(u, c)
  PROVE  Types' /\ Rows'
<1> DEFINE path == IF u \in Client THEN "upload" ELSE "register"
           m == Session(path, c, None, None)
<1>1. path \in {"upload", "register"}
  OBVIOUS
<1>2. pc[u] = "idle" /\ Begins(u, m) /\ UNCHANGED <<tables, blob, cleanup, aborts>>
  BY DEF Store
<1> HIDE DEF path
<1>3. m \in Memory /\ ~m.created /\ ~m.adds /\ m.id = object[m.content].id
      /\ m.path \notin {"replace", "delete"}
        /\ m.seen = object[m.content].pending
  BY <1>1, SessionFits
<1> HIDE DEF m
<1>4. QED BY <1>2, <1>3, BeginsInv DEF tables, Types, Plain

\* A new content for a result.
LEMMA ReplaceInv ==
  ASSUME Types, Rows, NEW u \in User, NEW c \in Content, NEW f \in File, Replace(u, c, f)
  PROVE  Types' /\ Rows'
<1> DEFINE m == Session("replace", c, f, file[f].content)
<1>1. /\ pc[u] = "idle" /\ Begins(u, m) /\ UNCHANGED <<object, ids, blob, cleanup, aborts>>
      /\ file[f].state = "live" /\ file' = [file EXCEPT ![f].uploaded = TRUE]
  BY DEF Replace
<1>2. file[f].content \in Content /\ object[file[f].content].id # 0
  BY <1>1 DEF Rows, Linked
<1>3. m \in Memory /\ ~m.created /\ ~m.adds /\ m.id = object[m.content].id /\ m.oldId # 0
        /\ m.seen = object[m.content].pending /\ m.path = "replace" /\ m.old \in Content
  BY <1>2, SessionFits, StoreAssumption
<1>4. /\ file' \in [File -> FileRow]
      /\ \A g \in File : /\ file'[g].state = file[g].state
                         /\ file'[g].content = file[g].content /\ file'[g].id = file[g].id
  BY <1>1 DEF Types, Plain, FileRow
<1> HIDE DEF m
<1>5. QED BY <1>1, <1>3, <1>4, BeginsInv

\* A deletion.
LEMMA DeleteInv ==
  ASSUME Types, Rows, NEW u \in User, NEW f \in File, Delete(u, f)
  PROVE  Types' /\ Rows'
<1> DEFINE m == Session("delete", file[f].content, f, None)
<1>1. /\ file[f].state = "live" /\ Goes(u, "record", m)
      /\ UNCHANGED <<tables, blob, cleanup, aborts>>
  BY DEF Delete
<1>2. file[f].content \in Content /\ object[file[f].content].id # 0
  BY <1>1 DEF Rows, Linked
<1>3. m \in Memory /\ ~m.created /\ ~m.adds /\ m.id = object[m.content].id
      /\ m.path = "delete"
        /\ m.content = file[f].content
  BY <1>2, SessionFits
<1> HIDE DEF m
<1>4. Fits("record", m)
  BY <1>2, <1>3 DEF Fits
<1>5. Held' /\ Counted'
  BY <1>1, <1>4, GoesHeld, GoesCounted DEF Types, Step, tables
<1>6. Rows'
  BY <1>1, <1>3, GoesRows DEF Types, tables, cleanup
<1>7. Plain'
  BY <1>1 DEF Types, Plain, tables, cleanup
<1>8. QED BY <1>5, <1>6, <1>7 DEF Types

\* Looking for the blob and putting it there.
LEMMA CheckPutInv ==
  ASSUME Types, Rows, NEW u \in User, Check(u) \/ Put(u)
  PROVE  Types' /\ Rows'
<1> DEFINE step == pc'[u]
<1>1. /\ pc[u] \in {"check", "put"} /\ step \in {"put", "record"} /\ Goes(u, step, mem[u])
      /\ UNCHANGED <<tables, cleanup, aborts>>
  BY DEF Check, Put, Goes, Types, Held
<1>2. Fits(pc[u], mem[u])
  BY HeldFits DEF Types
<1>3. blob' \subseteq Content
  <2>1. mem[u].content \in Content
    BY <1>1, <1>2 DEF Fits, Memory
  <2>2. QED BY <2>1 DEF Check, Put, Types, Plain
<1> HIDE DEF step
<1>4. Fits(step, mem[u])
  BY <1>1, <1>2 DEF Fits
<1>5. Held' /\ Counted'
  BY <1>1, <1>4, GoesHeld, GoesCounted DEF Types, Step, tables
<1>6. Rows'
  BY <1>1, GoesRows DEF Types, tables, cleanup
<1>7. Plain'
  BY <1>1, <1>3 DEF Types, Plain, tables, cleanup
<1>8. QED BY <1>5, <1>6, <1>7 DEF Types

\* An object row is inserted, or the unique index refuses it.
LEMMA InsertInv ==
  ASSUME Types, Rows, NEW u \in User, Insert(u)
  PROVE  Types' /\ Rows'
<1> DEFINE c == mem[u].content
<1>1. /\ pc[u] = "insert" /\ Inserts(c) = {} /\ UNCHANGED <<object, file, blob, cleanup, aborts>>
  BY DEF Insert
<1>2. mem[u] \in Memory /\ ~mem[u].created /\ c \in Content
  BY <1>1, HeldFits DEF Types, Fits, Memory
<1>3. CASE object[c] # NoRow
  <2>1. Ends(u) /\ ids' = ids
    BY <1>3 DEF Insert
  <2>2. aborts' \in 0..MaxAborts
    BY <1>1 DEF Types, Plain
  <2>3. QED BY <1>1, <2>1, <2>2, EndsInv DEF tables
<1>4. CASE object[c] = NoRow
  <2> DEFINE m == [mem[u] EXCEPT !.created = TRUE, !.id = ids']
  <2>1. ids' = ids + 1 /\ Goes(u, "put", m)
    BY <1>4 DEF Insert
  <2>2. ids' \in 1..MaxIds
    <3>1. u \in Inserting
      BY <1>1 DEF Inserting
    <3>2. IsFiniteSet(Inserting) /\ Cardinality(Inserting) \in Nat /\ Cardinality(Inserting) # 0
      BY <3>1, FS_CardinalityType, FS_EmptySet DEF Types, Counted
    <3>3. QED BY <2>1, <3>2, StoreAssumption DEF Types, Counted
  <2>3. /\ m \in Memory /\ m.created /\ m.id # 0 /\ m.content = c
        /\ m.path = mem[u].path /\ m.seen = mem[u].seen /\ m.oldId = mem[u].oldId
        /\ m.old = mem[u].old /\ m.adds = mem[u].adds
    <3>1. m \in Memory
      <4>1. \A n \in Memory : \A i \in 0..MaxIds : [n EXCEPT !.created = TRUE, !.id = i] \in Memory
        BY DEF Memory
      <4>2. ids' \in 0..MaxIds
        BY <2>2
      <4>3. QED BY <1>2, <4>1, <4>2
    <3>2. m.created /\ m.id = ids'
      BY <1>2 DEF Memory
    <3>3. /\ m.content = c /\ m.path = mem[u].path /\ m.seen = mem[u].seen
          /\ m.oldId = mem[u].oldId /\ m.old = mem[u].old /\ m.adds = mem[u].adds
      BY <1>2 DEF Memory
    <3>4. QED BY <2>2, <3>1, <3>2, <3>3
  <2> HIDE DEF m
  <2>4. Fits("put", m)
    BY <1>1, <2>3, HeldFits DEF Types, Fits
  <2>5. Held' /\ Counted'
    BY <1>1, <2>1, <2>4, GoesHeld, GoesCounted DEF Types, Step
  <2>6. \A v \in User : /\ pc'[v]  = IF v = u THEN "put" ELSE pc[v]
                        /\ mem'[v] = IF v = u THEN m ELSE mem[v]
    BY <2>1, GoesTo DEF Types
  <2>7. Linked' /\ Unused'
    BY <1>1 DEF Rows, Linked, Unused, cleanup
  <2>8. \A v \in User : pc[v] # "idle" /\ mem[v].created => mem[v].content # c
    <3>1. \A v \in User : pc[v] # "idle" => mem[v] # None
      BY HeldFits, StoreAssumption DEF Types, Fits
    <3>2. QED BY <1>1, <3>1 DEF Inserts
  <2>9. Creating'
    <3>1. object'[c].id = 0
      BY <1>1, <1>4 DEF NoRow
    <3>2. QED BY <1>1, <2>3, <2>6, <2>8, <3>1 DEF Rows, Creating
  <2>10. Flushed' \subseteq Flushed /\ \A v \in Flushed' : mem'[v] = mem[v]
    BY <2>6 DEF Flushed
  <2>11. Locked'
    BY <1>1, <2>10 DEF Rows, Locked, NeedsObject, cleanup
  <2>12. Plain'
    BY <1>1 DEF Types, Plain, cleanup
  <2>13. QED BY <2>5, <2>7, <2>9, <2>11, <2>12 DEF Types, Rows
<1>5. QED BY <1>3, <1>4

-----------------------------------------------------------------------------
(* The flush and the commit *)

\* What is flushed is what the session had, with marks and a record to attach to.
LEMMA FlushesMemory ==
  ASSUME NEW n \in Memory, NEW m \in Flushes(n), n.path = "replace" => n.old \in Content
  PROVE  /\ m \in Memory /\ m.marks = MarksOf(n)
         /\ m.path = n.path /\ m.content = n.content /\ m.id = n.id /\ m.created = n.created
         /\ m.seen = n.seen /\ m.oldId = n.oldId /\ m.old = n.old
         /\ m.adds => n.adds \/ n.path \notin {"replace", "delete"}
         /\ n.path \in {"replace", "delete"} => m.file = n.file
         /\ n.path = "register" => m.adds
         /\ n.path = "upload" /\ ~m.adds => m.file \in Live(n.content)
<1> DEFINE marked == [n EXCEPT !.marks = MarksOf(n)]
<1>1. MarksOf(n) \subseteq [content: Content, pending: BOOLEAN]
  <2>1. n.content \in Content
    BY DEF Memory
  <2>2. \A c \in Content : \A b \in BOOLEAN : Mark(c, b) \in [content: Content, pending: BOOLEAN]
    BY DEF Mark
  <2>3. \A b, S : When(b, S) \subseteq S
    BY DEF When
  <2>4. When(n.path = "replace" /\ n.oldId # n.id
             /\ object[n.old] = [id |-> n.oldId, pending |-> FALSE]
             /\ Others(n.file, n.oldId) = {}, {Mark(n.old, TRUE)})
          \subseteq [content: Content, pending: BOOLEAN]
    BY <2>2 DEF When
  <2>5. QED BY <2>1, <2>2, <2>3, <2>4 DEF MarksOf
<1>2. marked \in Memory /\ marked.marks = MarksOf(n)
  BY <1>1 DEF Memory
<1>3. /\ marked.path = n.path /\ marked.content = n.content /\ marked.id = n.id
      /\ marked.created = n.created /\ marked.seen = n.seen /\ marked.oldId = n.oldId
      /\ marked.old = n.old /\ marked.adds = n.adds /\ marked.file = n.file
  OBVIOUS
<1>4. \/ m = marked /\ n.path \in {"replace", "delete"}
      \/ \E f \in Live(n.content) : m = [marked EXCEPT !.file = f] /\ n.path = "upload"
      \/ m = [marked EXCEPT !.adds = TRUE] /\ n.path \notin {"replace", "delete"}
  BY <1>3 DEF Flushes
<1> HIDE DEF marked
<1>5. Live(n.content) \subseteq File
  BY DEF Live
<1>6. n.path \in {"upload", "register", "replace", "delete"}
  BY DEF Memory
<1>7. QED BY <1>2, <1>3, <1>4, <1>5, <1>6 DEF Memory

\* The flush: what it refers to or changes exists, and is locked from now on.
LEMMA RecordInv ==
  ASSUME Types, Rows, NEW u \in User, Record(u)
  PROVE  Types' /\ Rows'
<1> DEFINE n == mem[u]
<1>1. pc[u] = "record" /\ UNCHANGED <<tables, blob, cleanup, aborts>>
  BY DEF Record
<1>2. PICK m \in Flushes(n) :
        ~Waits(m) /\ (Stale(m) => Ends(u)) /\ (~Stale(m) => Goes(u, "commit", m))
  BY DEF Record
<1>3. Fits("record", n)
  BY <1>1, HeldFits DEF Types
<1>4. /\ m \in Memory /\ m.marks = MarksOf(n)
      /\ m.path = n.path /\ m.content = n.content /\ m.id = n.id /\ m.created = n.created
      /\ m.seen = n.seen /\ m.oldId = n.oldId /\ m.old = n.old
      /\ m.adds => n.adds \/ n.path \notin {"replace", "delete"}
  BY <1>3, FlushesMemory DEF Fits
<1>5. CASE Stale(m)
  <2>1. aborts' \in 0..MaxAborts
    BY <1>1 DEF Types, Plain
  <2>2. QED BY <1>1, <1>2, <1>5, <2>1, EndsInv
<1>6. CASE ~Stale(m)
  <2>1. Goes(u, "commit", m)
    BY <1>2, <1>6
  <2>2. Fits("commit", m)
    BY <1>3, <1>4 DEF Fits
  <2>3. Held' /\ Counted'
    BY <1>1, <2>1, <2>2, GoesHeld, GoesCounted DEF Types, Step, tables
  <2>4. \A v \in User : /\ pc'[v]  = IF v = u THEN "commit" ELSE pc[v]
                        /\ mem'[v] = IF v = u THEN m ELSE mem[v]
    BY <2>1, GoesTo DEF Types
  <2>5. UNCHANGED <<object, file, gone>>
    BY <1>1 DEF tables, cleanup
  <2>6. Linked' /\ Unused'
    BY <2>5 DEF Rows, Linked, Unused
  <2>7. Creating'
    BY <1>1, <1>4, <2>4, <2>5 DEF Rows, Creating
  <2>8. /\ NeedsObject(m) => m.content \notin gone /\ (m.created \/ object[m.content].id = m.id)
        /\ \A p \in m.marks : p.content \notin gone
        /\ \A p \in m.marks : p.content = m.content /\ ~m.created => object[m.content].id = m.id
    BY <1>2, <1>6 DEF Waits, Stale
  <2>9. ASSUME NEW p \in m.marks PROVE object[p.content].id # 0
    <3>1. \/ p.content = m.content /\ ~m.created
          \/ p.content = m.old /\ object[m.old].id = m.oldId /\ m.oldId # 0
      BY <1>3, <1>4 DEF MarksOf, When, Mark, Fits
    <3>2. m.id # 0
      BY <2>2 DEF Fits
    <3>3. QED BY <2>8, <3>1, <3>2
  <2>10. Flushed' = Flushed \cup {u} /\ \A v \in Flushed : v # u => mem'[v] = mem[v]
    BY <2>4 DEF Flushed
  <2>11. mem'[u] = m
    BY <2>4
  <2>12. Locked'
    <3>1. ASSUME NEW v \in Flushed', v # u
          PROVE  /\ NeedsObject(mem[v])' => mem'[v].content \notin gone' /\
                      (mem'[v].created \/ object'[mem'[v].content].id = mem'[v].id)
                 /\ \A p \in mem'[v].marks : p.content \notin gone' /\ object'[p.content].id # 0
      BY <2>5, <2>10, <3>1 DEF Rows, Locked, NeedsObject
    <3>2. QED BY <2>5, <2>8, <2>9, <2>10, <2>11, <3>1 DEF Locked, NeedsObject
  <2>13. Plain'
    BY <1>1 DEF Types, Plain, tables, cleanup
  <2>14. QED BY <2>3, <2>6, <2>7, <2>12, <2>13 DEF Types, Rows
<1>7. QED BY <1>5, <1>6

\* The object rows that a commit leaves.
LEMMA CommitObject ==
  ASSUME Types, Rows, NEW u \in User, Commit(u)
  PROVE  /\ mem[u].created => object'[mem[u].content].id = mem[u].id
         /\ \A c \in Content : ~(mem[u].created /\ c = mem[u].content) =>
              object'[c].id = object[c].id
         /\ object' \in [Content -> [id: 0..MaxIds, pending: BOOLEAN]]
         /\ \A c \in Content : object'[c].id = 0 => object'[c] = NoRow
<1> DEFINE m == mem[u]
<1>1. pc[u] = "commit" /\ m \in Memory /\ m.id # 0 /\ u \in Flushed
  BY HeldFits DEF Commit, Types, Fits, Flushed
<1>2. object' = [c \in Content |->
               IF c = m.content /\ m.created THEN [id |-> m.id, pending |-> FALSE]
               ELSE IF \E p \in m.marks : p.content = c
                 THEN [object[c] EXCEPT !.pending = Mark(c, TRUE) \in m.marks]
               ELSE object[c]]
  BY DEF Commit
<1>3. m.content \in Content /\ m.id \in 0..MaxIds
  BY <1>1 DEF Memory
<1>4. \A p \in m.marks : object[p.content].id # 0
  BY <1>1 DEF Rows, Locked
<1>5. \A c \in Content : /\ object[c] \in [id: 0..MaxIds, pending: BOOLEAN]
                         /\ object[c].id = 0 => object[c] = NoRow
  BY DEF Types, Plain
<1> HIDE DEF m
<1>6. ASSUME NEW c \in Content
      PROVE  /\ object'[c] \in [id: 0..MaxIds, pending: BOOLEAN]
             /\ m.created /\ c = m.content => object'[c].id = m.id
             /\ ~(m.created /\ c = m.content) => object'[c].id = object[c].id
             /\ object'[c].id = 0 => object'[c] = NoRow
  <2>1. CASE c = m.content /\ m.created
    BY <1>1, <1>2, <1>3, <2>1
  <2>2. CASE ~(c = m.content /\ m.created) /\ \E p \in m.marks : p.content = c
    <3>1. object'[c] = [object[c] EXCEPT !.pending = Mark(c, TRUE) \in m.marks]
      BY <1>2, <2>2
    <3>2. object[c].id # 0
      BY <1>4, <2>2
    <3>3. \A row \in [id: 0..MaxIds, pending: BOOLEAN] : \A b \in BOOLEAN :
            /\ [row EXCEPT !.pending = b] \in [id: 0..MaxIds, pending: BOOLEAN]
            /\ [row EXCEPT !.pending = b].id = row.id
      OBVIOUS
    <3>4. (Mark(c, TRUE) \in m.marks) \in BOOLEAN
      OBVIOUS
    <3>5. QED BY <1>5, <2>2, <3>1, <3>2, <3>3, <3>4
  <2>3. CASE ~(c = m.content /\ m.created) /\ ~\E p \in m.marks : p.content = c
    BY <1>2, <1>5, <2>3
  <2>4. QED BY <2>1, <2>2, <2>3
<1>7. QED BY <1>2, <1>3, <1>6 DEF m

\* The records that a commit leaves.
LEMMA CommitFile ==
  ASSUME Types, Rows, NEW u \in User, Commit(u)
  PROVE  /\ file' \in [File -> FileRow]
         /\ \A g \in File : file'[g].state = "live" =>
              \/ /\ file[g].state = "live"
                 /\ file'[g].content = file[g].content /\ file'[g].id = file[g].id
              \/ /\ NeedsObject(mem[u])
                 /\ file'[g].content = mem[u].content /\ file'[g].id = mem[u].id
<1> DEFINE m == mem[u]
           New(row) ==
             CASE m.path = "delete"  -> [row EXCEPT !.state = "deleted"]
               [] m.path = "replace" -> [row EXCEPT !.content = m.content, !.id = m.id]
               [] m.adds             -> [content |-> m.content, id |-> m.id, state |-> "live",
                                         uploaded |-> m.path = "upload"]
               [] OTHER              -> [row EXCEPT !.uploaded = TRUE]
<1>1. /\ m \in Memory /\ m.content \in Content /\ m.id \in 0..MaxIds
      /\ m.adds => m.path \notin {"replace", "delete"}
  BY HeldFits DEF Commit, Types, Fits, Memory
<1>2. PICK f : file' = [file EXCEPT ![f] = New(file[f])]
  BY DEF Commit
<1>a. ASSUME NEW row
      PROVE  /\ m.path = "delete" => New(row) = [row EXCEPT !.state = "deleted"]
             /\ m.path = "replace" => New(row) = [row EXCEPT !.content = m.content, !.id = m.id]
             /\ m.path \notin {"delete", "replace"} /\ m.adds =>
                  New(row) = [content |-> m.content, id |-> m.id, state |-> "live",
                              uploaded |-> m.path = "upload"]
             /\ m.path \notin {"delete", "replace"} /\ ~m.adds =>
                  New(row) = [row EXCEPT !.uploaded = TRUE]
  <2>1. m.path = "delete" => New(row) = [row EXCEPT !.state = "deleted"]
    BY <1>1
  <2>2. m.path = "replace" => New(row) = [row EXCEPT !.content = m.content, !.id = m.id]
    BY <1>1
  <2>3. m.path \notin {"delete", "replace"} /\ m.adds =>
          New(row) = [content |-> m.content, id |-> m.id, state |-> "live",
                      uploaded |-> m.path = "upload"]
    OBVIOUS
  <2>4. m.path \notin {"delete", "replace"} /\ ~m.adds => New(row) = [row EXCEPT !.uploaded = TRUE]
    OBVIOUS
  <2>5. QED BY <2>1, <2>2, <2>3, <2>4
<1> HIDE DEF m, New
<1>3. ASSUME NEW row \in FileRow
      PROVE  /\ New(row) \in FileRow
             /\ New(row).state = "live" =>
                  \/ /\ row.state = "live" /\ New(row).content = row.content /\ New(row).id = row.id
                  \/ /\ NeedsObject(m) /\ New(row).content = m.content /\ New(row).id = m.id
  <2>1. CASE m.path = "delete"
    <3>1. New(row) = [row EXCEPT !.state = "deleted"]
      BY <1>a, <2>1
    <3>2. QED BY <3>1 DEF FileRow
  <2>2. CASE m.path = "replace"
    <3>1. New(row) = [row EXCEPT !.content = m.content, !.id = m.id]
      BY <1>a, <2>2
    <3>2. New(row) \in FileRow /\ New(row).content = m.content /\ New(row).id = m.id
      BY <1>1, <3>1 DEF FileRow
    <3>3. NeedsObject(m)
      BY <2>2 DEF NeedsObject
    <3>4. QED BY <3>2, <3>3
  <2>3. CASE m.path \notin {"delete", "replace"} /\ m.adds
    <3>1. New(row) = [content |-> m.content, id |-> m.id, state |-> "live",
                      uploaded |-> m.path = "upload"]
      BY <1>a, <2>3
    <3>2. QED BY <1>1, <2>3, <3>1 DEF FileRow, NeedsObject
  <2>4. CASE m.path \notin {"delete", "replace"} /\ ~m.adds
    <3>1. New(row) = [row EXCEPT !.uploaded = TRUE]
      BY <1>a, <2>4
    <3>2. QED BY <3>1 DEF FileRow
  <2>5. QED BY <2>1, <2>2, <2>3, <2>4
<1>4. file \in [File -> FileRow]
  BY DEF Types, Plain
<1>5. \A g \in File : file'[g] = file[g] \/ file'[g] = New(file[g])
  BY <1>2, <1>4
<1>6. \A g \in File : file'[g].state = "live" =>
        \/ /\ file[g].state = "live"
           /\ file'[g].content = file[g].content /\ file'[g].id = file[g].id
        \/ /\ NeedsObject(m) /\ file'[g].content = m.content /\ file'[g].id = m.id
  BY <1>3, <1>4, <1>5
<1>7. file' \in [File -> FileRow]
  BY <1>2, <1>3, <1>4
<1>8. QED BY <1>6, <1>7 DEF m

\* A commit shows what was flushed.
LEMMA CommitInv ==
  ASSUME Types, Rows, NEW u \in User, Commit(u)
  PROVE  Types' /\ Rows'
<1> DEFINE m == mem[u]
<1>1. /\ pc[u] = "commit" /\ u \in Flushed /\ Ends(u)
      /\ UNCHANGED <<ids, blob, cleanup, aborts>>
  BY DEF Commit, Flushed
<1>2. m \in Memory /\ m.content \in Content /\ m.id # 0
  BY <1>1, HeldFits DEF Types, Fits, Memory
<1>3. /\ m.created => object'[m.content].id = m.id
      /\ \A c \in Content : ~(m.created /\ c = m.content) => object'[c].id = object[c].id
  BY CommitObject
<1>4. \A g \in File : file'[g].state = "live" =>
        \/ /\ file[g].state = "live"
           /\ file'[g].content = file[g].content /\ file'[g].id = file[g].id
        \/ /\ NeedsObject(m) /\ file'[g].content = m.content /\ file'[g].id = m.id
  BY CommitFile
<1>5. m.created => object[m.content].id = 0
  BY <1>1 DEF Rows, Creating
<1>6. NeedsObject(m) => m.content \notin gone /\ (m.created \/ object[m.content].id = m.id)
  BY <1>1 DEF Rows, Locked
<1>7. \A c \in Content : object[c].id # 0 => object'[c].id = object[c].id
  BY <1>3, <1>5
<1>8. gone' = gone
  BY <1>1 DEF cleanup
<1>9. \A v \in User : /\ pc'[v]  = IF v = u THEN "idle" ELSE pc[v]
                      /\ mem'[v] = IF v = u THEN None ELSE mem[v]
  BY <1>1, GoesTo DEF Ends, Types
<1> HIDE DEF m
<1>10. Linked'
  <2>1. ASSUME NEW g \in File, file'[g].state = "live"
        PROVE  /\ file'[g].content \in Content /\ file'[g].id # 0
               /\ object'[file'[g].content].id = file'[g].id
    <3>1. CASE /\ file[g].state = "live"
               /\ file'[g].content = file[g].content /\ file'[g].id = file[g].id
      BY <1>7, <3>1 DEF Rows, Linked
    <3>2. CASE NeedsObject(m) /\ file'[g].content = m.content /\ file'[g].id = m.id
      BY <1>2, <1>3, <1>6, <3>2
    <3>3. QED BY <1>4, <2>1, <3>1, <3>2
  <2>2. QED BY <2>1 DEF Linked
<1>11. Unused'
  BY <1>4, <1>6, <1>8 DEF Rows, Unused
<1>12. Creating'
  <2>1. ASSUME NEW v \in User, pc'[v] # "idle", mem'[v].created
        PROVE  object'[mem'[v].content].id = 0
    <3>1. v # u /\ mem'[v] = mem[v] /\ pc[v] # "idle"
      BY <1>9, <2>1
    <3>2. mem[v].content \in Content /\ object[mem[v].content].id = 0
      BY <2>1, <3>1, HeldFits DEF Rows, Creating, Types, Fits, Memory
    <3>3. ~(m.created /\ mem[v].content = m.content)
      BY <1>1, <2>1, <3>1 DEF Rows, Creating, m
    <3>4. QED BY <1>3, <3>1, <3>2, <3>3
  <2>2. \A v \in User : pc'[v] # "idle" => pc[v] # "idle" /\ mem'[v] = mem[v]
    BY <1>9
  <2>3. QED BY <2>1, <2>2 DEF Rows, Creating
<1>13. Locked'
  <2>1. \A v \in Flushed' : v \in Flushed /\ mem'[v] = mem[v]
    BY <1>9 DEF Flushed
  <2>2. ASSUME NEW v \in Flushed'
        PROVE  /\ NeedsObject(mem[v])' => mem'[v].content \notin gone' /\
                    (mem'[v].created \/ object'[mem'[v].content].id = mem'[v].id)
               /\ \A p \in mem'[v].marks : p.content \notin gone' /\ object'[p.content].id # 0
    <3>1. v \in User /\ mem[v] \in Memory /\ mem[v].id # 0
      BY <2>1, HeldFits DEF Flushed, Types, Fits
    <3>2. mem[v].content \in Content /\ \A p \in mem[v].marks : p.content \in Content
      BY <3>1 DEF Memory
    <3>3. /\ NeedsObject(mem[v]) => mem[v].content \notin gone /\
                    (mem[v].created \/ object[mem[v].content].id = mem[v].id)
          /\ \A p \in mem[v].marks : p.content \notin gone /\ object[p.content].id # 0
      BY <2>1 DEF Rows, Locked
    <3>4. NeedsObject(mem[v])' <=> NeedsObject(mem[v])
      BY <2>1 DEF NeedsObject
    <3>5. QED BY <1>7, <1>8, <2>1, <3>1, <3>2, <3>3, <3>4
  <2>3. QED BY <2>2 DEF Locked
<1>14. Held' /\ Counted'
  <2>1. Fits("idle", None)
    BY DEF Fits
  <2>2. QED BY <1>1, <2>1, GoesHeld, GoesCounted DEF Ends, Types, Step
<1>15. Plain'
  BY <1>1, CommitObject, CommitFile DEF Types, Plain, cleanup
<1>16. QED BY <1>10, <1>11, <1>12, <1>13, <1>14, <1>15 DEF Types, Rows

-----------------------------------------------------------------------------
(* The clean-up *)

\* What the rows are to the sessions does not change while the clean-up looks around.
LEMMA CleanInv ==
  ASSUME Types, Rows, Clean \/ CleanAborts
  PROVE  Types' /\ Rows'
<1>1. UNCHANGED users
  BY DEF Clean, CleanAborts, CleanLoad, CleanCount, CleanKeep, CleanBlob, CleanDrop, CleanCommit
<1>2. Held' /\ Counted'
  <2>1. ids' = ids
    BY DEF Clean, CleanAborts, CleanLoad, CleanCount, CleanKeep, CleanBlob, CleanDrop,
           CleanCommit, tables
  <2>2. QED BY <1>1, <2>1 DEF Types, Held, Counted, users, Inserting
<1>3. CASE \/ CleanLoad \/ CleanKeep \/ CleanBlob \/ CleanAborts
           \/ \E c \in Content : CleanCount(c)
  <2>1. UNCHANGED tables /\ gone' \in {gone, {}}
    BY <1>3 DEF CleanLoad, CleanCount, CleanKeep, CleanBlob, CleanAborts, CleanEnds
  <2>2. Rows'
    BY <1>1, <2>1 DEF Rows, Linked, Creating, Locked, Unused, Flushed, NeedsObject, users, tables
  <2>3. Plain'
    BY <1>3, <2>1, StoreAssumption DEF Types, Plain, tables, CleanLoad, CleanCount, CleanKeep,
          CleanBlob, CleanAborts, CleanEnds
  <2>4. QED BY <1>2, <2>2, <2>3 DEF Types
<1>4. CASE CleanDrop
  <2>1. UNCHANGED <<tables, blob, aborts>> /\ cpc = "drop" /\ cur \in Content
    BY <1>4 DEF CleanDrop, Types, Plain
  <2>2. CASE CleanEnds
    <3>1. Rows'
      BY <1>1, <2>1, <2>2 DEF CleanEnds, Rows, Linked, Creating, Locked, Unused, Flushed,
            NeedsObject, users, tables
    <3>2. QED BY <1>2, <2>1, <2>2, <3>1 DEF CleanEnds, Types, Plain, tables
  <2>3. CASE ~CleanEnds
    <3>1. /\ cpc' = "count" /\ gone' = gone \cup {cur} /\ UNCHANGED <<cur, todo, kept>>
          /\ \A f \in FilesOf(cur) : file[f].state # "live"
          /\ Updates(cur) = {} /\ Refers(cur) = {}
      BY <1>4, <2>3 DEF CleanDrop
    <3>2. \A f \in File : file[f].state = "live" => file[f].content # cur
      BY <3>1 DEF FilesOf, Rows, Linked
    <3>3. \A v \in Flushed : /\ NeedsObject(mem[v]) => mem[v].content # cur
                             /\ \A p \in mem[v].marks : p.content # cur
      BY <3>1 DEF Refers, Updates, NeedsObject
    <3>4. Linked' /\ Creating' /\ Unused'
      BY <1>1, <2>1, <3>1, <3>2 DEF Rows, Linked, Creating, Unused, users, tables
    <3>5. Locked'
      BY <1>1, <2>1, <3>1, <3>3 DEF Rows, Locked, Flushed, NeedsObject, users, tables
    <3>6. QED BY <1>2, <2>1, <3>1, <3>4, <3>5 DEF Rows, Types, Plain, tables
  <2>4. QED BY <2>2, <2>3
<1>5. CASE CleanCommit
  <2>1. /\ object' = [c \in Content |-> IF c \in gone THEN NoRow
                        ELSE [object[c] EXCEPT !.pending = @ /\ c \notin kept]]
        /\ file' = [f \in File |-> IF \E c \in gone : f \in FilesOf(c)
                                     THEN [file[f] EXCEPT !.state = "gone"] ELSE file[f]]
        /\ CleanEnds /\ UNCHANGED <<ids, blob, aborts>>
    BY <1>5 DEF CleanCommit
  <2>2. \A c \in Content : /\ c \in gone => object'[c] = NoRow
                           /\ c \notin gone => object'[c].id = object[c].id
                           /\ object'[c] \in [id: 0..MaxIds, pending: BOOLEAN]
                           /\ object'[c].id = 0 => object'[c] = NoRow
    <3>1. ASSUME NEW c \in Content
          PROVE  /\ c \in gone => object'[c] = NoRow
                 /\ c \notin gone => object'[c].id = object[c].id
                 /\ object'[c] \in [id: 0..MaxIds, pending: BOOLEAN]
                 /\ object'[c].id = 0 => object'[c] = NoRow
      <4>1. NoRow \in [id: 0..MaxIds, pending: BOOLEAN]
        BY StoreAssumption DEF NoRow
      <4>2. /\ object[c] \in [id: 0..MaxIds, pending: BOOLEAN]
            /\ object[c].id = 0 => object[c] = NoRow
        BY DEF Types, Plain
      <4>3. CASE c \in gone
        BY <2>1, <4>1, <4>3
      <4>4. CASE c \notin gone
        <5>1. object'[c] = [object[c] EXCEPT !.pending = @ /\ c \notin kept]
          BY <2>1, <4>4
        <5>2. QED BY <4>2, <4>4, <5>1 DEF NoRow
      <4>5. QED BY <4>3, <4>4
    <3>2. QED BY <3>1
  <2>3. \A f \in File : file'[f] \in FileRow /\ (file'[f].state = "live" => file'[f] = file[f])
    BY <2>1 DEF Types, Plain, FileRow
  <2>4. Linked'
    BY <2>2, <2>3 DEF Rows, Linked, Unused
  <2>5. Unused'
    BY <2>1 DEF CleanEnds, Unused
  <2>6. Creating'
    <3>1. \A v \in User : pc[v] # "idle" => mem[v].content \in Content
      BY HeldFits DEF Types, Fits, Memory
    <3>2. NoRow.id = 0
      BY DEF NoRow
    <3>3. QED BY <1>1, <2>2, <3>1, <3>2 DEF Rows, Creating, users
  <2>7. Locked'
    <3>1. \A v \in Flushed : /\ mem[v].content \in Content
                             /\ \A p \in mem[v].marks : p.content \in Content
      BY HeldFits DEF Flushed, Types, Fits, Memory
    <3>2. gone' = {}
      BY <2>1 DEF CleanEnds
    <3>3. QED BY <1>1, <2>2, <3>1, <3>2 DEF Rows, Locked, Flushed, NeedsObject, users
  <2>8. Plain'
    <3>1. object' \in [Content -> [id: 0..MaxIds, pending: BOOLEAN]] /\ file' \in [File -> FileRow]
      BY <2>1, <2>2, <2>3
    <3>2. QED BY <2>1, <2>2, <3>1 DEF CleanEnds, Types, Plain
  <2>9. QED BY <1>2, <2>4, <2>5, <2>6, <2>7, <2>8 DEF Types, Rows
<1>6. QED BY <1>3, <1>4, <1>5 DEF Clean

-----------------------------------------------------------------------------

\* No step breaks types, keys and locks.
LEMMA NextInv == Types /\ Rows /\ [Next]_vars => Types' /\ Rows'
<1> SUFFICES ASSUME Types, Rows, [Next]_vars PROVE Types' /\ Rows'
  OBVIOUS
<1>1. CASE UNCHANGED vars
  BY <1>1 DEF vars, tables, users, cleanup, Types, Plain, Held, Counted, Inserting, Rows, Linked,
        Creating, Locked, Unused, Flushed, NeedsObject
<1>2. ASSUME NEW u \in User, Abort(u) PROVE Types' /\ Rows'
  <2>1. aborts' \in 0..MaxAborts
    BY <1>2, StoreAssumption DEF Abort, Types, Plain
  <2>2. QED BY <1>2, <2>1, EndsInv DEF Abort
<1>3. QED
  BY <1>1, <1>2, StoreInv, ReplaceInv, DeleteInv, InsertInv, CheckPutInv, RecordInv, CommitInv,
     CleanInv DEF Next, Continue

\* Rows, sessions and the clean-up keep their types; what the clean-up lists exists.
THEOREM TypeCorrect == Spec => []TypeOK
<1>1. (Types /\ Rows) /\ [Next]_vars => (Types /\ Rows)'
  BY NextInv
<1>2. QED BY <1>1, InitInv, TypesOK, PTL DEF Spec

-----------------------------------------------------------------------------
(* Records and blobs, while the clean-up meets nobody *)

\* The clean-up has the tables to itself.
Apart == cpc # "idle" => \A u \in User : pc[u] = "idle"

\* A session that will make a record refer to a content has its blob stored.
Stored ==
  \A u \in User :
    pc[u] \in {"record", "commit"} /\ mem[u].path # "delete" => mem[u].content \in blob

\* The clean-up has found no reference to what it is about to delete.
Unreferenced == cpc = "delete" => Others(None, object[cur].id) = {}

\* Why a live record has its blob, given Types and Rows.
Blobs == Apart /\ Stored /\ Unreferenced /\ LiveHasBlob

\* At first there is nothing that could have lost its blob.
LEMMA InitBlobs == Init => Blobs
BY DEF Init, Blobs, Apart, Stored, Unreferenced, LiveHasBlob, NoFile

\* A step of a session, with the clean-up at rest.
LEMMA UserBlobs ==
  ASSUME Quiet, Types, Rows, Blobs, NEW u \in User,
         \/ \E c \in Content : Store(u, c)
         \/ \E c \in Content, f \in File : Replace(u, c, f)
         \/ \E f \in File : Delete(u, f)
         \/ Continue(u) \/ Abort(u)
  PROVE  Blobs'
<1>1. cpc = "idle" /\ cpc' = "idle"
  <2>1. cpc' = cpc /\ (pc[u] # "idle" \/ cpc = "idle")
    BY DEF Store, Replace, Delete, Continue, Insert, Check, Put, Record, Commit, Abort, May, cleanup
  <2>2. QED BY <2>1 DEF Blobs, Apart
<1>2. Apart' /\ Unreferenced'
  BY <1>1 DEF Apart, Unreferenced
<1>3. ASSUME NEW step, NEW m, Goes(u, step, m), blob \subseteq blob',
             step \in {"record", "commit"} /\ m.path # "delete" => m.content \in blob'
      PROVE  Stored'
  <2>1. \A v \in User : /\ pc'[v]  = IF v = u THEN step ELSE pc[v]
                        /\ mem'[v] = IF v = u THEN m ELSE mem[v]
    BY <1>3, GoesTo DEF Types
  <2>2. QED BY <1>3, <2>1 DEF Blobs, Stored
<1>4. ASSUME blob \subseteq blob',
             \A f \in File : file'[f].state = "live" =>
               \/ file[f].state = "live" /\ file'[f].content = file[f].content
               \/ file'[f].content \in blob
      PROVE  LiveHasBlob'
  BY <1>4 DEF Blobs, LiveHasBlob
<1>5. ASSUME NEW c \in Content, Store(u, c) PROVE Blobs'
  <2>1. \E m : \E step \in {"insert", "check"} : Goes(u, step, m)
    BY <1>5 DEF Store, Begins
  <2>2. QED BY <1>2, <1>3, <1>4, <1>5, <2>1 DEF Store, tables, Blobs
<1>6. ASSUME NEW c \in Content, NEW f \in File, Replace(u, c, f) PROVE Blobs'
  <2>1. \E m : \E step \in {"insert", "check"} : Goes(u, step, m)
    BY <1>6 DEF Replace, Begins
  <2>2. \A g \in File : file'[g].state = file[g].state /\ file'[g].content = file[g].content
    BY <1>6 DEF Replace, Types, Plain, FileRow
  <2>3. QED BY <1>2, <1>3, <1>4, <1>6, <2>1, <2>2 DEF Replace, Blobs
<1>7. ASSUME NEW f \in File, Delete(u, f) PROVE Blobs'
  <2>1. Goes(u, "record", Session("delete", file[f].content, f, None))
          /\ UNCHANGED <<file, blob>>
    BY <1>7 DEF Delete, tables
  <2>2. Session("delete", file[f].content, f, None).path = "delete"
    BY DEF Session
  <2>3. QED BY <1>2, <1>3, <1>4, <2>1, <2>2 DEF Blobs
<1>8. CASE Insert(u)
  <2>1. \E m : \E step \in {"idle", "put"} : Goes(u, step, m)
    BY <1>8 DEF Insert, Ends
  <2>2. QED BY <1>2, <1>3, <1>4, <1>8, <2>1 DEF Insert, Blobs
<1>9. CASE Check(u)
  <2>1. /\ UNCHANGED <<file, blob, mem>>
        /\ pc' = [pc EXCEPT ![u] = IF mem[u].content \in blob THEN "record" ELSE "put"]
    BY <1>9 DEF Check, tables
  <2>2. Stored'
    BY <2>1 DEF Blobs, Stored, Types, Held
  <2>3. QED BY <1>2, <1>4, <2>1, <2>2 DEF Blobs
<1>10. CASE Put(u)
  <2>1. /\ UNCHANGED <<file, mem>> /\ blob' = blob \cup {mem[u].content}
        /\ pc' = [pc EXCEPT ![u] = "record"]
    BY <1>10 DEF Put, tables
  <2>2. Stored'
    BY <2>1 DEF Blobs, Stored, Types, Held
  <2>3. QED BY <1>2, <1>4, <2>1, <2>2 DEF Blobs
<1>11. CASE Record(u)
  <2>1. pc[u] = "record" /\ UNCHANGED <<file, blob>>
    BY <1>11 DEF Record, tables
  <2>2. PICK m \in Flushes(mem[u]) : Ends(u) \/ Goes(u, "commit", m)
    BY <1>11 DEF Record
  <2>3. m.path = mem[u].path /\ m.content = mem[u].content
    BY <2>1, HeldFits, FlushesMemory DEF Types, Fits
  <2>4. m.path # "delete" => m.content \in blob
    BY <2>1, <2>3 DEF Blobs, Stored
  <2>5. Stored'
    BY <1>3, <2>1, <2>2, <2>4 DEF Ends
  <2>6. QED BY <1>2, <1>4, <2>1, <2>5 DEF Blobs
<1>12. CASE Commit(u)
  <2>1. pc[u] = "commit" /\ Ends(u) /\ blob' = blob
    BY <1>12 DEF Commit
  <2>2. NeedsObject(mem[u]) => mem[u].path # "delete"
    BY <2>1, HeldFits DEF Types, Fits, NeedsObject
  <2>3. NeedsObject(mem[u]) => mem[u].content \in blob
    BY <2>1, <2>2 DEF Blobs, Stored
  <2>4. LiveHasBlob'
    BY <1>4, <1>12, <2>1, <2>3, CommitFile
  <2>5. QED BY <1>2, <1>3, <2>1, <2>4 DEF Blobs, Ends
<1>13. CASE Abort(u)
  BY <1>2, <1>3, <1>4, <1>13 DEF Abort, Ends, tables, Blobs
<1>14. QED
  BY <1>5, <1>6, <1>7, <1>8, <1>9, <1>10, <1>11, <1>12, <1>13 DEF Continue

\* A step of the clean-up: it deletes a blob only if nothing refers to it.
LEMMA CleanBlobs ==
  ASSUME Quiet, Types, Rows, Blobs, Clean \/ CleanAborts
  PROVE  Blobs'
<1>1. UNCHANGED users
  BY DEF Clean, CleanAborts, CleanLoad, CleanCount, CleanKeep, CleanBlob, CleanDrop, CleanCommit
<1>2. CASE CleanLoad
  BY <1>1, <1>2 DEF CleanLoad, Blobs, Apart, Stored, Unreferenced, LiveHasBlob, users, tables
<1>3. ASSUME NEW c \in Content, CleanCount(c) PROVE Blobs'
  <2>1. Unreferenced'
    BY <1>3 DEF CleanCount, Unreferenced, Others, tables
  <2>2. QED
    BY <1>1, <1>3, <2>1 DEF CleanCount, Blobs, Apart, Stored, LiveHasBlob, users, tables
<1>4. CASE CleanKeep \/ CleanDrop \/ CleanAborts
  <2>1. UNCHANGED <<tables, blob>> /\ cpc' \in {"count", "idle"} /\ cpc # "idle"
    BY <1>4 DEF CleanKeep, CleanDrop, CleanAborts, CleanEnds
  <2>2. QED BY <1>1, <2>1 DEF Blobs, Apart, Stored, Unreferenced, LiveHasBlob, users, tables
<1>5. CASE CleanBlob
  <2>1. cpc = "delete" /\ cpc' = "drop" /\ blob' = blob \ {cur} /\ UNCHANGED tables
    BY <1>5 DEF CleanBlob
  <2>2. \A f \in File : file[f].state = "live" => file[f].content # cur
    <3>1. Others(None, object[cur].id) = {}
      BY <2>1 DEF Blobs, Unreferenced
    <3>2. None \notin File
      BY StoreAssumption
    <3>3. QED BY <3>1, <3>2 DEF Others, Rows, Linked
  <2>3. LiveHasBlob'
    BY <2>1, <2>2 DEF Blobs, LiveHasBlob, tables
  <2>4. QED BY <1>1, <2>1, <2>3 DEF Blobs, Apart, Stored, Unreferenced, users
<1>6. CASE CleanCommit
  <2>1. UNCHANGED blob /\ cpc' = "idle"
    BY <1>6 DEF CleanCommit, CleanEnds
  <2>2. \A f \in File : file'[f].state = "live" =>
          file[f].state = "live" /\ file'[f].content = file[f].content
    BY <1>6 DEF CleanCommit, Types, Plain, FileRow
  <2>3. QED
    BY <1>1, <2>1, <2>2 DEF Blobs, Apart, Stored, Unreferenced, LiveHasBlob, users
<1>7. QED BY <1>2, <1>3, <1>4, <1>5, <1>6 DEF Clean

\* If the clean-up meets nobody, no step separates a record from its blob.
LEMMA NextBlobs == Quiet /\ Types /\ Rows /\ Blobs /\ [Next]_vars => Blobs'
<1> SUFFICES ASSUME Quiet, Types, Rows, Blobs, [Next]_vars PROVE Blobs'
  OBVIOUS
<1>1. CASE UNCHANGED vars
  BY <1>1 DEF vars, tables, users, cleanup, Blobs, Apart, Stored, Unreferenced, LiveHasBlob, Others
<1>2. QED BY <1>1, UserBlobs, CleanBlobs DEF Next

\* A record that is not deleted has its blob, however requests and workers share, replace,
\* delete and store a content again (create_record_from_path, replace_record_storage,
\* delete_file), and wherever they or _cleanup_orphan_objects stop.
THEOREM LiveFiles == Quiet => (Spec => []LiveHasBlob)
<1> SUFFICES ASSUME Quiet PROVE Spec => []LiveHasBlob
  OBVIOUS
<1>1. Init => Types /\ Rows /\ Blobs
  BY InitInv, InitBlobs
<1>2. (Types /\ Rows /\ Blobs) /\ [Next]_vars => (Types /\ Rows /\ Blobs)'
  BY NextInv, NextBlobs
<1>3. Blobs => LiveHasBlob
  BY DEF Blobs
<1>4. QED BY <1>1, <1>2, <1>3, PTL DEF Spec

-----------------------------------------------------------------------------
(* Ids of objects *)

\* A session that inserts an object row.
Creator(u) == pc[u] # "idle" /\ mem[u].created

\* No two objects have one id, whether their rows are committed or not.
Distinct ==
  /\ \A c \in Content : object[c].id <= ids
  /\ \A c, d \in Content : object[c].id # 0 /\ object[c].id = object[d].id => c = d
  /\ \A u \in User : Creator(u) =>
       /\ mem[u].id <= ids
       /\ \A c \in Content : object[c].id # mem[u].id
       /\ \A v \in User : Creator(v) /\ mem[v].id = mem[u].id => v = u

\* No ids at first.
LEMMA InitDistinct == Init => Distinct
BY DEF Init, Distinct, Creator, NoRow

\* Fewer objects, fewer creators.
LEMMA DistinctKept ==
  ASSUME Types, Distinct, ids' = ids,
         \A c \in Content : object'[c].id \in {0, object[c].id},
         \A u \in User : Creator(u)' => Creator(u) /\ mem'[u].id = mem[u].id
  PROVE  Distinct'
<1>1. \A u \in User : Creator(u) => mem[u].id # 0
  BY HeldFits DEF Types, Fits, Creator
<1>2. ids \in Nat
  BY DEF Types, Counted
<1>3. QED BY <1>1, <1>2 DEF Distinct

\* A step of a session.
LEMMA UserDistinct ==
  ASSUME Types, Rows, Distinct, NEW u \in User,
         \/ \E c \in Content : Store(u, c)
         \/ \E c \in Content, f \in File : Replace(u, c, f)
         \/ \E f \in File : Delete(u, f)
         \/ Continue(u) \/ Abort(u)
  PROVE  Distinct'
<1>1. ASSUME NEW step, NEW m, Goes(u, step, m), object' = object, ids' = ids,
             \/ step = "idle" \/ ~m.created
             \/ pc[u] # "idle" /\ mem[u].created /\ m.id = mem[u].id
      PROVE  Distinct'
  <2>1. \A v \in User : Creator(v)' => Creator(v) /\ mem'[v].id = mem[v].id
    BY <1>1, GoesTo DEF Types, Creator
  <2>2. QED BY <1>1, <2>1, DistinctKept
<1>a. ASSUME NEW step, NEW path, NEW c, NEW f, NEW old, Goes(u, step, Session(path, c, f, old)),
             object' = object, ids' = ids
      PROVE  Distinct'
  <2> DEFINE m == Session(path, c, f, old)
  <2>1. ~m.created
    BY DEF Session
  <2>2. Goes(u, step, m)
    BY <1>a
  <2> HIDE DEF m
  <2>3. QED BY <1>1, <1>a, <2>1, <2>2
<1>2. ASSUME NEW c \in Content, Store(u, c) PROVE Distinct'
  <2>1. \E step, path : Goes(u, step, Session(path, c, None, None))
    BY <1>2 DEF Store, Begins
  <2>2. UNCHANGED <<object, ids>>
    BY <1>2 DEF Store, tables
  <2>3. QED BY <1>a, <2>1, <2>2
<1>3. ASSUME NEW c \in Content, NEW f \in File, Replace(u, c, f) PROVE Distinct'
  <2>1. \E step : Goes(u, step, Session("replace", c, f, file[f].content))
    BY <1>3 DEF Replace, Begins
  <2>2. QED BY <1>3, <1>a, <2>1 DEF Replace
<1>4. ASSUME NEW f \in File, Delete(u, f) PROVE Distinct'
  BY <1>4, <1>a DEF Delete, tables
<1>5. CASE Check(u) \/ Put(u)
  <2>1. Goes(u, pc'[u], mem[u]) /\ pc[u] # "idle" /\ UNCHANGED tables
    BY <1>5 DEF Check, Put, Goes, Types, Held
  <2>2. QED BY <1>1, <2>1 DEF tables
<1>6. CASE Record(u)
  <2>1. pc[u] = "record" /\ UNCHANGED tables
    BY <1>6 DEF Record
  <2>2. PICK m \in Flushes(mem[u]) : Ends(u) \/ Goes(u, "commit", m)
    BY <1>6 DEF Record
  <2>3. m.created = mem[u].created /\ m.id = mem[u].id
    BY <2>1, HeldFits, FlushesMemory DEF Types, Fits
  <2>4. QED BY <1>1, <2>1, <2>2, <2>3 DEF Ends, tables
<1>7. CASE Abort(u)
  BY <1>1, <1>7 DEF Abort, Ends, tables
<1>8. CASE Insert(u)
  <2>1. pc[u] = "insert" /\ object' = object
    BY <1>8 DEF Insert
  <2>2. CASE Ends(u) /\ ids' = ids
    BY <1>1, <2>1, <2>2 DEF Ends
  <2>3. CASE ~(Ends(u) /\ ids' = ids)
    <3> DEFINE m == [mem[u] EXCEPT !.created = TRUE, !.id = ids']
    <3>1. ids' = ids + 1 /\ Goes(u, "put", m)
      BY <1>8, <2>3 DEF Insert
    <3>2. mem[u] \in Memory
      BY <2>1, HeldFits DEF Types, Fits
    <3>3. m.id = ids + 1
      BY <3>1, <3>2 DEF Memory
    <3> HIDE DEF m
    <3>4. \A v \in User : v # u => (Creator(v)' <=> Creator(v)) /\ mem'[v] = mem[v]
      BY <3>1, GoesTo DEF Types, Creator
    <3>5. mem'[u] = m
      BY <3>1, GoesTo DEF Types
    <3>6. /\ ids \in Nat /\ \A c \in Content : object[c].id \in Nat
          /\ \A v \in User : Creator(v) => mem[v].id \in Nat
      BY HeldFits, StoreAssumption DEF Types, Counted, Plain, Fits, Memory, Creator
    <3>7. QED BY <2>1, <3>1, <3>3, <3>4, <3>5, <3>6 DEF Distinct
  <2>4. QED BY <2>2, <2>3
<1>9. CASE Commit(u)
  <2> DEFINE m == mem[u]
  <2>1. pc[u] = "commit" /\ Ends(u) /\ ids' = ids
    BY <1>9 DEF Commit
  <2>2. /\ m.created => object'[m.content].id = m.id
        /\ \A c \in Content : ~(m.created /\ c = m.content) => object'[c].id = object[c].id
    BY <1>9, CommitObject
  <2>3. \A v \in User : Creator(v)' => v # u /\ Creator(v) /\ mem'[v] = mem[v]
    BY <2>1, GoesTo DEF Types, Ends, Creator
  <2>4. m.content \in Content
    BY <2>1, HeldFits DEF Types, Fits, Memory
  <2>5. CASE ~m.created
    BY <2>1, <2>2, <2>3, <2>5, DistinctKept
  <2>6. CASE m.created
    <3>1. Creator(u)
      BY <2>1, <2>6 DEF Creator
    <3> HIDE DEF m
    <3>2. /\ m.id <= ids /\ \A c \in Content : object[c].id # m.id
          /\ \A v \in User : Creator(v) /\ mem[v].id = m.id => v = u
      BY <3>1 DEF Distinct, m
    <3>3. \A c \in Content : object'[c].id = IF c = m.content THEN m.id ELSE object[c].id
      BY <2>2, <2>6
    <3>4. QED BY <2>1, <2>3, <2>4, <3>2, <3>3 DEF Distinct
  <2>7. QED BY <2>5, <2>6
<1>10. QED
  BY <1>2, <1>3, <1>4, <1>5, <1>6, <1>7, <1>8, <1>9 DEF Continue

\* No step gives an id twice.
LEMMA NextDistinct == Types /\ Rows /\ Distinct /\ [Next]_vars => Distinct'
<1> SUFFICES ASSUME Types, Rows, Distinct, [Next]_vars PROVE Distinct'
  OBVIOUS
<1>1. CASE UNCHANGED vars
  BY <1>1 DEF vars, tables, users, Distinct, Creator
<1>2. CASE Clean \/ CleanAborts
  <2>1. UNCHANGED users /\ ids' = ids
    BY <1>2 DEF Clean, CleanAborts, CleanLoad, CleanCount, CleanKeep, CleanBlob, CleanDrop,
          CleanCommit, tables
  <2>2. \A c \in Content : object'[c].id \in {0, object[c].id}
    <3>1. CASE CleanCommit
      BY <3>1 DEF CleanCommit, NoRow, Types, Plain
    <3>2. CASE ~CleanCommit
      BY <1>2, <3>2 DEF Clean, CleanAborts, CleanLoad, CleanCount, CleanKeep, CleanBlob,
            CleanDrop, tables
    <3>3. QED BY <3>1, <3>2
  <2>3. QED BY <2>1, <2>2, DistinctKept DEF Creator, users
<1>3. QED BY <1>1, <1>2, UserDistinct DEF Next

\* Rows never lie, whether or not the clean-up runs beside requests and workers: the object a
\* live record refers to is there and is that of its content, and no id is given to two objects.
\* What the race of _cleanup_orphan_objects with a session that stores the content again may
\* lose is the blob, and nothing else.
THEOREM References == Spec => [](Linked /\ Distinct)
<1>1. (Types /\ Rows /\ Distinct) /\ [Next]_vars => (Types /\ Rows /\ Distinct)'
  BY NextInv, NextDistinct
<1>2. Init => Types /\ Rows /\ Distinct
  BY InitInv, InitDistinct
<1>3. Rows => Linked
  BY DEF Rows
<1>4. QED BY <1>1, <1>2, <1>3, PTL DEF Spec

-----------------------------------------------------------------------------
(* Objects that nothing refers to, while the clean-up meets nobody and there is one request
   at a time *)

\* One request at a time, beside any number of workers.
OneClient == \A p, q \in Client : p = q

\* The content that a record stops referring to.
From(m) == IF m.path = "delete" THEN m.content ELSE m.old

\* The id of its object.
FromId(m) == IF m.path = "delete" THEN m.id ELSE m.oldId

\* That object is on the list, or in use elsewhere.
Spare(m) == object[From(m)].pending \/ Others(m.file, FromId(m)) # {}

\* What a session that is under way takes for granted of the tables.
Taken(u) ==
  LET m == mem[u]
  IN  /\ m.path = "register" <=> u \in Worker
      /\ m.path \in {"delete", "replace"} =>
           /\ m.file \in File /\ file[m.file].state = "live"
           /\ file[m.file].content = From(m) /\ file[m.file].id = FromId(m)
      /\ m.path = "delete" /\ m.seen => Spare(m)
      /\ pc[u] = "commit" =>
           /\ m.path = "register" => m.adds
           /\ m.path = "upload" /\ ~m.adds => m.file \in Live(m.content)
           /\ m.path \in {"delete", "replace"} =>
                \/ Mark(From(m), TRUE) \in m.marks \/ Spare(m)
                \/ m.path = "replace" /\ m.oldId = m.id
           /\ \A p \in m.marks :
                \/ p = Mark(From(m), TRUE) /\ m.path \in {"delete", "replace"}
                \/ p = Mark(m.content, FALSE) /\ m.path # "delete"

\* What all sessions under way take for granted.
Granted == \A u \in User : pc[u] # "idle" => Taken(u)

\* What the clean-up has found.
Swept ==
  /\ cpc = "keep" => Others(None, object[cur].id) # {}
  /\ \A c \in kept : Others(None, object[c].id) # {}
  /\ \A c \in gone : \A f \in File : file[f].state = "live" => file[f].id # object[c].id
  /\ cpc = "idle" => kept = {} /\ gone = {}

\* Why an orphan is on the list, given Types, Rows and Distinct.
Lists == Apart /\ Granted /\ OrphanListed /\ Swept

\* No objects at first.
LEMMA InitLists == Init => Lists
BY DEF Init, Lists, Apart, Granted, OrphanListed, Swept, Orphan, NoFile

\* Live records as they were.
SameLive ==
  \A f \in File : /\ file'[f].state = file[f].state
                  /\ file'[f].content = file[f].content /\ file'[f].id = file[f].id

\* What a session takes for granted stays if objects and live records do.
LEMMA TakenKept ==
  ASSUME NEW u \in User, Taken(u), object' = object, SameLive,
         mem'[u] = mem[u], pc'[u] = pc[u]
  PROVE  Taken(u)'
<1>1. Others(mem[u].file, FromId(mem[u]))' = Others(mem[u].file, FromId(mem[u]))
  BY DEF Others, SameLive, FromId
<1>2. Spare(mem[u])' <=> Spare(mem[u])
  BY <1>1 DEF Spare, From, FromId
<1>3. Live(mem[u].content)' = Live(mem[u].content)
  BY DEF Live, SameLive
<1>4. From(mem[u])' = From(mem[u]) /\ FromId(mem[u])' = FromId(mem[u])
  BY DEF From, FromId
<1>5. QED BY <1>2, <1>3, <1>4 DEF Taken, SameLive, Mark

\* Then orphans stay as they were, too.
LEMMA ListedKept ==
  ASSUME OrphanListed, object' = object, SameLive
  PROVE  OrphanListed'
BY DEF OrphanListed, Orphan, SameLive

\* A session goes on, other sessions and the lists stay.
LEMMA GoesLists ==
  ASSUME Types, Lists, NEW u \in User, NEW step, NEW m, Goes(u, step, m),
         object' = object, SameLive, cpc = "idle", UNCHANGED cleanup,
         step = "idle" \/ Taken(u)'
  PROVE  Lists'
<1>1. \A v \in User : /\ pc'[v]  = IF v = u THEN step ELSE pc[v]
                      /\ mem'[v] = IF v = u THEN m ELSE mem[v]
  BY GoesTo DEF Types
<1>2. Granted'
  <2>1. ASSUME NEW v \in User, pc'[v] # "idle" PROVE Taken(v)'
    BY <1>1, <2>1, TakenKept DEF Lists, Granted
  <2>2. QED BY <2>1 DEF Granted
<1>3. OrphanListed'
  BY ListedKept DEF Lists
<1>4. Apart' /\ Swept'
  BY DEF Lists, Apart, Swept, cleanup
<1>5. QED BY <1>2, <1>3, <1>4 DEF Lists

\* A step of a session before its commit.
LEMMA WorkLists ==
  ASSUME Quiet, Types, Rows, Lists, NEW u \in User,
         \/ \E c \in Content : Store(u, c)
         \/ \E c \in Content, f \in File : Replace(u, c, f)
         \/ \E f \in File : Delete(u, f)
         \/ Insert(u) \/ Check(u) \/ Put(u) \/ Record(u) \/ Abort(u)
  PROVE  Lists'
<1>1. cpc = "idle" /\ UNCHANGED <<object, cleanup>>
  <2>1. UNCHANGED <<object, cleanup>> /\ (pc[u] # "idle" \/ cpc = "idle")
    BY DEF Store, Replace, Delete, Insert, Check, Put, Record, Abort, May, tables
  <2>2. QED BY <2>1 DEF Lists, Apart
<1>2. SameLive
  <2>1. CASE file' = file
    BY <2>1 DEF SameLive
  <2>2. CASE \E c \in Content, f \in File : Replace(u, c, f)
    <3>1. PICK f \in File : file' = [file EXCEPT ![f].uploaded = TRUE]
      BY <2>2 DEF Replace
    <3>2. file \in [File -> FileRow]
      BY DEF Types, Plain
    <3>3. QED BY <3>1, <3>2 DEF SameLive, FileRow
  <2>3. QED
    BY <2>1, <2>2 DEF Store, Delete, Insert, Check, Put, Record, Abort, tables
<1>3. ASSUME NEW c \in Content, Store(u, c) PROVE Lists'
  <2> DEFINE path == IF u \in Client THEN "upload" ELSE "register"
             m == Session(path, c, None, None)
  <2>1. PICK step \in {"insert", "check"} : Goes(u, step, m)
    BY <1>3 DEF Store, Begins
  <2>2. m.path = path
    BY DEF Session
  <2>3. path \in {"upload", "register"} /\ (path = "register" <=> u \in Worker)
    BY StoreAssumption DEF User
  <2> HIDE DEF m, path
  <2>4. mem'[u] = m /\ pc'[u] = step
    BY <2>1, GoesTo DEF Types
  <2>5. Taken(u)'
    BY <2>1, <2>2, <2>3, <2>4 DEF Taken
  <2>6. QED BY <1>1, <1>2, <2>1, <2>5, GoesLists
<1>4. ASSUME NEW c \in Content, NEW f \in File, Replace(u, c, f) PROVE Lists'
  <2> DEFINE m == Session("replace", c, f, file[f].content)
  <2>1. PICK step \in {"insert", "check"} : Goes(u, step, m)
    BY <1>4 DEF Replace, Begins
  <2>2. file[f].state = "live" /\ u \notin Worker
    BY <1>4, StoreAssumption DEF Replace
  <2>3. file[f].content \in Content /\ object[file[f].content].id = file[f].id
    BY <2>2 DEF Rows, Linked
  <2>4. /\ m.path = "replace" /\ m.file = f /\ m.old = file[f].content /\ m.oldId = file[f].id
    BY <2>3, StoreAssumption DEF Session
  <2> HIDE DEF m
  <2>5. mem'[u] = m /\ pc'[u] = step
    BY <2>1, GoesTo DEF Types
  <2>6. Taken(u)'
    BY <1>2, <2>1, <2>2, <2>4, <2>5 DEF Taken, From, FromId, SameLive
  <2>7. QED BY <1>1, <1>2, <2>1, <2>6, GoesLists
<1>5. ASSUME NEW f \in File, Delete(u, f) PROVE Lists'
  <2> DEFINE m == Session("delete", file[f].content, f, None)
  <2>1. Goes(u, "record", m)
    BY <1>5 DEF Delete
  <2>2. file[f].state = "live" /\ u \notin Worker
    BY <1>5, StoreAssumption DEF Delete
  <2>3. file[f].content \in Content /\ object[file[f].content].id = file[f].id
    BY <2>2 DEF Rows, Linked
  <2>4. /\ m.path = "delete" /\ m.file = f /\ m.content = file[f].content /\ m.id = file[f].id
        /\ m.seen = object[m.content].pending
    BY <2>3 DEF Session
  <2> HIDE DEF m
  <2>5. mem'[u] = m /\ pc'[u] = "record"
    BY <2>1, GoesTo DEF Types
  <2>6. m.seen => object'[m.content].pending
    BY <1>1, <2>4
  <2>7. Taken(u)'
    BY <1>2, <2>2, <2>4, <2>5, <2>6 DEF Taken, From, FromId, SameLive, Spare
  <2>8. QED BY <1>1, <1>2, <2>1, <2>7, GoesLists
<1>6. ASSUME NEW m, NEW step \in {"put", "record"}, Goes(u, step, m),
             pc[u] # "idle", pc[u] # "commit", m.path = mem[u].path, m.file = mem[u].file,
             m.content = mem[u].content, m.old = mem[u].old, m.oldId = mem[u].oldId,
             m.seen = mem[u].seen, m.path = "delete" => m.id = mem[u].id
      PROVE  Lists'
  <2>1. mem'[u] = m /\ pc'[u] = step
    BY <1>6, GoesTo DEF Types
  <2>2. From(m) = From(mem[u])
    BY <1>6 DEF From
  <2>3. m.path \in {"delete", "replace"} => FromId(m) = FromId(mem[u])
    BY <1>6 DEF FromId
  <2>4. Taken(u)
    BY <1>6 DEF Lists, Granted
  <2>5. m.path = "delete" /\ Spare(mem[u]) => Spare(mem[u])'
    <3>1. \A f, i : Others(f, i)' = Others(f, i)
      BY <1>2 DEF Others, SameLive
    <3>2. From(mem[u])' = From(mem[u])
      BY <2>1, <2>2 DEF From
    <3>3. m.path = "delete" => FromId(mem[u])' = FromId(mem[u])
      BY <2>1, <2>3 DEF FromId
    <3>4. mem[u].file' = mem[u].file
      BY <1>6, <2>1
    <3>5. QED BY <1>1, <3>1, <3>2, <3>3, <3>4 DEF Spare, Others
  <2>6. Taken(u)'
    BY <1>2, <1>6, <2>1, <2>2, <2>3, <2>4, <2>5 DEF Taken, From, FromId, SameLive
  <2>7. QED BY <1>1, <1>2, <1>6, <2>6, GoesLists
<1>7. CASE Abort(u)
  BY <1>1, <1>2, <1>7, GoesLists DEF Abort, Ends
<1>8. CASE Check(u) \/ Put(u)
  <2>1. /\ Goes(u, pc'[u], mem[u]) /\ pc[u] \in {"check", "put"} /\ pc'[u] \in {"put", "record"}
    BY <1>8 DEF Check, Put, Goes, Types, Held
  <2>2. QED BY <1>6, <2>1
<1>9. CASE Insert(u)
  <2>1. pc[u] = "insert"
    BY <1>9 DEF Insert
  <2>2. CASE Ends(u)
    BY <1>1, <1>2, <2>2, GoesLists DEF Ends
  <2>3. CASE ~Ends(u)
    <3> DEFINE m == [mem[u] EXCEPT !.created = TRUE, !.id = ids']
    <3>1. Goes(u, "put", m)
      BY <1>9, <2>3 DEF Insert
    <3>2. mem[u] \in Memory /\ mem[u].path # "delete"
      BY <2>1, HeldFits DEF Types, Fits
    <3>3. /\ m.path = mem[u].path /\ m.file = mem[u].file /\ m.content = mem[u].content
          /\ m.old = mem[u].old /\ m.oldId = mem[u].oldId /\ m.seen = mem[u].seen
      BY <3>2 DEF Memory
    <3> HIDE DEF m
    <3>4. QED BY <1>6, <2>1, <3>1, <3>2, <3>3
  <2>4. QED BY <2>2, <2>3
<1>10. CASE Record(u)
  <2> DEFINE n == mem[u]
  <2>1. pc[u] = "record"
    BY <1>10 DEF Record
  <2>2. PICK m \in Flushes(n) : Ends(u) \/ Goes(u, "commit", m)
    BY <1>10 DEF Record
  <2>3. CASE Ends(u)
    BY <1>1, <1>2, <2>3, GoesLists DEF Ends
  <2>4. CASE Goes(u, "commit", m)
    <3>1. mem'[u] = m /\ pc'[u] = "commit"
      BY <2>4, GoesTo DEF Types
    <3>2. /\ m \in Memory /\ m.marks = MarksOf(n) /\ m.path = n.path /\ m.content = n.content
          /\ m.id = n.id /\ m.seen = n.seen /\ m.oldId = n.oldId /\ m.old = n.old
          /\ n.path \in {"replace", "delete"} => m.file = n.file
          /\ n.path = "register" => m.adds
          /\ n.path = "upload" /\ ~m.adds => m.file \in Live(n.content)
      BY <2>1, HeldFits, FlushesMemory DEF Types, Fits
    <3>3. Taken(u)
      BY <2>1 DEF Lists, Granted
    <3> HIDE DEF n
    <3>4. /\ From(m) = From(n) /\ FromId(m) = FromId(n)
          /\ m.path \in {"replace", "delete"} => (Spare(m) <=> Spare(n))
      BY <3>2 DEF From, FromId, Spare
    <3>5. m.path = "delete" => Mark(From(m), TRUE) \in m.marks \/ Spare(m)
      BY <3>2, <3>3, <3>4 DEF MarksOf, When, From, FromId, Spare, Taken, n
    <3>6. m.path = "replace" => \/ Mark(From(m), TRUE) \in m.marks \/ Spare(m) \/ m.oldId = m.id
      <4>1. SUFFICES ASSUME m.path = "replace", m.oldId # m.id, ~Spare(m)
                     PROVE  Mark(From(m), TRUE) \in m.marks
        OBVIOUS
      <4>2. From(m) = m.old /\ FromId(m) = m.oldId
        BY <4>1 DEF From, FromId
      <4>3. Others(m.file, m.oldId) = {} /\ ~object[m.old].pending
        BY <4>1, <4>2 DEF Spare
      <4>4. m.file \in File /\ file[m.file].state = "live" /\ file[m.file].content = m.old
              /\ file[m.file].id = m.oldId
        BY <3>2, <3>3, <3>4, <4>1, <4>2 DEF Taken, n
      <4>5. object[m.old].id = m.oldId /\ m.old \in Content
        BY <4>4 DEF Rows, Linked
      <4>6. object[m.old] = [id |-> m.oldId, pending |-> FALSE]
        BY <4>3, <4>5 DEF Types, Plain
      <4>7. Mark(n.old, TRUE) \in MarksOf(n)
        BY <3>2, <4>1, <4>3, <4>6 DEF MarksOf, When
      <4>8. QED BY <3>2, <4>2, <4>7
    <3>7. \A p \in m.marks : \/ p = Mark(From(m), TRUE) /\ m.path \in {"delete", "replace"}
                             \/ p = Mark(m.content, FALSE) /\ m.path # "delete"
      BY <3>2 DEF MarksOf, When, From
    <3>8. /\ m.path = "register" <=> u \in Worker
          /\ m.path \in {"delete", "replace"} =>
               /\ m.file \in File /\ file[m.file].state = "live"
               /\ file[m.file].content = From(m) /\ file[m.file].id = FromId(m)
          /\ m.path = "delete" /\ m.seen => Spare(m)
      BY <3>2, <3>3, <3>4 DEF Taken, n
    <3>9. Spare(m) => Spare(mem[u])'
      <4>1. \A f, i : Others(f, i)' = Others(f, i)
        BY <1>2 DEF Others, SameLive
      <4>2. From(mem[u])' = From(m) /\ FromId(mem[u])' = FromId(m) /\ mem[u].file' = m.file
        BY <3>1 DEF From, FromId
      <4>3. QED BY <1>1, <4>1, <4>2 DEF Spare, Others
    <3>10. Live(m.content)' = Live(m.content)
      BY <1>2 DEF Live, SameLive
    <3>11. From(mem[u])' = From(m) /\ FromId(mem[u])' = FromId(m)
      BY <3>1 DEF From, FromId
    <3>12. m.path = "upload" /\ ~m.adds => m.file \in Live(mem[u].content)'
      BY <1>2, <3>1, <3>2 DEF Live, SameLive
    <3>13. Taken(u)'
      BY <1>2, <3>1, <3>2, <3>5, <3>6, <3>7, <3>8, <3>9, <3>11, <3>12 DEF Taken, SameLive, Mark
    <3>14. QED BY <1>1, <1>2, <2>4, <3>13, GoesLists
  <2>5. QED BY <2>2, <2>3, <2>4
<1>11. QED
  BY <1>3, <1>4, <1>5, <1>7, <1>8, <1>9, <1>10

\* How a commit changes the records.
LEMMA CommitRecords ==
  ASSUME Types, NEW u \in User, Commit(u)
  PROVE  /\ mem[u].adds =>
              \E f \in File : /\ file[f].state = "none" /\ file'[f].state = "live"
                              /\ file'[f].content = mem[u].content /\ file'[f].id = mem[u].id
                              /\ \A g \in File \ {f} : file'[g] = file[g]
         /\ mem[u].path = "replace" =>
              \A g \in File : /\ file'[g].state = file[g].state
                              /\ g = mem[u].file => file'[g].id = mem[u].id
                              /\ g # mem[u].file => file'[g] = file[g]
         /\ mem[u].path = "delete" => \A g \in File \ {mem[u].file} : file'[g] = file[g]
         /\ ~mem[u].adds /\ mem[u].path \notin {"replace", "delete"} => SameLive
<1> DEFINE m == mem[u]
           New(row) ==
             CASE m.path = "delete"  -> [row EXCEPT !.state = "deleted"]
               [] m.path = "replace" -> [row EXCEPT !.content = m.content, !.id = m.id]
               [] m.adds             -> [content |-> m.content, id |-> m.id, state |-> "live",
                                         uploaded |-> m.path = "upload"]
               [] OTHER              -> [row EXCEPT !.uploaded = TRUE]
<1>1. m \in Memory /\ (m.adds => m.path \notin {"replace", "delete"})
  BY HeldFits DEF Commit, Types, Fits
<1>2. PICK f \in IF m.adds THEN {g \in File : file[g].state = "none"} ELSE {m.file} :
        file' = [file EXCEPT ![f] = New(file[f])]
  BY DEF Commit
<1>3. ASSUME NEW row
      PROVE  /\ m.path = "delete" => New(row) = [row EXCEPT !.state = "deleted"]
             /\ m.path = "replace" => New(row) = [row EXCEPT !.content = m.content, !.id = m.id]
             /\ m.adds => New(row) = [content |-> m.content, id |-> m.id, state |-> "live",
                                      uploaded |-> m.path = "upload"]
             /\ m.path \notin {"delete", "replace"} /\ ~m.adds =>
                  New(row) = [row EXCEPT !.uploaded = TRUE]
  <2>1. m.path = "delete" => New(row) = [row EXCEPT !.state = "deleted"]
    BY <1>1
  <2>2. m.path = "replace" => New(row) = [row EXCEPT !.content = m.content, !.id = m.id]
    BY <1>1
  <2>3. m.adds => New(row) = [content |-> m.content, id |-> m.id, state |-> "live",
                              uploaded |-> m.path = "upload"]
    BY <1>1
  <2>4. m.path \notin {"delete", "replace"} /\ ~m.adds => New(row) = [row EXCEPT !.uploaded = TRUE]
    OBVIOUS
  <2>5. QED BY <2>1, <2>2, <2>3, <2>4
<1>4. file \in [File -> FileRow]
  BY DEF Types, Plain
<1> HIDE DEF m, New
<1>5. \A g \in File : (g = f => file'[g] = New(file[g])) /\ (g # f => file'[g] = file[g])
  BY <1>2, <1>4
<1>6. CASE m.adds
  <2>1. f \in File /\ file[f].state = "none"
    BY <1>2, <1>6
  <2>2. New(file[f]) = [content |-> m.content, id |-> m.id, state |-> "live",
                        uploaded |-> m.path = "upload"]
    BY <1>3, <1>6
  <2>3. /\ file'[f].state = "live" /\ file'[f].content = m.content /\ file'[f].id = m.id
        /\ \A g \in File \ {f} : file'[g] = file[g]
    BY <1>5, <2>1, <2>2
  <2>4. \E g \in File : /\ file[g].state = "none" /\ file'[g].state = "live"
                        /\ file'[g].content = m.content /\ file'[g].id = m.id
                        /\ \A h \in File \ {g} : file'[h] = file[h]
    BY <2>1, <2>3
  <2>5. QED BY <1>1, <1>6, <2>4 DEF m
<1>7. CASE m.path = "replace"
  <2>1. f = m.file /\ ~m.adds
    BY <1>1, <1>2, <1>7
  <2>2. ASSUME NEW row \in FileRow PROVE New(row).state = row.state /\ New(row).id = m.id
    <3>1. New(row) = [row EXCEPT !.content = m.content, !.id = m.id]
      BY <1>3, <1>7
    <3>2. QED BY <3>1 DEF FileRow
  <2>3. QED BY <1>4, <1>5, <1>7, <2>1, <2>2 DEF m
<1>8. CASE m.path = "delete"
  <2>1. f = m.file /\ ~m.adds
    BY <1>1, <1>2, <1>8
  <2>2. QED BY <1>5, <1>8, <2>1 DEF m
<1>9. CASE ~m.adds /\ m.path \notin {"replace", "delete"}
  <2>1. ASSUME NEW row \in FileRow
        PROVE  /\ New(row).state = row.state
               /\ New(row).content = row.content /\ New(row).id = row.id
    <3>1. New(row) = [row EXCEPT !.uploaded = TRUE]
      BY <1>3, <1>9
    <3>2. QED BY <3>1 DEF FileRow
  <2>2. SameLive
    BY <1>4, <1>5, <2>1 DEF SameLive
  <2>3. QED BY <1>9, <2>2 DEF m
<1>10. QED BY <1>6, <1>7, <1>8, <1>9

\* What a commit does to the list.
LEMMA CommitPending ==
  ASSUME Types, NEW u \in User, Commit(u), NEW c \in Content
  PROVE  /\ ~(c = mem[u].content /\ mem[u].created) /\ Mark(c, TRUE) \in mem[u].marks =>
              object'[c].pending
         /\ ~(c = mem[u].content /\ mem[u].created) /\ (\A p \in mem[u].marks : p.content # c) =>
              object'[c] = object[c]
<1> DEFINE m == mem[u]
<1>1. object' = [d \in Content |->
               IF d = m.content /\ m.created THEN [id |-> m.id, pending |-> FALSE]
               ELSE IF \E p \in m.marks : p.content = d
                 THEN [object[d] EXCEPT !.pending = Mark(d, TRUE) \in m.marks]
               ELSE object[d]]
  BY DEF Commit
<1>2. object[c] \in [id: 0..MaxIds, pending: BOOLEAN]
  BY DEF Types, Plain
<1>3. Mark(c, TRUE).content = c
  BY DEF Mark
<1> HIDE DEF m
<1>4. ASSUME ~(c = m.content /\ m.created), Mark(c, TRUE) \in m.marks PROVE object'[c].pending
  <2>1. object'[c] = [object[c] EXCEPT !.pending = Mark(c, TRUE) \in m.marks]
    BY <1>1, <1>3, <1>4
  <2>2. \A row \in [id: 0..MaxIds, pending: BOOLEAN] : \A b \in BOOLEAN :
          [row EXCEPT !.pending = b].pending = b
    OBVIOUS
  <2>3. [object[c] EXCEPT !.pending = TRUE].pending
    BY <1>2, <2>2
  <2>4. (Mark(c, TRUE) \in m.marks) = TRUE
    BY <1>4
  <2>5. QED BY <2>1, <2>3, <2>4
<1>5. ASSUME ~(c = m.content /\ m.created), \A p \in m.marks : p.content # c
      PROVE  object'[c] = object[c]
  BY <1>1, <1>5
<1>6. QED BY <1>4, <1>5 DEF m

\* What a session takes for granted survives the commit of another one.
LEMMA CommitTaken ==
  ASSUME OneClient, Types, Rows, NEW u \in User, Commit(u), Taken(u),
         NEW v \in User, v # u, pc[v] # "idle", Taken(v)
  PROVE  Taken(v)'
<1> DEFINE m == mem[u]
           n == mem[v]
<1>1. pc'[v] = pc[v] /\ mem'[v] = n
  BY GoesTo DEF Commit, Ends, Types
<1>2. From(n)' = From(n) /\ FromId(n)' = FromId(n)
  BY <1>1 DEF From, FromId
<1>3. CASE v \in Worker
  <2>1. n.path = "register"
    BY <1>3 DEF Taken
  <2>2. QED BY <1>1, <1>2, <1>3, <2>1 DEF Taken, Mark
<1>4. CASE v \notin Worker
  <2>1. u \in Worker /\ pc[u] = "commit" /\ u \in Flushed
    BY <1>4 DEF OneClient, User, Commit, Flushed
  <2>2. m.path = "register" /\ m.adds
    BY <2>1 DEF Taken
  <2>3. PICK f \in File : /\ file[f].state = "none" /\ file'[f].state = "live"
                          /\ file'[f].content = m.content /\ file'[f].id = m.id
                          /\ \A g \in File \ {f} : file'[g] = file[g]
    BY <2>2, CommitRecords
  <2>4. ASSUME n.path \in {"delete", "replace"}
        PROVE  /\ n.file \in File /\ file'[n.file].state = "live"
               /\ file'[n.file].content = From(n) /\ file'[n.file].id = FromId(n)
    <3>1. /\ n.file \in File /\ file[n.file].state = "live"
          /\ file[n.file].content = From(n) /\ file[n.file].id = FromId(n)
      BY <2>4 DEF Taken
    <3>2. QED BY <2>3, <3>1
  <2>5. ASSUME n.path \in {"delete", "replace"}, Spare(n) PROVE Spare(n)'
    <3> DEFINE c == From(n)
               id == FromId(n)
    <3>1. /\ n.file \in File /\ file[n.file].state = "live"
          /\ file[n.file].content = c /\ file[n.file].id = id
      BY <2>5 DEF Taken
    <3>2. c \in Content /\ object[c].id = id /\ id # 0
      BY <3>1 DEF Rows, Linked
    <3>3. n.file # f
      BY <2>3, <3>1
    <3>4. object'[c].pending \/ (\E g \in File : /\ g # n.file /\ file'[g].state = "live"
                                                 /\ file'[g].id = id) => Spare(n)'
      BY <1>1, <1>2 DEF Spare, Others
    <3>5. Spare(n) <=> object[c].pending \/ Others(n.file, id) # {}
      BY DEF Spare
    <3> HIDE DEF c, id
    <3>6. CASE Others(n.file, id) # {}
      <4>1. PICK h \in File : h # n.file /\ file[h].state = "live" /\ file[h].id = id
        BY <3>6 DEF Others
      <4>2. file'[h] = file[h]
        BY <2>3, <4>1
      <4>3. QED BY <3>4, <4>1, <4>2
    <3>7. CASE object[c].pending /\ ~(c = m.content /\ m.created) /\ \A p \in m.marks : p.content # c
      <4>1. object'[c] = object[c]
        BY <3>2, <3>7, CommitPending
      <4>2. QED BY <3>4, <3>7, <4>1
    <3>8. CASE c = m.content /\ m.created
      BY <2>1, <3>2, <3>8 DEF Rows, Creating
    <3>9. CASE c # m.content \/ ~m.created
      <4>1. CASE \E p \in m.marks : p.content = c
        <5>1. c = m.content
          BY <2>1, <2>2, <4>1 DEF Taken, Mark
        <5>2. object[c].id = m.id
          BY <2>1, <2>2, <3>9, <5>1 DEF Rows, Locked, NeedsObject
        <5>3. QED BY <2>3, <3>2, <3>3, <3>4, <5>1, <5>2
      <4>2. CASE ~\E p \in m.marks : p.content = c
        BY <2>5, <3>5, <3>6, <3>7, <3>9, <4>2
      <4>3. QED BY <4>1, <4>2
    <3>10. QED BY <3>8, <3>9
  <2>6. Live(n.content) \subseteq Live(n.content)'
    BY <1>1, <2>3 DEF Live
  <2>7. QED BY <1>1, <1>2, <1>4, <2>4, <2>5, <2>6 DEF Taken, Mark
<1>5. QED BY <1>3, <1>4

\* A commit leaves no orphan off the list.
LEMMA CommitListed ==
  ASSUME Types, Rows, Distinct, NEW u \in User, Commit(u), Taken(u), OrphanListed
  PROVE  OrphanListed'
<1> DEFINE m == mem[u]
<1>1. pc[u] = "commit" /\ u \in Flushed
  BY DEF Commit, Flushed
<1>2. /\ m \in Memory /\ m.id # 0 /\ (m.created => ~m.seen /\ m.path # "delete")
      /\ m.adds => m.path \notin {"replace", "delete"}
      /\ m.path \in {"upload", "register", "replace", "delete"}
  BY <1>1, HeldFits DEF Types, Fits, Memory
<1>3. /\ m.created => object'[m.content].id = m.id
      /\ \A c \in Content : ~(m.created /\ c = m.content) => object'[c].id = object[c].id
  BY CommitObject
<1>4. NeedsObject(m) => m.created \/ object[m.content].id = m.id
  BY <1>1 DEF Rows, Locked
<1>5. /\ m.path = "register" => m.adds
      /\ m.path = "upload" /\ ~m.adds => m.file \in Live(m.content)
      /\ m.path \in {"delete", "replace"} =>
           /\ m.file \in File /\ file[m.file].state = "live"
           /\ file[m.file].content = From(m) /\ file[m.file].id = FromId(m)
           /\ \/ Mark(From(m), TRUE) \in m.marks \/ Spare(m)
              \/ m.path = "replace" /\ m.oldId = m.id
      /\ \A p \in m.marks :
           \/ p = Mark(From(m), TRUE) /\ m.path \in {"delete", "replace"}
           \/ p = Mark(m.content, FALSE) /\ m.path # "delete"
  BY <1>1 DEF Taken
<1>6. /\ m.adds =>
           \E f \in File : /\ file[f].state = "none" /\ file'[f].state = "live"
                           /\ file'[f].content = m.content /\ file'[f].id = m.id
                           /\ \A g \in File \ {f} : file'[g] = file[g]
      /\ m.path = "replace" =>
           \A g \in File : /\ file'[g].state = file[g].state
                           /\ g = m.file => file'[g].id = m.id
                           /\ g # m.file => file'[g] = file[g]
      /\ m.path = "delete" => \A g \in File \ {m.file} : file'[g] = file[g]
      /\ ~m.adds /\ m.path \notin {"replace", "delete"} => SameLive
  BY CommitRecords
<1>7. m.created => object[m.content].id = 0
  BY <1>1 DEF Rows, Creating
<1>8. \A f \in File : file[f].state = "live" =>
        file[f].content \in Content /\ file[f].id # 0 /\ object[file[f].content].id = file[f].id
  BY DEF Rows, Linked
<1>9. ASSUME NEW c \in Content
      PROVE  /\ ~(c = m.content /\ m.created) /\ Mark(c, TRUE) \in m.marks => object'[c].pending
             /\ ~(c = m.content /\ m.created) /\ (\A p \in m.marks : p.content # c) =>
                  object'[c] = object[c]
  BY CommitPending
<1>10. m.content \in Content
  BY <1>2 DEF Memory
<1> HIDE DEF m
\* What it stores has a live record from now on.
<1>11. m.path # "delete" =>
         \E f \in File : file'[f].state = "live" /\ file'[f].id = object'[m.content].id
  <2>1. CASE m.adds
    BY <1>3, <1>4, <1>6, <1>10, <2>1 DEF NeedsObject
  <2>2. CASE m.path = "replace"
    <3>1. file'[m.file].state = "live" /\ file'[m.file].id = m.id /\ m.file \in File
      BY <1>5, <1>6, <2>2
    <3>2. object'[m.content].id = m.id
      BY <1>3, <1>4, <1>10, <2>2 DEF NeedsObject
    <3>3. QED BY <3>1, <3>2
  <2>3. CASE ~m.adds /\ m.path = "upload"
    <3>1. m.file \in File /\ file[m.file].state = "live" /\ file[m.file].content = m.content
      BY <1>5, <2>3 DEF Live
    <3>2. file'[m.file].state = "live" /\ file'[m.file].id = file[m.file].id
      BY <1>6, <2>3, <3>1 DEF SameLive
    <3>3. object[m.content].id = file[m.file].id /\ file[m.file].id # 0
      BY <1>8, <3>1
    <3>4. object'[m.content].id = object[m.content].id
      BY <1>3, <1>7, <1>10, <3>3
    <3>5. QED BY <3>1, <3>2, <3>3, <3>4
  <2>4. QED BY <1>2, <1>5, <2>1, <2>2, <2>3
<1>12. ASSUME NEW c \in Content, Orphan(c)' PROVE object'[c].pending
  <2>1. object'[c] # NoRow /\ \A f \in File : file'[f].state = "live" => file'[f].id # object'[c].id
    BY <1>12 DEF Orphan
  <2>2. c # m.content \/ m.path = "delete"
    BY <1>11, <2>1
  <2>3. ~(c = m.content /\ m.created)
    BY <1>2, <2>2
  <2>4. CASE Mark(c, TRUE) \in m.marks
    BY <1>9, <2>3, <2>4
  <2>5. CASE Mark(c, TRUE) \notin m.marks
    <3>1. ASSUME NEW p \in m.marks, p.content = c PROVE FALSE
      <4>1. CASE p = Mark(From(m), TRUE)
        BY <2>5, <3>1, <4>1 DEF Mark
      <4>2. CASE p = Mark(m.content, FALSE) /\ m.path # "delete"
        BY <2>2, <3>1, <4>2 DEF Mark
      <4>3. QED BY <1>5, <4>1, <4>2
    <3>2. object'[c] = object[c]
      BY <1>9, <2>3, <3>1
    <3>3. CASE Orphan(c)
      BY <3>2, <3>3 DEF OrphanListed
    <3>4. CASE ~Orphan(c)
      <4>1. PICK g \in File : file[g].state = "live" /\ file[g].id = object[c].id
        BY <2>1, <3>2, <3>4 DEF Orphan
      <4>2. m.path \in {"delete", "replace"} /\ g = m.file
        <5>1. ~(file'[g].state = "live" /\ file'[g].id = file[g].id)
          BY <2>1, <3>2, <4>1
        <5>2. QED BY <1>2, <1>6, <4>1, <5>1 DEF SameLive
      <4>3. c = From(m) /\ FromId(m) = object[c].id
        <5>1. file[g].content = From(m) /\ file[g].id = FromId(m)
          BY <1>5, <4>2
        <5>2. From(m) \in Content /\ object[From(m)].id = object[c].id /\ object[c].id # 0
          BY <1>8, <4>1, <5>1
        <5>3. QED BY <4>1, <5>1, <5>2 DEF Distinct
        <4>4. Spare(m) \/ (m.path = "replace" /\ m.oldId = m.id)
        BY <1>5, <2>5, <4>2, <4>3
      <4>5. CASE m.path = "replace" /\ m.oldId = m.id
        <5>1. file'[g].state = "live" /\ file'[g].id = m.id
          BY <1>6, <4>1, <4>2, <4>5
        <5>2. m.id = object[c].id
          BY <4>3, <4>5 DEF FromId
        <5>3. QED BY <2>1, <3>2, <5>1, <5>2
      <4>6. CASE Others(m.file, FromId(m)) # {}
        <5>1. PICK h \in File : h # m.file /\ file[h].state = "live" /\ file[h].id = object[c].id
          BY <4>3, <4>6 DEF Others
        <5>2. file'[h] = file[h]
          BY <1>6, <4>2, <5>1
        <5>3. QED BY <2>1, <3>2, <5>1, <5>2
      <4>7. CASE object[From(m)].pending
        BY <3>2, <4>3, <4>7
      <4>8. QED BY <4>4, <4>5, <4>6, <4>7 DEF Spare
    <3>5. QED BY <3>3, <3>4
  <2>6. QED BY <2>4, <2>5
<1>13. QED BY <1>12 DEF OrphanListed

\* The commit of a session.
LEMMA CommitLists ==
  ASSUME Quiet, OneClient, Types, Rows, Distinct, Lists, NEW u \in User, Commit(u)
  PROVE  Lists'
<1>1. pc[u] = "commit" /\ Ends(u) /\ UNCHANGED cleanup
  BY DEF Commit
<1>2. cpc = "idle" /\ Taken(u)
  BY <1>1 DEF Lists, Apart, Granted
<1>3. Apart' /\ Swept'
  BY <1>1, <1>2 DEF Lists, Apart, Swept, cleanup
<1>4. OrphanListed'
  BY <1>2, CommitListed DEF Lists
<1>5. Granted'
  <2>1. \A v \in User : pc'[v] = IF v = u THEN "idle" ELSE pc[v]
    BY <1>1, GoesTo DEF Ends, Types
  <2>2. ASSUME NEW v \in User, pc'[v] # "idle" PROVE Taken(v)'
    BY <1>2, <2>1, <2>2, CommitTaken DEF Lists, Granted
  <2>3. QED BY <2>2 DEF Granted
<1>6. QED BY <1>3, <1>4, <1>5 DEF Lists

\* The clean-up takes off the list what has a live record, and deletes what has none.
LEMMA CleanLists ==
  ASSUME Quiet, Types, Rows, Lists, Clean \/ CleanAborts
  PROVE  Lists'
<1>1. UNCHANGED users /\ \A u \in User : pc[u] = "idle"
  BY DEF Clean, CleanAborts, CleanLoad, CleanCount, CleanKeep, CleanBlob, CleanDrop, CleanCommit,
         Lists, Apart
<1>2. Apart' /\ Granted'
  BY <1>1 DEF Apart, Granted, users
<1>3. CASE CleanCommit
  <2>1. /\ object' = [c \in Content |-> IF c \in gone THEN NoRow
                        ELSE [object[c] EXCEPT !.pending = @ /\ c \notin kept]]
        /\ file' = [f \in File |-> IF \E c \in gone : f \in FilesOf(c)
                                     THEN [file[f] EXCEPT !.state = "gone"] ELSE file[f]]
        /\ CleanEnds
    BY <1>3 DEF CleanCommit
  <2>2. ASSUME NEW f \in File, file[f].state = "live" PROVE file'[f] = file[f]
    <3>1. \A c \in gone : f \notin FilesOf(c)
      BY <2>2 DEF FilesOf, Lists, Swept
    <3>2. QED BY <2>1, <3>1
  <2>3. ASSUME NEW c \in Content, Orphan(c)' PROVE object'[c].pending
    <3>1. object[c] \in [id: 0..MaxIds, pending: BOOLEAN] /\ (object[c].id = 0 => object[c] = NoRow)
      BY DEF Types, Plain
    <3>2. c \notin gone
      BY <2>1, <2>3 DEF Orphan
    <3>3. object'[c] = [object[c] EXCEPT !.pending = @ /\ c \notin kept]
      BY <2>1, <3>2
    <3>4. object'[c].id = object[c].id /\ object[c] # NoRow
      BY <2>3, <3>1, <3>3 DEF Orphan, NoRow
    <3>5. Orphan(c)
      BY <2>2, <2>3, <3>4 DEF Orphan
    <3>6. c \notin kept
      BY <3>5 DEF Lists, Swept, Orphan, Others
    <3>7. object[c].pending
      BY <3>5 DEF Lists, OrphanListed
    <3>8. QED BY <3>1, <3>3, <3>6, <3>7
  <2>4. OrphanListed'
    BY <2>3 DEF OrphanListed
  <2>5. Swept'
    BY <2>1 DEF CleanEnds, Swept
  <2>6. QED BY <1>2, <2>4, <2>5 DEF Lists
<1>4. CASE CleanDrop
  <2>1. UNCHANGED tables /\ cpc = "drop" /\ cur \in Content
    BY <1>4 DEF CleanDrop, Types, Plain
  <2>2. CASE CleanEnds
    BY <1>2, <2>1, <2>2, ListedKept DEF CleanEnds, Lists, Swept, tables, SameLive
  <2>3. CASE ~CleanEnds
    <3>1. /\ cpc' = "count" /\ gone' = gone \cup {cur} /\ kept' = kept
          /\ \A f \in FilesOf(cur) : file[f].state # "live"
      BY <1>4, <2>3 DEF CleanDrop
    <3>2. \A f \in File : file[f].state = "live" => file[f].id # object[cur].id
      BY <3>1 DEF FilesOf
    <3>3. Swept'
      BY <2>1, <3>1, <3>2 DEF Lists, Swept, Others, tables
    <3>4. QED BY <1>2, <2>1, <3>3, ListedKept DEF Lists, tables, SameLive
  <2>4. QED BY <2>2, <2>3
<1>5. CASE \/ CleanLoad \/ CleanKeep \/ CleanBlob \/ CleanAborts
           \/ \E c \in Content : CleanCount(c)
  <2>1. UNCHANGED tables
    BY <1>5 DEF CleanLoad, CleanCount, CleanKeep, CleanBlob, CleanAborts
  <2>2. Swept'
    <3>1. CASE CleanLoad \/ CleanBlob \/ CleanAborts
      BY <2>1, <3>1 DEF CleanLoad, CleanBlob, CleanAborts, CleanEnds, Lists, Swept, Others, tables
    <3>2. CASE CleanKeep
      BY <2>1, <3>2 DEF CleanKeep, Lists, Swept, Others, tables
    <3>3. ASSUME NEW c \in Content, CleanCount(c) PROVE Swept'
      BY <2>1, <3>3 DEF CleanCount, Lists, Swept, Others, tables
    <3>4. QED BY <1>5, <3>1, <3>2, <3>3
  <2>3. QED BY <1>2, <2>1, <2>2, ListedKept DEF Lists, tables, SameLive
<1>6. QED BY <1>3, <1>4, <1>5 DEF Clean

\* With one request at a time and a clean-up that meets nobody, no step loses an orphan.
LEMMA NextLists ==
  Quiet /\ OneClient /\ Types /\ Rows /\ Distinct /\ Lists /\ [Next]_vars => Lists'
<1> SUFFICES ASSUME Quiet, OneClient, Types, Rows, Distinct, Lists, [Next]_vars PROVE Lists'
  OBVIOUS
<1>1. CASE UNCHANGED vars
  <2>1. UNCHANGED <<object, file>> /\ UNCHANGED users /\ UNCHANGED cleanup
    BY <1>1 DEF vars, tables
  <2>2. SameLive
    BY <2>1 DEF SameLive
  <2>3. \A u \in User : Taken(u) => Taken(u)'
    BY <2>1, <2>2, TakenKept DEF users
  <2>4. Granted' /\ Apart'
    BY <2>1, <2>3 DEF Lists, Granted, Apart, users, cleanup
  <2>5. Swept'
    BY <2>1 DEF Lists, Swept, Others, cleanup
  <2>6. QED BY <2>1, <2>2, <2>4, <2>5, ListedKept DEF Lists
<1>2. QED BY <1>1, WorkLists, CommitLists, CleanLists DEF Next, Continue

\* With one request at a time, beside any number of workers, an object that lost its last
\* live record is on the list of the clean-up (_mark_storage_object_for_cleanup), whoever
\* stops where.
THEOREM OrphansFound == Quiet /\ OneClient => (Spec => []OrphanListed)
<1> SUFFICES ASSUME Quiet, OneClient PROVE Spec => []OrphanListed
  OBVIOUS
<1>1. Init => Types /\ Rows /\ Distinct /\ Lists
  BY InitInv, InitDistinct, InitLists
<1>2. (Types /\ Rows /\ Distinct /\ Lists) /\ [Next]_vars => (Types /\ Rows /\ Distinct /\ Lists)'
  BY NextInv, NextDistinct, NextLists
<1>3. Lists => OrphanListed
  BY DEF Lists
<1>4. QED BY <1>1, <1>2, <1>3, PTL DEF Spec
=============================================================================

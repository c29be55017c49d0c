-------------------------- MODULE ChunkUpload_proofs --------------------------
(***************************************************************************)
(* Proofs about ChunkUpload, for every number of chunks and of requests at *)
(* work at once.                                                           *)
(***************************************************************************)
EXTENDS ChunkUpload, FiniteSetTheorems, TLAPS

-----------------------------------------------------------------------------
(* Types *)

\* A session's steps.
Steps == {"idle", "save", "count", "read", "store", "delete", "commit"}

\* What a session may have in memory.
Memory == [kind: Kind \cup {"none"}, index: 0..N + 1, good: BOOLEAN, from: Row, to: Row]

\* The chunk a session is at is one of the upload's.
Bounded == \A a \in Actor : pc[a] \in {"save", "read", "delete"} => mem[a].index \in Index

\* The types, and what they leave open.
Types == TypeOK /\ Bounded

\* The number of chunks is a number that a row can hold.
LEMMA CountedRow == ASSUME TypeOK, NEW r \in Row PROVE
  /\ Counted(r) \in Row /\ Counted(r).status = r.status /\ Counted(r).file = r.file
<1>1. IsFiniteSet(Index) /\ Cardinality(Index) = N
  <2>1. 1 \in Int /\ N \in Int /\ N >= 1
    BY UploadAssumption
  <2>2. QED BY <2>1, FS_Interval DEF Index
<1>2. Stored \subseteq Index
  BY DEF Stored
<1>3. Cardinality(Stored) \in 0..N
  BY <1>1, <1>2, FS_Subset, FS_CardinalityType, UploadAssumption
<1>4. QED BY <1>3 DEF Counted, Row

\* The mark changes nothing but the status.
LEMMA GotRow == ASSUME TypeOK, NEW r \in Row PROVE
  /\ Got(r) \in Row /\ Got(r).file = r.file
  /\ Got(r).status = IF r.status \in Open /\ late THEN "expired" ELSE r.status
BY DEF Got, Row, Open

\* The sessions after a step of one of them.
LEMMA GoesTo ==
  ASSUME Types, NEW a \in Actor, NEW step, NEW m, Goes(a, step, m)
  PROVE  \A b \in Actor : /\ pc'[b]  = IF b = a THEN step ELSE pc[b]
                          /\ mem'[b] = IF b = a THEN m ELSE mem[b]
BY DEF Goes, Types, TypeOK

\* They keep their types.
LEMMA GoesTypes ==
  ASSUME Types, NEW a \in Actor, NEW step \in Steps, NEW m \in Memory, Goes(a, step, m),
         step \in {"save", "read", "delete"} => m.index \in Index
  PROVE  /\ pc' \in [Actor -> Steps] /\ mem' \in [Actor -> Memory] /\ Bounded'
<1>1. pc' \in [Actor -> Steps] /\ mem' \in [Actor -> Memory]
  BY DEF Goes, Types, TypeOK, Steps, Memory
<1>2. Bounded'
  BY GoesTo DEF Types, Bounded
<1>3. QED BY <1>1, <1>2

\* An upload that is not there.
LEMMA AbsentRow == Absent \in Row
BY UploadAssumption DEF Absent, Row

\* A session that ends keeps nothing.
LEMMA IdleMemory == Idle \in Memory
BY AbsentRow, UploadAssumption DEF Idle, Memory

\* A step that changes neither the row nor the stores.
LEMMA WorkTypes ==
  ASSUME Types, NEW a \in Actor, NEW step \in Steps, NEW m \in Memory, Goes(a, step, m),
         step \in {"save", "read", "delete"} => m.index \in Index,
         row' = row, late' = late, chunk' = chunk, object' = object, faults' \in 0..MaxFaults
  PROVE  Types'
BY GoesTypes DEF Types, TypeOK, Steps, Memory

\* What a load puts into memory.
LEMMA LoadsTypes ==
  ASSUME Types, NEW a \in Actor, NEW step \in Steps, NEW k \in Kind, NEW i \in 0..N,
         NEW good \in BOOLEAN, NEW to \in Row, Loads(a, step, k, i, good, to),
         step \in {"save", "read", "delete"} => i \in Index,
         row' = row, late' = late, chunk' = chunk, object' = object, faults' \in 0..MaxFaults
  PROVE  Types'
<1> DEFINE m == [kind |-> k, index |-> i, good |-> good, from |-> row, to |-> to]
<1>1. Goes(a, step, m)
  BY DEF Loads
<1>2. m \in Memory /\ m.index = i
  BY UploadAssumption DEF Memory, Types, TypeOK
<1> HIDE DEF m
<1>3. QED BY <1>1, <1>2, WorkTypes

\* A fault is one of those that are left.
LEMMA FaultTypes == ASSUME TypeOK, Fault \/ UNCHANGED faults PROVE faults' \in 0..MaxFaults
BY UploadAssumption DEF TypeOK, Fault

\* The columns a commit writes.
LEMMA CommitRow ==
  ASSUME Types, NEW a \in Actor, Commit(a)
  PROVE  /\ row' \in Row
         /\ row'.status = IF mem[a].to.status = mem[a].from.status THEN row.status
                                                                  ELSE mem[a].to.status
         /\ row'.file = IF mem[a].to.file = mem[a].from.file THEN row.file ELSE mem[a].to.file
<1> DEFINE m == mem[a]
<1>1. row \in Row /\ m.from \in Row /\ m.to \in Row
  BY DEF Types, TypeOK
<1>2. row' = [c \in DOMAIN row |-> IF m.to[c] = m.from[c] THEN row[c] ELSE m.to[c]]
  BY DEF Commit
<1> HIDE DEF m
<1>3. DOMAIN row = {"status", "received", "file"}
  BY <1>1 DEF Row
<1>4. row' = [status   |-> IF m.to.status = m.from.status THEN row.status ELSE m.to.status,
              received |-> IF m.to.received = m.from.received THEN row.received ELSE m.to.received,
              file     |-> IF m.to.file = m.from.file THEN row.file ELSE m.to.file]
  BY <1>2, <1>3
<1>5. QED BY <1>1, <1>4 DEF Row, m

\* A session that has a step to make.
LEMMA AtWork ==
  ASSUME Types, NEW a \in Actor
  PROVE  /\ mem[a] \in Memory /\ mem[a].from \in Row /\ mem[a].to \in Row
         /\ mem[a].index \in 0..N + 1 /\ mem[a].good \in BOOLEAN
         /\ pc[a] \in {"save", "read", "delete"} => mem[a].index \in Index
BY DEF Types, TypeOK, Bounded, Memory

\* What becomes of a session's memory.
LEMMA MemoryTo ==
  /\ \A m \in Memory, to \in Row : [m EXCEPT !.to = to] \in Memory
  /\ \A m \in Memory, i \in 0..N + 1 :
       [m EXCEPT !.index = i] \in Memory /\ [m EXCEPT !.index = i].index = i
BY DEF Memory

\* No step of a session breaks the types.
LEMMA StepTypes ==
  ASSUME Types, NEW a \in Actor, Step(a) \/ Abort(a)
  PROVE  Types'
<1> DEFINE m == mem[a]
<1>1. /\ m \in Memory /\ m.from \in Row /\ m.to \in Row /\ m.index \in 0..N + 1
      /\ m.good \in BOOLEAN
      /\ pc[a] \in {"save", "read", "delete"} => m.index \in Index
  BY AtWork
<1>2. \A r \in Row : Counted(r) \in Row /\ Got(r) \in Row
  BY CountedRow, GotRow DEF Types
<1>3. \A st \in {"uploading", "completed"}, r \in Row : /\ [r EXCEPT !.status = st] \in Row
                                          /\ [r EXCEPT !.status = st, !.file = TRUE] \in Row
  BY DEF Row, Open
<1>4. faults \in 0..MaxFaults /\ (Fault => faults' \in 0..MaxFaults)
  BY FaultTypes DEF Types, TypeOK
<1>5. N \in Nat \ {0} /\ 1 \in Index /\ 1 \in 0..N + 1
  BY UploadAssumption DEF Index
<1>6. Steps = {"idle", "save", "count", "read", "store", "delete", "commit"}
  BY DEF Steps
<1>7. ASSUME Ends(a), row' = row, late' = late, chunk' = chunk, object' = object,
             faults' \in 0..MaxFaults
      PROVE  Types'
  BY <1>6, <1>7, IdleMemory, WorkTypes DEF Ends
<1>8. CASE ChunkSave(a)
  <2>1. Goes(a, "count", m) /\ UNCHANGED <<row, late, object, faults>>
          /\ chunk' \in [Index -> {"none", "good", "bad"}]
    BY <1>8 DEF ChunkSave, Types, TypeOK
  <2>2. QED BY <1>1, <1>6, <2>1, GoesTypes DEF Types, TypeOK, Steps, Memory
<1>9. CASE ChunkCount(a)
  <2> DEFINE to == [Counted(m.to) EXCEPT !.status = "uploading"]
  <2>1. Goes(a, "commit", [m EXCEPT !.to = to]) /\ UNCHANGED <<row, late, store, faults>>
    BY <1>9 DEF ChunkCount
  <2>2. to \in Row
    BY <1>1, <1>2, <1>3
  <2> HIDE DEF m, to
  <2>3. [m EXCEPT !.to = to] \in Memory
    BY <1>1, <1>5, <2>2, MemoryTo
  <2>4. QED BY <1>4, <1>6, <2>1, <2>3, WorkTypes DEF store
<1>10. CASE ProgressCount(a)
  <2> DEFINE to == Got(Counted(m.to))
  <2>1. Goes(a, "commit", [m EXCEPT !.to = to]) /\ UNCHANGED <<row, late, store, faults>>
    BY <1>10 DEF ProgressCount
  <2>2. to \in Row
    BY <1>1, <1>2
  <2> HIDE DEF m, to
  <2>3. [m EXCEPT !.to = to] \in Memory
    BY <1>1, <1>5, <2>2, MemoryTo
  <2>4. QED BY <1>4, <1>6, <2>1, <2>3, WorkTypes DEF store
<1>11. CASE MergeCount(a)
  <2> DEFINE to == Counted(m.to)
  <2>1. Goes(a, "read", [m EXCEPT !.index = 1, !.to = to]) \/ Ends(a)
    BY <1>11 DEF MergeCount
  <2>2. UNCHANGED <<row, late, store, faults>>
    BY <1>11 DEF MergeCount
  <2>3. to \in Row
    BY <1>1, <1>2
  <2> HIDE DEF m, to
  <2>4. [m EXCEPT !.index = 1, !.to = to] \in Memory /\ [m EXCEPT !.index = 1, !.to = to].index = 1
    BY <1>1, <1>5, <2>3 DEF Memory
  <2>5. QED BY <1>4, <1>5, <1>6, <1>7, <2>1, <2>2, <2>4, WorkTypes DEF store
<1>12. CASE MergeRead(a)
  <2> DEFINE good == m.good /\ chunk[m.index] = "good"
             step == IF m.index = N THEN "store" ELSE "read"
             n == [m EXCEPT !.index = m.index + 1, !.good = good]
  <2>1. (Goes(a, step, n) \/ Ends(a)) /\ UNCHANGED <<row, late, store, faults>>
    BY <1>12 DEF MergeRead
  <2>2. m.index \in 1..N /\ good \in BOOLEAN
    BY <1>1, <1>12 DEF MergeRead, Index
  <2>3. m.index + 1 \in 0..N + 1 /\ step \in {"store", "read"}
          /\ (step = "read" => m.index + 1 \in Index)
    BY <1>5, <2>2 DEF Index
  <2> HIDE DEF m, good, step
  <2>4. n \in Memory /\ n.index = m.index + 1
    BY <1>1, <1>5, <2>2, <2>3 DEF Memory
  <2> HIDE DEF n
  <2>5. QED BY <1>4, <1>6, <1>7, <2>1, <2>3, <2>4, WorkTypes DEF store
<1>13. CASE MergeStore(a)
  <2> DEFINE to == [m.to EXCEPT !.status = "completed", !.file = TRUE]
             n == [m EXCEPT !.index = 1, !.to = to]
  <2>1. \/ Goes(a, "delete", n) /\ object' \in {"whole", "broken"}
        \/ Ends(a) /\ object' = object
    BY <1>13 DEF MergeStore
  <2>2. UNCHANGED <<row, late, chunk, faults>>
    BY <1>13 DEF MergeStore
  <2>3. to \in Row
    BY <1>1, <1>3
  <2> HIDE DEF m, to
  <2>4. n \in Memory /\ n.index = 1
    BY <1>1, <1>5, <2>3 DEF Memory
  <2> HIDE DEF n
  <2>5. CASE Goes(a, "delete", n) /\ object' \in {"whole", "broken"}
    BY <1>5, <1>6, <2>2, <2>4, <2>5, GoesTypes DEF Types, TypeOK, Steps, Memory
  <2>6. QED BY <1>4, <1>7, <2>1, <2>2, <2>5
<1>14. CASE DeleteChunk(a)
  <2> DEFINE step == IF m.index = N THEN "commit" ELSE "delete"
             n == [m EXCEPT !.index = m.index + 1]
  <2>1. m.index \in 1..N
    BY <1>1, <1>14 DEF DeleteChunk, Index
  <2>2. /\ UNCHANGED <<row, late, object, faults>> /\ chunk' = [chunk EXCEPT ![m.index] = "none"]
        /\ Goes(a, step, n)
    BY <1>5, <1>14, <2>1 DEF DeleteChunk, Last
  <2>3. m.index + 1 \in 0..N + 1 /\ step \in {"commit", "delete"}
          /\ (step = "delete" => m.index + 1 \in Index)
    BY <1>5, <2>1 DEF Index
  <2>4. chunk' \in [Index -> {"none", "good", "bad"}]
    BY <2>2 DEF Types, TypeOK
  <2> HIDE DEF m, step
  <2>5. n \in Memory /\ n.index = m.index + 1
    BY <1>1, <1>5, <2>3, MemoryTo
  <2> HIDE DEF n
  <2>6. QED BY <1>6, <2>2, <2>3, <2>4, <2>5, GoesTypes DEF Types, TypeOK, Steps, Memory
<1>15. CASE Commit(a)
  <2>1. row' \in Row /\ Ends(a) /\ UNCHANGED <<late, store, faults>>
    BY <1>15, CommitRow DEF Commit
  <2>2. QED BY <1>6, <2>1, IdleMemory, GoesTypes DEF Ends, Types, TypeOK, Steps, Memory, store
<1>16. CASE Abort(a)
  BY <1>4, <1>7, <1>16 DEF Abort, store
<1>17. QED
  BY <1>8, <1>9, <1>10, <1>11, <1>12, <1>13, <1>14, <1>15, <1>16 DEF Step

\* No step at all does.
LEMMA NextTypes == Types /\ [Next]_vars => Types'
<1> SUFFICES ASSUME Types, [Next]_vars PROVE Types'
  OBVIOUS
<1>1. CASE UNCHANGED vars
  BY <1>1 DEF vars, store, work, Types, TypeOK, Bounded
<1>2. ASSUME NEW has \in BOOLEAN, InitUpload(has) PROVE Types'
  <2>1. Reused \in Row /\ Opened \in Row
    <3>1. \A r \in Row : /\ [r EXCEPT !.status = "initiated"] \in Row
                         /\ [r EXCEPT !.status = "completed", !.file = TRUE] \in Row
      BY DEF Row, Open
    <3>2. QED BY <3>1, AbsentRow DEF Reused, Opened
  <2>2. QED BY <1>2, <2>1 DEF InitUpload, work, Types, TypeOK, Bounded
<1>3. row \in Row /\ Request \subseteq Actor /\ Beat \in Actor
        /\ \A st \in {"cancelled", "expired"} : [row EXCEPT !.status = st] \in Row
  BY DEF Types, TypeOK, Row, Actor, Open
<1>4. 0 \in 0..N /\ 1 \in 0..N /\ 1 \in Index /\ Index \subseteq 0..N
  BY UploadAssumption DEF Index
<1>5. ASSUME NEW a \in Request, NEW i \in Index, NEW good \in BOOLEAN, ChunkLoad(a, i, good)
      PROVE  Types'
  <2>1. faults' \in 0..MaxFaults
    BY <1>5, FaultTypes DEF ChunkLoad, Types
  <2>2. QED BY <1>3, <1>4, <1>5, <2>1, LoadsTypes DEF ChunkLoad, store, Steps, Kind
<1>6. ASSUME NEW a \in Request, ProgressLoad(a) PROVE Types'
  <2>1. faults' \in 0..MaxFaults
    BY <1>6 DEF ProgressLoad, Types, TypeOK
  <2>2. Got(row) \in Row
    BY <1>3, GotRow DEF Types
  <2>3. QED BY <1>3, <1>4, <1>6, <2>1, <2>2, LoadsTypes DEF ProgressLoad, store, Steps, Kind
<1>7. ASSUME NEW a \in Request, MergeLoad(a) PROVE Types'
  <2>1. faults' \in 0..MaxFaults
    BY <1>7, FaultTypes DEF MergeLoad, Types
  <2>2. QED BY <1>3, <1>4, <1>7, <2>1, LoadsTypes DEF MergeLoad, store, Steps, Kind
<1>8. ASSUME NEW a \in Request, CancelLoad(a) PROVE Types'
  <2>1. faults' \in 0..MaxFaults
    BY <1>8 DEF CancelLoad, Types, TypeOK
  <2>2. QED BY <1>3, <1>4, <1>8, <2>1, LoadsTypes DEF CancelLoad, store, Steps, Kind
<1>9. CASE BeatLoad
  <2>1. faults' \in 0..MaxFaults
    BY <1>9 DEF BeatLoad, Types, TypeOK
  <2>2. QED BY <1>3, <1>4, <1>9, <2>1, LoadsTypes DEF BeatLoad, store, Steps, Kind
<1>10. CASE Lapse
  BY <1>10 DEF Lapse, store, work, Types, TypeOK, Bounded
<1>11. QED
  BY <1>1, <1>2, <1>5, <1>6, <1>7, <1>8, <1>9, <1>10, StepTypes DEF Next

\* No row, no chunks, nobody at work.
LEMMA InitTypes == Init => Types
<1> SUFFICES ASSUME Init PROVE Types
  OBVIOUS
<1>1. mem \in [Actor -> Memory] /\ row \in Row
  BY IdleMemory, AbsentRow DEF Init
<1>2. pc \in [Actor -> Steps]
  BY DEF Init, Steps
<1>3. chunk \in [Index -> {"none", "good", "bad"}] /\ faults \in 0..MaxFaults /\ Bounded
  BY UploadAssumption DEF Init, Bounded
<1>4. QED BY <1>1, <1>2, <1>3 DEF Init, Types, TypeOK, Memory, Steps

\* Rows, chunks and sessions keep their types; no more chunks are counted
\* (_count_received_chunks) than there are.
THEOREM TypeCorrect == Spec => []TypeOK
<1>1. Types => TypeOK
  BY DEF Types
<1>2. QED BY <1>1, InitTypes, NextTypes, PTL DEF Spec

-----------------------------------------------------------------------------
(* Whatever overlaps: a file is whole, and stays *)

\* A completed upload has its file, and that is the one that was announced.
FileWhole ==
  /\ row.status = "completed" => row.file
  /\ row.file => object = "whole"

\* What a session has loaded, and what it will write, is backed by the row r and the object o:
\* it takes no file away, and writes one, and "completed", only when the whole is stored.
Backed(m, r, o) ==
  /\ m.from.file => r.file /\ m.to.file
  /\ m.to.file => m.from.file \/ o = "whole"
  /\ m.to.status = "completed" => m.to.file

AllBacked == \A a \in Actor : Backed(mem[a], row, object)

LEMMA InitBacked == Init => FileWhole /\ AllBacked
BY DEF Init, FileWhole, AllBacked, Backed, Absent, Idle

\* A session goes on; the row is as it was, and what was stored whole still is.
LEMMA GoesBacked ==
  ASSUME Types, FileWhole, AllBacked, NEW a \in Actor, NEW step, NEW m, Goes(a, step, m),
         row' = row, object' \in {object, "whole"}, Backed(m, row', object')
  PROVE  FileWhole' /\ AllBacked'
<1>1. FileWhole'
  BY DEF FileWhole
<1>2. ASSUME NEW b \in Actor PROVE Backed(mem'[b], row', object')
  <2>1. mem'[b] = IF b = a THEN m ELSE mem[b]
    BY GoesTo
  <2>2. Backed(mem[b], row, object)
    BY DEF AllBacked
  <2>3. CASE b = a
    BY <2>1, <2>3 DEF Backed
  <2>4. CASE b # a
    BY <2>1, <2>2, <2>4 DEF Backed
  <2>5. QED BY <2>3, <2>4
<1>3. QED BY <1>1, <1>2 DEF AllBacked

\* A session loads the row, and changes at most the status of its copy, never to completed.
LEMMA LoadsBacked ==
  ASSUME Types, FileWhole, AllBacked, NEW a \in Actor, NEW step, NEW k, NEW i, NEW good,
         NEW to \in Row, Loads(a, step, k, i, good, to), row' = row, object' = object,
         to.file = row.file, to.status \in {row.status, "cancelled", "expired"}
  PROVE  FileWhole' /\ AllBacked'
<1> DEFINE m == [kind |-> k, index |-> i, good |-> good, from |-> row, to |-> to]
<1>1. Goes(a, step, m)
  BY DEF Loads
<1>2. m.from = row /\ m.to = to
  OBVIOUS
<1> HIDE DEF m
<1>3. Backed(m, row', object')
  BY <1>2 DEF Backed, FileWhole
<1>4. QED BY <1>1, <1>3, GoesBacked

\* A session ends.
LEMMA EndsBacked ==
  ASSUME Types, FileWhole, AllBacked, NEW a \in Actor, Ends(a), row' = row, object' = object
  PROVE  FileWhole' /\ AllBacked'
<1>1. Backed(Idle, row', object')
  BY DEF Backed, Idle, Absent
<1>2. QED BY <1>1, GoesBacked DEF Ends

\* A session's steps up to its commit.
LEMMA StepBacked ==
  ASSUME Types, FileWhole, AllBacked, NEW a \in Actor, Step(a) \/ Abort(a), ~Commit(a)
  PROVE  FileWhole' /\ AllBacked' /\ row' = row
<1> DEFINE m == mem[a]
<1>1. m \in Memory /\ m.from \in Row /\ m.to \in Row /\ Backed(m, row, object)
  BY AtWork DEF AllBacked
<1>2. \A r \in Row : /\ Counted(r) \in Row /\ Counted(r).status = r.status
                     /\ Counted(r).file = r.file
                     /\ Got(r) \in Row /\ Got(r).file = r.file
                     /\ Got(r).status \in {r.status, "expired"}
  BY CountedRow, GotRow DEF Types
<1>3. ASSUME NEW to \in Row, to.file = m.to.file,
             to.status \in {m.to.status, "uploading", "expired"}, row' = row, object' = object,
             NEW n, n.from = m.from, n.to = to
      PROVE  Backed(n, row', object')
  BY <1>1, <1>3 DEF Backed
<1>4. ASSUME NEW n, n.from = m.from, n.to = m.to, row' = row, object' = object
      PROVE  Backed(n, row', object')
  BY <1>1, <1>4 DEF Backed
<1>5. CASE ChunkSave(a)
  <2>1. Goes(a, "count", m) /\ row' = row /\ object' = object
    BY <1>5 DEF ChunkSave
  <2> HIDE DEF m
  <2>2. QED BY <1>4, <2>1, GoesBacked
<1>6. CASE ChunkCount(a)
  <2> DEFINE to == [Counted(m.to) EXCEPT !.status = "uploading"]
             n == [m EXCEPT !.to = to]
  <2>1. Goes(a, "commit", n) /\ row' = row /\ object' = object
    BY <1>6 DEF ChunkCount, store
  <2>2. to \in Row /\ to.file = m.to.file /\ to.status = "uploading"
    BY <1>1, <1>2 DEF Row, Open
  <2> HIDE DEF m, to
  <2>3. n.from = m.from /\ n.to = to
    BY <1>1 DEF Memory
  <2> HIDE DEF n
  <2>4. QED BY <1>3, <2>1, <2>2, <2>3, GoesBacked
<1>7. CASE ProgressCount(a)
  <2> DEFINE to == Got(Counted(m.to))
             n == [m EXCEPT !.to = to]
  <2>1. Goes(a, "commit", n) /\ row' = row /\ object' = object
    BY <1>7 DEF ProgressCount, store
  <2>2. to \in Row /\ to.file = m.to.file /\ to.status \in {m.to.status, "expired"}
    BY <1>1, <1>2
  <2> HIDE DEF m, to
  <2>3. n.from = m.from /\ n.to = to
    BY <1>1 DEF Memory
  <2> HIDE DEF n
  <2>4. QED BY <1>3, <2>1, <2>2, <2>3, GoesBacked
<1>8. CASE MergeCount(a)
  <2> DEFINE to == Counted(m.to)
             n == [m EXCEPT !.index = 1, !.to = to]
  <2>1. (Goes(a, "read", n) \/ Ends(a)) /\ row' = row /\ object' = object
    BY <1>8 DEF MergeCount, store
  <2>2. to \in Row /\ to.file = m.to.file /\ to.status = m.to.status
    BY <1>1, <1>2
  <2> HIDE DEF m, to
  <2>3. n.from = m.from /\ n.to = to
    BY <1>1 DEF Memory
  <2> HIDE DEF n
  <2>4. QED BY <1>3, <2>1, <2>2, <2>3, GoesBacked, EndsBacked
<1>9. CASE MergeRead(a)
  <2> DEFINE n == [m EXCEPT !.index = m.index + 1, !.good = m.good /\ chunk[m.index] = "good"]
  <2>1. ((\E step : Goes(a, step, n)) \/ Ends(a)) /\ row' = row /\ object' = object
    BY <1>9 DEF MergeRead, store
  <2> HIDE DEF m
  <2>2. n.from = m.from /\ n.to = m.to
    BY <1>1 DEF Memory
  <2> HIDE DEF n
  <2>3. QED BY <1>4, <2>1, <2>2, GoesBacked, EndsBacked
<1>10. CASE MergeStore(a)
  <2> DEFINE to == [m.to EXCEPT !.status = "completed", !.file = TRUE]
             n == [m EXCEPT !.index = 1, !.to = to]
  <2>1. /\ \/ Goes(a, "delete", n) /\ object' = "whole"
           \/ Ends(a) /\ object' = object
        /\ row' = row
    BY <1>10 DEF MergeStore, Verified
  <2>2. to.file /\ to.status = "completed"
    BY <1>1 DEF Row
  <2> HIDE DEF m, to
  <2>3. n.from = m.from /\ n.to = to
    BY <1>1 DEF Memory
  <2> HIDE DEF n
  <2>4. object' = "whole" => Backed(n, row', object')
    BY <1>1, <2>1, <2>2, <2>3 DEF Backed
  <2>5. QED BY <2>1, <2>4, GoesBacked, EndsBacked
<1>11. CASE DeleteChunk(a)
  <2> DEFINE n == [m EXCEPT !.index = m.index + 1]
  <2>1. (\E step : Goes(a, step, n) \/ Goes(a, step, m)) /\ row' = row /\ object' = object
    BY <1>11 DEF DeleteChunk
  <2> HIDE DEF m
  <2>2. n.from = m.from /\ n.to = m.to
    BY <1>1 DEF Memory
  <2> HIDE DEF n
  <2>3. QED BY <1>4, <2>1, <2>2, GoesBacked
<1>12. CASE Abort(a)
  BY <1>12, EndsBacked DEF Abort, store
<1>13. QED
  BY <1>5, <1>6, <1>7, <1>8, <1>9, <1>10, <1>11, <1>12 DEF Step

\* A commit over whatever the row has become since it was loaded.
LEMMA CommitBacked ==
  ASSUME Types, FileWhole, AllBacked, NEW a \in Actor, Commit(a)
  PROVE  FileWhole' /\ AllBacked' /\ (row.file => row'.file)
<1> DEFINE m == mem[a]
<1>1. m.from \in Row /\ m.to \in Row /\ Backed(m, row, object)
  BY AtWork DEF AllBacked
<1>2. /\ row \in Row /\ row' \in Row
      /\ row'.status = IF m.to.status = m.from.status THEN row.status ELSE m.to.status
      /\ row'.file = IF m.to.file = m.from.file THEN row.file ELSE m.to.file
  BY CommitRow DEF Types, TypeOK
<1>3. Ends(a) /\ object' = object
  BY DEF Commit, store
<1> HIDE DEF m
<1>4. row.file \in BOOLEAN /\ m.from.file \in BOOLEAN /\ m.to.file \in BOOLEAN
  BY <1>1, <1>2 DEF Row
<1>5. row.file => row'.file
  BY <1>1, <1>2, <1>4 DEF Backed
<1>6. row'.file => object' = "whole"
  BY <1>1, <1>2, <1>3, <1>4 DEF Backed, FileWhole
<1>7. row'.status = "completed" => row'.file
  <2>1. CASE row'.status = row.status
    BY <1>5, <2>1 DEF FileWhole
  <2>2. CASE row'.status = m.to.status
    BY <1>1, <1>2, <1>4, <2>2 DEF Backed
  <2>3. QED BY <1>2, <2>1, <2>2
<1>8. ASSUME NEW b \in Actor PROVE Backed(mem'[b], row', object')
  <2>1. mem'[b] = Idle \/ mem'[b] = mem[b]
    BY <1>3, GoesTo DEF Ends
  <2>2. CASE mem'[b] = Idle
    BY <2>2 DEF Backed, Idle, Absent
  <2>3. CASE mem'[b] = mem[b]
    BY <1>3, <1>5, <2>3 DEF AllBacked, Backed
  <2>4. QED BY <2>1, <2>2, <2>3
<1>9. QED BY <1>5, <1>6, <1>7, <1>8 DEF FileWhole, AllBacked

\* No step takes a file away, or completes an upload without one.
LEMMA NextBacked ==
  Types /\ FileWhole /\ AllBacked /\ [Next]_vars
    => FileWhole' /\ AllBacked' /\ (row.file => row'.file)
<1> SUFFICES ASSUME Types, FileWhole, AllBacked, [Next]_vars
             PROVE  FileWhole' /\ AllBacked' /\ (row.file => row'.file)
  OBVIOUS
<1>1. row \in Row /\ Request \subseteq Actor /\ Beat \in Actor
  BY DEF Types, TypeOK, Actor
<1>2. CASE UNCHANGED vars
  BY <1>2 DEF vars, store, work, FileWhole, AllBacked, Backed
<1>3. ASSUME NEW has \in BOOLEAN, InitUpload(has)
      PROVE  FileWhole' /\ AllBacked' /\ (row.file => row'.file)
  <2>1. row = Absent /\ mem' = mem /\ ~row.file
    BY <1>3 DEF InitUpload, work, Absent
  <2>2. row' = (IF has THEN Reused ELSE Opened) /\ object' = IF has THEN "whole" ELSE object
    BY <1>3 DEF InitUpload
  <2>3. FileWhole'
    BY <2>2 DEF FileWhole, Reused, Opened, Absent
  <2>4. AllBacked'
    BY <2>1, <2>2 DEF AllBacked, Backed
  <2>5. QED BY <2>1, <2>3, <2>4
<1>4. ASSUME NEW a \in Request, NEW i \in Index, NEW good \in BOOLEAN, ChunkLoad(a, i, good)
      PROVE  FileWhole' /\ AllBacked' /\ row' = row
  BY <1>1, <1>4, LoadsBacked DEF ChunkLoad, store
<1>5. ASSUME NEW a \in Request, ProgressLoad(a) PROVE FileWhole' /\ AllBacked' /\ row' = row
  <2>1. Got(row) \in Row /\ Got(row).file = row.file /\ Got(row).status \in {row.status, "expired"}
    BY <1>1, GotRow DEF Types
  <2>2. QED BY <1>1, <1>5, <2>1, LoadsBacked DEF ProgressLoad, store
<1>6. ASSUME NEW a \in Request, MergeLoad(a) PROVE FileWhole' /\ AllBacked' /\ row' = row
  BY <1>1, <1>6, LoadsBacked DEF MergeLoad, store
<1>7. \A st \in {"cancelled", "expired"} :
        /\ [row EXCEPT !.status = st] \in Row /\ [row EXCEPT !.status = st].file = row.file
        /\ [row EXCEPT !.status = st].status = st
  BY <1>1 DEF Row
<1>8. ASSUME NEW a \in Request, CancelLoad(a) PROVE FileWhole' /\ AllBacked' /\ row' = row
  BY <1>1, <1>7, <1>8, LoadsBacked DEF CancelLoad, store
<1>9. CASE BeatLoad
  <2>1. FileWhole' /\ AllBacked' /\ row' = row
    BY <1>1, <1>7, <1>9, LoadsBacked DEF BeatLoad, store
  <2>2. QED BY <2>1
<1>10. CASE Lapse
  BY <1>10 DEF Lapse, store, work, FileWhole, AllBacked, Backed
<1>11. QED
  BY <1>2, <1>3, <1>4, <1>5, <1>6, <1>8, <1>9, <1>10, StepBacked, CommitBacked DEF Next

\* Whatever falls together (Overlap is any set of pairs), an upload that shows as completed
\* has its file, and the file is what was announced: merge_chunks compares what it has read
\* before it stores it, and commits the file with the status.
THEOREM WholeFile == Spec => []FileWhole
<1>1. Types /\ FileWhole /\ AllBacked /\ [Next]_vars => FileWhole' /\ AllBacked'
  BY NextBacked
<1>2. QED BY <1>1, InitTypes, NextTypes, InitBacked, PTL DEF Spec

\* Nor does anybody take the file away again, though a late chunk, cancel or clean-up may
\* write another status over "completed".
THEOREM FileStays == Spec => [][row.file => row'.file]_vars
<1>1. Types /\ FileWhole /\ AllBacked /\ [Next]_vars => FileWhole' /\ AllBacked'
  BY NextBacked
<1>2. Types /\ FileWhole /\ AllBacked /\ [Next]_vars => [row.file => row'.file]_vars
  BY NextBacked
<1>3. QED BY <1>1, <1>2, InitTypes, NextTypes, InitBacked, PTL DEF Spec

-----------------------------------------------------------------------------
(* Requests that do not contradict each other *)

\* Work that ends with a status of the row.
Changing == {"chunk", "merge", "cancel", "mark", "beat"}

\* Two requests that would set different statuses are not at work at once, and a poll ends
\* before the upload is late.
Orderly ==
  /\ \A k, l \in Changing : {k, l} \in Overlap =>
       k = l \/ (k \in {"mark", "beat"} /\ l \in {"mark", "beat"})
  /\ {"progress", "lapse"} \notin Overlap

\* A session that is under way.
At(a) == pc[a] # "idle"

\* Whoever is at work together may be.
Together == \A a, b \in Actor : At(a) /\ At(b) /\ a # b => {mem[a].kind, mem[b].kind} \in Overlap

\* The steps of a kind of work.
StepsOf(k) ==
  CASE k = "chunk"               -> {"save", "count", "commit"}
    [] k = "progress"            -> {"count", "commit"}
    [] k = "mark"                -> {"commit"}
    [] k = "merge"               -> {"count", "read", "store", "delete", "commit"}
    [] k \in {"cancel", "beat"}  -> {"delete", "commit"}
    [] OTHER                     -> {}

\* What a session has made, or will make, of the row.
Loaded(step, m) ==
  /\ m.kind \in Changing \cup {"progress"} /\ step \in StepsOf(m.kind)
  /\ m.kind \in {"merge", "chunk"} => m.from.status \in Open /\ ~m.from.file
  /\ m.kind # "merge" => m.to.file = m.from.file
  /\ m.kind = "chunk" /\ step = "commit" => m.to.status = "uploading"
  /\ m.kind = "progress" => ~late /\ m.to.status = m.from.status
  /\ m.kind \in {"mark", "beat"} => m.to.status = "expired"
  /\ m.kind = "cancel" => m.to.status = "cancelled"
  /\ m.kind = "merge" /\ step \in {"delete", "commit"} =>
       m.to.status = "completed" /\ m.to.file /\ object = "whole"

\* The statuses that the row may have while a kind of work goes on.
Bears(k) ==
  CASE k = "chunk"              -> Open
    [] k = "merge"              -> Open \cup {"completed"}
    [] k \in {"mark", "beat"}   -> Open \cup {"expired"}
    [] k = "cancel"             -> Open \cup {"expired", "cancelled"}
    [] OTHER                    -> Open \cup {"completed", "cancelled", "expired"}

\* The chunks that a session has deleted stay deleted.
Emptied(step, m) ==
  m.kind \in {"merge", "cancel", "beat"} =>
    /\ step = "delete" => \A i \in Index : i < m.index => chunk[i] = "none"
    /\ step = "commit" => \A i \in Index : chunk[i] = "none"

\* Sessions, the row and the chunks agree.
Sessions ==
  \A a \in Actor : At(a) =>
    Loaded(pc[a], mem[a]) /\ Emptied(pc[a], mem[a]) /\ row.status \in Bears(mem[a].kind)

\* The row, its file and the chunks agree.
RowKept ==
  /\ row.status = "none" => row = Absent
  /\ row.file <=> row.status = "completed"
  /\ row.file => object = "whole"
  /\ row.status \notin Open \cup {"expired"} => \A i \in Index : chunk[i] = "none"

\* Why the promises are kept, given Types.
Rules == Together /\ Sessions /\ RowKept

\* Nobody at work on nothing.
LEMMA InitRules == Init => Rules
BY DEF Init, Rules, Together, Sessions, RowKept, At, Absent, Open

\* A session that goes on with its work, or ends.
LEMMA GoesRules ==
  ASSUME Types, Rules, NEW a \in Actor, NEW step, NEW m, Goes(a, step, m),
         row' = row, late' = late, object' \in {object, "whole"},
         \A i \in Index : chunk[i] = "none" => chunk'[i] = "none",
         step = "idle" \/ (At(a) /\ m.kind = mem[a].kind /\ Loaded(step, m)' /\ Emptied(step, m)')
  PROVE  Rules'
<1>1. \A b \in Actor : /\ pc'[b]  = IF b = a THEN step ELSE pc[b]
                       /\ mem'[b] = IF b = a THEN m ELSE mem[b]
  BY GoesTo
<1>2. Together'
  BY <1>1 DEF Rules, Together, At
<1>3. ASSUME NEW b \in Actor, b # a, At(b)
      PROVE  Loaded(pc[b], mem[b])' /\ Emptied(pc[b], mem[b])'
  BY <1>1, <1>3 DEF Rules, Sessions, Loaded, Emptied
<1>4. \A k : Bears(k)' = Bears(k)
  BY DEF Bears, Open
<1>5. Sessions'
  <2>1. ASSUME NEW b \in Actor, At(b)'
        PROVE  /\ Loaded(pc[b], mem[b])' /\ Emptied(pc[b], mem[b])'
               /\ row'.status \in Bears(mem'[b].kind)
    <3>1. CASE b # a
      BY <1>1, <1>3, <2>1, <3>1 DEF At, Rules, Sessions
    <3>2. CASE b = a
      <4>1. pc'[b] = step /\ mem'[b] = m /\ step # "idle"
        BY <1>1, <2>1, <3>2 DEF At
      <4>2. QED BY <3>2, <4>1 DEF Rules, Sessions, Loaded, Emptied
    <3>3. QED BY <3>1, <3>2
  <2>2. QED BY <1>4, <2>1 DEF Sessions
<1>6. RowKept'
  BY DEF Rules, RowKept
<1>7. QED BY <1>2, <1>5, <1>6 DEF Rules

\* A session begins.
LEMMA LoadsRules ==
  ASSUME Types, Rules, NEW a \in Actor, NEW step, NEW k, NEW i, NEW good, NEW to,
         Loads(a, step, k, i, good, to), row' = row, late' = late, chunk' = chunk, object' = object,
         row.status \in Bears(k), step # "idle",
         LET m == [kind |-> k, index |-> i, good |-> good, from |-> row, to |-> to]
         IN  Loaded(step, m) /\ Emptied(step, m)
  PROVE  Rules'
<1> DEFINE m == [kind |-> k, index |-> i, good |-> good, from |-> row, to |-> to]
<1>1. Goes(a, step, m) /\ ~At(a) /\ m.kind = k /\ Loaded(step, m) /\ Emptied(step, m)
        /\ \A b \in Actor : At(b) => {k, mem[b].kind} \in Overlap
  BY DEF Loads, May, At
<1> HIDE DEF m
<1>2. \A b \in Actor : /\ pc'[b]  = IF b = a THEN step ELSE pc[b]
                       /\ mem'[b] = IF b = a THEN m ELSE mem[b]
  BY <1>1, GoesTo
<1>3. Together'
  <2>1. \A x, y : {x, y} = {y, x}
    OBVIOUS
  <2>2. ASSUME NEW b \in Actor, NEW c \in Actor, At(b)', At(c)', b # c
        PROVE  {mem'[b].kind, mem'[c].kind} \in Overlap
    <3>1. CASE b = a
      BY <1>1, <1>2, <2>2, <3>1 DEF At
    <3>2. CASE c = a
      <4>1. mem'[c].kind = k /\ mem'[b] = mem[b] /\ At(b)
        BY <1>1, <1>2, <2>2, <3>2 DEF At
      <4>2. {k, mem[b].kind} \in Overlap
        BY <1>1, <4>1
      <4>3. {mem[b].kind, k} = {k, mem[b].kind}
        BY <2>1
      <4>4. QED BY <4>1, <4>2, <4>3
    <3>3. CASE b # a /\ c # a
      BY <1>2, <2>2, <3>3 DEF Rules, Together, At
    <3>4. QED BY <3>1, <3>2, <3>3
  <2>3. QED BY <2>2 DEF Together
<1>4. \A x : Bears(x)' = Bears(x)
  BY DEF Bears, Open
<1>5. Sessions'
  <2>1. ASSUME NEW b \in Actor, At(b)'
        PROVE  /\ Loaded(pc[b], mem[b])' /\ Emptied(pc[b], mem[b])'
               /\ row'.status \in Bears(mem'[b].kind)
    <3>1. CASE b # a
      <4>1. pc'[b] = pc[b] /\ mem'[b] = mem[b] /\ At(b)
        BY <1>2, <2>1, <3>1 DEF At
      <4>2. QED BY <4>1 DEF Rules, Sessions, Loaded, Emptied
    <3>2. CASE b = a
      <4>1. pc'[b] = step /\ mem'[b] = m
        BY <1>2, <3>2
      <4>2. QED BY <1>1, <4>1 DEF Loaded, Emptied
    <3>3. QED BY <3>1, <3>2
  <2>2. QED BY <1>4, <2>1 DEF Sessions
<1>6. RowKept'
  BY DEF Rules, RowKept
<1>7. QED BY <1>3, <1>5, <1>6 DEF Rules

\* A session that takes a step short of the commit.
LEMMA StepRules ==
  ASSUME Orderly, Types, Rules, NEW a \in Actor,
         \/ ChunkSave(a) \/ ChunkCount(a) \/ ProgressCount(a)
         \/ MergeCount(a) \/ MergeRead(a) \/ MergeStore(a) \/ DeleteChunk(a) \/ Abort(a)
  PROVE  Rules'
<1> DEFINE m == mem[a]
<1>1. At(a) /\ row' = row /\ late' = late
  BY DEF At, ChunkSave, ChunkCount, ProgressCount, MergeCount, MergeRead, MergeStore, DeleteChunk,
         Abort
<1>2. Loaded(pc[a], m) /\ Emptied(pc[a], m) /\ row.status \in Bears(m.kind)
  BY <1>1 DEF Rules, Sessions
<1>3. /\ m \in Memory /\ m.from \in Row /\ m.to \in Row /\ m.index \in 0..N + 1
      /\ m.good \in BOOLEAN
      /\ pc[a] \in {"save", "read", "delete"} => m.index \in Index
  BY AtWork
<1>4. ASSUME Ends(a), object' = object, chunk' = chunk PROVE Rules'
  BY <1>1, <1>4, GoesRules DEF Ends
<1>5. CASE Abort(a)
  BY <1>4, <1>5 DEF Abort, store
<1>6. CASE ChunkSave(a)
  <2>1. /\ pc[a] = "save" /\ Goes(a, "count", m) /\ object' = object
        /\ chunk' = [chunk EXCEPT ![m.index] = IF m.good THEN "good" ELSE "bad"]
    BY <1>6 DEF ChunkSave
  <2>2. m.kind = "chunk" /\ row.status \in Open
    BY <1>2, <2>1 DEF Loaded, StepsOf, Changing, Bears
  <2>3. \A b \in Actor : /\ pc'[b]  = IF b = a THEN "count" ELSE pc[b]
                         /\ mem'[b] = IF b = a THEN m ELSE mem[b]
    BY <2>1, GoesTo
  <2>4. Together'
    BY <1>1, <2>1, <2>3 DEF Rules, Together, At
  <2>5. ASSUME NEW b \in Actor, At(b)'
        PROVE  /\ Loaded(pc[b], mem[b])' /\ Emptied(pc[b], mem[b])'
               /\ row'.status \in Bears(mem'[b].kind)
    <3>1. At(b) /\ mem'[b] = mem[b]
      BY <1>1, <2>3, <2>5 DEF At
    <3>2. mem[b].kind \notin {"merge", "cancel", "beat"}
      <4>1. b # a => {m.kind, mem[b].kind} \in Overlap
        BY <1>1, <3>1 DEF Rules, Together
      <4>2. QED BY <2>2, <4>1 DEF Orderly, Changing
    <3>3. Loaded(pc[b], mem[b])'
      <4>1. Loaded(pc[b], mem[b]) /\ row.status \in Bears(mem[b].kind)
        BY <3>1 DEF Rules, Sessions
      <4>2. Loaded(pc'[b], mem[b])
        BY <1>2, <2>2, <2>3, <4>1 DEF Loaded, StepsOf
      <4>3. QED BY <1>1, <2>1, <3>1, <4>2 DEF Loaded
    <3>4. row.status \in Bears(mem[b].kind)
      BY <3>1 DEF Rules, Sessions
    <3>5. QED BY <1>1, <3>1, <3>2, <3>3, <3>4 DEF Emptied
  <2>6. Sessions'
    <3>1. \A k : Bears(k)' = Bears(k)
      BY DEF Bears, Open
    <3>2. QED BY <2>5, <3>1 DEF Sessions
  <2>7. RowKept'
    BY <1>1, <2>1, <2>2 DEF Rules, RowKept
  <2>8. QED BY <2>4, <2>6, <2>7 DEF Rules
<1>a. ASSUME NEW n, Goes(a, "commit", n), UNCHANGED store, m.kind \in {"chunk", "progress"},
             n.kind = m.kind, n.from = m.from, n.to.file = m.to.file,
             m.kind = "chunk" => n.to.status = "uploading",
             m.kind = "progress" => n.to.status = m.to.status
      PROVE  Rules'
  <2>1. Loaded("commit", n)' /\ Emptied("commit", n)'
    BY <1>1, <1>2, <1>a DEF Loaded, StepsOf, Changing, Emptied
  <2>2. QED BY <1>1, <1>a, <2>1, GoesRules DEF store
<1>7. CASE ChunkCount(a)
  <2> DEFINE to == [Counted(m.to) EXCEPT !.status = "uploading"]
             n == [m EXCEPT !.to = to]
  <2>1. m.kind = "chunk" /\ Goes(a, "commit", n) /\ UNCHANGED store
    BY <1>7 DEF ChunkCount
  <2>2. Counted(m.to) \in Row /\ Counted(m.to).file = m.to.file
    BY <1>3, CountedRow DEF Types
  <2> HIDE DEF m
  <2>3. to.file = m.to.file /\ to.status = "uploading"
    BY <2>2 DEF Row
  <2> HIDE DEF to
  <2>4. n.kind = m.kind /\ n.from = m.from /\ n.to = to
    BY <1>3 DEF Memory
  <2> HIDE DEF n
  <2>5. QED BY <1>a, <2>1, <2>3, <2>4
<1>8. CASE ProgressCount(a)
  <2> DEFINE to == Got(Counted(m.to))
             n == [m EXCEPT !.to = to]
  <2>1. m.kind = "progress" /\ Goes(a, "commit", n) /\ UNCHANGED store
    BY <1>8 DEF ProgressCount
  <2>2. ~late
    BY <1>2, <2>1 DEF Loaded
  <2>3. to.file = m.to.file /\ to.status = m.to.status
    BY <1>3, <2>2, CountedRow, GotRow DEF Types
  <2> HIDE DEF m, to
  <2>4. n.kind = m.kind /\ n.from = m.from /\ n.to = to
    BY <1>3 DEF Memory
  <2> HIDE DEF n
  <2>5. QED BY <1>a, <2>1, <2>3, <2>4
<1>9. ASSUME NEW step \in {"read", "store"}, NEW n, Goes(a, step, n), UNCHANGED store,
             m.kind = "merge", n.kind = m.kind, n.from = m.from
      PROVE  Rules'
  <2>1. Loaded(step, n)' /\ Emptied(step, n)'
    BY <1>2, <1>9 DEF Loaded, StepsOf, Changing, Emptied
  <2>2. QED BY <1>1, <1>9, <2>1, GoesRules DEF store
<1>10. CASE MergeCount(a)
  <2> DEFINE n == [m EXCEPT !.index = 1, !.to = Counted(m.to)]
  <2>1. m.kind = "merge" /\ (Goes(a, "read", n) \/ Ends(a)) /\ UNCHANGED store
    BY <1>10 DEF MergeCount
  <2> HIDE DEF m
  <2>2. n.kind = m.kind /\ n.from = m.from
    BY <1>3 DEF Memory
  <2> HIDE DEF n
  <2>3. QED BY <1>4, <1>9, <2>1, <2>2 DEF store
<1>11. CASE MergeRead(a)
  <2> DEFINE n == [m EXCEPT !.index = m.index + 1, !.good = m.good /\ chunk[m.index] = "good"]
             step == IF m.index = N THEN "store" ELSE "read"
  <2>1. pc[a] = "read" /\ (Goes(a, step, n) \/ Ends(a)) /\ UNCHANGED store
    BY <1>11 DEF MergeRead
  <2>2. m.kind = "merge"
    BY <1>2, <2>1 DEF Loaded, StepsOf, Changing
  <2>3. step \in {"store", "read"}
    OBVIOUS
  <2> HIDE DEF m, step
  <2>4. n.kind = m.kind /\ n.from = m.from
    BY <1>3 DEF Memory
  <2> HIDE DEF n
  <2>5. QED BY <1>4, <1>9, <2>1, <2>2, <2>3, <2>4 DEF store
<1>12. CASE MergeStore(a)
  <2> DEFINE to == [m.to EXCEPT !.status = "completed", !.file = TRUE]
             n == [m EXCEPT !.index = 1, !.to = to]
  <2>1. /\ pc[a] = "store" /\ chunk' = chunk
        /\ \/ Goes(a, "delete", n) /\ object' = "whole"
           \/ Ends(a) /\ object' = object
    BY <1>12 DEF MergeStore, Verified
  <2>2. m.kind = "merge"
    BY <1>2, <2>1 DEF Loaded, StepsOf, Changing
  <2> HIDE DEF m
  <2>3. to.status = "completed" /\ to.file
    BY <1>3 DEF Row
  <2> HIDE DEF to
  <2>4. n.kind = m.kind /\ n.from = m.from /\ n.to = to /\ n.index = 1
    BY <1>3 DEF Memory
  <2> HIDE DEF n
  <2>5. ASSUME NEW x, Goes(a, "delete", x), object' = "whole", x.kind = m.kind, x.from = m.from,
               x.to.status = "completed", x.to.file, x.index = 1
        PROVE  Rules'
    <3>1. Loaded("delete", x)'
      BY <1>2, <2>2, <2>5 DEF Loaded, StepsOf, Changing
    <3>2. Emptied("delete", x)'
      BY <2>5 DEF Emptied, Index
    <3>3. QED BY <1>1, <2>1, <2>5, <3>1, <3>2, GoesRules DEF m
  <2>6. QED BY <1>4, <2>1, <2>3, <2>4, <2>5
<1>13. CASE DeleteChunk(a)
  <2> DEFINE n == [m EXCEPT !.index = m.index + 1]
             step == IF m.index = N THEN "commit" ELSE "delete"
  <2>1. /\ pc[a] = "delete" /\ m.index \in Index /\ object' = object
    BY <1>3, <1>13 DEF DeleteChunk
  <2>2. /\ Goes(a, step, n) /\ chunk' = [chunk EXCEPT ![m.index] = "none"]
    BY <1>13, <2>1, UploadAssumption DEF DeleteChunk, Last, Index
  <2>3. \A i \in Index : chunk'[i] = IF i = m.index THEN "none" ELSE chunk[i]
    BY <2>1, <2>2 DEF Types, TypeOK
  <2> HIDE DEF m
  <2>4. n.kind = m.kind /\ n.from = m.from /\ n.to = m.to /\ n.index = m.index + 1
    BY <1>3 DEF Memory
  <2> HIDE DEF n
  <2>5. ASSUME NEW x, NEW st, Goes(a, st, x), st = IF m.index = N THEN "commit" ELSE "delete",
               x.kind = m.kind, x.from = m.from, x.to = m.to, x.index = m.index + 1
        PROVE  Rules'
    <3>1. m.kind \in {"merge", "cancel", "beat"} =>
            \A i \in Index : i <= m.index => chunk'[i] = "none"
      BY <1>2, <2>1, <2>3, UploadAssumption DEF Emptied, Index
    <3>2. Emptied(st, x)'
      BY <2>1, <2>5, <3>1, UploadAssumption DEF Emptied, Index
    <3>3. Loaded(st, x)'
      BY <1>1, <1>2, <2>1, <2>5 DEF Loaded, StepsOf, Changing
    <3>4. QED BY <1>1, <2>1, <2>3, <2>5, <3>2, <3>3, GoesRules DEF m
  <2>6. QED BY <2>2, <2>4, <2>5
<1>14. QED
  BY <1>5, <1>6, <1>7, <1>8, <1>10, <1>11, <1>12, <1>13

\* What a commit makes of the row.
LEMMA CommitKind ==
  ASSUME Types, Rules, NEW a \in Actor, Commit(a)
  PROVE  LET k == mem[a].kind
         IN  /\ k \in Changing \cup {"progress"} /\ row.status \in Bears(k)
             /\ k = "progress" => row'.status = row.status
             /\ k = "chunk" => row'.status \in Open
             /\ k \in {"mark", "beat"} => row'.status \in {row.status, "expired"}
             /\ k = "cancel" => row'.status \in {row.status, "cancelled"}
             /\ k = "merge" => row'.status = "completed" /\ row'.file /\ object = "whole"
             /\ k # "merge" => row'.file = row.file
             /\ k \in {"merge", "cancel"} => \A i \in Index : chunk[i] = "none"
<1> DEFINE m == mem[a]
<1>1. At(a) /\ pc[a] = "commit"
  BY DEF Commit, At
<1>2. Loaded("commit", m) /\ Emptied("commit", m) /\ row.status \in Bears(m.kind)
  BY <1>1 DEF Rules, Sessions
<1>3. /\ row' \in Row
      /\ row'.status = IF m.to.status = m.from.status THEN row.status ELSE m.to.status
      /\ row'.file = IF m.to.file = m.from.file THEN row.file ELSE m.to.file
  BY CommitRow
<1> HIDE DEF m
<1>4. m.kind = "chunk" => row'.status \in Open
  BY <1>2, <1>3 DEF Loaded, Bears, Open
<1>5. m.kind = "merge" => row'.status = "completed" /\ row'.file /\ object = "whole"
  BY <1>2, <1>3 DEF Loaded, Open
<1>6. m.kind \in Changing \cup {"progress"}
  BY <1>2 DEF Loaded
<1>7. QED BY <1>2, <1>3, <1>4, <1>5, <1>6 DEF Loaded, Emptied, m

\* A commit: what else is at work bears it.
LEMMA CommitRules ==
  ASSUME Orderly, Types, Rules, NEW a \in Actor, Commit(a)
  PROVE  Rules'
<1> DEFINE k == mem[a].kind
<1>1. At(a) /\ Ends(a) /\ UNCHANGED <<late, store>>
  BY DEF Commit, At
<1>2. /\ k \in Changing \cup {"progress"} /\ row.status \in Bears(k)
      /\ k = "progress" => row'.status = row.status
      /\ k = "chunk" => row'.status \in Open
      /\ k \in {"mark", "beat"} => row'.status \in {row.status, "expired"}
      /\ k = "cancel" => row'.status \in {row.status, "cancelled"}
      /\ k = "merge" => row'.status = "completed" /\ row'.file /\ object = "whole"
      /\ k # "merge" => row'.file = row.file
      /\ k \in {"merge", "cancel"} => \A i \in Index : chunk[i] = "none"
  BY CommitKind
<1>3. \A b \in Actor : At(b)' => At(b) /\ b # a /\ pc'[b] = pc[b] /\ mem'[b] = mem[b]
  BY <1>1, GoesTo DEF Ends, At
<1>4. Together'
  BY <1>3 DEF Rules, Together
<1> HIDE DEF k
<1>5. Sessions'
  <2>1. ASSUME NEW b \in Actor, At(b)'
        PROVE  /\ Loaded(pc[b], mem[b])' /\ Emptied(pc[b], mem[b])'
               /\ row'.status \in Bears(mem[b].kind)
    <3>1. /\ Loaded(pc[b], mem[b]) /\ Emptied(pc[b], mem[b]) /\ row.status \in Bears(mem[b].kind)
          /\ At(b) /\ b # a /\ pc'[b] = pc[b] /\ mem'[b] = mem[b]
      BY <1>3, <2>1 DEF Rules, Sessions
    <3>2. Loaded(pc[b], mem[b])' /\ Emptied(pc[b], mem[b])'
      BY <1>1, <3>1 DEF Loaded, Emptied, store
    <3>3. {k, mem[b].kind} \in Overlap
      BY <1>1, <3>1 DEF Rules, Together, k
    <3>4. mem[b].kind \in Changing \cup {"progress"}
      BY <3>1 DEF Loaded
    <3>5. \/ k = "progress" \/ mem[b].kind = "progress" \/ k = mem[b].kind
          \/ k \in {"mark", "beat"} /\ mem[b].kind \in {"mark", "beat"}
      BY <1>2, <3>3, <3>4 DEF Orderly
    <3>6. row'.status \in Bears(mem[b].kind)
      <4>1. CASE mem[b].kind = "progress"
        <5>1. row'.status \in Open \cup {"completed", "cancelled", "expired"}
          BY <1>2 DEF Bears, Changing
        <5>2. QED BY <4>1, <5>1 DEF Bears
      <4>2. CASE k = "progress"
        BY <1>2, <3>1, <4>2
      <4>3. CASE k = mem[b].kind /\ k # "progress"
        BY <1>2, <4>3 DEF Bears, Changing
      <4>4. CASE k \in {"mark", "beat"} /\ mem[b].kind \in {"mark", "beat"}
        BY <1>2, <4>4 DEF Bears
      <4>5. QED BY <3>5, <4>1, <4>2, <4>3, <4>4
    <3>7. QED BY <3>2, <3>6
  <2>2. \A x : Bears(x)' = Bears(x)
    BY DEF Bears, Open
  <2>3. QED BY <1>3, <2>1, <2>2 DEF Sessions
<1>6. RowKept'
  <2>1. row.status # "none" /\ row'.status # "none"
    BY <1>2 DEF Bears, Open, Changing
  <2>2. row'.file <=> row'.status = "completed"
    <3>1. CASE k = "merge"
      BY <1>2, <3>1
    <3>2. CASE k # "merge"
      <4>1. row'.status = "completed" <=> row.status = "completed"
        BY <1>2, <3>2 DEF Bears, Open, Changing
      <4>2. QED BY <1>2, <3>2, <4>1 DEF Rules, RowKept
    <3>3. QED BY <3>1, <3>2
  <2>3. row'.file => object' = "whole"
    BY <1>1, <1>2 DEF Rules, RowKept, store
  <2>4. row'.status \notin Open \cup {"expired"} => \A i \in Index : chunk'[i] = "none"
    <3>1. CASE k \in {"merge", "cancel"}
      BY <1>1, <1>2, <3>1 DEF store
    <3>2. CASE k \notin {"merge", "cancel"}
      BY <1>1, <1>2, <3>2 DEF Rules, RowKept, store, Changing
    <3>3. QED BY <3>1, <3>2
  <2>5. QED BY <2>1, <2>2, <2>3, <2>4 DEF RowKept
<1>7. QED BY <1>4, <1>5, <1>6 DEF Rules

\* No step breaks the rules.
LEMMA NextRules == Orderly /\ Types /\ Rules /\ [Next]_vars => Rules'
<1> SUFFICES ASSUME Orderly, Types, Rules, [Next]_vars PROVE Rules'
  OBVIOUS
<1>1. CASE UNCHANGED vars
  <2>1. UNCHANGED <<row, late, chunk, object, pc, mem>>
    BY <1>1 DEF vars, store, work
  <2>2. \A k : Bears(k)' = Bears(k)
    BY DEF Bears, Open
  <2>3. Sessions'
    BY <2>1, <2>2 DEF Rules, Sessions, At, Loaded, Emptied
  <2>4. Together' /\ RowKept'
    BY <2>1 DEF Rules, Together, RowKept, At
  <2>5. QED BY <2>3, <2>4 DEF Rules
<1>2. ASSUME NEW has \in BOOLEAN, InitUpload(has) PROVE Rules'
  <2>1. /\ row = Absent /\ UNCHANGED <<late, chunk, pc, mem>>
        /\ \/ row' = Reused /\ object' = "whole"
           \/ row' = Opened
    BY <1>2 DEF InitUpload, work
  <2>2. \A a \in Actor : ~At(a)
    <3>1. row.status = "none"
      BY <2>1 DEF Absent
    <3>2. \A k : "none" \notin Bears(k)
      BY DEF Bears, Open
    <3>3. QED BY <3>1, <3>2 DEF Rules, Sessions
  <2>3. Together' /\ Sessions'
    BY <2>1, <2>2 DEF Together, Sessions, At
  <2>4. \A i \in Index : chunk[i] = "none"
    BY <2>1 DEF Rules, RowKept, Absent, Open
  <2>5. /\ Reused.status = "completed" /\ Reused.file
        /\ Opened.status = "initiated" /\ ~Opened.file
    BY DEF Reused, Opened, Absent
  <2>6. RowKept'
    BY <2>1, <2>4, <2>5 DEF RowKept, Open
  <2>7. QED BY <2>3, <2>6 DEF Rules
<1>3. row \in Row /\ Request \subseteq Actor /\ Beat \in Actor
        /\ (row.status \in Open => ~row.file) /\ "completed" \notin Open
  BY DEF Types, TypeOK, Actor, Rules, RowKept, Open
<1>4. \A st \in {"cancelled", "expired"} : /\ [row EXCEPT !.status = st].status = st
                                           /\ [row EXCEPT !.status = st].file = row.file
  BY <1>3 DEF Row
<1>5. /\ Got(row).file = row.file
      /\ Got(row).status = IF row.status \in Open /\ late THEN "expired" ELSE row.status
  BY <1>3, GotRow DEF Types
<1>6. ASSUME NEW a \in Request, NEW i \in Index, NEW good \in BOOLEAN, ChunkLoad(a, i, good)
      PROVE  Rules'
  <2>1. /\ Loads(a, "save", "chunk", i, good, row) /\ UNCHANGED <<row, late, chunk, object>>
        /\ row.status \in Open
    BY <1>5, <1>6 DEF ChunkLoad, Accepts, store, Open
  <2> DEFINE m == [kind |-> "chunk", index |-> i, good |-> good, from |-> row, to |-> row]
  <2>2. Loaded("save", m) /\ Emptied("save", m)
    BY <1>3, <2>1 DEF Loaded, Emptied, StepsOf, Changing
  <2>3. row.status \in Bears("chunk")
    BY <2>1 DEF Bears
  <2>4. QED BY <1>3, <2>1, <2>2, <2>3, LoadsRules
<1>7. ASSUME NEW a \in Request, ProgressLoad(a) PROVE Rules'
  <2>1. row.status \in Open /\ UNCHANGED <<row, late, chunk, object>>
    BY <1>7 DEF ProgressLoad, store
  <2>2. row.status \in Bears("mark") /\ row.status \in Bears("progress")
    BY <2>1 DEF Bears
  <2>3. CASE late
    <3> DEFINE m == [kind |-> "mark", index |-> 0, good |-> FALSE, from |-> row, to |-> Got(row)]
    <3>1. Loads(a, "commit", "mark", 0, FALSE, Got(row))
      BY <1>7, <2>3 DEF ProgressLoad
    <3>2. Got(row).status = "expired" /\ Got(row).file = row.file
      BY <1>5, <2>1, <2>3
    <3>3. Loaded("commit", m) /\ Emptied("commit", m)
      BY <2>1, <3>2 DEF Loaded, Emptied, StepsOf, Changing
    <3>4. QED BY <1>3, <2>1, <2>2, <3>1, <3>3, LoadsRules
  <2>4. CASE ~late
    <3> DEFINE m == [kind |-> "progress", index |-> 0, good |-> FALSE, from |-> row, to |-> row]
    <3>1. Loads(a, "count", "progress", 0, FALSE, row)
      BY <1>7, <2>4 DEF ProgressLoad
    <3>2. Loaded("count", m) /\ Emptied("count", m)
      BY <2>1, <2>4 DEF Loaded, Emptied, StepsOf, Changing
    <3>3. QED BY <1>3, <2>1, <2>2, <3>1, <3>2, LoadsRules
  <2>5. QED BY <2>3, <2>4
<1>8. ASSUME NEW a \in Request, MergeLoad(a) PROVE Rules'
  <2>1. /\ Loads(a, "count", "merge", 0, TRUE, row) /\ UNCHANGED <<row, late, chunk, object>>
        /\ row.status \in Open
    BY <1>5, <1>8 DEF MergeLoad, Accepts, store, Open
  <2> DEFINE m == [kind |-> "merge", index |-> 0, good |-> TRUE, from |-> row, to |-> row]
  <2>2. Loaded("count", m) /\ Emptied("count", m)
    BY <1>3, <2>1 DEF Loaded, Emptied, StepsOf, Changing
  <2>3. row.status \in Bears("merge")
    BY <2>1 DEF Bears
  <2>4. QED BY <1>3, <2>1, <2>2, <2>3, LoadsRules
<1>9. ASSUME NEW a \in Request, CancelLoad(a) PROVE Rules'
  <2> DEFINE to == [row EXCEPT !.status = "cancelled"]
             m == [kind |-> "cancel", index |-> 1, good |-> FALSE, from |-> row, to |-> to]
  <2>1. /\ Loads(a, "delete", "cancel", 1, FALSE, to) /\ UNCHANGED <<row, late, chunk, object>>
        /\ row.status # "completed" /\ row # Absent
    BY <1>9 DEF CancelLoad, Loads, store
  <2>2. row.status \in Bears("cancel")
    BY <1>3, <2>1 DEF Bears, Row, Rules, RowKept
  <2>3. to.status = "cancelled" /\ to.file = row.file
    BY <1>4
  <2> HIDE DEF to
  <2>4. Loaded("delete", m) /\ Emptied("delete", m)
    BY <2>3 DEF Loaded, Emptied, StepsOf, Changing, Index
  <2>5. QED BY <1>3, <2>1, <2>2, <2>4, LoadsRules
<1>10. CASE BeatLoad
  <2> DEFINE to == [row EXCEPT !.status = "expired"]
             m == [kind |-> "beat", index |-> 1, good |-> FALSE, from |-> row, to |-> to]
  <2>1. /\ Loads(Beat, "delete", "beat", 1, FALSE, to) /\ UNCHANGED <<row, late, chunk, object>>
        /\ row.status \in Open
    BY <1>10 DEF BeatLoad, store
  <2>2. row.status \in Bears("beat")
    BY <2>1 DEF Bears
  <2>3. to.status = "expired" /\ to.file = row.file
    BY <1>4
  <2> HIDE DEF to
  <2>4. Loaded("delete", m) /\ Emptied("delete", m)
    BY <2>3 DEF Loaded, Emptied, StepsOf, Changing, Index
  <2>5. QED BY <1>3, <2>1, <2>2, <2>4, LoadsRules
<1>11. CASE Lapse
  <2>1. UNCHANGED <<row, chunk, object, pc, mem>>
          /\ \A a \in Actor : At(a) => {"lapse", mem[a].kind} \in Overlap
    BY <1>11 DEF Lapse, May, At, store, work
  <2>2. \A a \in Actor : At(a) => mem[a].kind # "progress"
    <3>1. {"lapse", "progress"} = {"progress", "lapse"}
      OBVIOUS
    <3>2. QED BY <2>1, <3>1 DEF Orderly
  <2>3. \A k : Bears(k)' = Bears(k)
    BY DEF Bears, Open
  <2>4. Sessions'
    BY <2>1, <2>2, <2>3 DEF Rules, Sessions, At, Loaded, Emptied
  <2>5. Together' /\ RowKept'
    BY <2>1 DEF Rules, Together, RowKept, At
  <2>6. QED BY <2>4, <2>5 DEF Rules
<1>12. QED
  BY <1>1, <1>2, <1>6, <1>7, <1>8, <1>9, <1>10, <1>11, StepRules, CommitRules DEF Next, Step

\* However many chunks an upload has and whatever else asks for its progress, sends or merges
\* it at the same time: once merge_chunks has completed it or cancel_upload has cancelled it,
\* no chunk object is left of it.
THEOREM ChunksGone == Orderly => (Spec => []NothingLeft)
<1> SUFFICES ASSUME Orderly PROVE Spec => []NothingLeft
  OBVIOUS
<1>1. Init => Types /\ Rules
  BY InitTypes, InitRules
<1>2. (Types /\ Rules) /\ [Next]_vars => (Types /\ Rules)'
  BY NextTypes, NextRules
<1>3. Rules => NothingLeft
  BY DEF Rules, RowKept, NothingLeft, Stored, Open
<1>4. QED BY <1>1, <1>2, <1>3, PTL DEF Spec

-----------------------------------------------------------------------------
(* ChunkUpload implements UploadSession *)

\* A new upload, in the abstract.
LEMMA InitSession == Init => Session!Init
BY DEF Init, Session!Init, Absent, Open

\* Only init and commits show.
LEMMA NextSession ==
  Orderly /\ Types /\ Rules /\ [Next]_vars => [Session!Next]_(Session!vars)
<1> SUFFICES ASSUME Orderly, Types, Rules, [Next]_vars PROVE [Session!Next]_(Session!vars)
  OBVIOUS
<1>1. ASSUME row' = row, object' = object \/ object' = "whole"
      PROVE  UNCHANGED Session!vars
  BY <1>1 DEF Rules, RowKept, Session!vars, Open
<1>2. CASE UNCHANGED vars
  BY <1>1, <1>2 DEF vars, store
<1>3. ASSUME NEW has \in BOOLEAN, InitUpload(has) PROVE Session!Next
  <2>1. /\ row = Absent
        /\ \/ row' = Reused /\ object' = "whole"
           \/ row' = Opened
    BY <1>3 DEF InitUpload
  <2>2. /\ Reused.status = "completed" /\ Reused.file
        /\ Opened.status = "initiated" /\ ~Opened.file
        /\ Absent.status = "none" /\ ~Absent.file
    BY DEF Reused, Opened, Absent
  <2>3. QED BY <2>1, <2>2 DEF Session!Next, Session!Open, Session!Reuse, Open
<1>4. ASSUME NEW a \in Actor, Commit(a) PROVE [Session!Next]_(Session!vars)
  <2> DEFINE k == mem[a].kind
  <2>1. /\ k \in Changing \cup {"progress"} /\ row.status \in Bears(k)
        /\ k = "progress" => row'.status = row.status
        /\ k = "chunk" => row'.status \in Open
        /\ k \in {"mark", "beat"} => row'.status \in {row.status, "expired"}
        /\ k = "cancel" => row'.status \in {row.status, "cancelled"}
        /\ k = "merge" => row'.status = "completed" /\ row'.file /\ object = "whole"
        /\ k # "merge" => row'.file = row.file
    BY <1>4, CommitKind
  <2>2. object' = object
    BY <1>4 DEF Commit, store
  <2>3. row.file <=> row.status = "completed"
    BY DEF Rules, RowKept
  <2> HIDE DEF k
  <2>4. CASE k \in {"progress", "chunk"}
    BY <2>1, <2>2, <2>4 DEF Session!vars, Bears
  <2>5. CASE k \in {"mark", "beat"}
    BY <2>1, <2>2, <2>3, <2>5 DEF Session!vars, Session!Next, Session!Expire, Bears, Open
  <2>6. CASE k = "cancel"
    BY <2>1, <2>2, <2>3, <2>6 DEF Session!vars, Session!Next, Session!Cancel, Bears, Open
  <2>7. CASE k = "merge"
    BY <2>1, <2>2, <2>3, <2>7 DEF Session!vars, Session!Next, Session!Complete, Bears, Open
  <2>8. QED BY <2>1, <2>4, <2>5, <2>6, <2>7 DEF Changing
<1>5. ASSUME NEW a \in Actor, MergeStore(a) PROVE UNCHANGED Session!vars
  BY <1>1, <1>5 DEF MergeStore, Verified
<1>6. QED
  BY <1>1, <1>2, <1>3, <1>4, <1>5 DEF Next, Step, ChunkLoad, ProgressLoad, MergeLoad, CancelLoad,
     BeatLoad, Lapse, ChunkSave, ChunkCount, ProgressCount, MergeCount, MergeRead, DeleteChunk,
     Abort, store

\* An upload whose requests do not contradict each other is what its client was promised:
\* the endpoints of upload.py and the clean-up end it once, completed only with its file.
THEOREM Promise == Orderly => (Spec => SessionKept)
<1> SUFFICES ASSUME Orderly PROVE Spec => SessionKept
  OBVIOUS
<1>1. Init => Types /\ Rules
  BY InitTypes, InitRules
<1>2. (Types /\ Rules) /\ [Next]_vars => (Types /\ Rules)'
  BY NextTypes, NextRules
<1>3. QED BY <1>1, <1>2, InitSession, NextSession, PTL DEF Spec, SessionKept, Session!Spec
=============================================================================

----------------------------- MODULE ChunkUpload -----------------------------
(***************************************************************************)
(* One chunked upload: app/services/upload_service.py behind the endpoints *)
(* of app/api/v1/upload.py, and _cleanup_expired_uploads of                *)
(* app/tasks/cleanup_tasks.py.                                             *)
(*                                                                         *)
(* The session is a row in PostgreSQL, its chunks are objects in MinIO.  A *)
(* request loads the row, works on the chunks, which change at once and    *)
(* for good, and commits the columns it changed in memory; nothing locks   *)
(* the row in between.  A failure before the commit, an AppException       *)
(* included, rolls the row back and leaves the chunks as they are.         *)
(*                                                                         *)
(* A chunk is good, or bad: of the right length, but not what the file     *)
(* hash and the etags announce.  Sizes, quotas, task links and what other  *)
(* uploads share with the merged file (see FileStore) are left out.        *)
(***************************************************************************)
EXTENDS Integers, FiniteSets

CONSTANTS
  N,         \* total_chunks
  Request,   \* requests that may be at work on the upload at once
  Overlap,   \* kinds of work, and moments, that may fall together, as pairs {k, l}
  MaxFaults, \* bound: failed requests; chunks that are bad or repeated; merges that
             \* are premature or repeated
  Beat       \* the hourly clean-up

Kind == {"chunk", "merge", "progress", "mark", "cancel", "beat", "lapse"}

ASSUME UploadAssumption ==
  /\ N \in Nat \ {0} /\ MaxFaults \in Nat
  /\ Overlap \subseteq {{k, l} : k \in Kind, l \in Kind}
  /\ Beat \notin Request

VARIABLES
  row,    \* table uploads
  late,   \* expired_at has passed
  chunk,  \* the chunk objects
  object, \* the object the merged file is stored as
  pc, mem,\* requests and the clean-up: next step, what the session has in memory
  faults

store == <<chunk, object>>
work  == <<pc, mem>>
vars  == <<row, late, store, work, faults>>

Index == 1..N
Actor == Request \cup {Beat}

Open == {"initiated", "uploading"}

Row == [status: Open \cup {"none", "completed", "cancelled", "expired"},
        received: 0..N, file: BOOLEAN]

Absent == [status |-> "none", received |-> 0, file |-> FALSE]

Idle == [kind |-> "none", index |-> 0, good |-> FALSE, from |-> Absent, to |-> Absent]

Init ==
  /\ row = Absent /\ late = FALSE
  /\ chunk = [i \in Index |-> "none"] /\ object = "none"
  /\ pc = [a \in Actor |-> "idle"] /\ mem = [a \in Actor |-> Idle]
  /\ faults = 0

-----------------------------------------------------------------------------
(* Helpers *)

Stored == {i \in Index : chunk[i] # "none"}

\* Mutant: the counter is incremented, whichever chunk arrived.
Counted_Plus(r) == [r EXCEPT !.received = @ + 1]

\* _count_received_chunks, the loop as one step
Counted(r) == [r EXCEPT !.received = Cardinality(Stored)]

\* _get_upload_for_user: an open upload that is late is marked, in memory.
Got(r) == IF r.status \in Open /\ late THEN [r EXCEPT !.status = "expired"] ELSE r

\* Kind or moment k may fall together with all the work that is going on.
May(k) == \A a \in Actor : pc[a] # "idle" => {k, mem[a].kind} \in Overlap

Goes(a, step, m) ==
  /\ pc'  = [pc EXCEPT ![a] = step]
  /\ mem' = [mem EXCEPT ![a] = m]

Ends(a) == Goes(a, "idle", Idle)

\* Actor a has loaded the row as r and goes on to step, with to in memory.
Loads(a, step, k, i, good, to) ==
  /\ pc[a] = "idle" /\ row # Absent
  /\ May(k)
  /\ Goes(a, step, [kind |-> k, index |-> i, good |-> good, from |-> row, to |-> to])

Fault ==
  /\ faults < MaxFaults
  /\ faults' = faults + 1

-----------------------------------------------------------------------------
(* POST /init *)

\* UploadService.init_upload, once the sizes and quotas were checked
Opened == [Absent EXCEPT !.status = "initiated"]

\* create_completed_duplicate_upload
Reused == [Absent EXCEPT !.status = "completed", !.file = TRUE]

\* The user has a file of this hash and size already, or not.
InitUpload(has) ==
  /\ row = Absent
  /\ row' = IF has THEN Reused ELSE Opened
  /\ object' = IF has THEN "whole" ELSE object
  /\ UNCHANGED <<late, chunk, work, faults>>

-----------------------------------------------------------------------------
(* PUT /chunk *)

\* Mutant: the status is not looked at.
Accepts_Any(r) == TRUE

\* Neither expired, completed nor cancelled.
Accepts(r) == Got(r).status \in Open

\* receive_chunk loads the row.  The client sends what is missing; to send a chunk
\* again, or a wrong one, counts as a fault.
ChunkLoad(a, i, good) ==
  /\ Accepts(row)
  /\ Loads(a, "save", "chunk", i, good, row)
  /\ IF chunk[i] # "good" /\ good THEN UNCHANGED faults ELSE Fault
  /\ UNCHANGED <<row, late, store>>

ChunkSave(a) ==
  /\ pc[a] = "save"
  /\ chunk' = [chunk EXCEPT ![mem[a].index] = IF mem[a].good THEN "good" ELSE "bad"]
  /\ Goes(a, "count", mem[a])
  /\ UNCHANGED <<row, late, object, faults>>

ChunkCount(a) ==
  /\ pc[a] = "count" /\ mem[a].kind = "chunk"
  /\ Goes(a, "commit", [mem[a] EXCEPT !.to = [Counted(@) EXCEPT !.status = "uploading"]])
  /\ UNCHANGED <<row, late, store, faults>>

-----------------------------------------------------------------------------
(* GET /progress *)

\* get_progress loads the row, and marks it if it is late ...
ProgressLoad(a) ==
  /\ row.status \in Open
  /\ IF late THEN Loads(a, "commit", "mark", 0, FALSE, Got(row))
             ELSE Loads(a, "count", "progress", 0, FALSE, row)
  /\ UNCHANGED <<row, late, store, faults>>

\* ... counts, and looks again: get_chunk_statuses.
ProgressCount(a) ==
  /\ pc[a] = "count" /\ mem[a].kind = "progress"
  /\ Goes(a, "commit", [mem[a] EXCEPT !.to = Got(Counted(@))])
  /\ UNCHANGED <<row, late, store, faults>>

-----------------------------------------------------------------------------
(* POST /merge *)

\* merge_upload loads the row.  A completed upload is answered with its file; one
\* that is over, or late, is refused, and the mark rolled back.  To ask too early, or
\* again before there is an answer, counts as a fault.
MergeLoad(a) ==
  /\ Accepts(row)
  /\ Loads(a, "count", "merge", 0, TRUE, row)
  /\ IF Stored = Index /\ \A b \in Actor : mem[b].kind # "merge" THEN UNCHANGED faults ELSE Fault
  /\ UNCHANGED <<row, late, store>>

\* Mutant: the counter in the row is trusted.
Complete_Row(m) == m.from.received = N

Complete(m) == Stored = Index

\* merge_chunks counts what is there ...
MergeCount(a) ==
  /\ pc[a] = "count" /\ mem[a].kind = "merge"
  /\ IF Complete(mem[a])
       THEN Goes(a, "read", [mem[a] EXCEPT !.index = 1, !.to = Counted(@)])
       ELSE Ends(a)
  /\ UNCHANGED <<row, late, store, faults>>

\* ... reads the chunks one by one; one may be gone by now ...
MergeRead(a) ==
  /\ pc[a] = "read"
  /\ LET i == mem[a].index
         m == [mem[a] EXCEPT !.index = i + 1, !.good = @ /\ chunk[i] = "good"]
     IN  IF chunk[i] = "none" THEN Ends(a)
         ELSE Goes(a, IF i = N THEN "store" ELSE "read", m)
  /\ UNCHANGED <<row, late, store, faults>>

\* Mutant: only the size is compared.
Verified_Size(m) == TRUE

\* Etags, expected_hash and file_hash.
Verified(m) == m.good

\* ... compares, uploads the whole, and completes the session with its file.
MergeStore(a) ==
  /\ pc[a] = "store"
  /\ IF Verified(mem[a])
       THEN /\ object' = IF mem[a].good THEN "whole" ELSE "broken"
            /\ Goes(a, "delete", [mem[a] EXCEPT !.index = 1,
                                    !.to = [@ EXCEPT !.status = "completed", !.file = TRUE]])
       ELSE Ends(a) /\ UNCHANGED object
  /\ UNCHANGED <<row, late, chunk, faults>>

-----------------------------------------------------------------------------
(* POST /cancel, the clean-up, and the steps they share with a merge *)

\* cancel_upload refuses a completed upload only; it may be asked for again.
CancelLoad(a) ==
  /\ row.status # "completed"
  /\ Loads(a, "delete", "cancel", 1, FALSE, [row EXCEPT !.status = "cancelled"])
  /\ UNCHANGED <<row, late, store, faults>>

\* _cleanup_expired_uploads selects open uploads that are late.
BeatLoad ==
  /\ late /\ row.status \in Open
  /\ Loads(Beat, "delete", "beat", 1, FALSE, [row EXCEPT !.status = "expired"])
  /\ UNCHANGED <<row, late, store, faults>>

\* Mutant: only as many chunks as the row counts are deleted.
Last_Received(m) == IF m.kind = "cancel" THEN m.from.received ELSE N

\* The last chunk to delete.
Last(m) == N

\* The chunks are deleted one by one, before the commit; an absent one is no error.
DeleteChunk(a) ==
  /\ pc[a] = "delete"
  /\ LET i == mem[a].index
     IN  IF i <= Last(mem[a])
           THEN /\ chunk' = [chunk EXCEPT ![i] = "none"]
                /\ Goes(a, IF i = N THEN "commit" ELSE "delete", [mem[a] EXCEPT !.index = i + 1])
           ELSE Goes(a, "commit", mem[a]) /\ UNCHANGED chunk
  /\ UNCHANGED <<row, late, object, faults>>

\* The columns that were changed are written, the others stay as they are by now.
Commit(a) ==
  /\ pc[a] = "commit"
  /\ LET m == mem[a]
     IN  row' = [c \in DOMAIN row |-> IF m.to[c] = m.from[c] THEN row[c] ELSE m.to[c]]
  /\ Ends(a)
  /\ UNCHANGED <<late, store, faults>>

\* The request fails, or its process dies: the row is rolled back.
Abort(a) ==
  /\ pc[a] # "idle"
  /\ Fault
  /\ Ends(a)
  /\ UNCHANGED <<row, late, store>>

\* 24 hours have passed since the upload was opened.
Lapse ==
  /\ row # Absent /\ ~late
  /\ May("lapse")
  /\ late' = TRUE
  /\ UNCHANGED <<row, store, work, faults>>

-----------------------------------------------------------------------------

Step(a) ==
  \/ ChunkSave(a) \/ ChunkCount(a) \/ ProgressCount(a)
  \/ MergeCount(a) \/ MergeRead(a) \/ MergeStore(a)
  \/ DeleteChunk(a) \/ Commit(a)

Next ==
  \/ \E has \in BOOLEAN : InitUpload(has)
  \/ \E a \in Request, i \in Index, good \in BOOLEAN : ChunkLoad(a, i, good)
  \/ \E a \in Request : ProgressLoad(a) \/ MergeLoad(a) \/ CancelLoad(a)
  \/ BeatLoad \/ Lapse
  \/ \E a \in Actor : Step(a) \/ Abort(a)

Spec == Init /\ [][Next]_vars

\* Requests go on; a client that wants its file sends what is missing and asks for
\* the merge again and again; Beat runs every hour.
Fairness ==
  /\ \A a \in Actor : WF_vars(Step(a))
  /\ \A i \in Index : SF_vars(chunk[i] # "good" /\ \E a \in Request : ChunkLoad(a, i, TRUE))
  /\ SF_vars(Stored = Index /\ \E a \in Request : MergeLoad(a))
  /\ SF_vars(BeatLoad)

FairSpec == Spec /\ Fairness

-----------------------------------------------------------------------------
(* Properties *)

\* Types.
TypeOK ==
  /\ row \in Row /\ late \in BOOLEAN
  /\ chunk \in [Index -> {"none", "good", "bad"}] /\ object \in {"none", "whole", "broken"}
  /\ pc \in [Actor -> {"idle", "save", "count", "read", "store", "delete", "commit"}]
  /\ mem \in [Actor -> [kind: Kind \cup {"none"}, index: 0..N + 1, good: BOOLEAN,
                        from: Row, to: Row]]
  /\ faults \in 0..MaxFaults

\* An upload that is completed or cancelled has left no chunk behind.
NothingLeft == row.status \in {"completed", "cancelled"} => Stored = {}

\* The upload as its client sees it: it ends once, and completed only with the file
\* that was announced.
Session == INSTANCE UploadSession WITH
  outcome <- IF row.status \in Open THEN "open" ELSE row.status,
  content <- IF row.file THEN object ELSE "none"

SessionKept == Session!Spec

\* An open upload ends: failed merges, lost or bad chunks and chunks that an
\* interrupted merge deleted can all be made up for, or else it expires.
Resumable == (row.status \in Open) ~> (row.status \notin Open)
=============================================================================

---------------------------- MODULE DownloadSession ----------------------------
(***************************************************************************)
(* The download of one file in chunks: FileService's download sessions     *)
(* (app/services/file_service.py), the handlers of app/api/v1/files.py and *)
(* the JSON document that app/core/redis_client.py keeps of a session.     *)
(*                                                                         *)
(* Every request reads the whole document, changes its copy and writes it  *)
(* back, with no lock: of chunks that are downloaded in parallel some are  *)
(* forgotten.  The client follows docs/api-reference.md 9.5: it asks for   *)
(* the chunks it misses, several at a time, looks at the progress, asks    *)
(* again for those the server has forgotten, and completes.  When it is    *)
(* refused it starts anew.                                                 *)
(*                                                                         *)
(* A content is a version of the file; all have the same size.  An etag is *)
(* the version its chunk was read from.                                    *)
(***************************************************************************)
EXTENDS Integers, FiniteSetsExt, SequencesExt

CONSTANTS
  Request,    \* chunk requests that the client has under way
  Version,    \* contents of the file, one after the other
  FileSize, ChunkSize,
  Patient,    \* TRUE: the client completes when none of its requests is under way
  MaxEvents,  \* bound: replacements, expiries and lost answers
  None

ASSUME DownloadAssumption ==
  /\ FileSize \in Nat /\ ChunkSize \in Nat \ {0}
  /\ Patient \in BOOLEAN /\ MaxEvents \in Nat
  /\ None \notin Version /\ "complete" \notin Request

VARIABLES
  content,  \* the version that the file's record points to
  doc,      \* the document in Redis
  pc, mem,  \* chunk requests and "complete": next step, what they have read
  client,   \* what the client is doing
  got,      \* the version of each chunk it has received
  served,   \* chunks that were sent in this session, with their version
  events    \* so far

server == <<doc, pc, mem>>
user   == <<client, got>>
vars   == <<content, server, user, served, events>>

Total == (FileSize + ChunkSize - 1) \div ChunkSize
Chunk == 0 .. Total - 1

Doc == [hash: Version,
        bytes: SUBSET (0 .. FileSize - 1),      \* downloaded_ranges: what they hold
        etags: [Chunk -> Version \cup {None}],  \* chunk_etags
        marks: SUBSET Chunk,                    \* chunk_statuses = 2
        status: {"initialized", "downloading", "downloaded", "completed"}]

-----------------------------------------------------------------------------
(* The document *)

\* Mutant: a range ends where the one that was read last ends.
Joined_Last(merged, r) ==
  IF merged = <<>> \/ r[1] > Last(merged)[2] + 1
    THEN Append(merged, r)
    ELSE [merged EXCEPT ![Len(merged)][2] = r[2]]

\* _merge_ranges: its loop, ...
Joined(merged, r) ==
  IF merged = <<>> \/ r[1] > Last(merged)[2] + 1
    THEN Append(merged, r)
    ELSE [merged EXCEPT ![Len(merged)][2] = Max({@, r[2]})]

\* ... over the ranges that are not empty, sorted by their starts: each goes behind those
\* that start no later.
Inserted(sorted, r) ==
  LET least == {j \in DOMAIN sorted : sorted[j][1] <= r[1]}
  IN  IF r[1] <= r[2] THEN InsertAt(sorted, Cardinality(least) + 1, r) ELSE sorted

Sorted(ranges) ==
  LET upTo[k \in 0 .. Len(ranges)] ==
        IF k = 0 THEN <<>> ELSE Inserted(upTo[k - 1], ranges[k])
  IN  upTo[Len(ranges)]

Merge(ranges) ==
  LET valid == Sorted(ranges)
      upTo[k \in 0 .. Len(valid)] == IF k = 0 THEN <<>> ELSE Joined(upTo[k - 1], valid[k])
  IN  upTo[Len(valid)]

\* Mutant: the last chunk is as long as the others.
Bounds_Full(i) == <<i * ChunkSize, (i + 1) * ChunkSize - 1>>

\* _chunk_bounds
Bounds(i) == <<i * ChunkSize, Min({(i + 1) * ChunkSize - 1, FileSize - 1})>>

\* _apply_download_progress.  Merged ranges are as good as the set of their bytes: one of
\* them covers a chunk if and only if the set does (MergeRight; RangesAsBytes of the proofs).
Progress(d) ==
  LET marks == {i \in Chunk : Bounds(i)[1] .. Bounds(i)[2] \subseteq d.bytes}
  IN  [d EXCEPT
         !.marks = marks,
         !.status = IF @ = "completed" THEN @
                    ELSE IF Total > 0 /\ marks = Chunk THEN "downloaded"
                    ELSE IF d.bytes # {} THEN "downloading" ELSE "initialized"]

\* create_download_session
Fresh ==
  [hash |-> content, bytes |-> {}, etags |-> [i \in Chunk |-> None],
   marks |-> {}, status |-> "initialized"]

\* _write_download_session.  Reading applies the progress once more, which changes nothing.
Write(d) == doc' = Progress(d)

-----------------------------------------------------------------------------

Nothing == [i \in Chunk |-> None]

Init ==
  /\ content \in Version
  /\ doc = None
  /\ pc = [r \in Request \cup {"complete"} |-> "idle"]
  /\ mem = [r \in Request \cup {"complete"} |-> None]
  /\ client = "start" /\ got = Nothing
  /\ served = {} /\ events = 0

Goes(r, step, m) ==
  /\ pc'  = [pc EXCEPT ![r] = step]
  /\ mem' = [mem EXCEPT ![r] = m]

Ends(r) == Goes(r, "idle", None)

Event ==
  /\ events < MaxEvents
  /\ events' = events + 1

Idle == \A r \in Request : pc[r] = "idle"

\* The client gives this session up.
StartsAnew == client' = "start" /\ UNCHANGED got

\* POST /files/{id}/download/init
InitDownload ==
  /\ client = "start" /\ Idle
  /\ Write(Fresh)
  /\ client' = "loading" /\ got' = Nothing
  /\ served' = {}
  /\ UNCHANGED <<content, pc, mem, events>>

\* What the client has not got, or the server has forgotten.
Missing == {i \in Chunk : got[i] = None \/ i \notin doc.marks}

UnderWay == {mem[r].chunk : r \in {q \in Request : pc[q] # "idle"}}

\* GET /files/{id}/download/chunk: the record and the session are loaded, the range read ...
ChunkRead(r, i) ==
  /\ client = "loading" /\ pc[r] = "idle"
  /\ IF doc = None
       THEN StartsAnew /\ UNCHANGED <<pc, mem>>
       ELSE /\ i \in Missing \ UnderWay
            /\ Goes(r, "record", [chunk |-> i, version |-> content])
            /\ UNCHANGED user
  /\ UNCHANGED <<content, doc, served, events>>

\* ... record_download_chunk reads the session again, ...
ChunkReread(r) ==
  /\ pc[r] = "record"
  /\ IF doc = None
       THEN Ends(r) /\ StartsAnew
       ELSE /\ Goes(r, "write", [chunk |-> mem[r].chunk, version |-> mem[r].version,
                                 doc |-> doc])
            /\ UNCHANGED user
  /\ UNCHANGED <<content, doc, served, events>>

\* Mutant: the range of the last chunk ends behind the file.
Served_Full(i) == i * ChunkSize .. i * ChunkSize + ChunkSize - 1

\* The handler computes the range of a chunk by itself.
Served(i) == i * ChunkSize .. Min({i * ChunkSize + ChunkSize - 1, FileSize - 1})

\* Mutant: the etag is not recorded.
Recorded_NoEtag(d, i, v) == [d EXCEPT !.bytes = @ \cup Served(i)]

Recorded(d, i, v) == [d EXCEPT !.bytes = @ \cup Served(i), !.etags[i] = v]

\* ... and writes what it makes of it.  The answer may be lost.
ChunkWrite(r, arrives) ==
  /\ pc[r] = "write"
  /\ LET m == mem[r]
     IN  /\ Write(Recorded(m.doc, m.chunk, m.version))
         /\ served' = served \cup {<<m.chunk, m.version>>}
         /\ IF arrives
              THEN got' = [got EXCEPT ![m.chunk] = m.version] /\ UNCHANGED events
              ELSE Event /\ UNCHANGED got
  /\ Ends(r)
  /\ UNCHANGED <<content, client>>

\* The hash of what the client has put together: the version, or that of no file.
Merged == IF \E v \in Version : got = [i \in Chunk |-> v]
            THEN CHOOSE v \in Version : got = [i \in Chunk |-> v]
            ELSE None

\* Mutant: the hash is not looked at.
Accepted_NoHash(d) ==
  /\ d.marks = Chunk
  /\ \A i \in Chunk : d.etags[i] = got[i]

\* complete_download_session: hash, chunks and etags
Accepted(d) ==
  /\ Merged = d.hash
  /\ d.marks = Chunk
  /\ \A i \in Chunk : d.etags[i] = got[i]

\* POST /files/downloads/{id}/complete, with the etags of all chunks and the hash
CompleteLoad ==
  /\ client = "loading" /\ pc["complete"] = "idle"
  /\ Patient => Idle
  /\ \A i \in Chunk : got[i] # None
  /\ doc # None => Missing = {}
  /\ IF doc # None /\ Accepted(doc)
       THEN Goes("complete", "write", [doc |-> doc]) /\ client' = "completing"
       ELSE client' = "start" /\ UNCHANGED <<pc, mem>>
  /\ UNCHANGED <<content, doc, got, served, events>>

CompleteWrite(arrives) ==
  /\ pc["complete"] = "write"
  /\ Write([mem["complete"].doc EXCEPT !.status = "completed"])
  /\ IF arrives
       THEN client' = "done" /\ UNCHANGED events
       ELSE client' = "loading" /\ Event
  /\ Ends("complete")
  /\ UNCHANGED <<content, got, served>>

\* The document's time to live runs out.
Expire ==
  /\ Event
  /\ doc # None /\ doc' = None
  /\ UNCHANGED <<content, pc, mem, user, served>>

\* replace_record_storage: the file gets other content.
Replace ==
  /\ Event
  /\ content' \in Version \ {content}
  /\ UNCHANGED <<server, user, served>>

Next ==
  \/ InitDownload \/ CompleteLoad \/ Expire \/ Replace
  \/ \E r \in Request : ChunkReread(r) \/ \E i \in Chunk : ChunkRead(r, i)
  \/ \E arrives \in BOOLEAN : CompleteWrite(arrives) \/ \E r \in Request : ChunkWrite(r, arrives)

Spec == Init /\ [][Next]_vars

\* The client and the server go on.
Fairness ==
  /\ WF_vars(InitDownload) /\ WF_vars(CompleteLoad)
  /\ WF_vars(\E arrives \in BOOLEAN : CompleteWrite(arrives))
  /\ WF_vars(\E r \in Request, i \in Chunk : ChunkRead(r, i))
  /\ \A r \in Request : WF_vars(ChunkReread(r) \/ \E arrives \in BOOLEAN : ChunkWrite(r, arrives))

FairSpec == Spec /\ Fairness

-----------------------------------------------------------------------------
(* Properties *)

\* Types; the copies of the document included.
TypeOK ==
  /\ content \in Version /\ doc \in Doc \cup {None}
  /\ pc \in [Request \cup {"complete"} -> {"idle", "record", "write"}]
  /\ \A r \in Request \cup {"complete"} : pc[r] = "write" => mem[r].doc \in Doc
  /\ client \in {"start", "loading", "completing", "done"}
  /\ got \in [Chunk -> Version \cup {None}] /\ served \subseteq Chunk \X Version
  /\ events \in 0..MaxEvents

Bytes(ranges) == UNION {r[1] .. r[2] : r \in ToSet(ranges)}

\* _merge_ranges keeps the bytes of its ranges and no others, in order, with a gap
\* between any two: whatever they are, in whatever order, empty ones included.  Nothing
\* in it depends on the state; it is looked at in the initial ones.
MergeRight ==
  events = 0 /\ client = "start" =>
    \A ranges \in SeqOf((0..3) \X (0..3), 3) :
      LET merged == Merge(ranges)
      IN  /\ Bytes(merged) = Bytes(ranges)
          /\ \A k \in 1 .. Len(merged) :
               /\ merged[k][1] <= merged[k][2]
               /\ k > 1 => merged[k][1] > merged[k - 1][2] + 1

\* Whatever requests forget of each other's work, the document says nothing of a chunk
\* that was not sent, and what it says fits together: a chunk is marked if and only if its
\* etag is known, and the bytes are those of the chunks marked.
Accounted ==
  doc # None =>
    /\ \A i \in Chunk : i \in doc.marks <=> doc.etags[i] # None
    /\ \A i \in doc.marks : <<i, doc.etags[i]>> \in served
    /\ doc.bytes = UNION {Served(i) : i \in doc.marks}
    /\ client = "done" => doc.marks = Chunk /\ doc.status = "completed"

\* A client that was told its download is complete has the file as it was when the
\* session was made, though chunks were sent before and after a replacement.
CompletedWhole ==
  client = "done" /\ doc # None => \A i \in Chunk : got[i] = doc.hash

\* A client that downloads in parallel comes to an end: what requests forget of each
\* other's chunks is less each time, and the document accepts its completion.
DownloadEnds == <>(client = "done")
=============================================================================

----------------------- MODULE DownloadSession_proofs -----------------------
(***************************************************************************)
(* Proofs about DownloadSession, for every file size, chunk size, number   *)
(* of requests and versions.                                               *)
(***************************************************************************)
EXTENDS DownloadSession, FiniteSetTheorems, WellFoundedInduction, TLAPS

-----------------------------------------------------------------------------
(* Chunks are ranges of the file *)

\* The smaller of two numbers.
LEMMA MinOfTwo ==
  ASSUME NEW a \in Int, NEW b \in Int
  PROVE  /\ Min({a, b}) \in {a, b}
         /\ Min({a, b}) <= a /\ Min({a, b}) <= b
<1>1. \E m \in {a, b} : \A y \in {a, b} : m <= y
  <2>1. CASE a <= b
    BY <2>1
  <2>2. CASE b <= a
    BY <2>2
  <2>3. QED BY <2>1, <2>2
<1>2. Min({a, b}) \in {a, b} /\ \A y \in {a, b} : Min({a, b}) <= y
  BY <1>1 DEF Min
<1>3. QED BY <1>2

\* Each chunk begins inside the file.
LEMMA ChunkBegins ==
  ASSUME NEW i \in Chunk
  PROVE  i \in Nat /\ i * ChunkSize \in Nat /\ i * ChunkSize <= FileSize - 1
<1> DEFINE n == FileSize + ChunkSize - 1
<1> USE DownloadAssumption
<1>1. n \in Nat /\ ChunkSize \in Nat /\ ChunkSize > 0
  OBVIOUS
<1>2. n \div ChunkSize \in Nat /\ (n \div ChunkSize) * ChunkSize <= n
  BY <1>1, Z3
<1>3. i \in Nat /\ i + 1 <= n \div ChunkSize
  BY <1>2 DEF Chunk, Total
<1>4. (i + 1) * ChunkSize <= (n \div ChunkSize) * ChunkSize
  BY <1>1, <1>2, <1>3, Z3
<1>5. (i + 1) * ChunkSize = i * ChunkSize + ChunkSize
  BY <1>1, <1>3, Z3
<1>6. i * ChunkSize \in Nat
  BY <1>1, <1>3, Z3
<1>7. QED BY <1>1, <1>2, <1>3, <1>4, <1>5, <1>6

\* A chunk's range, as the handler and _chunk_bounds compute it: its own bytes and no other
\* chunk's.
LEMMA ServedRange ==
  ASSUME NEW i \in Chunk
  PROVE  /\ Bounds(i)[1] .. Bounds(i)[2] = Served(i)
         /\ Served(i) \subseteq 0 .. FileSize - 1
         /\ i * ChunkSize \in Served(i)
         /\ \A j \in Chunk : i * ChunkSize \in Served(j) => i = j
<1> DEFINE start(j) == j * ChunkSize
           stop(j)  == Min({j * ChunkSize + ChunkSize - 1, FileSize - 1})
<1>1. ChunkSize \in Nat /\ ChunkSize > 0 /\ FileSize \in Nat
  BY DownloadAssumption
<1>2. ASSUME NEW j \in Chunk
      PROVE  /\ j \in Nat /\ start(j) \in Nat /\ stop(j) \in Int
             /\ start(j) <= stop(j) /\ stop(j) < start(j) + ChunkSize /\ stop(j) <= FileSize - 1
             /\ Served(j) = start(j) .. stop(j)
             /\ Bounds(j) = <<start(j), stop(j)>>
  <2>1. j \in Nat /\ j * ChunkSize \in Nat /\ j * ChunkSize <= FileSize - 1
    BY ChunkBegins
  <2>2. (j + 1) * ChunkSize = j * ChunkSize + ChunkSize
    BY <1>1, <2>1, Z3
  <2>3. j * ChunkSize + ChunkSize - 1 \in Int /\ FileSize - 1 \in Int
    BY <1>1, <2>1
  <2>4. /\ stop(j) \in {j * ChunkSize + ChunkSize - 1, FileSize - 1}
        /\ stop(j) <= j * ChunkSize + ChunkSize - 1 /\ stop(j) <= FileSize - 1
    BY <2>3, MinOfTwo
  <2>5. stop(j) \in Int /\ start(j) <= stop(j) /\ stop(j) < start(j) + ChunkSize
    <3> DEFINE a == j * ChunkSize
               m == stop(j)
    <3>1. a \in Nat /\ a <= FileSize - 1 /\ m \in {a + ChunkSize - 1, FileSize - 1}
          /\ m <= a + ChunkSize - 1
      BY <2>1, <2>4
    <3> HIDE DEF a, m, stop
    <3>2. m \in Int /\ a <= m /\ m < a + ChunkSize
      BY <1>1, <3>1
    <3>3. QED BY <3>2 DEF a, m
  <2>6. Served(j) = start(j) .. stop(j)
    BY DEF Served
  <2>7. Bounds(j) = <<start(j), stop(j)>>
    <3>1. (j + 1) * ChunkSize - 1 = j * ChunkSize + ChunkSize - 1
      BY <1>1, <2>1, <2>2
    <3>2. QED BY <3>1, Zenon DEF Bounds
  <2>8. QED BY <2>1, <2>4, <2>5, <2>6, <2>7
<1>3. ASSUME NEW j \in Chunk, NEW k \in Chunk, j < k
      PROVE  start(j) + ChunkSize <= start(k)
  <2>1. j \in Nat /\ k \in Nat /\ j + 1 <= k
    <3>1. j \in Nat /\ k \in Nat
      BY ChunkBegins
    <3>2. QED BY <1>3, <3>1
  <2>2. (j + 1) * ChunkSize <= k * ChunkSize
    BY <1>1, <2>1, Z3
  <2>3. (j + 1) * ChunkSize = j * ChunkSize + ChunkSize
    BY <1>1, <2>1, Z3
  <2>4. QED BY <2>2, <2>3
<1>4. i * ChunkSize = start(i)
  OBVIOUS
<1> HIDE DEF start, stop
<1>5. Bounds(i)[1] .. Bounds(i)[2] = Served(i)
  BY <1>2
<1>6. Served(i) \subseteq 0 .. FileSize - 1 /\ start(i) \in Served(i)
  <2>1. /\ start(i) \in Nat /\ stop(i) \in Int /\ start(i) <= stop(i) /\ stop(i) <= FileSize - 1
        /\ Served(i) = start(i) .. stop(i)
    BY <1>2
  <2>2. QED BY <1>1, <2>1
<1>7. ASSUME NEW j \in Chunk, start(i) \in Served(j) PROVE i = j
  <2>1. /\ i \in Nat /\ j \in Nat /\ start(i) \in Nat /\ start(j) \in Nat
        /\ start(j) <= start(i) /\ start(i) < start(j) + ChunkSize
    <3>1. start(i) \in start(j) .. stop(j) /\ stop(j) \in Int /\ stop(j) < start(j) + ChunkSize
      BY <1>2, <1>7
    <3>2. i \in Nat /\ j \in Nat /\ start(i) \in Nat /\ start(j) \in Nat
      BY <1>2
    <3>3. QED BY <1>1, <3>1, <3>2
  <2>2. i < j => start(i) + ChunkSize <= start(j)
    BY <1>3
  <2>3. j < i => start(j) + ChunkSize <= start(i)
    BY <1>3
  <2>4. QED BY <1>1, <2>1, <2>2, <2>3
<1>8. QED BY <1>4, <1>5, <1>6, <1>7

-----------------------------------------------------------------------------
(* What a document says *)

\* A document is accounted for: its marks are the chunks whose etag is known, all of them
\* were sent, and its bytes are theirs.
Sound(d, sent) ==
  /\ d \in Doc
  /\ \A i \in Chunk : i \in d.marks <=> d.etags[i] # None
  /\ \A i \in d.marks : <<i, d.etags[i]>> \in sent
  /\ d.bytes = UNION {Served(i) : i \in d.marks}

\* The progress of a document marks the chunks whose bytes it has.
LEMMA ProgressSound ==
  ASSUME NEW d, NEW M \in SUBSET Chunk,
         d \in Doc, d.bytes = UNION {Served(i) : i \in M}
  PROVE  /\ Progress(d) \in Doc
         /\ Progress(d).marks = M
         /\ Progress(d).hash = d.hash
         /\ Progress(d).bytes = d.bytes
         /\ Progress(d).etags = d.etags
         /\ d.status = "completed" => Progress(d).status = "completed"
<1> DEFINE marked == {i \in Chunk : Bounds(i)[1] .. Bounds(i)[2] \subseteq d.bytes}
<1>a. \A i \in Chunk : Bounds(i)[1] .. Bounds(i)[2] = Served(i)
  BY ServedRange
<1>1. marked = {i \in Chunk : Served(i) \subseteq d.bytes}
  BY <1>a
<1>2. M \subseteq marked
  BY <1>1
<1>3. ASSUME NEW i \in Chunk, Served(i) \subseteq d.bytes PROVE i \in M
  <2>1. i * ChunkSize \in d.bytes
    BY <1>3, ServedRange
  <2>2. PICK j \in M : i * ChunkSize \in Served(j)
    BY <2>1
  <2>3. QED BY <2>2, ServedRange
<1>4. marked = M
  BY <1>1, <1>2, <1>3
<1>5. Progress(d) = [d EXCEPT !.marks = marked, !.status = Progress(d).status]
  BY DEF Progress, Doc
<1>6. Progress(d).status \in {"initialized", "downloading", "downloaded", "completed"}
  BY DEF Progress, Doc
<1>7. d.status = "completed" => Progress(d).status = "completed"
  BY DEF Progress, Doc
<1> HIDE DEF marked
<1>8. QED BY <1>4, <1>5, <1>6, <1>7 DEF Doc

\* Progress keeps a document's type.
LEMMA ProgressType ==
  ASSUME NEW d \in Doc
  PROVE  Progress(d) \in Doc
BY DEF Progress, Doc

\* So does recording a chunk.
LEMMA RecordedType ==
  ASSUME NEW d \in Doc, NEW i \in Chunk, NEW v \in Version
  PROVE  Recorded(d, i, v) \in Doc
<1>1. Served(i) \subseteq 0 .. FileSize - 1
  BY ServedRange
<1>2. QED BY <1>1 DEF Recorded, Doc

\* A new document has nothing to account for.
LEMMA FreshSound ==
  ASSUME content \in Version
  PROVE  Fresh \in Doc /\ Sound(Progress(Fresh), {})
<1>1. Fresh \in Doc
  BY DEF Fresh, Doc
<1>2. /\ Fresh.marks = {} /\ Fresh.bytes = UNION {Served(i) : i \in {}}
      /\ Fresh.etags = [i \in Chunk |-> None]
  BY DEF Fresh
<1>3. /\ Progress(Fresh) \in Doc /\ Progress(Fresh).marks = {}
      /\ Progress(Fresh).bytes = Fresh.bytes /\ Progress(Fresh).etags = Fresh.etags
  BY <1>1, <1>2, ProgressSound
<1>4. QED BY <1>1, <1>2, <1>3 DEF Sound

\* What a chunk request writes is accounted for if what it has read was, and its chunk sent.
LEMMA RecordedSound ==
  ASSUME NEW d, NEW sent, NEW i \in Chunk, NEW v \in Version,
         Sound(d, sent), <<i, v>> \in sent
  PROVE  Sound(Progress(Recorded(d, i, v)), sent)
<1> DEFINE e == Recorded(d, i, v)
           M == d.marks \cup {i}
<1>1. d \in Doc /\ M \in SUBSET Chunk
  BY DEF Sound, Doc
<1>2. /\ e \in Doc /\ e.bytes = d.bytes \cup Served(i)
      /\ e.etags = [d.etags EXCEPT ![i] = v]
  BY <1>1, RecordedType DEF Recorded, Doc
<1>3. e.bytes = UNION {Served(k) : k \in M}
  BY <1>2 DEF Sound
<1>4. /\ Progress(e) \in Doc /\ Progress(e).marks = M
      /\ Progress(e).bytes = e.bytes /\ Progress(e).etags = e.etags
  <2> HIDE DEF e, M
  <2>1. QED BY <1>1, <1>2, <1>3, ProgressSound
<1>5. v # None
  BY DownloadAssumption
<1>6. \A k \in Chunk : e.etags[k] = IF k = i THEN v ELSE d.etags[k]
  BY <1>1, <1>2 DEF Doc
<1> HIDE DEF e
<1>7. /\ \A k \in Chunk : k \in M <=> e.etags[k] # None
      /\ \A k \in M : <<k, e.etags[k]>> \in sent
  BY <1>1, <1>5, <1>6 DEF Sound
<1>8. QED BY <1>3, <1>4, <1>7 DEF Sound, e

-----------------------------------------------------------------------------
(* Type correctness *)

\* A chunk request, or the request that completes the download.
Session == Request \cup {"complete"}

\* What the sessions hold: a chunk request its chunk and the version it was read from, and
\* whoever is about to write a document.
Held ==
  /\ pc \in [Session -> {"idle", "record", "write"}]
  /\ mem = [r \in Session |-> mem[r]]
  /\ pc["complete"] # "record"
  /\ \A r \in Session : pc[r] = "write" => mem[r].doc \in Doc
  /\ \A r \in Request : pc[r] # "idle" => mem[r].chunk \in Chunk /\ mem[r].version \in Version

\* The other parts of the type invariant.
Plain ==
  /\ content \in Version /\ doc \in Doc \cup {None}
  /\ client \in {"start", "loading", "completing", "done"}
  /\ got \in [Chunk -> Version \cup {None}] /\ served \subseteq Chunk \X Version
  /\ events \in 0..MaxEvents

\* The type invariant follows.
LEMMA HeldTypes == Plain /\ Held => TypeOK
BY DEF Plain, Held, TypeOK, Session

\* A session may go on with what it should hold.
LEMMA GoesHeld ==
  ASSUME Held, NEW r \in Session, NEW m, NEW step \in {"idle", "record", "write"},
         Goes(r, step, m),
         r = "complete" => step # "record",
         step = "write" => m.doc \in Doc,
         r \in Request /\ step # "idle" => m.chunk \in Chunk /\ m.version \in Version
  PROVE  Held'
<1>1. \A q \in Session : /\ pc'[q]  = IF q = r THEN step ELSE pc[q]
                         /\ mem'[q] = IF q = r THEN m ELSE mem[q]
  BY DEF Goes, Held
<1>2. pc' \in [Session -> {"idle", "record", "write"}] /\ mem' = [q \in Session |-> mem'[q]]
  BY DEF Goes, Held
<1>3. "complete" \in Session /\ Request \subseteq Session
  BY DEF Session
<1>4. QED BY <1>1, <1>2, <1>3 DEF Held

\* It may end.
LEMMA EndsHeld ==
  ASSUME Held, NEW r \in Session, Ends(r)
  PROVE  Held'
BY GoesHeld DEF Ends

\* Events are bounded.
LEMMA EventType == Plain /\ Event => events' \in 0..MaxEvents
BY DownloadAssumption DEF Plain, Event

\* No session, and a client that has nothing.
LEMMA InitType == Init => Plain /\ Held
BY DownloadAssumption DEF Init, Plain, Held, Nothing, Session

\* No request, answer or accident breaks them.
LEMMA NextType == Plain /\ Held /\ [Next]_vars => Plain' /\ Held'
<1> SUFFICES ASSUME Plain, Held, [Next]_vars PROVE Plain' /\ Held'
  OBVIOUS
<1> USE DEF Session
<1>0. UNCHANGED <<pc, mem>> => Held'
  BY DEF Held
<1>1. CASE UNCHANGED vars
  BY <1>0, <1>1 DEF vars, server, user, Plain
<1>2. CASE InitDownload
  <2>1. Progress(Fresh) \in Doc
    BY FreshSound DEF Plain, Sound
  <2>2. Plain'
    BY <1>2, <2>1 DEF InitDownload, Write, Nothing, Plain
  <2>3. QED BY <1>0, <1>2, <2>2 DEF InitDownload
<1>3. ASSUME NEW r \in Request, NEW i \in Chunk, ChunkRead(r, i) PROVE Plain' /\ Held'
  <2>1. Plain'
    BY <1>3 DEF ChunkRead, StartsAnew, user, Plain
  <2>2. CASE doc = None
    BY <1>0, <1>3, <2>1, <2>2 DEF ChunkRead
  <2>3. CASE doc # None
    <3>1. Goes(r, "record", [chunk |-> i, version |-> content])
      BY <1>3, <2>3 DEF ChunkRead
    <3>2. r # "complete" /\ content \in Version
      BY DownloadAssumption DEF Plain
    <3>3. QED BY <2>1, <3>1, <3>2, GoesHeld
  <2>4. QED BY <2>2, <2>3
<1>4. ASSUME NEW r \in Request, ChunkReread(r) PROVE Plain' /\ Held'
  <2>1. Plain'
    BY <1>4 DEF ChunkReread, StartsAnew, user, Plain
  <2>2. CASE doc = None
    BY <1>4, <2>1, <2>2, EndsHeld DEF ChunkReread
  <2>3. CASE doc # None
    <3>1. Goes(r, "write", [chunk |-> mem[r].chunk, version |-> mem[r].version, doc |-> doc])
      BY <1>4, <2>3 DEF ChunkReread
    <3>2. doc \in Doc /\ mem[r].chunk \in Chunk /\ mem[r].version \in Version
      BY <1>4, <2>3 DEF ChunkReread, Plain, Held
    <3>3. QED BY <2>1, <3>1, <3>2, GoesHeld
  <2>4. QED BY <2>2, <2>3
<1>5. ASSUME NEW r \in Request, NEW arrives \in BOOLEAN, ChunkWrite(r, arrives)
      PROVE  Plain' /\ Held'
  <2>1. mem[r].doc \in Doc /\ mem[r].chunk \in Chunk /\ mem[r].version \in Version
    BY <1>5 DEF ChunkWrite, Held
  <2>2. doc' \in Doc
    BY <1>5, <2>1, RecordedType, ProgressType DEF ChunkWrite, Write
  <2>3. got' \in [Chunk -> Version \cup {None}] /\ events' \in 0..MaxEvents
    BY <1>5, <2>1, EventType DEF ChunkWrite, Plain
  <2>4. Plain'
    BY <1>5, <2>1, <2>2, <2>3 DEF ChunkWrite, Plain
  <2>5. QED BY <1>5, <2>4, EndsHeld DEF ChunkWrite
<1>6. CASE CompleteLoad
  <2>1. Plain'
    BY <1>6 DEF CompleteLoad, Plain
  <2>2. CASE doc # None /\ Accepted(doc)
    <3>1. Goes("complete", "write", [doc |-> doc]) /\ doc \in Doc
      BY <1>6, <2>2 DEF CompleteLoad, Plain
    <3>2. "complete" \notin Request
      BY DownloadAssumption
    <3>3. QED BY <2>1, <3>1, <3>2, GoesHeld
  <2>3. CASE ~(doc # None /\ Accepted(doc))
    BY <1>0, <1>6, <2>1, <2>3 DEF CompleteLoad
  <2>4. QED BY <2>2, <2>3
<1>7. ASSUME NEW arrives \in BOOLEAN, CompleteWrite(arrives) PROVE Plain' /\ Held'
  <2>1. mem["complete"].doc \in Doc
    BY <1>7 DEF CompleteWrite, Held
  <2>2. [mem["complete"].doc EXCEPT !.status = "completed"] \in Doc
    BY <2>1 DEF Doc
  <2>3. doc' \in Doc
    BY <1>7, <2>2, ProgressType DEF CompleteWrite, Write
  <2>4. Plain'
    BY <1>7, <2>3, EventType DEF CompleteWrite, Plain
  <2>5. QED BY <1>7, <2>4, EndsHeld DEF CompleteWrite
<1>8. CASE Expire
  <2>1. Plain'
    BY <1>8, EventType DEF Expire, user, Plain
  <2>2. QED BY <1>0, <1>8, <2>1 DEF Expire
<1>9. CASE Replace
  <2>1. Plain'
    BY <1>9, EventType DEF Replace, server, user, Plain
  <2>2. QED BY <1>0, <1>9, <2>1 DEF Replace, server
<1>10. QED
  BY <1>1, <1>2, <1>3, <1>4, <1>5, <1>6, <1>7, <1>8, <1>9 DEF Next

\* Document, copies, requests and client of a download session (file_service.py) keep their
\* types.
THEOREM TypeCorrect == Spec => []TypeOK
<1>1. Plain /\ Held /\ [Next]_vars => (Plain /\ Held)'
  BY NextType
<1>2. QED BY <1>1, InitType, HeldTypes, PTL DEF Spec

-----------------------------------------------------------------------------
(* What requests forget, and what a completion rests on *)

\* The document, and every copy of it that will be written, is accounted for.
Known ==
  /\ doc # None => Sound(doc, served)
  /\ \A r \in Session : pc[r] = "write" => Sound(mem[r].doc, served)

\* The client has all of d's version.
Whole(d) == d.marks = Chunk /\ \A i \in Chunk : got[i] = d.hash

\* A patient client completes alone, with a document that it has all of.
Closing ==
  /\ pc["complete"] = "write" <=> client = "completing"
  /\ client \in {"completing", "done"} => Idle
  /\ client = "completing" => Whole(mem["complete"].doc)
  /\ client = "done" /\ doc # None => Whole(doc) /\ doc.status = "completed"

\* A new document says that nothing was downloaded.
LEMMA InitKnown == Init => Known /\ Closing
BY DEF Init, Known, Closing, Session, Idle

\* More that was sent: what was accounted for still is.
LEMMA SoundGrows ==
  ASSUME NEW d, NEW sent, NEW more, Sound(d, sent), sent \subseteq more
  PROVE  Sound(d, more)
BY DEF Sound

\* A completed document is accounted for if the one that was read was.
LEMMA CompletedSound ==
  ASSUME NEW d, NEW sent, Sound(d, sent)
  PROVE  LET e == Progress([d EXCEPT !.status = "completed"])
         IN  Sound(e, sent) /\ e.marks = d.marks /\ e.hash = d.hash /\ e.status = "completed"
<1> DEFINE c == [d EXCEPT !.status = "completed"]
           e == Progress(c)
<1>1. d \in Doc /\ d.bytes = UNION {Served(i) : i \in d.marks} /\ d.marks \in SUBSET Chunk
  BY DEF Sound, Doc
<1>2. /\ c \in Doc /\ c.bytes = d.bytes /\ c.etags = d.etags /\ c.hash = d.hash
      /\ c.status = "completed"
  BY <1>1 DEF Doc
<1> HIDE DEF c
<1>3. /\ e \in Doc /\ e.marks = d.marks /\ e.hash = d.hash /\ e.bytes = d.bytes
      /\ e.etags = d.etags /\ e.status = "completed"
  BY <1>1, <1>2, ProgressSound
<1> HIDE DEF e
<1>4. Sound(e, sent)
  BY <1>3 DEF Sound
<1>5. QED BY <1>3, <1>4 DEF e, c

\* Whoever is accepted has put together the version of the document.
LEMMA AcceptedWhole ==
  ASSUME NEW d \in Doc, Accepted(d)
  PROVE  Whole(d)
<1>1. d.hash \in Version /\ d.hash # None /\ Merged = d.hash /\ d.marks = Chunk
  BY DownloadAssumption DEF Doc, Accepted
<1>2. PICK v \in Version : got = [i \in Chunk |-> v]
  BY <1>1 DEF Merged
<1>3. got = [i \in Chunk |-> Merged]
  BY <1>2 DEF Merged
<1>4. QED BY <1>1, <1>3 DEF Whole

\* The sessions that will write, after a step of one of them.
LEMMA GoesKnown ==
  ASSUME Held, NEW r \in Session, NEW step, NEW m, Goes(r, step, m)
  PROVE  \A q \in Session : /\ pc'[q]  = IF q = r THEN step ELSE pc[q]
                            /\ mem'[q] = IF q = r THEN m ELSE mem[q]
BY DEF Goes, Held

\* No step breaks them.
LEMMA NextKnown ==
  ASSUME Patient, Plain, Held, Known, Closing, [Next]_vars
  PROVE  Known' /\ Closing'
<1> "complete" \in Session /\ Request \subseteq Session /\ "complete" \notin Request
  BY DownloadAssumption DEF Session
<1>1. CASE UNCHANGED vars
  BY <1>1 DEF vars, server, user, Known, Closing, Whole, Idle
<1>2. CASE InitDownload
  <2>1. \A r \in Session : pc[r] # "write"
    BY <1>2 DEF InitDownload, Idle, Closing, Session
  <2>2. Sound(doc', served')
    BY <1>2, FreshSound DEF InitDownload, Write, Plain
  <2>3. Known'
    BY <1>2, <2>1, <2>2 DEF InitDownload, Known
  <2>4. Closing'
    BY <1>2, <2>1 DEF InitDownload, Closing
  <2>5. QED BY <2>3, <2>4
<1>3. ASSUME NEW r \in Request, NEW i \in Chunk, ChunkRead(r, i) PROVE Known' /\ Closing'
  <2>1. CASE doc = None
    BY <1>3, <2>1 DEF ChunkRead, StartsAnew, Known, Closing
  <2>2. CASE doc # None
    <3>1. \A q \in Session : pc'[q] = "write" => pc[q] = "write" /\ mem'[q] = mem[q]
      BY <1>3, <2>2, GoesKnown DEF ChunkRead
    <3>2. pc'["complete"] = pc["complete"] /\ client' = client /\ client = "loading"
      BY <1>3, <2>2, GoesKnown DEF ChunkRead, user
    <3>3. QED BY <1>3, <3>1, <3>2 DEF ChunkRead, Known, Closing
  <2>3. QED BY <2>1, <2>2
<1>4. ASSUME NEW r \in Request, ChunkReread(r) PROVE Known' /\ Closing'
  <2>1. client \notin {"completing", "done"} /\ pc["complete"] # "write"
    BY <1>4 DEF ChunkReread, Closing, Idle
  <2>2. client' \notin {"completing", "done"}
    BY <1>4, <2>1 DEF ChunkReread, StartsAnew, user
  <2>3. \A q \in Session : pc'[q] = "write" =>
          \/ pc[q] = "write" /\ mem'[q] = mem[q]
          \/ q = r /\ doc # None /\ mem'[q].doc = doc
    BY <1>4, GoesKnown DEF ChunkReread, Ends
  <2>4. pc'["complete"] = pc["complete"]
    BY <1>4, GoesKnown DEF ChunkReread, Ends
  <2>5. QED BY <1>4, <2>1, <2>2, <2>3, <2>4 DEF ChunkReread, Known, Closing
<1>5. ASSUME NEW r \in Request, NEW arrives \in BOOLEAN, ChunkWrite(r, arrives)
      PROVE  Known' /\ Closing'
  <2>1. client \notin {"completing", "done"} /\ client' = client /\ pc["complete"] # "write"
    BY <1>5 DEF ChunkWrite, Closing, Idle
  <2>2. \A q \in Session : /\ pc'[q] = "write" => pc[q] = "write" /\ mem'[q] = mem[q]
                           /\ pc'["complete"] = pc["complete"]
    BY <1>5, GoesKnown DEF ChunkWrite, Ends
  <2>3. served \subseteq served' /\ <<mem[r].chunk, mem[r].version>> \in served'
    BY <1>5 DEF ChunkWrite
  <2>4. Sound(mem[r].doc, served') /\ mem[r].chunk \in Chunk /\ mem[r].version \in Version
    BY <1>5, <2>3, SoundGrows DEF ChunkWrite, Known, Held
  <2>5. Sound(doc', served')
    BY <1>5, <2>3, <2>4, RecordedSound DEF ChunkWrite, Write
  <2>6. Known'
    BY <2>2, <2>3, <2>5, SoundGrows DEF Known
  <2>7. QED BY <2>1, <2>2, <2>6 DEF Closing
<1>6. CASE CompleteLoad
  <2>1. client = "loading" /\ Idle /\ UNCHANGED <<doc, got, served>>
    BY <1>6 DEF CompleteLoad
  <2>2. CASE doc # None /\ Accepted(doc)
    <3>1. /\ Goes("complete", "write", [doc |-> doc]) /\ client' = "completing"
          /\ doc \in Doc /\ Sound(doc, served)
      BY <1>6, <2>2 DEF CompleteLoad, Plain, Known
    <3>2. \A q \in Session : /\ pc'[q] = IF q = "complete" THEN "write" ELSE pc[q]
                             /\ mem'[q] = IF q = "complete" THEN [doc |-> doc] ELSE mem[q]
      BY <3>1, GoesKnown
    <3>3. Idle'
      BY <2>1, <3>2 DEF Idle
    <3>4. Whole(doc)
      BY <2>2, <3>1, AcceptedWhole
    <3>5. QED BY <2>1, <3>1, <3>2, <3>3, <3>4 DEF Known, Closing, Whole
  <2>3. CASE ~(doc # None /\ Accepted(doc))
    BY <1>6, <2>1, <2>3 DEF CompleteLoad, Known, Closing
  <2>4. QED BY <2>2, <2>3
<1>7. ASSUME NEW arrives \in BOOLEAN, CompleteWrite(arrives) PROVE Known' /\ Closing'
  <2> DEFINE d == mem["complete"].doc
  <2>1. /\ pc["complete"] = "write" /\ client = "completing" /\ Idle /\ Whole(d)
        /\ Sound(d, served) /\ UNCHANGED <<got, served>>
    BY <1>7 DEF CompleteWrite, Closing, Known
  <2>2. \A q \in Session : pc'[q] = IF q = "complete" THEN "idle" ELSE pc[q]
    BY <1>7, GoesKnown DEF CompleteWrite, Ends
  <2>3. doc' = Progress([d EXCEPT !.status = "completed"])
    BY <1>7 DEF CompleteWrite, Write
  <2>4. Sound(doc', served) /\ doc'.marks = d.marks /\ doc'.hash = d.hash
        /\ doc'.status = "completed"
    BY <2>1, <2>3, CompletedSound
  <2>5. \A q \in Session : pc'[q] # "write"
    BY <2>1, <2>2 DEF Idle, Session
  <2>6. Idle' /\ client' \in {"done", "loading"}
    BY <1>7, <2>1, <2>2 DEF CompleteWrite, Idle
  <2>7. QED BY <2>1, <2>4, <2>5, <2>6 DEF Known, Closing, Whole
<1>8. CASE Expire
  BY <1>8 DEF Expire, user, Known, Closing, Whole, Idle
<1>9. CASE Replace
  BY <1>9 DEF Replace, server, user, Known, Closing, Whole, Idle
<1>10. QED
  BY <1>1, <1>2, <1>3, <1>4, <1>5, <1>6, <1>7, <1>8, <1>9 DEF Next

\* With a patient client the document is accounted for, whatever requests that rewrite it
\* (_save_download_session) forget of each other's chunks.
THEOREM DocumentAccounted == Patient => (Spec => []Accounted)
<1> DEFINE Inv == Plain /\ Held /\ Known /\ Closing
<1> SUFFICES ASSUME Patient PROVE Spec => []Accounted
  OBVIOUS
<1>1. Init => Inv
  BY InitType, InitKnown
<1>2. Inv /\ [Next]_vars => Inv'
  BY NextType, NextKnown
<1>3. Inv => Accounted
  BY DEF Known, Closing, Sound, Whole, Accounted
<1>4. QED BY <1>1, <1>2, <1>3, PTL DEF Spec

\* With a patient client a download that complete_download_session confirms is one version
\* of the file, whole.
THEOREM DownloadWhole == Patient => (Spec => []CompletedWhole)
<1> DEFINE Inv == Plain /\ Held /\ Known /\ Closing
<1> SUFFICES ASSUME Patient PROVE Spec => []CompletedWhole
  OBVIOUS
<1>1. Init => Inv
  BY InitType, InitKnown
<1>2. Inv /\ [Next]_vars => Inv'
  BY NextType, NextKnown
<1>3. Inv => CompletedWhole
  BY DEF Closing, Whole, CompletedWhole
<1>4. QED BY <1>1, <1>2, <1>3, PTL DEF Spec

\* The chunks make up the file: each of its bytes is sent with one chunk and no other, whether
\* the last chunk is a short one, a whole one or the only one (total_chunks, start and end of
\* download_file_chunk).
THEOREM ChunksMakeFile ==
  \A b \in 0 .. FileSize - 1 :
    \E i \in Chunk : b \in Served(i) /\ \A j \in Chunk : b \in Served(j) => j = i
<1> SUFFICES ASSUME NEW b \in 0 .. FileSize - 1
             PROVE  \E i \in Chunk : b \in Served(i) /\ \A j \in Chunk : b \in Served(j) => j = i
  OBVIOUS
<1> DEFINE q == b \div ChunkSize
           n == FileSize + ChunkSize - 1
           T == n \div ChunkSize
<1>1. ChunkSize \in Nat /\ ChunkSize > 0 /\ FileSize \in Nat /\ b \in Nat /\ b <= FileSize - 1
  BY DownloadAssumption
<1>2. q \in Nat /\ q * ChunkSize <= b /\ b < (q + 1) * ChunkSize
  BY <1>1, Z3
<1>3. T \in Nat /\ T = Total /\ n < (T + 1) * ChunkSize
  <2>1. n \in Nat
    BY <1>1
  <2>2. T \in Nat /\ n < (T + 1) * ChunkSize
    BY <1>1, <2>1, Z3
  <2>3. QED BY <2>2 DEF Total
<1> HIDE DEF q, T
<1>4. \A k, l \in Nat : k <= l => k * ChunkSize \in Nat /\ k * ChunkSize <= l * ChunkSize
  BY <1>1, Z3
<1>5. \A k \in Nat : (k + 1) * ChunkSize = k * ChunkSize + ChunkSize
  BY <1>1, Z3
<1>6. q < T
  <2> SUFFICES ASSUME T <= q PROVE FALSE
    BY <1>2, <1>3
  <2>1. T * ChunkSize \in Nat /\ q * ChunkSize \in Nat /\ T * ChunkSize <= q * ChunkSize
    BY <1>2, <1>3, <1>4
  <2>2. (T + 1) * ChunkSize = T * ChunkSize + ChunkSize
    BY <1>3, <1>5
  <2>3. QED BY <1>1, <1>2, <1>3, <2>1, <2>2
<1>7. q \in Chunk
  BY <1>2, <1>3, <1>6 DEF Chunk
<1>8. ASSUME NEW j \in Chunk
      PROVE  /\ j \in Nat /\ j * ChunkSize \in Nat
             /\ b \in Served(j) <=> j * ChunkSize <= b /\ b < (j + 1) * ChunkSize
  <2> DEFINE a == j * ChunkSize
             m == Min({a + ChunkSize - 1, FileSize - 1})
  <2>1. j \in Nat /\ a \in Nat
    BY ChunkBegins
  <2>2. m \in {a + ChunkSize - 1, FileSize - 1} /\ m <= a + ChunkSize - 1 /\ m <= FileSize - 1
    <3>1. a + ChunkSize - 1 \in Int /\ FileSize - 1 \in Int
      BY <1>1, <2>1
    <3>2. QED BY <3>1, MinOfTwo
  <2>3. Served(j) = a .. m
    BY DEF Served
  <2>4. (j + 1) * ChunkSize = a + ChunkSize
    BY <1>5, <2>1
  <2> HIDE DEF a, m
  <2>5. b \in Served(j) <=> a <= b /\ b < a + ChunkSize
    BY <1>1, <2>1, <2>2, <2>3
  <2>6. QED BY <2>1, <2>4, <2>5 DEF a
<1>9. b \in Served(q)
  BY <1>2, <1>7, <1>8
<1>10. ASSUME NEW j \in Chunk, b \in Served(j) PROVE j = q
  <2>1. j \in Nat /\ j * ChunkSize \in Nat /\ j * ChunkSize <= b /\ b < (j + 1) * ChunkSize
    BY <1>8, <1>10
  <2>2. q * ChunkSize \in Nat /\ (q + 1) * ChunkSize \in Nat /\ (j + 1) * ChunkSize \in Nat
    BY <1>1, <1>2, <1>4, <2>1
  <2>3. ~(j + 1 <= q)
    BY <1>1, <1>2, <1>4, <2>1, <2>2
  <2>4. ~(q + 1 <= j)
    BY <1>1, <1>2, <1>4, <2>1, <2>2
  <2>5. QED BY <1>2, <2>1, <2>3, <2>4
<1>11. QED BY <1>7, <1>9, <1>10

\* With a patient client, the document of a download that was confirmed has every byte of the
\* file, though parallel requests have forgotten each other's chunks on the way.
THEOREM DoneHasAll ==
  Patient => (Spec => [](client = "done" /\ doc # None => doc.bytes = 0 .. FileSize - 1))
<1> DEFINE Inv == Plain /\ Held /\ Known /\ Closing
           All == client = "done" /\ doc # None => doc.bytes = 0 .. FileSize - 1
<1> SUFFICES ASSUME Patient PROVE Spec => []All
  OBVIOUS
<1>1. Init => Inv
  BY InitType, InitKnown
<1>2. Inv /\ [Next]_vars => Inv'
  BY NextType, NextKnown
<1>3. UNION {Served(i) : i \in Chunk} = 0 .. FileSize - 1
  BY ChunksMakeFile, ServedRange
<1>4. Inv => All
  <2>1. Inv => Accounted
    BY DEF Known, Closing, Sound, Whole, Accounted
  <2>2. Accounted => All
    BY <1>3 DEF Accounted
  <2>3. QED BY <2>1, <2>2
<1> HIDE DEF Inv, All
<1>5. QED BY <1>1, <1>2, <1>4, PTL DEF Spec

-----------------------------------------------------------------------------
(* Numbers, and loops that run over them *)

\* The larger of two numbers.
LEMMA MaxOfTwo ==
  ASSUME NEW a \in Int, NEW b \in Int
  PROVE  Max({a, b}) = IF a <= b THEN b ELSE a
<1>1. \E m \in {a, b} : \A y \in {a, b} : m >= y
  <2>1. CASE a <= b
    BY <2>1
  <2>2. CASE b <= a
    BY <2>2
  <2>3. QED BY <2>1, <2>2
<1>2. Max({a, b}) \in {a, b} /\ \A y \in {a, b} : Max({a, b}) >= y
  BY <1>1 DEF Max
<1>3. QED BY <1>2

\* Induction over the natural numbers.
LEMMA NatSetInduction ==
  ASSUME NEW F, 0 \in F, \A k \in Nat : k \in F => k + 1 \in F
  PROVE  Nat \subseteq F
<1> SUFFICES ASSUME NEW n \in Nat, n \notin F PROVE FALSE
  OBVIOUS
<1> DEFINE G == {k \in Nat : k \notin F}
<1>1. PICK k \in G : \A j \in G : ~(<<j, k>> \in OpToRel(<, Nat))
  BY NatLessThanWellFounded, WFMin, Zenon
<1>2. k # 0 /\ k \in Nat /\ k - 1 \in Nat /\ k - 1 < k
  BY DEF G
<1>3. k - 1 \in F
  <2>1. \A j \in Nat : j < k => <<j, k>> \in OpToRel(<, Nat)
    BY <1>2 DEF OpToRel
  <2>2. QED BY <1>1, <1>2, <2>1
<1>4. QED BY <1>2, <1>3

\* A loop that takes n steps: what it has made after each of them.
LEMMA LoopExists ==
  ASSUME NEW X, NEW x \in X, NEW n \in Nat, NEW step \in [1 .. n -> [X -> X]]
  PROVE  \E f \in [0 .. n -> X] : f[0] = x /\ \A k \in 1 .. n : f[k] = step[k][f[k - 1]]
<1> DEFINE Loop(f, m) == \A k \in 0 .. m : f[k] = IF k = 0 THEN x ELSE step[k][f[k - 1]]
           F == {m \in Nat : m <= n => \E f \in [0 .. n -> X] : Loop(f, m)}
<1>1. 0 \in F
  <2> DEFINE f == [k \in 0 .. n |-> x]
  <2>1. f \in [0 .. n -> X] /\ Loop(f, 0)
    OBVIOUS
  <2>2. QED BY <2>1
<1>2. ASSUME NEW m \in Nat, m \in F PROVE m + 1 \in F
  <2> SUFFICES ASSUME m + 1 <= n PROVE \E f \in [0 .. n -> X] : Loop(f, m + 1)
    OBVIOUS
  <2>1. PICK f \in [0 .. n -> X] : Loop(f, m)
    BY <1>2
  <2> DEFINE g == [f EXCEPT ![m + 1] = step[m + 1][f[m]]]
  <2>2. step[m + 1] \in [X -> X] /\ f[m] \in X
    OBVIOUS
  <2>3. step[m + 1][f[m]] \in X
    BY <2>2
  <2>4. /\ g \in [0 .. n -> X]
        /\ g[m + 1] = step[m + 1][f[m]]
        /\ \A k \in 0 .. m : g[k] = f[k]
    BY <2>3
  <2> HIDE DEF g
  <2>5. Loop(g, m + 1)
    <3> TAKE k \in 0 .. m + 1
    <3>1. CASE k = m + 1
      BY <2>4, <3>1
    <3>2. CASE k \in 0 .. m
      BY <2>1, <2>4, <3>2
    <3>3. QED BY <3>1, <3>2
  <2>6. QED BY <2>4, <2>5
<1> HIDE DEF F
<1>3. n \in F
  BY <1>1, <1>2, NatSetInduction
<1>4. PICK f \in [0 .. n -> X] : Loop(f, n)
  BY <1>3 DEF F
<1>5. f[0] = x /\ \A k \in 1 .. n : f[k] = step[k][f[k - 1]]
  BY <1>4
<1>6. QED BY <1>5

-----------------------------------------------------------------------------
(* Sequences of ranges *)

Ranges == Int \X Int

\* A byte is in one of the ranges; ...
Has(ranges, b) == \E j \in 1 .. Len(ranges) : ranges[j][1] <= b /\ b <= ranges[j][2]

\* ... none of them is empty, ...
Valid(s) == \A j \in 1 .. Len(s) : s[j][1] <= s[j][2]

\* ... they are in the order of their starts, ...
Ordered(s) == \A i, j \in 1 .. Len(s) : i <= j => s[i][1] <= s[j][1]

\* ... there is a gap between any two of them.
Gapped(s) == \A i, j \in 1 .. Len(s) : i < j => s[j][1] > s[i][2] + 1

\* The bytes of a sequence of ranges.
LEMMA BytesHas ==
  ASSUME NEW ranges \in Seq(Ranges)
  PROVE  Bytes(ranges) = {b \in Int : Has(ranges, b)}
<1>1. ToSet(ranges) = {ranges[j] : j \in 1 .. Len(ranges)}
  BY DEF ToSet
<1>2. \A j \in 1 .. Len(ranges) : ranges[j][1] \in Int /\ ranges[j][2] \in Int
  BY DEF Ranges
<1>3. QED BY <1>1, <1>2 DEF Bytes, Has

\* A step of the loop of _merge_ranges: the range joins the last one or follows it.
LEMMA JoinedRight ==
  ASSUME NEW m \in Seq(Ranges), Valid(m), Gapped(m),
         NEW r \in Ranges, r[1] <= r[2], m # <<>> => m[Len(m)][1] <= r[1]
  PROVE  /\ Joined(m, r) \in Seq(Ranges) /\ Valid(Joined(m, r)) /\ Gapped(Joined(m, r))
         /\ Joined(m, r) # <<>> /\ Joined(m, r)[Len(Joined(m, r))][1] <= r[1]
         /\ \A b \in Int : Has(Joined(m, r), b) <=> Has(m, b) \/ (r[1] <= b /\ b <= r[2])
<1> DEFINE n == Len(m)
<1>1. /\ r[1] \in Int /\ r[2] \in Int /\ n \in Nat
      /\ \A j \in 1 .. n : m[j] \in Ranges /\ m[j][1] \in Int /\ m[j][2] \in Int
  BY DEF Ranges
<1>2. CASE m = <<>> \/ r[1] > Last(m)[2] + 1
  <2>1. Joined(m, r) = Append(m, r)
    BY <1>2 DEF Joined
  <2> DEFINE t == Append(m, r)
  <2>2. /\ t \in Seq(Ranges) /\ Len(t) = n + 1 /\ t[n + 1] = r
        /\ \A j \in 1 .. n : t[j] = m[j]
    OBVIOUS
  <2> HIDE DEF t
  <2>3. Valid(t)
    BY <1>1, <2>2 DEF Valid
  <2>4. Gapped(t)
    <3>1. ASSUME NEW i \in 1 .. n PROVE r[1] > m[i][2] + 1
      <4>1. m # <<>> /\ r[1] > m[n][2] + 1
        BY <1>1, <1>2, <3>1 DEF Last
      <4>2. i = n \/ (i < n /\ n \in 1 .. n)
        BY <1>1
      <4>3. i < n => m[n][1] > m[i][2] + 1 /\ m[n][1] <= m[n][2]
        BY <4>2 DEF Gapped, Valid
      <4>4. QED BY <1>1, <4>1, <4>2, <4>3
    <3>2. QED BY <1>1, <2>2, <3>1 DEF Gapped
  <2>5. ASSUME NEW b \in Int
        PROVE  Has(t, b) <=> Has(m, b) \/ (r[1] <= b /\ b <= r[2])
    <3>1. \A j \in 1 .. n + 1 : j \in 1 .. n \/ j = n + 1
      BY <1>1
    <3>2. ASSUME Has(t, b) PROVE Has(m, b) \/ (r[1] <= b /\ b <= r[2])
      <4>1. PICK j \in 1 .. n + 1 : t[j][1] <= b /\ b <= t[j][2]
        BY <2>2, <3>2 DEF Has
      <4>2. CASE j \in 1 .. n
        BY <2>2, <4>1, <4>2 DEF Has
      <4>3. CASE j = n + 1
        BY <2>2, <4>1, <4>3
      <4>4. QED BY <3>1, <4>2, <4>3
    <3>3. ASSUME Has(m, b) PROVE Has(t, b)
      <4>1. PICK j \in 1 .. n : m[j][1] <= b /\ b <= m[j][2]
        BY <3>3 DEF Has
      <4>2. j \in 1 .. n + 1 /\ t[j] = m[j]
        BY <1>1, <2>2
      <4>3. QED BY <2>2, <4>1, <4>2 DEF Has
    <3>4. ASSUME r[1] <= b, b <= r[2] PROVE Has(t, b)
      <4>1. n + 1 \in 1 .. n + 1
        BY <1>1
      <4>2. QED BY <2>2, <3>4, <4>1 DEF Has
    <3>5. QED BY <3>2, <3>3, <3>4
  <2>6. t # <<>> /\ t[Len(t)][1] <= r[1]
    BY <1>1, <2>2
  <2>7. QED BY <2>1, <2>2, <2>3, <2>4, <2>5, <2>6 DEF t
<1>3. CASE m # <<>> /\ ~(r[1] > Last(m)[2] + 1)
  <2> DEFINE e == IF m[n][2] <= r[2] THEN r[2] ELSE m[n][2]
             last == <<m[n][1], e>>
             t == [m EXCEPT ![n] = last]
  <2>1. n \in 1 .. n /\ r[1] <= m[n][2] + 1 /\ m[n][1] <= r[1] /\ m[n][1] <= m[n][2]
    BY <1>1, <1>3 DEF Last, Valid
  <2>2. Joined(m, r) = t
    <3>1. Max({m[n][2], r[2]}) = e
      BY <1>1, <2>1, MaxOfTwo
    <3>2. [m[n] EXCEPT ![2] = e] = last
      BY <1>1, <2>1 DEF Ranges
    <3>3. Joined(m, r) = [m EXCEPT ![n] = [m[n] EXCEPT ![2] = Max({m[n][2], r[2]})]]
      BY <1>3 DEF Joined
    <3>4. QED BY <3>1, <3>2, <3>3
  <2>3. /\ e \in Int /\ m[n][2] <= e /\ r[2] <= e /\ e \in {r[2], m[n][2]}
        /\ last \in Ranges /\ last[1] = m[n][1] /\ last[2] = e
    BY <1>1, <2>1 DEF Ranges
  <2> HIDE DEF e, last
  <2>4. /\ t \in Seq(Ranges) /\ Len(t) = n /\ t[n] = last
        /\ \A j \in 1 .. n : j # n => t[j] = m[j]
    BY <2>1, <2>3
  <2> HIDE DEF t
  <2>5. Valid(t)
    BY <1>1, <2>1, <2>3, <2>4 DEF Valid
  <2>6. Gapped(t)
    <3> SUFFICES ASSUME NEW i \in 1 .. n, NEW j \in 1 .. n, i < j PROVE t[j][1] > t[i][2] + 1
      BY <2>4 DEF Gapped
    <3>1. m[j][1] > m[i][2] + 1 /\ t[i] = m[i] /\ t[j][1] = m[j][1]
      BY <1>1, <2>3, <2>4 DEF Gapped
    <3>2. QED BY <3>1
  <2>7. ASSUME NEW b \in Int
        PROVE  Has(t, b) <=> Has(m, b) \/ (r[1] <= b /\ b <= r[2])
    <3>1. (m[n][1] <= b /\ b <= e) <=> (m[n][1] <= b /\ b <= m[n][2]) \/ (r[1] <= b /\ b <= r[2])
      BY <1>1, <2>1, <2>3
    <3>2. Has(t, b) <=> \E j \in 1 .. n : t[j][1] <= b /\ b <= t[j][2]
      BY <2>4 DEF Has
    <3>3. Has(m, b) <=> \E j \in 1 .. n : m[j][1] <= b /\ b <= m[j][2]
      BY DEF Has
    <3>4. QED BY <2>1, <2>3, <2>4, <3>1, <3>2, <3>3
  <2>8. t # <<>> /\ t[Len(t)][1] <= r[1]
    BY <1>1, <2>1, <2>3, <2>4
  <2>9. QED BY <2>2, <2>4, <2>5, <2>6, <2>7, <2>8
<1>4. QED BY <1>2, <1>3

\* The numbers from 1 to n that are less than the least one that is missing.
LEMMA InitialSegment ==
  ASSUME NEW n \in Nat, NEW S \in SUBSET (1 .. n),
         \A i \in 1 .. n, j \in S : i <= j => i \in S
  PROVE  Cardinality(S) \in 0 .. n /\ S = 1 .. Cardinality(S)
<1> DEFINE F == {k \in Nat : k <= n => (1 .. k \subseteq S \/ \E d \in 0 .. k : S = 1 .. d)}
<1>1. 0 \in F
  OBVIOUS
<1>2. ASSUME NEW k \in Nat, k \in F PROVE k + 1 \in F
  <2> SUFFICES ASSUME k + 1 <= n
               PROVE  1 .. k + 1 \subseteq S \/ \E d \in 0 .. k + 1 : S = 1 .. d
    OBVIOUS
  <2>1. CASE \E d \in 0 .. k : S = 1 .. d
    BY <2>1
  <2>2. CASE 1 .. k \subseteq S /\ k + 1 \in S
    BY <2>2
  <2>3. CASE 1 .. k \subseteq S /\ k + 1 \notin S
    <3>1. \A j \in S : j <= k
      BY <2>3
    <3>2. \A j \in S : j \in 1 .. k
      BY <3>1
    <3>3. S = 1 .. k
      BY <2>3, <3>2
    <3>4. QED BY <3>3
  <2>4. QED BY <1>2, <2>1, <2>2, <2>3
<1> HIDE DEF F
<1>3. n \in F
  BY <1>1, <1>2, NatSetInduction
<1>4. PICK d \in 0 .. n : S = 1 .. d
  <2>1. 1 .. n \subseteq S \/ \E e \in 0 .. n : S = 1 .. e
    BY <1>3 DEF F
  <2>2. CASE 1 .. n \subseteq S
    <3>1. S = 1 .. n
      BY <2>2
    <3>2. QED BY <3>1
  <2>3. QED BY <2>1, <2>2
<1>5. Cardinality(S) = d
  BY <1>4, FS_Interval
<1>6. QED BY <1>4, <1>5

\* A range takes its place among those that are in order; an empty one is left out.
LEMMA InsertedRight ==
  ASSUME NEW s \in Seq(Ranges), Valid(s), Ordered(s), NEW r \in Ranges
  PROVE  /\ Inserted(s, r) \in Seq(Ranges) /\ Valid(Inserted(s, r)) /\ Ordered(Inserted(s, r))
         /\ \A b \in Int : Has(Inserted(s, r), b) <=> Has(s, b) \/ (r[1] <= b /\ b <= r[2])
<1> DEFINE n == Len(s)
           least == {j \in DOMAIN s : s[j][1] <= r[1]}
           c == Cardinality(least)
<1>1. /\ r[1] \in Int /\ r[2] \in Int /\ n \in Nat
      /\ \A j \in 1 .. n : s[j] \in Ranges /\ s[j][1] \in Int /\ s[j][2] \in Int
  BY DEF Ranges
<1>2. CASE ~(r[1] <= r[2])
  <2>1. Inserted(s, r) = s
    BY <1>2 DEF Inserted
  <2>2. \A b \in Int : ~(r[1] <= b /\ b <= r[2])
    BY <1>1, <1>2
  <2>3. QED BY <2>1, <2>2
<1>3. CASE r[1] <= r[2]
  <2>1. c \in 0 .. n /\ least = 1 .. c
    <3>1. least \in SUBSET (1 .. n)
      OBVIOUS
    <3>2. ASSUME NEW i \in 1 .. n, NEW j \in least, i <= j PROVE i \in least
      <4>1. s[i][1] <= s[j][1] /\ s[j][1] <= r[1]
        BY <3>2 DEF Ordered
      <4>2. QED BY <1>1, <4>1
    <3>3. QED BY <1>1, <3>1, <3>2, InitialSegment
  <2>2. \A j \in 1 .. n : s[j][1] <= r[1] <=> j <= c
    BY <2>1
  <2> HIDE DEF c
  <2> DEFINE t == InsertAt(s, c + 1, r)
  <2>3. Inserted(s, r) = t
    BY <1>3 DEF Inserted, c
  <2>4. /\ t \in Seq(Ranges) /\ Len(t) = n + 1
        /\ \A j \in 1 .. c : t[j] = s[j]
        /\ t[c + 1] = r
        /\ \A j \in c + 1 .. n : t[j + 1] = s[j]
    <3> DEFINE u == SubSeq(s, 1, c)
               v == SubSeq(s, c + 1, n)
               w == u \o <<r>>
    <3>1. u \in Seq(Ranges) /\ Len(u) = c /\ \A j \in 1 .. c : u[j] = s[j]
      BY <1>1, <2>1
    <3>2. v \in Seq(Ranges) /\ Len(v) = n - c /\ \A j \in 1 .. n - c : v[j] = s[c + j]
      BY <1>1, <2>1
    <3>3. t = w \o v
      <4>1. (c + 1) - 1 = c
        BY <2>1
      <4>2. QED BY <4>1 DEF InsertAt
    <3> HIDE DEF u, v, t
    <3>4. /\ w \in Seq(Ranges) /\ Len(w) = c + 1
          /\ \A j \in 1 .. c : w[j] = s[j]
          /\ w[c + 1] = r
      BY <2>1, <3>1
    <3> HIDE DEF w
    <3>5. /\ t \in Seq(Ranges) /\ Len(t) = n + 1
          /\ \A j \in 1 .. c + 1 : t[j] = w[j]
          /\ \A j \in 1 .. n - c : t[c + 1 + j] = v[j]
      BY <2>1, <3>2, <3>3, <3>4
    <3>6. ASSUME NEW j \in c + 1 .. n PROVE t[j + 1] = s[j]
      <4>1. j - c \in 1 .. n - c /\ c + 1 + (j - c) = j + 1 /\ c + (j - c) = j
        BY <2>1
      <4>2. QED BY <3>2, <3>5, <4>1
    <3>7. QED BY <2>1, <3>4, <3>5, <3>6
  <2> HIDE DEF t
  <2>5. ASSUME NEW i \in 1 .. n + 1
        PROVE  \/ i \in 1 .. c /\ i \in 1 .. n /\ t[i] = s[i]
               \/ i = c + 1 /\ t[i] = r
               \/ i > c + 1 /\ i - 1 \in c + 1 .. n /\ i - 1 \in 1 .. n /\ t[i] = s[i - 1]
    <3>1. CASE i > c + 1
      <4>1. i - 1 \in c + 1 .. n /\ (i - 1) + 1 = i
        BY <2>1, <3>1
      <4>2. QED BY <2>1, <2>4, <3>1, <4>1
    <3>2. CASE i <= c + 1
      BY <2>1, <2>4, <3>2
    <3>3. QED BY <2>1, <3>1, <3>2
  <2>6. Valid(t)
    <3> SUFFICES ASSUME NEW i \in 1 .. n + 1 PROVE t[i][1] <= t[i][2]
      BY <2>4 DEF Valid
    <3>1. QED BY <1>3, <2>5 DEF Valid
  <2>7. Ordered(t)
    <3> SUFFICES ASSUME NEW i \in 1 .. n + 1, NEW j \in 1 .. n + 1, i <= j
                 PROVE  t[i][1] <= t[j][1]
      BY <2>4 DEF Ordered
    <3>1. CASE i \in 1 .. c
      <4>1. t[i] = s[i] /\ i \in 1 .. n /\ s[i][1] <= r[1]
        BY <2>1, <2>2, <2>4, <3>1
      <4>2. CASE j \in 1 .. c
        BY <2>1, <2>4, <3>1, <4>1, <4>2 DEF Ordered
      <4>3. CASE j = c + 1
        BY <2>4, <4>1, <4>3
      <4>4. CASE j > c + 1
        <5>1. j - 1 \in 1 .. n /\ t[j] = s[j - 1] /\ i <= j - 1
          BY <2>1, <2>5, <3>1, <4>4
        <5>2. QED BY <4>1, <5>1 DEF Ordered
      <4>5. QED BY <2>1, <4>2, <4>3, <4>4
    <3>2. CASE i = c + 1
      <4>1. CASE j = c + 1
        BY <1>1, <2>4, <3>2, <4>1
      <4>2. CASE j > c + 1
        <5>1. j - 1 \in 1 .. n /\ t[j] = s[j - 1] /\ ~(j - 1 <= c)
          BY <2>1, <2>5, <4>2
        <5>2. ~(s[j - 1][1] <= r[1])
          BY <2>2, <5>1
        <5>3. s[j - 1][1] \in Int
          BY <1>1, <5>1
        <5>4. QED BY <1>1, <2>4, <3>2, <5>1, <5>2, <5>3
      <4>3. QED BY <2>1, <3>2, <4>1, <4>2
    <3>3. CASE i > c + 1
      <4>1. i - 1 \in 1 .. n /\ t[i] = s[i - 1] /\ j - 1 \in 1 .. n /\ t[j] = s[j - 1]
        BY <2>1, <2>5, <3>3
      <4>2. QED BY <4>1 DEF Ordered
    <3>4. QED BY <2>1, <3>1, <3>2, <3>3
  <2>8. ASSUME NEW b \in Int
        PROVE  Has(t, b) <=> Has(s, b) \/ (r[1] <= b /\ b <= r[2])
    <3>1. ASSUME Has(t, b) PROVE Has(s, b) \/ (r[1] <= b /\ b <= r[2])
      BY <2>4, <2>5, <3>1 DEF Has
    <3>2. ASSUME Has(s, b) PROVE Has(t, b)
      <4>1. PICK j \in 1 .. n : s[j][1] <= b /\ b <= s[j][2]
        BY <3>2 DEF Has
      <4>2. CASE j \in 1 .. c
        BY <2>1, <2>4, <4>1, <4>2 DEF Has
      <4>3. CASE j \in c + 1 .. n
        <5>1. j + 1 \in 1 .. n + 1 /\ t[j + 1] = s[j]
          BY <2>1, <2>4, <4>3
        <5>2. QED BY <2>4, <4>1, <5>1 DEF Has
      <4>4. QED BY <2>1, <4>2, <4>3
    <3>3. ASSUME r[1] <= b /\ b <= r[2] PROVE Has(t, b)
      <4>1. c + 1 \in 1 .. n + 1
        BY <2>1
      <4>2. QED BY <2>4, <3>3, <4>1 DEF Has
    <3>4. QED BY <3>1, <3>2, <3>3
  <2>9. QED BY <2>3, <2>4, <2>6, <2>7, <2>8
<1>4. QED BY <1>2, <1>3

\* What _merge_ranges sorts: the ranges that are not empty, in the order of their starts.
LEMMA SortedRight ==
  ASSUME NEW ranges \in Seq(Ranges)
  PROVE  /\ Sorted(ranges) \in Seq(Ranges) /\ Valid(Sorted(ranges)) /\ Ordered(Sorted(ranges))
         /\ \A b \in Int : Has(Sorted(ranges), b) <=> Has(ranges, b)
<1> DEFINE n == Len(ranges)
           X == {s \in Seq(Ranges) : Valid(s) /\ Ordered(s)}
           step == [k \in 1 .. n |-> [s \in X |-> Inserted(s, ranges[k])]]
           upTo[k \in 0 .. n] ==
             IF k = 0 THEN <<>> ELSE Inserted(upTo[k - 1], ranges[k])
           In(j, b) == ranges[j][1] <= b /\ b <= ranges[j][2]
           F == {k \in Nat : k <= n =>
                   /\ upTo[k] \in X
                   /\ \A b \in Int : Has(upTo[k], b) <=> \E j \in 1 .. k : In(j, b)}
<1>1. n \in Nat /\ \A k \in 1 .. n : ranges[k] \in Ranges
  OBVIOUS
<1>2. upTo = [k \in 0 .. n |-> IF k = 0 THEN <<>> ELSE Inserted(upTo[k - 1], ranges[k])]
  <2>1. <<>> \in X
    BY DEF Valid, Ordered
  <2>2. \A k \in 1 .. n : \A s \in X : Inserted(s, ranges[k]) \in X
    BY <1>1, InsertedRight
  <2> HIDE DEF X
  <2>3. step \in [1 .. n -> [X -> X]]
    BY <2>2
  <2> HIDE DEF step, upTo
  <2>4. PICK f \in [0 .. n -> X] :
          f[0] = <<>> /\ \A k \in 1 .. n : f[k] = step[k][f[k - 1]]
    <3>1. n \in Nat
      BY <1>1
    <3> DEFINE none == <<>>
    <3>2. none \in X
      BY <2>1
    <3> HIDE DEF n, none
    <3>3. \E f \in [0 .. n -> X] : f[0] = none /\ \A k \in 1 .. n : f[k] = step[k][f[k - 1]]
      BY <2>3, <3>1, <3>2, LoopExists
    <3>4. QED BY <3>3 DEF none
  <2>5. \A k \in 0 .. n : k # 0 => k \in 1 .. n /\ k - 1 \in 0 .. n
    BY <1>1
  <2>6. \A k \in 0 .. n : k # 0 => step[k][f[k - 1]] = Inserted(f[k - 1], ranges[k])
    BY <2>5 DEF step
  <2>7. f = [k \in 0 .. n |-> IF k = 0 THEN <<>> ELSE Inserted(f[k - 1], ranges[k])]
    BY <2>4, <2>6
  <2>8. QED BY <2>7 DEF upTo
<1>3. Sorted(ranges) = upTo[n]
  BY DEF Sorted
<1> HIDE DEF upTo
<1>4. 0 \in F
  <2>1. upTo[0] = <<>>
    BY <1>1, <1>2
  <2>2. <<>> \in X
    BY DEF Valid, Ordered
  <2>3. ASSUME NEW b \in Int PROVE ~Has(<<>>, b) /\ ~(\E j \in 1 .. 0 : In(j, b))
    BY DEF Has
  <2> HIDE DEF X, In
  <2>4. QED BY <2>1, <2>2, <2>3
<1>5. ASSUME NEW k \in Nat, k \in F PROVE k + 1 \in F
  <2> SUFFICES ASSUME k + 1 <= n
               PROVE  /\ upTo[k + 1] \in X
                      /\ \A b \in Int : Has(upTo[k + 1], b) <=> \E j \in 1 .. k + 1 : In(j, b)
    OBVIOUS
  <2>1. k + 1 \in 0 .. n /\ k + 1 \in 1 .. n /\ (k + 1) - 1 = k /\ k + 1 # 0
    BY <1>1
  <2>2. upTo[k + 1] = Inserted(upTo[k], ranges[k + 1])
    BY <1>2, <2>1
  <2>3. upTo[k] \in X /\ \A b \in Int : Has(upTo[k], b) <=> \E j \in 1 .. k : In(j, b)
    BY <1>5
  <2>4. /\ upTo[k + 1] \in X
        /\ \A b \in Int : Has(upTo[k + 1], b) <=> Has(upTo[k], b) \/ In(k + 1, b)
    BY <1>1, <2>1, <2>2, <2>3, InsertedRight
  <2> HIDE DEF X, In
  <2>5. \A b \in Int :
          (\E j \in 1 .. k + 1 : In(j, b)) <=> (\E j \in 1 .. k : In(j, b)) \/ In(k + 1, b)
    OBVIOUS
  <2>6. QED BY <2>3, <2>4, <2>5
<1> HIDE DEF F
<1>6. n \in F
  BY <1>1, <1>4, <1>5, NatSetInduction
<1>7. upTo[n] \in X /\ \A b \in Int : Has(upTo[n], b) <=> \E j \in 1 .. n : In(j, b)
  BY <1>1, <1>6 DEF F
<1>8. QED BY <1>3, <1>7 DEF Has

\* The loop's steps stay among sequences of ranges, whatever they begin with.
LEMMA JoinedType ==
  ASSUME NEW m \in Seq(Ranges), NEW r \in Ranges
  PROVE  Joined(m, r) \in Seq(Ranges)
<1>1. CASE m = <<>> \/ r[1] > Last(m)[2] + 1
  BY <1>1 DEF Joined
<1>2. CASE m # <<>> /\ ~(r[1] > Last(m)[2] + 1)
  <2> DEFINE n == Len(m)
             e == Max({m[n][2], r[2]})
             t == [m[n] EXCEPT ![2] = e]
  <2>1. n \in 1 .. n /\ m[n] \in Ranges /\ m[n][2] \in Int /\ r[2] \in Int
    BY <1>2 DEF Ranges
  <2>2. e \in Int
    BY <2>1, MaxOfTwo
  <2>3. t \in Ranges
    BY <2>1, <2>2 DEF Ranges
  <2>4. Joined(m, r) = [m EXCEPT ![n] = t]
    BY <1>2 DEF Joined
  <2> HIDE DEF t
  <2>5. QED BY <2>1, <2>3, <2>4
<1>3. QED BY <1>1, <1>2

\* What the loop of _merge_ranges makes of them.
LEMMA MergeAny ==
  ASSUME NEW ranges \in Seq(Ranges)
  PROVE  /\ Merge(ranges) \in Seq(Ranges) /\ Valid(Merge(ranges)) /\ Gapped(Merge(ranges))
         /\ \A b \in Int : Has(Merge(ranges), b) <=> Has(ranges, b)
<1> DEFINE valid == Sorted(ranges)
           n == Len(valid)
           X == Seq(Ranges)
           step == [k \in 1 .. n |-> [s \in X |-> Joined(s, valid[k])]]
           upTo[k \in 0 .. n] == IF k = 0 THEN <<>> ELSE Joined(upTo[k - 1], valid[k])
           In(j, b) == valid[j][1] <= b /\ b <= valid[j][2]
           Done(m, k) == /\ m \in X /\ Valid(m) /\ Gapped(m)
                         /\ k # 0 => m # <<>> /\ m[Len(m)][1] <= valid[k][1]
                         /\ k = 0 => m = <<>>
                         /\ \A b \in Int : Has(m, b) <=> \E j \in 1 .. k : In(j, b)
           F == {k \in Nat : k <= n => Done(upTo[k], k)}
<1>1. /\ valid \in X /\ n \in Nat /\ \A k \in 1 .. n : valid[k] \in Ranges
      /\ Valid(valid) /\ Ordered(valid)
      /\ \A b \in Int : Has(valid, b) <=> Has(ranges, b)
  BY SortedRight
<1> HIDE DEF valid
<1>2. upTo = [k \in 0 .. n |-> IF k = 0 THEN <<>> ELSE Joined(upTo[k - 1], valid[k])]
  <2>1. <<>> \in X
    OBVIOUS
  <2>2. \A k \in 1 .. n : \A s \in X : Joined(s, valid[k]) \in X
    BY <1>1, JoinedType
  <2> HIDE DEF X
  <2>3. step \in [1 .. n -> [X -> X]]
    BY <2>2
  <2> HIDE DEF step, upTo
  <2>4. PICK f \in [0 .. n -> X] :
          f[0] = <<>> /\ \A k \in 1 .. n : f[k] = step[k][f[k - 1]]
    <3>1. n \in Nat
      BY <1>1
    <3> DEFINE none == <<>>
    <3>2. none \in X
      BY <2>1
    <3> HIDE DEF n, none
    <3>3. \E f \in [0 .. n -> X] : f[0] = none /\ \A k \in 1 .. n : f[k] = step[k][f[k - 1]]
      BY <2>3, <3>1, <3>2, LoopExists
    <3>4. QED BY <3>3 DEF none
  <2>5. \A k \in 0 .. n : k # 0 => k \in 1 .. n /\ k - 1 \in 0 .. n
    BY <1>1
  <2>6. \A k \in 0 .. n : k # 0 => step[k][f[k - 1]] = Joined(f[k - 1], valid[k])
    BY <2>5 DEF step
  <2>7. f = [k \in 0 .. n |-> IF k = 0 THEN <<>> ELSE Joined(f[k - 1], valid[k])]
    BY <2>4, <2>6
  <2>8. QED BY <2>7 DEF upTo
<1>3. Merge(ranges) = upTo[n]
  BY DEF Merge, valid
<1> HIDE DEF upTo
<1>4. 0 \in F
  <2>1. upTo[0] = <<>>
    BY <1>1, <1>2
  <2>2. <<>> \in X /\ Valid(<<>>) /\ Gapped(<<>>)
    BY DEF Valid, Gapped
  <2>3. ASSUME NEW b \in Int PROVE ~Has(<<>>, b) /\ ~(\E j \in 1 .. 0 : In(j, b))
    BY DEF Has
  <2> HIDE DEF X, In
  <2>4. QED BY <2>1, <2>2, <2>3
<1>5. ASSUME NEW k \in Nat, k \in F PROVE k + 1 \in F
  <2> SUFFICES ASSUME k + 1 <= n PROVE Done(upTo[k + 1], k + 1)
    OBVIOUS
  <2> DEFINE r == valid[k + 1]
             m == upTo[k]
  <2>1. k + 1 \in 0 .. n /\ k + 1 \in 1 .. n /\ (k + 1) - 1 = k /\ k + 1 # 0
    BY <1>1
  <2>2. upTo[k + 1] = Joined(m, r)
    BY <1>2, <2>1
  <2>3. Done(m, k)
    BY <1>5
  <2>4. r \in Ranges /\ r[1] <= r[2]
    BY <1>1, <2>1 DEF Valid
  <2>5. m # <<>> => m[Len(m)][1] <= r[1]
    <3> SUFFICES ASSUME m # <<>> PROVE m[Len(m)][1] <= r[1]
      OBVIOUS
    <3>1. k # 0 /\ m[Len(m)][1] <= valid[k][1]
      BY <2>3
    <3>2. k \in 1 .. n /\ k <= k + 1
      BY <2>1, <3>1
    <3>3. valid[k][1] <= r[1]
      BY <1>1, <2>1, <3>2 DEF Ordered
    <3>4. m[Len(m)][1] \in Int /\ valid[k][1] \in Int /\ r[1] \in Int
      <4>1. \A q \in Ranges : q[1] \in Int
        BY DEF Ranges
      <4>2. Len(m) \in 1 .. Len(m) /\ m \in Seq(Ranges)
        BY <2>3
      <4>3. m[Len(m)] \in Ranges /\ valid[k] \in Ranges
        <5> HIDE DEF m
        <5>1. QED BY <1>1, <3>2, <4>2
      <4>4. QED BY <2>4, <4>1, <4>3
    <3>5. QED BY <3>1, <3>3, <3>4
  <2>6. /\ Joined(m, r) \in X /\ Valid(Joined(m, r)) /\ Gapped(Joined(m, r))
        /\ Joined(m, r) # <<>> /\ Joined(m, r)[Len(Joined(m, r))][1] <= r[1]
        /\ \A b \in Int : Has(Joined(m, r), b) <=> Has(m, b) \/ In(k + 1, b)
    <3>1. m \in Seq(Ranges) /\ Valid(m) /\ Gapped(m)
      BY <2>3
    <3> HIDE DEF m, r
    <3>2. QED BY <2>4, <2>5, <3>1, JoinedRight DEF r
  <2>7. \A b \in Int : Has(m, b) <=> \E j \in 1 .. k : In(j, b)
    BY <2>3
  <2> HIDE DEF X, In, m
  <2>8. \A b \in Int :
          (\E j \in 1 .. k + 1 : In(j, b)) <=> (\E j \in 1 .. k : In(j, b)) \/ In(k + 1, b)
    OBVIOUS
  <2>9. QED BY <2>1, <2>2, <2>6, <2>7, <2>8
<1> HIDE DEF F
<1>6. n \in F
  BY <1>1, <1>4, <1>5, NatSetInduction
<1>7. Done(upTo[n], n)
  BY <1>1, <1>6 DEF F
<1>8. \A b \in Int : Has(upTo[n], b) <=> Has(valid, b)
  BY <1>7 DEF Has
<1>9. QED BY <1>1, <1>3, <1>7, <1>8

-----------------------------------------------------------------------------
(* _merge_ranges *)

\* _merge_ranges keeps the bytes of its ranges and no others, in order, and leaves a gap
\* between any two, for all sequences of pairs of integers: of any length, in any order,
\* overlapping, adjacent or empty.
THEOREM MergedRanges ==
  ASSUME NEW ranges \in Seq(Ranges)
  PROVE  /\ Merge(ranges) \in Seq(Ranges)
         /\ Bytes(Merge(ranges)) = Bytes(ranges)
         /\ \A k \in 1 .. Len(Merge(ranges)) :
              /\ Merge(ranges)[k][1] <= Merge(ranges)[k][2]
              /\ k > 1 => Merge(ranges)[k][1] > Merge(ranges)[k - 1][2] + 1
<1> DEFINE m == Merge(ranges)
<1>1. /\ m \in Seq(Ranges) /\ Valid(m) /\ Gapped(m)
      /\ \A b \in Int : Has(m, b) <=> Has(ranges, b)
  BY MergeAny
<1> HIDE DEF m
<1>2. Bytes(m) = Bytes(ranges)
  BY <1>1, BytesHas
<1>3. ASSUME NEW k \in 1 .. Len(m)
      PROVE  m[k][1] <= m[k][2] /\ (k > 1 => m[k][1] > m[k - 1][2] + 1)
  <2>1. k > 1 => k - 1 \in 1 .. Len(m) /\ k - 1 < k
    BY <1>1
  <2>2. QED BY <1>1, <2>1 DEF Valid, Gapped
<1>4. QED BY <1>1, <1>2, <1>3 DEF m

\* In particular what the run looks at: _merge_ranges on short sequences of small ranges.
THEOREM MergeCorrect == Spec => []MergeRight
<1>1. MergeRight
  <2> SUFFICES ASSUME NEW ranges \in SeqOf((0..3) \X (0..3), 3)
               PROVE  LET merged == Merge(ranges)
                      IN  /\ Bytes(merged) = Bytes(ranges)
                          /\ \A k \in 1 .. Len(merged) :
                               /\ merged[k][1] <= merged[k][2]
                               /\ k > 1 => merged[k][1] > merged[k - 1][2] + 1
    BY DEF MergeRight
  <2>1. PICK n \in 0 .. 3 : ranges \in [1 .. n -> (0..3) \X (0..3)]
    BY DEF SeqOf
  <2>2. ranges \in Seq(Ranges)
    <3>1. (0..3) \X (0..3) \subseteq Ranges
      BY DEF Ranges
    <3>2. ranges \in [1 .. n -> Ranges] /\ n \in Nat
      BY <2>1, <3>1
    <3>3. QED BY <3>2
  <2>3. QED BY <2>2, MergedRanges
<1>2. QED BY <1>1, PTL

\* Why the model keeps the bytes of the document's ranges and not the ranges:
\* _apply_download_progress marks a chunk a .. b if one of the merged ranges covers it
\* (any(a <= start and b >= end)), which is to say if its bytes are all there; and it finds
\* no range if and only if there is no byte.
THEOREM RangesAsBytes ==
  ASSUME NEW ranges \in Seq(Ranges), NEW a \in Int, NEW b \in Int, a <= b
  PROVE  /\ a .. b \subseteq Bytes(ranges) <=>
              \E k \in 1 .. Len(Merge(ranges)) :
                Merge(ranges)[k][1] <= a /\ b <= Merge(ranges)[k][2]
         /\ Merge(ranges) = <<>> <=> Bytes(ranges) = {}
<1> DEFINE m == Merge(ranges)
           n == Len(m)
<1>1. /\ m \in Seq(Ranges) /\ Valid(m) /\ Gapped(m)
      /\ \A c \in Int : Has(m, c) <=> Has(ranges, c)
  BY MergeAny
<1>2. \A k \in 1 .. n : m[k][1] \in Int /\ m[k][2] \in Int
  <2>1. \A k \in 1 .. n : m[k] \in Ranges
    BY <1>1
  <2>2. QED BY <2>1 DEF Ranges
<1>3. n \in Nat
  BY <1>1
<1> HIDE DEF m
<1>4. Bytes(ranges) = {c \in Int : Has(m, c)}
  BY <1>1, BytesHas
<1>5. ASSUME NEW k \in 1 .. n, m[k][1] <= a, b <= m[k][2] PROVE a .. b \subseteq Bytes(ranges)
  <2>1. \A c \in a .. b : m[k][1] <= c /\ c <= m[k][2]
    BY <1>2, <1>5
  <2>2. QED BY <1>4, <2>1 DEF Has
<1>6. ASSUME a .. b \subseteq Bytes(ranges)
      PROVE  \E k \in 1 .. n : m[k][1] <= a /\ b <= m[k][2]
  <2>1. \A c \in Int : a <= c /\ c <= b => Has(m, c)
    BY <1>4, <1>6
  <2>2. PICK k \in 1 .. n : m[k][1] <= a /\ a <= m[k][2]
    BY <2>1 DEF Has
  <2>3. b <= m[k][2]
    <3> SUFFICES ASSUME m[k][2] < b PROVE FALSE
      BY <1>2
    <3> DEFINE c == m[k][2] + 1
    <3>1. c \in Int /\ a <= c /\ c <= b
      BY <1>2, <2>2
    <3>2. PICK j \in 1 .. n : m[j][1] <= c /\ c <= m[j][2]
      BY <2>1, <3>1 DEF Has
    <3>3. CASE j < k
      <4>1. m[k][1] > m[j][2] + 1 /\ m[k][1] <= m[k][2]
        BY <1>1, <3>3 DEF Gapped, Valid
      <4>2. QED BY <1>2, <3>2, <4>1
    <3>4. CASE j = k
      BY <1>2, <3>2, <3>4
    <3>5. CASE k < j
      <4>1. m[j][1] > m[k][2] + 1
        BY <1>1, <3>5 DEF Gapped
      <4>2. QED BY <1>2, <3>2, <4>1
    <3>6. QED BY <1>3, <3>3, <3>4, <3>5
  <2>4. QED BY <2>2, <2>3
<1>7. m = <<>> <=> Bytes(ranges) = {}
  <2>1. ASSUME m # <<>> PROVE Bytes(ranges) # {}
    <3>1. 1 \in 1 .. n
      BY <1>1, <2>1
    <3>2. m[1][1] \in Int /\ m[1][1] <= m[1][2]
      BY <1>1, <1>2, <3>1 DEF Valid
    <3>3. Has(m, m[1][1])
      BY <1>2, <3>1, <3>2 DEF Has
    <3>4. QED BY <1>4, <3>2, <3>3
  <2>2. ASSUME m = <<>> PROVE Bytes(ranges) = {}
    BY <1>4, <2>2 DEF Has
  <2>3. QED BY <2>1, <2>2
<1>8. QED BY <1>5, <1>6, <1>7 DEF m
=============================================================================
